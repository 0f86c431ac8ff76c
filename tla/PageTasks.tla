------------------------------- MODULE PageTasks -------------------------------
(***************************************************************************)
(* What every page of the GUI has in common (gui/src/bridge): its slots run *)
(* to their end on the Qt thread; the requests they spawn run concurrently  *)
(* on Tokio (gui/src/runtime.rs) and queue a closure for the Qt thread,     *)
(* which runs the closures in order.  A request holds a cancellation token  *)
(* that the bridge keeps under a slot name, and the generation it was made  *)
(* in.  The page modules extend this one and so share its variables.        *)
(***************************************************************************)
EXTENDS Integers, Sequences, SequencesExt, FiniteSets

CONSTANTS
    Items,          \* the volumes, images, networks or containers of a page
    None,
    MaxActions,     \* bound on what the user and the connection do
    MaxUnderWay     \* requests and closures under way when they act

ASSUME PageAssumption ==
    /\ None \notin Items /\ IsFiniteSet(Items)
    /\ {MaxActions, MaxUnderWay} \subseteq Nat

VARIABLES
    state,          \* the Qt-free controller
    bridge,         \* the request whose token each slot name holds (0: none)
    running,        \* requests on Tokio
    queue,          \* closures for the Qt thread
    serial,         \* requests so far
    docker,         \* what the Docker Engine has
    client,         \* whether daemon_services() has a connection
    docker_ready,
    lost_at,        \* requests made before the last lost connection
    actions         \* actions so far

vars == <<state, bridge, running, queue, serial, docker, client, docker_ready, lost_at, actions>>

(* The orders the sort modes can put the rows in.                           *)
Orders == {s \in [1..Cardinality(Items) -> Items] : IsInjective(s)}

InitTasks(slots) ==
    /\ bridge = [s \in slots |-> 0]
    /\ running = {} /\ queue = <<>> /\ serial = 0
    /\ client \in BOOLEAN /\ docker_ready = FALSE
    /\ lost_at = 0 /\ actions = 0

-----------------------------------------------------------------------------
(* m is what a slot or a closure changes: state, bridge, running, serial.  *)

Model == [state |-> state, bridge |-> bridge, running |-> running, serial |-> serial]

Becomes(m) ==
    /\ state' = m.state /\ bridge' = m.bridge
    /\ running' = m.running /\ serial' = m.serial

With(m, s) == [m EXCEPT !.state = s]

(* A request; silent ones return without a closure once cancelled.          *)
Asked(kind, v, target, g) ==
    [id |-> 0, slot |-> "", kind |-> kind, name |-> v, target |-> target, gen |-> g,
     silent |-> FALSE, cancelled |-> FALSE, phase |-> "asked"]
Silent(t) == [t EXCEPT !.silent = TRUE]

Cancel(tasks, ids) == {[t EXCEPT !.cancelled = @ \/ t.id \in ids] : t \in tasks}

(* token.cancel() of a slot, with the token kept and with the token taken.  *)
CancelSlot(m, slot) == [m EXCEPT !.running = Cancel(@, {m.bridge[slot]})]
Take(m, slot) == [CancelSlot(m, slot) EXCEPT !.bridge[slot] = 0]
TakeAll(m, slots) ==
    [m EXCEPT !.bridge = [s \in DOMAIN @ |-> IF s \in slots THEN 0 ELSE @[s]],
              !.running = Cancel(@, {m.bridge[s] : s \in slots})]
Forget(m, slot) == [m EXCEPT !.bridge[slot] = 0]

(* runtime::spawn of a request whose token replaces the slot's.             *)
Spawn(m, slot, t) ==
    LET id == m.serial + 1 IN
    [m EXCEPT !.serial = id, !.bridge[slot] = id,
              !.running = @ \cup {[t EXCEPT !.id = id, !.slot = slot]}]

-----------------------------------------------------------------------------

Acts ==
    /\ actions < MaxActions
    /\ actions' = actions + 1
    /\ Cardinality(running) + Len(queue) < MaxUnderWay

(* A slot that leaves the connection alone.                                 *)
Does(m) == Becomes(m) /\ UNCHANGED <<queue, docker, client, docker_ready, lost_at>>

(* shutdown, when the main window closes: nobody asks for anything after it. *)
Closed == actions > MaxActions
Closes(m) ==
    /\ actions < MaxActions
    /\ actions' = MaxActions + 1
    /\ lost_at' = serial
    /\ Becomes(m)
    /\ UNCHANGED <<queue, docker, client, docker_ready>>

(* The connection to the daemon comes and goes; the page hears of it later. *)
ClientChanges ==
    /\ client' = ~client
    /\ UNCHANGED <<state, bridge, running, queue, serial, docker, docker_ready, lost_at>>

-----------------------------------------------------------------------------
(* Requests on Tokio.                                                      *)

Qt == <<state, bridge, serial, client, docker_ready, lost_at, actions>>

(* The request t queues its closure and ends.                               *)
Answers(t, result) ==
    /\ queue' = Append(queue, [task |-> t, result |-> result])
    /\ running' = running \ {t}
    /\ UNCHANGED Qt

(* The engine carries out the request; the answer is still to come.         *)
CarriesOut(t, after) ==
    /\ t.phase = "asked"
    /\ docker' \in after
    /\ running' = (running \ {t}) \cup {[t EXCEPT !.phase = "done"]}
    /\ UNCHANGED <<Qt, queue>>

(* A request for data that is in the engine, or that fails.                 *)
Reads(t, found) ==
    /\ \/ found # None /\ Answers(t, [kind |-> "ok", data |-> found])
       \/ Answers(t, [kind |-> "error", data |-> None])
    /\ UNCHANGED docker

Refused(t) ==
    /\ t.phase = "asked"
    /\ Answers(t, [kind |-> "error", data |-> None])
    /\ UNCHANGED docker

(* select! sees the cancelled token first.  It may also see the answer first. *)
GivesUp(t) ==
    /\ t.silent /\ t.cancelled
    /\ running' = running \ {t}
    /\ UNCHANGED <<Qt, queue, docker>>

(* The closure at the head of the queue runs on the Qt thread.              *)
RunsNext(m) ==
    /\ queue' = Tail(queue)
    /\ Becomes(m)
    /\ UNCHANGED <<docker, client, docker_ready, lost_at, actions>>

(* The requests whose closure will run.                                     *)
UnderWay == {t \in running : ~(t.silent /\ t.cancelled)} \cup {queue[i].task : i \in DOMAIN queue}
=============================================================================
