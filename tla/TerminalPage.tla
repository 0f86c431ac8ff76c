------------------------------ MODULE TerminalPage ------------------------------
(***************************************************************************)
(* The Terminal tab of the containers page: gui/src/controllers/            *)
(* container_terminal.rs and gui/src/bridge/container_terminal_bridge.rs.   *)
(* Connecting opens an exec session through the daemon; once it is there    *)
(* one task forwards input, another brings output to the VT100 renderer.    *)
(*                                                                         *)
(* docker is the sessions that are open at the daemon.  A session is known  *)
(* by the request that opened it.  screen is the containers whose output    *)
(* has been painted since the renderer was last reset.                      *)
(***************************************************************************)
EXTENDS PageTasks

Containers == Items
Slots == {"connection", "output", "input", "resize"}

Default ==
    [st |-> "Idle", container |-> None, running |-> FALSE, active |-> FALSE, generation |-> 0,
     session |-> 0, screen |-> [generation |-> 0, painted |-> {}]]

Init ==
    /\ state = Default
    /\ docker = {}
    /\ InitTasks(Slots)

-----------------------------------------------------------------------------
(* ContainerTerminalRenderer.                                              *)

reset(s) == [s EXCEPT !.screen = [generation |-> s.generation, painted |-> {}]]

(* Mutant: a chunk of an earlier session is painted too.                    *)
ProcessAny(s, g, c) == [s EXCEPT !.screen.painted = @ \cup {c}]

process(s, g, c) ==
    IF g # s.screen.generation THEN s ELSE [s EXCEPT !.screen.painted = @ \cup {c}]

-----------------------------------------------------------------------------
(* ContainerTerminalControllerState; Ended is its Exited and its Error.     *)

had_session(s) == s.st \in {"Connecting", "Ready"}
may_connect(s) == s.active /\ s.running /\ s.container # None

begin_connect(s) == [s EXCEPT !.generation = @ + 1, !.st = "Connecting"]

selected(s, c, up) ==
    [s EXCEPT !.generation = @ + 1, !.container = c, !.running = up, !.st = "Idle"]

apply_connect_error(s, g) ==
    IF g # s.generation \/ s.st # "Connecting" THEN s ELSE [s EXCEPT !.st = "Ended"]

(* apply_exited, apply_stream_error.                                        *)
apply_end(s) == [s EXCEPT !.st = "Ended"]

container_event_invalidated(s) ==
    [s EXCEPT !.running = FALSE, !.generation = @ + 1, !.st = "Ended"]

close(s) ==
    [s EXCEPT !.generation = @ + 1, !.st = IF s.container = None THEN "Idle" ELSE "Ended"]

-----------------------------------------------------------------------------
(* The bridge.                                                             *)

(* A task that closes a session; nothing holds its token.                   *)
Closer(m, id) ==
    LET n == m.serial + 1 IN
    [m EXCEPT !.serial = n,
              !.running = @ \cup {[Asked("close", None, id, 0) EXCEPT !.id = n]}]

(* Mutant: the session is dropped without being closed.                     *)
DropsSession(m) == [TakeAll(m, Slots) EXCEPT !.state.session = 0]

close_resources(m) ==
    LET n == [TakeAll(m, Slots) EXCEPT !.state.session = 0] IN
    IF m.state.session = 0 THEN n ELSE Closer(n, m.state.session)

start_connect(m) ==
    LET n == close_resources(m)
        s == reset(n.state) IN
    IF ~client THEN With(n, apply_connect_error(s, s.generation))
    ELSE Spawn(With(n, s), "connection", Asked("connect", s.container, 0, s.generation))

Connects(m, s) == start_connect(With(m, begin_connect(s)))

set_selection(c, up) ==
    LET s == selected(state, c, up)
        m == With(Model, s)
        closed == IF c # state.container \/ had_session(state) THEN close_resources(m) ELSE m IN
    /\ <<c, up>> # <<state.container, state.running>>
    /\ Does(IF may_connect(s) THEN Connects(Model, s)
            ELSE IF c # state.container THEN With(closed, reset(closed.state)) ELSE closed)

clear_selection ==
    LET m == close_resources(With(Model, selected(state, None, FALSE))) IN
    state.container # None /\ Does(With(m, reset(m.state)))

(* Leaving the tab keeps the session.                                       *)
update_active(active) ==
    LET s == [state EXCEPT !.active = active] IN
    /\ active # state.active
    /\ Does(IF may_connect(s) /\ s.st = "Idle" THEN Connects(Model, s) ELSE With(Model, s))

retry ==
    LET m == close_resources(Model) IN
    /\ state.st = "Ended"
    /\ Does(IF may_connect(state) THEN Connects(m, m.state) ELSE m)

(* A stop, die or restart event of the container.                           *)
invalidate_container ==
    /\ state.container # None
    /\ Does(close_resources(With(Model, container_event_invalidated(state))))

(* send_text, send_key and paste; the queue takes the bytes or is full.     *)
queue_input ==
    /\ state.st = "Ready" /\ state.session # 0
    /\ Does(close_resources(With(Model, apply_end(state))))

resize ==
    /\ state.st = "Ready" /\ state.session # 0
    /\ Does(Spawn(Take(Model, "resize"), "resize",
                  Silent(Asked("resize", state.container, state.session, state.generation))))

shutdown == Closes(close_resources(With(Model, close(state))))

-----------------------------------------------------------------------------
(* Tokio.                                                                  *)

Session(t) == [id |-> t.id, of |-> t.name]

ConnectOpens(t) == t.kind = "connect" /\ CarriesOut(t, {docker \cup {Session(t)}})

(* connect, the first resize or take_output failed; the session is closed.  *)
ConnectFails(t) ==
    /\ t.kind = "connect"
    /\ Answers(t, [kind |-> "error", data |-> None])
    /\ docker' = docker \ {Session(t)}

ConnectAnswers(t) ==
    /\ t.kind = "connect" /\ t.phase = "done" /\ ~t.cancelled
    /\ Answers(t, [kind |-> "ok", data |-> None])
    /\ UNCHANGED docker

(* Cancelled: the session is closed here, nobody else knows of it.          *)
ConnectCancelled(t) ==
    /\ t.kind = "connect" /\ t.cancelled
    /\ docker' = docker \ {Session(t)}
    /\ running' = running \ {t}
    /\ UNCHANGED <<Qt, queue>>

SessionCloses(t) ==
    /\ t.kind = "close"
    /\ docker' = {s \in docker : s.id # t.target}
    /\ running' = running \ {t}
    /\ UNCHANGED <<Qt, queue>>

(* run_output: a flush, then the end of the stream.                         *)
OutputFlushed(t) ==
    /\ t.kind = "output" /\ t.phase = "asked"
    /\ queue' = Append(queue, [task |-> t, result |-> [kind |-> "chunk", data |-> None]])
    /\ running' = (running \ {t}) \cup {[t EXCEPT !.phase = "done"]}
    /\ UNCHANGED <<Qt, docker>>

StreamEnds(t) ==
    /\ t.kind \in {"output", "input"}
    /\ Answers(t, [kind |-> "end", data |-> None])
    /\ UNCHANGED docker

ResizeDone(t) ==
    /\ t.kind = "resize"
    /\ \/ running' = running \ {t} /\ UNCHANGED <<Qt, queue>>
       \/ Answers(t, [kind |-> "error", data |-> None])
    /\ UNCHANGED docker

-----------------------------------------------------------------------------
(* Closures.                                                               *)

start_io(m, t) ==
    LET s == [m.state EXCEPT !.st = "Ready", !.session = t.id]
        io(kind) == Silent(Asked(kind, t.name, t.id, t.gen)) IN
    Spawn(Spawn(With(m, s), "input", io("input")), "output", io("output"))

ConnectClosure(m, t, result) ==
    IF t.gen # state.generation \/ state.st # "Connecting"
    THEN IF result.kind = "ok" THEN Closer(m, t.id) ELSE m
    ELSE LET n == Forget(m, "connection") IN
         IF result.kind = "ok" THEN start_io(n, t)
         ELSE With(n, apply_connect_error(state, t.gen))

(* Mutant: the end of an earlier session ends this one.                     *)
EndOfAny(m, t) == close_resources(With(m, apply_end(state)))

EndClosure(m, t) ==
    IF t.gen # state.generation THEN m ELSE close_resources(With(m, apply_end(state)))

ResizeClosure(m, t) ==
    IF t.gen # state.generation \/ state.st # "Ready" THEN m
    ELSE close_resources(With(m, apply_end(state)))

Closure(t, result) ==
    CASE t.kind = "connect" -> ConnectClosure(Model, t, result)
      [] t.kind = "resize" -> ResizeClosure(Model, t)
      [] result.kind = "chunk" -> With(Model, process(state, t.gen, t.name))
      [] OTHER -> EndClosure(Model, t)

ClosureRuns == queue # <<>> /\ RunsNext(Closure(Head(queue).task, Head(queue).result))

-----------------------------------------------------------------------------

User ==
    \/ \E c \in Containers, up \in BOOLEAN : set_selection(c, up)
    \/ clear_selection \/ retry \/ invalidate_container \/ queue_input \/ resize
    \/ \E active \in BOOLEAN : update_active(active)

(* The tab is first shown, with a running container selected.               *)
FirstShown ==
    /\ state = Default /\ actions = 0
    /\ \E c \in Containers :
          Does(Connects(Model, [selected(state, c, TRUE) EXCEPT !.active = TRUE]))
    /\ UNCHANGED actions

Tokio ==
    \E t \in running :
        \/ ConnectOpens(t) \/ ConnectFails(t) \/ ConnectAnswers(t) \/ ConnectCancelled(t)
        \/ SessionCloses(t) \/ OutputFlushed(t) \/ StreamEnds(t) \/ ResizeDone(t) \/ GivesUp(t)

Next ==
    \/ FirstShown
    \/ Acts /\ (User \/ ClientChanges)
    \/ shutdown
    \/ Tokio
    \/ ClosureRuns

-----------------------------------------------------------------------------
(* Properties.                                                             *)

TypeOK ==
    /\ state.st \in {"Idle", "Connecting", "Ready", "Ended"}
    /\ state.container \in Containers \cup {None}
    /\ state.screen.painted \subseteq Containers
    /\ \A s \in docker : s.id \in 1..serial /\ s.of \in Containers

(* A page that connects has its request under way; one that is ready has    *)
(* its session, and the task that will tell of the session's end.           *)
BusyHasRequest ==
    /\ state.st = "Connecting" =>
          \E t \in UnderWay : t.kind = "connect" /\ t.gen = state.generation
    /\ (state.st = "Ready") = (state.session # 0)
    /\ state.st = "Ready" =>
          \E t \in UnderWay : t.kind = "output" /\ t.gen = state.generation /\ t.target = state.session

(* "impossible for a queued chunk from an old Docker exec to paint a newly  *)
(* selected container's screen".                                            *)
DetailOfSelection == state.screen.painted \subseteq {state.container}

(* Every open session is the page's own or is about to be handed over or    *)
(* closed, whatever was selected, retried or shut down meanwhile.           *)
SessionsOwned ==
    \A s \in docker :
        \/ s.id = state.session
        \/ \E t \in running : \/ t.kind = "connect" /\ t.id = s.id
                              \/ t.kind = "close" /\ t.target = s.id
        \/ \E i \in DOMAIN queue : queue[i].task.id = s.id
=============================================================================
