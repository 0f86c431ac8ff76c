----------------------------- MODULE AppController -----------------------------
(***************************************************************************)
(* The GUI's connection to the daemon: gui/src/bridge/app_bridge.rs with    *)
(* gui/src/app_state.rs and gui/src/error.rs.  An attempt connects and asks *)
(* for the status; a watch follows the daemon's events and notices a lost   *)
(* connection; a timer starts the next attempt; a daemon that is not there  *)
(* is started at most once in fifteen seconds.                              *)
(*                                                                         *)
(* The daemon, Docker and the mount may change at any time: an attempt      *)
(* succeeds or fails, and a status is any of the daemon's.  The client and  *)
(* the status are known by the generation of their attempt.                 *)
(***************************************************************************)
EXTENDS PageTasks

CONSTANTS
    MaxAttempts,    \* bound on the attempts to connect
    MaxQueued       \* bound on the events that wait for the Qt thread

Statuses == [engine : {"Connected", "Reconnecting"}, mount : {"Mounted", "Unmounted"}]

Default ==
    [generation |-> 0, client |-> 0, status |-> 0, of |-> 0, text |-> "status", spawned |-> FALSE,
     overview_loading |-> FALSE, overview |-> 0]

Init ==
    /\ state = Default
    /\ docker = None
    /\ InitTasks({}) /\ ~client

(* Unavailable is as Reconnecting.                                          *)
daemon_status_text(status) ==
    CASE status.engine = "Reconnecting" -> 2
      [] status.engine = "Unknown" -> 4
      [] status.mount = "Mounted" -> 1
      [] OTHER -> 6

(* AppError::from and AppError::status_code.                                *)
status_code(error) ==
    CASE error \in {"DaemonUnavailable", "SocketNotFound"} -> 5
      [] error \in {"EngineUnavailable", "ConnectionTimeout"} -> 2
      [] error = "FuseUnavailable" -> 6
      [] error = "PermissionDenied" -> 3
      [] OTHER -> 4

-----------------------------------------------------------------------------
(* Nothing cancels these tasks; id tells alike ones apart.                  *)
Starts(m, kind, item, g) ==
    LET id == Cardinality({t \in m.running : t.kind = kind /\ t.gen = g}) IN
    [m EXCEPT !.running = @ \cup {[Asked(kind, item, 0, g) EXCEPT !.id = id]}]

Says(s, code) == [s EXCEPT !.status = code, !.of = s.generation, !.text = "status"]

(* set_client and clear_client are part of what a slot or closure does.     *)
AppBecomes(m) == Becomes(m) /\ client' = (m.state.client # 0)
AppDoes(m) == AppBecomes(m) /\ UNCHANGED <<queue, docker, docker_ready, lost_at>>

startup(m) ==
    LET s == Says([m.state EXCEPT !.client = 0, !.generation = @ + 1], 0) IN
    Starts(With(m, s), "connect", None, s.generation)

schedule_reconnect(m, g) == Starts(m, "timer", None, g)

start_daemon_subscriptions(m, g) == Starts(m, "watch", None, g)

refresh_overview(m) ==
    IF m.state.client = 0 THEN m
    ELSE Starts(With(m, [m.state EXCEPT !.overview_loading = TRUE]), "overview", None, m.state.client)

try_start_service(m) ==
    IF m.state.spawned THEN m
    ELSE Starts(With(m, Says([m.state EXCEPT !.spawned = TRUE], 0)), "spawn", None, 0)

request_start_service(m) == IF m.state.client # 0 THEN m ELSE try_start_service(m)

open_container_terminal(m, c) ==
    IF m.state.client = 0 THEN m ELSE Starts(m, "inspect", c, m.state.generation)

(* The window opens; Retry, Start Service, Refresh and Open Terminal.       *)
Startup == state.generation < MaxAttempts /\ AppDoes(startup(Model))
User ==
    /\ state.generation > 0
    /\ \/ AppDoes(request_start_service(Model))
       \/ AppDoes(refresh_overview(Model))
       \/ \E c \in Items : AppDoes(open_container_terminal(Model, c))

(* Fifteen seconds after last_spawn_attempt.                                *)
ThrottleEnds == state.spawned /\ AppDoes(With(Model, [state EXCEPT !.spawned = FALSE])) /\ UNCHANGED actions

-----------------------------------------------------------------------------
(* Tokio.                                                                  *)

(* Client::connect, then GetDaemonStatus.                                   *)
ConnectAnswers(t) ==
    /\ t.kind = "connect"
    /\ \/ \E status \in Statuses : Answers(t, [kind |-> "ok", data |-> daemon_status_text(status)])
       \/ \E error \in {"SocketNotFound", "ConnectionTimeout"} :
             Answers(t, [kind |-> "error", data |-> status_code(error)])
    /\ UNCHANGED docker

(* Both subscriptions, or the task ends there.                              *)
Subscribes(t) ==
    /\ t.kind = "watch" /\ t.phase = "asked"
    /\ \/ running' = (running \ {t}) \cup {[t EXCEPT !.phase = "done"]}
       \/ running' = running \ {t}
    /\ UNCHANGED <<Qt, queue, docker>>

Hears(t) ==
    /\ t.kind = "watch" /\ t.phase = "done" /\ Len(queue) < MaxQueued
    /\ \E status \in Statuses :
          queue' = Append(queue, [task |-> t, result |->
                        [kind |-> "status", data |-> daemon_status_text(status)]])
    /\ UNCHANGED <<Qt, running, docker>>

WatchEnds(t) ==
    /\ t.kind = "watch" /\ t.phase = "done"
    /\ Answers(t, [kind |-> "lost", data |-> None])
    /\ UNCHANGED docker

TimerFires(t) ==
    /\ t.kind = "timer" /\ state.generation < MaxAttempts
    /\ Answers(t, [kind |-> "ok", data |-> None])
    /\ UNCHANGED docker

OverviewAnswers(t) ==
    /\ t.kind = "overview"
    /\ \E kind \in {"ok", "error"} : Answers(t, [kind |-> kind, data |-> None])
    /\ UNCHANGED docker

(* resolve_daemon_launch finds something to run, or not.                    *)
spawn_tuxstackd(t) ==
    /\ t.kind = "spawn"
    /\ \E kind \in {"ok", "error"} : Answers(t, [kind |-> kind, data |-> None])
    /\ UNCHANGED docker

InspectAnswers(t) ==
    /\ t.kind = "inspect"
    /\ \E kind \in {"ok", "error"} : Answers(t, [kind |-> kind, data |-> None])
    /\ UNCHANGED docker

-----------------------------------------------------------------------------
(* Closures.                                                               *)

Current(t) == t.gen = state.generation

ConnectClosure(m, t, result) ==
    IF ~Current(t) THEN m
    ELSE IF result.kind = "error"
    THEN try_start_service(schedule_reconnect(With(m, Says(state, result.data)), t.gen))
    ELSE LET n == start_daemon_subscriptions(
                    With(m, Says([state EXCEPT !.client = t.gen], result.data)), t.gen) IN
         IF result.data \in {1, 6} THEN refresh_overview(n) ELSE n

EventClosure(m, t, result) ==
    IF ~Current(t) THEN m ELSE With(m, Says(state, result.data))

LostClosure(m, t) ==
    IF ~Current(t) THEN m
    ELSE schedule_reconnect(With(m, Says([state EXCEPT !.client = 0], 5)), t.gen)

OverviewClosure(m, t, result) ==
    With(m, [state EXCEPT !.overview_loading = FALSE,
                          !.overview = IF result.kind = "ok" THEN t.gen ELSE 0])

(* An inspected container that runs has a terminal launched for it, which   *)
(* is SettingsPage's.                                                       *)
Closure(m, t, result) ==
    CASE t.kind = "connect" -> ConnectClosure(m, t, result)
      [] t.kind = "watch" /\ result.kind = "lost" -> LostClosure(m, t)
      [] t.kind = "watch" -> EventClosure(m, t, result)
      [] t.kind = "timer" -> (IF Current(t) THEN startup(m) ELSE m)
      [] t.kind = "overview" -> OverviewClosure(m, t, result)
      [] t.kind = "spawn" -> With(m, [state EXCEPT !.text = "spawn"])
      [] t.kind = "inspect" -> m

ClosureRuns ==
    /\ queue # <<>> /\ queue' = Tail(queue)
    /\ Head(queue).task.kind = "timer" => state.generation < MaxAttempts
    /\ AppBecomes(Closure(Model, Head(queue).task, Head(queue).result))
    /\ UNCHANGED <<docker, docker_ready, lost_at, actions>>

Tokio ==
    \E t \in running :
        \/ ConnectAnswers(t) \/ Subscribes(t) \/ Hears(t) \/ WatchEnds(t) \/ TimerFires(t)
        \/ OverviewAnswers(t) \/ spawn_tuxstackd(t) \/ InspectAnswers(t)

Next ==
    \/ Acts /\ (Startup \/ User)
    \/ ThrottleEnds
    \/ Tokio
    \/ ClosureRuns

-----------------------------------------------------------------------------
TypeOK ==
    /\ state.status \in 0..6 /\ state.text \in {"status", "spawn"}
    /\ state.client \in {0, state.generation}
    /\ client = (state.client # 0)

(* A GUI without a client is on its way to one, also after a start of the   *)
(* service that was throttled or failed: an attempt or a timer of this very *)
(* generation is under way.  "Connecting" and "Starting" are said only      *)
(* without a client, and an overview that loads has its request.            *)
BusyHasRequest ==
    /\ state.generation > 0 /\ ~client =>
          \E t \in UnderWay : t.kind \in {"connect", "timer"} /\ Current(t)
    /\ state.status = 0 => ~client
    /\ state.overview_loading => \E t \in UnderWay : t.kind = "overview"

(* "daemon-owned Docker resource events" (app_bridge.rs): a GUI with a      *)
(* client follows the daemon's events.                                      *)
EventsWatched ==
    client => \E t \in UnderWay : t.kind = "watch" /\ Current(t)

(* "only the newest generation may update the UI" (docs/architecture.md):   *)
(* the overview is that of the current connection.                          *)
OverviewOfConnection == state.overview \in {0, state.generation}
=============================================================================
