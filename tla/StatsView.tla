-------------------------------- MODULE StatsView --------------------------------
(***************************************************************************)
(* The Stats tab of the containers page: gui/src/controllers/               *)
(* container_stats.rs and the ContainerStatsModel half of                   *)
(* gui/src/bridge/container_live_bridge.rs.  A few containers are watched   *)
(* by a stream each; a larger group is polled in rounds.  The controller    *)
(* keeps the latest sample of every container and one history point, the    *)
(* sum of the latest samples, per second.                                   *)
(*                                                                         *)
(* docker is the second the Docker Engine is in.  A sample is taken at a    *)
(* second; its reading, whatever it measures, is that second too.           *)
(***************************************************************************)
EXTENDS PageTasks, TLC

CONSTANTS
    StatsRequests,                  \* choices of MAX_CONCURRENT_STATS_REQUESTS
    STATS_HISTORY_CAPACITY,
    MaxSeconds,                     \* bound on the time that passes
    MaxQueued                       \* bound on the closures that wait

Containers == Items

Default(n) ==
    [max_concurrent |-> n, targets |-> {}, active |-> FALSE, generation |-> 0, status |-> "Idle",
     latest |-> <<>>, history |-> <<>>]

Init ==
    /\ \E n \in StatsRequests : state = Default(n)
    /\ docker = 1
    /\ InitTasks({"stream"})

-----------------------------------------------------------------------------
(* ContainerStatsState.  latest is a function of the reporting containers. *)

should_stream(s) == s.active /\ s.targets # {}
StreamStatus(s) == IF should_stream(s) THEN "Streaming" ELSE "Idle"

(* Mutant: the samples of the last selection are kept.                      *)
KeepsSamples(s) == [s EXCEPT !.status = StreamStatus(s)]

reset_samples(s) == [s EXCEPT !.latest = <<>>, !.history = <<>>, !.status = StreamStatus(s)]

set_selection(s, targets) ==
    reset_samples([s EXCEPT !.targets = targets, !.generation = @ + 1])

set_active(s, active) ==
    LET t == [s EXCEPT !.active = active, !.generation = @ + 1] IN
    [t EXCEPT !.status = StreamStatus(t)]

begin_stream(s) == [s EXCEPT !.generation = @ + 1, !.status = "Streaming"]

(* The sums over the containers that report, at the latest of their times.  *)
aggregate(latest) ==
    [sampled_at |-> CHOOSE at \in Range(latest) : \A other \in Range(latest) : other <= at,
     total |-> FoldFunction(+, 0, latest)]

(* Mutant: a burst of samples makes a point each.                           *)
PushAll(history, point) ==
    Append(IF Len(history) >= STATS_HISTORY_CAPACITY THEN Tail(history) ELSE history, point)

(* One point a second, in a ring.                                           *)
push_ring(history, point) ==
    LET kept == IF history # <<>> /\ Last(history).sampled_at = point.sampled_at
                THEN Front(history) ELSE history IN
    Append(IF Len(kept) >= STATS_HISTORY_CAPACITY THEN Tail(kept) ELSE kept, point)

apply_sample(s, g, c, at) ==
    LET latest == (c :> at) @@ s.latest IN
    IF g # s.generation \/ ~should_stream(s) \/ c \notin s.targets THEN s
    ELSE [s EXCEPT !.latest = latest, !.status = "Ready",
                   !.history = push_ring(@, aggregate(latest))]

apply_error(s, g) ==
    IF g # s.generation \/ ~s.active THEN s ELSE [s EXCEPT !.status = "Error"]

-----------------------------------------------------------------------------
(* The bridge.                                                             *)

(* A stream or poller that has seen its token before the cancellation may   *)
(* queue a closure after it; that closure could as well be queued already.  *)
cancel_stream(m) == [m EXCEPT !.running = {}]

Stream(s, c) == Silent(Asked("stream", {c}, <<>>, s.generation))

(* A poller of the targets; target is what the round has brought so far.    *)
Poller(s) == Silent(Asked("poller", s.targets, <<>>, s.generation))

Tasks(s) ==
    IF Cardinality(s.targets) > s.max_concurrent THEN <<Poller(s)>>
    ELSE LET order == SetToSeq(s.targets) IN [i \in DOMAIN order |-> Stream(s, order[i])]

restart_stats(m) ==
    LET s == begin_stream(m.state)
        cancelled == cancel_stream(m) IN
    IF ~should_stream(m.state) THEN With(cancelled, [m.state EXCEPT !.status = "Idle"])
    ELSE IF ~client THEN With(cancelled, apply_error(s, s.generation))
    ELSE FoldLeft(LAMBDA acc, t : Spawn(acc, "stream", t), With(cancelled, s), Tasks(s))

(* targets are the running containers of the selection.                     *)
Selection(targets) ==
    /\ targets # state.targets
    /\ Does(restart_stats(With(Model, set_selection(state, targets))))

update_active(active) ==
    LET m == With(cancel_stream(Model), set_active(state, active)) IN
    active # state.active /\ Does(IF active THEN restart_stats(m) ELSE m)

shutdown ==
    Closes(With(cancel_stream(Model),
                [state EXCEPT !.active = FALSE, !.generation = @ + 1, !.status = "Idle",
                              !.latest = <<>>, !.history = <<>>]))

-----------------------------------------------------------------------------
(* Tokio.                                                                  *)

TimePasses ==
    /\ docker < MaxSeconds
    /\ docker' = docker + 1
    /\ UNCHANGED <<Qt, running, queue>>

Queues(t, result) ==
    /\ queue' = Append(queue, [task |-> t, result |-> result])
    /\ UNCHANGED <<Qt, docker>>

(* The stream looks at its token, then queues the sample.                   *)
Samples(t) ==
    /\ t.kind = "stream" /\ Len(queue) < MaxQueued
    /\ \E c \in t.name : Queues(t, <<[of |-> c, at |-> docker]>>)
    /\ UNCHANGED running

StreamFails(t) ==
    /\ t.kind = "stream" /\ Len(queue) < MaxQueued
    /\ running' = running \ {t}
    /\ Queues(t, <<>>)

StreamEnds(t) ==
    /\ t.kind = "stream"
    /\ running' = running \ {t}
    /\ UNCHANGED <<Qt, queue, docker>>

(* A round of the poller: every target is asked, in any order; the ones     *)
(* that fail bring nothing.                                                 *)
Polled(t, c) ==
    /\ t.kind = "poller" /\ c \in t.name /\ \A i \in DOMAIN t.target : t.target[i].of # c
    /\ running' = (running \ {t}) \cup {[t EXCEPT !.target = Append(@, [of |-> c, at |-> docker])]}
    /\ UNCHANGED <<Qt, queue, docker>>

RoundEnds(t) ==
    /\ t.kind = "poller" /\ Len(queue) < MaxQueued
    /\ running' = (running \ {t}) \cup {[t EXCEPT !.target = <<>>]}
    /\ Queues(t, t.target)

(* The samples of a closure in turn, or the error when there is none.       *)
ClosureRuns ==
    /\ queue # <<>>
    /\ LET t == Head(queue).task
           samples == Head(queue).result
           applied == FoldLeft(LAMBDA s, sample : apply_sample(s, t.gen, sample.of, sample.at),
                               state, samples) IN
       RunsNext(With(Model, IF samples = <<>> THEN apply_error(state, t.gen) ELSE applied))

-----------------------------------------------------------------------------

User ==
    \/ \E targets \in SUBSET Containers : Selection(targets)
    \/ \E active \in BOOLEAN : update_active(active)

(* The tab is first shown, with a container or a group selected.            *)
FirstShown ==
    /\ state.generation = 0 /\ actions = 0
    /\ \E targets \in SUBSET Containers \ {{}} :
          Does(restart_stats(With(Model, set_active(set_selection(state, targets), TRUE))))
    /\ UNCHANGED actions

Tokio ==
    \/ TimePasses
    \/ \E t \in running :
          \/ Samples(t) \/ StreamFails(t) \/ StreamEnds(t) \/ RoundEnds(t)
          \/ \E c \in Containers : Polled(t, c)

Next ==
    \/ FirstShown
    \/ Acts /\ (User \/ ClientChanges)
    \/ shutdown
    \/ Tokio
    \/ ClosureRuns

-----------------------------------------------------------------------------
(* Properties.                                                             *)

TypeOK ==
    /\ state.targets \subseteq Containers
    /\ state.status \in {"Idle", "Streaming", "Ready", "Error"}
    /\ docker \in 1..MaxSeconds

(* What is shown is of the selected containers, and the chart's last point  *)
(* is the sum shown beside it.                                              *)
DetailOfSelection ==
    /\ DOMAIN state.latest \subseteq state.targets
    /\ (state.history = <<>>) = (DOMAIN state.latest = {})
    /\ state.history # <<>> => Last(state.history) = aggregate(state.latest)

(* "Keep one aggregate point per Docker sample second": the points are in   *)
(* the order of time, one a second, within the history's capacity.          *)
Bounded ==
    /\ Len(state.history) <= STATS_HISTORY_CAPACITY
    /\ \A i \in 1..(Len(state.history) - 1) :
          state.history[i].sampled_at < state.history[i + 1].sampled_at
=============================================================================
