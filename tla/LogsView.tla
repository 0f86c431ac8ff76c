-------------------------------- MODULE LogsView --------------------------------
(***************************************************************************)
(* The Logs tab of the containers page: gui/src/controllers/                *)
(* container_logs.rs and the ContainerLogsModel half of                     *)
(* gui/src/bridge/container_live_bridge.rs.  Every selected container has a *)
(* stream; the streams feed one channel, a flusher empties it in batches    *)
(* for the Qt thread, and the controller keeps a bounded viewport, or a     *)
(* backlog while the user has paused it.                                    *)
(*                                                                         *)
(* A log line is <<container, n>>: the n-th of its container.  docker is    *)
(* how many lines each container has logged.                                *)
(***************************************************************************)
EXTENDS PageTasks

CONSTANTS
    MAX_LOG_LINES, MAX_LOG_BYTES,   \* the viewport's limits
    MaxLines,                       \* bound on what all containers log
    MaxQueued                       \* bound on the closures that wait

Containers == Items

Default ==
    [targets |-> {}, up |-> {}, active |-> FALSE, generation |-> 0, status |-> "Idle",
     follow |-> TRUE, paused |-> FALSE, entries |-> <<>>, pending |-> <<>>,
     viewport_bytes |-> 0, pending_bytes |-> 0, discarded |-> FALSE, next_sequence |-> 1]

Init ==
    /\ state = Default
    /\ docker = [c \in Containers |-> 1]
    /\ InitTasks({"stream"})

-----------------------------------------------------------------------------
(* ContainerLogsState.                                                     *)

should_stream(s) == s.active /\ s.targets # {}
StreamStatus(s) == IF should_stream(s) THEN "Streaming" ELSE "Idle"
NewGeneration(s) ==
    [s EXCEPT !.generation = @ + 1, !.status = StreamStatus(s)]

(* Mutant: the byte counts survive the lines.                               *)
ClearKeepsBytes(s) == [s EXCEPT !.entries = <<>>, !.pending = <<>>, !.discarded = FALSE]

clear_viewport(s) ==
    [s EXCEPT !.entries = <<>>, !.pending = <<>>,
              !.viewport_bytes = 0, !.pending_bytes = 0, !.discarded = FALSE]

set_selection(s, targets, up) ==
    NewGeneration([clear_viewport(s) EXCEPT !.targets = targets, !.up = up, !.paused = FALSE])

set_active(s, active) == NewGeneration([s EXCEPT !.active = active])
begin_stream(s) == [s EXCEPT !.generation = @ + 1, !.status = "Streaming"]
set_follow(s, follow) == NewGeneration([s EXCEPT !.follow = follow])

(* set_timestamps, set_stdout, set_stderr, set_tail and set_since, when the *)
(* value is valid and new.                                                  *)
set_stream_option(s) == NewGeneration(s)

(* LogViewportLine::from_domain: a line of the log may hold several lines   *)
(* of text; here every second one does.  generation is the request that     *)
(* brought it, which the code does not keep.                                *)
Texts(n) == 2 - (n % 2)
from_domain(s, line) ==
    [i \in 1..Texts(line[2]) |->
        [sequence |-> s.next_sequence + i - 1, container |-> line[1], text |-> <<line[2], i>>,
         byte_size |-> line[2], generation |-> s.generation]]

Bytes(lines) == FoldSeq(LAMBDA l, sum : l.byte_size + sum, 0, lines)

(* The fewest of the oldest lines whose removal meets the limits.           *)
Excess(lines) ==
    CHOOSE k \in 0..Len(lines) :
        /\ Len(lines) - k <= MAX_LOG_LINES
        /\ Bytes(SubSeq(lines, k + 1, Len(lines))) <= MAX_LOG_BYTES
        /\ \A j \in 0..(k - 1) : \/ Len(lines) - j > MAX_LOG_LINES
                                 \/ Bytes(SubSeq(lines, j + 1, Len(lines))) > MAX_LOG_BYTES

DropFirst(lines, k) == SubSeq(lines, k + 1, Len(lines))
SmallerOf(i, j) == IF i < j THEN i ELSE j

(* Mutant: only the viewport is held to the limits.                         *)
CapViewport(s) ==
    LET k == Excess(s.entries) IN
    [s EXCEPT !.entries = DropFirst(@, k), !.discarded = @ \/ k > 0,
              !.viewport_bytes = @ - Bytes(SubSeq(s.entries, 1, k))]

(* enforce_combined_cap; with nothing pending it is enforce_cap.            *)
enforce_combined_cap(s) ==
    LET k == Excess(s.entries \o s.pending)
        i == SmallerOf(k, Len(s.entries))
        j == k - i IN
    [s EXCEPT !.entries = DropFirst(@, i), !.pending = DropFirst(@, j),
              !.viewport_bytes = @ - Bytes(SubSeq(s.entries, 1, i)),
              !.pending_bytes = @ - Bytes(SubSeq(s.pending, 1, j)),
              !.discarded = @ \/ k > 0]

PushLine(s, l) ==
    enforce_combined_cap(
        IF s.paused
        THEN [s EXCEPT !.pending = Append(@, l), !.pending_bytes = @ + l.byte_size]
        ELSE [s EXCEPT !.entries = Append(@, l), !.viewport_bytes = @ + l.byte_size])

PushEntry(s, line) ==
    LET lines == from_domain(s, line)
        numbered == [s EXCEPT !.next_sequence = @ + Len(lines)] IN
    FoldLeft(LAMBDA acc, l : PushLine(acc, l), numbered, lines)

BatchApplies(s, g) == g = s.generation /\ should_stream(s)

(* Mutant: a batch of an earlier request is taken too.                      *)
AnyBatchApplies(s, g) == should_stream(s)

apply_batch(s, g, batch) ==
    LET known == SelectSeq(batch, LAMBDA line : line[1] \in s.targets) IN
    IF ~BatchApplies(s, g) \/ known = <<>> THEN s
    ELSE FoldLeft(LAMBDA acc, line : PushEntry(acc, line), [s EXCEPT !.status = "Ready"], known)

apply_error(s, g) ==
    IF g # s.generation \/ ~s.active THEN s ELSE [s EXCEPT !.status = "Error"]

(* Mutant: resuming leaves the backlog for later.                           *)
ResumeKeepsPending(s, paused) == [s EXCEPT !.paused = paused]

(* The backlog moves to the viewport, line by line.                         *)
set_paused(s, paused) ==
    LET resumed == [s EXCEPT !.paused = FALSE, !.pending = <<>>, !.pending_bytes = 0] IN
    IF paused THEN [s EXCEPT !.paused = TRUE]
    ELSE FoldLeft(LAMBDA acc, l : PushLine(acc, l), resumed, s.pending)

-----------------------------------------------------------------------------
(* The bridge.  The streams of a restart and the flusher that empties their *)
(* channel share one token and are one task: name is the containers whose   *)
(* stream still follows the log, target the lines in the channel and in the *)
(* batch.  A cancelled flusher has one last chance to flush what it holds.  *)

cancel_stream(m) ==
    [m EXCEPT !.running = {[t EXCEPT !.cancelled = TRUE] : t \in {u \in @ : u.target # <<>>}}]

Lines == {<<c, n>> : c \in Containers, n \in 1..MaxLines}
LinesLogged == {l \in Lines : l[2] <= docker[l[1]]}

(* The orders in which the streams can bring what has been logged.          *)
Histories ==
    {h \in [1..Cardinality(LinesLogged) -> LinesLogged] :
        \A i, j \in DOMAIN h :
            /\ h[i] = h[j] => i = j
            /\ i < j /\ h[i][1] = h[j][1] => h[i][2] < h[j][2]}

(* docker_options: a tail of 0 when the viewport has lines already.         *)
Tail0(s) == s.entries # <<>>

restart_logs(m, history) ==
    LET s == begin_stream(m.state)
        brought == SelectSeq(history, LAMBDA l : l[1] \in s.targets)
        streams == Silent(Asked("stream", IF s.follow THEN s.up ELSE {},
                                IF Tail0(s) THEN <<>> ELSE brought, s.generation)) IN
    IF ~should_stream(m.state) THEN With(cancel_stream(m), [m.state EXCEPT !.status = "Idle"])
    ELSE IF ~client THEN With(cancel_stream(m), apply_error(s, s.generation))
    ELSE Spawn(With(cancel_stream(m), s), "stream", streams)

Restarts(s) == \E history \in Histories : Does(restart_logs(With(Model, s), history))

Selection(targets, up) ==
    /\ <<targets, up>> # <<state.targets, state.up>>
    /\ Restarts(set_selection(state, targets, up))

update_active(active) ==
    LET s == set_active(state, active) IN
    /\ active # state.active
    /\ \/ active /\ Restarts(s)
       \/ ~active /\ Does(With(cancel_stream(Model), s))

update_follow == Restarts(set_follow(state, ~state.follow))

(* update_stdout, update_stderr, update_timestamps, update_tail and         *)
(* update_since.                                                            *)
update_stream_option == Restarts(clear_viewport(set_stream_option(state)))

update_paused == Does(With(Model, set_paused(state, ~state.paused)))
ClearViewport == state.entries \o state.pending # <<>> /\ Does(With(Model, clear_viewport(state)))

shutdown ==
    Closes(With(cancel_stream(Model),
                [clear_viewport(state) EXCEPT !.active = FALSE, !.generation = @ + 1,
                                              !.status = "Idle"]))

-----------------------------------------------------------------------------
(* Tokio.                                                                  *)

(* A container logs a line; a stream that follows it sends it on.           *)
Logs(c) ==
    /\ Cardinality(LinesLogged) < MaxLines
    /\ docker' = [docker EXCEPT ![c] = @ + 1]
    /\ running' = {IF c \in t.name /\ ~t.cancelled
                   THEN [t EXCEPT !.target = Append(@, <<c, docker'[c]>>)] ELSE t : t \in running}
    /\ UNCHANGED <<Qt, queue>>

(* A stream of the task ends: its container stopped, or with an error.      *)
StreamEnds(t, c) ==
    /\ c \in t.name /\ ~t.cancelled /\ Len(queue) < MaxQueued
    /\ running' = (running \ {t}) \cup {[t EXCEPT !.name = @ \ {c}]}
    /\ queue' \in {queue, Append(queue, [task |-> t, result |-> "error"])}
    /\ UNCHANGED <<Qt, docker>>

(* flush_log_batch, after 50 ms or 128 lines.                               *)
Flushes(t) ==
    /\ t.target # <<>> /\ Len(queue) < MaxQueued
    /\ queue' = Append(queue, [task |-> t, result |-> "batch"])
    /\ running' = (running \ {t}) \cup {[u EXCEPT !.target = <<>>] : u \in {t} \ Cancel({t}, {t.id})}
    /\ UNCHANGED <<Qt, docker>>

(* Every stream has ended: what is left is flushed.                         *)
FlusherEnds(t) ==
    /\ t.name = {} /\ ~t.cancelled /\ Len(queue) < MaxQueued
    /\ running' = running \ {t}
    /\ queue' = IF t.target = <<>> THEN queue
                ELSE Append(queue, [task |-> t, result |-> "batch"])
    /\ UNCHANGED <<Qt, docker>>

ClosureRuns ==
    /\ queue # <<>>
    /\ LET t == Head(queue).task IN
       RunsNext(With(Model, IF Head(queue).result = "batch" THEN apply_batch(state, t.gen, t.target)
                            ELSE apply_error(state, t.gen)))

-----------------------------------------------------------------------------

User ==
    \/ \E targets \in SUBSET Containers : Selection(targets, targets)
    \/ \E active \in BOOLEAN : update_active(active)
    \/ update_follow \/ update_stream_option \/ update_paused \/ ClearViewport

(* The tab is first shown, with a container or a group selected.            *)
FirstShown ==
    /\ state = Default /\ actions = 0
    /\ \E targets \in SUBSET Containers \ {{}} : \E up \in {{}, targets} :
          Restarts(set_active(set_selection(state, targets, up), TRUE))
    /\ UNCHANGED actions

Tokio ==
    \/ \E c \in Containers : Logs(c)
    \/ \E t \in running :
          Flushes(t) \/ FlusherEnds(t) \/ GivesUp(t) \/ \E c \in Containers : StreamEnds(t, c)

Next ==
    \/ FirstShown
    \/ Acts /\ (User \/ ClientChanges)
    \/ shutdown
    \/ Tokio
    \/ ClosureRuns

-----------------------------------------------------------------------------
(* Properties.                                                             *)

TypeOK ==
    /\ state.targets \subseteq Containers /\ state.up \subseteq state.targets
    /\ state.status \in {"Idle", "Streaming", "Ready", "Error"}
    /\ docker \in [Containers -> 0..MaxLines]

(* The byte counts are those of the lines, and lines shown and waiting are  *)
(* together within the limits.                                              *)
Bounded ==
    /\ state.viewport_bytes = Bytes(state.entries)
    /\ state.pending_bytes = Bytes(state.pending)
    /\ Len(state.entries) + Len(state.pending) <= MAX_LOG_LINES
    /\ state.viewport_bytes + state.pending_bytes <= MAX_LOG_BYTES

TextNext(text) ==
    IF text[2] < Texts(text[1]) THEN <<text[1], text[2] + 1>> ELSE <<text[1] + 1, 1>>

(* Lines shown, then those waiting, are the selected containers', in the    *)
(* order of their sequence numbers; what one stream brought of a container  *)
(* has no gap and nothing twice, whatever was paused, cleared or discarded. *)
(* Lines are numbered as they reach the page: what a full queue of the      *)
(* client dropped before (tuxstack-client/src/lib.rs:719) has no number.    *)
LogsInOrder ==
    LET all == state.entries \o state.pending
        Of(c, g) == SelectSeq(all, LAMBDA l : l.container = c /\ l.generation = g) IN
    /\ \A i \in DOMAIN all : all[i].container \in state.targets
    /\ \A i \in 1..(Len(all) - 1) : all[i].sequence < all[i + 1].sequence
    /\ \A c \in Containers, g \in 1..state.generation :
          \A i \in 1..(Len(Of(c, g)) - 1) : Of(c, g)[i + 1].text = TextNext(Of(c, g)[i].text)
=============================================================================
