---------------------------- MODULE MetadataCache ----------------------------
(***************************************************************************)
(* docker-core's caches of image metadata and volume usage, and the SQLite  *)
(* file behind them: cache/image_metadata.rs, cache/volume_usage.rs and     *)
(* cache/persistent.rs.  Metadata goes to the file through a queue and a    *)
(* flusher thread that waits for the queue to go quiet; usage through one   *)
(* detached thread per measurement; removals at once.                       *)
(*                                                                         *)
(* A value is the number of its measurement, 0 none.  PersistentCache::get  *)
(* selects by a column that no table has, so that it never finds a row and  *)
(* no action here reads one.                                                *)
(***************************************************************************)
EXTENDS Naturals, FiniteSets, Sequences, SequencesExt

CONSTANTS Images, MaxMeasured, Sentinel

VARIABLES
    state,      \* the process: its memory, the queue, the flusher, usage
    requests,   \* the prefetch that runs, the deletes on their way
    engine,     \* the file, the threads that write usage, the measurements made
    ghost       \* the writes lost in a failed transaction or deleted

vars == <<state, requests, engine, ghost>>

Idle == [running |-> FALSE, missing |-> {}, deletes |-> {}]

Init ==
    /\ state = [up |-> TRUE, memory |-> [i \in Images |-> 0], usage |-> 0, fresh |-> FALSE,
                queue |-> <<>>, batch |-> <<>>, flushed |-> FALSE]
    /\ requests = Idle
    /\ engine = [rows |-> [i \in Images |-> 0], usage |-> 0, writers |-> {}, measured |-> 0]
    /\ ghost = {}

Measures == engine.measured < MaxMeasured
Measured == engine.measured + 1

-----------------------------------------------------------------------------
(* ImageMetadataCache.                                                      *)

enqueue(image, value) == Append(state.queue, [image |-> image, value |-> value])

insert(image) ==
    /\ state.up /\ Measures
    /\ state' = [state EXCEPT !.memory[image] = Measured, !.queue = enqueue(image, Measured),
                              !.flushed = FALSE]
    /\ engine' = [engine EXCEPT !.measured = Measured]
    /\ UNCHANGED <<requests, ghost>>

(* remove lets go of the memory's lock, and then deletes the row.           *)
remove(image) ==
    /\ state.up /\ image \notin requests.deletes
    /\ \/ state.memory[image] # 0 \/ engine.rows[image] # 0
    /\ state' = [state EXCEPT !.memory[image] = 0]
    /\ requests' = [requests EXCEPT !.deletes = @ \cup {image}]
    /\ UNCHANGED <<engine, ghost>>

remove_key(image) ==
    /\ image \in requests.deletes
    /\ requests' = [requests EXCEPT !.deletes = @ \ {image}]
    /\ engine' = [engine EXCEPT !.rows[image] = 0]
    /\ ghost' = ghost \cup {engine.rows[image]}
    /\ UNCHANGED state

(* retain deletes the rows of what it drops before it lets go of the lock.  *)
Dropped(keep) == {i \in Images : state.memory[i] # 0} \ keep

retain(keep) ==
    /\ state.up /\ Dropped(keep) # {}
    /\ state' = [state EXCEPT !.memory = [i \in Images |-> IF i \in keep THEN @[i] ELSE 0]]
    /\ engine' = [engine EXCEPT !.rows = [i \in Images |-> IF i \in Dropped(keep) THEN 0 ELSE @[i]]]
    /\ UNCHANGED <<requests, ghost>>

clear_endpoint ==
    /\ state.up
    /\ \E i \in Images : engine.rows[i] # 0
    /\ engine' = [engine EXCEPT !.rows = [i \in Images |-> 0], !.usage = 0]
    /\ ghost' = ghost \cup {engine.rows[i] : i \in Images}
    /\ UNCHANGED <<state, requests>>

(* prefetch: fetch what is missing, insert what could be fetched once       *)
(* everything is there.                                                     *)
missing == {i \in Images : state.memory[i] = 0}

prefetch ==
    /\ state.up /\ ~requests.running
    /\ missing # {}
    /\ requests' = [requests EXCEPT !.running = TRUE, !.missing = missing]
    /\ UNCHANGED <<state, engine, ghost>>

Fetched(fetched) ==
    /\ requests.running /\ fetched \subseteq requests.missing
    /\ engine.measured + Cardinality(fetched) <= MaxMeasured
    /\ LET order == SetToSeq(fetched)
           number == [i \in fetched |->
                        engine.measured + CHOOSE n \in 1..Len(order) : order[n] = i]
       IN  /\ state' = [state EXCEPT
                !.memory = [i \in Images |-> IF i \in fetched THEN number[i] ELSE @[i]],
                !.queue = @ \o [n \in 1..Len(order) |->
                                    [image |-> order[n], value |-> number[order[n]]]],
                !.flushed = IF fetched = {} THEN @ ELSE FALSE]
           /\ engine' = [engine EXCEPT !.measured = @ + Cardinality(fetched)]
    /\ requests' = [requests EXCEPT !.running = FALSE, !.missing = {}]
    /\ UNCHANGED ghost

-----------------------------------------------------------------------------
(* The flusher thread of PersistentCache: it takes a write, then collects   *)
(* more until the queue has been quiet for flush_debounce.                  *)

FlusherCollects ==
    /\ state.up /\ state.queue # <<>>
    /\ state' = [state EXCEPT !.batch = Append(@, Head(state.queue)), !.queue = Tail(@)]
    /\ UNCHANGED <<requests, engine, ghost>>

Writes(batch) == {n \in DOMAIN batch : batch[n].image # Sentinel}

(* The row of an image after a batch: its last write.                       *)
RowAfter(batch, image) ==
    LET of == {n \in Writes(batch) : batch[n].image = image}
    IN  IF of = {} THEN engine.rows[image]
        ELSE batch[CHOOSE n \in of : \A m \in of : m <= n].value

(* flush_batch: one transaction, whose failure goes unnoticed.              *)
flush_batch ==
    /\ state.up /\ state.queue = <<>> /\ state.batch # <<>>
    /\ state' = [state EXCEPT !.batch = <<>>]
    /\ \/ /\ engine' = [engine EXCEPT !.rows = [i \in Images |-> RowAfter(state.batch, i)]]
          /\ UNCHANGED ghost
       \/ /\ ghost' = ghost \cup {state.batch[n].value : n \in Writes(state.batch)}
          /\ UNCHANGED engine
    /\ UNCHANGED requests

(* flush: a sentinel, and a sleep shorter than flush_debounce.              *)
flush ==
    /\ state.up /\ ~state.flushed
    /\ state' = [state EXCEPT !.queue = enqueue(Sentinel, 0), !.flushed = TRUE]
    /\ UNCHANGED <<requests, engine, ghost>>

-----------------------------------------------------------------------------
(* VolumeUsageCache, for one volume.                                        *)

(* put, and put_usage's thread.                                             *)
put ==
    /\ state.up /\ Measures
    /\ state' = [state EXCEPT !.usage = Measured, !.fresh = TRUE]
    /\ engine' = [engine EXCEPT !.measured = Measured, !.writers = @ \cup {Measured}]
    /\ UNCHANGED <<requests, ghost>>

put_usage(value) ==
    /\ value \in engine.writers
    /\ engine' = [engine EXCEPT !.writers = @ \ {value}, !.usage = value]
    /\ UNCHANGED <<state, requests, ghost>>

Expires ==
    /\ state.fresh
    /\ state' = [state EXCEPT !.fresh = FALSE]
    /\ UNCHANGED <<requests, engine, ghost>>

(* get, of an entry that is missing or expired: the row, as a fresh entry.  *)
get_persistent ==
    /\ state.up /\ ~state.fresh /\ engine.usage # 0
    /\ state' = [state EXCEPT !.usage = engine.usage, !.fresh = TRUE]
    /\ UNCHANGED <<requests, engine, ghost>>

invalidate ==
    /\ state.usage # 0
    /\ state' = [state EXCEPT !.usage = 0, !.fresh = FALSE]
    /\ UNCHANGED <<requests, engine, ghost>>

-----------------------------------------------------------------------------
(* The process ends, and with it its threads.                               *)
Exits ==
    /\ state.up
    /\ state' = [state EXCEPT !.up = FALSE, !.memory = [i \in Images |-> 0], !.usage = 0,
                              !.fresh = FALSE, !.queue = <<>>, !.batch = <<>>, !.flushed = FALSE]
    /\ requests' = Idle
    /\ engine' = [engine EXCEPT !.writers = {}]
    /\ UNCHANGED ghost

(* PersistentCache::open, which rebuilds a file it cannot use; hydrate and  *)
(* seed bring its rows into memory.                                         *)
Opens ==
    /\ ~state.up
    /\ \/ UNCHANGED engine
       \/ engine' = [engine EXCEPT !.rows = [i \in Images |-> 0], !.usage = 0]
    /\ state' = [state EXCEPT !.up = TRUE, !.memory = engine'.rows, !.usage = engine'.usage,
                              !.fresh = engine'.usage # 0]
    /\ UNCHANGED <<requests, ghost>>

Next ==
    \/ prefetch \/ clear_endpoint \/ FlusherCollects \/ flush_batch \/ flush
    \/ put \/ Expires \/ get_persistent \/ invalidate \/ Exits \/ Opens
    \/ \E i \in Images : insert(i) \/ remove(i) \/ remove_key(i)
    \/ \E S \in SUBSET Images : retain(S) \/ Fetched(S)
    \/ \E value \in 1..MaxMeasured : put_usage(value)

-----------------------------------------------------------------------------
TypeOK ==
    /\ state.up \in BOOLEAN /\ state.fresh \in BOOLEAN
    /\ \A i \in Images : state.memory[i] \in 0..MaxMeasured /\ engine.rows[i] \in 0..MaxMeasured
    /\ \A n \in DOMAIN state.queue : state.queue[n].image \in Images \cup {Sentinel}

(* Once the flusher has written what is queued, the file holds for every    *)
(* image what the memory holds, and no older value that was queued before   *)
(* it; unless that value was in a transaction that failed, or its row was   *)
(* deleted alone: by clear_endpoint, which leaves the memory, or by the     *)
(* remove of an older value, which deletes after it let go of the lock.     *)
Accounted ==
    \A i \in Images : state.memory[i] # 0 =>
        \/ RowAfter(state.batch \o state.queue, i) = state.memory[i]
        \/ state.memory[i] \in ghost

(* Does not hold: with no thread left to write it, the row of a volume's    *)
(* usage is the last measurement.  put_usage runs in a thread of its own    *)
(* each time, and they write in any order.                                  *)
UsageRowIsLast ==
    state.fresh /\ engine.writers = {} /\ engine.usage # 0 => engine.usage >= state.usage
=============================================================================
