---------------------------- MODULE ArchiveProvider ----------------------------
(***************************************************************************)
(* Providers whose files come out of Docker's tar streams:                  *)
(* vfs_providers/container.rs (a snapshot of a container), image.rs (the    *)
(* index of an image, kept on disk), archive.rs (the content of a file) and *)
(* spool.rs (where content waits to be read).                               *)
(*                                                                         *)
(* Both providers list from an index of the whole export and fetch the      *)
(* content of a file when it is opened.  An image is exported through a     *)
(* container that is created for it and never started.  Content is counted  *)
(* in chunks; the tree of a container is a version number, of an image 0.   *)
(***************************************************************************)
EXTENDS Naturals, FiniteSetsExt, TLC

CONSTANTS
    Requests, NoRequest,
    ArchiveScenarios,                               \* the providers, with bounds
    memory_threshold, max_single_bytes, max_total_bytes

VARIABLES
    state,      \* the provider and the spool
    requests,   \* where each request is
    engine,     \* the container's tree, Docker's containers, the files on disk
    ghost       \* what the last refresh that completed must have seen

vars == <<state, requests, engine, ghost>>

(* ContentSpoolLimits::validate.                                            *)
LimitsValid ==
    /\ memory_threshold \in Nat /\ max_single_bytes \in Nat \ {0} /\ max_total_bytes \in Nat
    /\ memory_threshold <= max_single_bytes /\ max_single_bytes <= max_total_bytes

NoIndex == [version |-> 0, generation |-> 0, known |-> FALSE]

Idle ==
    [pc |-> "idle", op |-> "none", phase |-> "index", version |-> 0, since |-> 0, generation |-> 0,
     reserved |-> 0, temporary |-> FALSE, finished |-> FALSE, container |-> FALSE]

(* orphans counts the files that nobody removes; lost the containers whose  *)
(* removal failed, late those whose creation nobody waited for, stranded    *)
(* those created for a path that was refused only then.                     *)
Init ==
    /\ \E s \in ArchiveScenarios :
        /\ state = [kind |-> s.kind, changes |-> s.changes, refreshes |-> s.refreshes, asks |-> s.asks,
                    lock |-> NoRequest, index |-> NoIndex, generation |-> 1,
                    reserved_bytes |-> 0, handles |-> {}, next_handle |-> 1]
        /\ engine \in [content : {0}, containers : {0}, removing : {0}, lost : {0},
                       late : {0}, stranded : {0},
                       files : {0}, orphans : {0},
                       cache : IF s.kind = "image" THEN {"none", "good", "corrupt"} ELSE {"none"}]
    /\ requests = [r \in Requests |-> Idle]
    /\ ghost = 0

-----------------------------------------------------------------------------
At(r, pc) == requests[r].pc = pc
Goes(r, pc) == requests' = [requests EXCEPT ![r].pc = pc]
Answered(r) == requests[r].pc \in {"idle", "listed"}
IsImage == state.kind = "image"
Unlocked(r) == IF state.lock = r THEN NoRequest ELSE state.lock

(* Mutant: a writer releases its bytes when it fails, and is then dropped.  *)
ReleasesTwice(r) ==
    [state EXCEPT !.reserved_bytes = @ - 2 * requests[r].reserved, !.lock = Unlocked(r)]

(* What dropping a request's future drops: the writer of ContentSpool or    *)
(* the ContentLease it became release their bytes and remove their file,    *)
(* RemoveContainerStream starts a removal.                                  *)
WithoutWriter(r) ==
    [state EXCEPT !.reserved_bytes = @ - requests[r].reserved, !.lock = Unlocked(r)]
Dropped(r) ==
    [engine EXCEPT !.files = @ - (IF requests[r].temporary THEN 1 ELSE 0),
                   !.removing = @ + (IF requests[r].container THEN 1 ELSE 0)]

Fails(r) ==
    /\ requests' = [requests EXCEPT ![r] = Idle]
    /\ state' = WithoutWriter(r)
    /\ engine' = Dropped(r)
    /\ UNCHANGED ghost

-----------------------------------------------------------------------------
(* The index: snapshot and ensure_index take it, refresh makes a new one.   *)

(* Where a request that has its index goes on.                              *)
AfterIndex(r, q) ==
    IF q.op = "open"
    THEN [q EXCEPT !.phase = "content", !.pc = IF IsImage THEN "inspect" ELSE "body",
                   !.generation = state'.index.generation]
    ELSE [Idle EXCEPT !.pc = IF q.op = "list" THEN "listed" ELSE "idle",
                      !.version = IF q.op = "list" THEN state'.index.version ELSE 0,
                      !.since = IF q.op = "list" THEN q.since ELSE 0]

Asks(r, op) ==
    LET q == [Idle EXCEPT !.op = op, !.since = ghost]
    IN  /\ Answered(r) /\ state.asks > 0
        /\ state' = [state EXCEPT !.asks = @ - 1]
        /\ UNCHANGED <<engine, ghost>>
        /\ requests' = [requests EXCEPT ![r] =
               IF state.index.known THEN AfterIndex(r, q) ELSE [q EXCEPT !.pc = "lock"]]

(* lookup, getattr, read_link and read_dir.                                 *)
read_dir(r) == Asks(r, "list")
open(r) == Asks(r, "open")

(* An image is rebuilt without its lock, a container under the capture      *)
(* lock.  since is what there was when the refresh was asked for.           *)
refresh(r) ==
    /\ Answered(r) /\ state.refreshes > 0
    /\ state' = [state EXCEPT !.refreshes = @ - 1]
    /\ requests' = [requests EXCEPT ![r] =
            [Idle EXCEPT !.op = "refresh", !.since = engine.content,
                         !.pc = IF IsImage THEN "inspect" ELSE "lock"]]
    /\ UNCHANGED <<engine, ghost>>

(* Mutant: whoever waits captures, although somebody has meanwhile.         *)
LockNotNeeded(r) == TRUE

LockFree(r) == state.lock = NoRequest

(* The lock of snapshot, capture, refresh and ensure_index: somebody else   *)
(* may have made the index while the request waited.                        *)
Locks(r) ==
    /\ At(r, "lock") /\ LockFree(r)
    /\ IF state.index.known /\ requests[r].op # "refresh"
       THEN /\ UNCHANGED state
            /\ requests' = [requests EXCEPT ![r] = AfterIndex(r, requests[r])]
       ELSE /\ state' = [state EXCEPT !.lock = r]
            /\ Goes(r, IF IsImage THEN "load" ELSE "export")
    /\ UNCHANGED <<engine, ghost>>

(* load_cache: a missing or corrupt cache is rebuilt.                       *)
load_cache(r) ==
    /\ At(r, "load")
    /\ Goes(r, IF engine.cache = "good" THEN "store" ELSE "inspect")
    /\ UNCHANGED <<state, engine, ghost>>

(* create_stopped_container, for the export or for the content.  archive    *)
(* finds out that Docker cannot be asked for a path (one that is not UTF-8) *)
(* when it has the container and no stream yet.                             *)
create_stopped_container(r) ==
    /\ At(r, "inspect")
    /\ \/ /\ requests' = [requests EXCEPT ![r].container = TRUE,
                ![r].pc = IF requests[r].phase = "index" THEN "export" ELSE "body"]
          /\ engine' = [engine EXCEPT !.containers = @ + 1]
          /\ UNCHANGED <<state, ghost>>
       \/ /\ requests[r].phase = "content"
          /\ requests' = [requests EXCEPT ![r] = Idle]
          /\ state' = WithoutWriter(r)
          /\ engine' = [engine EXCEPT !.containers = @ + 1, !.stranded = @ + 1]
          /\ UNCHANGED ghost
       \/ Fails(r)

(* The whole export becomes an index (TarIndex::from_stream), or it fails.  *)
Exports(r, pc) ==
    /\ At(r, "export")
    /\ \/ /\ requests' = [requests EXCEPT ![r].version = engine.content, ![r].pc = pc]
          /\ UNCHANGED <<state, engine, ghost>>
       \/ Fails(r)

capture_generation(r) == ~IsImage /\ Exports(r, "store")

(* The stream of a container made for it removes the container.             *)
rebuild_index(r) == IsImage /\ Exports(r, "cleanup")

(* RemoveContainerStream::poll_next at the end of its stream.               *)
begin_cleanup(r) ==
    /\ At(r, "cleanup")
    /\ requests' = [requests EXCEPT ![r].container = FALSE,
            ![r].pc = IF requests[r].phase = "index" THEN "persist" ELSE "insert"]
    /\ \/ engine' = [engine EXCEPT !.containers = @ - 1]
       \/ engine' = [engine EXCEPT !.lost = @ + 1]
    /\ UNCHANGED <<state, ghost>>

(* The task that schedule_drop_cleanup spawns.                              *)
DropCleanup ==
    /\ engine.removing > 0
    /\ \/ engine' = [engine EXCEPT !.removing = @ - 1, !.containers = @ - 1]
       \/ engine' = [engine EXCEPT !.removing = @ - 1, !.lost = @ + 1]
    /\ UNCHANGED <<state, requests, ghost>>

(* persist_cache: a part file that is renamed when it is whole.  A failed   *)
(* sync leaves the part file.                                               *)
persist_cache(r) ==
    /\ At(r, "persist")
    /\ \/ Goes(r, "store") /\ engine' = [engine EXCEPT !.cache = "good"] /\ UNCHANGED <<state, ghost>>
       \/ Fails(r)
       \/ /\ requests' = [requests EXCEPT ![r] = Idle]
          /\ state' = WithoutWriter(r)
          /\ engine' = [engine EXCEPT !.files = @ + 1, !.orphans = @ + 1]
          /\ UNCHANGED ghost

StoresIndex(r) ==
    LET generation == state.generation +
            (IF requests[r].op = "refresh" /\ ~IsImage THEN 1 ELSE 0)
    IN  /\ At(r, "store")
        /\ state.lock \in {r, NoRequest}
        /\ state' = [state EXCEPT !.lock = NoRequest, !.generation = generation,
                        !.index = [version |-> requests[r].version, generation |-> generation,
                                   known |-> TRUE]]
        /\ requests' = [requests EXCEPT ![r] = AfterIndex(r, requests[r])]
        /\ ghost' = IF requests[r].op = "refresh" /\ requests[r].since > ghost
                    THEN requests[r].since ELSE ghost
        /\ UNCHANGED engine

-----------------------------------------------------------------------------
(* The content: operation_content and extract_regular_file read the body    *)
(* into a ContentSpoolWriter.                                               *)

reserve == state.reserved_bytes + 1 <= max_total_bytes

push(r) ==
    LET next == requests[r].reserved + 1
        grown == [requests EXCEPT ![r].reserved = next]
    IN  /\ At(r, "body")
        /\ IF next <= max_single_bytes /\ reserve
           THEN /\ state' = [state EXCEPT !.reserved_bytes = @ + 1]
                /\ requests' = IF requests[r].temporary \/ next <= memory_threshold
                               THEN grown
                               ELSE [grown EXCEPT ![r].pc = "create"]
                /\ UNCHANGED <<engine, ghost>>
           ELSE Fails(r)

(* create_temporary and the write of what was in memory.                    *)
create_temporary(r) ==
    /\ At(r, "create")
    /\ \/ /\ requests' = [requests EXCEPT ![r].pc = "body", ![r].temporary = TRUE]
          /\ engine' = [engine EXCEPT !.files = @ + 1]
          /\ UNCHANGED <<state, ghost>>
       \/ Fails(r)

(* The body ends: finish makes a ContentLease of the writer.  The rest of   *)
(* the archive is read before the handle is inserted.                       *)
finish(r) ==
    /\ At(r, "body")
    /\ requests' = [requests EXCEPT ![r].finished = TRUE,
            ![r].pc = IF requests[r].temporary THEN "sync" ELSE "rest"]
    /\ UNCHANGED <<state, engine, ghost>>

Syncs(r) ==
    /\ At(r, "sync")
    /\ \/ Goes(r, "rest") /\ UNCHANGED <<state, engine, ghost>>
       \/ Fails(r)

extract_regular_file(r) ==
    /\ requests[r].pc \in {"body", "rest"}
    /\ \/ Fails(r)
       \/ /\ At(r, "rest")
          /\ Goes(r, IF IsImage THEN "cleanup" ELSE "insert")
          /\ UNCHANGED <<state, engine, ghost>>

insert_handle(r) ==
    LET handle == [id |-> state.next_handle, bytes |-> requests[r].reserved,
                   file |-> requests[r].temporary, generation |-> requests[r].generation]
    IN  /\ At(r, "insert")
        /\ state' = [state EXCEPT !.next_handle = @ + 1, !.handles = @ \cup {handle}]
        /\ requests' = [requests EXCEPT ![r] = Idle]
        /\ UNCHANGED <<engine, ghost>>

(* Mutant: the bytes of a lease stay reserved.                              *)
LeaseKeepsBytes(handle) ==
    [state EXCEPT !.handles = @ \ {handle}]

(* Drop of the ContentLease.                                                *)
CloseLease(handle) ==
    [state EXCEPT !.handles = @ \ {handle}, !.reserved_bytes = @ - handle.bytes]

close ==
    \E handle \in state.handles :
        /\ state' = CloseLease(handle)
        /\ engine' = [engine EXCEPT !.files = @ - (IF handle.file THEN 1 ELSE 0)]
        /\ UNCHANGED <<requests, ghost>>

-----------------------------------------------------------------------------
(* A timeout of the provider or of the executor drops the request wherever  *)
(* it waits.  What the engine or the file system was just doing for it may  *)
(* still be done.                                                           *)
Cut(r) ==
    /\ ~Answered(r)
    /\ requests' = [requests EXCEPT ![r] = Idle]
    /\ state' = WithoutWriter(r)
    /\ \/ engine' = Dropped(r)
       \/ At(r, "inspect") /\ engine' = [engine EXCEPT !.containers = @ + 1, !.late = @ + 1]
       \/ /\ requests[r].pc \in {"create", "persist"}
          /\ engine' = [Dropped(r) EXCEPT !.files = @ + 1, !.orphans = @ + 1]
    /\ UNCHANGED ghost

Changes ==
    /\ engine.content < state.changes
    /\ engine' = [engine EXCEPT !.content = @ + 1]
    /\ UNCHANGED <<state, requests, ghost>>

Next ==
    \/ close \/ DropCleanup \/ Changes
    \/ \E r \in Requests :
        \/ read_dir(r) \/ open(r) \/ refresh(r) \/ Locks(r) \/ load_cache(r)
        \/ create_stopped_container(r) \/ capture_generation(r) \/ rebuild_index(r)
        \/ begin_cleanup(r) \/ persist_cache(r)
        \/ StoresIndex(r) \/ push(r) \/ create_temporary(r) \/ finish(r) \/ Syncs(r)
        \/ extract_regular_file(r) \/ insert_handle(r) \/ Cut(r)

-----------------------------------------------------------------------------
(* The count of bytes is unsigned: one released twice would wrap around.    *)
TypeOK ==
    /\ state.reserved_bytes \in Nat
    /\ state.lock \in Requests \cup {NoRequest}
    /\ \A r \in Requests :
        requests[r].pc \in {"idle", "listed", "lock", "load", "inspect", "export", "cleanup", "persist",
                            "store", "body", "create", "sync", "rest", "insert"}
    /\ \A count \in {"containers", "removing", "lost", "late", "stranded", "files", "orphans"} : engine[count] \in Nat

(* The spool's count of bytes is what writers and open files hold, within   *)
(* max_total_bytes; every temporary file has one owner that removes it,     *)
(* except one that was being created or synchronised when its request was   *)
(* cut or failed; and every inspection container has one stream or task,    *)
(* except one whose removal was tried and failed, one whose creation nobody *)
(* waited for, and one created for a path that archive then refuses.        *)
Accounted ==
    /\ state.reserved_bytes = MapThenSumSet(LAMBDA r : requests[r].reserved, Requests)
                              + MapThenSumSet(LAMBDA h : h.bytes, state.handles)
    /\ state.reserved_bytes <= max_total_bytes
    /\ engine.files = Cardinality({r \in Requests : requests[r].temporary})
                      + Cardinality({h \in state.handles : h.file}) + engine.orphans
    /\ engine.containers = Cardinality({r \in Requests : requests[r].container})
                           + engine.removing + engine.lost + engine.late + engine.stranded

(* Does not hold: an inspection container goes unless its removal fails.    *)
(* Between create_stopped_container and RemoveContainerStream::new nobody   *)
(* owns it.                                                                 *)
InspectionRemoved ==
    engine.containers = Cardinality({r \in Requests : requests[r].container})
                        + engine.removing + engine.lost

(* A listing that was asked for after a refresh returned shows what the     *)
(* container held when that refresh was asked for, or later.                *)
RefreshSeen ==
    \A r \in Requests : requests[r].pc = "listed" => requests[r].version >= requests[r].since
=============================================================================
