---------------------------- MODULE HelperProvider ----------------------------
(***************************************************************************)
(* Providers whose files are read by a helper container:                    *)
(* vfs_providers/support.rs (HelperProviderCore), volume.rs (the pool of    *)
(* named volumes), helper_bind.rs, and services/filesystem, which creates   *)
(* the container and runs one exec in it per request.                       *)
(*                                                                         *)
(* Requests come from the FUSE executor, which drops one that takes too     *)
(* long at whatever it awaits (Cut).  The tree that is served is a version  *)
(* number; a provider caches the listing of one directory of it.            *)
(***************************************************************************)
EXTENDS Naturals, FiniteSets, TLC

CONSTANTS
    Requests,                       \* the FUSE requests that run concurrently
    NoRequest,
    Providers, Containers,          \* 1..n: bounds on what is ever created
    Scenarios                       \* the kinds of provider, with bounds on what happens to each

VARIABLES
    state,      \* the pool and the provider cores
    requests,   \* where each request is
    engine,     \* Docker's containers and the tree, with what became of them
    ghost       \* the version of the tree at each provider's last refresh

vars == <<state, requests, engine, ghost>>

NoSession == 0
NoDirectory == [generation |-> 0, version |-> 0, fresh |-> FALSE]

(* HelperProviderCore::new.  closing is where a shutdown of it is.          *)
NewCore ==
    [session |-> NoSession, lock |-> NoRequest, directory |-> NoDirectory, handles |-> {},
     generation |-> 1, session_epoch |-> 1, active |-> TRUE,
     closing |-> "no", stopping |-> NoSession]

Idle ==
    [pc |-> "idle", op |-> "none", provider |-> 1, generation |-> 0, session |-> NoSession,
     version |-> 0, since |-> 0]

NoHandle == [id |-> 0, epoch |-> 0, provider |-> 1]

(* kind: the named volume of a pool, or a bind mount the daemon cannot read *)
(* itself (HelperBindProvider).                                             *)
Init ==
    /\ \E s \in Scenarios :
        state = [kind |-> s.kind, lists |-> s.lists, changes |-> s.changes, refreshes |-> s.refreshes, opens |-> s.opens,
                 pool |-> 0, created |-> 0, next_handle |-> 1,
                 cores |-> [p \in Providers |-> NewCore]]
    /\ requests = [r \in Requests |-> Idle @@ [handle |-> NoHandle]]
    /\ engine = [image |-> FALSE, containers |-> [c \in Containers |-> "none"],
                 owner |-> [c \in Containers |-> 0],
                 tree |-> 0, reaping |-> {}, failed |-> {},
                 lost |-> [c \in Containers |-> "no"]]
    /\ ghost = [p \in Providers |-> 0]

-----------------------------------------------------------------------------
(* Steps of a request.                                                      *)

Core(p) == state.cores[p]
CoreOf(r) == Core(requests[r].provider)
WithCore(p, core) == [state EXCEPT !.cores[p] = core]

At(r, pc) == requests[r].pc = pc
Goes(r, pc) == requests' = [requests EXCEPT ![r].pc = pc]
Answers(r) ==
    requests' = [requests EXCEPT ![r] = Idle @@ [handle |-> requests[r].handle]]

Begins(r, op, p, pc) ==
    requests' = [requests EXCEPT ![r] =
        [Idle EXCEPT !.pc = pc, !.op = op, !.provider = p,
                     !.generation = IF op = "list" THEN Core(p).generation ELSE 0,
                     !.since = IF op = "list" THEN ghost[p] ELSE 0] @@ [handle |-> requests[r].handle]]

Answered(r) == requests[r].pc \in {"idle", "listed"}

Releases(r) ==
    state' = WithCore(requests[r].provider, [CoreOf(r) EXCEPT !.lock = NoRequest])

(* Nobody answers for a container any more, and why: its removal failed,    *)
(* it did not start, or nobody waited for its creation, start or removal.   *)
Loses(c, why) == engine' = [engine EXCEPT !.lost[c] = why]
Lost == {c \in Containers : engine.lost[c] # "no"}

-----------------------------------------------------------------------------
(* NamedVolumeProviderPool.                                                 *)

(* provider: the one of the volume, or a new one.                           *)
provider ==
    /\ state.pool = 0 /\ state.created + 1 \in Providers
    /\ state' = [state EXCEPT !.pool = state.created + 1, !.created = @ + 1]
    /\ UNCHANGED <<requests, engine, ghost>>

(* HelperProviderCore::shutdown, up to its lock.                            *)
shutdown(p) ==
    [Core(p) EXCEPT !.active = FALSE, !.generation = @ + 1, !.session_epoch = @ + 1,
                    !.directory = NoDirectory, !.handles = {}, !.closing = "lock"]

remove ==
    /\ state.pool # 0
    /\ state' = [WithCore(state.pool, shutdown(state.pool)) EXCEPT !.pool = 0]
    /\ UNCHANGED <<requests, engine, ghost>>

TakesSession(p) ==
    /\ Core(p).closing = "lock" /\ Core(p).lock = NoRequest
    /\ state' = WithCore(p, [Core(p) EXCEPT
            !.session = NoSession, !.stopping = Core(p).session,
            !.closing = IF Core(p).session = NoSession THEN "done" ELSE "stop"])
    /\ UNCHANGED <<requests, engine, ghost>>

(* session::force_remove_container: the container goes, or the engine       *)
(* refuses or is too slow, which the callers take for done.                 *)
force_remove_container(c) ==
    \/ engine' = [engine EXCEPT !.containers[c] = "gone", !.failed = @ \ {c}]
    \/ engine.containers[c] # "gone" /\ Loses(c, "removal")

StopsSession(p) ==
    /\ Core(p).closing = "stop"
    /\ force_remove_container(Core(p).stopping)
    /\ state' = WithCore(p, [Core(p) EXCEPT !.closing = "done", !.stopping = NoSession])
    /\ UNCHANGED <<requests, ghost>>

-----------------------------------------------------------------------------
(* HelperProviderCore: the operations.                                      *)

(* read_dir: the generation first, then the cache.                          *)
Hit(core) == core.directory.fresh /\ core.directory.generation = core.generation

read_dir(r, p) ==
    /\ state.lists
    /\ IF Hit(Core(p))
       THEN requests' = [requests EXCEPT ![r] =
                [Idle EXCEPT !.pc = "listed", !.op = "list", !.provider = p,
                             !.version = Core(p).directory.version,
                             !.since = ghost[p]] @@ [handle |-> requests[r].handle]]
       ELSE Begins(r, "list", p, "session")
    /\ UNCHANGED <<state, engine, ghost>>

(* All three stat a path in the helper.  (lists: a scenario is about the    *)
(* listings, or about the requests for one path.)                           *)
getattr(r, p) == ~state.lists /\ Begins(r, "stat", p, "session") /\ UNCHANGED <<state, engine, ghost>>
lookup(r, p) == getattr(r, p)
read_link(r, p) == ~state.lists /\ Begins(r, "stat", p, "session") /\ UNCHANGED <<state, engine, ghost>>

open(r, p) ==
    /\ requests[r].handle = NoHandle /\ state.next_handle <= state.opens
    /\ Begins(r, "open", p, "session")
    /\ UNCHANGED <<state, engine, ghost>>

(* Whether read_at goes on to the helper.                                   *)
Readable(core, handle) ==
    /\ core.active
    /\ [id |-> handle.id, epoch |-> handle.epoch] \in core.handles
    /\ handle.epoch = core.session_epoch

read_at(r) ==
    LET p == requests[r].handle.provider
    IN  /\ requests[r].handle # NoHandle
        /\ Readable(Core(p), requests[r].handle)
        /\ Begins(r, "read", p, "session")
        /\ UNCHANGED <<state, engine, ghost>>

close(r) ==
    LET handle == requests[r].handle
    IN  /\ handle # NoHandle
        /\ requests' = [requests EXCEPT ![r] = Idle @@ [handle |-> NoHandle]]
        /\ state' = [state EXCEPT !.cores[handle.provider].handles =
                        {h \in @ : h.id # handle.id}]
        /\ UNCHANGED <<engine, ghost>>

(* refresh, of a path that holds the cached directory or lies in it.        *)
refresh(p) ==
    /\ state.refreshes > 0
    /\ state' = [WithCore(p, [Core(p) EXCEPT !.generation = @ + 1, !.directory = NoDirectory])
                    EXCEPT !.refreshes = @ - 1]
    /\ ghost' = [ghost EXCEPT ![p] = engine.tree]
    /\ UNCHANGED <<requests, engine>>

(* The cached directory is older than directory_ttl.                        *)
Expires(p) ==
    /\ Core(p).directory.fresh
    /\ state' = WithCore(p, [Core(p) EXCEPT !.directory = NoDirectory])
    /\ UNCHANGED <<requests, engine, ghost>>

Operation(r) ==
    /\ Answered(r)
    /\ \/ \E p \in 1..state.created : 
            read_dir(r, p) \/ lookup(r, p) \/ getattr(r, p) \/ read_link(r, p) \/ open(r, p)
       \/ read_at(r)
       \/ close(r)

-----------------------------------------------------------------------------
(* session: the provider's session, started under its lock.                 *)

session(r) ==
    /\ At(r, "session")
    /\ IF CoreOf(r).active THEN Goes(r, "lock") ELSE Answers(r)
    /\ UNCHANGED <<state, engine, ghost>>

Locks(r) ==
    /\ At(r, "lock") /\ CoreOf(r).lock = NoRequest
    /\ IF CoreOf(r).session # NoSession
       THEN /\ requests' = [requests EXCEPT ![r].pc = "exec", ![r].session = CoreOf(r).session]
            /\ UNCHANGED state
       ELSE /\ Goes(r, "image")
            /\ state' = WithCore(requests[r].provider, [CoreOf(r) EXCEPT !.lock = r])
    /\ UNCHANGED <<engine, ghost>>

(* Starting a session fails: the lock is released, nothing is in the slot.  *)
StartFails(r) == Answers(r) /\ Releases(r) /\ UNCHANGED ghost

(* ensure_helper_image: present, or loaded into the engine.                 *)
ensure_helper_image(r) ==
    /\ At(r, "image")
    /\ \/ /\ Goes(r, "create") /\ engine' = [engine EXCEPT !.image = TRUE]
          /\ UNCHANGED <<state, ghost>>
       \/ ~engine.image /\ StartFails(r) /\ UNCHANGED engine

(* create_container: a timeout leaves open whether the engine made it.      *)
Unused == {c \in Containers : engine.containers[c] = "none"}
Creates(r, c) ==
    [engine EXCEPT !.containers[c] = "created", !.owner[c] = requests[r].provider]

create_container(r) ==
    /\ At(r, "create")
    /\ \/ \E c \in Unused :
            /\ \A d \in Unused : c <= d
            /\ \/ /\ engine' = Creates(r, c)
                  /\ requests' = [requests EXCEPT ![r].pc = "start", ![r].session = c]
                  /\ UNCHANGED <<state, ghost>>
               \/ /\ engine' = [Creates(r, c) EXCEPT !.lost[c] = "cut"]
                  /\ StartFails(r)
       \/ StartFails(r) /\ UNCHANGED engine

start_container(r) ==
    /\ At(r, "start") /\ Goes(r, "hello")
    /\ engine' = [engine EXCEPT !.containers[requests[r].session] = "up"]
    /\ UNCHANGED <<state, ghost>>

(* client::hello: the helper runs and speaks this protocol.                 *)
hello(r) ==
    /\ At(r, "hello") /\ Goes(r, "exec")
    /\ state' = WithCore(requests[r].provider,
                         [CoreOf(r) EXCEPT !.session = requests[r].session, !.lock = NoRequest])
    /\ UNCHANGED <<engine, ghost>>

(* create_bind_session removes a container that does not start or does not  *)
(* answer.                                                                  *)
BindFails(r) ==
    /\ state.kind = "bind" /\ requests[r].pc \in {"start", "hello"}
    /\ Goes(r, "undo")
    /\ UNCHANGED <<state, engine, ghost>>

(* create_session of a volume leaves one that does not start, and has a     *)
(* task of its own remove one that does not answer.                         *)
VolumeStartFails(r) ==
    /\ state.kind = "volume" /\ At(r, "start")
    /\ StartFails(r) /\ Loses(requests[r].session, "start")

VolumeHelloFails(r) ==
    /\ state.kind = "volume" /\ At(r, "hello")
    /\ StartFails(r)
    /\ engine' = [engine EXCEPT !.reaping = @ \cup {requests[r].session}]

Undoes(r) ==
    /\ At(r, "undo")
    /\ force_remove_container(requests[r].session)
    /\ StartFails(r)

Reaps(c) ==
    /\ c \in engine.reaping
    /\ \/ engine' = [engine EXCEPT !.reaping = @ \ {c}, !.containers[c] = "gone"]
       \/ engine' = [engine EXCEPT !.reaping = @ \ {c}, !.lost[c] = "removal"]
    /\ UNCHANGED <<state, requests, ghost>>

-----------------------------------------------------------------------------
(* run: one exec in the helper (client::exec_lines and its callers).        *)

(* The helper runs and its lines of output are collected.                   *)
exec_lines(r) ==
    /\ At(r, "exec")
    /\ engine.containers[requests[r].session] = "up"

(* What the helper wrote is taken for the whole listing.                    *)
list_directory(r) ==
    /\ exec_lines(r) /\ requests[r].op = "list"
    /\ requests' = [requests EXCEPT ![r].pc = "insert", ![r].version = engine.tree]
    /\ UNCHANGED <<state, engine, ghost>>

stat(r) ==
    /\ exec_lines(r) /\ requests[r].op \in {"stat", "open"}
    /\ IF requests[r].op = "open" THEN Goes(r, "register") ELSE Answers(r)
    /\ UNCHANGED <<state, engine, ghost>>

preview(r) ==
    /\ exec_lines(r) /\ requests[r].op = "read"
    /\ Answers(r)
    /\ UNCHANGED <<state, engine, ghost>>

(* FilesystemError: which errors cost the session.                          *)
invalidates_session(error) == error \in {"Timeout", "SessionClosed", "ExecFailed"}

Errs(r, error) ==
    /\ IF invalidates_session(error)
       THEN /\ Goes(r, "invalidate")
            /\ engine' = [engine EXCEPT !.failed = @ \cup {requests[r].session}]
       ELSE Answers(r) /\ UNCHANGED engine
    /\ UNCHANGED <<state, ghost>>

(* The helper reports an error.  Its Io becomes ExecFailed; the others only *)
(* say what is wrong with the path.                                         *)
map_helper_error(r) ==
    /\ exec_lines(r)
    /\ \E error \in {"PathNotFound", "ExecFailed", "HelperProtocolError"} : Errs(r, error)

(* The exec itself fails or takes too long.                                 *)
map_exec_error(r) ==
    /\ At(r, "exec")
    /\ \E error \in {"SessionClosed", "UnsupportedPlatform", "ExecFailed", "Timeout"} : Errs(r, error)

(* Mutant: the cached listing is stamped with the generation it is inserted *)
(* in.                                                                      *)
StampedLate(r) == CoreOf(r).generation

IsCurrent(r) == CoreOf(r).session = requests[r].session

invalidate_failed_session(r) ==
    /\ At(r, "invalidate") /\ CoreOf(r).lock = NoRequest
    /\ IF IsCurrent(r) /\ CoreOf(r).session # NoSession
       THEN /\ requests' = [requests EXCEPT ![r].pc = "stop", ![r].session = CoreOf(r).session]
            /\ state' = WithCore(requests[r].provider, [CoreOf(r) EXCEPT !.session = NoSession])
       ELSE Answers(r) /\ UNCHANGED state
    /\ UNCHANGED <<engine, ghost>>

stop_session(r) ==
    /\ At(r, "stop")
    /\ force_remove_container(requests[r].session)
    /\ state' = WithCore(requests[r].provider,
            [CoreOf(r) EXCEPT !.generation = @ + 1, !.session_epoch = @ + 1,
                              !.directory = NoDirectory])
    /\ Answers(r)
    /\ UNCHANGED ghost

(* The end of read_dir and of open.                                         *)
Stamp(r) == requests[r].generation

InsertsDirectory(r) ==
    /\ At(r, "insert")
    /\ Goes(r, "listed")
    /\ state' = WithCore(requests[r].provider, [CoreOf(r) EXCEPT !.directory =
            [generation |-> Stamp(r), version |-> requests[r].version, fresh |-> TRUE]])
    /\ UNCHANGED <<engine, ghost>>

InsertsHandle(r) ==
    LET p == requests[r].provider
        id == state.next_handle
        epoch == CoreOf(r).session_epoch
    IN  /\ At(r, "register") /\ id <= state.opens
        /\ requests' = [requests EXCEPT ![r] = Idle @@
                [handle |-> [id |-> id, epoch |-> epoch, provider |-> p]]]
        /\ state' = [state EXCEPT !.next_handle = @ + 1,
                        !.cores[p].handles = @ \cup {[id |-> id, epoch |-> epoch]}]
        /\ UNCHANGED <<engine, ghost>>

-----------------------------------------------------------------------------
(* ProviderExecutor drops a request whose time is over.  What it was        *)
(* starting or removing is left as it is.                                   *)
Held(r) ==
    IF requests[r].pc \in {"start", "hello", "undo", "stop"} THEN {requests[r].session} ELSE {}

Cut(r) ==
    /\ ~Answered(r)
    /\ Answers(r)
    /\ state' = IF CoreOf(r).lock = r
                THEN WithCore(requests[r].provider, [CoreOf(r) EXCEPT !.lock = NoRequest])
                ELSE state
    /\ engine' = [engine EXCEPT !.lost = [c \in Containers |-> IF c \in Held(r) THEN "cut" ELSE @[c]]]
    /\ UNCHANGED ghost

(* cleanup_orphan_sessions and cleanup_orphan_bind_helpers, when the daemon *)
(* stops: nothing is served any more.                                       *)
cleanup_orphans ==
    /\ state.pool = 0 /\ state.created > 0
    /\ \A r \in Requests : Answered(r)
    /\ \A p \in 1..state.created : Core(p).closing = "done"
    /\ Lost # {}
    /\ \E kept \in SUBSET Lost :
        engine' = [engine EXCEPT
            !.lost = [c \in Containers |-> IF c \in kept THEN @[c] ELSE "no"],
            !.containers = [c \in Containers |-> IF c \in Lost \ kept THEN "gone" ELSE @[c]]]
    /\ UNCHANGED <<state, requests, ghost>>

Changes ==
    /\ engine.tree < state.changes
    /\ engine' = [engine EXCEPT !.tree = @ + 1]
    /\ UNCHANGED <<state, requests, ghost>>

Next ==
    \/ provider \/ remove \/ cleanup_orphans \/ Changes
    \/ \E p \in 1..state.created : refresh(p) \/ Expires(p) \/ TakesSession(p) \/ StopsSession(p)
    \/ \E c \in Containers : Reaps(c)
    \/ \E r \in Requests :
        \/ Operation(r) \/ session(r) \/ Locks(r) \/ ensure_helper_image(r) \/ create_container(r)
        \/ start_container(r) \/ hello(r) \/ BindFails(r) \/ VolumeStartFails(r)
        \/ VolumeHelloFails(r) \/ Undoes(r) \/ list_directory(r) \/ stat(r) \/ preview(r)
        \/ map_helper_error(r) \/ map_exec_error(r) \/ invalidate_failed_session(r) \/ stop_session(r)
        \/ InsertsDirectory(r) \/ InsertsHandle(r) \/ Cut(r)

-----------------------------------------------------------------------------
TypeOK ==
    /\ state.pool \in 0..state.created
    /\ \A p \in Providers :
        /\ Core(p).session \in Containers \cup {NoSession}
        /\ Core(p).lock \in Requests \cup {NoRequest}
        /\ Core(p).closing \in {"no", "lock", "stop", "done"}
    /\ \A r \in Requests :
        requests[r].pc \in {"idle", "listed", "session", "lock", "image", "create", "start", "hello",
                            "undo", "exec", "invalidate", "stop", "insert", "register"}
    /\ \A c \in Containers : engine.containers[c] \in {"none", "created", "up", "gone"}

(* Who answers for a container: the slot it is in, the request or the       *)
(* shutdown that is starting or removing it, a removal task; or nobody any  *)
(* more, after a removal that failed or was cut off.                        *)
Holders(c) ==
    {<<"slot", p>> : p \in {p \in Providers : Core(p).session = c}}
    \cup {<<"shutdown", p>> : p \in {p \in Providers : Core(p).stopping = c}}
    \cup {<<"request", r>> : r \in {r \in Requests : c \in Held(r)}}
    \cup {<<"task", t>> : t \in {c} \cap engine.reaping}
    \cup {<<engine.lost[t], t>> : t \in {c} \cap Lost}

(* Every helper container that exists has exactly one holder, however the   *)
(* failures of its start, of its execs and of its removal fall.  Nobody     *)
(* holds one whose removal was tried and failed, one whose creation or      *)
(* request was cut off, and one of a volume that did not start: a bind      *)
(* mount's that does not start or does not answer is removed.  The lock is  *)
(* held by a request that is starting a session.                            *)
Accounted ==
    /\ \A c \in Containers :
        /\ engine.containers[c] \in {"created", "up"} => Cardinality(Holders(c)) = 1
        /\ engine.lost[c] = "start" => state.kind = "volume"
    /\ \A p \in Providers : Core(p).lock # NoRequest =>
        /\ requests[Core(p).lock].pc \in {"image", "create", "start", "hello", "undo"}
        /\ Core(p).session = NoSession

(* Does not hold: a helper container that does not start is removed, as     *)
(* create_bind_session does and create_session does not.                    *)
StartFailureRemoved == \A c \in Containers : engine.lost[c] # "start"

(* A listing that was asked for after a refresh was read from the tree      *)
(* after that refresh, even when it comes from the cache.                   *)
RefreshSeen ==
    \A r \in Requests : requests[r].pc = "listed" => requests[r].version >= requests[r].since

(* "Precise cleanup": a session that works is only ever removed by the      *)
(* shutdown of its provider.                                                *)
OnlyOwn ==
    \A c \in Containers :
        (engine.containers[c] = "up" /\ engine'.containers[c] = "gone")
            => \/ c \in engine.failed \cup engine.reaping \cup Lost
               \/ ~Core(engine.owner[c]).active
               \/ \E r \in Requests : At(r, "undo") /\ requests[r].session = c

(* "Invalidate an event-selected volume and precisely remove its helper     *)
(* session" (NamedVolumeProviderPool::remove): a provider that was shut     *)
(* down has no session.                                                     *)
RemovedHasNoSession ==
    \A p \in Providers : Core(p).closing = "done" => Core(p).session = NoSession
=============================================================================
