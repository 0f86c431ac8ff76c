-------------------------------- MODULE Daemon --------------------------------
(***************************************************************************)
(* The daemon's view of Docker (tuxstack-daemon/src/state.rs and           *)
(* docker-core/src/cache/events.rs): the event monitor that debounces      *)
(* Docker events into a watched notification, the task that rebuilds the   *)
(* namespace after one, and the mount, unmount and path requests of        *)
(* clients, all around the namespace_rebuild lock.                         *)
(*                                                                         *)
(* Containers and volumes come and go.  A container's rootfs provider is   *)
(* known by its snapshot generation, a volume provider by its incarnation  *)
(* in the pool; a number is used again once nobody refers to it.           *)
(***************************************************************************)
EXTENDS Integers, Sequences, FiniteSets

CONSTANTS
    Containers, Volumes,
    VolumesOf,          \* the volumes each container mounts
    Requests,           \* mount, unmount and path requests under way
    NoOne,
    MaxSnapshots,       \* rootfs providers alive at a time
    MaxIncarnations,    \* volume providers alive at a time
    MaxChanges,         \* bound on what happens in Docker
    MaxStream           \* bound on events on their way

ASSUME DaemonAssumption ==
    /\ VolumesOf \in [Containers -> SUBSET Volumes]
    /\ NoOne \notin Requests \cup {"events"}
    /\ {MaxSnapshots, MaxIncarnations, MaxChanges, MaxStream} \subseteq Nat \ {0}

Snapshots == Containers \X (1..MaxSnapshots)
Incarnations == Volumes \X (1..MaxIncarnations)
Rebuilders == Requests \cup {"events"}
ResourceKinds == {"containers", "volumes"}

VARIABLES
    docker, version,            \* what exists, and how often that changed
    stream, connected,          \* events on their way, whether we listen
    pending, backoff,           \* the monitor's batch; it waits to reconnect
    notification, unread,       \* the watched value, and whether it changed
    handler,                    \* the change task
    rebuild_lock,               \* holder of namespace_rebuild
    plan,                       \* what each rebuilder is about to install
    namespace,                  \* what is attached: containers and volumes
    registries,                 \* rootfs providers, helper binds, volume names
    built,                      \* version the namespace was listed at
    captured,                   \* rootfs providers with a snapshot
    stopped_helpers,            \* containers' bind helpers that were shut down
    pool, dead,                 \* volume providers; the ones shut down
    request,                    \* each client request
    session, mount_status       \* the FUSE session (and its notifier), and what is
                                \* said about it

dockerVars == <<docker, version, stream, connected>>
monitorVars == <<pending, backoff, notification, unread>>
namespaceVars == <<namespace, registries, built, captured, stopped_helpers, pool, dead>>
mountVars == <<session, mount_status>>
vars == <<dockerVars, monitorVars, handler, rebuild_lock, plan, namespaceVars, request, mountVars>>

-----------------------------------------------------------------------------

Unattached == [c \in Containers |-> 0]
NoVolumes == [v \in Volumes |-> 0]
Empty == [rootfs |-> Unattached, volumes |-> NoVolumes]
NoPlan == [at |-> "none", rootfs |-> Unattached, volumes |-> NoVolumes, names |-> {},
           version |-> 0, helpers |-> {}, removed |-> {}]
Idle == [at |-> "idle", op |-> "none", container |-> NoOne, answer |-> 0]

Init ==
    /\ docker = {} /\ version = 0
    /\ stream = <<>> /\ connected = TRUE
    /\ pending = {} /\ backoff = FALSE
    /\ notification = {} /\ unread = FALSE
    /\ handler = [at |-> "idle", kinds |-> {}]
    /\ rebuild_lock = NoOne
    /\ plan = [t \in Rebuilders |-> NoPlan]
    /\ namespace = Empty
    /\ registries = [rootfs |-> Unattached, helper_binds |-> {}, volume_names |-> {}]
    /\ built = 0
    /\ captured = {} /\ stopped_helpers = {}
    /\ pool = NoVolumes /\ dead = {}
    /\ request = [r \in Requests |-> Idle]
    /\ session = TRUE /\ mount_status = "Mounted"

-----------------------------------------------------------------------------
(* Docker: resources come and go, networks change, the event stream breaks. *)

Emit(kind) ==
    stream' = IF connected THEN Append(stream, kind) ELSE stream

Changes(x) ==
    /\ version < MaxChanges
    /\ Len(stream) < MaxStream
    /\ version' = version + 1
    /\ docker' = (docker \ {x}) \cup ({x} \ docker)
    /\ Emit(IF x \in Containers THEN "containers" ELSE "volumes")
    /\ UNCHANGED <<connected, monitorVars, handler, rebuild_lock, plan, namespaceVars, request,
                   mountVars>>

NetworkChanges ==
    /\ version < MaxChanges
    /\ Len(stream) < MaxStream
    /\ version' = version + 1
    /\ Emit("networks")
    /\ UNCHANGED <<docker, connected, monitorVars, handler, rebuild_lock, plan, namespaceVars,
                   request, mountVars>>

StreamBreaks ==
    /\ connected
    /\ version < MaxChanges
    /\ connected' = FALSE
    /\ UNCHANGED <<docker, version, stream, monitorVars, handler, rebuild_lock, plan,
                   namespaceVars, request, mountVars>>

-----------------------------------------------------------------------------
(* run_monitor.                                                            *)

MonitorUnchanged == UNCHANGED <<docker, version, handler, rebuild_lock, plan, namespaceVars,
                                request, mountVars>>

(* flush publishes the batch, replacing whatever nobody has read yet.       *)
flush ==
    /\ notification' = IF pending = {} THEN notification ELSE pending
    /\ unread' = (unread \/ pending # {})

(* Mutant: events of the daemon's own helpers are not filtered out.         *)
classify_everything(kind) == IF kind = "helper" THEN {"containers"} ELSE {kind}

(* DefaultEventClassifier: the daemon's own helpers' events are ignored.    *)
classify(kind) == IF kind = "helper" THEN {} ELSE {kind}

PendingAdd(kinds) == pending' = pending \cup kinds

(* An event opens or joins the batch; a batch whose window closed meanwhile *)
(* is flushed first.                                                        *)
EventArrives(closed) ==
    LET kinds == classify(Head(stream)) IN
    /\ ~backoff
    /\ stream # <<>>
    /\ stream' = Tail(stream)
    /\ IF kinds = {}
       THEN UNCHANGED <<pending, notification, unread>>
       ELSE IF closed /\ pending # {}
       THEN flush /\ pending' = kinds
       ELSE PendingAdd(kinds) /\ UNCHANGED <<notification, unread>>
    /\ UNCHANGED <<connected, backoff>>
    /\ MonitorUnchanged

(* The stream failed or ended: flush, then wait_backoff.                    *)
StreamEnds ==
    /\ ~backoff
    /\ ~connected /\ stream = <<>>
    /\ flush
    /\ pending' = {}
    /\ backoff' = TRUE
    /\ UNCHANGED <<stream, connected>>
    /\ MonitorUnchanged

Reconnects ==
    /\ backoff
    /\ backoff' = FALSE
    /\ connected' = TRUE
    /\ UNCHANGED <<stream, pending, notification, unread>>
    /\ MonitorUnchanged

debounce_tick ==
    /\ ~backoff
    /\ pending # {}
    /\ flush
    /\ pending' = {}
    /\ UNCHANGED <<stream, connected, backoff>>
    /\ MonitorUnchanged

-----------------------------------------------------------------------------
(* rebuild_namespace, for whoever calls it.                                *)

RebuildUnchanged == UNCHANGED <<docker, version, connected, monitorVars, handler, request,
                                mountVars>>

(* Providers somebody still refers to; a new one takes the first number     *)
(* that is free.                                                            *)
FirstFree(used, bound) ==
    CHOOSE n \in 1..bound : n \notin used /\ \A m \in 1..n - 1 : m \in used

UsedSnapshots(c) ==
    {namespace.rootfs[c], registries.rootfs[c]}
      \cup {plan[t].rootfs[c] : t \in Rebuilders}
      \cup {h[2] : h \in {h \in UNION {plan[t].helpers : t \in Rebuilders} : h[1] = c}}
      \cup {request[r].answer : r \in {r \in Requests : request[r].container = c}}

UsedIncarnations(v) ==
    {namespace.volumes[v], pool[v]} \cup {plan[t].volumes[v] : t \in Rebuilders}

Wants(t) ==
    IF t = "events" THEN handler.at = "rebuild" ELSE request[t].at = "rebuild"

(* Mutant: the namespace is listed and installed without the lock.          *)
RebuildWithoutLock(t) ==
    /\ Wants(t) /\ plan[t].at = "none"
    /\ plan' = [plan EXCEPT ![t].at = "list"]
    /\ UNCHANGED <<stream, rebuild_lock, namespaceVars>>
    /\ RebuildUnchanged

RebuildLocks(t) ==
    /\ Wants(t) /\ plan[t].at = "none"
    /\ rebuild_lock = NoOne
    /\ rebuild_lock' = t
    /\ plan' = [plan EXCEPT ![t].at = "list"]
    /\ UNCHANGED <<stream, namespaceVars>>
    /\ RebuildUnchanged

(* build_namespace_plan: every listing and every single provider may fail,  *)
(* which only leaves it out.                                                *)
add_container(c) == FirstFree(UsedSnapshots(c), MaxSnapshots)
add_volume(v) ==
    IF pool[v] # 0 THEN pool[v] ELSE FirstFree(UsedIncarnations(v), MaxIncarnations)

build_namespace_plan(t, containers, volumes) ==
    LET names == volumes \cup UNION {VolumesOf[c] : c \in containers} IN
    [NoPlan EXCEPT
        !.at = "swap",
        !.rootfs = [c \in Containers |-> IF c \in containers THEN add_container(c) ELSE 0],
        !.volumes = [v \in Volumes |-> IF v \in names THEN add_volume(v) ELSE 0],
        !.names = names,
        !.version = version]

RebuildLists(t) ==
    /\ plan[t].at = "list"
    /\ \E containers \in SUBSET (docker \cap Containers), volumes \in SUBSET (docker \cap Volumes) :
        LET new == build_namespace_plan(t, containers, volumes) IN
        /\ plan' = [plan EXCEPT ![t] = new]
        /\ pool' = [v \in Volumes |-> IF v \in new.names THEN new.volumes[v] ELSE pool[v]]
        /\ captured' = captured \ {<<c, new.rootfs[c]>> : c \in containers}
        /\ stopped_helpers' = stopped_helpers \ {<<c, new.rootfs[c]>> : c \in containers}
        /\ dead' = dead \ {<<v, new.volumes[v]>> : v \in {v \in new.names : pool[v] = 0}}
    /\ UNCHANGED <<stream, rebuild_lock, namespace, registries, built>>
    /\ RebuildUnchanged

(* Mutant: every volume known before is removed from the pool.              *)
RebuildSwapsAll(t) ==
    /\ plan[t].at = "swap"
    /\ namespace' = [rootfs |-> plan[t].rootfs, volumes |-> plan[t].volumes]
    /\ registries' = [rootfs |-> plan[t].rootfs, volume_names |-> plan[t].names,
                      helper_binds |-> {s \in Snapshots : plan[t].rootfs[s[1]] = s[2]}]
    /\ built' = plan[t].version
    /\ plan' = [plan EXCEPT ![t].at = "helpers", ![t].helpers = registries.helper_binds,
                            ![t].removed = registries.volume_names]
    /\ UNCHANGED <<stream, rebuild_lock, captured, stopped_helpers, pool, dead>>
    /\ RebuildUnchanged

(* Under the registries' write lock: namespace and registries are replaced. *)
RebuildSwaps(t) ==
    /\ plan[t].at = "swap"
    /\ namespace' = [rootfs |-> plan[t].rootfs, volumes |-> plan[t].volumes]
    /\ registries' = [rootfs |-> plan[t].rootfs, volume_names |-> plan[t].names,
                      helper_binds |-> {s \in Snapshots : plan[t].rootfs[s[1]] = s[2]}]
    /\ built' = plan[t].version
    /\ plan' = [plan EXCEPT ![t].at = "helpers", ![t].helpers = registries.helper_binds,
                            ![t].removed = registries.volume_names \ plan[t].names]
    /\ UNCHANGED <<stream, rebuild_lock, captured, stopped_helpers, pool, dead>>
    /\ RebuildUnchanged

(* shutdown_helper_binds removes helper containers, which Docker reports.   *)
shutdown_helper_binds(t) ==
    /\ plan[t].at = "helpers"
    /\ plan[t].helpers # {} => Len(stream) < MaxStream
    /\ stopped_helpers' = stopped_helpers \cup plan[t].helpers
    /\ IF plan[t].helpers = {} THEN UNCHANGED stream ELSE Emit("helper")
    /\ plan' = [plan EXCEPT ![t].at = "remove"]
    /\ UNCHANGED <<rebuild_lock, namespace, registries, built, captured, pool, dead>>
    /\ RebuildUnchanged

(* volume_pool.remove for every volume that is gone; the lock is released.  *)
(* Providers nobody refers to any longer are forgotten.                     *)
RebuildFinishes(t) ==
    LET removed == plan[t].removed IN
    /\ plan[t].at = "remove"
    /\ plan' = [plan EXCEPT ![t] = NoPlan]
    /\ rebuild_lock' = NoOne
    /\ IF t = "events"
       THEN handler' = [handler EXCEPT !.at = "publish"] /\ UNCHANGED request
       ELSE request' = [request EXCEPT ![t].at = "spawn"] /\ UNCHANGED handler
    /\ UNCHANGED <<dockerVars, monitorVars, namespace, registries, built, mountVars>>
    /\ pool' = [v \in Volumes |-> IF v \in removed THEN 0 ELSE pool[v]]
    /\ dead' = {p \in dead \cup {<<v, pool[v]>> : v \in removed} :
                 p[2] # 0 /\ p[2] \in UsedIncarnations(p[1])'}
    /\ captured' = {s \in captured : s[2] \in UsedSnapshots(s[1])'}
    /\ stopped_helpers' = {s \in stopped_helpers : s[2] \in UsedSnapshots(s[1])'}

-----------------------------------------------------------------------------
(* start_events' second task and handle_change.                            *)

ChangeArrives ==
    /\ handler.at = "idle"
    /\ unread
    /\ unread' = FALSE /\ notification' = {}
    /\ handler' = [at |-> IF notification \cap ResourceKinds # {} THEN "rebuild" ELSE "publish",
                   kinds |-> notification]
    /\ UNCHANGED <<dockerVars, pending, backoff, rebuild_lock, plan,
                   namespaceVars, request, mountVars>>

(* The root inode is invalidated and every kind is announced to clients.    *)
publish_change ==
    /\ handler.at = "publish"
    /\ handler' = [at |-> "idle", kinds |-> {}]
    /\ UNCHANGED <<dockerVars, monitorVars, rebuild_lock, plan, namespaceVars, request, mountVars>>

-----------------------------------------------------------------------------
(* Requests of clients.  A request may be cancelled wherever it awaits.    *)

At(r, place) == request[r].at = place
Goes(r, place) == request' = [request EXCEPT ![r].at = place]
RequestUnchanged == UNCHANGED <<dockerVars, monitorVars, handler>>

mount(r) ==
    /\ At(r, "idle") \/ At(r, "mount")
    /\ IF session
       THEN request' = [request EXCEPT ![r] = Idle] /\ UNCHANGED mount_status
       ELSE /\ Goes(r, "rebuild")
            /\ mount_status' = "Mounting"
    /\ UNCHANGED <<rebuild_lock, plan, namespaceVars, session>>
    /\ RequestUnchanged

(* spawn_mount; an older session that is replaced is dropped.               *)
MountSpawns(r) ==
    /\ At(r, "spawn")
    /\ \/ /\ Goes(r, "report")
          /\ session' = TRUE
       \/ /\ request' = [request EXCEPT ![r] = Idle]
          /\ UNCHANGED session
    /\ UNCHANGED <<rebuild_lock, plan, namespaceVars, mount_status>>
    /\ RequestUnchanged

MountReports(r) ==
    /\ At(r, "report")
    /\ request' = [request EXCEPT ![r] = Idle]
    /\ mount_status' = "Mounted"
    /\ UNCHANGED <<rebuild_lock, plan, namespaceVars, session>>
    /\ RequestUnchanged

unmount(r, next) ==
    /\ At(r, "idle")
    /\ request' = [request EXCEPT ![r].at = "join", ![r].op = next]
    /\ mount_status' = "Unmounting"
    /\ session' = FALSE
    /\ UNCHANGED <<rebuild_lock, plan, namespaceVars>>
    /\ RequestUnchanged

(* umount_and_join returned; remount goes on to mount.                      *)
UnmountJoins(r) ==
    /\ At(r, "join")
    /\ \/ /\ mount_status' = "Unmounted"
          /\ request' = [request EXCEPT ![r] =
                IF @.op = "remount" THEN [Idle EXCEPT !.at = "mount"] ELSE Idle]
       \/ /\ request' = [request EXCEPT ![r] = Idle]
          /\ UNCHANGED mount_status
    /\ UNCHANGED <<rebuild_lock, plan, namespaceVars, session>>
    /\ RequestUnchanged

(* resource_path and provider_descriptor.                                   *)
resource_path(r, c) ==
    /\ At(r, "idle")
    /\ request' = [request EXCEPT ![r].at = "lock", ![r].container = c]
    /\ UNCHANGED <<rebuild_lock, plan, namespaceVars, mountVars>>
    /\ RequestUnchanged

Release(r) == rebuild_lock' = IF rebuild_lock = r THEN NoOne ELSE rebuild_lock

(* Mutant: the path is resolved without the rebuild lock.                   *)
PathWithoutLock(r) ==
    /\ At(r, "lock")
    /\ Goes(r, "ensure")
    /\ UNCHANGED <<rebuild_lock, plan, namespaceVars, mountVars>>
    /\ RequestUnchanged

PathLocks(r) ==
    /\ At(r, "lock")
    /\ rebuild_lock = NoOne
    /\ rebuild_lock' = r
    /\ Goes(r, "ensure")
    /\ UNCHANGED <<plan, namespaceVars, mountVars>>
    /\ RequestUnchanged

(* ensure_container_snapshot: look the rootfs provider up, then capture it. *)
ensure_container_snapshot(r) ==
    LET g == registries.rootfs[request[r].container] IN
    /\ At(r, "ensure")
    /\ IF g = 0
       THEN request' = [request EXCEPT ![r] = Idle] /\ Release(r)
       ELSE /\ request' = [request EXCEPT
                  ![r].at = IF <<request[r].container, g>> \in captured THEN "resolve" ELSE "capture",
                  ![r].answer = g]
            /\ UNCHANGED rebuild_lock
    /\ UNCHANGED <<plan, namespaceVars, mountVars>>
    /\ RequestUnchanged

capture(r) ==
    /\ At(r, "capture")
    /\ \/ /\ captured' = captured \cup {<<request[r].container, request[r].answer>>}
          /\ Goes(r, "resolve")
          /\ UNCHANGED rebuild_lock
       \/ /\ request' = [request EXCEPT ![r] = Idle]
          /\ Release(r)
          /\ UNCHANGED captured
    /\ UNCHANGED <<plan, namespace, registries, built, stopped_helpers, pool, dead, mountVars>>
    /\ RequestUnchanged

(* provider_at and descriptor_for_route on the namespace as it is now.      *)
descriptor_for_route(r) ==
    LET g == namespace.rootfs[request[r].container] IN
    /\ At(r, "resolve")
    /\ Release(r)
    /\ request' = IF g = 0 THEN [request EXCEPT ![r] = Idle]
                  ELSE [request EXCEPT ![r].at = "answered", ![r].answer = g]
    /\ UNCHANGED <<plan, namespaceVars, mountVars>>
    /\ RequestUnchanged

PathReturns(r) ==
    /\ At(r, "answered")
    /\ request' = [request EXCEPT ![r] = Idle]
    /\ UNCHANGED <<rebuild_lock, plan, namespaceVars, mountVars>>
    /\ RequestUnchanged

(* Mutant: a cancelled request keeps the lock.                              *)
DroppedWithLock(r) ==
    /\ request[r].at \in {"rebuild", "join", "lock", "capture"}
    /\ request' = [request EXCEPT ![r] = Idle]
    /\ plan' = [plan EXCEPT ![r] = NoPlan]
    /\ UNCHANGED <<rebuild_lock, namespaceVars, mountVars>>
    /\ RequestUnchanged

(* CancelRequest or a closed connection drops the request's future.         *)
Dropped(r) ==
    /\ request[r].at \in {"rebuild", "join", "lock", "capture"}
    /\ request' = [request EXCEPT ![r] = Idle]
    /\ plan' = [plan EXCEPT ![r] = NoPlan]
    /\ Release(r)
    /\ UNCHANGED <<namespaceVars, mountVars>>
    /\ RequestUnchanged

-----------------------------------------------------------------------------

Monitor ==
    \/ \E closed \in BOOLEAN : EventArrives(closed)
    \/ StreamEnds \/ Reconnects \/ debounce_tick

Rebuild(t) ==
    \/ RebuildLocks(t) \/ RebuildLists(t) \/ RebuildSwaps(t)
    \/ shutdown_helper_binds(t) \/ RebuildFinishes(t)

Handle == ChangeArrives \/ Rebuild("events") \/ publish_change

Serve(r) ==
    \/ Rebuild(r) \/ MountSpawns(r) \/ MountReports(r) \/ UnmountJoins(r)
    \/ At(r, "mount") /\ mount(r)
    \/ PathLocks(r) \/ ensure_container_snapshot(r) \/ capture(r)
    \/ descriptor_for_route(r) \/ PathReturns(r)

Clients(r) ==
    \/ At(r, "idle") /\ mount(r)
    \/ \E next \in {"unmount", "remount"} : unmount(r, next)
    \/ \E c \in Containers : resource_path(r, c)
    \/ Dropped(r)

Environment ==
    \/ \E x \in Containers \cup Volumes : Changes(x)
    \/ NetworkChanges \/ StreamBreaks

Next ==
    \/ Monitor \/ Handle \/ Environment
    \/ \E r \in Requests : Serve(r) \/ Clients(r)

(* Timers fire, tasks are scheduled and Docker calls return or time out.    *)
Fairness ==
    /\ WF_vars(Monitor)
    /\ SF_vars(Handle)
    /\ \A r \in Requests : SF_vars(Serve(r))

Spec == Init /\ [][Next]_vars /\ Fairness

-----------------------------------------------------------------------------
(* Properties.                                                             *)

(* Every variable has its shape, and the rebuild lock is held by a task     *)
(* that is inside the section it protects.                                  *)
TypeOK ==
    /\ docker \subseteq Containers \cup Volumes
    /\ version \in 0..MaxChanges /\ built \in 0..MaxChanges
    /\ pending \subseteq ResourceKinds \cup {"networks"}
    /\ notification \subseteq ResourceKinds \cup {"networks"}
    /\ captured \subseteq Snapshots /\ stopped_helpers \subseteq Snapshots
    /\ dead \subseteq Incarnations
    /\ pool \in [Volumes -> 0..MaxIncarnations]
    /\ mount_status \in {"Mounted", "Mounting", "Unmounted", "Unmounting"}
    /\ rebuild_lock \in Rebuilders \cup {NoOne}
    /\ rebuild_lock = "events" => handler.at = "rebuild"
    /\ rebuild_lock \in Requests =>
           request[rebuild_lock].at \in {"rebuild", "ensure", "capture", "resolve"}

(* The provider a path request answers with is one that has a snapshot: a   *)
(* rebuild between capture and lookup never turns it into a fresh provider  *)
(* "whose snapshot has not been captured".                                  *)
DescriptorCaptured ==
    \A r \in Requests :
        At(r, "answered") => <<request[r].container, request[r].answer>> \in captured

(* Whoever rebuilds, an older listing of Docker never replaces a newer one. *)
NamespaceNeverOlder == [][built' >= built]_vars

(* No route leads to a provider that was shut down: neither a volume's nor  *)
(* a container's bind helper.                                               *)
AttachedProvidersAlive ==
    /\ \A v \in Volumes : <<v, namespace.volumes[v]>> \notin dead
    /\ \A c \in Containers : <<c, namespace.rootfs[c]>> \notin stopped_helpers

(* Once Docker is quiet the daemon becomes quiet, whatever clients go on    *)
(* asking: a rebuild ends, and the events of the daemon's own helpers never *)
(* start another ("a self-sustaining refresh loop").                        *)
Quiesces == <>[](handler.at = "idle" /\ ~unread)

(* A change of a volume or container that the monitor has batched leads to  *)
(* a rebuild: the affected models are refreshed.                            *)
ChangesReachNamespace ==
    (pending \cap ResourceKinds # {}) ~> (handler.at = "rebuild")
=============================================================================
