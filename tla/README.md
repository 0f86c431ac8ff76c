# TuxStack: TLA+ models, model checking and proofs

This directory holds a verification development for TuxStack: TLA+ modules
translated from the Rust sources, TLC configurations that check them on small
instances, and theorems checked by TLAPS. `PROJECT.json` is the machine-readable
index: components, runs, mutants, the map from definitions to source lines,
findings, hazards and theorems.

## 1. The system

`tuxstackd` is the only process that talks to Docker. It offers typed IPC over a
Unix socket and a read-only FUSE view of containers, images and volumes. The GUI
and the command line are clients of the socket.

```
 GUI pages (Qt thread + Tokio)      CLI
          \                         /
           tuxstack-client  (IpcClient)
                   |  frames
           daemon ipc.rs    (IpcServer) ---- container terminal (Terminal)
                   |
           daemon state.rs  (Daemon) <--- Docker event monitor
                   |  namespace of providers
           FUSE adapter     (FuseAdapter, InodeTable, HandleTable)
```

### Parts

| Part | State | What is hard | Modules |
|---|---|---|---|
| FUSE adapter (`tuxstack-vfs`) | inode table, node cache, handle table, executor tokens | callbacks on several threads take four locks one after the other around a provider call | `FuseAdapter`, `InodeTable`, `HandleTable` |
| Namespace (`namespace.rs`, `router.rs`) | mounts, aliases, open routes | emptied and refilled under live traffic | `FuseAdapter`, `ContainerTree` |
| IPC server (`ipc.rs`) | requests, subscriptions, budget, outbound queue, terminals of a connection | backpressure, cancellation, unsubscribe racing with completion | `IpcServer` |
| IPC client (`tuxstack-client`) | current connection, pending table, subscriptions, early events | a dying connection, time-outs racing with answers | `IpcClient` |
| Services, from a client's method to the Docker Engine and back | a call and its plan | time-outs on both sides, concurrent calls of which some were carried out, errors translated twice | `Services`, `ClientServices`, `EngineServices` |
| Container terminal | exec, two pump tasks, four channels, session state | who notices the end first, a chunk in hand when cancelled | `Terminal` |
| Daemon state and change monitor | namespace, registries, volume pool, mount status, event batch | rebuilds started by events and requests, a lossy notification channel | `Daemon` |
| Helper providers | session slot, directory cache, handles, helper containers | a helper started after shutdown, starts that fail, requests cut at any await | `HelperProvider` |
| Snapshot and image providers, content spool | captured index, inspection container, files and bytes of the spool | refresh during a capture, accounting on every path | `ArchiveProvider` |
| Tar index | reader position, pending extension records, index | chunks cut anywhere, lengths from extension records, mounts over entries | `TarStream`, `TarIndex`, `TarArchive`, `IndexBuild`, `ContainerTree` |
| Volume jobs | volumes, helper containers, staging files | cleanup after failure or abort at any await | `VolumeJobs` |
| Caches | single-flight table, memory entries, write-behind queue | a leader that is dropped, removal overtaken by a queued write | `RequestCoordinator`, `MetadataCache` |
| Pages of the GUI | a controller, bridge generations, requests on Tokio, the Qt queue | late answers, cancelled jobs, generations that are reset | `PageTasks` and `VolumesPage`, `ImagesPage`, `NetworksPage`, `ContainersPage`, `FilesPage`, `LogsView`, `StatsView`, `TerminalPage` |
| GUI connection and settings | attempt, client, timers; detected terminals, configuration file | retries and throttling, a file that others edit | `AppController`, `SettingsPage` |

`PROJECT.json` lists every part with its sources, including those that are left
out and why.

## 2. Modules

### InodeTable and HandleTable

`InodeTable` is `inode.rs`: `by_key`, `by_hardlink`, `by_inode` and `next_inode`.
`inode_for` has three outcomes, named `KnownKey`, `AliasOfHardlink` and
`FreshInode`. `add_alias`, `rename_alias` and `delete` are the other operations.
Keys are opaque because the table only compares them. `lookup_count` is left out:
the code writes it and never reads it.

`HandleTable` is `handle.rs`: slots, their generations and reuse. The generation
wraps at `GenMod`, as the integer in the code wraps at its width.

### FuseAdapter

One action is one critical section or one provider call of a callback, so two
callbacks interleave wherever the code releases a lock. `TakeToken` and the
`Call...` actions are `ProviderExecutor::execute` with its failure and time-out
paths. `CacheInode` and `StoreNode` are the two locked halves of `cache_node`.
`ClearMounts`, `MountOne`, `ClearAliases` and `AliasOne` are a namespace rebuild
as the adapter sees it. A provider generation moves with `BumpGen`.

### IpcServer

One connection of the daemon: `serve_client`, a task per request and per
subscription, and the writer. The reader is modelled down to prefix and body,
because `read_envelope` is an arm of a `select!`. What a request computes is
arbitrary; when it ends, whether its answer fits into the queue, and what was
cancelled before are not.

### IpcClient

Callers, one reader and one writer task per connection, and `establish`. Each
lock section is a step. The daemon at the other end answers each request once
and may emit events before the caller has registered its subscription.

### Terminal

A terminal from the exec process through the session's pump tasks, the daemon's
subscription, the client's queue and its forwarding task to the command line's
loop. Chunks are numbered. The daemon may stop, a send of it may time out, the
connection may end, and an event that meets a full queue at the client is dropped;
`lost` remembers which events these were and who lost them.

### Daemon

Docker resources come and go; the monitor batches events, publishes them through
a watch channel that holds one value, and the change task rebuilds. Requests
mount, unmount, remount or resolve paths and can be dropped at every await. A
rebuild is five steps: lock, list, swap, stop helpers, remove volumes. Listings
may fail, which leaves resources out, as in the code. `version` counts changes of
Docker, and `built` remembers the version at which the installed plan was listed.

### PageTasks and the pages

`PageTasks` is what the pages have in common: a slot runs to its end on the Qt
thread and is one action; requests run on Tokio, hold a cancellation token and
the generation they were made in, and queue a closure; the Qt thread runs the
closures in order. A request is asked, carried out by the engine and answered in
separate steps, so that it can be cancelled or its page left between any two. A
page module adds the controller's state and, for every slot and closure, what the
code does to it, with the guards that reject a stale answer.

* `VolumesPage`, `ImagesPage`, `NetworksPage`, `ContainersPage`: lists, selection,
  detail, operations and their preparation, connection loss. State generations
  are counters where the code resets them; the bridge's generation of a slot is
  the number of the request that holds it. `apply_state` (`publish_state` on the
  files page) is what a page shows of its state, and the properties about spinners
  and details are stated of it.
* `FilesPage`: resolving a resource, its provider's descriptor, folders, preview,
  and saving a file through a `.part` sibling.
* `LogsView`, `StatsView`: streams, batches, pause, limits; polling in rounds.
* `TerminalPage`: connecting, late sessions, output, ends and reconnects.
* `AppController`: attempts to connect, the watch of events, timers, starting the
  service at most once in a window (fifteen seconds) that ends at any moment.
* `SettingsPage`: detection of terminals, the preference in `config.toml` as lines
  of a few kinds, its atomic replacement with a crash between the steps, the
  choice of a terminal to launch.

`MCPages` chooses the page in the initial state. The pages share no state, so one
run covers them.

### What docker-core keeps

* `HelperProvider`: `HelperProviderCore` with its `active` flag, session slot,
  directory cache and handles; the pool of volumes; the helper container from
  its creation to its removal. The executor may drop a request at any await.
* `ArchiveProvider`: capture and refresh of a container's snapshot, the index of
  an image and the container made to export it, the spool's reservations.
* `RequestCoordinator`: shared futures polled by whoever holds them, the leader's
  guard, `forget`.
* `MetadataCache`: memory, queue, flusher thread, detached threads, file.
* `VolumeJobs`: create, clone, export, remove and prune with their guards.
* `EngineServices` says which calls each operation makes, in which order and
  within which time; `ClientServices` which request each method sends and which
  answer it accepts. `Services` runs a call through both, with time in ticks.
* `TarIndex` is the index as operators, `TarStream` the reader over an archive laid
  out by `TarArchive`, `ContainerTree` the tree a container shows.
* `IndexBuild` is the abstract specification of reading: the index changes by one
  entry with its parents, by one mount, or is given up. `TarStream` implements it;
  the mapping takes the capture's index.

`MCStorage` chooses the part in the initial state, as `MCPages` does.

## 3. Runs

| Run | Asks | Distinct states |
|---|---|---|
| `fuse_adapter` | Do the tables, caches, handles and tokens agree with two threads, hard links, a full handle table and a rebuild? | 712,317 |
| `ipc_server` | Are slots and budget returned, events ordered, terminals owned, and does a connection always drain? | 242,650 |
| `ipc_framing` (violation) | Does the reader keep its place in the byte stream? | |
| `ipc_client` | Is every waiter released, every pending entry owned, every answer the right one? | 1,397,328 |
| `ipc_early_events` (violation) | Is an event before the acknowledgement kept? | |
| `terminal` | Are output and input in order, with gaps only where a queue was full; is an end explained; does the user get the prompt back? | 532,669 |
| `terminal_exit_code` (violation) | Does the exit code arrive? | |
| `daemon` | Are descriptors captured, attached providers alive, listings in order, and does the daemon come to rest? | 459,166 |
| `daemon_changes` (violation) | Does every batched change lead to a rebuild? | |
| `pages` | Does every busy mark and spinner have a request, is what is shown the selection's, are lists in order, are saves whole, logs gap-free, sessions owned? | 2,009,038 |
| `storage` | Is every container, file, volume and entry owned; do refreshes show; are results and errors true; is the index faithful, and its reading an `IndexBuild`? | 1,115,112 |
| `helper_removed` (violation) | Does a removed volume stay without a helper? | |

### Bounds

* `fuse_adapter`: two threads are what it takes to interleave two callbacks, and
  each invariant relates at most two. A volume mounted at two places gives hard
  links, one token makes threads wait, and one handle makes the table full and
  its slot reused. Four requests allow lookup, open, read and release, or two
  lookups racing with two further calls. One rebuild and one generation step.
* `ipc_server`: one request and two subscriptions (each a terminal or a stream of
  two tasks) with all queues of length one, so each can be full. Three frames allow
  subscribe, unsubscribe and one more. One connection; connections share only
  daemon state, which `Daemon` models.
* `ipc_client`: two callers, two connections, two requests. The races are between
  an old and a new connection and between one caller's request and another's.
* `terminal`: two chunks each way, channels of capacity one, one shell to try, and
  one fault (`MaxFaults`): the daemon's stop or one send that times out. A
  connection that ends and a full queue are not counted.
* `daemon`: one container that mounts one volume, two changes, one client request
  beside the event task, so two rebuilders contend for the lock. With two requests
  the run does not finish in five minutes.
* `pages`: two items, so that one is selected and another answers; two actions of
  the user or the connection (`MaxActions`), taken while fewer than three requests or closures are under way (`MaxUnderWay`;
  two, `MaxCrowd`, for the volumes page and the logs). What those actions cause
  (a refresh after an operation, an inspect after a refresh) is not counted. Logs
  have three lines for a viewport of two. Two attempts to connect
  (`MaxAttempts`) give a stale one. Configuration files have a
  terminal section before or after another section, both, or neither, each with or
  without a comment on its header and with four kinds of content.
* `storage`: two requests with one provider and two containers; three callers and
  two flights, so that an old leader meets a new one; two images, two measurements;
  a spool of three chunks shared by two writers, spilling after one; groups of
  three with two at a time; archives of up to two entries with their extension
  records, in chunks of up to three units over blocks of two, so that chunks end
  before, in and after headers and bodies. The archives hold extension records that
  shorten and lengthen bodies, also to nothing, and global ones; some have bytes
  after their end. Of the mounts laid over them one does not answer.

`ipc_client`, `pages` and `storage` use symmetry on callers, items and requests,
`fuse_adapter` on threads; none of these runs checks liveness. `ipc_client`, `pages`
and `storage` switch deadlock checking off because callers, users and jobs may
simply be done.

### Fairness

* `IpcServer`: the runtime polls tasks that can go on, and sends and joins have
  time-outs in the code. Nothing is assumed of the client, of a writer it may
  block, or of an uncancelled request or stream.
* `Terminal`: tasks are polled, Docker calls return or time out. One weak fairness
  condition for all tasks together is enough, because every task's work is finite:
  some task goes on as long as one can. Nothing is assumed of the process in the
  container or of the user.
* `Daemon`: weak fairness for the monitor, whose timers fire. Strong fairness for
  the change task and for requests, because each waits for a Tokio mutex, which
  is first in, first out: a waiter that finds it free again and again gets it.

## 4. Findings

Each is a violation run whose counterexample follows the code.

1. `ipc_framing`: `read_envelope` is polled in a `select!` and created anew in
   every turn. When a completion arrives between prefix and body, the bytes read
   are dropped and the next read takes body bytes for a prefix
   (`tuxstack-daemon/src/ipc.rs:184`).
2. `ipc_early_events`: events of abandoned subscriptions stay in the early-event
   table for good. Once it is full, an event that overtakes its acknowledgement
   is dropped, although a test of the client requires it to be received
   (`tuxstack-client/src/lib.rs:720`).
3. `terminal_exit_code`: the output task cancels the session before it ends, and
   the daemon inspects the exit code under that token
   (`docker-core/src/services/container_terminal.rs:583`).
4. `daemon_changes`: a watch channel keeps one batch, so an unread batch that
   names volumes can be replaced by one that names networks
   (`docker-core/src/cache/events.rs:390`).
5. `helper_removed`: `session()` checks `active` before it awaits the slot's lock
   and not under it, so a request that waited starts a helper for a volume that
   has been removed (`docker-core/src/vfs_providers/support.rs:94`).

### Further disagreements

These are stated as definitions at the end of `MCPages`, `MCStorage`, `MCIpcServer`
and `MCDaemon`, and in `FuseAdapter`. They are not runs of their own. TLC violates
each when it is the only invariant of the configuration, with `Pages` or `Parts`
reduced to the page or part it is about (`CloneRemovesItsTarget` and `GuardTakesOwn`
are action properties, so a `PROPERTY`). Where a checked property is close to one of
them, it excludes the case below and no more.

* `DetailErrorOfSelection`: a refreshed list can select a volume that a search
  hides without starting an inspect, and the pending error of another volume is
  then shown for it (`gui/src/controllers/volumes.rs:477`; `docs/gui.md:88`).
* `SelectionVisible`: `select` takes any network that has a row, also one the search
  hides (`gui/src/controllers/networks.rs:195`); the comment at line 273 clears the
  search after a creation to avoid "a selected detail with no corresponding visible
  row".
* `DetailLoadEnds`: a reload that is to reuse the inspect under way cancels it
  instead, since `handle_selection_action` cancels before it looks at the action,
  and the detail loads for ever (`gui/src/bridge/containers_bridge.rs:1110`).
* `ListedIsShown`: a folder that has been listed stays in the loading state, because
  only a page that is Ready or Empty already moves between the two
  (`gui/src/controllers/local_fuse_files.rs`; `docs/UI/DockerVoulmesFilesUI.md:876`).
* `ProviderOfResource`: `clear_resource` keeps the descriptor of the resource it
  clears (`gui/src/controllers/local_fuse_files.rs:248`). No text forbids it.
* `EventsWatched`: when one of the two subscriptions fails, the GUI stays connected
  without events and never reconnects (`gui/src/bridge/app_bridge.rs:176`).
* `OverviewOfConnection`: the overview of an earlier connection is shown in the
  present one (`app_bridge.rs:252`; `docs/architecture.md:65`).
* `UnavailableFallsBack`: a preference for a terminal that is not installed makes
  every launch fail, while the page shows System Default
  (`gui/src/terminal.rs:723`).
* `UnreadableKept`: saving a preference replaces a configuration file that cannot
  be read (`gui/src/terminal.rs:514`).
* `CancellationCleansUp`: an export cancelled between `prepare_export_paths` and the
  guard leaves its staging directory (`docker-core/src/services/volumes.rs:348`;
  `docs/architecture.md:105`).
* `CloneRemovesItsTarget`: cleaning up an incomplete clone goes by name and can
  remove a volume somebody else created (`docs/docker-core.md`).
* `PartRemoved`: a cancelled image export leaves its temporary file, because the
  future that would remove it is dropped (`tuxstack-daemon/src/ipc.rs:235`).
* `TimeoutIsNotOffline`: a request that times out is reported as an unavailable
  daemon (`tuxstack-client/src/services.rs:156`).
* `TerminalsWithinLimit`: two terminals opened one after the other both pass
  `terminal_capacity_available` before either is in the registry
  (`tuxstack-daemon/src/ipc.rs:1079`). The instance of `ipc_server` shows it.
* `StatusMatchesSession`: an unmount whose join ends after another request has
  mounted again leaves the status `Unmounted` with a session
  (`tuxstack-daemon/src/state.rs:203`). It takes `Requests = {r1, r2}`; with one
  request it holds.

No text speaks of the following, which the checked properties leave out:

* `InodeKeepsNode`: an inode number stands for a path and a generation, so after a
  rebuild the node that now has the path gets the number of the one that had it
  (`tuxstack-vfs/src/adapter.rs:217`). `NodeCacheSound` speaks of the path always
  and of the node only before a rebuild.
* `PreparationEnds`, `PreviewEnds`, `GroupOperationEnds`: a mark stays on when
  `prepare_remove_network` cancels a preparation and returns early
  (`gui/src/bridge/network_bridge.rs:461`), when `open_symlink` cancels a preview
  (`local_fuse_files_bridge.rs:810`), and when a group is not listed at the moment
  its operation ends and is listed again later
  (`gui/src/controllers/containers.rs:493`). `MarksHaveRequests` excludes these, and
  those of `DetailLoadEnds` and `ListedIsShown`.
* `SavedIsRead`: `parse_preference` reads a key under a `[terminal]` header with a
  comment, which `update_preference` does not find and so does not replace
  (`gui/src/terminal.rs:572`).
* `InspectionRemoved`: between `create_stopped_container` and the stream that owns it
  nobody removes an image's inspection container
  (`docker-core/src/vfs_providers/image.rs:109`).
* `StartFailureRemoved`: `create_session` leaves a helper container that does not
  start (`docker-core/src/services/filesystem/volume_provider.rs:132`);
  `create_bind_session` removes its own.
* `UsageRowIsLast`: every `put_usage` writes in a thread of its own, so an older
  measurement can be the row that stays (`docker-core/src/cache/persistent.rs:295`).
* `GuardTakesOwn`: the guard of a flight removes by key, after `forget` also the
  entry of a newer flight (`docker-core/src/cache/coordinator.rs:232`).
* `DefiniteMeansUnchanged`: `export_volume` returns an error when it cannot remove its
  staging directory, although the archive is in its place
  (`docker-core/src/services/volumes.rs:372`).
* `NameKept`: the codes of the wire have no room for every error that both sides have
  a name for. An image missing in `create_container` becomes a missing container;
  anything missing on a stream an internal error; what keeps a terminal from opening
  a disconnection, unless the container is paused or not running; a terminal's own
  failures an unavailable Docker or a failed resize.
* `MountsAlwaysListed`: one mount whose attributes cannot be read fails the listing of
  the directory above it (`docker-core/src/vfs_providers/container.rs:424`).
* `FoundIsListed`: a hard link to a missing file fails the listing of its directory, or
  empties it when there is a mount below.

## 5. Proofs

`InodeTableProofs` proves two theorems about `InodeTable` for every set of keys,
every set of hard-link keys and every bound `MaxInode >= 2`.

* `TableInvariant`: `TableSpec => []TableInv`. `TableInv` is inductive. It joins
  the type, the agreement of `by_key` with the alias sets, tombstones without
  aliases, and a hard-link index that leads to live records with that key. The
  last two are needed to keep the first: `inode_for` through the hard-link index
  adds an alias to the record it finds, which must not be a tombstone.
* `NoRecycling`: `TableSpec => NumbersNeverRecycled`. A number once handed out
  keeps its record and hard-link key, and a deleted one never gets a name again.

There is one lemma per way a call can change the table, and under it one step per
conjunct. The only assumption is `TableAssumption`.

`TableSpec` includes `add_alias`, `rename_alias` and `delete`, which the adapter
does not call. `fuse_adapter` checks `TableInv` for the calls it makes.

`TarIndexProofs` proves `IndexStaysValid`, `Spec => []IndexValid` of `IndexBuild`,
for all names, kinds and links and for all limits that the paths keep
(`PathsWithinLimits`): whatever is inserted and mounted, the index is one that
`validate_persisted` accepts. That is the check an image's index must pass when it
is read back from disk (`image.rs:368`). The hypothesis is what `from_tar_bytes`
checks of an entry. Nothing checks a mount's destination against `TarLimits`; it
holds for the default limit, which is that of `VirtualPath`. The inductive invariant `IndexInv` adds that
the index is a finite function on paths, which counting its entries needs. Made-up
parents are why the proof is not immediate: `insert_with_parents` adds every
missing prefix, and lemmas on prefixes show that a parent is there before its
child.

`TarStreamProofs` proves `ReadingImplementsBuild`, that `TarStream` implements
`IndexBuild` under the mapping of the run, for every archive, chunking and limit
that satisfies `CapturesTyped`.
Its invariant `StreamInv` says that an entry the reader holds has been checked:
a path that parses, and a target that parses if it is a hard link. There is a lemma
per step of the reader. `CapturesTyped` says that archives are made of records, and
that names which parse, and mount destinations, are in `Paths`. Under both
hypotheses every index that is read is valid.

`MCStorage` assumes both hypotheses of its instance, so TLC evaluates them. The
properties `IndexValid` and `BuildsIndex` of the run `storage` state the same for
that instance in definitions of `MCStorage`, where the index is that of the part
being checked.

Everything else is model-checked only. Liveness (`ConnectionDrains`,
`TerminalEnds`, `Quiesces`) stays with TLC because TLAPS does not handle fairness
and `ENABLED`.

What recursive definitions compute (the folds of `TarStream` and `Services`) is
checked on bounded inputs only, as TLAPS has no induction over data.

## 6. Not modelled

* Encoding and formatting: CBOR bodies, the bytes of tar headers, Docker field
  mapping (`mapping/`), display strings, list models. They hold no state.
* The helper process, which reads one path and prints one answer, and the direct
  bind provider (`bind.rs`), which is a system call per operation.
* `image_provider.rs`: a second user of the session steps in `HelperProvider`.
* In `FuseAdapter`: file contents and attributes beyond type, node identity and
  generation; `expired_ids`, which no code but a test calls.
* In `Daemon`: shutdown, kernel invalidation, images as a kind of their own.
* In the pages: the second stage of usage patching, sorting inside detail tables,
  the background inspects for an image's architecture, saving a log viewport,
  the label table.
* In `SettingsPage`: the arguments each terminal takes.
* Schema migration of the metadata cache. `load_config` (`docker-core/src/config.rs`)
  has no caller; its `deny_unknown_fields` would refuse the section that the
  terminal settings write to the same file.

## 7. Exposure without a stated property

The code is exposed to these as well; most are steps of a model already, but no
text of the repository says what should hold, so none is checked.

* A subscriber that lags behind the daemon's broadcast misses events silently
  (`ipc.rs:868`).
* Early events are queued after the dispatch lock is released, so a later event
  can overtake them (`tuxstack-client/src/lib.rs:294`). A subscription registered
  after its connection was drained never hears anything (`lib.rs:288`). `Connected`
  can be published after the connection is gone (`lib.rs:363`).
* `transition_state` reads and replaces in two steps
  (`container_terminal.rs:722`), so a move that is not allowed any more may still be
  made; the model lets it.
* An event of a terminal is dropped silently when the client's queue is full
  (`tuxstack-client/src/lib.rs:719`): output with a gap, an end without a reason, or,
  for `SubscriptionEnded`, a command line that waits until the user types.
* An open that finds the handle table full drops the provider's handle without
  closing it (`tuxstack-vfs/src/adapter.rs:404`).
* Changes during the reconnect gap (`cache/events.rs:300`), or between the first
  rebuild and `start_events` (`state.rs:173`), are noticed only with the next
  event.
* A mount that fails or is cancelled leaves the status at `Mounting`
  (`state.rs:208`).
* A cancelled creation reports its cleanup failure to a generation nobody reads
  (`volume_bridge.rs:497`), and after a reset a second export can start while the
  first is being cleaned up (`volume_bridge.rs:1259`).
* Pausing the logs before the first batch and restarting shows the history twice;
  leaving the tab and returning skips the lines in between.
* Updating the preference drops the other keys of a `[terminal]` section without
  an `application` key, and overwrites a key that begins with that word
  (`gui/src/terminal.rs:569`).

