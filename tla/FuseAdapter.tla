----------------------------- MODULE FuseAdapter -----------------------------
(***************************************************************************)
(* The FUSE callbacks of ReadOnlyFuseAdapter (tuxstack-vfs/adapter.rs) on  *)
(* the kernel's worker threads, over the daemon's NamespaceProvider        *)
(* (namespace.rs) and the ProviderExecutor (executor.rs).                  *)
(*                                                                         *)
(* The inode table, the node cache, the handle table and the namespace's   *)
(* handle map sit behind four locks that a callback takes one after the    *)
(* other, with a provider call in between; one action is one critical      *)
(* section or one provider call.  Meanwhile the daemon rebuilds the mount  *)
(* table and providers bump their generation.                              *)
(***************************************************************************)
EXTENDS InodeTable, HandleTable, Sequences, SequencesExt

CONSTANTS
  Threads,      \* FUSE worker threads (mount_config: n_threads)
  Names,        \* file names
  MaxDepth,     \* bound: longest path looked up
  Resources,    \* what the daemon mounts: containers, images, volumes
  Interned,     \* resources whose provider survives a rebuild (the volumes)
  MountPoints,  \* where they are mounted
  InitialPlan,  \* what is mounted at first: [mounts, aliases]
  Plans,        \* what a rebuild can install
  TypeOf,       \* TypeOf[r][rel]: node type provider r reports, or "none"
  MaxGen,       \* bound: MaxGen[r] generations of provider r
  MaxRebuilds,  \* bound: namespace rebuilds
  MaxInFlight,  \* executor tokens (max_provider_operations)
  MaxRequests   \* bound: requests the kernel sends

VARIABLES
  nodes,        \* the CachedNode of each inode number
  req,          \* req[t]: the callback thread t is running
  tokens,       \* executor tokens left
  requests,     \* next_request_id
  mounts,       \* NamespaceProvider.mounts: mount point -> provider instance
  aliases,      \* NamespaceProvider.aliases: the friendly names
  routes,       \* NamespaceProvider.handles: id -> provider instance
  next_handle,  \* NamespaceProvider.next_handle
  plan, rebuilds,  \* the daemon's rebuild in progress, and how many ran
  gen,          \* generation of each resource's provider
  known,        \* kernel: inodes it got from a lookup reply (forget, which
                \* only lowers the unread lookup_count, leaves them here)
  fhs,          \* kernel: file handle id of each of its open files
  refused       \* opens whose handle the full table turned away

adapterVars == <<nodes, req, tokens, requests, known, fhs, refused>>
namespaceVars == <<mounts, aliases, routes, next_handle, plan, rebuilds, gen>>
vars == <<inodeVars, handleVars, adapterVars, namespaceVars>>

Path == UNION {[1..n -> Names] : n \in 0..MaxDepth}
RootPath == <<>>
Parent(p) == SubSeq(p, 1, Len(p) - 1)
NoProvider == [res |-> "none", instance |-> 0]
NoPlan == [mounts |-> <<>>, aliases |-> {}, stage |-> "none"]
NotFound == [type |-> "none", node |-> <<>>, gen |-> 0]
Idle == [op |-> "none", stage |-> "idle", ino |-> NoInode, path |-> RootPath,
         meta |-> NotFound, file |-> NoFile, rest |-> <<>>]

-----------------------------------------------------------------------------
(***************************************************************************)
(* NamespaceProvider: routing.                                             *)
(***************************************************************************)

\* The mount with the deepest component prefix of path, if any.
Covering(path) ==
  {m \in MountPoints : mounts[m] # NoProvider /\ IsPrefix(m, path)}

provider_at(path) ==
  CHOOSE m \in Covering(path) : \A n \in Covering(path) : Len(n) <= Len(m)

is_synthetic_directory(path) ==
  \/ path = RootPath
  \/ \E m \in MountPoints :
       mounts[m] # NoProvider /\ IsStrictPrefix(path, m)

\* node_id: the provider's name and the path inside it, or the path itself
\* for a node the namespace owns.
SyntheticMeta(path, type) == [type |-> type, node |-> <<"path">> \o path, gen |-> 0]

ProviderMeta(p, rel) ==
  IF rel \in DOMAIN TypeOf[p.res] /\ TypeOf[p.res][rel] # "none"
  THEN [type |-> TypeOf[p.res][rel], node |-> <<p.res>> \o rel, gen |-> gen[p.res]]
  ELSE NotFound

Relative(path, m) == SubSeq(path, Len(m) + 1, Len(path))

metadata(path) ==
  IF path \in aliases THEN SyntheticMeta(path, "symlink")
  ELSE IF Covering(path) # {}
  THEN LET m == provider_at(path) IN ProviderMeta(mounts[m], Relative(path, m))
  ELSE IF is_synthetic_directory(path) THEN SyntheticMeta(path, "dir")
  ELSE NotFound

\* read_dir: under a mount, the provider's listing; elsewhere the children
\* that mounts and aliases imply.
EntryMeta(path, c) ==
  IF Covering(path) # {}
  THEN LET m == provider_at(path) IN ProviderMeta(mounts[m], Relative(c, m))
  ELSE metadata(c)

read_dir(path) ==
  SetToSeq({[path |-> c, meta |-> EntryMeta(path, c)] :
              c \in {Append(path, n) : n \in Names}}
           \ {[path |-> Append(path, n), meta |-> NotFound] : n \in Names})

-----------------------------------------------------------------------------
(***************************************************************************)
(* Starting a callback: the node or handle it needs is read under its lock *)
(* and the provider call is queued for an executor token.                  *)
(***************************************************************************)

Queue(t, op, i, path, file) ==
  /\ req[t] = Idle
  /\ requests < MaxRequests
  /\ requests' = requests + 1
  /\ req' = [req EXCEPT ![t] = [Idle EXCEPT !.op = op, !.stage = "queued",
                                            !.ino = i, !.path = path,
                                            !.file = file]]

QueueNode(t, op, i, type) ==
  /\ i \in known
  /\ type \in {"any", nodes[i].meta.type}
  /\ Queue(t, op, i, nodes[i].path, NoFile)
  /\ UNCHANGED <<inodeVars, handleVars, nodes, tokens, known, fhs, refused, namespaceVars>>

StartLookup(t, i, name) ==
  /\ i \in known
  /\ Len(nodes[i].path) < MaxDepth
  /\ Queue(t, "lookup", i, Append(nodes[i].path, name), NoFile)
  /\ UNCHANGED <<inodeVars, handleVars, nodes, tokens, known, fhs, refused, namespaceVars>>

StartGetattr(t, i) == QueueNode(t, "getattr", i, "any")
StartReadlink(t, i) == QueueNode(t, "readlink", i, "symlink")
StartReaddir(t, i) == QueueNode(t, "readdir", i, "dir")
StartOpen(t, i) == QueueNode(t, "open", i, "file")

StartRead(t, f) ==
  /\ Resolves(fhs[f])
  /\ Queue(t, "read", NoInode, RootPath, get_mut(fhs[f]))
  /\ UNCHANGED <<inodeVars, handleVars, nodes, tokens, known, fhs, refused, namespaceVars>>

\* The kernel releases a handle once, after its reads came back.
StartRelease(t, f) ==
  /\ \A u \in Threads : req[u].op = "read" => req[u].file # f
  /\ Queue(t, "release", NoInode, RootPath, get_mut(fhs[f]))
  /\ remove(fhs[f])
  /\ fhs' = [g \in DOMAIN fhs \ {f} |-> fhs[g]]
  /\ UNCHANGED <<inodeVars, nodes, tokens, known, refused, namespaceVars>>

-----------------------------------------------------------------------------
(***************************************************************************)
(* ProviderExecutor::execute: one token per provider call.  The token goes *)
(* back whatever the call returned, a timeout included.                    *)
(***************************************************************************)

TakeToken(t) ==
  /\ req[t].stage = "queued"
  /\ tokens > 0
  /\ tokens' = tokens - 1
  /\ req' = [req EXCEPT ![t].stage = "running"]
  /\ UNCHANGED <<inodeVars, handleVars, nodes, requests, known, fhs, refused, namespaceVars>>

ReturnToken == tokens' = tokens + 1

\* Mutant: the token is lost when the call fails.
CallFailsKeepsToken(t) ==
  /\ req[t].stage = "running"
  /\ req[t].op # "release"
  /\ req' = [req EXCEPT ![t] = Idle]
  /\ UNCHANGED <<inodeVars, handleVars, nodes, tokens, requests, known, fhs, refused,
                 namespaceVars>>

\* Any call but close may fail or time out with nothing done.
CallFails(t) ==
  /\ req[t].stage = "running"
  /\ req[t].op # "release"
  /\ req' = [req EXCEPT ![t] = Idle]
  /\ ReturnToken
  /\ UNCHANGED <<inodeVars, handleVars, nodes, requests, known, fhs, refused, namespaceVars>>

\* lookup and getattr answer with metadata, readdir with its entries, which
\* are then entered in the caches one by one.
CallAnswers(t) ==
  LET r == req[t] IN
  /\ r.stage = "running"
  /\ \/ /\ r.op \in {"lookup", "getattr"}
        /\ metadata(r.path) # NotFound
        /\ req' = [req EXCEPT ![t].meta = metadata(r.path),
                     ![t].stage = IF r.op = "lookup" THEN "cache" ELSE "store"]
     \/ /\ r.op = "readdir"
        /\ LET entries == read_dir(r.path) IN
           req' = [req EXCEPT ![t] =
                     IF entries = <<>> THEN Idle
                     ELSE [r EXCEPT !.stage = "cache", !.path = Head(entries).path,
                                    !.meta = Head(entries).meta, !.rest = Tail(entries)]]
     \/ /\ r.op \in {"read", "readlink"}
        /\ req' = [req EXCEPT ![t] = Idle]
  /\ ReturnToken
  /\ UNCHANGED <<inodeVars, handleVars, nodes, requests, known, fhs, refused, namespaceVars>>

\* NamespaceProvider::open: the route keeps the provider it was opened on.
CallOpens(t) ==
  LET r == req[t] IN
  /\ r.stage = "running"
  /\ r.op = "open"
  /\ Covering(r.path) # {}
  /\ metadata(r.path).type = "file"
  /\ routes' = [id \in DOMAIN routes \cup {next_handle} |->
                  IF id = next_handle THEN mounts[provider_at(r.path)] ELSE routes[id]]
  /\ next_handle' = next_handle + 1
  /\ req' = [req EXCEPT ![t].stage = "install", ![t].file = next_handle]
  /\ ReturnToken
  /\ UNCHANGED <<inodeVars, handleVars, nodes, requests, known, fhs, refused,
                 mounts, aliases, plan, rebuilds, gen>>

\* Mutant: close forgets the namespace's own handle map.
CallClosesKeepsRoute(t) ==
  /\ req[t].stage = "running"
  /\ req[t].op = "release"
  /\ req' = [req EXCEPT ![t] = Idle]
  /\ ReturnToken
  /\ UNCHANGED <<inodeVars, handleVars, nodes, requests, known, fhs, refused,
                 namespaceVars>>

\* NamespaceProvider::close drops the route on its first poll, so also when
\* the provider's own close then fails or times out.
CallCloses(t) ==
  /\ req[t].stage = "running"
  /\ req[t].op = "release"
  /\ routes' = [id \in DOMAIN routes \ {req[t].file} |-> routes[id]]
  /\ req' = [req EXCEPT ![t] = Idle]
  /\ ReturnToken
  /\ UNCHANGED <<inodeVars, handleVars, nodes, requests, known, fhs, refused,
                 mounts, aliases, next_handle, plan, rebuilds, gen>>

-----------------------------------------------------------------------------
(***************************************************************************)
(* After the call: cache_node (two locks), nodes.insert, handles.insert.   *)
(***************************************************************************)

NodeKey(path, meta) == [path |-> path, gen |-> meta.gen]
NodeHardlink(meta) == [node |-> meta.node, gen |-> meta.gen]

\* Mutant: the lookup is answered before the node cache is filled.
CacheInodeAnswers(t) ==
  LET r == req[t]
      key == NodeKey(r.path, r.meta)
      h == NodeHardlink(r.meta)
  IN
  /\ r.stage = "cache"
  /\ inode_for(key, h)
  /\ known' = IF r.op = "lookup" THEN known \cup {inode_for_result(key, h)} ELSE known
  /\ req' = [req EXCEPT ![t].stage = "store", ![t].ino = inode_for_result(key, h)]
  /\ UNCHANGED <<handleVars, nodes, tokens, requests, fhs, refused, namespaceVars>>

CacheInode(t) ==
  LET r == req[t]
      key == NodeKey(r.path, r.meta)
      h == NodeHardlink(r.meta)
  IN
  /\ r.stage = "cache"
  /\ inode_for(key, h)
  /\ req' = [req EXCEPT ![t].stage = "store", ![t].ino = inode_for_result(key, h)]
  /\ UNCHANGED <<handleVars, nodes, tokens, requests, known, fhs, refused, namespaceVars>>

\* getattr and cache_node end with nodes.insert; a lookup is then answered.
StoreNode(t) ==
  LET r == req[t] IN
  /\ r.stage = "store"
  /\ nodes' = [i \in DOMAIN nodes \cup {r.ino} |->
                 IF i = r.ino THEN [path |-> r.path, meta |-> r.meta] ELSE nodes[i]]
  /\ known' = IF r.op = "lookup" THEN known \cup {r.ino} ELSE known
  /\ req' = [req EXCEPT ![t] =
               IF r.rest = <<>> THEN Idle
               ELSE [r EXCEPT !.stage = "cache", !.path = Head(r.rest).path,
                              !.meta = Head(r.rest).meta, !.rest = Tail(r.rest)]]
  /\ UNCHANGED <<inodeVars, handleVars, tokens, requests, fhs, refused, namespaceVars>>

\* The provider handle enters the table and its id goes to the kernel, or
\* the table is full: the provider handle is then dropped without a close.
InstallHandle(t) ==
  LET file == req[t].file IN
  /\ req[t].stage = "install"
  /\ req' = [req EXCEPT ![t] = Idle]
  /\ \/ \E id \in HandleIds :
          /\ insert(file, id)
          /\ fhs' = [f \in DOMAIN fhs \cup {file} |-> IF f = file THEN id ELSE fhs[f]]
          /\ UNCHANGED refused
     \/ /\ Full
        /\ refused' = refused \cup {file}
        /\ UNCHANGED <<handleVars, fhs>>
  /\ UNCHANGED <<inodeVars, nodes, tokens, requests, known, namespaceVars>>

-----------------------------------------------------------------------------
(***************************************************************************)
(* The daemon's rebuild_namespace seen from the callbacks: NamespaceProvider *)
(* is cleared (mounts, then aliases) and filled again one entry at a time. *)
(* Volume providers come out of the pool; the others are new objects.      *)
(***************************************************************************)

Instance(res) ==
  [res |-> res, instance |-> IF res \in Interned THEN 0 ELSE rebuilds]

ClearMounts(p) ==
  /\ plan = NoPlan
  /\ rebuilds < MaxRebuilds
  /\ rebuilds' = rebuilds + 1
  /\ plan' = [mounts |-> p.mounts, aliases |-> p.aliases, stage |-> "aliases"]
  /\ mounts' = [m \in MountPoints |-> NoProvider]
  /\ UNCHANGED <<inodeVars, handleVars, adapterVars, aliases, routes, next_handle, gen>>

ClearAliases ==
  /\ plan.stage = "aliases"
  /\ plan' = [plan EXCEPT !.stage = "mount"]
  /\ aliases' = {}
  /\ UNCHANGED <<inodeVars, handleVars, adapterVars, mounts, routes, next_handle, rebuilds, gen>>

ToMount == {m \in DOMAIN plan.mounts : mounts[m] = NoProvider}

MountOne(m) ==
  /\ plan.stage = "mount"
  /\ m \in ToMount
  /\ mounts' = [mounts EXCEPT ![m] = Instance(plan.mounts[m])]
  /\ plan' = IF ToMount = {m} /\ plan.aliases = {} THEN NoPlan ELSE plan
  /\ UNCHANGED <<inodeVars, handleVars, adapterVars, aliases, routes, next_handle,
                 rebuilds, gen>>

ToAlias == plan.aliases \ aliases

AliasOne(a) ==
  /\ plan.stage = "mount"
  /\ ToMount = {}
  /\ a \in ToAlias
  /\ aliases' = aliases \cup {a}
  /\ plan' = IF ToAlias = {a} THEN NoPlan ELSE plan
  /\ UNCHANGED <<inodeVars, handleVars, adapterVars, mounts, routes, next_handle,
                 rebuilds, gen>>

\* A provider's refresh, or the loss of its helper session.
BumpGen(res) ==
  /\ gen[res] < MaxGen[res]
  /\ gen' = [gen EXCEPT ![res] = @ + 1]
  /\ UNCHANGED <<inodeVars, handleVars, adapterVars, mounts, aliases, routes,
                 next_handle, plan, rebuilds>>

-----------------------------------------------------------------------------
Init ==
  /\ TableInit
  /\ HandlesInit
  /\ nodes = [i \in {ROOT_INODE} |->
                [path |-> RootPath, meta |-> SyntheticMeta(RootPath, "dir")]]
  /\ req = [t \in Threads |-> Idle]
  /\ tokens = MaxInFlight
  /\ requests = 0
  /\ known = {ROOT_INODE}
  /\ fhs = <<>>
  /\ refused = {}
  /\ aliases = InitialPlan.aliases
  /\ mounts = [m \in MountPoints |->
                 IF m \in DOMAIN InitialPlan.mounts
                 THEN [res |-> InitialPlan.mounts[m], instance |-> 0] ELSE NoProvider]
  /\ routes = <<>>
  /\ next_handle = 1
  /\ plan = NoPlan
  /\ rebuilds = 0
  /\ gen = [r \in Resources |-> 0]

Step(t) ==
  \/ TakeToken(t)
  \/ CallFails(t)
  \/ CallAnswers(t)
  \/ CallOpens(t)
  \/ CallCloses(t)
  \/ CacheInode(t)
  \/ StoreNode(t)
  \/ InstallHandle(t)

Kernel(t) ==
  \/ \E i \in known :
       \/ \E n \in Names : StartLookup(t, i, n)
       \/ StartGetattr(t, i)
       \/ StartReadlink(t, i)
       \/ StartReaddir(t, i)
       \/ StartOpen(t, i)
  \/ \E f \in DOMAIN fhs : StartRead(t, f) \/ StartRelease(t, f)

Rebuild ==
  \/ \E p \in Plans : ClearMounts(p)
  \/ ClearAliases
  \/ \E m \in MountPoints : MountOne(m)
  \/ \E a \in plan.aliases : AliasOne(a)

\* The kernel has sent its last request and every one was answered; any
\* other state without a successor is a deadlock.
Quiet ==
  /\ requests = MaxRequests
  /\ \A t \in Threads : req[t] = Idle
  /\ UNCHANGED vars

Next ==
  \/ \E t \in Threads : Kernel(t) \/ Step(t)
  \/ Rebuild
  \/ \E r \in Resources : BumpGen(r)
  \/ Quiet

Spec == Init /\ [][Next]_vars

-----------------------------------------------------------------------------
(***************************************************************************)
(* Properties.                                                             *)
(***************************************************************************)

TypeOK ==
  /\ TableTypeOK
  /\ HandlesTypeOK
  /\ DOMAIN nodes \subseteq Inodes
  /\ known \subseteq Inodes
  /\ tokens \in 0..MaxInFlight
  /\ \A t \in Threads :
       /\ req[t].stage \in {"idle", "queued", "running", "cache", "store", "install"}
       /\ req[t].path \in Path
  /\ \A f \in DOMAIN fhs : fhs[f] \in HandleIds

\* node() finds every inode a lookup was answered with (cache_node fills the
\* node cache after, and under another lock than, the inode table), the path
\* it finds is one of the names the inode table has for the inode, and until
\* a rebuild puts something else at that path what is cached is the very node
\* the number was given to: whatever threads enter several names of a
\* hard-linked node at once, write back a path they read before their
\* provider call, or meet a new generation (cache_node, getattr, readdir).
NodeCacheSound ==
  /\ known \subseteq DOMAIN nodes
  /\ \A i \in DOMAIN nodes \ {ROOT_INODE} :
       /\ \E k \in by_inode[i].aliases : k.path = nodes[i].path
       /\ rebuilds = 0 => nodes[i].meta.node = by_inode[i].hardlink_key.node

\* Not checked by a run, for it does not hold: a number always stands for the
\* node it was given to.  The key is the path and the generation, so after a
\* rebuild the node that now has the path gets the number of the old one.
InodeKeepsNode ==
  \A i \in DOMAIN nodes \ {ROOT_INODE} :
    nodes[i].meta.node = by_inode[i].hardlink_key.node

\* A file handle the kernel holds resolves to the open it came from, in a
\* slot that other opens and releases reuse, and that open is still routed to
\* a provider: read() and release() on it never see BadHandle.  And no
\* provider handle is lost: each one the namespace has open is in the table,
\* on its way into it or out of it, or was turned away because the table was
\* full (open() drops it there without a close).
HandlesAccounted ==
  /\ \A f \in DOMAIN fhs :
       /\ Resolves(fhs[f])
       /\ get_mut(fhs[f]) = f
       /\ f \in DOMAIN routes
  /\ \A id \in DOMAIN routes :
       \/ id \in {handles[s] : s \in Slots}
       \/ \E t \in Threads : req[t].file = id /\ req[t].op \in {"open", "release"}
       \/ id \in refused

\* Tokens are neither lost nor minted: those that are out belong to threads
\* with a provider call running (execute's early returns included).
TokensConserved ==
  tokens + Cardinality({t \in Threads : req[t].stage = "running"}) = MaxInFlight
=============================================================================
