---------------------------- MODULE ContainerTree ----------------------------
(***************************************************************************)
(* A container's files as one tree (ContainerProviderRouter of             *)
(* docker-core/src/vfs_providers/container.rs over ContainerPathRouter of  *)
(* tuxstack-vfs/src/router.rs): the index of the exported root file system *)
(* with mount points laid over it, and every path below a mount point      *)
(* served by the mount's own provider.                                     *)
(*                                                                         *)
(* A mount has a destination, the provider's root for it, files: what the  *)
(* provider serves, as types by path; and fails: the error its provider    *)
(* answers everything with, if it does.  Constant level.                   *)
(***************************************************************************)
EXTENDS TarIndex, FiniteSetsExt

(* ContainerPathRouter::new                                                *)
new(mounts) == \A i \in DOMAIN mounts : mounts[i].destination # root

(* The deepest mount whose destination is a prefix, by components; 0 is    *)
(* the root file system.                                                   *)
route(mounts, path) ==
    LET covering == {i \in DOMAIN mounts : starts_with(path, mounts[i].destination)}
        deepest == {i \in covering : \A j \in covering :
                       Len(mounts[j].destination) <= Len(mounts[i].destination)} IN
    IF covering = {} THEN [mount |-> 0, path |-> path]
    ELSE LET m == Min(deepest) IN
         [mount |-> m,
          path |-> mounts[m].root
                   \o SubSeq(path, Len(mounts[m].destination) + 1, Len(path))]

is_mount_route_parent(mounts, path) ==
    \E i \in DOMAIN mounts : is_descendant_of(mounts[i].destination, path)

(* The destination of the mount a path is routed to is that path.          *)
IsMountPoint(mounts, path) == \E i \in DOMAIN mounts : mounts[i].destination = path

(* getattr of a mount's provider, and of the one a route leads to.         *)
MountType(mount, path) ==
    CASE mount.fails # "none" -> [error |-> mount.fails, type |-> "none"]
      [] path \notin DOMAIN mount.files -> [error |-> "NotFound", type |-> "none"]
      [] OTHER -> [error |-> "none", type |-> mount.files[path]]

ProviderType(index, mounts, r) ==
    IF r.mount = 0 THEN metadata(index, r.path) ELSE MountType(mounts[r.mount], r.path)

synthetic_mount_route_metadata == [error |-> "none", type |-> "Directory"]

getattr(index, mounts, path) ==
    IF is_mount_route_parent(mounts, path) /\ ~IsMountPoint(mounts, path)
    THEN synthetic_mount_route_metadata
    ELSE ProviderType(index, mounts, route(mounts, path))

(* read_dir of that provider, by the names it lists.                       *)
Named(listed) ==
    [listed EXCEPT !.types = [n \in {p[Len(p)] : p \in DOMAIN @} |->
                                @[CHOOSE p \in DOMAIN @ : p[Len(p)] = n]]]

MountList(mount, path) ==
    LET found == MountType(mount, path)
        within == {q \in DOMAIN mount.files : q # root /\ parent(q) = path} IN
    CASE found.error # "none" -> [error |-> found.error, types |-> <<>>]
      [] found.type # "Directory" -> [error |-> "NotDirectory", types |-> <<>>]
      [] OTHER -> [error |-> "none", types |-> [p \in within |-> mount.files[p]]]

ProviderList(index, mounts, r) ==
    Named(IF r.mount = 0 THEN directory_entries(index, r.path)
          ELSE MountList(mounts[r.mount], r.path))

(* The mounts below the directory show up in it, whatever it holds; one    *)
(* right in it shows with the attributes its provider gives, and without   *)
(* them there is no listing.  (Of several mounts at one destination the    *)
(* last is shown, and the first is the one routed to.)                     *)
merge_mount_route_children(mounts, path, types) ==
    LET below == {i \in DOMAIN mounts : is_descendant_of(mounts[i].destination, path)}
        here == {i \in below : Len(mounts[i].destination) = Len(path) + 1}
        Name(i) == mounts[i].destination[Len(path) + 1]
        At(n) == {i \in here : Name(i) = n}
        Found(i) == MountType(mounts[i], mounts[i].root)
        names == {Name(i) : i \in below}
        failing == {i \in here : Found(i).error # "none"} IN
    IF failing # {} THEN [error |-> Found(Min(failing)).error, types |-> <<>>]
    ELSE [error |-> "none",
          types |-> [n \in DOMAIN types \union names |->
                        CASE n \notin names -> types[n]
                          [] At(n) # {} -> Found(Max(At(n))).type
                          [] OTHER -> "Directory"]]

Merged(mounts, path, listed) ==
    CASE listed.error = "none" -> merge_mount_route_children(mounts, path, listed.types)
      [] listed.error \in {"NotFound", "NotDirectory"} /\ is_mount_route_parent(mounts, path) ->
            merge_mount_route_children(mounts, path, <<>>)
      [] OTHER -> listed

read_dir(index, mounts, path) ==
    Merged(mounts, path, ProviderList(index, mounts, route(mounts, path)))

(* open of the provider a route leads to.                                  *)
ProviderOpen(index, mounts, r) ==
    IF r.mount = 0 THEN content_path(index, r.path)
    ELSE LET found == MountType(mounts[r.mount], r.path) IN
         CASE found.error # "none" -> Error(found.error)
           [] found.type = "Directory" -> Error("IsDirectory")
           [] OTHER -> Ok(r.path)

(* open: the file in the provider a handle stands for; a handle's reads    *)
(* and its close are routed anew.                                          *)
open(index, mounts, path) ==
    IF is_mount_route_parent(mounts, path)
       /\ getattr(index, mounts, path).type = "Directory"
    THEN Error("IsDirectory")
    ELSE ProviderOpen(index, mounts, route(mounts, path))
=============================================================================
