----------------------------- MODULE IndexBuild -----------------------------
(***************************************************************************)
(* What reading an export does to the index, one entry or one mount at a   *)
(* time: the specification TarStream implements, whatever the chunks, the  *)
(* extension records and the errors of the stream are.                     *)
(***************************************************************************)
EXTENDS TarIndex

CONSTANTS Names, Paths, Kinds, Links

VARIABLE index

(* The paths the archive and the mounts may have are within the limits.    *)
PathsWithinLimits ==
    /\ \A p \in Paths : p \in Seq(Names) /\ encoded_len(p) <= max_path_bytes
    /\ max_entries \in Nat /\ max_path_bytes \in Nat \ {0}

Init == index = empty

(* An entry with its parents; a hard link's target has been parsed.        *)
Inserts(entry) ==
    /\ entry.kind = "Hardlink" => from_tar_bytes(entry.link).error = "none"
    /\ insert_with_parents(index, entry).error = "none"
    /\ index' = insert_with_parents(index, entry).index

(* A mount.                                                                *)
Overlays(path) ==
    /\ apply_mount_overlays(index, path).error = "none"
    /\ index' = apply_mount_overlays(index, path).index

(* A capture that fails leaves nothing.                                    *)
Discards == index' = empty

(* A step that changes the index; the entry that comes is read off it.     *)
Next ==
    /\ index' # index
    /\ \/ \E path \in (Paths \intersect DOMAIN index') \ {root} :
            /\ index'[path].kind \in Kinds /\ index'[path].link \in Links
            /\ index'[path] = Entry(path, index'[path].kind, index'[path].link)
            /\ Inserts(index'[path])
       \/ \E path \in Paths : Overlays(path)
       \/ Discards

Spec == Init /\ [][Next]_index

(* An index, at every moment of its being built, is one the cache would    *)
(* take back (validate_persisted): no entry without its parent, no more    *)
(* entries than allowed, no unusable link.                                 *)
IndexValid == validate_persisted(index)
=============================================================================
