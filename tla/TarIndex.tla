------------------------------ MODULE TarIndex ------------------------------
(***************************************************************************)
(* The index of a tar archive (docker-core/src/vfs_providers/tar_index.rs)  *)
(* and the mount points laid over it (apply_mount_overlays): a map from     *)
(* paths to entries, where a directory the archive does not list is made    *)
(* up.  Constant level; an index that cannot take an entry is Overfull or   *)
(* Duplicate, which ends the capture.                                       *)
(*                                                                          *)
(* A path is a sequence of names, each one byte long.  A raw path may also  *)
(* hold the components "", "." and "..".                                    *)
(***************************************************************************)
EXTENDS Integers, Sequences, FiniteSets

CONSTANTS
    max_entries,        \* TarLimits::max_entries
    max_path_bytes,     \* TarLimits::max_path_bytes
    MaxHops             \* entries a chain of hard links may have (40)

root == <<>>

parent(p) == SubSeq(p, 1, Len(p) - 1)
starts_with(p, q) == Len(q) <= Len(p) /\ SubSeq(p, 1, Len(q)) = q
is_descendant_of(p, q) == Len(p) > Len(q) /\ starts_with(p, q)
encoded_len(p) == IF p = root THEN 1 ELSE 2 * Len(p)

Ok(p) == [error |-> "none", path |-> p]
Error(e) == [error |-> e, path |-> root]

from_tar_bytes(raw) ==
    LET named == SelectSeq(raw, LAMBDA c : c \notin {"", "."}) IN
    CASE 2 * Len(raw) - 1 > max_path_bytes -> Error("PathTooLong")
      [] raw # <<>> /\ raw[1] = "" -> Error("InvalidInput")
      [] \E i \in DOMAIN raw : raw[i] = ".." -> Error("SymlinkEscape")
      [] encoded_len(named) > max_path_bytes -> Error("PathTooLong")
      [] OTHER -> Ok(named)

-----------------------------------------------------------------------------
Entry(path, kind, link) == [path |-> path, kind |-> kind, link |-> link, synthetic |-> FALSE]

synthetic_directory(p) == [Entry(p, "Directory", <<>>) EXCEPT !.synthetic = TRUE]

empty == [p \in {root} |-> synthetic_directory(root)]

(* BTreeMap::insert                                                         *)
replace(index, entry) ==
    [p \in DOMAIN index \union {entry.path} |-> IF p = entry.path THEN entry ELSE index[p]]

(* The index with made-up directories at the paths it lacks.                *)
Grown(index, missing) ==
    [p \in DOMAIN index \union missing |->
        IF p \in DOMAIN index THEN index[p] ELSE synthetic_directory(p)]

(* The ancestors met on the way up before one that is there.                *)
Missing(index, path) ==
    {p \in {SubSeq(path, 1, i) : i \in 0..(Len(path) - 1)} :
        ~ \E q \in DOMAIN index : starts_with(q, p) /\ is_descendant_of(path, q)}

(* ensure_capacity before each of n insertions.                             *)
ensure_capacity(index, n) == n > 0 => Cardinality(DOMAIN index) - 1 + n <= max_entries

(* The insertion that takes the archive to list every directory.            *)
InsertsAlone(index, entry) ==
    LET known == entry.path \in DOMAIN index IN
    CASE known /\ ~(index[entry.path].synthetic /\ ~entry.synthetic) ->
            [error |-> "Duplicate", index |-> index]
      [] ~known /\ ~ensure_capacity(index, 1) -> [error |-> "Overfull", index |-> index]
      [] OTHER -> [error |-> "none", index |-> replace(index, entry)]

insert_with_parents(index, entry) ==
    LET missing == Missing(index, entry.path)
        grown == Grown(index, missing)
        known == entry.path \in DOMAIN index IN
    CASE ~ensure_capacity(index, Cardinality(missing)) ->
            [error |-> "Overfull", index |-> index]
      [] known /\ ~(index[entry.path].synthetic /\ ~entry.synthetic) ->
            [error |-> "Duplicate", index |-> index]
      [] ~known /\ ~ensure_capacity(grown, 1) ->
            [error |-> "Overfull", index |-> index]
      [] OTHER ->
            [error |-> "none", index |-> replace(grown, entry)]

insert_synthetic_directory(index, path) ==
    IF path = root THEN [error |-> "none", index |-> index]
    ELSE insert_with_parents(index, synthetic_directory(path))

remove_descendants(index, path) ==
    [p \in {q \in DOMAIN index : ~is_descendant_of(q, path)} |-> index[p]]

-----------------------------------------------------------------------------
(* The path a chain of hard links leads to, after n of them.                *)
Hop(index, path) ==
    LET at[n \in 0..MaxHops] ==
            IF n = 0 THEN path
            ELSE LET q == at[n - 1] IN
                 IF q \in DOMAIN index /\ index[q].kind = "Hardlink"
                 THEN from_tar_bytes(index[q].link).path ELSE q
    IN  at

Target(index, at) ==
    CASE at \notin DOMAIN index -> Error("NotFound")
      [] index[at].kind = "Hardlink" -> Error("SymlinkLoop")
      [] OTHER -> Ok(at)

resolve_hardlink(index, path) == Target(index, Hop(index, path)[MaxHops - 1])

(* metadata: an entry's type is its target's, followed through hard links.  *)
TypeOf(index, found) ==
    [error |-> found.error, type |-> IF found.error = "none" THEN index[found.path].kind ELSE "none"]

metadata(index, path) ==
    IF path \in DOMAIN index THEN TypeOf(index, resolve_hardlink(index, path))
    ELSE [error |-> "NotFound", type |-> "none"]

Content(index, found) ==
    CASE found.error # "none" -> found
      [] index[found.path].kind = "RegularFile" -> found
      [] index[found.path].kind = "Directory" -> Error("IsDirectory")
      [] OTHER -> Error("InvalidInput")

content_path(index, path) == Content(index, resolve_hardlink(index, path))

children(index, path) == {p \in DOMAIN index : p # root /\ parent(p) = path}

(* A listing is the types of the children, and fails with any of them.      *)
Listing(found) ==
    LET bad == {p \in DOMAIN found : found[p].error # "none"} IN
    IF bad # {} THEN [error |-> found[CHOOSE p \in bad : TRUE].error, types |-> <<>>]
    ELSE [error |-> "none", types |-> [p \in DOMAIN found |-> found[p].type]]

directory_entries(index, path) ==
    CASE path \notin DOMAIN index -> [error |-> "NotFound", types |-> <<>>]
      [] index[path].kind # "Directory" -> [error |-> "NotDirectory", types |-> <<>>]
      [] OTHER -> Listing([p \in children(index, path) |-> metadata(index, p)])

(* What an index read back from the cache must satisfy.                     *)
validate_persisted(index) ==
    /\ Cardinality(DOMAIN index) <= max_entries + 1
    /\ root \in DOMAIN index /\ index[root].kind = "Directory"
    /\ \A p \in DOMAIN index :
        /\ index[p].path = p
        /\ encoded_len(p) <= max_path_bytes
        /\ p # root => parent(p) \in DOMAIN index
        /\ index[p].kind = "Hardlink" => from_tar_bytes(index[p].link).error = "none"

-----------------------------------------------------------------------------
(* The overlay that leaves what the export holds below a mount point.       *)
OverlaysOnTop(index, path) ==
    IF path \in DOMAIN index
    THEN [error |-> "none", index |-> replace(index, synthetic_directory(path))]
    ELSE insert_synthetic_directory(index, path)

(* A mount laid over the index, one turn of the loop.                       *)
apply_mount_overlays(index, path) ==
    LET hidden == remove_descendants(index, path) IN
    IF path \in DOMAIN hidden
    THEN [error |-> "none", index |-> replace(hidden, synthetic_directory(path))]
    ELSE insert_synthetic_directory(hidden, path)
=============================================================================
