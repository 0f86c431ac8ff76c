------------------------------ MODULE TarStream ------------------------------
(***************************************************************************)
(* A container's export read into an index: TarStreamReader and            *)
(* TarIndex::from_stream of docker-core/src/vfs_providers/tar_index.rs,    *)
(* then the mounts laid over it (capture_generation of container.rs).      *)
(*                                                                         *)
(* The archive (TarArchive) arrives in chunks cut anywhere, and may stop   *)
(* short.  As the writers of such archives do, an entry uses one of the    *)
(* two forms of extension records.                                         *)
(***************************************************************************)
EXTENDS ContainerTree, TarArchive

CONSTANTS
    max_archive_bytes, max_extension_bytes, max_entry_bytes,   \* TarLimits
    MaxChunk,               \* units a chunk holds at most
    Captures                \* the archives and mounts to capture

VARIABLES
    state,      \* the reader
    requests,   \* the capture: the index and how it ended
    engine,     \* what Docker sends
    ghost       \* what was asked of the tree, and the answer

vars == <<state, requests, engine, ghost>>

(* TarLimits::validate                                                     *)
TarLimitsValid ==
    /\ max_archive_bytes >= 2 * TAR_BLOCK
    /\ {max_entries, max_path_bytes, max_extension_bytes, max_entry_bytes} \subseteq Nat \ {0}
    /\ max_entry_bytes <= max_archive_bytes

-----------------------------------------------------------------------------
NoExtension == [path |-> <<>>, link |-> <<>>, size |-> NoSize]

Reader ==
    [pc |-> "header", need |-> TAR_BLOCK, buffer |-> 0, received |-> 0, ended |-> FALSE,
     record |-> <<>>, global_pax |-> NoExtension, pending_pax |-> NoExtension,
     pending_long_name |-> <<>>, pending_long_link |-> <<>>]

Init ==
    /\ engine \in Captures /\ new(engine.mounts)
    /\ state = Reader
    /\ requests = [pc |-> "reading", index |-> empty, error |-> "none", laid |-> {}]
    /\ ghost = "none"

Reading == requests.pc = "reading"

Fails(error) ==
    /\ requests' = [requests EXCEPT !.pc = "failed", !.error = error, !.index = empty]
    /\ state' = Reader
    /\ UNCHANGED <<engine, ghost>>

(* Where the block just read begins.                                       *)
Block == state.received - state.buffer - TAR_BLOCK

-----------------------------------------------------------------------------
(* fill: one more chunk, the end of the stream, or its error.              *)
Wants == state.need > 0 \/ state.pc = "tail"

fill ==
    /\ Reading /\ Wants
    /\ state.buffer = 0 /\ ~state.ended
    /\ \/ \E n \in 1..MaxChunk :
            /\ state.received + n <= engine.sent
            /\ IF state.received + n > max_archive_bytes
               THEN Fails("ByteLimit")
               ELSE /\ state' = [state EXCEPT !.received = @ + n, !.buffer = n]
                    /\ UNCHANGED <<requests, engine, ghost>>
       \/ /\ state.received = engine.sent
          /\ IF engine.cut THEN Fails("Stream")
             ELSE /\ state' = [state EXCEPT !.ended = TRUE]
                  /\ UNCHANGED <<requests, engine, ghost>>

(* read_exact and skip_exact: a turn of their loops.                       *)
read_exact ==
    /\ Reading
    /\ state.need > 0
    /\ \/ /\ state.buffer > 0
          /\ LET take == Min({state.need, state.buffer}) IN
             state' = [state EXCEPT !.need = @ - take, !.buffer = @ - take]
          /\ UNCHANGED <<requests, engine, ghost>>
       \/ /\ state.buffer = 0 /\ state.ended
          /\ Fails("Truncated")

padding(size) == (TAR_BLOCK - (size % TAR_BLOCK)) % TAR_BLOCK

(* next_entry, at a header block.                                          *)
At(pc) == Reading /\ state.pc = pc /\ state.need = 0
Goes(pc, need) == [state EXCEPT !.pc = pc, !.need = need]

EndMarker ==
    /\ At("header")
    /\ Block >= engine.end
    /\ state' = Goes("second", TAR_BLOCK)
    /\ UNCHANGED <<requests, engine, ghost>>

SecondMarker ==
    /\ At("second")
    /\ IF engine.junk = "second" THEN Fails("Marker")
       ELSE /\ state' = Goes("tail", 0)
            /\ UNCHANGED <<requests, engine, ghost>>

(* ensure_zero_tail; the index is complete when the stream is.             *)
ensure_zero_tail ==
    /\ Reading /\ state.pc = "tail"
    /\ \/ /\ state.buffer > 0
          /\ IF engine.junk = "tail" THEN Fails("Junk")
             ELSE /\ state' = [state EXCEPT !.buffer = 0]
                  /\ UNCHANGED <<requests, engine, ghost>>
       \/ /\ state.buffer = 0 /\ state.ended
          /\ requests' = [requests EXCEPT !.pc = "indexed"]
          /\ UNCHANGED <<state, engine, ghost>>

Readable == Block \in DOMAIN engine.layout /\ engine.layout[Block].flag # "damaged"
Header == engine.layout[Block]

(* parse_header of something that is not a header, or no longer one.       *)
parse_header ==
    /\ At("header")
    /\ Block < engine.end /\ ~Readable
    /\ Fails("Checksum")

AtRecord == At("header") /\ Readable

read_extension ==
    /\ AtRecord
    /\ Header.flag \in ExtensionFlags
    /\ IF Header.size > max_extension_bytes THEN Fails("ExtensionLimit")
       ELSE /\ state' = [Goes("extension", Header.size) EXCEPT !.record = Header]
            /\ UNCHANGED <<requests, engine, ghost>>

overlay(pax, other) ==
    [path |-> IF other.path # <<>> THEN other.path ELSE pax.path,
     link |-> IF other.link # <<>> THEN other.link ELSE pax.link,
     size |-> IF other.size # NoSize THEN other.size ELSE pax.size]

(* parse_pax: what it finds, in a body that is well formed.                *)
parse_pax(record) == [path |-> record.path, link |-> record.link, size |-> record.says]

(* What the extension says is kept for the entry that follows.             *)
Extends ==
    /\ At("extension pad")
    /\ LET record == state.record
           next == [Goes("header", TAR_BLOCK) EXCEPT !.record = <<>>] IN
       IF ~record.sound THEN Fails("Malformed")
       ELSE /\ state' = CASE record.flag = "g" ->
                                [next EXCEPT !.global_pax = overlay(@, parse_pax(record))]
                          [] record.flag = "x" ->
                                [next EXCEPT !.pending_pax = overlay(@, parse_pax(record))]
                          [] record.flag = "L" -> [next EXCEPT !.pending_long_name = record.path]
                          [] record.flag = "K" -> [next EXCEPT !.pending_long_link = record.link]
            /\ UNCHANGED <<requests, engine, ghost>>

First(a, b, c) == IF a # <<>> THEN a ELSE IF b # <<>> THEN b ELSE c

validate_link_target(link) == 2 * Len(link) - 1 <= max_path_bytes

(* The length of a body as its header has it.                              *)
SizeOfHeader(pax, record) == record.size

SizeOf(pax, record) == IF pax.size # NoSize THEN pax.size ELSE record.size

(* next_entry, at the header of an entry: its name, its link, its checks.  *)
(* What a long name or link said is taken only if it is used.              *)
next_entry ==
    /\ AtRecord
    /\ Header.flag \notin ExtensionFlags
    /\ LET pax == overlay(state.global_pax, state.pending_pax)
           path == First(pax.path, state.pending_long_name, Header.path)
           link == First(pax.link, state.pending_long_link, Header.link) IN
       CASE ~validate_link_target(link) -> Fails("PathTooLong")
         [] Header.flag = "Hardlink" /\ link = <<>> -> Fails("NoTarget")
         [] Header.flag = "Hardlink" /\ from_tar_bytes(link).error # "none" ->
                Fails(from_tar_bytes(link).error)
         [] SizeOf(pax, Header) > max_entry_bytes -> Fails("EntryLimit")
         [] from_tar_bytes(path).error # "none" -> Fails(from_tar_bytes(path).error)
         [] OTHER ->
            /\ state' = [Goes("body", SizeOf(pax, Header)) EXCEPT
                    !.record = [Header EXCEPT !.path = path, !.link = link,
                                              !.size = SizeOf(pax, Header)],
                    !.pending_pax = NoExtension,
                    !.pending_long_name = IF pax.path # <<>> THEN @ ELSE <<>>,
                    !.pending_long_link = IF pax.link # <<>> THEN @ ELSE <<>>]
            /\ UNCHANGED <<requests, engine, ghost>>

(* skip_entry_body and read_extension: the body, then its padding.         *)
SkipsPadding ==
    /\ \/ At("body") /\ state' = Goes("pad", padding(state.record.size))
       \/ At("extension") /\ state' = Goes("extension pad", padding(state.record.size))
    /\ UNCHANGED <<requests, engine, ghost>>

(* The loop of from_stream that takes what the archive says of the root.   *)
PassesOverNothing(path) == FALSE

PassesOver(path) == path = root

(* The loop of from_stream.                                                *)
from_stream ==
    /\ At("pad")
    /\ LET record == state.record
           path == from_tar_bytes(record.path).path
           done == insert_with_parents(requests.index, Entry(path, record.flag, record.link)) IN
       IF PassesOver(path)
       THEN /\ state' = [Goes("header", TAR_BLOCK) EXCEPT !.record = <<>>]
            /\ UNCHANGED <<requests, engine, ghost>>
       ELSE IF done.error # "none" THEN Fails(done.error)
       ELSE /\ requests' = [requests EXCEPT !.index = done.index]
            /\ state' = [Goes("header", TAR_BLOCK) EXCEPT !.record = <<>>]
            /\ UNCHANGED <<engine, ghost>>

(* capture_generation: the mounts are laid over the index, each            *)
(* destination once, the shallow ones first, and the snapshot is stored.   *)
(* (Destinations of one depth are taken in the order of their bytes: here  *)
(* in any order, for neither is below the other.)                          *)
Destinations(mounts) == {mounts[i].destination : i \in DOMAIN mounts}

Lays(path) ==
    LET done == apply_mount_overlays(requests.index, path) IN
    IF done.error # "none" THEN Fails(done.error)
    ELSE /\ requests' = [requests EXCEPT !.laid = @ \union {path}, !.index = done.index]
         /\ UNCHANGED <<state, engine, ghost>>

capture_generation ==
    /\ requests.pc = "indexed"
    /\ LET left == Destinations(engine.mounts) \ requests.laid IN
       \/ /\ left = {}
          /\ requests' = [requests EXCEPT !.pc = "captured"]
          /\ UNCHANGED <<state, engine, ghost>>
       \/ \E path \in left :
            /\ \A other \in left : Len(path) <= Len(other)
            /\ Lays(path)

(* The tree of a snapshot: a directory is listed, then a name in it looked *)
(* up and opened.                                                          *)
TreePaths == UNION {[1..n -> {"a", "b", "c"}] : n \in 0..3}

Lists ==
    /\ requests.pc = "captured"
    /\ requests' = [requests EXCEPT !.pc = "listed"]
    /\ \E p \in TreePaths :
        ghost' = [path |-> p, listed |-> read_dir(requests.index, engine.mounts, p)]
    /\ UNCHANGED <<state, engine>>

Opens ==
    /\ requests.pc = "listed"
    /\ ghost.listed.error = "none"
    /\ requests' = [requests EXCEPT !.pc = "opened"]
    /\ \E n \in DOMAIN ghost.listed.types :
        LET p == Append(ghost.path, n) IN
        ghost' = [type |-> ghost.listed.types[n],
                  found |-> getattr(requests.index, engine.mounts, p),
                  opened |-> open(requests.index, engine.mounts, p)]
    /\ UNCHANGED <<state, engine>>

Next ==
    \/ fill \/ read_exact \/ EndMarker \/ SecondMarker \/ ensure_zero_tail
    \/ parse_header \/ read_extension \/ Extends \/ next_entry \/ SkipsPadding
    \/ from_stream \/ capture_generation \/ Lists \/ Opens

Spec == Init /\ [][Next]_vars

-----------------------------------------------------------------------------
TypeOK ==
    /\ requests.pc \in {"reading", "indexed", "captured", "failed", "listed", "opened"}
    /\ state.need \in Nat /\ state.buffer \in 0..MaxChunk
    /\ state.received \in 0..max_archive_bytes

(* What the archive says of its entry i, by the format's rules.            *)
Says(records, flag, among, field) ==
    LET saying == {j \in among : records[j].flag = flag /\ records[j][field] # <<>>} IN
    IF saying = {} THEN <<>> ELSE records[Max(saying)][field]

NameOf(records, i) ==
    First(First(Says(records, "x", Group(records, i), "path"),
                Says(records, "g", 1..(i - 1), "path"), <<>>),
          Says(records, "L", Group(records, i), "path"), records[i].path)
LinkOf(records, i) ==
    First(First(Says(records, "x", Group(records, i), "link"),
                Says(records, "g", 1..(i - 1), "link"), <<>>),
          Says(records, "K", Group(records, i), "link"), records[i].link)

Listed(records) ==
    {i \in DOMAIN records : IsEntry(records[i])
                            /\ from_tar_bytes(NameOf(records, i)).path # root}
PathOf(records, i) == from_tar_bytes(NameOf(records, i)).path

Ancestors(paths) == UNION {{SubSeq(p, 1, i) : i \in 0..Len(p)} : p \in paths}

(* An archive there is no reason to refuse.                                *)
Acceptable(capture) ==
    LET records == capture.records
        listed == Listed(records)
        paths == {PathOf(records, i) : i \in listed} IN
    /\ capture.sent = capture.end + 2 * TAR_BLOCK + capture.tail /\ ~capture.cut
    /\ capture.junk = "none"
    /\ \A i \in DOMAIN records : records[i].flag # "damaged" /\ records[i].sound
    /\ capture.sent <= max_archive_bytes
    /\ \A i \in DOMAIN records :
        IF IsEntry(records[i])
        THEN /\ from_tar_bytes(NameOf(records, i)).error = "none"
             /\ Body(records, i) <= max_entry_bytes
             /\ validate_link_target(LinkOf(records, i))
             /\ records[i].flag = "Hardlink" =>
                    /\ LinkOf(records, i) # <<>>
                    /\ from_tar_bytes(LinkOf(records, i)).error = "none"
        ELSE records[i].size <= max_extension_bytes
    /\ \A i, j \in listed : PathOf(records, i) = PathOf(records, j) => i = j
    /\ Cardinality(Ancestors(paths \union Destinations(capture.mounts))) - 1
            <= max_entries

(* However the archive is cut into chunks, the index holds its entries,    *)
(* each under its own name and link, and made-up directories above them,   *)
(* and nothing else; and no archive is refused without a reason.           *)
IndexFaithful ==
    LET records == engine.records
        index == requests.index
        listed == Listed(records) IN
    /\ requests.pc = "indexed" /\ requests.laid = {} =>
        /\ DOMAIN index = Ancestors({PathOf(records, i) : i \in listed} \union {root})
        /\ {index[p] : p \in {q \in DOMAIN index : ~index[q].synthetic}}
            = {Entry(PathOf(records, i), records[i].flag, LinkOf(records, i)) : i \in listed}
    /\ requests.pc = "failed" => ~Acceptable(engine)

(* The provider of a mount laid right in a directory fails its getattr, or *)
(* the directory's own provider cannot list it.                            *)
Blocked(path) ==
    \/ \E i \in DOMAIN engine.mounts :
        /\ engine.mounts[i].destination # root /\ parent(engine.mounts[i].destination) = path
        /\ getattr(requests.index, engine.mounts, engine.mounts[i].destination).error # "none"
    \/ ProviderList(requests.index, engine.mounts, route(engine.mounts, path)).error
            \notin {"none", "NotFound", "NotDirectory"}

Shows(path) ==
    \A destination \in Destinations(engine.mounts) :
        is_descendant_of(destination, path) =>
            /\ ghost.listed.error = "none"
            /\ destination[Len(path) + 1] \in DOMAIN ghost.listed.types

(* What is listed in the container's tree is found, with the type it was   *)
(* listed with, and can be opened if it is a file; a mount shows in the    *)
(* listing of every directory above it that is not Blocked; and nothing    *)
(* the export holds at or below a mount point is left.                     *)
TreeConsistent ==
    /\ requests.pc = "listed" /\ ~Blocked(ghost.path) => Shows(ghost.path)
    /\ requests.pc = "opened" =>
        /\ ghost.found = [error |-> "none", type |-> ghost.type]
        /\ ghost.type = "RegularFile" <=> ghost.opened.error = "none"
    /\ requests.pc = "captured" =>
        \A p \in DOMAIN requests.index :
            (\E destination \in Destinations(engine.mounts) : starts_with(p, destination))
                => requests.index[p].synthetic

(* Does not hold: a mount shows in the listing of every directory above    *)
(* it.  merge_mount_route_children gives the whole listing up when the     *)
(* provider of one mount in it does not answer.                            *)
MountsAlwaysListed == requests.pc = "listed" => Shows(ghost.path)

(* Does not hold: what is found is listed.  A hard link without its target *)
(* fails the listing of its directory, or empties it when there is a mount *)
(* below.                                                                  *)
FoundIsListed ==
    requests.pc = "listed" =>
        \A p \in DOMAIN requests.index :
            /\ p # root /\ parent(p) = ghost.path
            /\ getattr(requests.index, engine.mounts, p).error = "none"
            => p[Len(p)] \in DOMAIN ghost.listed.types
=============================================================================
