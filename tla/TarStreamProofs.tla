--------------------------- MODULE TarStreamProofs ---------------------------
(***************************************************************************)
(* Reading an export implements IndexBuild, whatever the archive holds,    *)
(* however it is cut into chunks and wherever it stops.                    *)
(***************************************************************************)
EXTENDS TarStream, TLAPS

CONSTANTS Names, Paths, Kinds, Links

Build == INSTANCE IndexBuild WITH index <- requests.index

(* Reading an export implements IndexBuild (from_stream).                  *)
BuildsIndex == Build!Spec

(* What the archives hold: records whose names, once parsed, are in Paths. *)
Records ==
    [flag : Kinds \union ExtensionFlags \union {"damaged"}, path : Links, link : Links,
     size : Nat, says : Nat \union {NoSize}, sound : BOOLEAN]

CapturesTyped ==
    /\ <<>> \in Links
    /\ \A raw \in Links :
        from_tar_bytes(raw).error = "none" => from_tar_bytes(raw).path \in Paths
    /\ \A capture \in Captures :
        /\ \A o \in DOMAIN capture.layout : capture.layout[o] \in Records
        /\ Destinations(capture.mounts) \subseteq Paths

(* What the reader holds: an entry whose header it has passed was checked. *)
Extensions == [path : Links, link : Links, size : Nat \union {NoSize}]

Checked(record) ==
    /\ record \in Records
    /\ record.flag \in Kinds
    /\ from_tar_bytes(record.path).error = "none"
    /\ record.flag = "Hardlink" => from_tar_bytes(record.link).error = "none"

ReaderTyped ==
    /\ DOMAIN state = {"pc", "need", "buffer", "received", "ended", "record", "global_pax",
                       "pending_pax", "pending_long_name", "pending_long_link"}
    /\ state.global_pax \in Extensions
    /\ state.pending_pax \in Extensions
    /\ state.pending_long_name \in Links
    /\ state.pending_long_link \in Links
    /\ state.pc \in {"extension", "extension pad"} =>
        state.record \in Records /\ state.record.flag \in ExtensionFlags
    /\ state.pc \in {"body", "pad"} => Checked(state.record)

CaptureTyped ==
    /\ engine \in Captures
    /\ DOMAIN requests = {"pc", "index", "error", "laid"}

StreamInv == ReaderTyped /\ CaptureTyped

-----------------------------------------------------------------------------
(* A capture that fails holds nothing.                                     *)
LEMMA FailsKeeps ==
    ASSUME CapturesTyped, StreamInv, NEW error, Fails(error)
    PROVE  StreamInv' /\ requests'.index = empty
<1>1. state' = Reader /\ engine' = engine
      /\ DOMAIN requests' = DOMAIN requests /\ requests'.index = empty
  BY DEF Fails, StreamInv, CaptureTyped
<1>2. ReaderTyped'
  BY <1>1 DEF ReaderTyped, Reader, NoExtension, Extensions, CapturesTyped
<1>3. CaptureTyped'
  BY <1>1 DEF StreamInv, CaptureTyped
<1> QED
  BY <1>1, <1>2, <1>3 DEF StreamInv

(* A step that reads keeps what the capture holds.                         *)
LEMMA ReadingKeeps ==
    ASSUME StreamInv, UNCHANGED <<requests, engine>>
    PROVE  CaptureTyped' /\ requests'.index = requests.index
BY DEF StreamInv, CaptureTyped

(* Extension records and headers give the reader what it may hold.         *)
LEMMA OverlayTyped ==
    ASSUME NEW a \in Extensions, NEW b \in Extensions
    PROVE  overlay(a, b) \in Extensions
BY DEF overlay, Extensions

(* The step of the proof for a step that only moves the reader.            *)
Implements == StreamInv' /\ (Build!Next \/ UNCHANGED requests.index)

LEMMA ReadingImplements ==
    ASSUME StreamInv, UNCHANGED <<requests, engine>>, ReaderTyped'
    PROVE  Implements
BY ReadingKeeps DEF Implements, StreamInv

LEMMA FailsImplements ==
    ASSUME CapturesTyped, StreamInv, NEW error, Fails(error)
    PROVE  Implements
<1>1. empty = Build!empty
  BY DEF Build!empty, Build!synthetic_directory, Build!Entry, Build!root,
         empty, synthetic_directory, Entry, root
<1> QED
  BY <1>1, FailsKeeps DEF Implements, Build!Next, Build!Discards

(* A step that moves the capture on and leaves its index.                  *)
LEMMA MovingImplements ==
    ASSUME StreamInv, NEW pc, requests' = [requests EXCEPT !.pc = pc], UNCHANGED <<state, engine>>
    PROVE  Implements
<1>1. CaptureTyped' /\ requests'.index = requests.index
  BY DEF StreamInv, CaptureTyped
<1>2. ReaderTyped'
  BY DEF StreamInv, ReaderTyped
<1> QED
  BY <1>1, <1>2 DEF Implements, StreamInv

(* fill, read_exact and the ends of the archive.                           *)
LEMMA BytesImplement ==
    ASSUME CapturesTyped, StreamInv,
           fill \/ read_exact \/ EndMarker \/ SecondMarker \/ ensure_zero_tail
           \/ parse_header \/ SkipsPadding
    PROVE  Implements
<1>1. CASE fill
  <2>1. ASSUME NEW n, state' = [state EXCEPT !.received = @ + n, !.buffer = n],
               UNCHANGED <<requests, engine>>
        PROVE  Implements
    <3>1. ReaderTyped'
      BY <2>1 DEF StreamInv, ReaderTyped
    <3> QED
      BY <2>1, <3>1, ReadingImplements
  <2>2. ASSUME state' = [state EXCEPT !.ended = TRUE], UNCHANGED <<requests, engine>>
        PROVE  Implements
    <3>1. ReaderTyped'
      BY <2>2 DEF StreamInv, ReaderTyped
    <3> QED
      BY <2>2, <3>1, ReadingImplements
  <2> QED
    BY <1>1, <2>1, <2>2, FailsImplements DEF fill
<1>2. CASE read_exact
  <2>1. ASSUME NEW take, state' = [state EXCEPT !.need = @ - take, !.buffer = @ - take],
               UNCHANGED <<requests, engine>>
        PROVE  Implements
    <3>1. ReaderTyped'
      BY <2>1 DEF StreamInv, ReaderTyped
    <3> QED
      BY <2>1, <3>1, ReadingImplements
  <2> QED
    BY <1>2, <2>1, FailsImplements DEF read_exact
<1>3. CASE EndMarker \/ SecondMarker
  <2>1. ASSUME NEW pc \in {"second", "tail"}, NEW need, state' = Goes(pc, need),
               UNCHANGED <<requests, engine>>
        PROVE  Implements
    <3>1. ReaderTyped'
      BY <2>1 DEF Goes, StreamInv, ReaderTyped
    <3> QED
      BY <2>1, <3>1, ReadingImplements
  <2> QED
    BY <1>3, <2>1, FailsImplements DEF EndMarker, SecondMarker
<1>4. CASE ensure_zero_tail
  <2>1. ASSUME state' = [state EXCEPT !.buffer = 0], UNCHANGED <<requests, engine>>
        PROVE  Implements
    <3>1. ReaderTyped'
      BY <2>1 DEF StreamInv, ReaderTyped
    <3> QED
      BY <2>1, <3>1, ReadingImplements
  <2> QED
    BY <1>4, <2>1, FailsImplements, MovingImplements DEF ensure_zero_tail
<1>5. CASE parse_header
  BY <1>5, FailsImplements DEF parse_header
<1>6. CASE SkipsPadding
  <2>1. ReaderTyped' /\ UNCHANGED <<requests, engine>>
    BY <1>6 DEF SkipsPadding, At, Goes, StreamInv, ReaderTyped
  <2> QED
    BY <2>1, ReadingImplements
<1> QED
  BY <1>1, <1>2, <1>3, <1>4, <1>5, <1>6

(* The extension records and the header of an entry.                       *)
LEMMA HeadersImplement ==
    ASSUME CapturesTyped, StreamInv, read_extension \/ Extends \/ next_entry
    PROVE  Implements
<1>1. ASSUME Readable PROVE Header \in Records /\ Header.flag # "damaged"
  BY <1>1 DEF Readable, Header, StreamInv, CaptureTyped, CapturesTyped
<1>2. CASE read_extension
  <2>1. ASSUME state' = [Goes("extension", Header.size) EXCEPT !.record = Header],
               UNCHANGED <<requests, engine>>
        PROVE  Implements
    <3>1. Header \in Records /\ Header.flag \in ExtensionFlags
      BY <1>1, <1>2 DEF read_extension, AtRecord
    <3>2. ReaderTyped'
      BY <2>1, <3>1 DEF Goes, StreamInv, ReaderTyped
    <3> QED
      BY <2>1, <3>2, ReadingImplements
  <2> QED
    BY <1>2, <2>1, FailsImplements DEF read_extension
<1>3. CASE Extends
  <2> DEFINE next == [Goes("header", TAR_BLOCK) EXCEPT !.record = <<>>]
  <2>1. state.record \in Records /\ state.record.flag \in ExtensionFlags
    BY <1>3 DEF Extends, At, StreamInv, ReaderTyped
  <2>2. parse_pax(state.record) \in Extensions
    BY <2>1 DEF parse_pax, Records, Extensions
  <2>3. /\ overlay(state.global_pax, parse_pax(state.record)) \in Extensions
        /\ overlay(state.pending_pax, parse_pax(state.record)) \in Extensions
        /\ state.record.path \in Links /\ state.record.link \in Links
    BY <2>1, <2>2, OverlayTyped DEF StreamInv, ReaderTyped, Records
  <2>4. ASSUME NEW v \in Extensions, UNCHANGED <<requests, engine>>,
               \/ state' = [next EXCEPT !.global_pax = v]
               \/ state' = [next EXCEPT !.pending_pax = v]
        PROVE  Implements
    <3>1. ReaderTyped'
      BY <2>4 DEF Goes, StreamInv, ReaderTyped
    <3> QED
      BY <2>4, <3>1, ReadingImplements
  <2>5. ASSUME NEW v \in Links, UNCHANGED <<requests, engine>>,
               \/ state' = [next EXCEPT !.pending_long_name = v]
               \/ state' = [next EXCEPT !.pending_long_link = v]
        PROVE  Implements
    <3>1. ReaderTyped'
      BY <2>5 DEF Goes, StreamInv, ReaderTyped
    <3> QED
      BY <2>5, <3>1, ReadingImplements
  <2>6. next.global_pax = state.global_pax /\ next.pending_pax = state.pending_pax
    BY DEF Goes, StreamInv, ReaderTyped
  <2> HIDE DEF next
  <2>7. CASE ~state.record.sound
    BY <1>3, <2>7, FailsImplements DEF Extends
  <2>8. CASE state.record.sound
    <3>0. UNCHANGED <<requests, engine>>
      BY <1>3, <2>8 DEF Extends
    <3>1. CASE state.record.flag = "g"
      <4>1. state' = [next EXCEPT !.global_pax =
                        overlay(next.global_pax, parse_pax(state.record))]
        BY <1>3, <2>8, <3>1 DEF Extends, next
      <4> QED
        BY <3>0, <4>1, <2>3, <2>4, <2>6
    <3>2. CASE state.record.flag = "x"
      <4>1. state' = [next EXCEPT !.pending_pax =
                        overlay(next.pending_pax, parse_pax(state.record))]
        BY <1>3, <2>8, <3>2 DEF Extends, next
      <4> QED
        BY <3>0, <4>1, <2>3, <2>4, <2>6
    <3>3. CASE state.record.flag = "L"
      <4>1. state' = [next EXCEPT !.pending_long_name = state.record.path]
        BY <1>3, <2>8, <3>3 DEF Extends, next
      <4> QED
        BY <3>0, <4>1, <2>3, <2>5
    <3>4. CASE state.record.flag = "K"
      <4>1. state' = [next EXCEPT !.pending_long_link = state.record.link]
        BY <1>3, <2>8, <3>4 DEF Extends, next
      <4> QED
        BY <3>0, <4>1, <2>3, <2>5
    <3> QED
      BY <3>1, <3>2, <3>3, <3>4, <2>1 DEF ExtensionFlags
  <2> QED
    BY <2>7, <2>8
<1>4. CASE next_entry
  <2> DEFINE pax == overlay(state.global_pax, state.pending_pax)
             path == First(pax.path, state.pending_long_name, Header.path)
             link == First(pax.link, state.pending_long_link, Header.link)
             entry == [Header EXCEPT !.path = path, !.link = link, !.size = SizeOf(pax, Header)]
  <2>1. Header \in Records /\ Header.flag \in Kinds
    BY <1>1, <1>4 DEF next_entry, AtRecord, Records
  <2>2. pax \in Extensions
    BY OverlayTyped DEF StreamInv, ReaderTyped
  <2> HIDE DEF pax
  <2>3. path \in Links /\ link \in Links /\ SizeOf(pax, Header) \in Nat
    BY <2>1, <2>2 DEF First, StreamInv, ReaderTyped, Extensions, Records, SizeOf
  <2>4. CASE \E error : Fails(error)
    BY <2>4, FailsImplements
  <2>5. CASE ~\E error : Fails(error)
    <3>1. /\ Header.flag = "Hardlink" => from_tar_bytes(link).error = "none"
          /\ from_tar_bytes(path).error = "none"
          /\ state' = [Goes("body", SizeOf(pax, Header)) EXCEPT
                    !.record = entry,
                    !.pending_pax = NoExtension,
                    !.pending_long_name = IF pax.path # <<>> THEN @ ELSE <<>>,
                    !.pending_long_link = IF pax.link # <<>> THEN @ ELSE <<>>]
          /\ UNCHANGED <<requests, engine>>
      BY <1>4, <2>5 DEF next_entry, pax
    <3> HIDE DEF path, link
    <3>2. Checked(entry)
      BY <2>1, <2>3, <3>1 DEF Checked, Records
    <3> HIDE DEF entry
    <3>3. ReaderTyped'
      BY <3>1, <3>2 DEF Goes, StreamInv, ReaderTyped, NoExtension, Extensions, CapturesTyped
    <3> QED
      BY <3>1, <3>3, ReadingImplements
  <2> QED
    BY <2>4, <2>5
<1> QED
  BY <1>2, <1>3, <1>4

-----------------------------------------------------------------------------
(* What IndexBuild does to an index is what TarStream does to it.          *)
LEMMA SameInsertion ==
    ASSUME NEW ix, NEW entry
    PROVE  Build!insert_with_parents(ix, entry) = insert_with_parents(ix, entry)
<1>1. \A p, q : Build!starts_with(p, q) <=> starts_with(p, q)
  BY DEF Build!starts_with, starts_with
<1>2. \A p, q : Build!is_descendant_of(p, q) <=> is_descendant_of(p, q)
  BY <1>1 DEF Build!is_descendant_of, is_descendant_of
<1>3. Build!Missing(ix, entry.path) = Missing(ix, entry.path)
  BY <1>1, <1>2, Zenon DEF Build!Missing, Missing
<1>0. \A S : Build!Cardinality(S) = Cardinality(S)
  BY DEF Build!Cardinality, Cardinality, Build!IsFiniteSet, IsFiniteSet
<1>4. \A jx, n : Build!ensure_capacity(jx, n) <=> ensure_capacity(jx, n)
  BY <1>0 DEF Build!ensure_capacity, ensure_capacity
<1>5. \A p : Build!synthetic_directory(p) = synthetic_directory(p)
  BY Zenon DEF Build!synthetic_directory, synthetic_directory, Build!Entry, Entry
<1>6. \A jx, missing : Build!Grown(jx, missing) = Grown(jx, missing)
  BY <1>5 DEF Build!Grown, Grown
<1>7. \A jx, e : Build!replace(jx, e) = replace(jx, e)
  BY Zenon DEF Build!replace, replace
<1> QED
  BY <1>0, <1>3, <1>4, <1>6, <1>7, Zenon DEF Build!insert_with_parents, insert_with_parents

LEMMA SameOverlay ==
    ASSUME NEW ix, NEW path
    PROVE  Build!apply_mount_overlays(ix, path) = apply_mount_overlays(ix, path)
<1>1. Build!remove_descendants(ix, path) = remove_descendants(ix, path)
  BY DEF Build!remove_descendants, remove_descendants, Build!is_descendant_of,
         is_descendant_of, Build!starts_with, starts_with
<1>2. Build!synthetic_directory(path) = synthetic_directory(path)
  BY DEF Build!synthetic_directory, synthetic_directory, Build!Entry, Entry
<1>3. \A jx, e : Build!replace(jx, e) = replace(jx, e)
  BY DEF Build!replace, replace
<1>4. \A jx : Build!insert_synthetic_directory(jx, path) = insert_synthetic_directory(jx, path)
  BY <1>2, SameInsertion DEF Build!insert_synthetic_directory, insert_synthetic_directory,
     Build!root, root
<1> QED
  BY <1>1, <1>2, <1>3, <1>4 DEF Build!apply_mount_overlays, apply_mount_overlays

(* An entry that is inserted is found under its path.                      *)
LEMMA InsertedIsThere ==
    ASSUME NEW ix, NEW entry, insert_with_parents(ix, entry).error = "none"
    PROVE  LET grown == insert_with_parents(ix, entry).index IN
           entry.path \in DOMAIN grown /\ grown[entry.path] = entry
<1>1. insert_with_parents(ix, entry).index = replace(Grown(ix, Missing(ix, entry.path)), entry)
  BY DEF insert_with_parents
<1> QED
  BY <1>1 DEF replace

(* from_stream inserts an entry IndexBuild could.                          *)
LEMMA InsertionImplements ==
    ASSUME CapturesTyped, StreamInv, from_stream
    PROVE  Implements
<1> DEFINE record == state.record
           path == from_tar_bytes(record.path).path
           entry == Entry(path, record.flag, record.link)
           done == insert_with_parents(requests.index, entry)
           next == [Goes("header", TAR_BLOCK) EXCEPT !.record = <<>>]
<1>1. Checked(record)
  BY DEF from_stream, At, StreamInv, ReaderTyped
<1>2. path \in Paths /\ record.flag \in Kinds /\ record.link \in Links
  BY <1>1 DEF Checked, CapturesTyped, Records
<1>3. ASSUME state' = next PROVE ReaderTyped'
  BY <1>3 DEF Goes, StreamInv, ReaderTyped
<1>4. CASE PassesOver(path)
  BY <1>3, <1>4, ReadingImplements DEF from_stream
<1>5. CASE ~PassesOver(path) /\ done.error # "none"
  BY <1>5, FailsImplements DEF from_stream
<1>6. CASE ~PassesOver(path) /\ done.error = "none"
  <2>1. /\ requests' = [requests EXCEPT !.index = done.index]
        /\ state' = next /\ engine' = engine
    BY <1>6 DEF from_stream
  <2>2. requests'.index = done.index /\ CaptureTyped'
    BY <2>1 DEF StreamInv, CaptureTyped
  <2>3. entry.path = path /\ entry.kind = record.flag /\ entry.link = record.link
    BY DEF Entry
  <2> HIDE DEF entry
  <2>4. path \in DOMAIN requests'.index /\ requests'.index[path] = entry
    BY <2>2, <2>3, <1>6, InsertedIsThere
  <2>5. Build!Inserts(entry)
    <3>1. entry.kind = "Hardlink" => Build!from_tar_bytes(entry.link).error = "none"
      <4>1. Build!from_tar_bytes(entry.link) = from_tar_bytes(entry.link)
        BY DEF Build!from_tar_bytes, from_tar_bytes, Build!Error, Error, Build!Ok, Ok,
           Build!encoded_len, encoded_len, Build!root, root
      <4> QED
        BY <4>1, <1>1, <2>3 DEF Checked
    <3> QED
      BY <3>1, <1>6, <2>2, SameInsertion DEF Build!Inserts
  <2>6. path # Build!root
    BY <1>6 DEF PassesOver, root, Build!root
  <2>7. entry = Build!Entry(path, entry.kind, entry.link)
    BY <2>3 DEF Build!Entry, Entry, entry
  <2>8. Build!Next \/ UNCHANGED requests.index
    BY <1>2, <2>3, <2>4, <2>5, <2>6, <2>7 DEF Build!Next
  <2> QED
    BY <1>3, <2>1, <2>2, <2>8 DEF Implements, StreamInv
<1> QED
  BY <1>4, <1>5, <1>6

(* capture_generation lays a mount IndexBuild could.                       *)
LEMMA MountImplements ==
    ASSUME CapturesTyped, StreamInv, capture_generation
    PROVE  Implements
<1>1. CASE requests' = [requests EXCEPT !.pc = "captured"] /\ UNCHANGED <<state, engine>>
  BY <1>1, MovingImplements
<1>2. ASSUME NEW path \in Destinations(engine.mounts), Lays(path)
      PROVE  Implements
  <2> DEFINE done == apply_mount_overlays(requests.index, path)
  <2>1. CASE done.error # "none"
    BY <1>2, <2>1, FailsImplements DEF Lays
  <2>2. CASE done.error = "none"
    <3>1. /\ requests' = [requests EXCEPT !.laid = @ \union {path}, !.index = done.index]
          /\ UNCHANGED <<state, engine>>
      BY <1>2, <2>2 DEF Lays
    <3>2. requests'.index = done.index /\ DOMAIN requests' = DOMAIN requests
      BY <3>1 DEF StreamInv, CaptureTyped
    <3>3. StreamInv'
      BY <3>1, <3>2 DEF StreamInv, CaptureTyped, ReaderTyped
    <3>4. path \in Paths
      BY DEF StreamInv, CaptureTyped, CapturesTyped
    <3>5. Build!Overlays(path)
      BY <2>2, <3>2, SameOverlay DEF Build!Overlays
    <3> QED
      BY <3>3, <3>4, <3>5 DEF Implements, Build!Next
  <2> QED
    BY <2>1, <2>2
<1> QED
  BY <1>1, <1>2 DEF capture_generation

(* TarIndex::from_stream and capture_generation change the index by one    *)
(* entry with its parents, by one mount, or give it up, and nothing else   *)
(* does: for every archive, cut anywhere, and every list of mounts.        *)
THEOREM ReadingImplementsBuild ==
    ASSUME CapturesTyped
    PROVE  Spec => BuildsIndex
<1>1. Init => StreamInv /\ Build!Init
  <2> SUFFICES ASSUME Init PROVE StreamInv /\ Build!Init
    OBVIOUS
  <2>1. ReaderTyped
    BY DEF Init, ReaderTyped, Reader, NoExtension, Extensions, CapturesTyped
  <2>2. CaptureTyped
    BY DEF Init, CaptureTyped
  <2>3. Build!Init
    BY DEF Init, Build!Init, Build!empty, empty, Build!synthetic_directory, synthetic_directory,
       Build!Entry, Entry, Build!root, root
  <2> QED
    BY <2>1, <2>2, <2>3 DEF StreamInv
<1>2. StreamInv /\ [Next]_vars => StreamInv' /\ [Build!Next]_(requests.index)
  <2> SUFFICES ASSUME StreamInv, [Next]_vars
               PROVE  Implements
    BY DEF Implements
  <2>1. CASE Next
    <3>1. CASE Lists \/ Opens
      BY <3>1, MovingImplements DEF Lists, Opens
    <3> QED
      BY <2>1, <3>1, BytesImplement, HeadersImplement, InsertionImplements, MountImplements
         DEF Next
  <2>2. CASE UNCHANGED vars
    BY <2>2, ReadingImplements DEF vars, StreamInv, ReaderTyped
  <2> QED
    BY <2>1, <2>2
<1> QED
  BY <1>1, <1>2, PTL DEF Spec, BuildsIndex, Build!Spec
=============================================================================
