--------------------------- MODULE TarIndexProofs ---------------------------
(***************************************************************************)
(* Whatever the archive lists and whatever is mounted over it, an index    *)
(* being built is one the cache would take back: for any names, paths,     *)
(* kinds, links and limits.                                                *)
(***************************************************************************)
EXTENDS IndexBuild, FiniteSetTheorems, SequenceTheorems, TLAPS

(* What the proofs use of IndexValid, and what TLC takes for granted: an   *)
(* index is a function on a finite set of paths.                           *)
Sound(ix) ==
    /\ DOMAIN ix \subseteq Seq(Names)
    /\ IsFiniteSet(DOMAIN ix)
    /\ validate_persisted(ix)

IndexInv == Sound(index)

-----------------------------------------------------------------------------
(* A prefix of a path's prefix is a prefix of the path.                    *)
LEMMA PrefixOfPrefix ==
    ASSUME NEW S, NEW p \in Seq(S), NEW i \in 0..Len(p), NEW j \in 0..i
    PROVE  /\ SubSeq(p, 1, i) \in Seq(S)
           /\ Len(SubSeq(p, 1, i)) = i
           /\ SubSeq(SubSeq(p, 1, i), 1, j) = SubSeq(p, 1, j)
<1>1. SubSeq(p, 1, i) \in Seq(S) /\ Len(SubSeq(p, 1, i)) = i
  BY SubSeqProperties
<1>2. SubSeq(p, 1, j) \in Seq(S) /\ Len(SubSeq(p, 1, j)) = j
  BY SubSeqProperties
<1>3. /\ SubSeq(SubSeq(p, 1, i), 1, j) \in Seq(S)
      /\ Len(SubSeq(SubSeq(p, 1, i), 1, j)) = j
  BY <1>1, SubSeqProperties
<1>4. ASSUME NEW k \in 1..j
      PROVE  SubSeq(SubSeq(p, 1, i), 1, j)[k] = SubSeq(p, 1, j)[k]
  BY <1>1, SubSeqProperties
<1> QED
  BY <1>1, <1>2, <1>3, <1>4, SeqEqual

(* An ancestor by starts_with is a prefix.                                 *)
LEMMA Prefixes ==
    ASSUME NEW S, NEW p \in Seq(S), NEW q \in Seq(S), starts_with(p, q)
    PROVE  Len(q) \in 0..Len(p) /\ q = SubSeq(p, 1, Len(q))
BY DEF starts_with

(* A path has a parent, one name shorter.                                  *)
LEMMA Parents ==
    ASSUME NEW S, NEW p \in Seq(S), p # root
    PROVE  /\ Len(p) \in Nat \ {0}
           /\ parent(p) \in Seq(S)
           /\ Len(parent(p)) = Len(p) - 1
<1>1. Len(p) \in Nat \ {0}
  BY DEF root
<1>2. Len(p) - 1 \in 0..Len(p) /\ 0 \in 0..(Len(p) - 1)
  BY <1>1
<1> QED
  BY <1>1, <1>2, PrefixOfPrefix DEF parent

(* What is below the parent of a path's is below the path.                 *)
LEMMA BelowParent ==
    ASSUME NEW S, NEW p \in Seq(S), p # root, NEW path \in Seq(S),
           is_descendant_of(parent(p), path)
    PROVE  is_descendant_of(p, path)
<1>1. Len(p) \in Nat \ {0} /\ Len(parent(p)) = Len(p) - 1
  BY Parents
<1>2. Len(path) \in 0..(Len(p) - 1)
  BY <1>1 DEF is_descendant_of, starts_with
<1>3. SubSeq(parent(p), 1, Len(path)) = SubSeq(p, 1, Len(path))
  BY <1>1, <1>2, PrefixOfPrefix DEF parent
<1> QED
  BY <1>1, <1>2, <1>3 DEF is_descendant_of, starts_with

(* The directories made up for a path are some of its proper prefixes,     *)
(* and with them the path has an unbroken line of parents.                 *)
LEMMA MissingCloses ==
    ASSUME NEW ix, DOMAIN ix \subseteq Seq(Names), NEW path \in Seq(Names), path # root
    PROVE  /\ Missing(ix, path) \subseteq Seq(Names)
           /\ IsFiniteSet(Missing(ix, path))
           /\ \A p \in Missing(ix, path) : Len(p) <= Len(path)
           /\ \A p \in Missing(ix, path) \union {path} :
                p # root => parent(p) \in DOMAIN ix \union Missing(ix, path)
<1> DEFINE M == Missing(ix, path)
           Prefix(i) == SubSeq(path, 1, i)
<1>1. Len(path) \in Nat \ {0}
  BY DEF root
<1>2. ASSUME NEW i \in 0..Len(path)
      PROVE  Prefix(i) \in Seq(Names) /\ Len(Prefix(i)) = i
  BY PrefixOfPrefix
<1>3. ASSUME NEW p \in M PROVE \E i \in 0..(Len(path) - 1) : p = Prefix(i)
  BY DEF Missing
<1>4. M \subseteq Seq(Names) /\ \A p \in M : Len(p) <= Len(path)
  BY <1>1, <1>2, <1>3
<1>5. IsFiniteSet(M)
  <2>1. IsFiniteSet(0..(Len(path) - 1))
    BY <1>1, FS_Interval
  <2> DEFINE f == [i \in 0..(Len(path) - 1) |-> Prefix(i)]
  <2>2. IsFiniteSet({f[i] : i \in 0..(Len(path) - 1)})
    <3>1. f \in Surjection(0..(Len(path) - 1), {f[i] : i \in 0..(Len(path) - 1)})
      BY DEF Surjection
    <3> HIDE DEF f
    <3> QED
      BY <2>1, <3>1, FS_Surjection
  <2>3. M \subseteq {f[i] : i \in 0..(Len(path) - 1)}
    BY <1>3
  <2> QED
    BY <2>2, <2>3, FS_Subset
<1>6. ASSUME NEW i \in 1..Len(path), i < Len(path) => Prefix(i) \in M
      PROVE  Prefix(i - 1) \in DOMAIN ix \union M
  <2>1. CASE Prefix(i - 1) \in M
    BY <2>1
  <2>2. CASE Prefix(i - 1) \notin M
    <3>1. PICK q \in DOMAIN ix : starts_with(q, Prefix(i - 1)) /\ is_descendant_of(path, q)
      BY <1>1, <2>2 DEF Missing
    <3>2. q \in Seq(Names) /\ q = Prefix(Len(q)) /\ Len(q) \in 0..(Len(path) - 1)
      BY <3>1, Prefixes DEF is_descendant_of, starts_with
    <3>3. Len(q) >= i - 1
      BY <1>1, <1>2, <3>1, <3>2 DEF starts_with
    <3>4. CASE Len(q) = i - 1
      BY <3>2, <3>4
    <3>5. CASE Len(q) # i - 1
      <4>1. i < Len(path) /\ Len(q) >= i
        BY <3>2, <3>3, <3>5
      <4>2. starts_with(q, Prefix(i))
        <5>1. SubSeq(Prefix(Len(q)), 1, i) = Prefix(i)
          BY <4>1, <3>2, PrefixOfPrefix
        <5> QED
          BY <5>1, <4>1, <1>1, <1>2, <3>2 DEF starts_with
      <4>3. Prefix(i) \notin M
        BY <4>2, <3>1 DEF Missing
      <4> QED
        BY <4>1, <4>3, <1>6
    <3> QED
      BY <3>4, <3>5
  <2> QED
    BY <2>1, <2>2
<1>7. ASSUME NEW i \in 1..Len(path) PROVE parent(Prefix(i)) = Prefix(i - 1)
  BY <1>1, <1>2, PrefixOfPrefix DEF parent
<1>8. path = Prefix(Len(path))
  <2>1. Prefix(Len(path)) \in Seq(Names) /\ Len(Prefix(Len(path))) = Len(path)
    BY <1>1, <1>2
  <2>2. \A k \in 1..Len(path) : Prefix(Len(path))[k] = path[k]
    BY <1>1, SubSeqProperties
  <2> QED
    BY <2>1, <2>2, SeqEqual
<1>9. ASSUME NEW p \in M \union {path}, p # root
      PROVE  parent(p) \in DOMAIN ix \union M
  <2>1. PICK i \in 0..Len(path) : p = Prefix(i) /\ (i < Len(path) => p \in M)
    <3>1. CASE p = path
      <4>1. Len(path) \in 0..Len(path) /\ p = Prefix(Len(path)) /\ ~(Len(path) < Len(path))
        BY <3>1, <1>1, <1>8
      <4> QED
        BY <4>1
    <3>2. CASE p \in M
      BY <3>2, <1>1, <1>3
    <3> QED
      BY <3>1, <3>2
  <2>2. i # 0
    BY <2>1, <1>9, SubSeqEmpty DEF root
  <2>3. i \in 1..Len(path) /\ (i < Len(path) => Prefix(i) \in M)
    BY <2>1, <2>2, <1>1
  <2>4. Prefix(i - 1) \in DOMAIN ix \union M
    BY <2>3, <1>6
  <2>5. parent(p) = Prefix(i - 1)
    BY <2>1, <2>3, <1>7
  <2> QED
    BY <2>4, <2>5
<1> QED
  BY <1>4, <1>5, <1>9

-----------------------------------------------------------------------------
(* An entry inserted with its parents leaves the index sound.              *)
LEMMA InsertKeepsSound ==
    ASSUME NEW ix, Sound(ix), NEW entry, PathsWithinLimits,
           entry.path \in Paths, entry.path # root,
           entry.kind = "Hardlink" => from_tar_bytes(entry.link).error = "none",
           insert_with_parents(ix, entry).error = "none"
    PROVE  Sound(insert_with_parents(ix, entry).index)
<1> DEFINE path == entry.path
           M == Missing(ix, path)
           D == DOMAIN ix
           grown == Grown(ix, M)
           new == replace(grown, entry)
<1>1. /\ ensure_capacity(ix, Cardinality(M))
      /\ path \notin D => ensure_capacity(grown, 1)
      /\ insert_with_parents(ix, entry).index = new
  BY DEF insert_with_parents
<1>2. /\ path \in Seq(Names) /\ encoded_len(path) <= max_path_bytes
      /\ max_entries \in Nat /\ max_path_bytes \in Nat \ {0}
  BY DEF PathsWithinLimits
<1>3. /\ D \subseteq Seq(Names) /\ IsFiniteSet(D)
      /\ Cardinality(D) <= max_entries + 1
      /\ root \in D
  BY DEF Sound, validate_persisted
<1>4. /\ M \subseteq Seq(Names) /\ IsFiniteSet(M)
      /\ \A p \in M : Len(p) <= Len(path)
      /\ \A p \in M \union {path} : p # root => parent(p) \in D \union M
  BY <1>2, <1>3, MissingCloses
<1>5. DOMAIN grown = D \union M /\ DOMAIN new = (D \union M) \union {path}
  BY DEF Grown, replace
<1>6. DOMAIN new \subseteq Seq(Names)
  BY <1>2, <1>3, <1>4, <1>5
<1>7. IsFiniteSet(DOMAIN new) /\ Cardinality(DOMAIN new) <= max_entries + 1
  <2>1. IsFiniteSet(D \union M) /\ Cardinality(D \union M) <= max_entries + 1
    <3>1. IsFiniteSet(D \union M)
      BY <1>3, <1>4, FS_Union
    <3>2. CASE Cardinality(M) = 0
      <4>1. M = {}
        BY <1>4, <3>2, FS_EmptySet
      <4> QED
        BY <4>1, <3>1, <1>3
    <3>3. CASE Cardinality(M) # 0
      <4>1. /\ Cardinality(M) \in Nat /\ Cardinality(D) \in Nat
            /\ Cardinality(D \intersect M) \in Nat
        <5>1. IsFiniteSet(D \intersect M)
          BY <1>3, FS_Intersection
        <5> QED
          BY <5>1, <1>3, <1>4, FS_CardinalityType
      <4>2. Cardinality(D) - 1 + Cardinality(M) <= max_entries
        BY <4>1, <3>3, <1>1 DEF ensure_capacity
      <4>3. Cardinality(D \union M)
                = Cardinality(D) + Cardinality(M) - Cardinality(D \intersect M)
        BY <1>3, <1>4, FS_Union
      <4> QED
        BY <3>1, <4>1, <4>2, <4>3, <1>2
    <3> QED
      BY <3>2, <3>3
  <2>2. CASE path \in D \union M
    <3>1. DOMAIN new = D \union M
      BY <1>5, <2>2
    <3> QED
      BY <3>1, <2>1
  <2>3. CASE path \notin D \union M
    <3>1. Cardinality(D \union M) - 1 + 1 <= max_entries
      BY <1>1, <1>5, <2>3 DEF ensure_capacity
    <3>2. /\ IsFiniteSet((D \union M) \union {path})
          /\ Cardinality((D \union M) \union {path}) = Cardinality(D \union M) + 1
      BY <2>1, <2>3, FS_AddElement
    <3>3. Cardinality(D \union M) \in Nat
      BY <2>1, FS_CardinalityType
    <3> QED
      BY <3>1, <3>2, <3>3, <1>2, <1>5
  <2> QED
    BY <2>2, <2>3
<1>8. /\ root \in DOMAIN new
      /\ new[root].kind = "Directory"
  <2>1. root \in D /\ ix[root].kind = "Directory"
    BY DEF Sound, validate_persisted
  <2> QED
    BY <2>1, <1>5 DEF replace, Grown
<1>9. ASSUME NEW p \in DOMAIN new
      PROVE  /\ new[p].path = p
             /\ encoded_len(p) <= max_path_bytes
             /\ p # root => parent(p) \in DOMAIN new
             /\ new[p].kind = "Hardlink" => from_tar_bytes(new[p].link).error = "none"
  <2>1. CASE p = path
    <3>1. new[p] = entry
      BY <2>1, <1>5 DEF replace
    <3> QED
      BY <2>1, <3>1, <1>2, <1>4, <1>5
  <2>2. CASE p \in D /\ p # path
    <3>1. new[p] = ix[p]
      BY <2>2, <1>5 DEF replace, Grown
    <3>2. /\ ix[p].path = p
          /\ encoded_len(p) <= max_path_bytes
          /\ p # root => parent(p) \in D
          /\ ix[p].kind = "Hardlink" => from_tar_bytes(ix[p].link).error = "none"
      BY <2>2 DEF Sound, validate_persisted
    <3> QED
      BY <3>1, <3>2, <1>5
  <2>3. CASE p \in M /\ p \notin D /\ p # path
    <3>1. new[p] = synthetic_directory(p)
      BY <2>3, <1>5 DEF replace, Grown
    <3>2. new[p].path = p /\ new[p].kind = "Directory"
      BY <3>1 DEF synthetic_directory, Entry
    <3>3. encoded_len(p) <= max_path_bytes
      <4>1. Len(p) \in Nat /\ Len(path) \in Nat /\ Len(p) <= Len(path) /\ path # root
        BY <2>3, <1>2, <1>4
      <4> QED
        BY <4>1, <1>2 DEF encoded_len
    <3> QED
      BY <3>2, <3>3, <2>3, <1>4, <1>5
  <2> QED
    BY <2>1, <2>2, <2>3, <1>5
<1> HIDE DEF new
<1> QED
  BY <1>1, <1>6, <1>7, <1>8, <1>9 DEF Sound, validate_persisted

(* Removing what is below a path leaves the index sound.                   *)
LEMMA RemoveKeepsSound ==
    ASSUME NEW ix, Sound(ix), NEW path \in Seq(Names), max_entries \in Int
    PROVE  Sound(remove_descendants(ix, path))
<1> DEFINE D == DOMAIN ix
           kept == {q \in D : ~is_descendant_of(q, path)}
           left == remove_descendants(ix, path)
<1>1. DOMAIN left = kept /\ \A p \in kept : left[p] = ix[p]
  BY DEF remove_descendants
<1>2. D \subseteq Seq(Names) /\ IsFiniteSet(D) /\ Cardinality(D) <= max_entries + 1
  BY DEF Sound, validate_persisted
<1>3. IsFiniteSet(kept) /\ Cardinality(kept) <= Cardinality(D)
  BY <1>2, FS_Subset
<1>4. Cardinality(kept) \in Int /\ Cardinality(D) \in Int
  BY <1>2, <1>3, FS_CardinalityType
<1>5. Cardinality(kept) <= max_entries + 1
  BY <1>2, <1>3, <1>4
<1>6. root \in kept
  <2>1. root \in D
    BY DEF Sound, validate_persisted
  <2>2. Len(root) = 0 /\ Len(path) \in Nat
    BY DEF root
  <2> QED
    BY <2>1, <2>2 DEF is_descendant_of
<1>7. ASSUME NEW p \in kept, p # root PROVE parent(p) \in kept
  <2>1. parent(p) \in D
    BY <1>7 DEF Sound, validate_persisted
  <2>2. ~is_descendant_of(parent(p), path)
    BY <1>2, <1>7, BelowParent
  <2> QED
    BY <2>1, <2>2
<1> QED
  BY <1>1, <1>2, <1>3, <1>5, <1>6, <1>7 DEF Sound, validate_persisted

(* A directory made up in the place of an entry leaves the index sound.    *)
LEMMA ReplaceKeepsSound ==
    ASSUME NEW ix, Sound(ix), NEW path \in DOMAIN ix
    PROVE  Sound(replace(ix, synthetic_directory(path)))
<1> DEFINE new == replace(ix, synthetic_directory(path))
<1>1. /\ synthetic_directory(path).path = path
      /\ synthetic_directory(path).kind = "Directory"
  BY DEF synthetic_directory, Entry
<1>2. DOMAIN new = DOMAIN ix
  BY <1>1 DEF replace
<1>3. \A p \in DOMAIN ix : new[p] = IF p = path THEN synthetic_directory(path) ELSE ix[p]
  BY <1>1 DEF replace
<1> SUFFICES Sound(new)
  OBVIOUS
<1> HIDE DEF new
<1> QED
  BY <1>1, <1>2, <1>3 DEF Sound, validate_persisted

(* A mount laid over a sound index leaves it sound.                        *)
LEMMA OverlayKeepsSound ==
    ASSUME NEW ix, Sound(ix), NEW path \in Paths, PathsWithinLimits,
           apply_mount_overlays(ix, path).error = "none"
    PROVE  Sound(apply_mount_overlays(ix, path).index)
<1> DEFINE hidden == remove_descendants(ix, path)
<1>1. path \in Seq(Names) /\ max_entries \in Int
  BY DEF PathsWithinLimits
<1>2. Sound(hidden)
  BY <1>1, RemoveKeepsSound
<1> HIDE DEF hidden
<1>3. CASE path \in DOMAIN hidden
  <2>1. apply_mount_overlays(ix, path).index = replace(hidden, synthetic_directory(path))
    BY <1>3 DEF apply_mount_overlays, hidden
  <2> QED
    BY <2>1, <1>2, <1>3, ReplaceKeepsSound
<1>4. CASE path \notin DOMAIN hidden
  <2> DEFINE entry == synthetic_directory(path)
  <2>1. path # root
    BY <1>2, <1>4 DEF Sound, validate_persisted
  <2>2. apply_mount_overlays(ix, path) = insert_with_parents(hidden, entry)
    BY <1>4, <2>1 DEF apply_mount_overlays, insert_synthetic_directory, hidden
  <2>3. entry.path = path /\ entry.kind = "Directory"
    BY DEF synthetic_directory, Entry
  <2> HIDE DEF entry
  <2>4. Sound(insert_with_parents(hidden, entry).index)
    BY <1>2, <2>1, <2>2, <2>3, InsertKeepsSound
  <2> QED
    BY <2>2, <2>4
<1> QED
  BY <1>3, <1>4

(* The index there is before anything is read is sound.                    *)
LEMMA EmptyIsSound ==
    ASSUME PathsWithinLimits
    PROVE  Sound(empty)
<1>1. DOMAIN empty = {root} /\ empty[root] = synthetic_directory(root)
  BY DEF empty
<1>2. IsFiniteSet({root}) /\ Cardinality({root}) = 1
  BY FS_Singleton
<1>3. synthetic_directory(root).path = root /\ synthetic_directory(root).kind = "Directory"
  BY DEF synthetic_directory, Entry
<1>4. /\ root \in Seq(Names) /\ encoded_len(root) <= max_path_bytes
      /\ max_entries \in Nat
  BY DEF PathsWithinLimits, encoded_len, root
<1> HIDE DEF empty
<1> QED
  BY <1>1, <1>2, <1>3, <1>4 DEF Sound, validate_persisted

-----------------------------------------------------------------------------
(* TarIndex::from_stream and apply_mount_overlays: at every moment the     *)
(* index is one validate_persisted accepts, so no snapshot that was        *)
(* captured is refused when it is read back.                               *)
THEOREM IndexStaysValid ==
    ASSUME PathsWithinLimits
    PROVE  Spec => []IndexValid
<1>1. Init => IndexInv
  BY EmptyIsSound DEF Init, IndexInv
<1>2. ASSUME IndexInv, [Next]_index
      PROVE  IndexInv'
  <2>1. ASSUME NEW path \in (Paths \intersect DOMAIN index') \ {root},
               index'[path] = Entry(path, index'[path].kind, index'[path].link),
               Inserts(index'[path])
        PROVE  IndexInv'
    <3> DEFINE entry == index'[path]
    <3>1. entry.path = path
      BY <2>1 DEF Entry
    <3> QED
      BY <1>2, <2>1, <3>1, InsertKeepsSound DEF Inserts, IndexInv
  <2>2. ASSUME NEW path \in Paths, Overlays(path)
        PROVE  IndexInv'
    BY <1>2, <2>2, OverlayKeepsSound DEF Overlays, IndexInv
  <2>3. CASE Discards
    BY <2>3, EmptyIsSound DEF Discards, IndexInv
  <2>4. CASE UNCHANGED index
    BY <1>2, <2>4 DEF IndexInv
  <2> QED
    BY <1>2, <2>1, <2>2, <2>3, <2>4 DEF Next
<1>3. IndexInv => IndexValid
  BY DEF IndexInv, Sound, IndexValid
<1> QED
  BY <1>1, <1>2, <1>3, PTL DEF Spec
=============================================================================
