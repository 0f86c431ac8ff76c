-------------------------- MODULE InodeTableProofs --------------------------
(***************************************************************************)
(* The inode table keeps its invariant for every set of keys, every set of *)
(* hard-link keys and every order of calls, and never recycles a number.   *)
(***************************************************************************)
EXTENDS InodeTable, TLAPS

\* A new table satisfies the invariant (InodeTable::new).
LEMMA InitTableInv == TableInit => TableInv
<1> SUFFICES ASSUME TableInit PROVE TableInv
  OBVIOUS
<1> USE TableAssumption DEF TableInit, NoInode, ROOT_INODE, Inodes
<1>1. TableTypeOK
  BY DEF TableTypeOK, NewRecord, InodeRecord
<1>2. KeysMatchAliases
  BY DEF KeysMatchAliases, NewRecord
<1>3. DeletedUnreachable
  BY DEF DeletedUnreachable, NewRecord
<1>4. HardlinkIndexSound
  BY DEF HardlinkIndexSound
<1>5. QED
  BY <1>1, <1>2, <1>3, <1>4 DEF TableInv

\* inode_for on a known key changes nothing.
LEMMA KnownKeyStep ==
  ASSUME TableInv, NEW key \in Keys, KnownKey(key)
  PROVE  TableInv' /\ NeverRecycled
<1>1. UNCHANGED inodeVars
  BY DEF KnownKey
<1>2. TableInv'
  BY <1>1 DEF TableInv, TableTypeOK, KeysMatchAliases, DeletedUnreachable,
              HardlinkIndexSound, Inodes, inodeVars, NoInode
<1>3. NeverRecycled
  BY <1>1 DEF NeverRecycled, TableInv, TableTypeOK, KeysMatchAliases,
              DeletedUnreachable, Inodes, inodeVars, NoInode
<1>4. QED
  BY <1>2, <1>3

\* inode_for on a new name of a hard-linked node that is live.
LEMMA AliasOfHardlinkStep ==
  ASSUME TableInv, NEW key \in Keys, NEW h \in Hardlinks \cup {NoHardlink},
         AliasOfHardlink(key, h)
  PROVE  TableInv' /\ NeverRecycled
<1> DEFINE i == by_hardlink[h]
<1> USE TableAssumption DEF Inodes, NoInode
<1>1. /\ h \in Hardlinks
      /\ i \in Inodes
      /\ ~by_inode[i].deleted
      /\ by_key[key] = NoInode
      /\ by_inode' = [by_inode EXCEPT ![i].aliases = @ \cup {key}]
      /\ by_key' = [by_key EXCEPT ![key] = i]
      /\ UNCHANGED <<by_hardlink, next_inode>>
  BY DEF AliasOfHardlink, LiveHardlink, TableInv, TableTypeOK
<1>2. \A j \in Inodes : j # i => by_inode'[j] = by_inode[j]
  BY <1>1 DEF TableInv, TableTypeOK
<1>3. /\ by_inode'[i].aliases = by_inode[i].aliases \cup {key}
      /\ by_inode'[i].deleted = by_inode[i].deleted
      /\ by_inode'[i].hardlink_key = by_inode[i].hardlink_key
  BY <1>1 DEF TableInv, TableTypeOK, InodeRecord
<1>4. \A k \in Keys : by_key'[k] = IF k = key THEN i ELSE by_key[k]
  BY <1>1 DEF TableInv, TableTypeOK
<1>5. TableTypeOK'
  <2>1. [by_inode[i] EXCEPT !.aliases = @ \cup {key}] \in InodeRecord
    <3>1. by_inode[i] \in InodeRecord
      BY <1>1 DEF TableInv, TableTypeOK
    <3>2. QED
      BY <3>1 DEF InodeRecord
  <2>2. by_inode' \in [Inodes -> InodeRecord]
    BY <1>1, <2>1 DEF TableInv, TableTypeOK
  <2>3. QED
    BY <1>1, <2>2 DEF TableInv, TableTypeOK
<1>6. KeysMatchAliases'
  BY <1>1, <1>2, <1>3, <1>4 DEF TableInv, KeysMatchAliases, TableTypeOK
<1>7. DeletedUnreachable'
  BY <1>1, <1>2, <1>3 DEF TableInv, DeletedUnreachable
<1>8. HardlinkIndexSound'
  BY <1>1, <1>2, <1>3 DEF TableInv, HardlinkIndexSound, TableTypeOK
<1>9. NeverRecycled
  <2>1. ASSUME NEW j \in Inodes
        PROVE  /\ j \in Inodes'
               /\ by_inode'[j].hardlink_key = by_inode[j].hardlink_key
               /\ by_inode[j].deleted =>
                    by_inode'[j].deleted /\ \A k \in Keys : by_key'[k] # j
    BY <1>1, <1>2, <1>3, <1>4 DEF TableInv, KeysMatchAliases, DeletedUnreachable
  <2>2. ASSUME NEW k \in Keys, by_key'[k] \notin {NoInode, by_key[k]}
        PROVE  by_key'[k] \in Inodes /\ ~by_inode[by_key'[k]].deleted
    BY <1>1, <1>4, <2>2
  <2>3. QED
    BY <2>1, <2>2 DEF NeverRecycled
<1>10. QED
  BY <1>5, <1>6, <1>7, <1>8, <1>9 DEF TableInv

\* inode_for on a node never seen: the number is next_inode.
LEMMA FreshInodeStep ==
  ASSUME TableInv, NEW key \in Keys, NEW h \in Hardlinks \cup {NoHardlink},
         FreshInode(key, h)
  PROVE  TableInv' /\ NeverRecycled
<1> USE TableAssumption DEF Inodes, NoInode
<1>1. /\ by_key[key] = NoInode
      /\ next_inode < MaxInode
      /\ next_inode' = next_inode + 1
      /\ by_key' = [by_key EXCEPT ![key] = next_inode]
      /\ by_hardlink' = [x \in Hardlinks |-> IF x = h THEN next_inode ELSE by_hardlink[x]]
      /\ by_inode' = [i \in 1..next_inode |->
                        IF i = next_inode THEN NewRecord(key, h) ELSE by_inode[i]]
  BY DEF FreshInode
<1>2. /\ next_inode \in Nat
      /\ Inodes' = 1..next_inode
      /\ \A i : i \in Inodes' <=> i \in Inodes \/ i = next_inode
  <2>1. next_inode \in Nat /\ next_inode >= 2
    BY DEF TableInv, TableTypeOK
  <2>2. QED
    BY <1>1, <2>1
<1>3. \A i \in Inodes : i # next_inode /\ i \in Inodes' /\ by_inode'[i] = by_inode[i]
  BY <1>1, <1>2
<1>4. /\ by_inode'[next_inode].aliases = {key}
      /\ by_inode'[next_inode].deleted = FALSE
      /\ by_inode'[next_inode].hardlink_key = h
  BY <1>1, <1>2 DEF NewRecord, TableInv, TableTypeOK
<1>5. \A k \in Keys : by_key'[k] = IF k = key THEN next_inode ELSE by_key[k]
  BY <1>1 DEF TableInv, TableTypeOK
<1>6. TableTypeOK'
  <2>1. NewRecord(key, h) \in InodeRecord
    BY DEF NewRecord, InodeRecord
  <2>2. by_inode' \in [Inodes' -> InodeRecord]
    BY <1>1, <1>2, <2>1 DEF TableInv, TableTypeOK
  <2>3. by_key' \in [Keys -> 0..(next_inode' - 1)]
    BY <1>1, <1>2 DEF TableInv, TableTypeOK
  <2>4. by_hardlink' \in [Hardlinks -> 0..(next_inode' - 1)]
    BY <1>1, <1>2 DEF TableInv, TableTypeOK
  <2>5. next_inode' \in 2..MaxInode
    BY <1>1, <1>2 DEF TableInv, TableTypeOK
  <2>6. QED
    BY <2>2, <2>3, <2>4, <2>5 DEF TableTypeOK
<1>7. KeysMatchAliases'
  <2> SUFFICES ASSUME NEW k \in Keys, NEW i \in Inodes'
               PROVE  by_key'[k] = i <=> k \in by_inode'[i].aliases
    BY DEF KeysMatchAliases
  <2>1. CASE i = next_inode
    <3>1. by_key[k] # next_inode
      BY <1>2 DEF TableInv, TableTypeOK
    <3>2. QED
      BY <2>1, <3>1, <1>4, <1>5
  <2>2. CASE i # next_inode
    <3>1. i \in Inodes
      BY <2>2, <1>2
    <3>2. QED
      BY <2>2, <3>1, <1>1, <1>3, <1>5 DEF TableInv, KeysMatchAliases, TableTypeOK
  <2>3. QED
    BY <2>1, <2>2
<1>8. DeletedUnreachable'
  <2> SUFFICES ASSUME NEW i \in Inodes', by_inode'[i].deleted
               PROVE  by_inode'[i].aliases = {}
    BY DEF DeletedUnreachable
  <2>1. i # next_inode /\ i \in Inodes
    BY <1>2, <1>4
  <2>2. QED
    BY <2>1, <1>3 DEF TableInv, DeletedUnreachable
<1>9. HardlinkIndexSound'
  <2> SUFFICES ASSUME NEW x \in Hardlinks, by_hardlink'[x] # NoInode
               PROVE  /\ by_inode'[by_hardlink'[x]].hardlink_key = x
                      /\ ~by_inode'[by_hardlink'[x]].deleted
    BY DEF HardlinkIndexSound
  <2>1. CASE x = h
    BY <2>1, <1>1, <1>4
  <2>2. CASE x # h
    <3>1. by_hardlink'[x] = by_hardlink[x] /\ by_hardlink[x] \in Inodes
      BY <2>2, <1>1 DEF TableInv, TableTypeOK
    <3>2. QED
      BY <3>1, <1>3 DEF TableInv, HardlinkIndexSound
  <2>3. QED
    BY <2>1, <2>2
<1>10. NeverRecycled
  <2>1. ASSUME NEW j \in Inodes
        PROVE  /\ j \in Inodes'
               /\ by_inode'[j].hardlink_key = by_inode[j].hardlink_key
               /\ by_inode[j].deleted =>
                    by_inode'[j].deleted /\ \A k \in Keys : by_key'[k] # j
    BY <1>3, <1>5 DEF TableInv, KeysMatchAliases, DeletedUnreachable
  <2>2. ASSUME NEW k \in Keys, by_key'[k] \notin {NoInode, by_key[k]}
        PROVE  by_key'[k] = next_inode
    BY <1>5, <2>2
  <2>3. QED
    BY <2>1, <2>2 DEF NeverRecycled
<1>11. QED
  BY <1>6, <1>7, <1>8, <1>9, <1>10 DEF TableInv

\* add_alias: one more name for a live inode.
LEMMA AddAliasStep ==
  ASSUME TableInv, NEW i \in Inodes, NEW alias \in Keys, add_alias(i, alias)
  PROVE  TableInv' /\ NeverRecycled
<1> USE TableAssumption DEF Inodes, NoInode
<1>1. /\ ~by_inode[i].deleted
      /\ by_key[alias] = NoInode
      /\ by_inode' = [by_inode EXCEPT ![i].aliases = @ \cup {alias}]
      /\ by_key' = [by_key EXCEPT ![alias] = i]
      /\ UNCHANGED <<by_hardlink, next_inode>>
  BY DEF add_alias
<1>2. by_inode[i] \in InodeRecord
  BY DEF TableInv, TableTypeOK
<1>3. /\ \A j \in Inodes : j # i => by_inode'[j] = by_inode[j]
      /\ by_inode'[i].aliases = by_inode[i].aliases \cup {alias}
      /\ by_inode'[i].deleted = by_inode[i].deleted
      /\ by_inode'[i].hardlink_key = by_inode[i].hardlink_key
  BY <1>1, <1>2 DEF TableInv, TableTypeOK, InodeRecord
<1>4. \A k \in Keys : by_key'[k] = IF k = alias THEN i ELSE by_key[k]
  BY <1>1 DEF TableInv, TableTypeOK
<1>5. TableTypeOK'
  <2>1. [by_inode[i] EXCEPT !.aliases = @ \cup {alias}] \in InodeRecord
    BY <1>2 DEF InodeRecord
  <2>2. by_inode' \in [Inodes -> InodeRecord]
    BY <1>1, <2>1 DEF TableInv, TableTypeOK
  <2>3. QED
    BY <1>1, <2>2 DEF TableInv, TableTypeOK
<1>6. KeysMatchAliases'
  BY <1>1, <1>3, <1>4 DEF TableInv, KeysMatchAliases, TableTypeOK
<1>7. DeletedUnreachable'
  BY <1>1, <1>3 DEF TableInv, DeletedUnreachable
<1>8. HardlinkIndexSound'
  BY <1>1, <1>3 DEF TableInv, HardlinkIndexSound, TableTypeOK
<1>9. NeverRecycled
  BY <1>1, <1>3, <1>4 DEF NeverRecycled, TableInv, KeysMatchAliases, DeletedUnreachable
<1>10. QED
  BY <1>5, <1>6, <1>7, <1>8, <1>9 DEF TableInv

\* rename_alias: a name moves, its inode stays.
LEMMA RenameAliasStep ==
  ASSUME TableInv, NEW old \in Keys, NEW new \in Keys, rename_alias(old, new)
  PROVE  TableInv' /\ NeverRecycled
<1> DEFINE i == by_key[old]
<1> USE TableAssumption DEF Inodes, NoInode
<1>1. /\ by_key[new] = NoInode
      /\ i \in Inodes
      /\ old # new
      /\ by_inode' = [by_inode EXCEPT
                        ![i].aliases = (@ \ {old}) \cup {new},
                        ![i].canonical_key = IF @ = old THEN new ELSE @]
      /\ by_key' = [by_key EXCEPT ![old] = NoInode, ![new] = i]
      /\ UNCHANGED <<by_hardlink, next_inode>>
  BY DEF rename_alias, TableInv, TableTypeOK
<1>2. by_inode[i] \in InodeRecord /\ old \in by_inode[i].aliases
  BY <1>1 DEF TableInv, TableTypeOK, KeysMatchAliases
<1>3. /\ \A j \in Inodes : j # i => by_inode'[j] = by_inode[j]
      /\ by_inode'[i].aliases = (by_inode[i].aliases \ {old}) \cup {new}
      /\ by_inode'[i].deleted = by_inode[i].deleted
      /\ by_inode'[i].hardlink_key = by_inode[i].hardlink_key
      /\ by_inode'[i].canonical_key \in Keys
      /\ by_inode'[i] \in InodeRecord
  BY <1>1, <1>2 DEF TableInv, TableTypeOK, InodeRecord
<1>4. \A k \in Keys : by_key'[k] = IF k = new THEN i
                                   ELSE IF k = old THEN NoInode ELSE by_key[k]
  BY <1>1 DEF TableInv, TableTypeOK
<1>5. TableTypeOK'
  <2>1. by_inode' \in [Inodes -> InodeRecord]
    BY <1>1, <1>3 DEF TableInv, TableTypeOK
  <2>2. QED
    BY <1>1, <2>1 DEF TableInv, TableTypeOK
<1>6. KeysMatchAliases'
  BY <1>1, <1>3, <1>4 DEF TableInv, KeysMatchAliases, TableTypeOK
<1>7. DeletedUnreachable'
  BY <1>1, <1>2, <1>3 DEF TableInv, DeletedUnreachable
<1>8. HardlinkIndexSound'
  BY <1>1, <1>3 DEF TableInv, HardlinkIndexSound, TableTypeOK
<1>9. NeverRecycled
  <2>1. ASSUME NEW j \in Inodes
        PROVE  /\ j \in Inodes'
               /\ by_inode'[j].hardlink_key = by_inode[j].hardlink_key
               /\ by_inode[j].deleted =>
                    by_inode'[j].deleted /\ \A k \in Keys : by_key'[k] # j
    <3>1. j \in Inodes' /\ by_inode'[j].hardlink_key = by_inode[j].hardlink_key
      BY <1>1, <1>2, <1>3, <1>4
    <3>2. ASSUME by_inode[j].deleted
          PROVE  by_inode'[j].deleted /\ \A k \in Keys : by_key[k] # j
      BY <3>2, <1>1, <1>2, <1>3, <1>4 DEF TableInv, KeysMatchAliases, DeletedUnreachable
    <3>3. ASSUME by_inode[j].deleted, NEW k \in Keys
          PROVE  by_key'[k] # j
      <4>1. by_key[k] # j /\ i # j /\ NoInode # j
        BY <3>2, <3>3
      <4>2. QED
        BY <4>1, <1>4
    <3>4. QED
      BY <3>1, <3>2, <3>3
  <2>2. ASSUME NEW k \in Keys, by_key'[k] \notin {NoInode, by_key[k]}
        PROVE  by_key'[k] \in Inodes /\ ~by_inode[by_key'[k]].deleted
    <3>1. by_key'[k] = i
      BY <2>2, <1>4
    <3>2. ~by_inode[i].deleted
      BY <1>1, <1>2 DEF TableInv, DeletedUnreachable
    <3>3. QED
      BY <3>1, <3>2, <1>1
  <2>3. QED
    BY <2>1, <2>2 DEF NeverRecycled
<1>10. QED
  BY <1>5, <1>6, <1>7, <1>8, <1>9 DEF TableInv

\* delete: the record stays as a tombstone without names.
LEMMA DeleteStep ==
  ASSUME TableInv, NEW i \in Inodes, delete(i)
  PROVE  TableInv' /\ NeverRecycled
<1> USE TableAssumption DEF Inodes, NoInode
<1>1. /\ by_inode' = [by_inode EXCEPT ![i].deleted = TRUE, ![i].aliases = {}]
      /\ by_key' = [k \in Keys |->
                      IF k \in by_inode[i].aliases THEN NoInode ELSE by_key[k]]
      /\ by_hardlink' = [h \in Hardlinks |->
                           IF h = by_inode[i].hardlink_key THEN NoInode
                           ELSE by_hardlink[h]]
      /\ next_inode' = next_inode
  BY DEF delete
<1>2. by_inode[i] \in InodeRecord
  BY DEF TableInv, TableTypeOK
<1>3. /\ \A j \in Inodes : j # i => by_inode'[j] = by_inode[j]
      /\ by_inode'[i].aliases = {}
      /\ by_inode'[i].deleted = TRUE
      /\ by_inode'[i].hardlink_key = by_inode[i].hardlink_key
      /\ by_inode'[i] \in InodeRecord
  BY <1>1, <1>2 DEF TableInv, TableTypeOK, InodeRecord
<1>4. TableTypeOK'
  <2>1. by_inode' \in [Inodes -> InodeRecord]
    BY <1>1, <1>3 DEF TableInv, TableTypeOK
  <2>2. QED
    BY <1>1, <2>1 DEF TableInv, TableTypeOK
<1>5. KeysMatchAliases'
  BY <1>1, <1>3 DEF TableInv, KeysMatchAliases, TableTypeOK
<1>6. DeletedUnreachable'
  BY <1>1, <1>3 DEF TableInv, DeletedUnreachable
<1>7. HardlinkIndexSound'
  <2> SUFFICES ASSUME NEW h \in Hardlinks, by_hardlink'[h] # NoInode
               PROVE  /\ by_inode'[by_hardlink'[h]].hardlink_key = h
                      /\ ~by_inode'[by_hardlink'[h]].deleted
    BY DEF HardlinkIndexSound
  <2>1. h # by_inode[i].hardlink_key /\ by_hardlink'[h] = by_hardlink[h]
    BY <1>1
  <2>2. by_hardlink[h] \in Inodes /\ by_hardlink[h] # i
    BY <2>1 DEF TableInv, TableTypeOK, HardlinkIndexSound
  <2>3. QED
    BY <2>1, <2>2, <1>3 DEF TableInv, HardlinkIndexSound
<1>8. NeverRecycled
  <2>1. ASSUME NEW j \in Inodes
        PROVE  /\ j \in Inodes'
               /\ by_inode'[j].hardlink_key = by_inode[j].hardlink_key
               /\ by_inode[j].deleted =>
                    by_inode'[j].deleted /\ \A k \in Keys : by_key'[k] # j
    <3>1. j \in Inodes' /\ by_inode'[j].hardlink_key = by_inode[j].hardlink_key
      BY <1>1, <1>3
    <3>2. ASSUME by_inode[j].deleted
          PROVE  by_inode'[j].deleted /\ \A k \in Keys : by_key[k] # j
      BY <3>2, <1>1, <1>3 DEF TableInv, KeysMatchAliases, DeletedUnreachable
    <3>3. ASSUME by_inode[j].deleted, NEW k \in Keys
          PROVE  by_key'[k] # j
      BY <3>2, <3>3, <1>1, <1>3 DEF TableInv, DeletedUnreachable
    <3>4. QED
      BY <3>1, <3>2, <3>3
  <2>2. ASSUME NEW k \in Keys, by_key'[k] \notin {NoInode, by_key[k]}
        PROVE  FALSE
    BY <2>2, <1>1, <1>3 DEF TableInv, DeletedUnreachable
  <2>3. QED
    BY <2>1, <2>2 DEF NeverRecycled
<1>9. QED
  BY <1>4, <1>5, <1>6, <1>7, <1>8 DEF TableInv

\* Every call on the table, whatever its outcome.
LEMMA TableStep == TableInv /\ TableNext => TableInv' /\ NeverRecycled
<1> SUFFICES ASSUME TableInv, TableNext PROVE TableInv' /\ NeverRecycled
  OBVIOUS
<1>1. ASSUME NEW key \in Keys, NEW h \in Hardlinks \cup {NoHardlink}, inode_for(key, h)
      PROVE  TableInv' /\ NeverRecycled
  BY <1>1, KnownKeyStep, AliasOfHardlinkStep, FreshInodeStep DEF inode_for
<1>2. ASSUME NEW i \in Inodes, NEW alias \in Keys, add_alias(i, alias)
      PROVE  TableInv' /\ NeverRecycled
  BY <1>2, AddAliasStep
<1>3. ASSUME NEW old \in Keys, NEW new \in Keys, rename_alias(old, new)
      PROVE  TableInv' /\ NeverRecycled
  BY <1>3, RenameAliasStep
<1>4. ASSUME NEW i \in Inodes, delete(i)
      PROVE  TableInv' /\ NeverRecycled
  BY <1>4, DeleteStep
<1>5. QED
  BY <1>1, <1>2, <1>3, <1>4 DEF TableNext

\* The two indexes and the records agree in every reachable state: a key
\* leads to the record that lists it, the hard-link index to a live record
\* with that key (so the debug_assert of inode_for holds), and no key leads
\* to a tombstone.
THEOREM TableInvariant == TableSpec => []TableInv
<1>1. TableInv /\ UNCHANGED inodeVars => TableInv'
  BY DEF TableInv, TableTypeOK, KeysMatchAliases, DeletedUnreachable,
         HardlinkIndexSound, Inodes, inodeVars, NoInode
<1>2. QED
  BY InitTableInv, TableStep, <1>1, PTL DEF TableSpec

\* "Inodes are never recycled during a daemon lifetime" (the comment on
\* InodeTable::delete), for every sequence of calls.
THEOREM NoRecycling == TableSpec => NumbersNeverRecycled
<1>1. TableInv /\ [TableNext]_inodeVars => [NeverRecycled]_inodeVars
  BY TableStep
<1>2. QED
  BY TableInvariant, <1>1, PTL DEF TableSpec, NumbersNeverRecycled
=============================================================================
