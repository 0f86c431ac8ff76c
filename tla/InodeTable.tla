----------------------------- MODULE InodeTable -----------------------------
(***************************************************************************)
(* The inode table of the read-only FUSE adapter                           *)
(* (crates/tuxstack-vfs/src/inode.rs).  A node is known by its logical key *)
(* (daemon, resource, provider, path, generation) and, when the provider   *)
(* has an identity for it, by a hard-link key.  Keys are opaque values     *)
(* here: the table only compares them.                                     *)
(*                                                                         *)
(* HashMaps are total functions whose "absent" value is NoInode; by_inode  *)
(* is a function on the inodes allocated so far.  A record's lookup_count, *)
(* which inode_for and forget write and nothing reads, is left out.        *)
(***************************************************************************)
EXTENDS Integers, FiniteSets

CONSTANTS
  Keys,         \* VirtualNodeKey values
  RootKey,      \* VirtualNodeKey::root()
  Hardlinks,    \* HardlinkKey values
  NoHardlink,   \* Option::None for a hard-link key
  MaxInode      \* u64::MAX: the last value next_inode can take

ASSUME TableAssumption ==
  /\ RootKey \in Keys
  /\ NoHardlink \notin Hardlinks
  /\ MaxInode \in Nat /\ MaxInode >= 2

VARIABLES
  by_key,       \* by_key[k]: the inode key k names, or NoInode
  by_hardlink,  \* by_hardlink[h]: the inode hard-link key h names, or NoInode
  by_inode,     \* the records, kept forever
  next_inode    \* the next number to hand out

inodeVars == <<by_key, by_hardlink, by_inode, next_inode>>

NoInode == 0
ROOT_INODE == 1

InodeRecord ==
  [canonical_key : Keys,
   hardlink_key  : Hardlinks \cup {NoHardlink},
   aliases       : SUBSET Keys,
   deleted       : BOOLEAN]

Inodes == 1..(next_inode - 1)

NewRecord(key, h) ==
  [canonical_key |-> key, hardlink_key |-> h, aliases |-> {key},
   deleted |-> FALSE]

TableInit ==
  /\ by_key = [k \in Keys |-> IF k = RootKey THEN ROOT_INODE ELSE NoInode]
  /\ by_hardlink = [h \in Hardlinks |-> NoInode]
  /\ by_inode = [i \in 1..1 |-> NewRecord(RootKey, NoHardlink)]
  /\ next_inode = ROOT_INODE + 1

-----------------------------------------------------------------------------
(***************************************************************************)
(* inode_for: the three ways a (key, hardlink_key) pair gets its inode.    *)
(***************************************************************************)

\* The key is already in by_key.
KnownKey(key) ==
  /\ by_key[key] # NoInode
  /\ ~by_inode[by_key[key]].deleted
  /\ UNCHANGED inodeVars

\* Mutant: the hard-link index is not consulted.
NeverHardlinked(h) == h # h

\* A live inode with the same hard-link key becomes reachable by one more key.
LiveHardlink(h) ==
  /\ h # NoHardlink
  /\ by_hardlink[h] # NoInode
  /\ ~by_inode[by_hardlink[h]].deleted

\* Mutant: the record does not learn the new key.
AliasNotRecorded(key, h) ==
  /\ by_key[key] = NoInode
  /\ LiveHardlink(h)
  /\ by_key' = [by_key EXCEPT ![key] = by_hardlink[h]]
  /\ UNCHANGED <<by_hardlink, by_inode, next_inode>>

AliasOfHardlink(key, h) ==
  /\ by_key[key] = NoInode
  /\ LiveHardlink(h)
  /\ LET i == by_hardlink[h] IN
     /\ by_inode' = [by_inode EXCEPT ![i].aliases = @ \cup {key}]
     /\ by_key' = [by_key EXCEPT ![key] = i]
  /\ UNCHANGED <<by_hardlink, next_inode>>

\* Mutant: the number is not taken.
FreshInodeReused(key, h) ==
  /\ by_key[key] = NoInode
  /\ ~LiveHardlink(h)
  /\ next_inode < MaxInode
  /\ by_key' = [by_key EXCEPT ![key] = next_inode]
  /\ by_hardlink' = [x \in Hardlinks |->
                       IF x = h THEN next_inode ELSE by_hardlink[x]]
  /\ by_inode' = [i \in 1..next_inode |->
                    IF i = next_inode THEN NewRecord(key, h) ELSE by_inode[i]]
  /\ UNCHANGED next_inode

\* A number never used before; refused (an error, nothing changes) once
\* next_inode cannot be incremented.
FreshInode(key, h) ==
  /\ by_key[key] = NoInode
  /\ ~LiveHardlink(h)
  /\ next_inode < MaxInode
  /\ by_key' = [by_key EXCEPT ![key] = next_inode]
  /\ by_hardlink' = [x \in Hardlinks |->
                       IF x = h THEN next_inode ELSE by_hardlink[x]]
  /\ by_inode' = [i \in 1..next_inode |->
                    IF i = next_inode THEN NewRecord(key, h) ELSE by_inode[i]]
  /\ next_inode' = next_inode + 1

inode_for(key, h) ==
  \/ KnownKey(key)
  \/ AliasOfHardlink(key, h)
  \/ FreshInode(key, h)

\* The number inode_for returns when it succeeds.
inode_for_result(key, h) ==
  IF by_key[key] # NoInode THEN by_key[key]
  ELSE IF LiveHardlink(h) THEN by_hardlink[h] ELSE next_inode

-----------------------------------------------------------------------------
add_alias(i, alias) ==
  /\ i \in Inodes
  /\ ~by_inode[i].deleted
  /\ by_key[alias] = NoInode
  /\ by_inode' = [by_inode EXCEPT ![i].aliases = @ \cup {alias}]
  /\ by_key' = [by_key EXCEPT ![alias] = i]
  /\ UNCHANGED <<by_hardlink, next_inode>>

rename_alias(old, new) ==
  LET i == by_key[old] IN
  /\ by_key[new] = NoInode
  /\ i # NoInode
  /\ by_inode' = [by_inode EXCEPT
                    ![i].aliases = (@ \ {old}) \cup {new},
                    ![i].canonical_key = IF @ = old THEN new ELSE @]
  /\ by_key' = [by_key EXCEPT ![old] = NoInode, ![new] = i]
  /\ UNCHANGED <<by_hardlink, next_inode>>

\* Deleting twice is allowed: the second call finds no aliases to drain.
delete(i) ==
  /\ i \in Inodes \ {ROOT_INODE}
  /\ by_inode' = [by_inode EXCEPT ![i].deleted = TRUE, ![i].aliases = {}]
  /\ by_key' = [k \in Keys |->
                  IF k \in by_inode[i].aliases THEN NoInode ELSE by_key[k]]
  /\ by_hardlink' = [h \in Hardlinks |->
                       IF h = by_inode[i].hardlink_key THEN NoInode
                       ELSE by_hardlink[h]]
  /\ UNCHANGED next_inode

TableNext ==
  \/ \E key \in Keys, h \in Hardlinks \cup {NoHardlink} : inode_for(key, h)
  \/ \E i \in Inodes, alias \in Keys : add_alias(i, alias)
  \/ \E old, new \in Keys : rename_alias(old, new)
  \/ \E i \in Inodes : delete(i)

TableSpec == TableInit /\ [][TableNext]_inodeVars

-----------------------------------------------------------------------------
(***************************************************************************)
(* Properties.                                                             *)
(***************************************************************************)

\* Type invariant: the records are exactly those of the numbers handed out
\* so far, and both indexes point into them.
TableTypeOK ==
  /\ next_inode \in 2..MaxInode
  /\ by_key \in [Keys -> 0..(next_inode - 1)]
  /\ by_hardlink \in [Hardlinks -> 0..(next_inode - 1)]
  /\ by_inode \in [Inodes -> InodeRecord]

\* by_key and the alias sets of the records are two views of one relation,
\* whatever sequence of lookups, renames and deletions ran: no key leads to
\* a record that does not list it, and no record lists a key that leads
\* elsewhere (inode_for, add_alias, rename_alias and delete each write both).
KeysMatchAliases ==
  \A k \in Keys, i \in Inodes : by_key[k] = i <=> k \in by_inode[i].aliases

\* A deleted record keeps no alias, so no key can lead to it: the
\* "record.deleted" error branch of inode_for is never taken.
DeletedUnreachable ==
  \A i \in Inodes : by_inode[i].deleted => by_inode[i].aliases = {}

\* The debug_assert of inode_for (line 102) cannot fail, and the hard-link
\* index never leads to a deleted record (lines 92-105).
HardlinkIndexSound ==
  \A h \in Hardlinks :
    by_hardlink[h] # NoInode =>
      /\ by_inode[by_hardlink[h]].hardlink_key = h
      /\ ~by_inode[by_hardlink[h]].deleted

\* Two live inodes never stand for the same hard-linked node, which is what
\* the test alias_and_hardlink_share_inode_while_generation_does_not expects.
HardlinksShareInode ==
  \A i, j \in Inodes :
    /\ by_inode[i].hardlink_key # NoHardlink
    /\ by_inode[i].hardlink_key = by_inode[j].hardlink_key
    /\ ~by_inode[i].deleted
    /\ ~by_inode[j].deleted
    => i = j

\* Inode numbers are never recycled (the comment on delete): a record is
\* never dropped, a deleted one stays deleted and nameless, its hard-link
\* key never changes, and a key that starts to lead somewhere leads to a
\* number never used before or to an inode that is live.
NeverRecycled ==
  /\ \A i \in Inodes :
       /\ i \in Inodes'
       /\ by_inode'[i].hardlink_key = by_inode[i].hardlink_key
       /\ by_inode[i].deleted =>
            by_inode'[i].deleted /\ \A k \in Keys : by_key'[k] # i
  /\ \A k \in Keys :
       by_key'[k] \notin {NoInode, by_key[k]} =>
         \/ by_key'[k] = next_inode
         \/ by_key'[k] \in Inodes /\ ~by_inode[by_key'[k]].deleted

NumbersNeverRecycled == [][NeverRecycled]_inodeVars

\* The inductive invariant behind the theorems of InodeTableProofs.
TableInv ==
  /\ TableTypeOK
  /\ KeysMatchAliases
  /\ DeletedUnreachable
  /\ HardlinkIndexSound
=============================================================================
