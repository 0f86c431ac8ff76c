----------------------------- MODULE HandleTable -----------------------------
(***************************************************************************)
(* The open-handle table of the FUSE adapter                               *)
(* (crates/tuxstack-vfs/src/handle.rs): a slab of open files whose ids     *)
(* carry the slot's generation, so that an id that was closed does not     *)
(* resolve to the file that later takes the slot.                          *)
(***************************************************************************)
EXTENDS Integers, FiniteSets

CONSTANTS
  MaxHandles,   \* max_handles
  Files,        \* what a handle stands for (the provider's handle)
  NoFile,       \* a vacant slot
  GenMod        \* 2^32: the slot generations are u32 and wrap

ASSUME HandleAssumption ==
  /\ MaxHandles \in Nat \ {0}
  /\ GenMod \in Nat \ {0}
  /\ NoFile \notin Files

VARIABLES
  handles,      \* handles[s]: the file open in slot s, or NoFile
  generations   \* generations[s]: how often slot s was vacated (mod GenMod)

handleVars == <<handles, generations>>

\* The slab extends only when every slot is taken, so max_handles slots are
\* enough; which vacant one it reuses is the slab's business.
Slots == 0..(MaxHandles - 1)

Generations == 0..(GenMod - 1)

\* pack(index, generation): the two halves of the u64.
HandleIds == Slots \X Generations

OpenSlots == {s \in Slots : handles[s] # NoFile}

HandlesInit ==
  /\ handles = [s \in Slots |-> NoFile]
  /\ generations = [s \in Slots |-> 0]

\* TooManyHandles is the error returned when there is no such slot.
Full == OpenSlots = Slots

\* Mutant: the slot may be taken.
InsertAnywhere(file, id) ==
  /\ id[1] \in Slots
  /\ id = <<id[1], generations[id[1]]>>
  /\ handles' = [handles EXCEPT ![id[1]] = file]
  /\ UNCHANGED generations

insert(file, id) ==
  /\ id[1] \in Slots
  /\ handles[id[1]] = NoFile
  /\ id = <<id[1], generations[id[1]]>>
  /\ handles' = [handles EXCEPT ![id[1]] = file]
  /\ UNCHANGED generations

\* The check get_mut and remove make before they touch a slot; BadHandle
\* otherwise.
Resolves(id) ==
  /\ generations[id[1]] = id[2]
  /\ handles[id[1]] # NoFile

get_mut(id) == handles[id[1]]

BumpGeneration(g) == (g + 1) % GenMod

remove(id) ==
  /\ Resolves(id)
  /\ handles' = [handles EXCEPT ![id[1]] = NoFile]
  /\ generations' = [generations EXCEPT ![id[1]] = BumpGeneration(@)]

HandlesTypeOK ==
  /\ handles \in [Slots -> Files \cup {NoFile}]
  /\ generations \in [Slots -> Generations]
=============================================================================
