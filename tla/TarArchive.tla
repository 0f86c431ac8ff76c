----------------------------- MODULE TarArchive -----------------------------
(***************************************************************************)
(* The layout of the archive Docker exports: records, each a header block, *)
(* a body and its padding, then two blocks of zeros and a tail.  Lengths   *)
(* are in units; TAR_BLOCK units are a block.                              *)
(*                                                                         *)
(* Extension records (PAX "x" and "g", GNU "L" and "K") speak of the entry *)
(* after them; "g" of all that follow.  A PAX record may say how long the  *)
(* entry's body is (says, NoSize if it does not), which its header then    *)
(* need not.                                                               *)
(***************************************************************************)
EXTENDS Integers, Sequences, SequencesExt

CONSTANT TAR_BLOCK

ExtensionFlags == {"x", "g", "L", "K"}

NoSize == -1

Record(flag, path, link, size) ==
    [flag |-> flag, path |-> path, link |-> link, size |-> size, says |-> NoSize,
     sound |-> TRUE]

IsEntry(record) == record.flag \notin ExtensionFlags

(* The extension records between the entry before entry i and itself.      *)
Group(records, i) ==
    {j \in 1..(i - 1) : \A k \in j..(i - 1) : ~IsEntry(records[k])}

Body(records, i) ==
    LET Saying(flag, among) == {j \in among : records[j].flag = flag /\ records[j].says # NoSize}
        own == Saying("x", Group(records, i))
        shared == Saying("g", 1..(i - 1)) IN
    CASE IsEntry(records[i]) /\ own # {} -> records[Max(own)].says
      [] IsEntry(records[i]) /\ own = {} /\ shared # {} -> records[Max(shared)].says
      [] OTHER -> records[i].size

RoundUp(n) == CHOOSE m \in n..(n + TAR_BLOCK - 1) : m % TAR_BLOCK = 0

Offset(records, i) ==
    FoldLeft(LAMBDA sum, j : sum + TAR_BLOCK + RoundUp(Body(records, j)), 0,
             [j \in 1..(i - 1) |-> j])

(* Where the headers are; the rest is bodies up to the end, zeros after it *)
(* unless there is junk in the second block of zeros or in the tail.       *)
Layout(records) ==
    [o \in {Offset(records, i) : i \in DOMAIN records} |->
        records[CHOOSE i \in DOMAIN records : Offset(records, i) = o]]

Capture(records, tail, mounts) ==
    LET end == Offset(records, Len(records) + 1) IN
    [records |-> records, layout |-> Layout(records), end |-> end,
     tail |-> tail, mounts |-> mounts,
     sent |-> end + 2 * TAR_BLOCK + tail, cut |-> FALSE, junk |-> "none"]
=============================================================================
