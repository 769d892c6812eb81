----------------------------- MODULE MCBPlusTree -----------------------------
(***************************************************************************)
(* Rows are numbers from 1, searches from 100.  The rows of a batch are    *)
(* inserted at once when those of all earlier batches are in the tree.     *)
(*                                                                         *)
(* The first three leave a root that is a leaf one key short of a split.   *)
(* The next three, two of which share a key, may all begin at it and split *)
(* it twice, and then the second writes a root made of the old one over    *)
(* the root of the first.  The last three split the first leaf, the last   *)
(* one and with them the root, while a search is going on.                 *)
(***************************************************************************)
EXTENDS BPlusTree

MCKeys == <<10, 20, 30, 25, 15, 15, 27, 28, 12, 13>>
MCBatches == <<{1}, {2}, {3}, {4, 5, 6}, {7}, {8, 9, 10}>>

MCRow == DOMAIN MCKeys
MCKeyOf(r) == MCKeys[r]
MCBatchOf(c) == IF c \in MCRow THEN CHOOSE b \in DOMAIN MCBatches : c \in MCBatches[b] ELSE 5
MCBefore(c) == UNION {MCBatches[b] : b \in 1 .. MCBatchOf(c) - 1}
MCBounds == {<<15, 99>>, <<20, 35>>}
=============================================================================
