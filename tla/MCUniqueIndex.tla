---------------------------- MODULE MCUniqueIndex ----------------------------
(***************************************************************************)
(* Constants for TLC: transactions and values are interchangeable.         *)
(***************************************************************************)
EXTENDS UniqueIndex, TLC

Symmetric == Permutations(Xid) \cup Permutations(Val)
=============================================================================
