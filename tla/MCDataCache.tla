----------------------------- MODULE MCDataCache -----------------------------
(***************************************************************************)
(* Constants for TLC: two readers and an insert over three items on two    *)
(* pages with room for one of them.                                        *)
(***************************************************************************)
EXTENDS DataCache, TLC

CONSTANTS r1, r2, n1, i1, i2, i3, p1, p2, v1, v2, io1, io2, po1, po2

MCPageOf(i) == IF i = i3 THEN p2 ELSE p1

Symmetric == Permutations(Reader) \cup Permutations(Value) \cup Permutations(ItemObj)
             \cup Permutations(PageObj) \cup Permutations({i1, i2})
=============================================================================
