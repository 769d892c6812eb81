-------------------------------- MODULE Maps --------------------------------
(***************************************************************************)
(* A java.util.Map as a function from its current keys: put, remove, and   *)
(* the values it may hold.                                                 *)
(***************************************************************************)
Put(f, k, v) == [e \in DOMAIN f \cup {k} |-> IF e = k THEN v ELSE f[e]]
Without(f, k) == [e \in DOMAIN f \ {k} |-> f[e]]
IsMap(f, K, V) == DOMAIN f \subseteq K /\ f \in [DOMAIN f -> V]
=============================================================================
