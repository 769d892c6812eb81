---------------------------- MODULE MCLockTable ----------------------------
(* LockTable for TLC, with the search as it is written beside it.          *)
EXTENDS DeadlockSearch, TLC

CONSTANTS T1, T2, X1, X2, X3, U1, U2

MCThread == {T1, T2}
MCXid == {X1, X2, X3}
MCXidPair == {X1, X2}
MCUid == {U1, U2}
Symmetric == Permutations(MCThread) \cup Permutations(MCXid) \cup Permutations(MCUid)
=============================================================================
