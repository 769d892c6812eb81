-------------------------- MODULE MCVersionManager --------------------------
(* VersionManager for TLC: the socket server, one thread to a connection.  *)
EXTENDS VersionManager

CONSTANTS S1, S2, T1, T2, U1, U2

MCSession == {S1, S2}
MCThread == {T1, T2}
MCCarrier == [s \in MCSession |-> IF s = S1 THEN {T1} ELSE {T2}]
FirstLate == {1}
AnyLate == Xid
First == {S1}
OneRow == {U1}
TwoRows == {U1, U2}
AllLevels == [s \in MCSession |-> {"RU", "RC", "RR", "SER"}]
OneEach == [s \in MCSession |-> IF s = S1 THEN {"RR"} ELSE {"SER"}]
=============================================================================
