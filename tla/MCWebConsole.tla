---------------------------- MODULE MCWebConsole ----------------------------
(***************************************************************************)
(* Constants for TLC: one user with a terminal page and another client.    *)
(***************************************************************************)
EXTENDS WebConsole

CONSTANTS s1, s2, user

MCUserOf == [s \in {s1, s2} |-> user]
MCMaxSends == [s \in {s1, s2} |-> IF s = s1 THEN 1 ELSE 2]
=============================================================================
