----------------------------- MODULE Visibility -----------------------------
(***************************************************************************)
(* backend/vm/Visibility.java: which version of a row a transaction sees,  *)
(* and when it may not overwrite one.  status is the transaction table of  *)
(* the XID file, t the transaction [xid, level, snapshot], e the entry     *)
(* [xmin, xmax]; xmax = SuperXid = 0 means not deleted.                    *)
(***************************************************************************)
EXTENDS Naturals

SuperXid == 0

(* TransactionManagerImpl.isCommitted: the super transaction always is.    *)
IsCommitted(status, x) == IF x = SuperXid THEN TRUE ELSE status[x] = "committed"

IsInSnapshot(t, x) == x # SuperXid /\ x \in t.snapshot

ReadUncommitted(e) == e.xmax = 0

ReadCommitted(status, t, e) ==
  \/ e.xmin = t.xid /\ e.xmax = 0
  \/ /\ IsCommitted(status, e.xmin)
     /\ \/ e.xmax = 0
        \/ e.xmax # t.xid /\ ~IsCommitted(status, e.xmax)

(* A mutant of Unsettled that looks at the age alone.                      *)
UnsettledByAge(t, x) == x > t.xid

(* x is outside the snapshot of t: it began later or was running then.     *)
Unsettled(t, x) == x > t.xid \/ IsInSnapshot(t, x)

RepeatableRead(status, t, e) ==
  \/ e.xmin = t.xid /\ e.xmax = 0
  \/ /\ IsCommitted(status, e.xmin) /\ e.xmin < t.xid /\ ~IsInSnapshot(t, e.xmin)
     /\ \/ e.xmax = 0
        \/ /\ e.xmax # t.xid
           /\ ~IsCommitted(status, e.xmax) \/ Unsettled(t, e.xmax)

IsVisible(status, t, e) ==
  CASE t.level = "RU" -> ReadUncommitted(e)
    [] t.level = "RC" -> ReadCommitted(status, t, e)
    [] t.level \in {"RR", "SER"} -> RepeatableRead(status, t, e)

IsVersionSkip(status, t, e) ==
  /\ t.level \in {"RR", "SER"}
  /\ IsCommitted(status, e.xmax)
  /\ Unsettled(t, e.xmax)
=============================================================================
