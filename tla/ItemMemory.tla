------------------------------ MODULE ItemMemory ------------------------------
(***************************************************************************)
(* What the data manager promises to those who use data items: one value   *)
(* for each item, seen and changed by everybody who holds the item, and by *)
(* nothing else.  Caches, pages and write-backs do not show.  All of this  *)
(* until close is called: from then on nothing is promised.                *)
(***************************************************************************)
EXTENDS Maps

CONSTANTS User, Item, Value, Absent

VARIABLES
  val,   \* item -> its value, Absent before it is inserted
  seen,  \* user -> the item it holds, with the value it sees there
  closed \* close was called

Init == val \in [Item -> Value \cup {Absent}] /\ seen = <<>> /\ closed = FALSE

Take(u, i) ==
  /\ u \notin DOMAIN seen
  /\ seen' = Put(seen, u, <<i, val[i]>>)
  /\ UNCHANGED val

Change(u, v) ==
  /\ u \in DOMAIN seen
  /\ LET i == seen[u][1]
     IN  /\ val' = [val EXCEPT ![i] = v]
         /\ seen' = [w \in DOMAIN seen |-> IF seen[w][1] = i THEN <<i, v>> ELSE seen[w]]

Drop(u) ==
  /\ u \in DOMAIN seen
  /\ seen' = Without(seen, u)
  /\ UNCHANGED val

Insert(i, v) ==
  /\ val[i] = Absent
  /\ val' = [val EXCEPT ![i] = v]
  /\ UNCHANGED seen

Use ==
  \/ \E u \in User, i \in Item : Take(u, i)
  \/ \E u \in User, v \in Value : Change(u, v)
  \/ \E u \in User : Drop(u)
  \/ \E i \in Item, v \in Value : Insert(i, v)

(* close changes no value, and nothing that a user sees.                   *)
Close == ~closed /\ closed' = TRUE /\ UNCHANGED <<val, seen>>

AfterClose == closed /\ closed'

Next ==
  \/ ~closed /\ Use /\ UNCHANGED closed
  \/ Close
  \/ AfterClose

Spec == Init /\ [][Next]_<<val, seen, closed>>
=============================================================================
