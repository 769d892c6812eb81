--------------------------- MODULE DeadlockSearch ---------------------------
(***************************************************************************)
(* hasDeadLock and dfs of LockTable.java as they are written: a stamp per  *)
(* root, the stamp of every visited transaction, and a cache of results.   *)
(* LockTable states what they compute.                                     *)
(***************************************************************************)
EXTENDS LockTable

(* xidStamp (0: none), the keys of pathCache, those it has TRUE for, and   *)
(* stamp.  What dfs(x) returns is what pathCache has for x when it returns.*)
Fields == [stamps : [Xid -> Nat], known : SUBSET Xid, cyclic : SUBSET Xid, stamp : Nat \ {0}]
Begun == [stamps |-> [x \in Xid |-> 0], known |-> {}, cyclic |-> {}, stamp |-> 1]

(* dfs(x).  A transaction on the way from the root has the current stamp,  *)
(* one that was visited from an earlier root has a smaller one; none has a *)
(* larger one.                                                             *)
Dfs(waiting) ==
  LET dfs[s \in Fields] == [x \in Xid |->
        LET marked == [s EXCEPT !.stamps[x] = s.stamp]
            Cached(r, cycle) == [r EXCEPT !.known = @ \cup {x},
                                          !.cyclic = IF cycle THEN @ \cup {x} ELSE @]
        IN  IF x \in s.known THEN s
            ELSE IF s.stamps[x] > 0 THEN Cached(s, s.stamps[x] = s.stamp)
            ELSE IF x \in DOMAIN waiting /\ waiting[x] \in DOMAIN u2x
            THEN LET owner == u2x[waiting[x]]
                     r == dfs[marked][owner]
                 IN  Cached(r, owner \in r.cyclic)
            ELSE Cached(marked, FALSE)]
  IN  dfs

(* A mutant of Search that answers for the first key.                      *)
SearchFirst(order, waiting) ==
  order # <<>> /\ order[1] \in Dfs(waiting)[Begun][order[1]].cyclic

(* The loop over the keys of x2u, in the order they come.  It ends with    *)
(* the first key dfs returns TRUE for: whatever is found below a key is    *)
(* passed up to it.                                                        *)
Search(order, waiting) ==
  LET after[i \in 0 .. Len(order)] ==
        IF i = 0 THEN Begun
        ELSE LET s == after[i - 1]
             IN  IF s.cyclic # {} \/ s.stamps[order[i]] > 0 THEN s
                 ELSE Dfs(waiting)[[s EXCEPT !.stamp = @ + 1]][order[i]]
  IN  after[Len(order)].cyclic # {}

----------------------------------------------------------------------------
(* For the tables of every reachable state, for every edge add could be    *)
(* about to put in, and in whatever order the keys of x2u come, dfs with   *)
(* its stamps and cache answers what HasDeadLock says: a cycle is          *)
(* reachable from a key of x2u (LockTable.java:112).                       *)
SearchFindsCycles ==
  \A x \in Xid, u \in Uid :
    LET waiting == Put(waitU, x, u)
        keys == DOMAIN x2u
    IN  \A order \in [1 .. Cardinality(keys) -> keys] :
          Range(order) = keys => (Search(order, waiting) <=> HasDeadLock(waiting))
=============================================================================
