--------------------------- MODULE LockTableProofs ---------------------------
(***************************************************************************)
(* Safety of the lock table for any transactions, threads, rows and bound, *)
(* and that its search for a deadlock, as written, finds what it should.   *)
(***************************************************************************)
EXTENDS DeadlockSearch, SequenceTheorems, FiniteSetTheorems, WellFoundedInduction, TLAPS

----------------------------------------------------------------------------
(* Lists.                                                                  *)

(* A set of naturals that is not empty has a least element.                *)
LEMMA LeastNat ==
  ASSUME NEW T \in SUBSET Nat, T # {}
  PROVE  \E n \in T : \A m \in T : n <= m
<1>1. PICK n \in T : \A m \in T : ~(<<m, n>> \in OpToRel(<, Nat))
  BY NatLessThanWellFounded, WFMin
<1>2. ASSUME NEW m \in T PROVE n <= m
  <2>1. <<m, n>> \in Nat \X Nat /\ <<m, n>>[1] = m /\ <<m, n>>[2] = n
    OBVIOUS
  <2>2. ~(m < n)
    BY <1>1, <2>1, Zenon DEF OpToRel
  <2>. QED  BY <2>2
<1>. QED  BY <1>2

(* Removing e from a list that has it cuts the list at e's first index.    *)
LEMMA RemoveFirstCuts ==
  ASSUME NEW S, NEW s \in Seq(S), NEW e, Contains(s, e)
  PROVE  \E i \in 1..Len(s) :
           /\ s[i] = e
           /\ \A j \in 1..Len(s) : s[j] = e => i <= j
           /\ RemoveFirst(s, e) = SubSeq(s, 1, i - 1) \o SubSeq(s, i + 1, Len(s))
<1>. DEFINE I == {i \in 1..Len(s) : s[i] = e}
<1>1. I # {}
  BY DEF Contains
<1>2. \E n \in I : \A m \in I : n <= m
  <2>1. I \in SUBSET Nat
    OBVIOUS
  <2>. HIDE DEF I
  <2>. QED  BY <1>1, <2>1, LeastNat
<1>3. Min(I) \in I /\ \A m \in I : Min(I) <= m
  BY <1>2 DEF Min
<1>4. RemoveFirst(s, e) = SubSeq(s, 1, Min(I) - 1) \o SubSeq(s, Min(I) + 1, Len(s))
  BY <1>1 DEF RemoveFirst, RemoveAt, SelectInSeq
<1>. QED  BY <1>3, <1>4

(* RemoveFirst returns a list, and takes nothing but e out of it.          *)
LEMMA RemoveFirstKeeps ==
  ASSUME NEW S, NEW s \in Seq(S), NEW e
  PROVE  /\ RemoveFirst(s, e) \in Seq(S)
         /\ \A x : x # e /\ Contains(s, x) => Contains(RemoveFirst(s, e), x)
<1>1. CASE ~Contains(s, e)
  BY <1>1 DEF RemoveFirst, Contains
<1>2. CASE Contains(s, e)
  <2>1. PICK i \in 1..Len(s) :
          /\ s[i] = e
          /\ RemoveFirst(s, e) = SubSeq(s, 1, i - 1) \o SubSeq(s, i + 1, Len(s))
    BY <1>2, RemoveFirstCuts
  <2>. DEFINE p == SubSeq(s, 1, i - 1)
              q == SubSeq(s, i + 1, Len(s))
  <2>2. /\ p \in Seq(S) /\ Len(p) = i - 1
        /\ \A j \in 1..(i - 1) : p[j] = s[j]
    OBVIOUS
  <2>3. /\ q \in Seq(S) /\ Len(q) = Len(s) - i
        /\ \A j \in 1..(Len(s) - i) : q[j] = s[i + j]
    OBVIOUS
  <2>. HIDE DEF p, q
  <2>4. /\ p \o q \in Seq(S) /\ Len(p \o q) = Len(s) - 1
        /\ \A j \in 1..Len(p \o q) :
             (p \o q)[j] = IF j <= Len(p) THEN p[j] ELSE q[j - Len(p)]
    <3>1. Len(p) + Len(q) = Len(s) - 1
      BY <2>2, <2>3
    <3>2. /\ p \o q \in Seq(S) /\ Len(p \o q) = Len(p) + Len(q)
          /\ \A j \in 1..(Len(p) + Len(q)) :
               (p \o q)[j] = IF j <= Len(p) THEN p[j] ELSE q[j - Len(p)]
      BY <2>2, <2>3, ConcatProperties
    <3>. QED  BY <3>1, <3>2
  <2>5. ASSUME NEW x, x # e, Contains(s, x)
        PROVE  Contains(p \o q, x)
    <3>1. PICK k \in 1..Len(s) : s[k] = x
      BY <2>5 DEF Contains
    <3>2. CASE k < i
      <4>1. k \in 1..Len(p \o q) /\ (p \o q)[k] = p[k] /\ p[k] = x
        BY <2>2, <2>3, <2>4, <3>1, <3>2
      <4>. QED  BY <4>1 DEF Contains
    <3>3. CASE k > i
      <4>1. /\ k - 1 \in 1..Len(p \o q) /\ (k - 1) - Len(p) = k - i
            /\ ~(k - 1 <= Len(p))
        BY <2>2, <2>3, <2>4, <3>1, <3>3
      <4>2. k - i \in 1..(Len(s) - i) /\ i + (k - i) = k
        BY <3>1, <3>3
      <4>3. q[k - i] = x
        BY <2>3, <3>1, <4>2
      <4>4. (p \o q)[k - 1] = x
        BY <2>4, <4>1, <4>3
      <4>. QED  BY <4>1, <4>4 DEF Contains
    <3>4. k # i
      BY <2>1, <2>5, <3>1
    <3>. QED  BY <3>1, <3>2, <3>3, <3>4
  <2>. QED  BY <2>1, <2>4, <2>5 DEF p, q
<1>. QED  BY <1>1, <1>2

(* Putting e in front and removing the first e again changes nothing.      *)
LEMMA RemoveFirstUndoes ==
  ASSUME NEW S, NEW s \in Seq(S), NEW e \in S
  PROVE  RemoveFirst(<<e>> \o s, e) = s
<1>. DEFINE r == <<e>> \o s
<1>1. /\ r \in Seq(S) /\ Len(r) = Len(s) + 1
      /\ r[1] = e
      /\ \A j \in 1..Len(s) : r[j + 1] = s[j]
  OBVIOUS
<1>2. Contains(r, e)
  BY <1>1 DEF Contains
<1>. HIDE DEF r
<1>3. PICK i \in 1..Len(r) :
        /\ \A j \in 1..Len(r) : r[j] = e => i <= j
        /\ RemoveFirst(r, e) = SubSeq(r, 1, i - 1) \o SubSeq(r, i + 1, Len(r))
  BY <1>1, <1>2, RemoveFirstCuts
<1>4. 1 \in 1..Len(r)
  BY <1>1
<1>5. i = 1
  BY <1>1, <1>3, <1>4
<1>6. SubSeq(r, 1, 0) = <<>> /\ SubSeq(r, 2, Len(r)) = s
  BY <1>1
<1>7. RemoveFirst(r, e) = s
  BY <1>3, <1>5, <1>6
<1>. QED  BY <1>7 DEF r

----------------------------------------------------------------------------
(* Maps.                                                                   *)

LEMMA PutIsMap ==
  ASSUME NEW K, NEW V, NEW f, NEW k \in K, NEW v \in V, IsMap(f, K, V)
  PROVE  IsMap(Put(f, k, v), K, V)
BY DEF IsMap, Put

LEMMA WithoutIsMap ==
  ASSUME NEW K, NEW V, NEW f, NEW k, IsMap(f, K, V)
  PROVE  IsMap(Without(f, k), K, V)
BY DEF IsMap, Without

LEMMA ListedIsSeq ==
  ASSUME NEW K, NEW S, NEW f, NEW k, IsMap(f, K, Seq(S))
  PROVE  Listed(f, k) \in Seq(S)
BY DEF IsMap, Listed

(* putIntoList adds e in front of k's list and leaves the others.          *)
LEMMA PutIntoListValues ==
  ASSUME NEW f, NEW k, NEW e
  PROVE  /\ Listed(PutIntoList(f, k, e), k) = <<e>> \o Listed(f, k)
         /\ \A i : i # k => Listed(PutIntoList(f, k, e), i) = Listed(f, i)
<1>. DEFINE v == <<e>> \o Listed(f, k)
<1>1. PutIntoList(f, k, e) = Put(f, k, v)
  BY DEF PutIntoList
<1>. HIDE DEF v
<1>2. /\ Listed(Put(f, k, v), k) = v
      /\ \A i : i # k => Listed(Put(f, k, v), i) = Listed(f, i)
  BY DEF Listed, Put
<1>. QED  BY <1>1, <1>2 DEF v

LEMMA PutIntoListIsMap ==
  ASSUME NEW K, NEW S, NEW f, NEW k \in K, NEW e \in S, IsMap(f, K, Seq(S))
  PROVE  IsMap(PutIntoList(f, k, e), K, Seq(S))
<1>. DEFINE v == <<e>> \o Listed(f, k)
<1>1. v \in Seq(S)
  BY ListedIsSeq
<1>. HIDE DEF v
<1>2. IsMap(Put(f, k, v), K, Seq(S))
  BY <1>1, PutIsMap
<1>. QED  BY <1>2 DEF PutIntoList, v

(* removeFromList takes nothing but e out of k's list.                     *)
LEMMA RemoveFromListIsMap ==
  ASSUME NEW K, NEW S, NEW f, NEW k \in K, NEW e, IsMap(f, K, Seq(S))
  PROVE  /\ IsMap(RemoveFromList(f, k, e), K, Seq(S))
         /\ \A i, x : x # e /\ Contains(Listed(f, i), x)
                     => Contains(Listed(RemoveFromList(f, k, e), i), x)
<1>. DEFINE rest == RemoveFirst(Listed(f, k), e)
<1>1. /\ rest \in Seq(S)
      /\ \A x : x # e /\ Contains(Listed(f, k), x) => Contains(rest, x)
  BY ListedIsSeq, RemoveFirstKeeps
<1>2. \A x : ~Contains(<<>>, x)
  BY DEF Contains
<1>. HIDE DEF rest
<1>3. RemoveFromList(f, k, e) = IF rest = <<>> THEN Without(f, k) ELSE Put(f, k, rest)
  BY DEF RemoveFromList, rest
<1>4. CASE rest = <<>>
  <2>1. /\ IsMap(Without(f, k), K, Seq(S))
        /\ DOMAIN Without(f, k) = DOMAIN f \ {k}
        /\ \A i \in DOMAIN f \ {k} : Without(f, k)[i] = f[i]
    BY DEF IsMap, Without
  <2>2. \A i : i # k => Listed(Without(f, k), i) = Listed(f, i)
    BY <2>1 DEF Listed
  <2>. QED  BY <1>1, <1>2, <1>3, <1>4, <2>1, <2>2
<1>5. CASE rest # <<>>
  <2>1. /\ IsMap(Put(f, k, rest), K, Seq(S))
        /\ DOMAIN Put(f, k, rest) = DOMAIN f \cup {k}
        /\ Put(f, k, rest)[k] = rest
        /\ \A i \in DOMAIN f \ {k} : Put(f, k, rest)[i] = f[i]
    BY <1>1 DEF IsMap, Put
  <2>2. /\ Listed(Put(f, k, rest), k) = rest
        /\ \A i : i # k => Listed(Put(f, k, rest), i) = Listed(f, i)
    BY <2>1 DEF Listed
  <2>. QED  BY <1>1, <1>3, <1>5, <2>1, <2>2
<1>. QED  BY <1>4, <1>5

(* add puts the caller in the queue and takes it out again: no change.     *)
LEMMA RemoveFromListUndoes ==
  ASSUME NEW K, NEW S, NEW f, NEW k \in K, NEW e \in S, IsMap(f, K, Seq(S))
  PROVE  \A i : Listed(RemoveFromList(PutIntoList(f, k, e), k, e), i) = Listed(f, i)
<1>. DEFINE s == Listed(f, k)
            g == PutIntoList(f, k, e)
<1>1. s \in Seq(S)
  BY ListedIsSeq
<1>2. /\ Listed(g, k) = <<e>> \o s
      /\ \A i : i # k => Listed(g, i) = Listed(f, i)
  BY PutIntoListValues
<1>3. RemoveFirst(<<e>> \o s, e) = s
  BY <1>1, RemoveFirstUndoes
<1>. HIDE DEF s, g
<1>4. RemoveFromList(g, k, e) = IF s = <<>> THEN Without(g, k) ELSE Put(g, k, s)
  BY <1>2, <1>3 DEF RemoveFromList
<1>5. \A i : Listed(RemoveFromList(g, k, e), i) = IF i = k THEN s ELSE Listed(g, i)
  BY <1>4 DEF Listed, Put, Without
<1>. QED  BY <1>2, <1>5 DEF s, g

----------------------------------------------------------------------------
(* selectNewXID.                                                           *)

MapsTyped ==
  /\ IsMap(u2x, Uid, Xid) /\ IsMap(wait, Uid, Seq(Xid))
  /\ IsMap(waitLock, Xid, Thread) /\ IsMap(waitU, Xid, Uid)

LEMMA SelectTyped ==
  ASSUME MapsTyped, NEW t, NEW u \in Uid, NEW threw, SelectNewXID(t, u, threw)
  PROVE  MapsTyped'
<1>1. CASE ReleaseUnclaimed(u)
  BY <1>1 DEF MapsTyped, ReleaseUnclaimed, IsMap, Without
<1>2. CASE HandOver(t, u, threw)
  <2>. DEFINE rest(i) == SubSeq(wait[u], i + 1, Len(wait[u]))
  <2>1. PICK i \in WithLock(u) :
          /\ u2x' = Put(u2x, u, wait[u][i])
          /\ waitLock' = Without(waitLock, wait[u][i])
          /\ waitU' = Without(waitU, wait[u][i])
          /\ wait' = IF rest(i) = <<>> /\ ~threw
                     THEN Without(wait, u) ELSE Put(wait, u, rest(i))
    BY <1>2 DEF HandOver
  <2>2. u \in DOMAIN wait /\ i \in 1..Len(wait[u]) /\ wait[u] \in Seq(Xid)
    BY DEF WithLock, Listed, MapsTyped, IsMap
  <2>3. wait[u][i] \in Xid /\ rest(i) \in Seq(Xid)
    BY <2>2
  <2>. HIDE DEF rest
  <2>4. IsMap(u2x', Uid, Xid)
    BY <2>1, <2>3, PutIsMap DEF MapsTyped
  <2>5. IsMap(waitLock', Xid, Thread) /\ IsMap(waitU', Xid, Uid)
    BY <2>1, WithoutIsMap DEF MapsTyped
  <2>6. IsMap(wait', Uid, Seq(Xid))
    BY <2>1, <2>3, PutIsMap, WithoutIsMap DEF MapsTyped
  <2>. QED  BY <2>4, <2>5, <2>6 DEF MapsTyped
<1>. QED  BY <1>1, <1>2 DEF SelectNewXID

(* Only u changes hands, and waits only end.                               *)
LEMMA SelectChanges ==
  ASSUME NEW t, NEW u, NEW threw, SelectNewXID(t, u, threw)
  PROVE  /\ \A v \in DOMAIN u2x \ {u} : v \in DOMAIN u2x' /\ u2x'[v] = u2x[v]
         /\ \A x \in DOMAIN waitU' : x \in DOMAIN waitU /\ waitU'[x] = waitU[x]
<1>1. CASE ReleaseUnclaimed(u)
  BY <1>1 DEF ReleaseUnclaimed, Without
<1>2. CASE HandOver(t, u, threw)
  BY <1>2 DEF HandOver, Put, Without
<1>. QED  BY <1>1, <1>2 DEF SelectNewXID

----------------------------------------------------------------------------
(* Type correctness.                                                       *)

LEMMA InitTyped == Init => TypeOK
BY DEF Init, TypeOK, IsMap

LEMMA AddTyped ==
  ASSUME TypeOK, NEW t \in Thread, NEW x \in Xid, NEW u \in Uid, Add(t, x, u)
  PROVE  TypeOK'
<1>1. CASE AddOwned(t, x, u)
  BY <1>1 DEF AddOwned, vars, TypeOK
<1>2. CASE AddFree(t, x, u)
  <2>1. IsMap(u2x', Uid, Xid) /\ IsMap(x2u', Xid, Seq(Uid))
    BY <1>2, PutIsMap, PutIntoListIsMap DEF AddFree, TypeOK
  <2>. QED  BY <1>2, <2>1 DEF AddFree, TypeOK
<1>3. CASE AddWait(t, x, u)
  <2>1. /\ IsMap(waitU', Xid, Uid) /\ IsMap(waitLock', Xid, Thread)
        /\ IsMap(wait', Uid, Seq(Xid))
    BY <1>3, PutIsMap, PutIntoListIsMap DEF AddWait, TypeOK
  <2>. QED  BY <1>3, <2>1 DEF AddWait, TypeOK
<1>4. CASE AddDeadlock(t, x, u)
  <2>1. IsMap(waitU', Xid, Uid)
    BY <1>4, WithoutIsMap DEF AddDeadlock, TypeOK
  <2>2. IsMap(wait', Uid, Seq(Xid))
    <3>1. IsMap(PutIntoList(wait, u, x), Uid, Seq(Xid))
      BY PutIntoListIsMap DEF TypeOK
    <3>. QED  BY <1>4, <3>1, RemoveFromListIsMap DEF AddDeadlock
  <2>. QED  BY <1>4, <2>1, <2>2 DEF AddDeadlock, TypeOK
<1>. QED  BY <1>1, <1>2, <1>3, <1>4 DEF Add

(* What TypeOK says of the call of a thread, and of the daemon's call.     *)
RemoveOf(t, x) == [by |-> t, xid |-> x, todo |-> <<>>, expired |-> {}]
CheckerCall ==
  [by : {Checker}, xid : Xid \cup {NoXid}, todo : Seq(Uid), expired : SUBSET Xid]

LEMMA CallTyped ==
  ASSUME TypeOK
  PROVE  \/ call = Idle /\ call.by = NoThread
         \/ \E t \in Thread, x \in Xid :
              /\ call = RemoveOf(t, x) /\ call = [Idle EXCEPT !.by = t, !.xid = x]
              /\ call.by = t /\ call.xid = x
         \/ /\ call \in CheckerCall /\ call.by = Checker /\ checkerAlive
            /\ call.todo # <<>> => call.xid # NoXid
<1>1. CASE call = Idle
  BY <1>1 DEF Idle
<1>2. ASSUME NEW t \in Thread, NEW x \in Xid, call = [Idle EXCEPT !.by = t, !.xid = x]
      PROVE  call = RemoveOf(t, x) /\ call.by = t /\ call.xid = x
  BY <1>2 DEF Idle, RemoveOf
<1>3. CASE /\ call \in CheckerCall /\ checkerAlive
           /\ call.todo # <<>> => call.xid # NoXid
  BY <1>3 DEF CheckerCall
<1>4. \/ call = Idle
      \/ \E t \in Thread, x \in Xid : call = [Idle EXCEPT !.by = t, !.xid = x]
      \/ /\ call \in CheckerCall /\ checkerAlive
         /\ call.todo # <<>> => call.xid # NoXid
  BY DEF TypeOK, CheckerCall
<1>. QED  BY <1>1, <1>2, <1>3, <1>4

LEMMA CheckerTyped ==
  ASSUME TypeOK, call.by = Checker
  PROVE  call \in CheckerCall /\ checkerAlive /\ (call.todo # <<>> => call.xid # NoXid)
BY CallTyped, ThreadsAreDistinct

LEMMA RemoveTyped ==
  ASSUME TypeOK, NEW t \in Thread
  PROVE  /\ \A x \in Xid : RemoveCall(t, x) => TypeOK'
         /\ RemoveNext(t) => TypeOK'
         /\ RemoveReturn(t) => TypeOK'
<1>1. ASSUME NEW x \in Xid, RemoveCall(t, x)
      PROVE  TypeOK'
  BY <1>1 DEF RemoveCall, TypeOK
<1>2. ASSUME Removing(t)
      PROVE  /\ call.xid \in Xid
             /\ \E x \in Xid : call = [Idle EXCEPT !.by = t, !.xid = x]
  BY <1>2, CallTyped, ThreadsAreDistinct DEF Removing
<1>3. ASSUME RemoveNext(t)
      PROVE  TypeOK'
  <2>. DEFINE u == Head(x2u[call.xid])
  <2>1. /\ Removing(t) /\ call.xid \in DOMAIN x2u /\ x2u[call.xid] # <<>>
        /\ x2u' = [x2u EXCEPT ![call.xid] = Tail(@)]
        /\ UNCHANGED <<waitStartTime, checkerAlive, open>>
    BY <1>3 DEF RemoveNext, Listed
  <2>2. PICK threw \in BOOLEAN :
          /\ SelectNewXID(t, u, threw)
          /\ call' = IF threw THEN Idle ELSE call
    BY <1>3 DEF RemoveNext
  <2>3. x2u[call.xid] \in Seq(Uid)
    BY <2>1 DEF TypeOK, IsMap
  <2>4. u \in Uid /\ Tail(x2u[call.xid]) \in Seq(Uid)
    BY <2>1, <2>3
  <2>. HIDE DEF u
  <2>5. MapsTyped'
    BY <2>2, <2>4, SelectTyped DEF MapsTyped, TypeOK
  <2>6. IsMap(x2u', Xid, Seq(Uid))
    BY <2>1, <2>4 DEF TypeOK, IsMap
  <2>7. call' = Idle \/ \E x \in Xid : call' = [Idle EXCEPT !.by = t, !.xid = x]
    BY <1>2, <2>1, <2>2
  <2>. QED  BY <2>1, <2>5, <2>6, <2>7 DEF MapsTyped, TypeOK
<1>4. ASSUME RemoveReturn(t)
      PROVE  TypeOK'
  <2>1. /\ IsMap(waitU', Xid, Uid) /\ IsMap(x2u', Xid, Seq(Uid))
        /\ IsMap(waitLock', Xid, Thread)
    BY <1>4, WithoutIsMap DEF RemoveReturn, TypeOK
  <2>. QED  BY <1>4, <2>1 DEF RemoveReturn, TypeOK
<1>. QED  BY <1>1, <1>3, <1>4

LEMMA TimeoutTyped ==
  ASSUME TypeOK
  PROVE  /\ \A late \in SUBSET Xid : CheckTimeouts(late) => TypeOK'
         /\ \A x \in Xid : TimeoutNext(x) => TypeOK'
         /\ TimeoutRelease => TypeOK'
         /\ TimeoutForget => TypeOK'
         /\ TimeoutReturn => TypeOK'
<1>1. ASSUME NEW late \in SUBSET Xid, CheckTimeouts(late)
      PROVE  TypeOK'
  <2>1. call' = [by |-> Checker, xid |-> NoXid, todo |-> <<>>, expired |-> late]
    BY <1>1 DEF CheckTimeouts, Idle
  <2>2. call' \in CheckerCall /\ call'.todo = <<>>
    BY <2>1 DEF CheckerCall
  <2>. QED  BY <1>1, <2>2 DEF CheckTimeouts, TypeOK, CheckerCall
<1>2. ASSUME NEW x \in Xid, TimeoutNext(x)
      PROVE  TypeOK'
  <2>1. IsMap(waitU', Xid, Uid) /\ IsMap(x2u', Xid, Seq(Uid))
    BY <1>2, WithoutIsMap DEF TimeoutNext, TypeOK
  <2>2. IsMap(wait', Uid, Seq(Xid))
    <3>1. CASE x \in DOMAIN waitU
      <4>1. waitU[x] \in Uid
        BY <3>1 DEF TypeOK, IsMap
      <4>. QED  BY <1>2, <3>1, <4>1, RemoveFromListIsMap DEF TimeoutNext, TypeOK
    <3>. QED  BY <1>2, <3>1 DEF TimeoutNext, TypeOK
  <2>3. Listed(x2u, x) \in Seq(Uid)
    BY ListedIsSeq DEF TypeOK
  <2>4. call' \in CheckerCall /\ call'.xid = x
    BY <1>2, <2>3, CheckerTyped DEF TimeoutNext, CheckerCall
  <2>. QED
    BY <1>2, <2>1, <2>2, <2>4, CheckerTyped, NoXidIsNoXid
    DEF TimeoutNext, TypeOK, CheckerCall
<1>3. ASSUME TimeoutRelease
      PROVE  TypeOK'
  <2>. DEFINE u == Head(call.todo)
  <2>1. /\ call \in CheckerCall /\ call.xid # NoXid
        /\ u \in Uid /\ Tail(call.todo) \in Seq(Uid)
    BY <1>3, CheckerTyped DEF TimeoutRelease, CheckerCall
  <2>2. PICK threw \in BOOLEAN :
          /\ SelectNewXID(Checker, u, threw)
          /\ call' = IF threw THEN Idle ELSE [call EXCEPT !.todo = Tail(@)]
          /\ checkerAlive' = ~threw
    BY <1>3 DEF TimeoutRelease
  <2>. HIDE DEF u
  <2>3. MapsTyped'
    BY <2>1, <2>2, SelectTyped DEF MapsTyped, TypeOK
  <2>4. \/ call' = Idle
        \/ call' \in CheckerCall /\ checkerAlive' /\ call'.xid # NoXid
    BY <2>1, <2>2 DEF CheckerCall
  <2>. QED
    BY <1>3, <2>2, <2>3, <2>4 DEF TimeoutRelease, MapsTyped, TypeOK, CheckerCall
<1>4. ASSUME TimeoutForget
      PROVE  TypeOK'
  <2>1. IsMap(waitLock', Xid, Thread)
    BY <1>4, WithoutIsMap DEF TimeoutForget, TypeOK
  <2>2. call' \in CheckerCall /\ call'.todo = <<>>
    BY <1>4, CheckerTyped DEF TimeoutForget, CheckerCall
  <2>. QED
    BY <1>4, <2>1, <2>2, CheckerTyped DEF TimeoutForget, TypeOK, CheckerCall
<1>5. ASSUME TimeoutReturn
      PROVE  TypeOK'
  BY <1>5 DEF TimeoutReturn, TypeOK
<1>. QED  BY <1>1, <1>2, <1>3, <1>4, <1>5

LEMMA NextTyped == TypeOK /\ [Next]_vars => TypeOK'
<1>. SUFFICES ASSUME TypeOK, [Next]_vars PROVE TypeOK'
  OBVIOUS
<1>1. CASE Next
  BY <1>1, AddTyped, RemoveTyped, TimeoutTyped DEF Next, InCall
<1>2. CASE UNCHANGED vars
  BY <1>2 DEF vars, TypeOK
<1>. QED  BY <1>1, <1>2

(* TypeCorrect: whatever the transactions ask and in whatever order, the   *)
(* fields of LockTable hold what they are declared to hold, and the mutex  *)
(* is held by a method in progress or is free.                             *)
THEOREM TypeCorrect == Spec => []TypeOK
BY InitTyped, NextTyped, PTL DEF Spec

----------------------------------------------------------------------------
(* Ownership.                                                              *)

Ownership == HoldingsExclusive /\ RollbackOwnsRows

LEMMA InitOwnership == Init => Ownership
BY NoXidIsNoXid DEF Init, Ownership, HoldingsExclusive, RollbackOwnsRows, Idle

(* A new row in front of a list: no list had it, because nobody owned it.  *)
LEMMA AddFreeOwnership ==
  ASSUME TypeOK, Ownership,
         NEW t \in Thread, NEW x \in Xid, NEW u \in Uid, AddFree(t, x, u)
  PROVE  Ownership'
<1>. DEFINE old == Listed(x2u, x)
            new == <<u>> \o old
<1>1. /\ u \notin DOMAIN u2x /\ u2x' = Put(u2x, u, x) /\ x2u' = Put(x2u, x, new)
      /\ call' = call /\ call = Idle
  BY DEF AddFree, CanAdd, PutIntoList
<1>2. old \in Seq(Uid)
  BY ListedIsSeq DEF TypeOK
<1>3. /\ Len(new) = Len(old) + 1 /\ new[1] = u
      /\ \A i \in 2..Len(new) : i - 1 \in 1..Len(old) /\ new[i] = old[i - 1]
  BY <1>2
<1>4. \A i \in 1..Len(old) :
        /\ old[i] \in DOMAIN u2x /\ u2x[old[i]] = x
        /\ \A j \in 1..Len(old) : old[i] = old[j] => i = j
  <2>1. CASE x \in DOMAIN x2u
    BY <2>1 DEF Listed, Ownership, HoldingsExclusive
  <2>2. CASE x \notin DOMAIN x2u
    BY <2>2 DEF Listed
  <2>. QED  BY <2>1, <2>2
<1>. HIDE DEF old, new
<1>5. /\ DOMAIN u2x' = DOMAIN u2x \cup {u} /\ u2x'[u] = x
      /\ \A v \in DOMAIN u2x : u2x'[v] = u2x[v]
  BY <1>1 DEF Put
<1>6. /\ DOMAIN x2u' = DOMAIN x2u \cup {x} /\ x2u'[x] = new
      /\ \A y \in DOMAIN x2u \ {x} : x2u'[y] = x2u[y]
  BY <1>1 DEF Put
<1>7. ASSUME NEW i \in 1..Len(new)
      PROVE  /\ new[i] \in DOMAIN u2x' /\ u2x'[new[i]] = x
             /\ \A j \in 1..Len(new) : new[i] = new[j] => i = j
  <2>1. Len(old) \in Nat
    BY <1>2
  <2>2. CASE i = 1
    <3>1. \A j \in 2..Len(new) : new[j] # u
      BY <1>1, <1>3, <1>4
    <3>. QED  BY <1>3, <1>5, <2>1, <2>2, <3>1
  <2>3. CASE i \in 2..Len(new)
    <3>1. /\ i - 1 \in 1..Len(old) /\ new[i] = old[i - 1]
          /\ new[i] \in DOMAIN u2x /\ u2x[new[i]] = x
      BY <1>3, <1>4, <2>3
    <3>2. ASSUME NEW j \in 2..Len(new), new[i] = new[j]
          PROVE  i = j
      <4>1. j - 1 \in 1..Len(old) /\ new[j] = old[j - 1]
        BY <1>3
      <4>2. i - 1 = j - 1
        BY <1>4, <3>1, <3>2, <4>1
      <4>. QED  BY <2>1, <2>3, <4>2
    <3>. QED  BY <1>1, <1>3, <1>5, <2>1, <3>1, <3>2
  <2>. QED  BY <1>3, <2>1, <2>2, <2>3
<1>8. ASSUME NEW y \in DOMAIN x2u \ {x}, NEW i \in 1..Len(x2u[y])
      PROVE  /\ x2u[y][i] \in DOMAIN u2x' /\ u2x'[x2u[y][i]] = y
             /\ \A j \in 1..Len(x2u[y]) : x2u[y][i] = x2u[y][j] => i = j
  BY <1>5 DEF Ownership, HoldingsExclusive
<1>9. HoldingsExclusive'
  BY <1>6, <1>7, <1>8 DEF HoldingsExclusive
<1>. QED  BY <1>1, <1>9, NoXidIsNoXid DEF Ownership, RollbackOwnsRows, Idle

(* remove gives up the newest row of the caller's list.                    *)
LEMMA RemoveNextOwnership ==
  ASSUME TypeOK, Ownership, NEW t \in Thread, RemoveNext(t)
  PROVE  Ownership' /\ u2x[Head(x2u[call.xid])] = call.xid
<1>. DEFINE c == call.xid
            u == Head(x2u[c])
<1>1. /\ c \in DOMAIN x2u /\ x2u[c] # <<>> /\ x2u' = [x2u EXCEPT ![c] = Tail(@)]
      /\ Removing(t)
      /\ \E threw \in BOOLEAN : /\ SelectNewXID(t, u, threw)
                               /\ call' = IF threw THEN Idle ELSE call
  BY DEF RemoveNext, Listed
<1>2. x2u[c] \in Seq(Uid)
  BY <1>1 DEF TypeOK, IsMap
<1>3. \A v \in DOMAIN u2x \ {u} : v \in DOMAIN u2x' /\ u2x'[v] = u2x[v]
  BY <1>1, SelectChanges
<1>4. /\ 1 \in 1..Len(x2u[c]) /\ u = x2u[c][1]
      /\ Len(Tail(x2u[c])) = Len(x2u[c]) - 1
      /\ \A i \in 1..Len(Tail(x2u[c])) :
           i + 1 \in 1..Len(x2u[c]) /\ Tail(x2u[c])[i] = x2u[c][i + 1]
  BY <1>1, <1>2
<1>5. DOMAIN x2u' = DOMAIN x2u /\ x2u'[c] = Tail(x2u[c])
      /\ \A y \in DOMAIN x2u \ {c} : x2u'[y] = x2u[y]
  BY <1>1
<1>6. u2x[u] = c
  BY <1>1, <1>4 DEF Ownership, HoldingsExclusive
<1>. HIDE DEF c, u
<1>7. ASSUME NEW y \in DOMAIN x2u \ {c}, NEW i \in 1..Len(x2u[y])
      PROVE  /\ x2u[y][i] \in DOMAIN u2x' /\ u2x'[x2u[y][i]] = y
             /\ \A j \in 1..Len(x2u[y]) : x2u[y][i] = x2u[y][j] => i = j
  <2>1. /\ x2u[y][i] \in DOMAIN u2x /\ u2x[x2u[y][i]] = y
        /\ \A j \in 1..Len(x2u[y]) : x2u[y][i] = x2u[y][j] => i = j
    BY DEF Ownership, HoldingsExclusive
  <2>. QED  BY <1>3, <1>6, <2>1
<1>8. ASSUME NEW i \in 1..Len(Tail(x2u[c]))
      PROVE  LET r == Tail(x2u[c])
             IN  /\ r[i] \in DOMAIN u2x' /\ u2x'[r[i]] = c
                 /\ \A j \in 1..Len(r) : r[i] = r[j] => i = j
  <2>1. i \in Nat /\ i + 1 \in 1..Len(x2u[c]) /\ Tail(x2u[c])[i] = x2u[c][i + 1]
    BY <1>4
  <2>2. /\ x2u[c][i + 1] \in DOMAIN u2x /\ u2x[x2u[c][i + 1]] = c
        /\ \A k \in 1..Len(x2u[c]) : x2u[c][i + 1] = x2u[c][k] => i + 1 = k
    BY <1>1, <2>1 DEF Ownership, HoldingsExclusive, c
  <2>3. x2u[c][i + 1] # u
    BY <1>4, <2>1, <2>2
  <2>4. ASSUME NEW j \in 1..Len(Tail(x2u[c])), Tail(x2u[c])[i] = Tail(x2u[c])[j]
        PROVE  i = j
    <3>1. j \in Nat /\ j + 1 \in 1..Len(x2u[c]) /\ Tail(x2u[c])[j] = x2u[c][j + 1]
      BY <1>4
    <3>2. i + 1 = j + 1
      BY <2>1, <2>2, <2>4, <3>1
    <3>. QED  BY <2>1, <3>1, <3>2
  <2>. QED  BY <1>3, <2>1, <2>2, <2>3, <2>4
<1>9. HoldingsExclusive'
  BY <1>5, <1>7, <1>8 DEF HoldingsExclusive
<1>10. call'.by # Checker
  BY <1>1, ThreadsAreDistinct DEF Removing, Idle
<1>. QED  BY <1>6, <1>9, <1>10 DEF Ownership, RollbackOwnsRows, c, u

(* The late transaction's list becomes the daemon's list of rows to free.  *)
LEMMA TimeoutNextOwnership ==
  ASSUME TypeOK, Ownership, NEW x \in Xid, TimeoutNext(x)
  PROVE  Ownership'
<1>1. /\ x2u' = Without(x2u, x) /\ u2x' = u2x /\ waitU' = Without(waitU, x)
      /\ call' = [call EXCEPT !.xid = x, !.todo = Listed(x2u, x)]
      /\ call \in CheckerCall
  BY CheckerTyped DEF TimeoutNext
<1>2. HoldingsExclusive'
  BY <1>1 DEF Ownership, HoldingsExclusive, Without
<1>3. call'.xid = x /\ call'.todo = Listed(x2u, x)
  BY <1>1 DEF CheckerCall
<1>4. x \notin DOMAIN x2u' \cup DOMAIN waitU'
  BY <1>1 DEF Without
<1>5. ASSUME NEW i \in 1..Len(Listed(x2u, x))
      PROVE  LET r == Listed(x2u, x)
             IN  /\ r[i] \in DOMAIN u2x /\ u2x[r[i]] = x
                 /\ \A j \in 1..Len(r) : r[i] = r[j] => i = j
  BY DEF Listed, Ownership, HoldingsExclusive
<1>. QED  BY <1>1, <1>2, <1>3, <1>4, <1>5 DEF Ownership, RollbackOwnsRows

(* The daemon frees the next of those rows; no list has it.                *)
LEMMA TimeoutReleaseOwnership ==
  ASSUME TypeOK, Ownership, TimeoutRelease
  PROVE  Ownership' /\ u2x[Head(call.todo)] = call.xid
<1>. DEFINE c == call.xid
            u == Head(call.todo)
            rest == Tail(call.todo)
<1>1. /\ call.by = Checker /\ call.todo # <<>> /\ x2u' = x2u
      /\ call \in CheckerCall /\ c # NoXid
  BY CheckerTyped DEF TimeoutRelease
<1>2. PICK threw \in BOOLEAN :
        /\ SelectNewXID(Checker, u, threw)
        /\ call' = IF threw THEN Idle ELSE [call EXCEPT !.todo = Tail(@)]
  BY DEF TimeoutRelease
<1>3. /\ \A v \in DOMAIN u2x \ {u} : v \in DOMAIN u2x' /\ u2x'[v] = u2x[v]
      /\ \A x \in DOMAIN waitU' : x \in DOMAIN waitU
  BY <1>2, SelectChanges
<1>4. call.todo \in Seq(Uid)
  BY <1>1 DEF CheckerCall
<1>5. /\ 1 \in 1..Len(call.todo) /\ u = call.todo[1]
      /\ Len(rest) = Len(call.todo) - 1
      /\ \A i \in 1..Len(rest) :
           i \in Nat /\ i + 1 \in 1..Len(call.todo) /\ rest[i] = call.todo[i + 1]
  BY <1>1, <1>4
<1>6. /\ c \notin DOMAIN x2u \cup DOMAIN waitU
      /\ \A i \in 1..Len(call.todo) :
           /\ call.todo[i] \in DOMAIN u2x /\ u2x[call.todo[i]] = c
           /\ \A j \in 1..Len(call.todo) : call.todo[i] = call.todo[j] => i = j
  BY <1>1 DEF Ownership, RollbackOwnsRows
<1>7. u2x[u] = c
  BY <1>5, <1>6
<1>. HIDE DEF c, u, rest
<1>8. HoldingsExclusive'
  <2>1. ASSUME NEW y \in DOMAIN x2u, NEW i \in 1..Len(x2u[y])
        PROVE  /\ x2u[y][i] \in DOMAIN u2x' /\ u2x'[x2u[y][i]] = y
               /\ \A j \in 1..Len(x2u[y]) : x2u[y][i] = x2u[y][j] => i = j
    <3>1. /\ x2u[y][i] \in DOMAIN u2x /\ u2x[x2u[y][i]] = y
          /\ \A j \in 1..Len(x2u[y]) : x2u[y][i] = x2u[y][j] => i = j
      BY DEF Ownership, HoldingsExclusive
    <3>. QED  BY <1>3, <1>6, <1>7, <3>1
  <2>. QED  BY <1>1, <2>1 DEF HoldingsExclusive
<1>9. CASE threw
  BY <1>2, <1>7, <1>8, <1>9, ThreadsAreDistinct
  DEF Ownership, RollbackOwnsRows, Idle, c, u
<1>10. CASE ~threw
  <2>1. call'.xid = c /\ call'.todo = rest
    BY <1>1, <1>2, <1>10 DEF CheckerCall, c, rest
  <2>2. ASSUME NEW i \in 1..Len(rest)
        PROVE  /\ rest[i] \in DOMAIN u2x' /\ u2x'[rest[i]] = c
               /\ \A j \in 1..Len(rest) : rest[i] = rest[j] => i = j
    <3>1. rest[i] \in DOMAIN u2x /\ u2x[rest[i]] = c /\ rest[i] # u
      BY <1>5, <1>6
    <3>2. ASSUME NEW j \in 1..Len(rest), rest[i] = rest[j]
          PROVE  i = j
      <4>1. i + 1 = j + 1
        BY <1>5, <1>6, <3>2
      <4>. QED  BY <1>5, <4>1
    <3>. QED  BY <1>3, <3>1, <3>2
  <2>3. c \notin DOMAIN x2u' \cup DOMAIN waitU'
    BY <1>1, <1>3, <1>6
  <2>. QED
    BY <1>7, <1>8, <2>1, <2>2, <2>3 DEF Ownership, RollbackOwnsRows, c, u
<1>. QED  BY <1>2, <1>9, <1>10

LEMMA NextOwnership == TypeOK /\ Ownership /\ [Next]_vars => Ownership'
<1>. SUFFICES ASSUME TypeOK, Ownership, [Next]_vars PROVE Ownership'
  OBVIOUS
<1>. USE DEF Ownership, HoldingsExclusive, RollbackOwnsRows
<1>1. ASSUME NEW t \in Thread, NEW x \in Xid, NEW u \in Uid, Add(t, x, u)
      PROVE  Ownership'
  <2>1. CASE AddOwned(t, x, u)
    BY <2>1 DEF AddOwned, vars
  <2>2. CASE AddFree(t, x, u)
    BY <2>2, AddFreeOwnership
  <2>3. CASE AddWait(t, x, u)
    BY <2>3 DEF AddWait, MustWait, CanAdd, Idle
  <2>4. CASE AddDeadlock(t, x, u)
    BY <2>4 DEF AddDeadlock, MustWait, CanAdd, Idle
  <2>. QED  BY <1>1, <2>1, <2>2, <2>3, <2>4 DEF Add
<1>2. ASSUME NEW t \in Thread, NEW x \in Xid, RemoveCall(t, x)
      PROVE  Ownership'
  <2>1. call'.by = t
    BY <1>2 DEF RemoveCall, Idle
  <2>. QED  BY <1>2, <2>1, ThreadsAreDistinct DEF RemoveCall
<1>3. ASSUME NEW late \in SUBSET Xid, CheckTimeouts(late)
      PROVE  Ownership'
  <2>1. call'.xid = NoXid
    BY <1>3 DEF CheckTimeouts, Idle
  <2>. QED  BY <1>3, <2>1 DEF CheckTimeouts
<1>4. ASSUME NEW t \in Thread, RemoveNext(t)
      PROVE  Ownership'
  BY <1>4, RemoveNextOwnership
<1>5. ASSUME NEW t \in Thread, RemoveReturn(t)
      PROVE  Ownership'
  BY <1>5, NoXidIsNoXid DEF RemoveReturn, Without, Idle
<1>6. ASSUME NEW x \in Xid, TimeoutNext(x)
      PROVE  Ownership'
  BY <1>6, TimeoutNextOwnership
<1>7. CASE TimeoutRelease
  BY <1>7, TimeoutReleaseOwnership
<1>8. CASE TimeoutForget
  <2>1. call'.xid = NoXid
    BY <1>8, CheckerTyped DEF TimeoutForget, CheckerCall
  <2>. QED  BY <1>8, <2>1 DEF TimeoutForget
<1>9. CASE TimeoutReturn
  BY <1>9 DEF TimeoutReturn, Idle
<1>10. CASE UNCHANGED vars
  BY <1>10 DEF vars
<1>. QED
  BY <1>1, <1>2, <1>3, <1>4, <1>5, <1>6, <1>7, <1>8, <1>9, <1>10 DEF Next, InCall

----------------------------------------------------------------------------
(* No lost wake-up.                                                        *)

(* selectNewXID passes over, or drops, only entries that have no lock, so  *)
(* whoever still waits for u is behind the heir in u's list.               *)
LEMMA SelectKeepsWakeup ==
  ASSUME MapsTyped, NoLostWakeup,
         NEW t, NEW u \in Uid, NEW threw, SelectNewXID(t, u, threw)
  PROVE  NoLostWakeup'
<1>1. CASE ReleaseUnclaimed(u)
  <2>1. \A x \in DOMAIN waitU : waitU[x] # u
    <3>1. SUFFICES ASSUME NEW x \in DOMAIN waitU, waitU[x] = u
                   PROVE  WithLock(u) # {}
      BY <1>1 DEF ReleaseUnclaimed
    <3>2. Contains(Listed(wait, u), x) /\ x \in DOMAIN waitLock
      BY <3>1 DEF NoLostWakeup
    <3>3. Listed(wait, u) \in Seq(Xid)
      BY ListedIsSeq DEF MapsTyped
    <3>. QED  BY <3>2, <3>3 DEF WithLock, Contains
  <2>. QED  BY <1>1, <2>1 DEF ReleaseUnclaimed, NoLostWakeup, Without, Listed
<1>2. CASE HandOver(t, u, threw)
  <2>. DEFINE rest(i) == SubSeq(wait[u], i + 1, Len(wait[u]))
  <2>1. PICK i \in WithLock(u) :
          /\ \A j \in WithLock(u) : i <= j
          /\ u2x' = Put(u2x, u, wait[u][i])
          /\ waitLock' = Without(waitLock, wait[u][i])
          /\ waitU' = Without(waitU, wait[u][i])
          /\ wait' = IF rest(i) = <<>> /\ ~threw
                     THEN Without(wait, u) ELSE Put(wait, u, rest(i))
    BY <1>2 DEF HandOver
  <2>2. /\ u \in DOMAIN wait /\ Listed(wait, u) = wait[u] /\ wait[u] \in Seq(Xid)
        /\ i \in 1..Len(wait[u])
    BY DEF WithLock, Listed, MapsTyped, IsMap
  <2>3. /\ rest(i) \in Seq(Xid) /\ Len(rest(i)) = Len(wait[u]) - i
        /\ \A j \in 1..(Len(wait[u]) - i) : rest(i)[j] = wait[u][i + j]
    BY <2>2
  <2>. HIDE DEF rest
  <2>4. ASSUME NEW x \in DOMAIN waitU'
        PROVE  /\ x \in DOMAIN waitU /\ waitU'[x] = waitU[x] /\ x # wait[u][i]
               /\ x \in DOMAIN waitLock' /\ waitU[x] \in DOMAIN u2x'
    BY <2>1 DEF Without, Put, NoLostWakeup
  <2>5. ASSUME NEW x \in DOMAIN waitU', waitU[x] = u
        PROVE  Contains(Listed(wait', u), x)
    <3>1. PICK k \in 1..Len(wait[u]) : wait[u][k] = x
      BY <2>2, <2>4, <2>5 DEF NoLostWakeup, Contains
    <3>2. k \in WithLock(u)
      BY <2>2, <2>4, <3>1 DEF WithLock, NoLostWakeup
    <3>3. i < k
      BY <2>1, <2>2, <2>4, <3>1, <3>2
    <3>4. k - i \in 1..Len(rest(i)) /\ i + (k - i) = k
      BY <2>2, <2>3, <3>1, <3>3
    <3>5. rest(i)[k - i] = x
      BY <2>3, <3>1, <3>4
    <3>6. rest(i) # <<>> /\ Contains(rest(i), x)
      BY <2>3, <3>4, <3>5 DEF Contains
    <3>. QED  BY <2>1, <3>6 DEF Listed, Put
  <2>6. ASSUME NEW x \in DOMAIN waitU', waitU[x] # u
        PROVE  Contains(Listed(wait', waitU[x]), x)
    <3>1. Listed(wait', waitU[x]) = Listed(wait, waitU[x])
      BY <2>1, <2>6 DEF Listed, Put, Without
    <3>. QED  BY <2>4, <3>1 DEF NoLostWakeup
  <2>. QED  BY <2>4, <2>5, <2>6 DEF NoLostWakeup
<1>. QED  BY <1>1, <1>2 DEF SelectNewXID

LEMMA AddWaitWakeup ==
  ASSUME TypeOK, NoLostWakeup,
         NEW t \in Thread, NEW x \in Xid, NEW u \in Uid, AddWait(t, x, u)
  PROVE  NoLostWakeup'
<1>1. /\ u \in DOMAIN u2x /\ u2x' = u2x /\ waitU' = Put(waitU, x, u)
      /\ waitLock' = Put(waitLock, x, t) /\ wait' = PutIntoList(wait, u, x)
  BY DEF AddWait, MustWait
<1>2. /\ Listed(wait', u) = <<x>> \o Listed(wait, u)
      /\ \A v : v # u => Listed(wait', v) = Listed(wait, v)
  BY <1>1, PutIntoListValues
<1>3. Listed(wait, u) \in Seq(Xid)
  BY ListedIsSeq DEF TypeOK
<1>4. /\ Len(Listed(wait', u)) = Len(Listed(wait, u)) + 1 /\ Listed(wait', u)[1] = x
      /\ \A j \in 1..Len(Listed(wait, u)) :
           /\ j + 1 \in 1..Len(Listed(wait', u))
           /\ Listed(wait', u)[j + 1] = Listed(wait, u)[j]
  BY <1>2, <1>3
<1>5. Contains(Listed(wait', u), x)
  BY <1>3, <1>4 DEF Contains
<1>6. \A y : Contains(Listed(wait, u), y) => Contains(Listed(wait', u), y)
  BY <1>4 DEF Contains
<1>7. /\ DOMAIN waitU' = DOMAIN waitU \cup {x} /\ waitU'[x] = u
      /\ \A y \in DOMAIN waitU \ {x} : waitU'[y] = waitU[y]
      /\ DOMAIN waitLock' = DOMAIN waitLock \cup {x}
  BY <1>1 DEF Put
<1>. QED  BY <1>1, <1>2, <1>5, <1>6, <1>7 DEF NoLostWakeup

LEMMA NextWakeup ==
  TypeOK /\ Ownership /\ NoLostWakeup /\ [Next]_vars => NoLostWakeup'
<1>. SUFFICES ASSUME TypeOK, Ownership, NoLostWakeup, [Next]_vars
              PROVE  NoLostWakeup'
  OBVIOUS
<1>1. ASSUME NEW t \in Thread, NEW x \in Xid, NEW u \in Uid, Add(t, x, u)
      PROVE  NoLostWakeup'
  <2>1. CASE AddOwned(t, x, u)
    BY <2>1 DEF AddOwned, vars, NoLostWakeup
  <2>2. CASE AddFree(t, x, u)
    BY <2>2 DEF AddFree, NoLostWakeup, Put
  <2>3. CASE AddWait(t, x, u)
    BY <2>3, AddWaitWakeup
  <2>4. CASE AddDeadlock(t, x, u)
    <3>1. \A v : Listed(wait', v) = Listed(wait, v)
      <4>1. IsMap(wait, Uid, Seq(Xid))
        BY DEF TypeOK
      <4>2. wait' = RemoveFromList(PutIntoList(wait, u, x), u, x)
        BY <2>4 DEF AddDeadlock
      <4>. QED  BY <4>1, <4>2, RemoveFromListUndoes
    <3>. QED  BY <2>4, <3>1 DEF AddDeadlock, NoLostWakeup, Without
  <2>. QED  BY <1>1, <2>1, <2>2, <2>3, <2>4 DEF Add
<1>2. ASSUME NEW t \in Thread, NEW x \in Xid, RemoveCall(t, x)
      PROVE  NoLostWakeup'
  BY <1>2 DEF RemoveCall, NoLostWakeup
<1>3. ASSUME NEW late \in SUBSET Xid, CheckTimeouts(late)
      PROVE  NoLostWakeup'
  BY <1>3 DEF CheckTimeouts, NoLostWakeup
<1>4. ASSUME NEW t \in Thread, RemoveNext(t)
      PROVE  NoLostWakeup'
  <2>1. x2u[call.xid] \in Seq(Uid) /\ x2u[call.xid] # <<>>
    BY <1>4 DEF RemoveNext, Listed, TypeOK, IsMap
  <2>2. Head(x2u[call.xid]) \in Uid
    BY <2>1
  <2>3. MapsTyped
    BY DEF MapsTyped, TypeOK
  <2>. QED  BY <1>4, <2>2, <2>3, SelectKeepsWakeup DEF RemoveNext
<1>5. ASSUME NEW t \in Thread, RemoveReturn(t)
      PROVE  NoLostWakeup'
  BY <1>5 DEF RemoveReturn, NoLostWakeup, Without
<1>6. ASSUME NEW x \in Xid, TimeoutNext(x)
      PROVE  NoLostWakeup'
  <2>1. \A v, y : y # x /\ Contains(Listed(wait, v), y) => Contains(Listed(wait', v), y)
    <3>1. CASE x \in DOMAIN waitU
      <4>1. waitU[x] \in Uid
        BY <3>1 DEF TypeOK, IsMap
      <4>2. IsMap(wait, Uid, Seq(Xid))
        BY DEF TypeOK
      <4>3. wait' = RemoveFromList(wait, waitU[x], x)
        BY <1>6, <3>1 DEF TimeoutNext
      <4>. QED  BY <4>1, <4>2, <4>3, RemoveFromListIsMap
    <3>. QED  BY <1>6, <3>1 DEF TimeoutNext
  <2>. QED  BY <1>6, <2>1 DEF TimeoutNext, NoLostWakeup, Without
<1>7. CASE TimeoutRelease
  <2>1. call.todo \in Seq(Uid) /\ call.todo # <<>>
    BY <1>7, CheckerTyped DEF TimeoutRelease, CheckerCall
  <2>2. Head(call.todo) \in Uid
    BY <2>1
  <2>3. MapsTyped
    BY DEF MapsTyped, TypeOK
  <2>. QED  BY <1>7, <2>2, <2>3, SelectKeepsWakeup DEF TimeoutRelease
<1>8. CASE TimeoutForget
  <2>1. call.xid \notin DOMAIN waitU
    BY <1>8 DEF TimeoutForget, Ownership, RollbackOwnsRows
  <2>. QED  BY <1>8, <2>1 DEF TimeoutForget, NoLostWakeup, Without
<1>9. CASE TimeoutReturn
  BY <1>9 DEF TimeoutReturn, NoLostWakeup
<1>10. CASE UNCHANGED vars
  BY <1>10 DEF vars, NoLostWakeup
<1>. QED
  BY <1>1, <1>2, <1>3, <1>4, <1>5, <1>6, <1>7, <1>8, <1>9, <1>10 DEF Next, InCall

----------------------------------------------------------------------------
(* No deadlock among transactions that acquired their rows through add.    *)

(* A step that adds no wait and no row that is waited for adds no cycle.   *)
LEMMA NoNewEdges ==
  ASSUME NoDeadlockAmongHolders,
         \A x \in DOMAIN waitU' : x \in DOMAIN waitU /\ waitU'[x] = waitU[x],
         \A x \in DOMAIN waitU' : \A y :
           IsInList(x2u', y, waitU'[x]) => IsInList(x2u, y, waitU'[x])
  PROVE  NoDeadlockAmongHolders'
BY DEF NoDeadlockAmongHolders

(* In a cycle, x2u and u2x name the same owners, so hasDeadLock, which     *)
(* follows u2x, sees every cycle there is in x2u.                          *)
LEMMA CyclesAreSeen ==
  ASSUME HoldingsExclusive, NEW S \in SUBSET Xid, S # {}, NEW waiting,
         \A x \in S : x \in DOMAIN waiting /\ \E y \in S : IsInList(x2u, y, waiting[x])
  PROVE  HasDeadLock(waiting)
<1>1. ASSUME NEW y, NEW r, IsInList(x2u, y, r)
      PROVE  y \in DOMAIN x2u /\ r \in DOMAIN u2x /\ u2x[r] = y
  BY <1>1 DEF IsInList, Contains, Listed, HoldingsExclusive
<1>2. \A x \in S : /\ x \in DOMAIN waiting
                   /\ waiting[x] \in DOMAIN u2x
                   /\ u2x[waiting[x]] \in S
                   /\ u2x[waiting[x]] \in DOMAIN x2u
  BY <1>1
<1>. QED  BY <1>2 DEF HasDeadLock

LEMMA NextNoDeadlock ==
  TypeOK /\ Ownership /\ NoLostWakeup /\ NoDeadlockAmongHolders /\ [Next]_vars
    => NoDeadlockAmongHolders'
<1>. SUFFICES ASSUME TypeOK, Ownership, NoLostWakeup, NoDeadlockAmongHolders, [Next]_vars
              PROVE  NoDeadlockAmongHolders'
  OBVIOUS
<1>1. ASSUME NEW t \in Thread, NEW x \in Xid, NEW u \in Uid, Add(t, x, u)
      PROVE  NoDeadlockAmongHolders'
  <2>1. CASE AddOwned(t, x, u)
    BY <2>1 DEF AddOwned, vars, NoDeadlockAmongHolders
  <2>2. CASE AddFree(t, x, u)
    <3>1. \A z \in DOMAIN waitU : waitU[z] # u
      BY <2>2 DEF AddFree, NoLostWakeup
    <3>2. /\ Listed(x2u', x) = <<u>> \o Listed(x2u, x)
          /\ \A y : y # x => Listed(x2u', y) = Listed(x2u, y)
      BY <2>2, PutIntoListValues DEF AddFree
    <3>3. Listed(x2u, x) \in Seq(Uid)
      BY ListedIsSeq DEF TypeOK
    <3>4. ASSUME NEW r, r # u, Contains(Listed(x2u', x), r)
          PROVE  Contains(Listed(x2u, x), r)
      <4>1. PICK i \in 1..Len(Listed(x2u', x)) : Listed(x2u', x)[i] = r
        BY <3>4 DEF Contains
      <4>2. i - 1 \in 1..Len(Listed(x2u, x)) /\ Listed(x2u, x)[i - 1] = r
        BY <3>2, <3>3, <3>4, <4>1
      <4>. QED  BY <4>2 DEF Contains
    <3>5. waitU' = waitU
      BY <2>2 DEF AddFree
    <3>. QED  BY <3>1, <3>2, <3>4, <3>5, NoNewEdges DEF IsInList
  <2>3. CASE AddWait(t, x, u)
    <3>1. ~HasDeadLock(waitU') /\ x2u' = x2u
      BY <2>3 DEF AddWait
    <3>2. SUFFICES ASSUME NEW S \in SUBSET Xid, S # {},
                          \A z \in S : /\ z \in DOMAIN waitU'
                                     /\ \E y \in S : IsInList(x2u', y, waitU'[z])
                   PROVE  FALSE
      BY DEF NoDeadlockAmongHolders
    <3>3. HasDeadLock(waitU')
      <4>1. HoldingsExclusive /\ S \in SUBSET Xid /\ S # {}
        BY <3>2 DEF Ownership
      <4>. DEFINE w == waitU'
      <4>2. \A z \in S : z \in DOMAIN w /\ \E y \in S : IsInList(x2u, y, w[z])
        BY <3>1, <3>2
      <4>. HIDE DEF w
      <4>3. HasDeadLock(w)
        BY <4>1, <4>2, CyclesAreSeen
      <4>. QED  BY <4>3 DEF w
    <3>. QED  BY <3>1, <3>3
  <2>4. CASE AddDeadlock(t, x, u)
    BY <2>4, NoNewEdges DEF AddDeadlock, Without
  <2>. QED  BY <1>1, <2>1, <2>2, <2>3, <2>4 DEF Add
<1>2. ASSUME NEW t \in Thread, NEW x \in Xid, RemoveCall(t, x)
      PROVE  NoDeadlockAmongHolders'
  BY <1>2 DEF RemoveCall, NoDeadlockAmongHolders
<1>3. ASSUME NEW late \in SUBSET Xid, CheckTimeouts(late)
      PROVE  NoDeadlockAmongHolders'
  BY <1>3 DEF CheckTimeouts, NoDeadlockAmongHolders
<1>4. ASSUME NEW t \in Thread, RemoveNext(t)
      PROVE  NoDeadlockAmongHolders'
  <2>1. /\ call.xid \in DOMAIN x2u /\ x2u[call.xid] # <<>>
        /\ x2u' = [x2u EXCEPT ![call.xid] = Tail(@)]
        /\ \E u, threw : SelectNewXID(t, u, threw)
    BY <1>4 DEF RemoveNext, Listed
  <2>2. x2u[call.xid] \in Seq(Uid)
    BY <2>1 DEF TypeOK, IsMap
  <2>3. \A i \in 1..Len(Tail(x2u[call.xid])) :
          /\ i + 1 \in 1..Len(x2u[call.xid])
          /\ Tail(x2u[call.xid])[i] = x2u[call.xid][i + 1]
    BY <2>1, <2>2
  <2>4. \A y, r : IsInList(x2u', y, r) => IsInList(x2u, y, r)
    BY <2>1, <2>3 DEF IsInList, Listed, Contains
  <2>5. \A x \in DOMAIN waitU' : x \in DOMAIN waitU /\ waitU'[x] = waitU[x]
    BY <2>1, SelectChanges
  <2>. QED  BY <2>4, <2>5, NoNewEdges
<1>5. ASSUME NEW t \in Thread, RemoveReturn(t)
      PROVE  NoDeadlockAmongHolders'
  <2>1. x2u' = Without(x2u, call.xid) /\ waitU' = Without(waitU, call.xid)
    BY <1>5 DEF RemoveReturn
  <2>2. \A z \in DOMAIN waitU' : z \in DOMAIN waitU /\ waitU'[z] = waitU[z]
    BY <2>1 DEF Without
  <2>3. \A y, r : IsInList(x2u', y, r) => IsInList(x2u, y, r)
    BY <2>1 DEF IsInList, Contains, Listed, Without
  <2>. QED  BY <2>2, <2>3, NoNewEdges
<1>6. ASSUME NEW x \in Xid, TimeoutNext(x)
      PROVE  NoDeadlockAmongHolders'
  <2>1. x2u' = Without(x2u, x) /\ waitU' = Without(waitU, x)
    BY <1>6 DEF TimeoutNext
  <2>2. \A z \in DOMAIN waitU' : z \in DOMAIN waitU /\ waitU'[z] = waitU[z]
    BY <2>1 DEF Without
  <2>3. \A y, r : IsInList(x2u', y, r) => IsInList(x2u, y, r)
    BY <2>1 DEF IsInList, Contains, Listed, Without
  <2>. QED  BY <2>2, <2>3, NoNewEdges
<1>7. CASE TimeoutRelease
  <2>1. x2u' = x2u /\ \E u, threw : SelectNewXID(Checker, u, threw)
    BY <1>7 DEF TimeoutRelease
  <2>2. \A x \in DOMAIN waitU' : x \in DOMAIN waitU /\ waitU'[x] = waitU[x]
    BY <2>1, SelectChanges
  <2>. QED  BY <2>1, <2>2, NoNewEdges
<1>8. CASE TimeoutForget
  BY <1>8 DEF TimeoutForget, NoDeadlockAmongHolders
<1>9. CASE TimeoutReturn
  BY <1>9 DEF TimeoutReturn, NoDeadlockAmongHolders
<1>10. CASE UNCHANGED vars
  BY <1>10 DEF vars, NoDeadlockAmongHolders
<1>. QED
  BY <1>1, <1>2, <1>3, <1>4, <1>5, <1>6, <1>7, <1>8, <1>9, <1>10 DEF Next, InCall

----------------------------------------------------------------------------
(* The inductive invariant, and what follows from it.                      *)

IInv == TypeOK /\ Ownership /\ NoLostWakeup /\ NoDeadlockAmongHolders

LEMMA InitIInv == Init => IInv
<1>1. Init => NoLostWakeup /\ NoDeadlockAmongHolders
  <2>. SUFFICES ASSUME Init PROVE NoLostWakeup /\ NoDeadlockAmongHolders
    OBVIOUS
  <2>1. \A x : x \notin DOMAIN waitU
    BY DEF Init
  <2>. QED  BY <2>1 DEF NoLostWakeup, NoDeadlockAmongHolders
<1>. QED  BY <1>1, InitTyped, InitOwnership DEF IInv

LEMMA NextIInv == IInv /\ [Next]_vars => IInv'
BY NextTyped, NextOwnership, NextWakeup, NextNoDeadlock DEF IInv

LEMMA SpecIInv == Spec => []IInv
BY InitIInv, NextIInv, PTL DEF Spec

(* HoldingsAlwaysExclusive: remove and rollbackTimeoutTransaction never    *)
(* release a row that meanwhile belongs to another transaction, because    *)
(* the lists of x2u are disjoint and name rows u2x gives to their owners.  *)
THEOREM HoldingsAlwaysExclusive == Spec => []HoldingsExclusive
<1>1. IInv => HoldingsExclusive
  BY DEF IInv, Ownership
<1>. QED  BY <1>1, SpecIInv, PTL

(* RollbackAlwaysOwnsRows: what the daemon is about to release is owned by *)
(* the late transaction, which waits for nothing and has no list left.     *)
THEOREM RollbackAlwaysOwnsRows == Spec => []RollbackOwnsRows
<1>1. IInv => RollbackOwnsRows
  BY DEF IInv, Ownership
<1>. QED  BY <1>1, SpecIInv, PTL

(* WakeupNeverLost: selectNewXID can always reach a recorded waiter.       *)
THEOREM WakeupNeverLost == Spec => []NoLostWakeup
<1>1. IInv => NoLostWakeup
  BY DEF IInv
<1>. QED  BY <1>1, SpecIInv, PTL

(* HoldersNeverDeadlock: the search made when a wait is added is enough:   *)
(* no later hand-over or time-out closes a cycle of rows acquired by add.  *)
THEOREM HoldersNeverDeadlock == Spec => []NoDeadlockAmongHolders
<1>1. IInv => NoDeadlockAmongHolders
  BY DEF IInv
<1>. QED  BY <1>1, SpecIInv, PTL

(* ReleaseOnlyByOwner: a row changes hands only in a call of selectNewXID  *)
(* made by the remove, or the rollback, of the transaction that owns it.   *)
THEOREM ReleaseOnlyByOwner == Spec => OnlyOwnersCallReleases
<1>. DEFINE Release == \A u \in DOMAIN u2x :
              (u \in DOMAIN u2x' => u2x'[u] # u2x[u]) => call.xid = u2x[u]
<1>1. IInv /\ [Next]_vars => Release
  <2>. SUFFICES ASSUME IInv, [Next]_vars PROVE Release
    OBVIOUS
  <2>1. TypeOK /\ Ownership
    BY DEF IInv
  <2>2. CASE u2x' = u2x
    BY <2>2
  <2>3. ASSUME NEW t \in Thread, NEW x \in Xid, NEW u \in Uid, AddFree(t, x, u)
        PROVE  Release
    BY <2>3 DEF AddFree, Put
  <2>4. ASSUME NEW t \in Thread, RemoveNext(t)
        PROVE  Release
    <3>1. u2x[Head(x2u[call.xid])] = call.xid
      BY <2>1, <2>4, RemoveNextOwnership
    <3>2. \E threw : SelectNewXID(t, Head(x2u[call.xid]), threw)
      BY <2>4 DEF RemoveNext
    <3>. QED  BY <3>1, <3>2, SelectChanges
  <2>5. CASE TimeoutRelease
    <3>1. u2x[Head(call.todo)] = call.xid
      BY <2>1, <2>5, TimeoutReleaseOwnership
    <3>2. \E threw : SelectNewXID(Checker, Head(call.todo), threw)
      BY <2>5 DEF TimeoutRelease
    <3>. QED  BY <3>1, <3>2, SelectChanges
  <2>. HIDE DEF Release
  <2>6. \/ u2x' = u2x
        \/ \E t \in Thread, x \in Xid, u \in Uid : AddFree(t, x, u)
        \/ \E t \in Thread : RemoveNext(t)
        \/ TimeoutRelease
    BY DEF Next, vars, Add, InCall, AddOwned, AddWait, AddDeadlock, RemoveCall,
           RemoveReturn, CheckTimeouts, TimeoutNext, TimeoutForget, TimeoutReturn
  <2>. QED  BY <2>2, <2>3, <2>4, <2>5, <2>6
<1>2. Spec => [][Release]_vars
  BY <1>1, SpecIInv, PTL DEF Spec
<1>. QED  BY <1>2 DEF OnlyOwnersCallReleases

----------------------------------------------------------------------------
(* The search as it is written.                                            *)

Waits(waiting) == IsMap(waiting, Xid, Uid) /\ IsMap(u2x, Uid, Xid) /\ IsFiniteSet(DOMAIN waiting)
Goes(waiting, x) == x \in DOMAIN waiting /\ waiting[x] \in DOMAIN u2x
Awaited(waiting, x) == u2x[waiting[x]]

(* The chain of waits from x never ends.                                   *)
Endless(waiting, x) ==
  \E S \in SUBSET Xid : x \in S /\ \A y \in S : Goes(waiting, y) /\ Awaited(waiting, y) \in S

Marked(s, x) == [s EXCEPT !.stamps[x] = s.stamp]
Cached(r, x, cycle) ==
  [r EXCEPT !.known = @ \cup {x}, !.cyclic = IF cycle THEN @ \cup {x} ELSE @]

(* What dfs(x) does, with f for the call it makes.                         *)
DfsBody(waiting, f, s, x) ==
  IF x \in s.known THEN s
  ELSE IF s.stamps[x] > 0 THEN Cached(s, x, s.stamps[x] = s.stamp)
  ELSE IF Goes(waiting, x)
  THEN LET r == f[Marked(s, x)][Awaited(waiting, x)]
       IN  Cached(r, x, Awaited(waiting, x) \in r.cyclic)
  ELSE Cached(Marked(s, x), x, FALSE)

Unseen(waiting, s) == {y \in DOMAIN waiting : s.stamps[y] = 0}
Below(waiting, n) == {s \in Fields : Cardinality(Unseen(waiting, s)) < n}
Solves(waiting, g, S) == \A s \in S, x \in Xid : g[s][x] = DfsBody(waiting, g, s, x)

IsDfs(waiting, f) == f = [s \in Fields |-> [x \in Xid |-> DfsBody(waiting, f, s, x)]]

LEMMA DfsIsBody ==
  ASSUME NEW waiting, NEW g, IsDfs(waiting, g)
  PROVE  Solves(waiting, Dfs(waiting), Fields)
<1>1. Dfs(waiting) = CHOOSE f : IsDfs(waiting, f)
  BY DEF Dfs, IsDfs, DfsBody, Cached, Marked, Goes, Awaited
<1>2. IsDfs(waiting, Dfs(waiting))
  BY <1>1
<1> DEFINE d == Dfs(waiting)
<1>3. d = [s \in Fields |-> [x \in Xid |-> DfsBody(waiting, d, s, x)]]
  BY <1>2 DEF IsDfs
<1> HIDE DEF d
<1>4. \A s \in Fields, x \in Xid : d[s][x] = DfsBody(waiting, d, s, x)
  BY <1>3
<1> QED BY <1>4 DEF Solves, d

(* A call is made from a state with one more transaction marked.           *)
LEMMA MarkedBelow ==
  ASSUME NEW waiting, Waits(waiting), NEW s \in Fields, NEW x \in Xid,
         s.stamps[x] = 0, Goes(waiting, x)
  PROVE  /\ Marked(s, x) \in Fields /\ Awaited(waiting, x) \in Xid
         /\ Cardinality(Unseen(waiting, s)) \in Nat
         /\ Cardinality(Unseen(waiting, Marked(s, x))) = Cardinality(Unseen(waiting, s)) - 1
<1>1. Marked(s, x) \in Fields /\ Awaited(waiting, x) \in Xid
  BY DEF Marked, Fields, Awaited, Goes, Waits, IsMap
<1>2. PICK t : t = Marked(s, x) /\ \A y \in Xid : t.stamps[y] = IF y = x THEN s.stamp ELSE s.stamps[y]
  <2>1. s.stamps \in [Xid -> Nat] /\ Marked(s, x).stamps = [s.stamps EXCEPT ![x] = s.stamp]
    BY DEF Fields, Marked
  <2> QED BY <2>1
<1>3. s.stamp # 0
  BY DEF Fields
<1>4. Unseen(waiting, t) = Unseen(waiting, s) \ {x} /\ x \in Unseen(waiting, s)
  BY <1>2, <1>3 DEF Unseen, Goes, Waits, IsMap
<1>5. IsFiniteSet(Unseen(waiting, s))
  BY FS_Subset DEF Unseen, Waits
<1>6. /\ Cardinality(Unseen(waiting, s)) \in Nat
      /\ Cardinality(Unseen(waiting, t)) = Cardinality(Unseen(waiting, s)) - 1
  BY <1>4, <1>5, FS_RemoveElement, FS_CardinalityType
<1> QED BY <1>1, <1>2, <1>6

(* Two functions that agree on the call do the same.                       *)
LEMMA BodyAgrees ==
  ASSUME NEW waiting, NEW s, NEW x, NEW f, NEW g,
         s.stamps[x] = 0 /\ Goes(waiting, x) =>
           f[Marked(s, x)][Awaited(waiting, x)] = g[Marked(s, x)][Awaited(waiting, x)],
         s.stamps[x] \in Nat
  PROVE  DfsBody(waiting, f, s, x) = DfsBody(waiting, g, s, x)
<1>1. CASE s.stamps[x] = 0 /\ Goes(waiting, x)
  BY <1>1 DEF DfsBody
<1>2. CASE ~(s.stamps[x] = 0 /\ Goes(waiting, x))
  <2>1. s.stamps[x] > 0 \/ ~Goes(waiting, x)
    BY <1>2
  <2> QED BY <2>1 DEF DfsBody
<1> QED BY <1>1, <1>2

(* dfs ends: a chain of waits is as long as there are transactions that    *)
(* wait.                                                                   *)
LEMMA SolvedBelow ==
  ASSUME NEW waiting, Waits(waiting), NEW n \in Nat, NEW g, Solves(waiting, g, Below(waiting, n))
  PROVE  \E h : Solves(waiting, h, Below(waiting, n + 1))
<1> DEFINE h == [s \in Fields |-> [x \in Xid |->
                  IF s \in Below(waiting, n) THEN g[s][x] ELSE DfsBody(waiting, g, s, x)]]
<1>1. \A s \in Fields, x \in Xid :
        h[s][x] = IF s \in Below(waiting, n) THEN g[s][x] ELSE DfsBody(waiting, g, s, x)
  OBVIOUS
<1> HIDE DEF h
<1>2. ASSUME NEW s \in Below(waiting, n + 1), NEW x \in Xid
      PROVE  h[s][x] = DfsBody(waiting, h, s, x)
  <2>1. s \in Fields /\ s.stamps[x] \in Nat /\ Cardinality(Unseen(waiting, s)) < n + 1
    BY DEF Below, Fields
  <2>2. h[s][x] = DfsBody(waiting, g, s, x)
    BY <1>1, <2>1 DEF Solves
  <2>3. ASSUME s.stamps[x] = 0, Goes(waiting, x)
        PROVE  h[Marked(s, x)][Awaited(waiting, x)] = g[Marked(s, x)][Awaited(waiting, x)]
    <3>1. PICK a, b : /\ a = Cardinality(Unseen(waiting, Marked(s, x)))
                      /\ b = Cardinality(Unseen(waiting, s))
      OBVIOUS
    <3>2. /\ Marked(s, x) \in Fields /\ Awaited(waiting, x) \in Xid
          /\ b \in Nat /\ a = b - 1
      BY <2>1, <2>3, <3>1, MarkedBelow
    <3>3. a < n
      BY <2>1, <3>1, <3>2
    <3>4. Marked(s, x) \in Below(waiting, n) /\ Awaited(waiting, x) \in Xid
      BY <3>1, <3>2, <3>3 DEF Below
    <3> QED BY <1>1, <3>2, <3>4
  <2>4. DfsBody(waiting, h, s, x) = DfsBody(waiting, g, s, x)
    BY <2>1, <2>3, BodyAgrees
  <2> QED BY <2>2, <2>4
<1>3. Solves(waiting, h, Below(waiting, n + 1))
  BY <1>2 DEF Solves
<1> QED BY <1>3

LEMMA DfsSolves ==
  ASSUME NEW waiting, Waits(waiting)
  PROVE  Solves(waiting, Dfs(waiting), Fields)
<1> DEFINE T == {n \in Nat : ~\E g : Solves(waiting, g, Below(waiting, n))}
<1>1. T = {}
  <2> SUFFICES ASSUME T # {} PROVE FALSE
    OBVIOUS
  <2>1. PICK n \in T : \A m \in T : n <= m
    BY LeastNat
  <2>2. n \in Nat /\ ~\E g : Solves(waiting, g, Below(waiting, n))
    OBVIOUS
  <2>3. n # 0
    <3>1. Below(waiting, 0) = {}
      <4> SUFFICES ASSUME NEW s \in Below(waiting, 0) PROVE FALSE
        OBVIOUS
      <4>1. Cardinality(Unseen(waiting, s)) \in Nat /\ Cardinality(Unseen(waiting, s)) < 0
        BY FS_Subset, FS_CardinalityType DEF Below, Unseen, Waits
      <4> QED BY <4>1
    <3>2. Solves(waiting, 0, Below(waiting, 0))
      BY <3>1 DEF Solves
    <3> QED BY <2>2, <3>2
  <2>4. n - 1 \in Nat /\ ~(n <= n - 1) /\ (n - 1) + 1 = n
    BY <2>2, <2>3
  <2>5. n - 1 \notin T
    BY <2>1, <2>4
  <2>6. \E g : Solves(waiting, g, Below(waiting, n - 1))
    BY <2>4, <2>5
  <2> QED BY <2>2, <2>4, <2>6, SolvedBelow
<1> DEFINE c == Cardinality(DOMAIN waiting)
<1>2. c \in Nat
  BY FS_CardinalityType DEF Waits
<1>3. c + 1 \in Nat /\ c + 1 \notin T
  BY <1>1, <1>2
<1>4. PICK g : Solves(waiting, g, Below(waiting, c + 1))
  BY <1>3
<1>5. Below(waiting, c + 1) = Fields
  <2>1. ASSUME NEW s \in Fields PROVE s \in Below(waiting, c + 1)
    <3>1. Unseen(waiting, s) \subseteq DOMAIN waiting
      BY DEF Unseen
    <3>2. Cardinality(Unseen(waiting, s)) <= c /\ Cardinality(Unseen(waiting, s)) \in Nat
      BY <3>1, FS_Subset, FS_CardinalityType DEF Waits
    <3> QED BY <1>2, <3>2 DEF Below
  <2> QED BY <2>1 DEF Below
<1> DEFINE h == [s \in Fields |-> [x \in Xid |-> g[s][x]]]
<1>6. \A s \in Fields, x \in Xid : h[s][x] = g[s][x]
  OBVIOUS
<1>7. h = [s \in Fields |-> [x \in Xid |-> DfsBody(waiting, h, s, x)]]
  <2> HIDE DEF h
  <2>1. ASSUME NEW s \in Fields, NEW x \in Xid PROVE g[s][x] = DfsBody(waiting, h, s, x)
    <3>1. s.stamps[x] \in Nat
      BY DEF Fields
    <3>2. s.stamps[x] = 0 /\ Goes(waiting, x) =>
            h[Marked(s, x)][Awaited(waiting, x)] = g[Marked(s, x)][Awaited(waiting, x)]
      BY <1>6, MarkedBelow
    <3>3. DfsBody(waiting, h, s, x) = DfsBody(waiting, g, s, x)
      BY <3>1, <3>2, BodyAgrees
    <3> QED BY <1>4, <1>5, <3>3 DEF Solves
  <2> QED BY <2>1 DEF h
<1>8. IsDfs(waiting, h)
  BY <1>7 DEF IsDfs
<1> QED BY <1>8, DfsIsBody

(* The transactions on the way from the root.                              *)
OnWay(s) == {y \in Xid : s.stamps[y] # 0 /\ y \notin s.known}

(* When dfs(x) is called, and when it has returned r.                      *)
Walk(waiting, s, x) ==
  /\ s.cyclic = {}
  /\ \A y \in s.known : ~Endless(waiting, y)
  /\ \A y \in OnWay(s) : /\ s.stamps[y] = s.stamp /\ Goes(waiting, y)
                        /\ Awaited(waiting, y) \in OnWay(s) \cup {x}
Found(waiting, s, x, r) ==
  /\ r \in Fields
  /\ IF Endless(waiting, x) THEN x \in r.cyclic
     ELSE /\ r.cyclic = {} /\ x \in r.known
          /\ \A y \in r.known : ~Endless(waiting, y)
          /\ OnWay(r) = OnWay(s) /\ s.known \subseteq r.known

LEMMA EndlessOnward ==
  ASSUME NEW waiting, NEW x \in Xid
  PROVE  Endless(waiting, x) <=> Goes(waiting, x) /\ Endless(waiting, Awaited(waiting, x))
<1>1. ASSUME Endless(waiting, x) PROVE Goes(waiting, x) /\ Endless(waiting, Awaited(waiting, x))
  BY <1>1 DEF Endless
<1>2. ASSUME Goes(waiting, x), Endless(waiting, Awaited(waiting, x)) PROVE Endless(waiting, x)
  <2>1. PICK S \in SUBSET Xid : /\ Awaited(waiting, x) \in S
                                /\ \A y \in S : Goes(waiting, y) /\ Awaited(waiting, y) \in S
    BY <1>2 DEF Endless
  <2>2. S \cup {x} \in SUBSET Xid /\ x \in S \cup {x}
    OBVIOUS
  <2>3. \A y \in S \cup {x} : Goes(waiting, y) /\ Awaited(waiting, y) \in S \cup {x}
    BY <1>2, <2>1
  <2> QED BY <2>2, <2>3 DEF Endless
<1> QED BY <1>1, <1>2

LEMMA CachedIs ==
  ASSUME NEW r \in Fields, NEW x \in Xid, NEW cycle \in BOOLEAN
  PROVE  /\ Cached(r, x, cycle) \in Fields
         /\ Cached(r, x, cycle).known = r.known \cup {x}
         /\ Cached(r, x, cycle).cyclic = IF cycle THEN r.cyclic \cup {x} ELSE r.cyclic
         /\ OnWay(Cached(r, x, cycle)) = OnWay(r) \ {x}
<1>1. /\ Cached(r, x, cycle) \in Fields
      /\ Cached(r, x, cycle).known = r.known \cup {x}
      /\ Cached(r, x, cycle).cyclic = IF cycle THEN r.cyclic \cup {x} ELSE r.cyclic
      /\ Cached(r, x, cycle).stamps = r.stamps
  BY DEF Cached, Fields
<1> QED BY <1>1 DEF OnWay

LEMMA CachedTrue ==
  ASSUME NEW r \in Fields, NEW x \in Xid
  PROVE  Cached(r, x, TRUE) \in Fields /\ x \in Cached(r, x, TRUE).cyclic
BY DEF Cached, Fields

LEMMA MarkedIs ==
  ASSUME NEW s \in Fields, NEW x \in Xid, s.stamps[x] = 0, x \notin s.known
  PROVE  /\ Marked(s, x) \in Fields
         /\ Marked(s, x).known = s.known /\ Marked(s, x).cyclic = s.cyclic
         /\ Marked(s, x).stamp = s.stamp
         /\ \A y \in Xid : Marked(s, x).stamps[y] = IF y = x THEN s.stamp ELSE s.stamps[y]
         /\ OnWay(Marked(s, x)) = OnWay(s) \cup {x} /\ x \notin OnWay(s)
<1> DEFINE t == Marked(s, x)
<1>1. /\ t \in Fields /\ t.known = s.known /\ t.cyclic = s.cyclic /\ t.stamp = s.stamp
      /\ t.stamps = [s.stamps EXCEPT ![x] = s.stamp]
  BY DEF Marked, Fields
<1>2. s.stamps \in [Xid -> Nat] /\ s.stamp # 0
  BY DEF Fields
<1>3. \A y \in Xid : t.stamps[y] = IF y = x THEN s.stamp ELSE s.stamps[y]
  BY <1>1, <1>2
<1> HIDE DEF t
<1>4. OnWay(t) = OnWay(s) \cup {x} /\ x \notin OnWay(s)
  BY <1>1, <1>2, <1>3 DEF OnWay
<1> QED BY <1>1, <1>3, <1>4 DEF t

LEMMA BodyFinds ==
  ASSUME NEW waiting, Waits(waiting), NEW f, NEW s \in Fields, NEW x \in Xid, Walk(waiting, s, x),
         ASSUME s.stamps[x] = 0, Goes(waiting, x),
                Walk(waiting, Marked(s, x), Awaited(waiting, x))
         PROVE  Found(waiting, Marked(s, x), Awaited(waiting, x), f[Marked(s, x)][Awaited(waiting, x)])
  PROVE  Found(waiting, s, x, DfsBody(waiting, f, s, x))
<1>1. CASE x \in s.known
  BY <1>1 DEF DfsBody, Walk, Found
<1>2. CASE x \notin s.known /\ s.stamps[x] > 0
  <2>1. x \in OnWay(s) /\ s.stamps[x] = s.stamp
    BY <1>2 DEF OnWay, Walk
  <2>2. Endless(waiting, x)
    <3>1. OnWay(s) \in SUBSET Xid
      BY DEF OnWay
    <3>2. \A y \in OnWay(s) : Goes(waiting, y) /\ Awaited(waiting, y) \in OnWay(s)
      BY <2>1 DEF Walk
    <3> QED BY <2>1, <3>1, <3>2 DEF Endless
  <2>3. DfsBody(waiting, f, s, x) = Cached(s, x, TRUE)
    BY <1>2, <2>1 DEF DfsBody
  <2>4. Cached(s, x, TRUE) \in Fields /\ x \in Cached(s, x, TRUE).cyclic
    BY CachedTrue
  <2> QED BY <2>2, <2>3, <2>4 DEF Found
<1>3. CASE x \notin s.known /\ ~(s.stamps[x] > 0) /\ ~Goes(waiting, x)
  <2>1. s.stamps[x] = 0
    BY <1>3 DEF Fields
  <2>2. DfsBody(waiting, f, s, x) = Cached(Marked(s, x), x, FALSE)
    BY <1>3 DEF DfsBody
  <2>3. ~Endless(waiting, x)
    BY <1>3, EndlessOnward
  <2>4. PICK t : t = Marked(s, x)
    OBVIOUS
  <2>5. /\ t \in Fields /\ t.known = s.known /\ t.cyclic = {}
        /\ OnWay(t) = OnWay(s) \cup {x} /\ x \notin OnWay(s)
    BY <1>3, <2>1, <2>4, MarkedIs DEF Walk
  <2>6. PICK r : r = Cached(t, x, FALSE)
    OBVIOUS
  <2>7. r \in Fields /\ r.known = t.known \cup {x} /\ r.cyclic = t.cyclic /\ OnWay(r) = OnWay(t) \ {x}
    BY <2>5, <2>6, CachedIs
  <2>8. Found(waiting, s, x, r)
    BY <2>3, <2>5, <2>7 DEF Found, Walk
  <2> QED BY <2>2, <2>4, <2>6, <2>8
<1>4. CASE x \notin s.known /\ ~(s.stamps[x] > 0) /\ Goes(waiting, x)
  <2>1. s.stamps[x] = 0
    BY <1>4 DEF Fields
  <2>2. PICK t, o : t = Marked(s, x) /\ o = Awaited(waiting, x)
    OBVIOUS
  <2>3. /\ t \in Fields /\ t.known = s.known /\ t.cyclic = {} /\ t.stamp = s.stamp
        /\ \A y \in Xid : t.stamps[y] = IF y = x THEN s.stamp ELSE s.stamps[y]
        /\ OnWay(t) = OnWay(s) \cup {x} /\ x \notin OnWay(s)
    BY <1>4, <2>1, <2>2, MarkedIs DEF Walk
  <2>4. Walk(waiting, t, o)
    <3>1. ASSUME NEW y \in OnWay(t)
          PROVE  t.stamps[y] = t.stamp /\ Goes(waiting, y) /\ Awaited(waiting, y) \in OnWay(t) \cup {o}
      <4>1. CASE y = x
        BY <1>4, <2>2, <2>3, <4>1
      <4>2. CASE y # x
        <5>1. y \in OnWay(s) /\ y \in Xid
          BY <2>3, <4>2 DEF OnWay
        <5>2. s.stamps[y] = s.stamp /\ Goes(waiting, y) /\ Awaited(waiting, y) \in OnWay(s) \cup {x}
          BY <5>1 DEF Walk
        <5> QED BY <2>3, <4>2, <5>1, <5>2
      <4> QED BY <4>1, <4>2
    <3>2. \A y \in t.known : ~Endless(waiting, y)
      BY <2>3 DEF Walk
    <3> QED BY <2>3, <3>1, <3>2 DEF Walk
  <2>5. PICK r : r = f[t][o]
    OBVIOUS
  <2>6. Found(waiting, t, o, r)
    BY <1>4, <2>1, <2>2, <2>4, <2>5
  <2>7. Endless(waiting, x) <=> Endless(waiting, o)
    BY <1>4, <2>2, EndlessOnward
  <2>8. o \in r.cyclic <=> Endless(waiting, o)
    BY <2>6 DEF Found
  <2>9. DfsBody(waiting, f, s, x) = Cached(r, x, o \in r.cyclic)
    BY <1>4, <2>2, <2>5 DEF DfsBody
  <2>10. CASE Endless(waiting, x)
    <3>1. DfsBody(waiting, f, s, x) = Cached(r, x, TRUE)
      BY <2>7, <2>8, <2>9, <2>10
    <3>2. Cached(r, x, TRUE) \in Fields /\ x \in Cached(r, x, TRUE).cyclic
      <4>1. r \in Fields
        BY <2>6 DEF Found
      <4> QED BY <4>1, CachedTrue
    <3> QED BY <2>10, <3>1, <3>2 DEF Found
  <2>11. CASE ~Endless(waiting, x)
    <3>1. DfsBody(waiting, f, s, x) = Cached(r, x, FALSE)
      BY <2>7, <2>8, <2>9, <2>11 DEF Cached
    <3>2. PICK q : q = Cached(r, x, FALSE)
      OBVIOUS
    <3>3. r \in Fields /\ r.cyclic = {} /\ OnWay(r) = OnWay(t) /\ t.known \subseteq r.known
          /\ \A y \in r.known : ~Endless(waiting, y)
      BY <2>6, <2>7, <2>11 DEF Found
    <3>4. q \in Fields /\ q.known = r.known \cup {x} /\ q.cyclic = r.cyclic /\ OnWay(q) = OnWay(r) \ {x}
      BY <3>2, <3>3, CachedIs
    <3>5. Found(waiting, s, x, q)
      BY <2>3, <2>11, <3>3, <3>4 DEF Found
    <3> QED BY <3>1, <3>2, <3>5
  <2> QED BY <2>10, <2>11
<1> QED BY <1>1, <1>2, <1>3, <1>4

LEMMA DfsFinds ==
  ASSUME NEW waiting, Waits(waiting), NEW s \in Fields, NEW x \in Xid, Walk(waiting, s, x)
  PROVE  Found(waiting, s, x, Dfs(waiting)[s][x])
<1> DEFINE Right(t, y) == Walk(waiting, t, y) => Found(waiting, t, y, Dfs(waiting)[t][y])
           Size(t) == Cardinality(Unseen(waiting, t))
           T == {n \in Nat : \E t \in Fields, y \in Xid : Size(t) = n /\ ~Right(t, y)}
<1>1. T = {}
  <2> SUFFICES ASSUME T # {} PROVE FALSE
    OBVIOUS
  <2>1. PICK n \in T : \A m \in T : n <= m
    BY LeastNat
  <2>2. PICK t \in Fields, y \in Xid : Size(t) = n /\ ~Right(t, y)
    BY <2>1
  <2>3. Walk(waiting, t, y)
    BY <2>2
  <2>4. ASSUME t.stamps[y] = 0, Goes(waiting, y),
               Walk(waiting, Marked(t, y), Awaited(waiting, y))
        PROVE  Found(waiting, Marked(t, y), Awaited(waiting, y),
                     Dfs(waiting)[Marked(t, y)][Awaited(waiting, y)])
    <3>1. /\ Marked(t, y) \in Fields /\ Awaited(waiting, y) \in Xid
          /\ Size(t) \in Nat /\ Size(Marked(t, y)) = Size(t) - 1
      BY <2>4, MarkedBelow
    <3>2. Size(Marked(t, y)) \in Nat
      BY <3>1, FS_Subset, FS_CardinalityType DEF Unseen, Waits
    <3>3. Size(Marked(t, y)) \notin T
      <4>1. PICK a : a = Size(Marked(t, y))
        OBVIOUS
      <4>2. a = n - 1 /\ n \in Nat
        BY <2>2, <3>1, <4>1
      <4>3. ~(n <= a)
        BY <4>2
      <4> HIDE DEF T, Size
      <4> QED BY <2>1, <4>1, <4>3
    <3>4. Right(Marked(t, y), Awaited(waiting, y))
      BY <3>1, <3>2, <3>3
    <3> QED BY <2>4, <3>4
  <2>5. Found(waiting, t, y, DfsBody(waiting, Dfs(waiting), t, y))
    BY <2>3, <2>4, BodyFinds
  <2>6. Dfs(waiting)[t][y] = DfsBody(waiting, Dfs(waiting), t, y)
    BY DfsSolves DEF Solves
  <2> QED BY <2>2, <2>5, <2>6
<1>2. Size(s) \in Nat
  BY FS_Subset, FS_CardinalityType DEF Unseen, Waits
<1>3. Right(s, x)
  BY <1>1, <1>2
<1> QED BY <1>3

(* The loop over the keys, with f for the states before.                   *)
LoopBody(order, waiting, f, i) ==
  IF i = 0 THEN Begun
  ELSE LET s == f[i - 1]
       IN  IF s.cyclic # {} \/ s.stamps[order[i]] > 0 THEN s
           ELSE Dfs(waiting)[[s EXCEPT !.stamp = @ + 1]][order[i]]
IsLoop(order, waiting, f) == f = [i \in 0 .. Len(order) |-> LoopBody(order, waiting, f, i)]
Loop(order, waiting) == CHOOSE f : IsLoop(order, waiting, f)

LEMMA SearchIsLoop ==
  ASSUME NEW order, NEW waiting
  PROVE  Search(order, waiting) <=> Loop(order, waiting)[Len(order)].cyclic # {}
BY DEF Search, Loop, IsLoop, LoopBody

LEMMA LoopExists ==
  ASSUME NEW order, NEW waiting, Len(order) \in Nat
  PROVE  \A i \in 0 .. Len(order) :
           Loop(order, waiting)[i] = LoopBody(order, waiting, Loop(order, waiting), i)
<1> DEFINE Upto(n, g) == g = [i \in 0 .. n |-> LoopBody(order, waiting, g, i)]
           T == {n \in Nat : ~\E g : Upto(n, g)}
<1>1. T = {}
  <2> SUFFICES ASSUME T # {} PROVE FALSE
    OBVIOUS
  <2>1. PICK n \in T : \A m \in T : n <= m
    BY LeastNat
  <2>2. n \in Nat /\ ~\E g : Upto(n, g)
    OBVIOUS
  <2>3. n # 0
    <3>1. PICK g : g = [i \in 0 .. 0 |-> Begun]
      OBVIOUS
    <3>2. \A i \in 0 .. 0 : LoopBody(order, waiting, g, i) = Begun
      BY DEF LoopBody
    <3>3. Upto(0, g)
      BY <3>1, <3>2
    <3> QED BY <2>2, <3>3
  <2>4. n - 1 \in Nat /\ ~(n <= n - 1)
    BY <2>2, <2>3
  <2>5. PICK g : Upto(n - 1, g)
    BY <2>1, <2>4
  <2> DEFINE h == [i \in 0 .. n |-> LoopBody(order, waiting, g, i)]
  <2>6. \A i \in 0 .. n - 1 : h[i] = g[i]
    BY <2>2, <2>5
  <2> HIDE DEF h
  <2>7. ASSUME NEW i \in 0 .. n PROVE LoopBody(order, waiting, h, i) = LoopBody(order, waiting, g, i)
    <3>1. i # 0 => h[i - 1] = g[i - 1]
      BY <2>2, <2>6
    <3> QED BY <3>1 DEF LoopBody
  <2>8. Upto(n, h)
    BY <2>7 DEF h
  <2> QED BY <2>2, <2>8
<1>2. PICK g : Upto(Len(order), g)
  BY <1>1
<1>3. IsLoop(order, waiting, g)
  BY <1>2 DEF IsLoop
<1>4. IsLoop(order, waiting, Loop(order, waiting))
  BY <1>3 DEF Loop
<1> DEFINE f == Loop(order, waiting)
<1>5. f = [i \in 0 .. Len(order) |-> LoopBody(order, waiting, f, i)]
  BY <1>4 DEF IsLoop
<1> HIDE DEF f
<1>6. \A i \in 0 .. Len(order) : f[i] = LoopBody(order, waiting, f, i)
  BY <1>5
<1> QED BY <1>6 DEF f

(* After i keys: s, and nothing is left on the way.                        *)
Searched(order, waiting, i, s) ==
  /\ s \in Fields
  /\ IF \E j \in 1 .. i : Endless(waiting, order[j]) THEN s.cyclic # {}
     ELSE /\ s.cyclic = {} /\ OnWay(s) = {}
          /\ \A y \in s.known : ~Endless(waiting, y)

LEMMA LoopSearches ==
  ASSUME NEW order, NEW waiting, Waits(waiting), Len(order) \in Nat,
         \A i \in 1 .. Len(order) : order[i] \in Xid,
         NEW i \in 0 .. Len(order)
  PROVE  Searched(order, waiting, i, Loop(order, waiting)[i])
<1> DEFINE f == Loop(order, waiting)
           T == {n \in Nat : n \in 0 .. Len(order) /\ ~Searched(order, waiting, n, f[n])}
<1>1. \A n \in 0 .. Len(order) : f[n] = LoopBody(order, waiting, f, n)
  BY LoopExists
<1> HIDE DEF f
<1>2. T = {}
  <2> SUFFICES ASSUME T # {} PROVE FALSE
    OBVIOUS
  <2>1. PICK n \in T : \A m \in T : n <= m
    BY LeastNat
  <2>2. n \in 0 .. Len(order) /\ ~Searched(order, waiting, n, f[n])
    BY <2>1
  <2>3. n # 0
    <3>1. Searched(order, waiting, 0, Begun)
      <4>1. Begun \in Fields /\ Begun.known = {} /\ Begun.cyclic = {} /\ OnWay(Begun) = {}
        BY DEF Begun, Fields, OnWay
      <4> QED BY <4>1 DEF Searched
    <3>2. f[0] = LoopBody(order, waiting, f, 0)
      BY <1>1
    <3>3. f[0] = Begun
      BY <3>2 DEF LoopBody
    <3> QED BY <2>2, <3>1, <3>3
  <2>4. n - 1 \in Nat /\ n - 1 \in 0 .. Len(order) /\ ~(n <= n - 1) /\ n \in 1 .. Len(order)
    BY <2>2, <2>3
  <2>5. PICK s, x : s = f[n - 1] /\ x = order[n] /\ x \in Xid
    BY <2>4
  <2>6. Searched(order, waiting, n - 1, s)
    BY <2>1, <2>4, <2>5
  <2>7. f[n] = IF s.cyclic # {} \/ s.stamps[x] > 0 THEN s
               ELSE Dfs(waiting)[[s EXCEPT !.stamp = @ + 1]][x]
    BY <1>1, <2>2, <2>3, <2>5 DEF LoopBody
  <2>8. (\E j \in 1 .. n : Endless(waiting, order[j]))
          <=> (\E j \in 1 .. n - 1 : Endless(waiting, order[j])) \/ Endless(waiting, x)
    <3>1. \A j \in 1 .. n : j \in 1 .. n - 1 \/ j = n
      BY <2>2
    <3>2. \A j \in 1 .. n - 1 : j \in 1 .. n
      BY <2>2
    <3>3. n \in 1 .. n
      BY <2>4
    <3> QED BY <2>5, <3>1, <3>2, <3>3
  <2>9. CASE s.cyclic # {}
    BY <2>2, <2>6, <2>7, <2>8, <2>9 DEF Searched
  <2>10. CASE s.cyclic = {} /\ s.stamps[x] > 0
    <3>1. x \in s.known
      BY <2>5, <2>6, <2>10 DEF Searched, OnWay
    <3> QED BY <2>2, <2>6, <2>7, <2>8, <2>10, <3>1 DEF Searched
  <2>11. CASE s.cyclic = {} /\ ~(s.stamps[x] > 0)
    <3>1. PICK t : t = [s EXCEPT !.stamp = @ + 1]
      OBVIOUS
    <3>2. t \in Fields /\ t.cyclic = {} /\ t.known = s.known /\ t.stamps = s.stamps
      <4>1. s \in Fields
        BY <2>6 DEF Searched
      <4>2. s.stamp + 1 \in Nat \ {0}
        BY <4>1 DEF Fields
      <4> QED BY <2>11, <3>1, <4>1, <4>2 DEF Fields
    <3>3. OnWay(t) = {}
      BY <2>6, <2>11, <3>2 DEF Searched, OnWay
    <3>4. Walk(waiting, t, x)
      BY <2>6, <2>11, <3>2, <3>3 DEF Searched, Walk
    <3>5. Found(waiting, t, x, f[n])
      BY <2>5, <2>7, <2>11, <3>1, <3>2, <3>4, DfsFinds
    <3> QED BY <2>2, <2>6, <2>8, <2>11, <3>3, <3>5 DEF Searched, Found
  <2> QED BY <2>9, <2>10, <2>11
<1>3. i \in Nat
  OBVIOUS
<1> QED BY <1>2, <1>3 DEF f

LEMMA SearchIsSearch ==
  ASSUME NEW waiting, Waits(waiting), DOMAIN x2u \subseteq Xid,
         NEW order, Len(order) \in Nat, DOMAIN order = 1 .. Len(order), Range(order) = DOMAIN x2u
  PROVE  Search(order, waiting) <=> HasDeadLock(waiting)
<1>1. \A x : x \in DOMAIN x2u <=> \E i \in 1 .. Len(order) : x = order[i]
  BY DEF Range
<1>2. Len(order) \in 0 .. Len(order) /\ \A i \in 1 .. Len(order) : order[i] \in Xid
  BY <1>1
<1>3. Searched(order, waiting, Len(order), Loop(order, waiting)[Len(order)])
  BY <1>2, LoopSearches
<1>4. Search(order, waiting) <=> \E i \in 1 .. Len(order) : Endless(waiting, order[i])
  BY <1>3, SearchIsLoop DEF Searched
<1>5. Search(order, waiting) <=> \E x \in DOMAIN x2u : Endless(waiting, x)
  BY <1>1, <1>4
<1>6. HasDeadLock(waiting) <=> \E x \in DOMAIN x2u : Endless(waiting, x)
  BY DEF HasDeadLock, Endless, Goes, Awaited
<1> QED BY <1>5, <1>6

(* Only add puts into the maps, one transaction at a time.                 *)
Few == IsFiniteSet(DOMAIN waitU) /\ IsFiniteSet(DOMAIN x2u)

LEMMA FewStay ==
  ASSUME Few, [Next]_vars
  PROVE  Few'
<1>1. ASSUME DOMAIN waitU' \subseteq DOMAIN waitU, DOMAIN x2u' \subseteq DOMAIN x2u PROVE Few'
  BY <1>1, FS_Subset DEF Few
<1>2. ASSUME NEW t, NEW u, NEW threw, SelectNewXID(t, u, threw), DOMAIN x2u' \subseteq DOMAIN x2u
      PROVE  Few'
  BY <1>1, <1>2, SelectChanges
<1>3. ASSUME NEW t \in Thread, NEW x \in Xid, NEW u \in Uid, Add(t, x, u)
      PROVE  Few'
  <2>1. CASE AddWait(t, x, u)
    BY <2>1, FS_AddElement DEF AddWait, Put, Few
  <2>2. CASE AddDeadlock(t, x, u)
    BY <1>1, <2>2 DEF AddDeadlock, Without
  <2>3. CASE AddFree(t, x, u)
    BY <2>3, FS_AddElement DEF AddFree, PutIntoList, Put, Few
  <2>4. CASE AddOwned(t, x, u)
    BY <1>1, <2>4 DEF AddOwned, vars
  <2> QED BY <1>3, <2>1, <2>2, <2>3, <2>4 DEF Add
<1>4. ASSUME InCall PROVE Few'
  <2>1. CASE \E t \in Thread : RemoveNext(t)
    BY <1>2, <2>1 DEF RemoveNext
  <2>2. CASE TimeoutRelease
    BY <1>2, <2>2 DEF TimeoutRelease
  <2>3. CASE /\ waitU' = waitU \/ \E x : waitU' = Without(waitU, x)
             /\ x2u' = x2u \/ \E x : x2u' = Without(x2u, x)
    BY <1>1, <2>3 DEF Without
  <2>4. \/ \E t \in Thread : RemoveNext(t)
        \/ TimeoutRelease
        \/ /\ waitU' = waitU \/ \E x : waitU' = Without(waitU, x)
           /\ x2u' = x2u \/ \E x : x2u' = Without(x2u, x)
    BY <1>4 DEF InCall, RemoveReturn, TimeoutNext, TimeoutForget, TimeoutReturn
  <2> QED BY <2>1, <2>2, <2>3, <2>4
<1>5. CASE UNCHANGED <<waitU, x2u>>
  BY <1>5 DEF Few
<1> QED BY <1>3, <1>4, <1>5 DEF Next, vars, RemoveCall, CheckTimeouts

LEMMA TablesSearched ==
  ASSUME TypeOK, Few
  PROVE  SearchFindsCycles
<1> SUFFICES ASSUME NEW x \in Xid, NEW u \in Uid,
                    NEW order \in [1 .. Cardinality(DOMAIN x2u) -> DOMAIN x2u], Range(order) = DOMAIN x2u
             PROVE  Search(order, Put(waitU, x, u)) <=> HasDeadLock(Put(waitU, x, u))
  BY DEF SearchFindsCycles
<1>1. PICK waiting : waiting = Put(waitU, x, u)
  OBVIOUS
<1>2. IsMap(waiting, Xid, Uid) /\ IsFiniteSet(DOMAIN waiting)
  <2>1. IsMap(waiting, Xid, Uid)
    BY <1>1, PutIsMap DEF TypeOK
  <2>2. DOMAIN waiting = DOMAIN waitU \cup {x}
    BY <1>1 DEF Put
  <2> QED BY <2>1, <2>2, FS_AddElement DEF Few
<1>3. Waits(waiting) /\ DOMAIN x2u \subseteq Xid
  BY <1>2 DEF Waits, TypeOK, IsMap
<1>4. Len(order) \in Nat /\ DOMAIN order = 1 .. Len(order)
  BY FS_CardinalityType DEF Few
<1> QED BY <1>1, <1>3, <1>4, SearchIsSearch

(* SearchFindsCycles: hasDeadLock, with its stamps and its cache, stops    *)
(* and answers TRUE exactly when a chain of waits from a key of x2u closes *)
(* in a cycle, in whatever order the keys of the HashMap come              *)
(* (LockTable.java:112).                                                   *)
THEOREM SearchIsRight == Spec => []SearchFindsCycles
<1>1. Init => Few
  BY FS_EmptySet DEF Init, Few
<1>2. Few /\ [Next]_vars => Few'
  BY FewStay
<1>3. Spec => []Few
  BY <1>1, <1>2, PTL DEF Spec
<1>4. TypeOK /\ Few => SearchFindsCycles
  BY TablesSearched
<1>. QED  BY <1>3, <1>4, TypeCorrect, PTL
=============================================================================
