------------------------------ MODULE LockTable ------------------------------
(***************************************************************************)
(* backend/vm/LockTable.java: the table of row locks of the version        *)
(* manager.  A transaction asks for a row with add, gives everything back  *)
(* with remove, and a daemon thread takes the locks of transactions that   *)
(* have waited too long.                                                   *)
(*                                                                         *)
(* Every method runs under the table's own mutex.  add is one step; the    *)
(* loops of remove and of checkForTimeouts are one step per iteration,     *)
(* with the mutex held in between, because an exception may leave either   *)
(* loop half way.                                                          *)
(***************************************************************************)
EXTENDS Naturals, Sequences, SequencesExt, Maps

CONSTANTS
  Thread,      \* threads that execute transactions
  Xid,         \* transactions
  Uid,         \* rows
  Checker,     \* the daemon thread of startTimeoutDeadlockChecker
  NoThread,    \* nobody holds the mutex
  NoXid,       \* the checker is between two entries
  MaxWaiters   \* bound: entries of one wait list (add may queue a waiter twice)

ASSUME ThreadsAreDistinct ==
  Checker \notin Thread /\ NoThread \notin Thread /\ Checker # NoThread
ASSUME NoXidIsNoXid == NoXid \notin Xid
ASSUME MaxWaitersIsNat == MaxWaiters \in Nat

VARIABLES
  x2u,           \* xid -> rows it acquired, newest first
  u2x,           \* row -> the xid that owns it
  wait,          \* row -> xids queued for it, newest first
  waitLock,      \* xid -> the thread holding the ReentrantLock add made for it
  waitU,         \* xid -> the row it waits for
  waitStartTime, \* the xids that have a start time
  call,          \* the method in progress under the mutex, Idle when it is free
  checkerAlive,  \* the daemon thread has not died of an exception
  open           \* environment: transactions that may still ask for a row

vars == <<x2u, u2x, wait, waitLock, waitU, waitStartTime, call, checkerAlive, open>>

----------------------------------------------------------------------------
(* HashMap.get on a map of lists, and the helpers on such maps.            *)

Listed(f, k) == IF k \in DOMAIN f THEN f[k] ELSE <<>>

IsInList(f, k, e) == Contains(Listed(f, k), e)
PutIntoList(f, k, e) == Put(f, k, <<e>> \o Listed(f, k))

(* The first e of the list goes, and the list with its last element.       *)
RemoveFromList(f, k, e) ==
  LET rest == RemoveFirst(Listed(f, k), e)
  IN  IF rest = <<>> THEN Without(f, k) ELSE Put(f, k, rest)

----------------------------------------------------------------------------
Idle == [by |-> NoThread, xid |-> NoXid, todo |-> <<>>, expired |-> {}]

Init ==
  /\ x2u = <<>> /\ u2x = <<>> /\ wait = <<>>
  /\ waitLock = <<>> /\ waitU = <<>> /\ waitStartTime = {}
  /\ call = Idle
  /\ checkerAlive = TRUE
  /\ open = Xid

(* A mutant of HasDeadLock that looks only one step ahead.              *)
HasDeadLockOneStep(waiting) ==
  \E x \in DOMAIN x2u \cap DOMAIN waiting :
    waiting[x] \in DOMAIN u2x /\ u2x[waiting[x]] = x

(* The depth-first search starts from every key of x2u and follows, from a *)
(* waiting transaction, the owner of the row it waits for.  A chain of     *)
(* such steps never ends exactly when some set closed under them contains  *)
(* its start.                                                              *)
HasDeadLock(waiting) ==
  \E S \in SUBSET Xid :
    /\ S \cap DOMAIN x2u # {}
    /\ \A x \in S : /\ x \in DOMAIN waiting
                    /\ waiting[x] \in DOMAIN u2x
                    /\ u2x[waiting[x]] \in S

----------------------------------------------------------------------------
(* add: the five ways it returns.                                          *)

CanAdd(x) == call = Idle /\ x \in open

(* The row is already in the caller's list.                                *)
AddOwned(t, x, u) ==
  /\ CanAdd(x)
  /\ IsInList(x2u, x, u)
  /\ UNCHANGED vars

(* A mutant of AddFree that forgets to look the row up in u2x.             *)
AddFreeUnchecked(t, x, u) ==
  /\ CanAdd(x)
  /\ ~IsInList(x2u, x, u)
  /\ u2x' = Put(u2x, u, x)
  /\ x2u' = PutIntoList(x2u, x, u)
  /\ UNCHANGED <<wait, waitLock, waitU, waitStartTime, call, checkerAlive, open>>

(* Nobody owns the row: the caller does now.                               *)
AddFree(t, x, u) ==
  /\ CanAdd(x)
  /\ ~IsInList(x2u, x, u)
  /\ u \notin DOMAIN u2x
  /\ u2x' = Put(u2x, u, x)
  /\ x2u' = PutIntoList(x2u, x, u)
  /\ UNCHANGED <<wait, waitLock, waitU, waitStartTime, call, checkerAlive, open>>

MustWait(x, u) ==
  /\ CanAdd(x)
  /\ ~IsInList(x2u, x, u)
  /\ u \in DOMAIN u2x

(* A mutant of AddWait that does not record when the wait began.           *)
AddWaitUntimed(t, x, u) ==
  /\ MustWait(x, u)
  /\ Len(Listed(wait, u)) < MaxWaiters
  /\ waitU' = Put(waitU, x, u)
  /\ ~HasDeadLock(waitU')
  /\ wait' = PutIntoList(wait, u, x)
  /\ waitLock' = Put(waitLock, x, t)
  /\ UNCHANGED <<x2u, u2x, waitStartTime, call, checkerAlive, open>>

(* The row is owned and no deadlock is seen: the caller is queued, and     *)
(* gets a new ReentrantLock that the calling thread itself has locked.     *)
(* Locking it again, as the caller then does, succeeds at once.            *)
AddWait(t, x, u) ==
  /\ MustWait(x, u)
  /\ Len(Listed(wait, u)) < MaxWaiters
  /\ waitU' = Put(waitU, x, u)
  /\ ~HasDeadLock(waitU')
  /\ wait' = PutIntoList(wait, u, x)
  /\ waitStartTime' = waitStartTime \cup {x}
  /\ waitLock' = Put(waitLock, x, t)
  /\ UNCHANGED <<x2u, u2x, call, checkerAlive, open>>

(* Queueing the caller would close a cycle: it is taken out of the queue   *)
(* and told so.  Its start time, and the lock of an earlier wait, stay.    *)
AddDeadlock(t, x, u) ==
  /\ MustWait(x, u)
  /\ HasDeadLock(Put(waitU, x, u))
  /\ waitU' = Without(waitU, x)
  /\ wait' = RemoveFromList(PutIntoList(wait, u, x), u, x)
  /\ waitStartTime' = waitStartTime \cup {x}
  /\ open' = open \ {x}
  /\ UNCHANGED <<x2u, u2x, waitLock, call, checkerAlive>>

----------------------------------------------------------------------------
(* selectNewXID, run by thread t for row u.  Waiters without a lock are    *)
(* passed over.  The first one with a lock becomes the owner, but its x2u  *)
(* list is not told.  Unlocking a lock another thread holds throws         *)
(* IllegalMonitorStateException: the maps have changed by then, and only   *)
(* the removal of an emptied list is skipped.                              *)

WithLock(u) == {i \in DOMAIN Listed(wait, u) : Listed(wait, u)[i] \in DOMAIN waitLock}

ReleaseUnclaimed(u) ==
  /\ WithLock(u) = {}
  /\ u2x' = Without(u2x, u)
  /\ wait' = Without(wait, u)
  /\ UNCHANGED <<waitLock, waitU>>

(* A mutant of HandOver that takes the last waiter's lock but lets the     *)
(* row go free.                                                            *)
HandOverForgotten(t, u, threw) ==
  \E i \in WithLock(u) :
    LET heir == wait[u][i]
        rest == SubSeq(wait[u], i + 1, Len(wait[u]))
    IN  /\ \A j \in WithLock(u) : i <= j
        /\ threw = (waitLock[heir] # t)
        /\ u2x' = Without(u2x, u)
        /\ waitLock' = Without(waitLock, heir)
        /\ waitU' = Without(waitU, heir)
        /\ wait' = IF rest = <<>> /\ ~threw THEN Without(wait, u) ELSE Put(wait, u, rest)

HandOver(t, u, threw) ==
  \E i \in WithLock(u) :
    LET heir == wait[u][i]
        rest == SubSeq(wait[u], i + 1, Len(wait[u]))
    IN  /\ \A j \in WithLock(u) : i <= j
        /\ threw = (waitLock[heir] # t)
        /\ u2x' = Put(u2x, u, heir)
        /\ waitLock' = Without(waitLock, heir)
        /\ waitU' = Without(waitU, heir)
        /\ wait' = IF rest = <<>> /\ ~threw THEN Without(wait, u) ELSE Put(wait, u, rest)

SelectNewXID(t, u, threw) ==
  \/ ~threw /\ ReleaseUnclaimed(u)
  \/ HandOver(t, u, threw)

----------------------------------------------------------------------------
(* remove: release the caller's rows one by one, then forget the caller.   *)

RemoveCall(t, x) ==
  /\ call = Idle
  /\ call' = [Idle EXCEPT !.by = t, !.xid = x]
  /\ open' = open \ {x}
  /\ UNCHANGED <<x2u, u2x, wait, waitLock, waitU, waitStartTime, checkerAlive>>

Removing(t) == t \in Thread /\ call.by = t

RemoveNext(t) ==
  /\ Removing(t)
  /\ Listed(x2u, call.xid) # <<>>
  /\ x2u' = [x2u EXCEPT ![call.xid] = Tail(@)]
  /\ \E threw \in BOOLEAN :
       /\ SelectNewXID(t, Head(x2u[call.xid]), threw)
       /\ call' = IF threw THEN Idle ELSE call
  /\ UNCHANGED <<waitStartTime, checkerAlive, open>>

RemoveReturn(t) ==
  /\ Removing(t)
  /\ Listed(x2u, call.xid) = <<>>
  /\ waitU' = Without(waitU, call.xid)
  /\ x2u' = Without(x2u, call.xid)
  /\ waitLock' = Without(waitLock, call.xid)
  /\ call' = Idle
  /\ UNCHANGED <<u2x, wait, waitStartTime, checkerAlive, open>>

----------------------------------------------------------------------------
(* checkForTimeouts and rollbackTimeoutTransaction.  Which entries have    *)
(* passed the threshold is decided by the clock, read once per check.      *)

CheckTimeouts(late) ==
  /\ call = Idle
  /\ checkerAlive
  /\ late # {} /\ late \subseteq waitStartTime
  /\ call' = [Idle EXCEPT !.by = Checker, !.expired = late]
  /\ UNCHANGED <<x2u, u2x, wait, waitLock, waitU, waitStartTime, checkerAlive, open>>

(* A mutant of TimeoutNext that also releases the row the late one awaits. *)
TimeoutNextAwaited(x) ==
  /\ call.by = Checker /\ call.xid = NoXid
  /\ x \in call.expired
  /\ waitU' = Without(waitU, x)
  /\ wait' = IF x \in DOMAIN waitU THEN RemoveFromList(wait, waitU[x], x) ELSE wait
  /\ x2u' = Without(x2u, x)
  /\ call' = [call EXCEPT !.xid = x,
                 !.todo = Listed(x2u, x) \o (IF x \in DOMAIN waitU THEN <<waitU[x]>> ELSE <<>>)]
  /\ UNCHANGED <<u2x, waitLock, waitStartTime, checkerAlive, open>>

(* A mutant of TimeoutNext that keeps the late one's x2u list.             *)
TimeoutNextKeepsList(x) ==
  /\ call.by = Checker /\ call.xid = NoXid
  /\ x \in call.expired
  /\ waitU' = Without(waitU, x)
  /\ wait' = IF x \in DOMAIN waitU THEN RemoveFromList(wait, waitU[x], x) ELSE wait
  /\ call' = [call EXCEPT !.xid = x, !.todo = Listed(x2u, x)]
  /\ UNCHANGED <<x2u, u2x, waitLock, waitStartTime, checkerAlive, open>>

TimeoutNext(x) ==
  /\ call.by = Checker /\ call.xid = NoXid
  /\ x \in call.expired
  /\ waitU' = Without(waitU, x)
  /\ wait' = IF x \in DOMAIN waitU THEN RemoveFromList(wait, waitU[x], x) ELSE wait
  /\ x2u' = Without(x2u, x)
  /\ call' = [call EXCEPT !.xid = x, !.todo = Listed(x2u, x)]
  /\ UNCHANGED <<u2x, waitLock, waitStartTime, checkerAlive, open>>

(* A mutant of TimeoutRelease whose exception leaves the mutex locked.     *)
TimeoutReleaseNoFinally ==
  /\ call.by = Checker /\ call.todo # <<>>
  /\ \E threw \in BOOLEAN :
       /\ SelectNewXID(Checker, Head(call.todo), threw)
       /\ call' = IF threw THEN call ELSE [call EXCEPT !.todo = Tail(@)]
       /\ checkerAlive' = ~threw
  /\ UNCHANGED <<x2u, waitStartTime, open>>

(* Only InterruptedException is caught by the daemon's loop.               *)
TimeoutRelease ==
  /\ call.by = Checker /\ call.todo # <<>>
  /\ \E threw \in BOOLEAN :
       /\ SelectNewXID(Checker, Head(call.todo), threw)
       /\ call' = IF threw THEN Idle ELSE [call EXCEPT !.todo = Tail(@)]
       /\ checkerAlive' = ~threw
  /\ UNCHANGED <<x2u, waitStartTime, open>>

TimeoutForget ==
  /\ call.by = Checker /\ call.xid # NoXid /\ call.todo = <<>>
  /\ waitLock' = Without(waitLock, call.xid)
  /\ waitStartTime' = waitStartTime \ {call.xid}
  /\ call' = [call EXCEPT !.xid = NoXid, !.expired = @ \ {call.xid}]
  /\ UNCHANGED <<x2u, u2x, wait, waitU, checkerAlive, open>>

TimeoutReturn ==
  /\ call.by = Checker /\ call.xid = NoXid /\ call.expired = {}
  /\ call' = Idle
  /\ UNCHANGED <<x2u, u2x, wait, waitLock, waitU, waitStartTime, checkerAlive, open>>

----------------------------------------------------------------------------
Add(t, x, u) ==
  \/ AddOwned(t, x, u) \/ AddFree(t, x, u)
  \/ AddWait(t, x, u) \/ AddDeadlock(t, x, u)

InCall ==
  \/ \E t \in Thread : RemoveNext(t) \/ RemoveReturn(t)
  \/ \E x \in Xid : TimeoutNext(x)
  \/ TimeoutRelease \/ TimeoutForget \/ TimeoutReturn

Next ==
  \/ \E t \in Thread, x \in Xid, u \in Uid : Add(t, x, u)
  \/ \E t \in Thread, x \in Xid : RemoveCall(t, x)
  \/ \E late \in SUBSET Xid : CheckTimeouts(late)
  \/ InCall

Spec == Init /\ [][Next]_vars

(* The thread inside a method goes on, and the daemon, which wakes every   *)
(* second, finds a start time old enough in the end and gets the mutex.    *)
Fairness ==
  /\ WF_vars(InCall)
  /\ \A x \in Xid : SF_vars(\E late \in SUBSET Xid : x \in late /\ CheckTimeouts(late))

FairSpec == Spec /\ Fairness

----------------------------------------------------------------------------
(* TypeOK: the maps hold what the fields of LockTable are declared to      *)
(* hold, and the mutex is held exactly while a method is in progress.      *)
TypeOK ==
  /\ IsMap(x2u, Xid, Seq(Uid))
  /\ IsMap(u2x, Uid, Xid)
  /\ IsMap(wait, Uid, Seq(Xid))
  /\ IsMap(waitLock, Xid, Thread)
  /\ IsMap(waitU, Xid, Uid)
  /\ waitStartTime \in SUBSET Xid
  /\ checkerAlive \in BOOLEAN
  /\ open \in SUBSET Xid
  /\ \/ call = Idle
     \/ \E t \in Thread, x \in Xid : call = [Idle EXCEPT !.by = t, !.xid = x]
     \/ /\ call \in [by : {Checker}, xid : Xid \cup {NoXid}, todo : Seq(Uid),
                     expired : SUBSET Xid]
        /\ checkerAlive
        /\ call.todo # <<>> => call.xid # NoXid

(* HoldingsExclusive: a row stands in the list of the transaction that     *)
(* u2x names as its owner and in no other list, and at most once: whatever *)
(* remove and rollbackTimeoutTransaction release was the caller's own.     *)
HoldingsExclusive ==
  \A x \in DOMAIN x2u : \A i \in 1..Len(x2u[x]) :
    /\ x2u[x][i] \in DOMAIN u2x
    /\ u2x[x2u[x][i]] = x
    /\ \A j \in 1..Len(x2u[x]) : x2u[x][i] = x2u[x][j] => i = j

(* RollbackOwnsRows: while the daemon takes the locks of a late            *)
(* transaction, that transaction no longer waits, holds no list in x2u,    *)
(* and still owns every row that is about to be released for it.           *)
RollbackOwnsRows ==
  call.by = Checker /\ call.xid # NoXid =>
    /\ call.xid \notin DOMAIN x2u \cup DOMAIN waitU
    /\ \A i \in 1..Len(call.todo) :
         /\ call.todo[i] \in DOMAIN u2x
         /\ u2x[call.todo[i]] = call.xid
         /\ \A j \in 1..Len(call.todo) : call.todo[i] = call.todo[j] => i = j

(* NoLostWakeup: a transaction recorded as waiting waits for a row that    *)
(* somebody owns, stands in that row's queue and has a lock, so the        *)
(* selectNewXID that frees the row can still reach it.                     *)
NoLostWakeup ==
  \A x \in DOMAIN waitU :
    /\ waitU[x] \in DOMAIN u2x
    /\ Contains(Listed(wait, waitU[x]), x)
    /\ x \in DOMAIN waitLock

(* NoDeadlockAmongHolders: no set of transactions all wait for rows that   *)
(* members of the set acquired through add.  hasDeadLock looks only when   *)
(* an edge is added, so this also says that hand-over never closes a cycle.*)
NoDeadlockAmongHolders ==
  ~ \E S \in SUBSET Xid :
      /\ S # {}
      /\ \A x \in S : x \in DOMAIN waitU /\ \E y \in S : IsInList(x2u, y, waitU[x])

(* EveryWaitEnds: while the daemon lives, a wait ends: by hand-over, by    *)
(* remove, or because checkForTimeouts finds the start time of the wait.   *)
EveryWaitEnds ==
  \A x \in Xid : x \in DOMAIN waitU ~> (x \notin DOMAIN waitU \/ ~checkerAlive)

(* OnlyOwnersCallReleases: a row leaves its owner only in a call made for  *)
(* that owner: its own remove, or the daemon's rollback of it.             *)
OnlyOwnersCallReleases ==
  [][\A u \in DOMAIN u2x :
       (u \in DOMAIN u2x' => u2x'[u] # u2x[u]) => call.xid = u2x[u]]_vars
=============================================================================
