--------------------------- MODULE VersionManager ---------------------------
(***************************************************************************)
(* backend/vm/VersionManagerImpl.java with the Executor of every session   *)
(* above it and the transaction table (TransactionManagerImpl) and the     *)
(* LockTable below it.                                                     *)
(*                                                                         *)
(* A step is what one thread does between two points where another thread  *)
(* can act: VersionManagerImpl holds its own lock only while it looks a    *)
(* transaction up or begins one, and no lock at all between the check of   *)
(* an entry, its update, lt.remove and tm.commit.                          *)
(***************************************************************************)
EXTENDS Naturals, Sequences, FiniteSets, Visibility

CONSTANTS
  Session,     \* connections, each with its Executor
  Thread,      \* threads that execute statements
  Carrier,     \* session -> the threads that may execute its statements
  MaxXid,      \* bound: transactions begun
  LateXid,     \* bound: transactions whose waits may grow old
  Uid,         \* rows
  FirstRows,   \* rows committed before the first transaction
  NoRow,       \* a session is not at a row
  Level,       \* session -> isolation levels its client asks for
  Implicit,    \* bound: sessions that send statements without BEGIN
  Checker, NoThread, NoXid, MaxWaiters   \* of LockTable

Xid == 1..MaxXid

ASSUME SessionsHaveThreads ==
  Carrier \in [Session -> SUBSET Thread] /\ \A s \in Session : Carrier[s] # {}
ASSUME BoundsAreNat == MaxXid \in Nat /\ LateXid \subseteq Xid /\ FirstRows \subseteq Uid /\ NoRow \notin Uid
ASSUME ThreadsAreDistinct == Checker \notin Thread /\ NoThread \notin Thread /\ Checker # NoThread
ASSUME LockTableConstants == NoXid \notin Xid /\ MaxWaiters \in Nat
ASSUME LevelsAreLevels ==
  Level \in [Session -> SUBSET {"RU", "RC", "RR", "SER"}] /\ Implicit \subseteq Session

VARIABLES
  x2u, u2x, wait, waitLock, waitU, waitStartTime,
  call, checkerAlive, open,  \* of LockTable
  status,             \* the byte of every transaction in the XID file
  activeTransaction,  \* xid -> its Transaction; the super transaction left out
  globalLock,         \* the ReentrantLock SERIALIZABLE transactions keep
  entries,            \* row -> [xmin, xmax]
  xid,                \* Executor.xid of every session, 0 for none
  pc, on, cmd         \* what the session is doing, on which thread

ltVars == <<x2u, u2x, wait, waitLock, waitU, waitStartTime, call, checkerAlive, open>>
dbVars == <<status, activeTransaction, globalLock, entries>>
sessionVars == <<xid, pc, on, cmd>>
vars == <<ltVars, dbVars, sessionVars>>

LT == INSTANCE LockTable WITH Xid <- Xid

----------------------------------------------------------------------------
(* Locals of the method a session is in: row is the row deleted, ser and   *)
(* lost are t.isolationLevel = SERIALIZABLE and t = null of commit and     *)
(* internAbort; tmp and close tell who called.                             *)
NoCmd == [kind |-> "none", row |-> NoRow, ser |-> FALSE, lost |-> FALSE,
          tmp |-> FALSE, close |-> FALSE]
Free == [owner |-> NoThread, count |-> 0]

Init ==
  /\ LT!Init
  /\ status = [x \in Xid |-> "none"]
  /\ activeTransaction = <<>>
  /\ globalLock = Free
  /\ entries = [u \in FirstRows |-> [xmin |-> SuperXid, xmax |-> 0]]
  /\ xid = [s \in Session |-> 0]
  /\ pc = [s \in Session |-> "idle"]
  /\ on = [s \in Session |-> NoThread]
  /\ cmd = [s \in Session |-> NoCmd]

Active(x) == x \in DOMAIN activeTransaction
Healthy(x) == Active(x) /\ ~activeTransaction[x].err
Serializable(x) == Active(x) /\ activeTransaction[x].level = "SER"
Sees(x, u) == IsVisible(status, activeTransaction[x], entries[u])

(* updateXID writes one byte of the XID file.                              *)
UpdateXID(x, field) == status' = [status EXCEPT ![x] = field]

(* Only the levels with a snapshot remember who was active.                *)
NewTransaction(x, level) ==
  [xid |-> x, level |-> level, err |-> FALSE, autoAborted |-> FALSE,
   snapshot |-> IF level \in {"RR", "SER"} THEN DOMAIN activeTransaction ELSE {}]

SetXmax(u, x) == entries' = [entries EXCEPT ![u].xmax = x]

----------------------------------------------------------------------------
(* Executor: a statement starts on a free thread of its session.  One that *)
(* found no transaction runs in a temporary one, which it commits when it  *)
(* returned and aborts when it threw.                                      *)

FreeThread(s, t) ==
  pc[s] = "idle" /\ t \in Carrier[s] /\ \A r \in Session : on[r] # t

(* The session is about to execute a statement of a transaction on t.      *)
Executing(s, t) ==
  \/ FreeThread(s, t) /\ xid[s] # 0
  \/ pc[s] = "statement" /\ on[s] = t

Goto(s, label, t, c) ==
  /\ pc' = [pc EXCEPT ![s] = label]
  /\ on' = [on EXCEPT ![s] = t]
  /\ cmd' = [cmd EXCEPT ![s] = c]
  /\ UNCHANGED xid

(* A row is done; Table.delete and update go on to the next one.  Outside a *)
(* temporary transaction those rows are statements of their own.           *)
RowEnds(s, t) ==
  IF cmd[s].tmp
  THEN Goto(s, "statement", t, [NoCmd EXCEPT !.tmp = TRUE])
  ELSE Goto(s, "idle", NoThread, NoCmd)

StatementEnds(s, t, threw) ==
  IF cmd[s].tmp
  THEN Goto(s, IF threw THEN "abort" ELSE "commit", t, [NoCmd EXCEPT !.tmp = TRUE])
  ELSE Goto(s, "idle", NoThread, NoCmd)

(* A mutant of TransactionEnds that forgets the transaction although the   *)
(* version manager threw.                                                  *)
TransactionEndsAlways(s, threw) ==
  /\ xid' = [xid EXCEPT ![s] = 0]
  /\ pc' = [pc EXCEPT ![s] = "idle"]
  /\ on' = [on EXCEPT ![s] = NoThread]
  /\ cmd' = [cmd EXCEPT ![s] = NoCmd]

(* COMMIT, ABORT and the end of a temporary transaction: xid is reset only *)
(* after the call returned.  A closed connection loses its Executor.       *)
TransactionEnds(s, threw) ==
  /\ xid' = [xid EXCEPT ![s] = IF threw /\ ~cmd[s].close THEN @ ELSE 0]
  /\ pc' = [pc EXCEPT ![s] = "idle"]
  /\ on' = [on EXCEPT ![s] = NoThread]
  /\ cmd' = [cmd EXCEPT ![s] = NoCmd]

----------------------------------------------------------------------------
(* begin: takes the global lock, and keeps it for SERIALIZABLE.            *)

Acquire(lock, t) == [owner |-> t, count |-> lock.count + 1]
(* A mutant of Release that leaves the owner in place at the last unlock.   *)
ReleaseKeepsOwner(lock, t) == [owner |-> t, count |-> lock.count - 1]

Release(lock, t) ==
  IF lock.count = 1 THEN Free ELSE [owner |-> t, count |-> lock.count - 1]

(* A mutant of MayEnter: the global lock is not taken at all.              *)
MayEnterAlways(t) == t \in Thread
MayEnter(t) == globalLock.owner \in {NoThread, t}

(* A temporary transaction asks for no level and gets READ COMMITTED.       *)
Begin(s, t, level, tmp) ==
  /\ FreeThread(s, t) /\ xid[s] = 0
  /\ MayEnter(t)
  /\ \E x \in Xid :
       /\ status[x] = "none" /\ \A y \in 1..(x - 1) : status[y] # "none"
       /\ UpdateXID(x, "active")
       /\ activeTransaction' = LT!Put(activeTransaction, x, NewTransaction(x, level))
       /\ xid' = [xid EXCEPT ![s] = x]
  /\ globalLock' = IF level = "SER" THEN Acquire(globalLock, t) ELSE globalLock
  /\ pc' = [pc EXCEPT ![s] = IF tmp THEN "statement" ELSE "idle"]
  /\ on' = [on EXCEPT ![s] = IF tmp THEN t ELSE NoThread]
  /\ cmd' = [cmd EXCEPT ![s].tmp = tmp]
  /\ UNCHANGED <<ltVars, entries>>

(* A statement of a temporary transaction has no rows left, or it throws   *)
(* between two rows.                                                       *)
OtherStatement(s, threw) ==
  /\ pc[s] = "statement"
  /\ StatementEnds(s, on[s], threw)
  /\ UNCHANGED <<ltVars, dbVars>>

Insert(s, t, u) ==
  /\ Executing(s, t)
  /\ Healthy(xid[s])
  /\ u \notin DOMAIN entries
  /\ entries' = LT!Put(entries, u, [xmin |-> xid[s], xmax |-> 0])
  /\ RowEnds(s, t)
  /\ UNCHANGED <<ltVars, status, activeTransaction, globalLock>>

----------------------------------------------------------------------------
(* delete, up to the points where other threads can act.                   *)

(* A mutant of DeleteLook: a transaction that failed before is not refused.*)
DeleteLookUnchecked(s, t, u) ==
  /\ Executing(s, t)
  /\ Active(xid[s])
  /\ u \in DOMAIN entries /\ Sees(xid[s], u)
  /\ Goto(s, "lock", t, [cmd[s] EXCEPT !.kind = "delete", !.row = u])
  /\ UNCHANGED <<ltVars, dbVars>>

DeleteLook(s, t, u) ==
  /\ Executing(s, t)
  /\ Healthy(xid[s])
  /\ u \in DOMAIN entries /\ Sees(xid[s], u)
  /\ Goto(s, "lock", t, [cmd[s] EXCEPT !.kind = "delete", !.row = u])
  /\ UNCHANGED <<ltVars, dbVars>>

(* lt.add; the lock it returns is locked by this very thread, so that      *)
(* l.lock() does not block.                                                *)
DeleteLock(s) ==
  /\ pc[s] = "lock"
  /\ \/ LT!AddOwned(on[s], xid[s], cmd[s].row)
     \/ LT!AddFree(on[s], xid[s], cmd[s].row)
     \/ LT!AddWait(on[s], xid[s], cmd[s].row)
  /\ Goto(s, "check", on[s], cmd[s])
  /\ UNCHANGED dbVars

(* A mutant of AutoAbort that sets autoAborted before the rollback is done. *)
AutoAbortEarly(s) ==
  /\ activeTransaction' = [activeTransaction EXCEPT ![xid[s]].err = TRUE,
                                                    ![xid[s]].autoAborted = TRUE]
  /\ Goto(s, "remove", on[s],
          [cmd[s] EXCEPT !.kind = "auto", !.ser = Serializable(xid[s])])
  /\ UNCHANGED <<status, globalLock, entries>>

(* ConcurrentUpdateException: remembered in the transaction, then          *)
(* internAbort(xid, true).                                                 *)
AutoAbort(s) ==
  /\ activeTransaction' = [activeTransaction EXCEPT ![xid[s]].err = TRUE]
  /\ Goto(s, "remove", on[s],
          [cmd[s] EXCEPT !.kind = "auto", !.ser = Serializable(xid[s])])
  /\ UNCHANGED <<status, globalLock, entries>>

DeleteDeadlock(s) ==
  /\ pc[s] = "lock"
  /\ LT!AddDeadlock(on[s], xid[s], cmd[s].row)
  /\ AutoAbort(s)

DeleteSkip(s) ==
  /\ pc[s] = "check"
  /\ entries[cmd[s].row].xmax # xid[s]
  /\ IsVersionSkip(status, activeTransaction[xid[s]], entries[cmd[s].row])
  /\ AutoAbort(s)
  /\ UNCHANGED ltVars

DeleteCheck(s) ==
  /\ pc[s] = "check"
  /\ IF entries[cmd[s].row].xmax = xid[s]
     THEN RowEnds(s, on[s])
     ELSE /\ ~IsVersionSkip(status, activeTransaction[xid[s]], entries[cmd[s].row])
          /\ Goto(s, "write", on[s], cmd[s])
  /\ UNCHANGED <<ltVars, dbVars>>

DeleteWrite(s) ==
  /\ pc[s] = "write"
  /\ SetXmax(cmd[s].row, xid[s])
  /\ RowEnds(s, on[s])
  /\ UNCHANGED <<ltVars, status, activeTransaction, globalLock>>

----------------------------------------------------------------------------
(* commit and abort, by the client, by the Executor for a temporary        *)
(* transaction, or by Executor.close.                                      *)

Ending(s, t, label) ==
  \/ FreeThread(s, t) /\ xid[s] # 0
  \/ pc[s] = label /\ on[s] = t

(* t.err is thrown; nothing else happens.                                  *)
CommitRefused(s, t) ==
  /\ Ending(s, t, "commit")
  /\ Active(xid[s]) /\ ~Healthy(xid[s])
  /\ TransactionEnds(s, TRUE)
  /\ UNCHANGED <<ltVars, dbVars>>

(* A transaction that is no longer in the map is null here: the exception  *)
(* is caught and printed (Panic does not exit), and the commit goes on.    *)
Commit(s, t) ==
  /\ Ending(s, t, "commit")
  /\ Active(xid[s]) => Healthy(xid[s])
  /\ activeTransaction' = LT!Without(activeTransaction, xid[s])
  /\ Goto(s, "remove", t, [cmd[s] EXCEPT !.kind = "commit", !.lost = ~Active(xid[s]),
                             !.ser = Serializable(xid[s])])
  /\ UNCHANGED <<ltVars, status, globalLock, entries>>

(* A mutant of AbortLost that passes over the null as commit does.          *)
AbortLostSwallowed(s, t, close) ==
  /\ Ending(s, t, "abort") /\ (close => pc[s] = "idle")
  /\ ~Active(xid[s])
  /\ Goto(s, "remove", t, [cmd[s] EXCEPT !.kind = "abort", !.close = close])
  /\ UNCHANGED <<ltVars, dbVars>>

(* A null transaction throws in abort, and nothing is changed.             *)
AbortLost(s, t, close) ==
  /\ Ending(s, t, "abort") /\ (close => pc[s] = "idle")
  /\ ~Active(xid[s])
  /\ xid' = [xid EXCEPT ![s] = IF close THEN 0 ELSE @]
  /\ pc' = [pc EXCEPT ![s] = "idle"]
  /\ on' = [on EXCEPT ![s] = NoThread]
  /\ cmd' = [cmd EXCEPT ![s] = NoCmd]
  /\ UNCHANGED <<ltVars, dbVars>>

(* The end of internAbort: unlocking a lock the thread does not hold throws.*)
UnlockThrows(ser, t) == ser /\ globalLock.owner # t
UnlockGlobal(ser, t) ==
  globalLock' = IF ser /\ globalLock.owner = t THEN Release(globalLock, t) ELSE globalLock

(* The transaction was rolled back by itself: only the map and the global  *)
(* lock are left to clean.                                                 *)
AbortAutoAborted(s, t, close) ==
  /\ Ending(s, t, "abort") /\ (close => pc[s] = "idle")
  /\ Active(xid[s]) /\ activeTransaction[xid[s]].autoAborted
  /\ activeTransaction' = LT!Without(activeTransaction, xid[s])
  /\ UnlockGlobal(Serializable(xid[s]), t)
  /\ xid' = [xid EXCEPT ![s] =
               IF UnlockThrows(Serializable(xid[s]), t) /\ ~close THEN @ ELSE 0]
  /\ pc' = [pc EXCEPT ![s] = "idle"]
  /\ on' = [on EXCEPT ![s] = NoThread]
  /\ cmd' = [cmd EXCEPT ![s] = NoCmd]
  /\ UNCHANGED <<ltVars, status, entries>>

Abort(s, t, close) ==
  /\ Ending(s, t, "abort") /\ (close => pc[s] = "idle")
  /\ Active(xid[s]) /\ ~activeTransaction[xid[s]].autoAborted
  /\ activeTransaction' = LT!Without(activeTransaction, xid[s])
  /\ Goto(s, "remove", t, [cmd[s] EXCEPT !.kind = "abort", !.close = close,
                             !.ser = Serializable(xid[s])])
  /\ UNCHANGED <<ltVars, status, globalLock, entries>>

----------------------------------------------------------------------------
(* lt.remove, then the status, then the global lock.                       *)

RemoveCall(s) ==
  /\ pc[s] = "remove"
  /\ LT!RemoveCall(on[s], xid[s])
  /\ Goto(s, "removing", on[s], cmd[s])
  /\ UNCHANGED dbVars

(* An exception out of lt.remove: the status is never written.             *)
RemoveNext(s) ==
  /\ pc[s] = "removing"
  /\ LT!RemoveNext(on[s])
  /\ IF call' # LT!Idle THEN UNCHANGED sessionVars
     ELSE IF cmd[s].kind = "auto" THEN StatementEnds(s, on[s], TRUE)
     ELSE TransactionEnds(s, TRUE)
  /\ UNCHANGED dbVars

RemoveReturn(s) ==
  /\ pc[s] = "removing"
  /\ LT!RemoveReturn(on[s])
  /\ Goto(s, "finish", on[s], cmd[s])
  /\ UNCHANGED dbVars

(* tryLock by the owner only counts one up, and unlock one down: the       *)
(* global lock stays as it is.  A lost transaction throws after the status *)
(* is written, and so may table.commit (UniqueIndex.java:90).  What        *)
(* table.commit and table.rollback do to the index is in UniqueIndex.      *)
FinishCommit(s) ==
  /\ pc[s] = "finish" /\ cmd[s].kind = "commit"
  /\ UpdateXID(xid[s], "committed")
  /\ \E threw \in BOOLEAN : TransactionEnds(s, cmd[s].lost \/ threw)
  /\ UNCHANGED <<ltVars, activeTransaction, globalLock, entries>>

FinishAbort(s) ==
  /\ pc[s] = "finish" /\ cmd[s].kind = "abort"
  /\ UpdateXID(xid[s], "aborted")
  /\ UnlockGlobal(cmd[s].ser, on[s])
  /\ TransactionEnds(s, UnlockThrows(cmd[s].ser, on[s]))
  /\ UNCHANGED <<ltVars, activeTransaction, entries>>

FinishAuto(s) ==
  /\ pc[s] = "finish" /\ cmd[s].kind = "auto"
  /\ UpdateXID(xid[s], "aborted")
  /\ UnlockGlobal(cmd[s].ser, on[s])
  /\ activeTransaction' = [activeTransaction EXCEPT
                             ![xid[s]].autoAborted = ~UnlockThrows(cmd[s].ser, on[s])]
  /\ StatementEnds(s, on[s], TRUE)
  /\ UNCHANGED <<ltVars, entries>>

----------------------------------------------------------------------------
Statement(s) ==
  \/ \E t \in Thread, level \in Level[s] : Begin(s, t, level, FALSE)
  \/ s \in Implicit /\ \E t \in Thread : Begin(s, t, "RC", TRUE)
  \/ \E threw \in BOOLEAN : OtherStatement(s, threw)
  \/ \E t \in Thread, u \in Uid : Insert(s, t, u) \/ DeleteLook(s, t, u)
  \/ DeleteLock(s) \/ DeleteDeadlock(s)
  \/ DeleteSkip(s) \/ DeleteCheck(s) \/ DeleteWrite(s)

EndOfTransaction(s) ==
  \/ \E t \in Thread : CommitRefused(s, t) \/ Commit(s, t)
  \/ \E t \in Thread, close \in BOOLEAN :
       AbortLost(s, t, close) \/ AbortAutoAborted(s, t, close) \/ Abort(s, t, close)
  \/ RemoveCall(s) \/ RemoveNext(s) \/ RemoveReturn(s)
  \/ FinishCommit(s) \/ FinishAbort(s) \/ FinishAuto(s)

(* The daemon of the lock table: it knows nothing of the transactions.     *)
Timeouts ==
  /\ \/ \E late \in SUBSET LateXid : LT!CheckTimeouts(late)
     \/ \E x \in Xid : LT!TimeoutNext(x)
     \/ LT!TimeoutRelease \/ LT!TimeoutForget \/ LT!TimeoutReturn
  /\ UNCHANGED <<dbVars, sessionVars>>

Next == (\E s \in Session : Statement(s) \/ EndOfTransaction(s)) \/ Timeouts

Spec == Init /\ [][Next]_vars

----------------------------------------------------------------------------
(* TypeOK: the fields hold what they are declared to hold, a session is on *)
(* a thread exactly while it executes something, and two sessions never    *)
(* share a thread.                                                         *)
TypeOK ==
  /\ status \in [Xid -> {"none", "active", "committed", "aborted"}]
  /\ LT!IsMap(activeTransaction, Xid,
       [xid : Xid, level : {"RU", "RC", "RR", "SER"}, snapshot : SUBSET Xid,
        err : BOOLEAN, autoAborted : BOOLEAN])
  /\ \A x \in DOMAIN activeTransaction : activeTransaction[x].xid = x
  /\ globalLock \in [owner : Thread \cup {NoThread}, count : Nat]
  /\ globalLock.owner = NoThread <=> globalLock.count = 0
  /\ LT!IsMap(entries, Uid, [xmin : Xid \cup {0}, xmax : Xid \cup {0}])
  /\ xid \in [Session -> Xid \cup {0}]
  /\ pc \in [Session -> {"idle", "statement", "lock", "check", "write", "commit",
                          "abort", "remove", "removing", "finish"}]
  /\ on \in [Session -> Thread \cup {NoThread}]
  /\ cmd \in [Session -> [kind : {"none", "delete", "commit", "abort", "auto"},
                           row : Uid \cup {NoRow}, ser : BOOLEAN, lost : BOOLEAN,
                           tmp : BOOLEAN, close : BOOLEAN]]
  /\ \A s \in Session :
       /\ pc[s] = "idle" <=> on[s] = NoThread
       /\ pc[s] = "removing" <=> call.by \in Thread /\ call.by = on[s]
       /\ pc[s] \in {"lock", "check", "write"} => cmd[s].row \in DOMAIN entries
       /\ \A r \in Session \ {s} : on[r] = on[s] => on[s] = NoThread

(* CommittedIsFinal: the status of a committed transaction never changes,  *)
(* whatever its session sends afterwards (commit and abort do not look at  *)
(* the status they overwrite).                                             *)
CommittedIsFinal ==
  [][\A x \in Xid : status[x] = "committed" => status'[x] = "committed"]_vars

(* FateDecided: a session lets go of a transaction only when its status is *)
(* committed or aborted; only a closed connection may leave one undecided, *)
(* now or by the abort it started.                                         *)
FateDecided ==
  [][\A s \in Session :
       xid[s] # 0 /\ xid'[s] = 0 /\ ~cmd[s].close
         => status'[xid[s]] \in {"committed", "aborted"}
              \/ (pc[s] = "idle" /\ ~Active(xid[s]))]_vars

(* OneSessionEach: every transaction in the map belongs to exactly one     *)
(* session, which can still end it: none stays in later snapshots forever. *)
OneSessionEach ==
  /\ \A x \in DOMAIN activeTransaction : \E s \in Session : xid[s] = x
  /\ \A s, r \in Session : xid[s] = xid[r] /\ xid[s] # 0 => s = r

(* SerializableKeepsOthersOut: with one thread to a connection, no other   *)
(* session begins while a SERIALIZABLE transaction runs.                   *)
SerializableKeepsOthersOut ==
  [][\A s, r \in Session :
       /\ xid[s] = 0 /\ xid'[s] # 0
       /\ Serializable(xid[r]) /\ status[xid[r]] = "active"
       => s = r]_vars

(* AutoAbortedIsRolledBack: a transaction marked autoAborted, for which    *)
(* abort will do no more than clean the map, is aborted in the XID file    *)
(* and has no row in the lock table.                                       *)
AutoAbortedIsRolledBack ==
  \A x \in DOMAIN activeTransaction :
    activeTransaction[x].autoAborted =>
      status[x] = "aborted" /\ x \notin DOMAIN x2u /\ x \notin DOMAIN waitU

(* SnapshotIsolation: while the entries stay as they are, what a           *)
(* REPEATABLE READ or SERIALIZABLE transaction sees changes only when an   *)
(* older transaction commits that its snapshot did not hold.               *)
SnapshotIsolation ==
  [][\A x \in DOMAIN activeTransaction, u \in DOMAIN entries :
       /\ activeTransaction[x].level \in {"RR", "SER"}
       /\ UNCHANGED entries /\ Active(x)'
       /\ Sees(x, u)' # Sees(x, u)
       => \E y \in (1..(x - 1)) \ activeTransaction[x].snapshot :
            status[y] # "committed" /\ status'[y] = "committed"]_vars

(* LockRequestsAreOpen: no statement asks the lock table for a row once    *)
(* the transaction has given its rows back or was refused.                 *)
LockRequestsAreOpen ==
  \A s \in Session : pc[s] = "lock" => xid[s] \in open

----------------------------------------------------------------------------
(* What the repository says and the code does not do.                      *)

(* DeletesExclude: README.md promises two-phase locking: the mark of a     *)
(* transaction that deleted a row is overwritten only once it is aborted.  *)
DeletesExclude ==
  [][\A u \in DOMAIN entries :
       entries[u].xmax \notin {0, entries'[u].xmax}
         => status[entries[u].xmax] = "aborted"]_vars

(* RepeatableReads: Visibility.java:88 and 92 promise that a version counts*)
(* as it stood when the transaction began: what a transaction sees of a    *)
(* row another transaction wrote does not change while it runs.            *)
RepeatableReads ==
  [][\A x \in DOMAIN activeTransaction, u \in DOMAIN entries :
       /\ activeTransaction[x].level \in {"RR", "SER"} /\ Active(x)'
       /\ entries[u].xmin # x /\ x \notin {entries[u].xmax, entries'[u].xmax}
       => Sees(x, u)' = Sees(x, u)]_vars

(* CommitsAreActive: Error.java:46 promises an error for an operation        *)
(* "without an active transaction context": only a transaction that is      *)
(* active becomes committed.                                                *)
CommitsAreActive ==
  [][\A x \in Xid : status[x] # "committed" /\ status'[x] = "committed" => status[x] = "active"]_vars
=============================================================================
