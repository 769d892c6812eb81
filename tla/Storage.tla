------------------------------ MODULE Storage ------------------------------
(***************************************************************************)
(* What survives a crash: the XID file (backend/tm/                        *)
(* TransactionManagerImpl.java), the log (backend/dm/logger/               *)
(* LoggerImpl.java), the pages of the data file, and how opening a         *)
(* database puts them right again (backend/dm/DataManager.java,            *)
(* Recover.java).                                                          *)
(*                                                                         *)
(* A step is one write to a file or to a page in memory, so that a crash   *)
(* falls between any two.  A write the program made is in the file; an     *)
(* append to the log may be cut in the middle.  Writes of two threads to   *)
(* one file do not mix.                                                    *)
(*                                                                         *)
(* An item is a row version: its valid byte, and xmin and xmax of the      *)
(* entry in it.  A page is a map from the places of its items, and its     *)
(* free space begins behind the last.  A log record holds the images of    *)
(* an item before and after; for an insert the image before is the item    *)
(* made invalid, which is what undo writes.                                *)
(*                                                                         *)
(* Two transactions that have not ended do not delete the same row: what   *)
(* the row locks are for, and what VersionManager shows they do not do.    *)
(* When they do, undo brings back an image a later commit has replaced.    *)
(***************************************************************************)
EXTENDS Naturals, Sequences, FiniteSets, SequencesExt, Maps, Visibility

CONSTANTS
  MaxXid,    \* transactions begun
  MaxPage,   \* pages of the data file, PageOne apart
  MaxSlot,   \* items on a page
  MaxLog,    \* records in the log
  MaxCrash   \* crashes

ASSUME BoundsAreNumbers ==
  /\ MaxXid \in Nat \ {0} /\ MaxPage \in Nat \ {0} /\ MaxSlot \in Nat \ {0}
  /\ MaxLog \in Nat /\ MaxCrash \in Nat

VARIABLES
  header,    \* XID file: the counter in its header
  status,    \* XID file: a status byte for each transaction
  log,       \* the log file
  file,      \* the data file: its pages from the second on
  vc,        \* PageOne: does its check say that it was closed?
  mode,      \* down, failed, or how far opening the database has got, up
  counter,   \* TransactionManagerImpl.xidCounter
  running,   \* transactions begun since the database was opened
  mem,       \* page number -> its bytes in memory, where they are dirty
  op,        \* transaction -> the log record of its call in progress
  at,        \* the record redo or undo is at
  undoing,   \* the transaction being undone, 0: none
  work,      \* running transaction -> the rows it has inserted and deleted
  promised,  \* rows that transactions, by committing, have promised to show
  crashes

disk == <<header, status, log, file, vc>>
recovery == <<at, undoing>>
ghost == <<work, promised>>
vars == <<disk, mode, counter, running, mem, op, recovery, ghost, crashes>>

Xid == 1 .. MaxXid
PageNo == 1 .. MaxPage
Slot == 1 .. MaxSlot

Item(x) == [valid |-> TRUE, xmin |-> x, xmax |-> SuperXid]

Init ==
  /\ header = 0 /\ status = <<>> /\ log = <<>> /\ file = <<>> /\ vc = "closed"
  /\ mode = "down" /\ counter = 0 /\ running = {} /\ mem = <<>> /\ op = <<>>
  /\ at = 0 /\ undoing = 0
  /\ work = <<>> /\ promised = {} /\ crashes = 0

----------------------------------------------------------------------------
(* Transactions: each status is a byte at a place of its own.              *)

(* updateXID of begin: the byte of the next transaction.                   *)
BeginStatus ==
  /\ mode = "up" /\ counter < MaxXid
  /\ Len(status) > counter => status[counter + 1] # "active"
  /\ status' = IF Len(status) = counter THEN Append(status, "active")
                                        ELSE [status EXCEPT ![counter + 1] = "active"]
  /\ UNCHANGED <<header, log, file, vc, mode, counter, running, mem, op, recovery, ghost, crashes>>

(* A mutant of BeginCounter that keeps the new counter in memory.          *)
BeginCounterUnwritten ==
  /\ mode = "up" /\ Len(status) > counter /\ status[counter + 1] = "active"
  /\ counter' = counter + 1
  /\ running' = running \cup {counter + 1}
  /\ work' = Put(work, counter + 1, [ins |-> {}, del |-> {}])
  /\ UNCHANGED <<header, status, log, file, vc, mode, mem, op, recovery, promised, crashes>>

(* incrXIDCounter, and the return of begin.                                *)
BeginCounter ==
  /\ mode = "up" /\ Len(status) > counter /\ status[counter + 1] = "active"
  /\ counter' = counter + 1 /\ header' = counter + 1
  /\ running' = running \cup {counter + 1}
  /\ work' = Put(work, counter + 1, [ins |-> {}, del |-> {}])
  /\ UNCHANGED <<status, log, file, vc, mode, mem, op, recovery, promised, crashes>>

(* A mutant of Commit that does not wait for the statement.                *)
CommitEarly(x) ==
  /\ mode = "up" /\ x \in running
  /\ status' = [status EXCEPT ![x] = "committed"]
  /\ running' = running \ {x}
  /\ promised' = (promised \cup work[x].ins) \ work[x].del
  /\ work' = Without(work, x)
  /\ UNCHANGED <<header, log, file, vc, mode, counter, mem, op, recovery, crashes>>

(* A statement has ended before its transaction does.                      *)
Commit(x) ==
  /\ mode = "up" /\ x \in running \ DOMAIN op
  /\ status' = [status EXCEPT ![x] = "committed"]
  /\ running' = running \ {x}
  /\ promised' = (promised \cup work[x].ins) \ work[x].del
  /\ work' = Without(work, x)
  /\ UNCHANGED <<header, log, file, vc, mode, counter, mem, op, recovery, crashes>>

(* Nothing is taken back: its versions are just never seen.                *)
Abort(x) ==
  /\ mode = "up" /\ x \in running \ DOMAIN op
  /\ status' = [status EXCEPT ![x] = "aborted"]
  /\ running' = running \ {x}
  /\ work' = Without(work, x)
  /\ UNCHANGED <<header, log, file, vc, mode, counter, mem, op, recovery, promised, crashes>>

----------------------------------------------------------------------------
(* Rows.                                                                   *)

View(p) == IF p \in DOMAIN mem THEN mem[p] ELSE file[p]
FSO(p) == Max({0} \cup DOMAIN View(p))
InsertsOn(p) == {x \in DOMAIN op : op[x].insert /\ op[x].page = p}
Ready(x) == mode = "up" /\ x \in running \ DOMAIN op

(* The page index gives a page with room to one insert at a time.          *)
Selectable == {p \in 1 .. Len(file) : FSO(p) < MaxSlot /\ InsertsOn(p) = {}}

(* newPage writes the empty page to the file at once.                      *)
NewPage ==
  /\ \E x \in Xid : Ready(x)
  /\ Selectable = {} /\ Len(file) < MaxPage
  /\ file' = Append(file, <<>>)
  /\ UNCHANGED <<header, status, log, vc, mode, counter, running, mem, op, recovery, ghost, crashes>>

(* A record of the log; bytes says how much of it was written.             *)
Record(x, p, s, old, new, isInsert) ==
  [xid |-> x, page |-> p, slot |-> s, old |-> old, new |-> new, insert |-> isInsert, bytes |-> "all"]

InsertRecord(x, p) ==
  Record(x, p, FSO(p) + 1, [Item(x) EXCEPT !.valid = FALSE], Item(x), TRUE)

(* insert logs first,                                                      *)
InsertLog(x, p) ==
  /\ Ready(x) /\ p \in Selectable /\ Len(log) < MaxLog
  /\ log' = Append(log, InsertRecord(x, p))
  /\ op' = Put(op, x, InsertRecord(x, p))
  /\ UNCHANGED <<header, status, file, vc, mode, counter, running, mem, recovery, ghost, crashes>>

(* then writes the item on the page and lets the page go.                  *)
InsertPage(x) ==
  /\ mode = "up" /\ x \in DOMAIN op /\ op[x].insert
  /\ LET r == op[x]
     IN  /\ mem' = Put(mem, r.page, Put(View(r.page), r.slot, r.new))
         /\ work' = [work EXCEPT ![x].ins = @ \cup {<<r.page, r.slot>>}]
  /\ op' = Without(op, x)
  /\ UNCHANGED <<disk, mode, counter, running, recovery, promised, crashes>>

(* What a running transaction may delete: a row it sees.                   *)
Deletable(x, e) ==
  /\ e.valid
  /\ ReadCommitted(status, [xid |-> x], e)
  /\ e.xmax \notin running

(* delete: before, and xmax is set on the page, which stays in use,        *)
DeletePage(x, p, s) ==
  /\ Ready(x) /\ Len(log) < MaxLog
  /\ s \in DOMAIN View(p) /\ Deletable(x, View(p)[s])
  /\ LET old == View(p)[s]
         new == [old EXCEPT !.xmax = x]
     IN  /\ mem' = Put(mem, p, Put(View(p), s, new))
         /\ op' = Put(op, x, Record(x, p, s, old, new, FALSE))
  /\ UNCHANGED <<disk, mode, counter, running, recovery, ghost, crashes>>

(* after logs it.                                                          *)
DeleteLog(x) ==
  /\ mode = "up" /\ x \in DOMAIN op /\ ~op[x].insert /\ Len(log) < MaxLog
  /\ log' = Append(log, op[x])
  /\ work' = [work EXCEPT ![x].del = @ \cup {<<op[x].page, op[x].slot>>}]
  /\ op' = Without(op, x)
  /\ UNCHANGED <<header, status, file, vc, mode, counter, running, mem, recovery, promised, crashes>>

(* A mutant of Evict that writes pages somebody uses.                      *)
EvictUsed(p) ==
  /\ mode = "up" /\ p \in DOMAIN mem
  /\ file' = [file EXCEPT ![p] = mem[p]]
  /\ mem' = Without(mem, p)
  /\ UNCHANGED <<header, status, log, vc, mode, counter, running, op, recovery, ghost, crashes>>

(* The last user of a dirty page has let it go.                            *)
Evict(p) ==
  /\ mode = "up" /\ p \in DOMAIN mem
  /\ \A x \in DOMAIN op : op[x].page # p
  /\ file' = [file EXCEPT ![p] = mem[p]]
  /\ mem' = Without(mem, p)
  /\ UNCHANGED <<header, status, log, vc, mode, counter, running, op, recovery, ghost, crashes>>

----------------------------------------------------------------------------
(* The end of a process.                                                   *)

Forget ==
  /\ counter' = 0 /\ running' = {} /\ mem' = <<>> /\ op' = <<>>
  /\ at' = 0 /\ undoing' = 0 /\ work' = <<>>
  /\ UNCHANGED promised

(* close, as the callers that keep the files call it, with no transaction  *)
(* open: all pages are written, and PageOne says so.                       *)
Close ==
  /\ mode = "up" /\ running = {} /\ mem = <<>>
  /\ vc' = "closed" /\ mode' = "down"
  /\ Forget
  /\ UNCHANGED <<header, status, log, file, crashes>>

(* A crash, perhaps in the middle of an append to the log: of not more     *)
(* than the size and the checksum, or of a part of the record.             *)
Torn(b) == [Record(1, 1, 1, Item(1), Item(1), TRUE) EXCEPT !.bytes = b]

Crash ==
  /\ mode # "down" /\ crashes < MaxCrash
  /\ \/ log' = log
     \/ /\ mode = "up" /\ running # {} /\ Len(log) < MaxLog
        /\ \E b \in {"head", "part"} : log' = Append(log, Torn(b))
  /\ mode' = "down" /\ crashes' = crashes + 1
  /\ Forget
  /\ UNCHANGED <<header, status, file, vc>>

----------------------------------------------------------------------------
(* Opening the database.                                                   *)

(* internNext reads up to the first record that is not whole.              *)
Readable(l) ==
  LET broken == {n \in 1 .. Len(l) : l[n].bytes # "all"}
  IN  IF broken = {} THEN l ELSE SubSeq(l, 1, Min(broken) - 1)

(* fileSize still counts the bytes of the tail, so next reads zeros behind *)
(* the last record: an empty record, on which recover throws.              *)
ReadsPastEnd(l) == l # <<>> /\ Last(l).bytes = "part"

(* A mutant of Open that removes the tail after the recovery.              *)
OpenTruncatesLate ==
  /\ mode = "down"
  /\ counter' = header
  /\ IF vc = "open" /\ ReadsPastEnd(log)
     THEN mode' = "failed" /\ UNCHANGED log
     ELSE mode' = (IF vc = "closed" THEN "ready" ELSE "truncate") /\ log' = Readable(log)
  /\ UNCHANGED <<header, status, file, vc, running, mem, op, recovery, ghost, crashes>>

(* The XID file, then PageOne, then the log, whose bad tail is removed by  *)
(* checkAndRemoveTail.                                                     *)
Open ==
  /\ mode = "down"
  /\ counter' = header
  /\ log' = Readable(log)
  /\ mode' = CASE vc = "closed" -> "ready"
               [] vc = "open" /\ ReadsPastEnd(log) -> "failed"
               [] OTHER -> "truncate"
  /\ UNCHANGED <<header, status, file, vc, running, mem, op, recovery, ghost, crashes>>

(* The process ends with the exception of recover.                         *)
OpenFails ==
  /\ mode = "failed"
  /\ mode' = "down"
  /\ Forget
  /\ UNCHANGED <<disk, crashes>>

(* What the loops over next go through.                                    *)
Records == Readable(log)
LastPage == Max({0} \cup {Records[n].page : n \in 1 .. Len(Records)})

(* setLength to the last page a record speaks of: pages behind it are cut  *)
(* off.                                                                    *)
RecTruncate ==
  /\ mode = "truncate"
  /\ file' = [p \in 1 .. LastPage |-> IF p \in DOMAIN file THEN file[p] ELSE <<>>]
  /\ mode' = "redo" /\ at' = 1
  /\ UNCHANGED <<header, status, log, vc, counter, running, mem, op, undoing, ghost, crashes>>

Restore(r, image) == file' = [file EXCEPT ![r.page] = Put(@, r.slot, image)]

(* Each page is let go, and so written, with each record.                  *)
Redo ==
  /\ mode = "redo" /\ at <= Len(Records)
  /\ IF status[Records[at].xid] # "active" THEN Restore(Records[at], Records[at].new) ELSE UNCHANGED file
  /\ at' = at + 1
  /\ UNCHANGED <<header, status, log, vc, mode, counter, running, mem, op, undoing, ghost, crashes>>

(* A mutant of RedoEnds that stops before the last record.                 *)
RedoEndsEarly ==
  /\ mode = "redo" /\ at >= Len(Records)
  /\ mode' = "undo" /\ at' = 0
  /\ UNCHANGED <<disk, counter, running, mem, op, undoing, ghost, crashes>>

RedoEnds ==
  /\ mode = "redo" /\ at > Len(Records)
  /\ mode' = "undo" /\ at' = 0
  /\ UNCHANGED <<disk, counter, running, mem, op, undoing, ghost, crashes>>

ToUndo == {Records[n].xid : n \in {m \in 1 .. Len(Records) : status[Records[m].xid] = "active"}}

(* The order of a HashMap.                                                 *)
UndoBegins(x) ==
  /\ mode = "undo" /\ undoing = 0 /\ x \in ToUndo
  /\ undoing' = x /\ at' = Len(Records)
  /\ UNCHANGED <<disk, mode, counter, running, mem, op, ghost, crashes>>

(* Backwards through the records of the transaction.                       *)
Undo ==
  /\ mode = "undo" /\ undoing # 0 /\ at > 0
  /\ IF Records[at].xid = undoing THEN Restore(Records[at], Records[at].old) ELSE UNCHANGED file
  /\ at' = at - 1
  /\ UNCHANGED <<header, status, log, vc, mode, counter, running, mem, op, undoing, ghost, crashes>>

(* A mutant of UndoEnds that leaves the transaction active.                *)
UndoEndsActive ==
  /\ mode = "undo" /\ undoing # 0 /\ at = 0
  /\ undoing' = 0 /\ mode' = IF ToUndo = {undoing} THEN "ready" ELSE mode
  /\ UNCHANGED <<disk, counter, running, mem, op, at, ghost, crashes>>

(* tm.abort.                                                               *)
UndoEnds ==
  /\ mode = "undo" /\ undoing # 0 /\ at = 0
  /\ status' = [status EXCEPT ![undoing] = "aborted"]
  /\ undoing' = 0
  /\ UNCHANGED <<header, log, file, vc, mode, counter, running, mem, op, at, ghost, crashes>>

RecDone ==
  /\ mode = "undo" /\ undoing = 0 /\ ToUndo = {}
  /\ mode' = "ready"
  /\ UNCHANGED <<disk, counter, running, mem, op, recovery, ghost, crashes>>

(* setVcOpen and flushPage: from now on a crash is seen.                   *)
Opened ==
  /\ mode = "ready"
  /\ vc' = "open" /\ mode' = "up"
  /\ UNCHANGED <<header, status, log, file, counter, running, mem, op, recovery, ghost, crashes>>

----------------------------------------------------------------------------
Recovering == RecTruncate \/ Redo \/ RedoEnds \/ (\E x \in Xid : UndoBegins(x)) \/ Undo \/ UndoEnds \/ RecDone

Next ==
  \/ BeginStatus \/ BeginCounter \/ NewPage
  \/ \E x \in Xid :
       \/ Commit(x) \/ Abort(x)
       \/ \E p \in PageNo : InsertLog(x, p)
       \/ InsertPage(x)
       \/ \E p \in 1 .. Len(file), s \in Slot : DeletePage(x, p, s)
       \/ DeleteLog(x)
  \/ \E p \in PageNo : Evict(p)
  \/ Close \/ Crash
  \/ Open \/ OpenFails \/ Recovering \/ Opened

Spec == Init /\ [][Next]_vars

(* Somebody starts the program again and again, and nothing stops it but a *)
(* crash.                                                                  *)
Starting == Open \/ OpenFails \/ Recovering \/ Opened
FairSpec == Spec /\ WF_vars(Starting)

----------------------------------------------------------------------------
Row == [valid : BOOLEAN, xmin : Xid, xmax : Xid \cup {SuperXid}]
Page == UNION {[D -> Row] : D \in SUBSET Slot}
LogRecord == [xid : Xid, page : PageNo, slot : Slot, old : Row, new : Row,
              insert : BOOLEAN, bytes : {"all", "head", "part"}]

TypeOK ==
  /\ header \in 0 .. MaxXid /\ counter \in 0 .. MaxXid
  /\ status \in Seq({"active", "committed", "aborted"}) /\ Len(status) <= MaxXid
  /\ log \in Seq(LogRecord) /\ Len(log) <= MaxLog
  /\ file \in Seq(Page) /\ Len(file) <= MaxPage
  /\ vc \in {"open", "closed"}
  /\ mode \in {"down", "failed", "truncate", "redo", "undo", "ready", "up"}
  /\ running \subseteq Xid
  /\ work \in [running -> [ins : SUBSET (PageNo \X Slot), del : SUBSET (PageNo \X Slot)]]
  /\ IsMap(mem, 1 .. Len(file), Page)
  /\ IsMap(op, running, LogRecord)
  /\ \A x \in DOMAIN op : op[x].xid = x /\ op[x].page <= Len(file)
  /\ at \in 0 .. MaxLog + 1 /\ undoing \in 0 .. MaxXid
  /\ promised \subseteq PageNo \X Slot /\ crashes \in 0 .. MaxCrash

(* Rows a transaction that begins now would read.                          *)
Shown(p, s) ==
  /\ s \in DOMAIN View(p) /\ View(p)[s].valid
  /\ ReadCommitted(status, [xid |-> MaxXid + 1], View(p)[s])

Visible == {row \in (1 .. Len(file)) \X Slot : Shown(row[1], row[2])}

(* Whenever the database is open it shows exactly the rows that committed  *)
(* transactions have left: a commit survives every crash, also one in the  *)
(* middle of a recovery (Recover.java:88), and what did not commit never   *)
(* shows.                                                                  *)
Durable == mode = "up" => Visible = promised

(* What is in the data file can be taken back: every version and every     *)
(* deletion in it has its record in the log (DataItemImpl.java:66,         *)
(* DataManagerImpl.java:73).                                               *)
WriteAhead ==
  mode = "up" => \A p \in 1 .. Len(file) : \A s \in DOMAIN file[p] :
    LET e == file[p][s]
        Logged(x) == \E n \in 1 .. Len(Records) :
          Records[n].xid = x /\ Records[n].page = p /\ Records[n].slot = s
    IN  Logged(e.xmin) /\ (e.xmax # SuperXid => Logged(e.xmax))

(* After a restart the transactions of the processes before are over: none *)
(* that wrote anything is active, so none blocks or confuses those to come *)
(* (Recover.java:139).                                                     *)
NoneLeftActive ==
  mode = "up" => \A n \in 1 .. Len(Records) :
    Records[n].xid \in running \/ status[Records[n].xid] # "active"

(* What was decided of a transaction stays, over crashes and restarts, and *)
(* its number is never given out again (TransactionManagerImpl.java:118).  *)
FateIsFinal ==
  [][\A x \in 1 .. Len(status) :
       status[x] # "active" => x \in 1 .. Len(status') /\ status'[x] = status[x]]_vars

(* An open that fails removes what made it fail: started again, the        *)
(* database comes up (LoggerImpl.java:163).                                *)
ComesUp == mode = "down" ~> mode = "up"
=============================================================================
