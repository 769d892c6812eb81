---------------------------- MODULE UniqueIndex ----------------------------
(***************************************************************************)
(* backend/im/UniqueIndex.java under the statements of backend/tbm/Table.  *)
(* java: a table whose unique column is its VARCHAR primary key (to update *)
(* an INT column always throws in entry2Raw).  The index keeps the values  *)
(* that are committed, what each transaction inserted and what it will     *)
(* delete; the rows are versions of the version manager, read at READ      *)
(* COMMITTED.  insert, delete, update, commit and rollback touch the index *)
(* and the rows one after the other, and no lock spans the two.            *)
(***************************************************************************)
EXTENDS Naturals, Sequences, FiniteSets, Maps

CONSTANTS
  Xid,      \* transactions
  NoXid,    \* xmax of a row nobody deleted
  Val,      \* values of the unique column
  NoVal,    \* the new value of a statement that has none
  MaxRows,       \* bound: row versions written
  MaxStatements  \* bound: statements begun

ASSUME NoXidIsNone == NoXid \notin Xid
ASSUME MaxStatementsIsNat == MaxStatements \in Nat

VARIABLES
  known,       \* hasUniqueIndexes has the column: not after a restart
  index,       \* the committed values
  tempIndex,   \* transaction -> values it inserted
  deleteMark,  \* transaction -> values it will delete
  rows,        \* the row versions in the order they were written
  listed,      \* the rows in the B+ tree of the column
  status,      \* transaction -> its fate
  modified,    \* transactions that told the version manager of the table
  cmd,         \* transaction -> statement, commit or abort in progress
  started,     \* statements begun, counted for the bound only
  disturbed    \* history: a statement broke off after it changed the index or,
               \* an update, wrote a row; two transactions went for one row or value

ixVars == <<index, tempIndex, deleteMark>>
vars == <<known, index, tempIndex, deleteMark, rows, listed, status, modified, cmd, started, disturbed>>

NoCmd == [op |-> "none"]
Statement(op, pc, todo, new) ==
  [op |-> op, pc |-> pc, todo |-> todo, row |-> 0, newRow |-> 0, new |-> new, touched |-> FALSE]

Init ==
  /\ known = TRUE /\ index = {} /\ tempIndex = <<>> /\ deleteMark = <<>>
  /\ rows = <<>> /\ listed = {}
  /\ status = [x \in Xid |-> "none"] /\ modified = {}
  /\ cmd = [x \in Xid |-> NoCmd] /\ started = 0 /\ disturbed = FALSE

Committed(x) == x # NoXid /\ status[x] = "committed"
Running(x) == x # NoXid /\ status[x] = "active"
Visible(x, r) ==
  \/ r.xmin = x /\ r.xmax = NoXid
  \/ Committed(r.xmin) /\ r.xmax # x /\ ~Committed(r.xmax)

Temp(x) == IF x \in DOMAIN tempIndex THEN tempIndex[x] ELSE {}
Mark(x) == IF x \in DOMAIN deleteMark THEN deleteMark[x] ELSE {}

Ready(x) == status[x] = "active" /\ cmd[x] = NoCmd
At(x, ops, pc) == cmd[x].op \in ops /\ cmd[x].pc = pc
Goes(x, c) == cmd' = [cmd EXCEPT ![x] = c] /\ UNCHANGED started
Starts(x, c) ==
  /\ Ready(x) /\ started < MaxStatements
  /\ started' = started + 1
  /\ cmd' = [cmd EXCEPT ![x] = c]

(* The statement throws; what it did to the index and the rows stays.      *)
Throws(x) ==
  /\ Goes(x, NoCmd)
  /\ disturbed' = (disturbed \/ cmd[x].touched)

Begin(x) ==
  /\ status[x] = "none"
  /\ status' = [status EXCEPT ![x] = "active"]
  /\ UNCHANGED <<known, ixVars, rows, listed, modified, cmd, started, disturbed>>

----------------------------------------------------------------------------
(* UniqueIndex.insert and delete.  delete takes no lock, but is one change  *)
(* of one set.                                                              *)

TakenHere(x, v) == v \in index \cup Temp(x)

Taken(x, v) == v \in index \/ \E y \in DOMAIN tempIndex : v \in tempIndex[y]

IndexInsert(x, v) ==
  /\ tempIndex' = Put(tempIndex, x, IF Taken(x, v) THEN Temp(x) ELSE Temp(x) \cup {v})
  /\ UNCHANGED <<index, deleteMark>>

IndexDelete(x, v) ==
  /\ tempIndex' = Put(tempIndex, x, IF v \in index THEN Temp(x) ELSE Temp(x) \ {v})
  /\ deleteMark' = Put(deleteMark, x, IF v \in index THEN Mark(x) \cup {v} ELSE Mark(x))
  /\ UNCHANGED index

----------------------------------------------------------------------------
(* Table.insert.  A column the table does not know is a null pointer in    *)
(* string2Entry, whose search otherwise refuses only what the index does.  *)

InsertBegin(x, v) ==
  /\ known
  /\ Starts(x, Statement("insert", "index", {}, v))
  /\ UNCHANGED <<known, ixVars, rows, listed, status, modified, disturbed>>

(* Also the second half of UniqueIndex.update.                             *)
InsertIndex(x) ==
  /\ At(x, {"insert", "update"}, "index")
  /\ IndexInsert(x, cmd[x].new)
  /\ IF Taken(x, cmd[x].new)
       THEN Throws(x)
       ELSE /\ Goes(x, [cmd[x] EXCEPT !.pc = "row", !.touched = TRUE])
            /\ UNCHANGED disturbed
  /\ UNCHANGED <<known, rows, listed, status, modified>>

InsertRow(x) ==
  /\ At(x, {"insert", "update"}, "row")
  /\ Len(rows) < MaxRows
  /\ rows' = Append(rows, [val |-> cmd[x].new, xmin |-> x, xmax |-> NoXid])
  /\ Goes(x, [cmd[x] EXCEPT !.newRow = Len(rows) + 1,
                            !.pc = IF cmd[x].op = "insert" THEN "list" ELSE "row delete"])
  /\ UNCHANGED <<known, ixVars, listed, status, modified, disturbed>>

(* DataManagerImpl.insert finds no page, or the cache is full.             *)
InsertRowFails(x) ==
  /\ At(x, {"insert", "update"}, "row")
  /\ Throws(x)
  /\ UNCHANGED <<known, ixVars, rows, listed, status, modified>>

InsertList(x) ==
  /\ At(x, {"insert"}, "list")
  /\ listed' = listed \cup {cmd[x].newRow}
  /\ modified' = modified \cup {x}
  /\ Goes(x, NoCmd)
  /\ UNCHANGED <<known, ixVars, rows, status, disturbed>>

(* The B+ tree throws, with the row in it or not.                          *)
InsertListFails(x) ==
  /\ At(x, {"insert"}, "list")
  /\ listed' \in {listed, listed \cup {cmd[x].newRow}}
  /\ Throws(x)
  /\ UNCHANGED <<known, ixVars, rows, status, modified>>

----------------------------------------------------------------------------
(* Table.delete and Table.update over the rows parseWhere found.           *)

DeleteBegin(x, found) ==
  /\ Starts(x, Statement("delete", "read", found, NoVal))
  /\ UNCHANGED <<known, ixVars, rows, listed, status, modified, disturbed>>

UpdateBegin(x, found, v) ==
  /\ Starts(x, Statement("update", "read", found, v))
  /\ UNCHANGED <<known, ixVars, rows, listed, status, modified, disturbed>>

(* The next step with row u once it has been read.  update leaves a value  *)
(* that does not change alone; delete skips an index that is not there.    *)
AfterRead(x, u) ==
  IF cmd[x].op = "update" THEN (IF cmd[x].new = rows[u].val THEN "row" ELSE "index delete")
                          ELSE (IF known THEN "index delete" ELSE "row delete")

ReadRow(x, u) ==
  /\ At(x, {"delete", "update"}, "read") /\ u \in cmd[x].todo
  /\ Visible(x, rows[u])
  /\ Goes(x, [cmd[x] EXCEPT !.todo = @ \ {u}, !.row = u, !.pc = AfterRead(x, u)])
  /\ UNCHANGED <<known, ixVars, rows, listed, status, modified, disturbed>>

(* A row that is gone: update passes over it, delete parses null.          *)
ReadNothing(x, u) ==
  /\ At(x, {"delete", "update"}, "read") /\ u \in cmd[x].todo
  /\ ~Visible(x, rows[u])
  /\ IF cmd[x].op = "delete"
       THEN Throws(x)
       ELSE Goes(x, [cmd[x] EXCEPT !.todo = @ \ {u}]) /\ UNCHANGED disturbed
  /\ UNCHANGED <<known, ixVars, rows, listed, status, modified>>

(* The row cannot be read: the page cache is full.                         *)
ReadRowFails(x) ==
  /\ At(x, {"delete", "update"}, "read") /\ cmd[x].todo # {}
  /\ Throws(x)
  /\ UNCHANGED <<known, ixVars, rows, listed, status, modified>>

DeleteIndex(x) ==
  LET v == rows[cmd[x].row].val IN
  /\ At(x, {"delete", "update"}, "index delete") /\ known
  /\ IndexDelete(x, v)
  /\ IF v \in index \cup Temp(x)
       THEN /\ Goes(x, [cmd[x] EXCEPT !.touched = TRUE,
                          !.pc = IF cmd[x].op = "update" THEN "index" ELSE "row delete"])
            /\ disturbed' = (disturbed \/ \E y \in Xid \ {x} : v \in Mark(y))
       ELSE Throws(x)
  /\ UNCHANGED <<known, rows, listed, status, modified>>

(* update takes the index of the column for granted.                       *)
UpdateUnknown(x) ==
  /\ At(x, {"update"}, "index delete") /\ ~known
  /\ Throws(x)
  /\ UNCHANGED <<known, ixVars, rows, listed, status, modified>>

(* vm.delete, whose inner steps are in VersionManager: it refuses a row     *)
(* that is gone, and goes on although another transaction has deleted the   *)
(* row and is still running.  delete counts the answer, update drops it.    *)
Deleted(x, u) == IF Visible(x, rows[u]) THEN [rows EXCEPT ![u].xmax = x] ELSE rows

DeleteRow(x) ==
  LET u == cmd[x].row IN
  /\ At(x, {"delete", "update"}, "row delete")
  /\ rows' = Deleted(x, u)
  /\ disturbed' = (disturbed \/ ~Visible(x, rows[u]) \/ Running(rows[u].xmax))
  /\ listed' = IF cmd[x].op = "update" THEN listed \cup {cmd[x].newRow} ELSE listed
  /\ Goes(x, [cmd[x] EXCEPT !.pc = "read"])
  /\ UNCHANGED <<known, ixVars, status, modified>>

(* vm.delete throws before it changes the row: the page cache is full.      *)
DeleteRowFails(x) ==
  /\ At(x, {"delete", "update"}, "row delete")
  /\ Goes(x, NoCmd)
  /\ disturbed' = (disturbed \/ cmd[x].touched \/ cmd[x].op = "update")
  /\ UNCHANGED <<known, ixVars, rows, listed, status, modified>>

(* The old row is deleted, and the B+ tree throws at the new one.          *)
UpdateListFails(x) ==
  /\ At(x, {"update"}, "row delete")
  /\ rows' = Deleted(x, cmd[x].row)
  /\ listed' \in {listed, listed \cup {cmd[x].newRow}}
  /\ Goes(x, NoCmd)
  /\ disturbed' = TRUE
  /\ UNCHANGED <<known, ixVars, status, modified>>

(* The row lock would close a cycle: vm.delete aborts the transaction.     *)
DeleteDeadlock(x) ==
  /\ At(x, {"delete", "update"}, "row delete")
  /\ Visible(x, rows[cmd[x].row]) /\ Running(rows[cmd[x].row].xmax)
  /\ status' = [status EXCEPT ![x] = "aborted"]
  /\ Goes(x, [op |-> "abort", pc |-> "end"])
  /\ disturbed' = (disturbed \/ cmd[x].touched)
  /\ UNCHANGED <<known, ixVars, rows, listed, modified>>

StatementEnds(x) ==
  /\ At(x, {"delete", "update"}, "read") /\ cmd[x].todo = {}
  /\ modified' = modified \cup {x}
  /\ Goes(x, NoCmd)
  /\ UNCHANGED <<known, ixVars, rows, listed, status, disturbed>>

----------------------------------------------------------------------------
(* The version manager writes the status, then tells the tables.           *)

Commit(x) ==
  /\ Ready(x)
  /\ status' = [status EXCEPT ![x] = "committed"]
  /\ Goes(x, [op |-> "commit", pc |-> "end"])
  /\ UNCHANGED <<known, ixVars, rows, listed, modified, disturbed>>

Abort(x) ==
  /\ Ready(x)
  /\ status' = [status EXCEPT ![x] = "aborted"]
  /\ Goes(x, [op |-> "abort", pc |-> "end"])
  /\ UNCHANGED <<known, ixVars, rows, listed, modified, disturbed>>

ForgetsValues(x) == tempIndex' = Without(tempIndex, x) /\ UNCHANGED deleteMark

Forgets(x) == tempIndex' = Without(tempIndex, x) /\ deleteMark' = Without(deleteMark, x)

Touched(x) == x \in modified /\ x \in DOMAIN tempIndex

MergedKeepsMarked(x) == index \cup Temp(x)

Merged(x) == (index \cup Temp(x)) \ Mark(x)

(* A value that got into the index in the meantime is an exception.        *)
CommitIndex(x) ==
  /\ At(x, {"commit"}, "end")
  /\ IF Touched(x) /\ Temp(x) \cap index = {}
       THEN index' = Merged(x) /\ Forgets(x)
       ELSE UNCHANGED ixVars
  /\ Goes(x, NoCmd)
  /\ UNCHANGED <<known, rows, listed, status, modified, disturbed>>

RollbackIndex(x) ==
  /\ At(x, {"abort"}, "end")
  /\ IF Touched(x)
       THEN index' = index \cup Mark(x) /\ Forgets(x)
       ELSE UNCHANGED ixVars
  /\ Goes(x, NoCmd)
  /\ UNCHANGED <<known, rows, listed, status, modified, disturbed>>

(* The process ends; the next one aborts who was running and loads the      *)
(* table, whose indexes it does not fill again (Table.parseSelf).           *)
Restart ==
  /\ known' = FALSE /\ index' = {} /\ tempIndex' = <<>> /\ deleteMark' = <<>>
  /\ status' = [x \in Xid |-> IF status[x] = "active" THEN "aborted" ELSE status[x]]
  /\ modified' = {}
  /\ cmd' = [x \in Xid |-> NoCmd]
  /\ UNCHANGED <<rows, listed, started, disturbed>>

----------------------------------------------------------------------------
Step(x) ==
  \/ InsertIndex(x) \/ InsertRow(x) \/ InsertRowFails(x) \/ InsertList(x) \/ InsertListFails(x)
  \/ \E u \in listed : ReadRow(x, u) \/ ReadNothing(x, u)
  \/ ReadRowFails(x) \/ DeleteIndex(x) \/ UpdateUnknown(x)
  \/ DeleteRow(x) \/ DeleteRowFails(x) \/ UpdateListFails(x) \/ DeleteDeadlock(x)
  \/ StatementEnds(x) \/ CommitIndex(x) \/ RollbackIndex(x)

Next ==
  \/ \E x \in Xid :
       \/ Begin(x) \/ Commit(x) \/ Abort(x)
       \/ \E v \in Val : InsertBegin(x, v)
       \/ \E found \in SUBSET listed \ {{}} :
            DeleteBegin(x, found) \/ \E v \in Val : UpdateBegin(x, found, v)
       \/ Step(x)
  \/ Restart

Spec == Init /\ [][Next]_vars

----------------------------------------------------------------------------
(* TypeOK: the maps and the row versions have their types; a transaction    *)
(* is told to the index only while it runs or ends.                         *)
TypeOK ==
  /\ known \in BOOLEAN /\ disturbed \in BOOLEAN
  /\ index \subseteq Val
  /\ IsMap(tempIndex, Xid, SUBSET Val) /\ IsMap(deleteMark, Xid, SUBSET Val)
  /\ DOMAIN deleteMark \subseteq DOMAIN tempIndex
  /\ \A u \in DOMAIN rows : rows[u] \in [val : Val, xmin : Xid, xmax : Xid \cup {NoXid}]
  /\ listed \subseteq DOMAIN rows /\ modified \subseteq Xid
  /\ started \in 0..MaxStatements
  /\ status \in [Xid -> {"none", "active", "committed", "aborted"}]

(* InsertsExclude: two transactions never hold the same value in            *)
(* UniqueIndex.tempIndex, also when one of them has ended with an exception *)
(* and left its values there.                                               *)
InsertsExclude ==
  \A x, y \in DOMAIN tempIndex : x # y => tempIndex[x] \cap tempIndex[y] = {}

Live(r) == Committed(r.xmin) /\ ~Committed(r.xmax)

(* UniqueValues: UniqueIndex.insert is there to ensure uniqueness           *)
(* (UniqueIndex.java:30): no two rows that are committed and not deleted    *)
(* have the same value.                                                     *)
UniqueValues ==
  \A u, w \in DOMAIN rows :
    u # w /\ Live(rows[u]) /\ Live(rows[w]) => rows[u].val # rows[w].val

Ending(x) == cmd[x].op \in {"commit", "abort"}

(* ExactIndex: until a statement breaks off half way or two transactions go *)
(* for one row or value, values are unique, the index has every live row,   *)
(* blocks no other value, and no commit can meet a conflict.  After a       *)
(* restart values stay unique because nothing new can be inserted.          *)
ExactIndex ==
  ~disturbed =>
    /\ UniqueValues
    /\ known =>
         /\ \A u \in DOMAIN rows :
              Live(rows[u]) => \/ rows[u].val \in index
                               \/ \E x \in Xid : Ending(x) /\ rows[u].val \in Temp(x)
         /\ \A v \in index : \E u \in DOMAIN rows :
              /\ rows[u].val = v /\ Committed(rows[u].xmin)
              /\ (Committed(rows[u].xmax) => Ending(rows[u].xmax))
         /\ \A x \in Xid : Temp(x) # {} => /\ (Running(x) \/ Ending(x))
                                            /\ Temp(x) \cap index = {}
=============================================================================
