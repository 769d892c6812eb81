------------------------- MODULE UniqueIndexProofs -------------------------
(***************************************************************************)
(* What holds of the unique index for any transactions, values and bounds.  *)
(*   ValuesExclude  InsertsExclude is inductive: only UniqueIndex.insert    *)
(*     adds a value to what a transaction holds, and it has looked at what  *)
(*     all of them hold.                                                    *)
(*   IndexTypes     TypeOK, from where a statement may stand (Shaped).      *)
(*   IndexExact     ExactIndex, from how the rows a transaction wrote and   *)
(*     took, the values it holds and marks, and the statement it is in      *)
(*     belong together (Calm, Exact).                                       *)
(***************************************************************************)
EXTENDS UniqueIndex, TLAPS

(* A transaction whose values are replaced by some that no other holds.    *)
LEMMA PutExcludes ==
  ASSUME NEW f, NEW x, NEW S,
         \A y, z \in DOMAIN f : y # z => f[y] \cap f[z] = {},
         \A y \in DOMAIN f : y # x => f[y] \cap S = {}
  PROVE  \A y, z \in DOMAIN Put(f, x, S) :
           y # z => Put(f, x, S)[y] \cap Put(f, x, S)[z] = {}
<1> SUFFICES ASSUME NEW y \in DOMAIN f \cup {x}, NEW z \in DOMAIN f \cup {x}, y # z
             PROVE  Put(f, x, S)[y] \cap Put(f, x, S)[z] = {}
    BY DEF Put
<1>1. CASE y = x
  <2>1. Put(f, x, S)[y] = S /\ Put(f, x, S)[z] = f[z] /\ z \in DOMAIN f
        BY <1>1 DEF Put
  <2> QED BY <2>1, <1>1
<1>2. CASE z = x
  <2>1. Put(f, x, S)[z] = S /\ Put(f, x, S)[y] = f[y] /\ y \in DOMAIN f
        BY <1>2 DEF Put
  <2> QED BY <2>1, <1>2
<1>3. CASE y # x /\ z # x
  <2>1. Put(f, x, S)[z] = f[z] /\ Put(f, x, S)[y] = f[y] /\ y \in DOMAIN f /\ z \in DOMAIN f
        BY <1>3 DEF Put
  <2> QED BY <2>1
<1> QED BY <1>1, <1>2, <1>3

(* What a transaction holds is in no other's set.                          *)
LEMMA TempExcludes ==
  ASSUME InsertsExclude, NEW x, NEW y \in DOMAIN tempIndex, y # x
  PROVE  tempIndex[y] \cap Temp(x) = {}
<1>1. CASE x \in DOMAIN tempIndex
      BY <1>1 DEF Temp, InsertsExclude
<1>2. CASE x \notin DOMAIN tempIndex
      BY <1>2 DEF Temp
<1> QED BY <1>1, <1>2

LEMMA IndexInsertExcludes ==
  ASSUME InsertsExclude, NEW x, NEW v, IndexInsert(x, v)
  PROVE  InsertsExclude'
<1> DEFINE S == IF Taken(x, v) THEN Temp(x) ELSE Temp(x) \cup {v}
<1>1. tempIndex' = Put(tempIndex, x, S)
      BY DEF IndexInsert
<1>2. ASSUME NEW y \in DOMAIN tempIndex, y # x
      PROVE  tempIndex[y] \cap S = {}
  <2>1. tempIndex[y] \cap Temp(x) = {}
        BY <1>2, TempExcludes
  <2>2. ~Taken(x, v) => v \notin tempIndex[y]
        BY <1>2 DEF Taken
  <2> QED BY <2>1, <2>2
<1> HIDE DEF S
<1> QED BY <1>1, <1>2, PutExcludes DEF InsertsExclude

LEMMA IndexDeleteExcludes ==
  ASSUME InsertsExclude, NEW x, NEW v, IndexDelete(x, v)
  PROVE  InsertsExclude'
<1> DEFINE S == IF v \in index THEN Temp(x) ELSE Temp(x) \ {v}
<1>1. tempIndex' = Put(tempIndex, x, S)
      BY DEF IndexDelete
<1>2. ASSUME NEW y \in DOMAIN tempIndex, y # x
      PROVE  tempIndex[y] \cap S = {}
  <2>1. tempIndex[y] \cap Temp(x) = {}
        BY <1>2, TempExcludes
  <2> QED BY <2>1
<1> HIDE DEF S
<1> QED BY <1>1, <1>2, PutExcludes DEF InsertsExclude

LEMMA ForgetsExcludes ==
  ASSUME InsertsExclude, NEW x, Forgets(x)
  PROVE  InsertsExclude'
<1>1. tempIndex' = Without(tempIndex, x)
      BY DEF Forgets
<1>2. /\ DOMAIN Without(tempIndex, x) = DOMAIN tempIndex \ {x}
      /\ \A y \in DOMAIN tempIndex \ {x} : Without(tempIndex, x)[y] = tempIndex[y]
      BY DEF Without
<1> QED BY <1>1, <1>2 DEF InsertsExclude

LEMMA StepExcludes ==
  ASSUME InsertsExclude, [Next]_vars
  PROVE  InsertsExclude'
<1>1. ASSUME UNCHANGED tempIndex PROVE InsertsExclude'
      BY <1>1 DEF InsertsExclude
<1>2. CASE UNCHANGED vars
      BY <1>1, <1>2 DEF vars
<1>3. CASE Restart
      BY <1>3 DEF Restart, InsertsExclude
<1>4. ASSUME NEW x \in Xid, Step(x) PROVE InsertsExclude'
  <2>1. CASE InsertIndex(x)
        BY <2>1, IndexInsertExcludes DEF InsertIndex
  <2>2. CASE DeleteIndex(x)
        BY <2>2, IndexDeleteExcludes DEF DeleteIndex
  <2>3. CASE CommitIndex(x)
        BY <2>3, <1>1, ForgetsExcludes DEF CommitIndex, ixVars
  <2>4. CASE RollbackIndex(x)
        BY <2>4, <1>1, ForgetsExcludes DEF RollbackIndex, ixVars
  <2>5. CASE InsertRow(x) \/ InsertRowFails(x) \/ InsertList(x) \/ InsertListFails(x)
        BY <2>5, <1>1 DEF InsertRow, InsertRowFails, InsertList, InsertListFails, ixVars
  <2>6. CASE (\E u \in listed : ReadRow(x, u) \/ ReadNothing(x, u)) \/ ReadRowFails(x)
        BY <2>6, <1>1 DEF ReadRow, ReadNothing, ReadRowFails, ixVars
  <2>7. CASE UpdateUnknown(x) \/ DeleteDeadlock(x) \/ StatementEnds(x)
        BY <2>7, <1>1 DEF UpdateUnknown, DeleteDeadlock, StatementEnds, ixVars
  <2>8. CASE DeleteRow(x) \/ DeleteRowFails(x) \/ UpdateListFails(x)
        BY <2>8, <1>1 DEF DeleteRow, DeleteRowFails, UpdateListFails, ixVars
  <2> QED BY <1>4, <2>1, <2>2, <2>3, <2>4, <2>5, <2>6, <2>7, <2>8 DEF Step
<1>5. ASSUME NEW x \in Xid, Begin(x) \/ Commit(x) \/ Abort(x) PROVE InsertsExclude'
      BY <1>5, <1>1 DEF Begin, Commit, Abort, ixVars
<1>6. ASSUME NEW x \in Xid, NEW v \in Val, InsertBegin(x, v) PROVE InsertsExclude'
      BY <1>6, <1>1 DEF InsertBegin, ixVars
<1>7. ASSUME NEW x \in Xid, NEW found \in SUBSET listed \ {{}},
             DeleteBegin(x, found) \/ \E v \in Val : UpdateBegin(x, found, v)
      PROVE InsertsExclude'
      BY <1>7, <1>1 DEF DeleteBegin, UpdateBegin, ixVars
<1> QED BY <1>2, <1>3, <1>4, <1>5, <1>6, <1>7 DEF Next

(* ValuesExclude: a value is held by one transaction at most, whatever     *)
(* statements break off and whenever the process restarts.                 *)
THEOREM ValuesExclude == Spec => []InsertsExclude
<1>1. Init => InsertsExclude
      BY DEF Init, InsertsExclude
<1> QED BY <1>1, StepExcludes, PTL DEF Spec

----------------------------------------------------------------------------
(* Types.                                                                  *)

Ops == {"insert", "delete", "update"}
StatementCmd ==
  [op : Ops, pc : {"index", "row", "list", "read", "index delete", "row delete"},
   todo : SUBSET Nat, row : Nat, newRow : Nat, new : Val \cup {NoVal}, touched : BOOLEAN]
EndCmd == {[op |-> "commit", pc |-> "end"], [op |-> "abort", pc |-> "end"]}
Command == {NoCmd} \cup EndCmd \cup StatementCmd
Version == [val : Val, xmin : Xid, xmax : Xid \cup {NoXid}]

InStatement(x) == cmd[x].op \in Ops

IndexTyped ==
  /\ known \in BOOLEAN /\ disturbed \in BOOLEAN
  /\ index \subseteq Val
  /\ IsMap(tempIndex, Xid, SUBSET Val) /\ IsMap(deleteMark, Xid, SUBSET Val)
  /\ DOMAIN deleteMark \subseteq DOMAIN tempIndex
RowsTyped ==
  /\ rows \in Seq(Version)
  /\ listed \subseteq DOMAIN rows /\ modified \subseteq Xid
StatusTyped == status \in [Xid -> {"none", "active", "committed", "aborted"}]
CmdTyped == cmd \in [Xid -> Command] /\ started \in 0..MaxStatements

(* A version that x wrote and nobody deleted.                              *)
Current(x, u) == u \in DOMAIN rows /\ rows[u].xmin = x /\ rows[u].xmax = NoXid

(* Where a statement is, and what it then has in its locals.               *)
Located(x) ==
  /\ cmd[x].op = "insert" => cmd[x].pc \in {"index", "row", "list"}
  /\ cmd[x].op = "delete" => cmd[x].pc \in {"read", "index delete", "row delete"}
  /\ cmd[x].op = "update" => cmd[x].pc # "list"
  /\ cmd[x].op \in {"insert", "update"} => cmd[x].new \in Val
  /\ cmd[x].op \in {"delete", "update"} /\ cmd[x].pc # "read" => cmd[x].row \in DOMAIN rows
  /\ (cmd[x].op = "insert" /\ cmd[x].pc = "list") \/ (cmd[x].op = "update" /\ cmd[x].pc = "row delete") =>
       Current(x, cmd[x].newRow) /\ rows[cmd[x].newRow].val = cmd[x].new

Typed == IndexTyped /\ RowsTyped /\ StatusTyped /\ CmdTyped

LEMMA PutTyped ==
  ASSUME NEW K, NEW V, NEW f, IsMap(f, K, V), NEW k \in K, NEW v \in V
  PROVE  IsMap(Put(f, k, v), K, V) /\ DOMAIN Put(f, k, v) = DOMAIN f \cup {k}
BY DEF IsMap, Put

LEMMA WithoutTyped ==
  ASSUME NEW K, NEW V, NEW f, IsMap(f, K, V), NEW k
  PROVE  IsMap(Without(f, k), K, V) /\ DOMAIN Without(f, k) = DOMAIN f \ {k}
BY DEF IsMap, Without

LEMMA TempTyped ==
  ASSUME IndexTyped, NEW x
  PROVE  Temp(x) \in SUBSET Val /\ Mark(x) \in SUBSET Val
BY DEF IndexTyped, IsMap, Temp, Mark

(* The index keeps its types, whatever is done to it.                      *)
LEMMA IndexInsertTyped ==
  ASSUME IndexTyped, NEW x \in Xid, NEW v \in Val, IndexInsert(x, v), known' = known, disturbed' \in BOOLEAN
  PROVE  IndexTyped'
<1> DEFINE S == IF Taken(x, v) THEN Temp(x) ELSE Temp(x) \cup {v}
<1>1. S \in SUBSET Val /\ tempIndex' = Put(tempIndex, x, S)
  BY TempTyped DEF IndexInsert
<1> HIDE DEF S
<1>2. IsMap(tempIndex', Xid, SUBSET Val) /\ DOMAIN tempIndex' = DOMAIN tempIndex \cup {x}
  BY <1>1, PutTyped DEF IndexTyped
<1> QED BY <1>2 DEF IndexTyped, IndexInsert

LEMMA IndexDeleteTyped ==
  ASSUME IndexTyped, NEW x \in Xid, NEW v \in Val, IndexDelete(x, v), known' = known, disturbed' \in BOOLEAN
  PROVE  IndexTyped'
<1> DEFINE S == IF v \in index THEN Temp(x) ELSE Temp(x) \ {v}
           M == IF v \in index THEN Mark(x) \cup {v} ELSE Mark(x)
<1>1. S \in SUBSET Val /\ M \in SUBSET Val /\ tempIndex' = Put(tempIndex, x, S) /\ deleteMark' = Put(deleteMark, x, M)
  BY TempTyped DEF IndexDelete
<1> HIDE DEF S, M
<1>2. /\ IsMap(tempIndex', Xid, SUBSET Val) /\ DOMAIN tempIndex' = DOMAIN tempIndex \cup {x}
      /\ IsMap(deleteMark', Xid, SUBSET Val) /\ DOMAIN deleteMark' = DOMAIN deleteMark \cup {x}
  BY <1>1, PutTyped DEF IndexTyped
<1> QED BY <1>2 DEF IndexTyped, IndexDelete

LEMMA ForgetsTyped ==
  ASSUME IndexTyped, NEW x \in Xid, Forgets(x), index' \subseteq Val, known' = known, disturbed' = disturbed
  PROVE  IndexTyped'
<1>1. /\ IsMap(tempIndex', Xid, SUBSET Val) /\ DOMAIN tempIndex' = DOMAIN tempIndex \ {x}
      /\ IsMap(deleteMark', Xid, SUBSET Val) /\ DOMAIN deleteMark' = DOMAIN deleteMark \ {x}
  BY WithoutTyped DEF IndexTyped, Forgets
<1> QED BY <1>1 DEF IndexTyped

----------------------------------------------------------------------------
(* Commands.                                                               *)

LEMMA EndsTyped ==
  /\ NoCmd \in Command /\ NoCmd.op = "none"
  /\ [op |-> "commit", pc |-> "end"] \in Command
  /\ [op |-> "abort", pc |-> "end"] \in Command
BY DEF Command, EndCmd, NoCmd

LEMMA BeginTyped ==
  ASSUME NEW op \in Ops, NEW pc \in {"index", "read"}, NEW todo \in SUBSET Nat, NEW new \in Val \cup {NoVal}
  PROVE  Statement(op, pc, todo, new) \in StatementCmd
BY DEF Statement, StatementCmd

LEMMA StatementTyped ==
  ASSUME Typed, NEW x \in Xid, InStatement(x)
  PROVE  cmd[x] \in StatementCmd
BY DEF Typed, CmdTyped, InStatement, Command, EndCmd, NoCmd, Ops

LEMMA GoesSays ==
  ASSUME Typed, NEW x \in Xid, NEW c \in Command, Goes(x, c) \/ Starts(x, c)
  PROVE  CmdTyped' /\ cmd'[x] = c /\ \A y \in Xid \ {x} : cmd'[y] = cmd[y]
<1>1. CASE Goes(x, c)
  BY <1>1 DEF Goes, Typed, CmdTyped
<1>2. CASE Starts(x, c)
  BY <1>2, MaxStatementsIsNat DEF Starts, Typed, CmdTyped
<1> QED BY <1>1, <1>2

LEMMA ThrowsSays ==
  ASSUME Typed, NEW x \in Xid, InStatement(x), Throws(x)
  PROVE  /\ CmdTyped' /\ cmd'[x] = NoCmd /\ \A y \in Xid \ {x} : cmd'[y] = cmd[y]
         /\ disturbed' \in BOOLEAN /\ (disturbed => disturbed') /\ (cmd[x].touched => disturbed')
<1>1. cmd[x].touched \in BOOLEAN
  BY StatementTyped DEF StatementCmd
<1> QED BY <1>1, EndsTyped, GoesSays DEF Throws, Typed, IndexTyped

----------------------------------------------------------------------------
(* The invariant behind ExactIndex.  First where a statement may stand.    *)

OnRow(x, pcs) == cmd[x].op \in {"delete", "update"} /\ cmd[x].pc \in pcs
Adds(x, pcs) == cmd[x].op \in {"insert", "update"} /\ cmd[x].pc \in pcs

(* update leaves the index alone for a row that keeps its value.           *)
Same(x) == cmd[x].op = "update" /\ cmd[x].new = rows[cmd[x].row].val

(* The row the statement is on is out of the index and not yet deleted;    *)
(* the new value is in the index and its row not yet written; a row that   *)
(* keeps its value has been written again and not yet deleted.             *)
Unlisted(x) == OnRow(x, {"index", "row", "row delete"}) /\ ~Same(x)
Reserved(x) == Adds(x, {"row"}) /\ ~Same(x)
Copied(x) == cmd[x].op = "update" /\ cmd[x].pc = "row delete" /\ Same(x)

Control(x) ==
  /\ InStatement(x) => status[x] = "active"
  /\ cmd[x].op = "commit" => status[x] = "committed"
  /\ cmd[x].op = "abort" => status[x] = "aborted"
  /\ OnRow(x, {"index delete", "index", "row", "row delete"}) =>
       rows[cmd[x].row].xmin = x \/ Committed(rows[cmd[x].row].xmin)
  /\ OnRow(x, {"index delete", "index"}) => ~Same(x)
  /\ cmd[x].op = "update" /\ cmd[x].pc = "row delete" => cmd[x].newRow # cmd[x].row
  /\ cmd[x].op = "insert" /\ cmd[x].pc # "index" => cmd[x].touched
  /\ (known \/ cmd[x].op = "update") /\ Unlisted(x) => cmd[x].touched
  /\ Adds(x, {"index"}) => known
  /\ Reserved(x) => cmd[x].new \in Temp(x)

(* Only the transaction that wrote a row deletes it before it is committed.*)
RowsKept ==
  \A u \in DOMAIN rows :
    /\ status[rows[u].xmin] # "none"
    /\ rows[u].xmax # NoXid => status[rows[u].xmax] # "none"
    /\ ~Committed(rows[u].xmin) => rows[u].xmax \in {NoXid, rows[u].xmin}

Unfilled == ~known => index = {} /\ \A x \in Xid : Temp(x) = {} /\ Mark(x) = {}

(* What a transaction has done to the rows: it wrote a version it has not  *)
(* deleted, it deleted a committed one.                                    *)
Wrote(x, v) == \E u \in DOMAIN rows : Current(x, u) /\ rows[u].val = v
Took(x, v) == \E u \in DOMAIN rows : rows[u].val = v /\ Committed(rows[u].xmin) /\ rows[u].xmax = x
Lives(v) == \E u \in DOMAIN rows : rows[u].val = v /\ Live(rows[u])

(* Of the rows of a running transaction: a value once, but for the copy of *)
(* a row; and each is in the index as its own or stands for a row it took. *)
Single(x) == \A u, w \in DOMAIN rows :
  Current(x, u) /\ Current(x, w) /\ rows[u].val = rows[w].val =>
    \/ u = w
    \/ Copied(x) /\ u = cmd[x].row /\ w = cmd[x].newRow
    \/ Copied(x) /\ w = cmd[x].row /\ u = cmd[x].newRow
Backed(x) == \A u \in DOMAIN rows : Current(x, u) =>
  \/ rows[u].val \in Temp(x)
  \/ Took(x, rows[u].val)
  \/ Copied(x) /\ u = cmd[x].newRow
  \/ known /\ Unlisted(x) /\ u = cmd[x].row /\ rows[u].val \notin Mark(x)
Lonely(x) == OnRow(x, {"index delete", "index", "row", "row delete"}) =>
  \A u \in DOMAIN rows : Current(x, u) /\ rows[u].val = rows[cmd[x].row].val =>
    u = cmd[x].row \/ (Copied(x) /\ u = cmd[x].newRow)
Fresh(x) == Reserved(x) => ~Wrote(x, cmd[x].new)
OfRows(x) == Single(x) /\ Backed(x) /\ Lonely(x) /\ Fresh(x)

(* Of what it told the index: a row it took is marked or written again,    *)
(* and so the other way; what it holds it wrote; the value of the row it is *)
(* on is given back, and marked unless the row is dead; one it keeps is not.*)
Taking(x) == \A v \in Val : Took(x, v) => v \in Mark(x) \/ Wrote(x, v)
Marking(x) == \A v \in Mark(x) :
  \/ Took(x, v) /\ ~Wrote(x, v)
  \/ /\ Unlisted(x) /\ rows[cmd[x].row].val = v
     /\ \A u \in DOMAIN rows : Current(x, u) /\ rows[u].val = v => u = cmd[x].row
Holding(x) == \A v \in Temp(x) : Wrote(x, v) \/ (Reserved(x) /\ cmd[x].new = v)
Given(x) == Unlisted(x) => \A v \in Val : rows[cmd[x].row].val = v =>
  /\ v \notin Temp(x)
  /\ v \in Mark(x) \/ (~Took(x, v) /\ ~Live(rows[cmd[x].row]))
Unmarked(x) == OnRow(x, {"row", "row delete"}) /\ Same(x) => cmd[x].new \notin Mark(x)
OfValues(x) == Taking(x) /\ Marking(x) /\ Holding(x) /\ Given(x) /\ Unmarked(x)

(* Of all of them: who holds a value or a mark is known to the version     *)
(* manager; nobody holds what is committed, and one at most marks it; the  *)
(* index has the live values, up to commits that are not yet told to it.   *)
Told(x) == Temp(x) # {} \/ Mark(x) # {} =>
  /\ Running(x) \/ Ending(x)
  /\ x \in modified \/ (InStatement(x) /\ cmd[x].touched)
Apart == \A x \in Xid :
  /\ Temp(x) \cap index = {}
  /\ Mark(x) \subseteq index
  /\ \A y \in Xid \ {x} : Mark(x) \cap Mark(y) = {}
LiveListed == \A v \in Val : Lives(v) => v \in index \/ \E x \in Xid : cmd[x].op = "commit" /\ v \in Temp(x)
ListedLive == \A v \in index : Lives(v) \/ \E x \in Xid : cmd[x].op = "commit" /\ v \in Mark(x) /\ Took(x, v)
Committing(x) == cmd[x].op = "commit" => (\A v \in Temp(x) : Lives(v)) /\ (\A v \in Mark(x) : ~Lives(v))

Shaped == Typed /\ InsertsExclude /\ RowsKept /\ Unfilled /\ \A x \in Xid : Located(x) /\ Control(x)
Calm == ~disturbed => UniqueValues /\ \A x \in Xid : Running(x) => OfRows(x)
Exact == ~disturbed /\ known =>
  /\ Apart /\ LiveListed /\ ListedLive
  /\ \A x \in Xid : Told(x) /\ Committing(x) /\ (Running(x) => OfValues(x))
Inv == Shaped /\ Calm /\ Exact

----------------------------------------------------------------------------
(* What every step of x leaves alone, but the end of the process: the       *)
(* statements and values of the others, and of the rows all but that x      *)
(* writes new ones and deletes one it sees.                                 *)

Kept(u) == rows'[u].val = rows[u].val /\ rows'[u].xmin = rows[u].xmin
Deletes(x, u) ==
  /\ status[x] = "active" /\ Visible(x, rows[u]) /\ rows'[u].xmax = x
  /\ disturbed' \/ ~Running(rows[u].xmax)
RowsEffect(x) ==
  /\ DOMAIN rows \subseteq DOMAIN rows'
  /\ \A u \in DOMAIN rows : Kept(u) /\ (rows'[u].xmax = rows[u].xmax \/ Deletes(x, u))
  /\ \A u \in DOMAIN rows' \ DOMAIN rows : rows'[u].xmin = x /\ rows'[u].xmax = NoXid
  /\ rows' = rows \/ (status[x] = "active" /\ status' = status)
Others(x) == \A y \in Xid \ {x} :
  /\ cmd'[y] = cmd[y] /\ status'[y] = status[y]
  /\ Temp(y)' = Temp(y) /\ Mark(y)' = Mark(y)
Effect(x) ==
  /\ known' = known /\ (disturbed => disturbed') /\ modified \subseteq modified'
  /\ status[x] = "committed" => status'[x] = "committed"
  /\ status[x] # "none" => status'[x] # "none"
  /\ RowsEffect(x) /\ Others(x)

(* A step that moves the statement of x on, and nothing else.              *)
Quietly(x) ==
  /\ UNCHANGED <<known, ixVars, rows, status>>
  /\ modified \subseteq modified' /\ (disturbed => disturbed')
  /\ \A y \in Xid \ {x} : cmd'[y] = cmd[y]

LEMMA RowTyped ==
  ASSUME RowsTyped
  PROVE  \A u \in DOMAIN rows : rows[u] \in Version
BY DEF RowsTyped

LEMMA SameTemps ==
  ASSUME UNCHANGED ixVars, NEW y
  PROVE  Temp(y)' = Temp(y) /\ Mark(y)' = Mark(y)
BY DEF ixVars, Temp, Mark

LEMMA InsertTemps ==
  ASSUME NEW x \in Xid, NEW v, IndexInsert(x, v)
  PROVE  /\ Temp(x)' = IF Taken(x, v) THEN Temp(x) ELSE Temp(x) \cup {v}
         /\ Mark(x)' = Mark(x)
         /\ \A y \in Xid \ {x} : Temp(y)' = Temp(y) /\ Mark(y)' = Mark(y)
BY DEF IndexInsert, Temp, Mark, Put

LEMMA DeleteTemps ==
  ASSUME NEW x \in Xid, NEW v, IndexDelete(x, v)
  PROVE  /\ Temp(x)' = IF v \in index THEN Temp(x) ELSE Temp(x) \ {v}
         /\ Mark(x)' = IF v \in index THEN Mark(x) \cup {v} ELSE Mark(x)
         /\ \A y \in Xid \ {x} : Temp(y)' = Temp(y) /\ Mark(y)' = Mark(y)
BY DEF IndexDelete, Temp, Mark, Put

LEMMA ForgetsTemps ==
  ASSUME NEW x \in Xid, Forgets(x)
  PROVE  /\ Temp(x)' = {} /\ Mark(x)' = {}
         /\ \A y \in Xid \ {x} : Temp(y)' = Temp(y) /\ Mark(y)' = Mark(y)
BY DEF Forgets, Temp, Mark, Without

LEMMA SameRows ==
  ASSUME RowsTyped, UNCHANGED rows, NEW x
  PROVE  RowsEffect(x)
BY DEF RowsEffect, Kept

LEMMA QuietEffect ==
  ASSUME Shaped, NEW x \in Xid, Quietly(x)
  PROVE  Effect(x) /\ Unfilled' /\ StatusTyped'
<1>1. RowsEffect(x)
  BY SameRows DEF Shaped, Typed, Quietly
<1>2. \A y : Temp(y)' = Temp(y) /\ Mark(y)' = Mark(y)
  BY SameTemps DEF Quietly
<1>3. Others(x)
  BY <1>2 DEF Others, Quietly
<1>4. Unfilled'
  BY <1>2 DEF Shaped, Unfilled, Quietly, ixVars
<1> QED BY <1>1, <1>3, <1>4 DEF Effect, Quietly, Shaped, Typed, StatusTyped

LEMMA QuietTyped ==
  ASSUME Shaped, NEW x \in Xid, Quietly(x), CmdTyped', disturbed' \in BOOLEAN,
         listed' \subseteq DOMAIN rows, modified' \subseteq Xid
  PROVE  Typed'
<1>1. IndexTyped'
  BY DEF Shaped, Typed, IndexTyped, Quietly, ixVars
<1>2. RowsTyped'
  BY DEF Shaped, Typed, RowsTyped, Quietly
<1> QED BY <1>1, <1>2, QuietEffect DEF Typed

(* What an active transaction must keep to be in order, once its statement  *)
(* is over.                                                                 *)
LEMMA EndedShaped ==
  ASSUME NEW x \in Xid, cmd'[x] = NoCmd
  PROVE  Located(x)' /\ Control(x)'
BY EndsTyped DEF Located, Control, InStatement, Ops, OnRow, Adds, Unlisted, Reserved, Same

(* What the others were about they still are.                              *)
LEMMA OthersShaped ==
  ASSUME Shaped, NEW x \in Xid, Effect(x), NEW y \in Xid \ {x}
  PROVE  Located(y)' /\ Control(y)'
<1>1. /\ cmd'[y] = cmd[y] /\ status'[y] = status[y] /\ known' = known /\ Temp(y)' = Temp(y)
      /\ \A u \in DOMAIN rows : u \in DOMAIN rows' /\ Kept(u)
  BY DEF Effect, Others, RowsEffect
<1>2. Located(y) /\ Control(y)
  BY DEF Shaped
<1>3. Located(y)'
  <2>1. PICK c : c = cmd[y]
    OBVIOUS
  <2>2. /\ c.op = "insert" => c.pc \in {"index", "row", "list"}
        /\ c.op = "delete" => c.pc \in {"read", "index delete", "row delete"}
        /\ c.op = "update" => c.pc # "list"
        /\ c.op \in {"insert", "update"} => c.new \in Val
        /\ c.op \in {"delete", "update"} /\ c.pc # "read" => c.row \in DOMAIN rows'
    BY <1>1, <1>2, <2>1 DEF Located
  <2>3. ASSUME (c.op = "insert" /\ c.pc = "list") \/ (c.op = "update" /\ c.pc = "row delete")
        PROVE  (Current(y, c.newRow) /\ rows[c.newRow].val = c.new)'
    <3> DEFINE u == c.newRow
    <3>1. u \in DOMAIN rows /\ rows[u].val = c.new /\ rows[u].xmin = y /\ rows[u].xmax = NoXid
      BY <1>2, <2>1, <2>3 DEF Located, Current
    <3>2. status[y] = "active"
      BY <1>2, <2>1, <2>3 DEF Control, InStatement, Ops
    <3>3. ~Deletes(x, u)
      BY <3>1, <3>2 DEF Deletes, Visible, Committed
    <3>4. u \in DOMAIN rows' /\ rows'[u].xmax = NoXid /\ rows'[u].val = c.new /\ rows'[u].xmin = y
      BY <3>1, <3>3, <1>1 DEF Effect, RowsEffect, Kept
    <3> QED BY <3>4 DEF Current
  <2>4. cmd'[y] = c
    BY <1>1, <2>1
  <2> QED BY <2>2, <2>3, <2>4 DEF Located
<1>4. ASSUME OnRow(y, {"index delete", "index", "row", "row delete"})
      PROVE  /\ cmd[y].row \in DOMAIN rows /\ Kept(cmd[y].row)
             /\ (rows[cmd[y].row].xmin = y \/ Committed(rows[cmd[y].row].xmin))'
  <2>1. cmd[y].row \in DOMAIN rows /\ Kept(cmd[y].row)
    BY <1>1, <1>2, <1>4 DEF Located, OnRow
  <2>2. rows[cmd[y].row].xmin = y \/ Committed(rows[cmd[y].row].xmin)
    BY <1>2, <1>4 DEF Control
  <2>3. rows[cmd[y].row].xmin \in Xid
    BY <2>1, RowTyped DEF Shaped, Typed, Version
  <2>4. ASSUME NEW z \in Xid, Committed(z) PROVE Committed(z)'
    BY <2>4 DEF Effect, Others, Committed
  <2>5. cmd'[y].row = cmd[y].row /\ rows'[cmd[y].row].xmin = rows[cmd[y].row].xmin
    BY <1>1, <2>1 DEF Kept
  <2> QED BY <2>1, <2>2, <2>3, <2>4, <2>5 DEF Committed
<1>5. /\ OnRow(y, {"index", "row", "row delete"}) => (Same(y)' <=> Same(y))
      /\ OnRow(y, {"index delete", "index"}) => (Same(y)' <=> Same(y))
      /\ Adds(y, {"row"}) => (Same(y)' <=> Same(y))
  BY <1>1, <1>4 DEF OnRow, Adds, Same, Kept
<1>6. (Unlisted(y)' <=> Unlisted(y)) /\ (Reserved(y)' <=> Reserved(y))
  BY <1>1, <1>5 DEF Unlisted, Reserved, OnRow, Adds
<1>7. Control(y)'
  BY <1>1, <1>2, <1>4, <1>5, <1>6 DEF Control, InStatement, OnRow, Adds
<1> QED BY <1>3, <1>7

LEMMA RowsStayKept ==
  ASSUME Shaped, NEW x \in Xid, Effect(x)
  PROVE  RowsKept'
<1>1. ASSUME NEW z \in Xid
      PROVE  /\ status[z] # "none" => status'[z] # "none"
             /\ Committed(z) => Committed(z)'
  BY DEF Effect, Others, Committed
<1> SUFFICES ASSUME NEW u \in DOMAIN rows'
             PROVE  (/\ status[rows[u].xmin] # "none"
                     /\ rows[u].xmax # NoXid => status[rows[u].xmax] # "none"
                     /\ ~Committed(rows[u].xmin) => rows[u].xmax \in {NoXid, rows[u].xmin})'
  BY DEF RowsKept
<1>2. CASE u \notin DOMAIN rows
  <2>1. rows'[u].xmin = x /\ rows'[u].xmax = NoXid /\ status'[x] # "none"
    BY <1>2 DEF Effect, RowsEffect
  <2> QED BY <2>1
<1>3. CASE u \in DOMAIN rows
  <2>1. PICK a, b, c : a = rows[u].xmin /\ b = rows[u].xmax /\ c = rows'[u].xmax
    OBVIOUS
  <2>2. /\ a \in Xid /\ b \in Xid \cup {NoXid} /\ rows'[u].xmin = a
        /\ status[a] # "none" /\ (b # NoXid => status[b] # "none")
        /\ ~Committed(a) => b \in {NoXid, a}
    BY <1>3, <2>1, RowTyped DEF Shaped, Typed, Version, RowsKept, Effect, RowsEffect, Kept
  <2>3. (~Committed(a))' => ~Committed(a)
    BY <1>1, <2>2
  <2>4. CASE c = b
    BY <2>1, <2>2, <2>3, <2>4, <1>1 DEF Committed
  <2>5. CASE c = x /\ status[x] = "active" /\ Visible(x, rows[u])
    <3>1. a = x \/ Committed(a)
      BY <2>1, <2>5 DEF Visible
    <3> QED BY <2>1, <2>2, <2>3, <2>5, <3>1, <1>1 DEF Committed
  <2> QED BY <1>3, <2>1, <2>4, <2>5 DEF Effect, RowsEffect, Deletes
<1> QED BY <1>2, <1>3

(* All of Shaped, from what a step of x says of x.                         *)
LEMMA ShapedOn ==
  ASSUME Shaped, [Next]_vars, NEW x \in Xid, Effect(x),
         Typed', Unfilled', Located(x)', Control(x)'
  PROVE  Shaped'
<1>1. RowsKept'
  BY RowsStayKept
<1>2. InsertsExclude'
  BY StepExcludes DEF Shaped
<1>3. \A y \in Xid : Located(y)' /\ Control(y)'
  BY OthersShaped
<1> QED BY <1>1, <1>2, <1>3 DEF Shaped

----------------------------------------------------------------------------
(* Each step of x, as far as Shaped goes.                                  *)

Shapes(x) == Typed' /\ Effect(x) /\ Located(x)' /\ Control(x)' /\ Unfilled'

LEMMA QuietShapes ==
  ASSUME Shaped, NEW x \in Xid, Quietly(x), CmdTyped', disturbed' \in BOOLEAN,
         listed' \subseteq DOMAIN rows, modified' \subseteq Xid, Located(x)', Control(x)'
  PROVE  Shapes(x)
BY QuietTyped, QuietEffect DEF Shapes

(* The statement throws, and the index and the rows stay.                  *)
LEMMA ThrowShapes ==
  ASSUME Shaped, NEW x \in Xid, InStatement(x), Throws(x),
         UNCHANGED <<known, ixVars, rows, listed, status, modified>>
  PROVE  Shapes(x) /\ Quietly(x) /\ cmd'[x] = NoCmd /\ (cmd[x].touched => disturbed')
<1>1. /\ CmdTyped' /\ cmd'[x] = NoCmd /\ \A y \in Xid \ {x} : cmd'[y] = cmd[y]
      /\ disturbed' \in BOOLEAN /\ (disturbed => disturbed') /\ (cmd[x].touched => disturbed')
  BY ThrowsSays DEF Shaped
<1>2. Quietly(x)
  BY <1>1 DEF Quietly
<1>3. Located(x)' /\ Control(x)'
  BY <1>1, EndedShaped
<1> QED BY <1>1, <1>2, <1>3, QuietShapes DEF Shaped, Typed, RowsTyped

(* The statement is over.                                                  *)
LEMMA EndShapes ==
  ASSUME Shaped, NEW x \in Xid, Goes(x, NoCmd), listed' \subseteq DOMAIN rows,
         modified' = modified \cup {x}, UNCHANGED <<known, ixVars, rows, status, disturbed>>
  PROVE  Shapes(x) /\ Quietly(x) /\ cmd'[x] = NoCmd
<1>1. CmdTyped' /\ cmd'[x] = NoCmd /\ \A y \in Xid \ {x} : cmd'[y] = cmd[y]
  BY EndsTyped, GoesSays DEF Shaped
<1>2. Quietly(x)
  BY <1>1 DEF Quietly
<1>3. Located(x)' /\ Control(x)'
  BY <1>1, EndedShaped
<1>4. disturbed' \in BOOLEAN /\ modified' \subseteq Xid
  BY DEF Shaped, Typed, RowsTyped, IndexTyped
<1> QED BY <1>1, <1>2, <1>3, <1>4, QuietShapes

(* A new statement, that has done nothing yet.                             *)
LEMMA StartShapes ==
  ASSUME Shaped, NEW x \in Xid, NEW op \in Ops, NEW pc \in {"index", "read"},
         NEW todo \in SUBSET Nat, NEW new \in Val \cup {NoVal},
         op = "insert" => pc = "index" /\ known /\ new \in Val,
         op \in {"delete", "update"} => pc = "read", op = "update" => new \in Val,
         Starts(x, Statement(op, pc, todo, new)),
         UNCHANGED <<known, ixVars, rows, listed, status, modified, disturbed>>
  PROVE  Shapes(x) /\ Quietly(x) /\ cmd'[x] = Statement(op, pc, todo, new)
<1>1. PICK c : c = Statement(op, pc, todo, new)
  OBVIOUS
<1>2. c.op = op /\ c.pc = pc /\ c.new = new /\ c \in Command
  BY <1>1, BeginTyped DEF Statement, Command
<1>3. CmdTyped' /\ cmd'[x] = c /\ \A y \in Xid \ {x} : cmd'[y] = cmd[y]
  BY <1>1, <1>2, GoesSays DEF Shaped
<1>4. Quietly(x)
  BY <1>3 DEF Quietly
<1>5. Located(x)'
  BY <1>2, <1>3 DEF Located, Ops
<1>6. Control(x)'
  <2>1. status'[x] = "active" /\ known' = known
    BY DEF Starts, Ready
  <2>2. c.op \in {"insert", "delete", "update"} /\ c.pc \in {"index", "read"}
    BY <1>2 DEF Ops
  <2>3. (c.op = "insert" => c.pc = "index" /\ known) /\ (c.op \in {"delete", "update"} => c.pc = "read")
    BY <1>2
  <2>4. ~OnRow(x, {"index delete", "index", "row", "row delete"})' /\ ~OnRow(x, {"index delete", "index"})'
    BY <1>3, <2>2, <2>3 DEF OnRow
  <2>5. ~Unlisted(x)' /\ ~Reserved(x)'
    BY <1>3, <2>2, <2>3 DEF Unlisted, Reserved, OnRow, Adds
  <2>6. c.op # "commit" /\ c.op # "abort" /\ c.pc # "row delete" /\ (c.op = "insert" => c.pc = "index")
    BY <2>2, <2>3
  <2>7. cmd'[x] = c
    BY <1>3
  <2>8. Adds(x, {"index"})' => known'
    BY <2>1, <2>2, <2>3, <2>7 DEF Adds
  <2> QED BY <2>1, <2>4, <2>5, <2>6, <2>7, <2>8 DEF Control
<1> QED BY <1>1, <1>3, <1>4, <1>5, <1>6, QuietShapes DEF Shaped, Typed, RowsTyped, IndexTyped

(* The statement reads row u and goes on with it.                          *)
LEMMA ReadShapes ==
  ASSUME Shaped, NEW x \in Xid, NEW u \in listed, ReadRow(x, u)
  PROVE  /\ Shapes(x) /\ Quietly(x) /\ disturbed' = disturbed
         /\ cmd'[x] = [cmd[x] EXCEPT !.todo = @ \ {u}, !.row = u, !.pc = AfterRead(x, u)]
<1>1. PICK c, d : c = cmd[x] /\ d = [c EXCEPT !.todo = @ \ {u}, !.row = u, !.pc = AfterRead(x, u)]
  OBVIOUS
<1>2. c \in StatementCmd /\ c.op \in {"delete", "update"} /\ c.pc = "read" /\ status[x] = "active"
  BY <1>1, StatementTyped DEF ReadRow, At, InStatement, Ops, Shaped, Control
<1>3. u \in Nat /\ u \in DOMAIN rows /\ rows[u] \in Version
  BY RowTyped DEF Shaped, Typed, RowsTyped
<1>4. /\ AfterRead(x, u) \in {"row", "index delete", "row delete"}
      /\ c.op = "update" => AfterRead(x, u) = IF c.new = rows[u].val THEN "row" ELSE "index delete"
      /\ c.op = "delete" => AfterRead(x, u) = IF known THEN "index delete" ELSE "row delete"
  BY <1>1, <1>2 DEF AfterRead
<1>5. /\ d \in StatementCmd /\ d.op = c.op /\ d.pc = AfterRead(x, u) /\ d.row = u /\ d.new = c.new
      /\ d.touched = c.touched /\ d.newRow = c.newRow
  BY <1>1, <1>2, <1>3, <1>4 DEF StatementCmd
<1>6. CmdTyped' /\ cmd'[x] = d /\ \A y \in Xid \ {x} : cmd'[y] = cmd[y]
  BY <1>1, <1>5, GoesSays DEF ReadRow, Command, Shaped
<1>7. Quietly(x)
  BY <1>6 DEF ReadRow, Quietly
<1>8. rows' = rows /\ status' = status /\ known' = known
  BY DEF ReadRow
<1>9. Located(x)'
  <2>1. c.op = "update" => c.new \in Val
    BY <1>1 DEF Shaped, Located
  <2> QED BY <1>2, <1>3, <1>4, <1>5, <1>6, <1>8, <2>1 DEF Located
<1>10. Control(x)'
  <2>1. rows[u].xmin = x \/ Committed(rows[u].xmin)
    BY DEF ReadRow, Visible
  <2>2. (rows[cmd[x].row].xmin = x \/ Committed(rows[cmd[x].row].xmin))'
    BY <1>5, <1>6, <1>8, <2>1 DEF Committed
  <2>3. Same(x)' <=> c.op = "update" /\ c.new = rows[u].val
    BY <1>5, <1>6, <1>8 DEF Same
  <2>4. ~Reserved(x)' /\ (Unlisted(x)' => ~known' /\ c.op = "delete")
    BY <1>2, <1>4, <1>5, <1>6, <1>8, <2>3 DEF Unlisted, Reserved, OnRow, Adds
  <2> QED BY <1>2, <1>4, <1>5, <1>6, <1>8, <2>2, <2>3, <2>4 DEF Control, OnRow, Adds, InStatement, Ops
<1>11. disturbed' \in BOOLEAN /\ listed' \subseteq DOMAIN rows /\ modified' \subseteq Xid /\ disturbed' = disturbed
  BY DEF ReadRow, Shaped, Typed, IndexTyped, RowsTyped
<1> QED BY <1>1, <1>6, <1>7, <1>9, <1>10, <1>11, QuietShapes

(* update passes over a row that is gone.                                  *)
LEMMA PassShapes ==
  ASSUME Shaped, NEW x \in Xid, NEW u, At(x, {"delete", "update"}, "read"),
         Goes(x, [cmd[x] EXCEPT !.todo = @ \ {u}]),
         UNCHANGED <<known, ixVars, rows, listed, status, modified, disturbed>>
  PROVE  /\ Shapes(x) /\ Quietly(x) /\ disturbed' = disturbed
         /\ cmd'[x] = [cmd[x] EXCEPT !.todo = @ \ {u}]
<1>1. PICK c, d : c = cmd[x] /\ d = [c EXCEPT !.todo = @ \ {u}]
  OBVIOUS
<1>2. c \in StatementCmd /\ c.op \in {"delete", "update"} /\ c.pc = "read" /\ status[x] = "active"
  BY <1>1, StatementTyped DEF At, InStatement, Ops, Shaped, Control
<1>3. d \in StatementCmd /\ d.op = c.op /\ d.pc = "read" /\ d.new = c.new
  BY <1>1, <1>2 DEF StatementCmd
<1>4. CmdTyped' /\ cmd'[x] = d /\ \A y \in Xid \ {x} : cmd'[y] = cmd[y]
  BY <1>1, <1>3, GoesSays DEF Command, Shaped
<1>5. Quietly(x)
  BY <1>4 DEF Quietly
<1>6. Located(x)'
  <2>1. c.op = "update" => c.new \in Val
    BY <1>1 DEF Shaped, Located
  <2> QED BY <1>2, <1>3, <1>4, <2>1 DEF Located
<1>7. Control(x)'
  <2>1. /\ ~OnRow(x, {"index delete", "index", "row", "row delete"})' /\ ~OnRow(x, {"index delete", "index"})'
        /\ ~Adds(x, {"index"})' /\ ~Unlisted(x)' /\ ~Reserved(x)'
    BY <1>3, <1>4 DEF OnRow, Adds, Unlisted, Reserved
  <2>2. d.op # "commit" /\ d.op # "abort" /\ d.pc # "row delete" /\ d.op # "insert"
    BY <1>2, <1>3
  <2>3. cmd'[x] = d /\ status'[x] = "active"
    BY <1>2, <1>4
  <2> QED BY <2>1, <2>2, <2>3 DEF Control
<1> QED BY <1>1, <1>4, <1>5, <1>6, <1>7, QuietShapes DEF Shaped, Typed, IndexTyped, RowsTyped

(* The value of a new row is put into the index.                           *)
InsertIndexed(x) == InsertIndex(x) /\ ~Taken(x, cmd[x].new)

LEMMA InsertIndexShapes ==
  ASSUME Shaped, NEW x \in Xid, InsertIndexed(x)
  PROVE  /\ Shapes(x) /\ disturbed' = disturbed
         /\ cmd'[x] = [cmd[x] EXCEPT !.pc = "row", !.touched = TRUE]
         /\ Temp(x)' = Temp(x) \cup {cmd[x].new} /\ Mark(x)' = Mark(x)
<1>1. PICK c, d, v : c = cmd[x] /\ d = [c EXCEPT !.pc = "row", !.touched = TRUE] /\ v = c.new
  OBVIOUS
<1>2. /\ c \in StatementCmd /\ c.op \in {"insert", "update"} /\ c.pc = "index" /\ status[x] = "active"
      /\ v \in Val /\ known
  BY <1>1, StatementTyped DEF InsertIndexed, InsertIndex, At, InStatement, Ops, Shaped, Control, Located, Adds
<1>3. /\ d \in StatementCmd /\ d.op = c.op /\ d.pc = "row" /\ d.new = v /\ d.touched = TRUE
      /\ d.row = c.row /\ d.newRow = c.newRow
  BY <1>1, <1>2 DEF StatementCmd
<1>4. /\ IndexInsert(x, v) /\ ~Taken(x, v) /\ Goes(x, d)
      /\ UNCHANGED <<known, rows, listed, status, modified, disturbed>>
  BY <1>1 DEF InsertIndexed, InsertIndex
<1>5. CmdTyped' /\ cmd'[x] = d /\ \A y \in Xid \ {x} : cmd'[y] = cmd[y]
  BY <1>3, <1>4, GoesSays DEF Command, Shaped
<1>6. /\ Temp(x)' = Temp(x) \cup {v} /\ Mark(x)' = Mark(x)
      /\ \A y \in Xid \ {x} : Temp(y)' = Temp(y) /\ Mark(y)' = Mark(y)
  BY <1>4, InsertTemps
<1>7. Typed'
  <2>1. IndexTyped'
    BY <1>2, <1>4, IndexInsertTyped DEF Shaped, Typed, IndexTyped
  <2> QED BY <1>4, <1>5, <2>1 DEF Shaped, Typed, RowsTyped, StatusTyped
<1>8. Effect(x)
  <2>1. RowsEffect(x)
    BY <1>4, SameRows DEF Shaped, Typed
  <2> QED BY <1>4, <1>5, <1>6, <2>1 DEF Effect, Others
<1>9. Located(x)'
  <2>1. c.op = "update" => c.row \in DOMAIN rows
    BY <1>1, <1>2 DEF Shaped, Located
  <2> QED BY <1>2, <1>3, <1>4, <1>5, <2>1 DEF Located
<1>10. Control(x)'
  <2>1. c.op = "update" =>
          /\ rows[c.row].xmin = x \/ Committed(rows[c.row].xmin)
          /\ c.new # rows[c.row].val
    BY <1>1, <1>2 DEF Shaped, Control, OnRow, Same
  <2>2. c.op = "update" => (rows[cmd[x].row].xmin = x \/ Committed(rows[cmd[x].row].xmin))'
    BY <1>3, <1>4, <1>5, <2>1 DEF Committed
  <2>3. ~OnRow(x, {"index delete", "index"})' /\ ~Adds(x, {"index"})'
    BY <1>3, <1>5 DEF OnRow, Adds
  <2>4. /\ d.op # "commit" /\ d.op # "abort" /\ d.pc # "row delete"
        /\ d.op # "delete" /\ d.touched /\ cmd'[x] = d /\ status'[x] = "active"
        /\ (cmd[x].new \in Temp(x))'
    BY <1>2, <1>3, <1>4, <1>5, <1>6
  <2>5. OnRow(x, {"index delete", "index", "row", "row delete"})' => c.op = "update"
    BY <1>2, <1>3, <1>5 DEF OnRow
  <2> QED BY <2>2, <2>3, <2>4, <2>5 DEF Control
<1>11. Unfilled'
  BY <1>2, <1>4 DEF Unfilled
<1> QED BY <1>1, <1>4, <1>5, <1>6, <1>7, <1>8, <1>9, <1>10, <1>11 DEF Shapes

LEMMA AppendFacts ==
  ASSUME NEW S, NEW s \in Seq(S), NEW e \in S
  PROVE  /\ Append(s, e) \in Seq(S) /\ DOMAIN Append(s, e) = DOMAIN s \cup {Len(s) + 1}
         /\ Len(s) + 1 \notin DOMAIN s /\ Append(s, e)[Len(s) + 1] = e
         /\ \A u \in DOMAIN s : Append(s, e)[u] = s[u]
<1>1. Len(s) \in Nat /\ DOMAIN s = 1..Len(s)
  OBVIOUS
<1>2. Append(s, e) \in Seq(S) /\ Len(Append(s, e)) = Len(s) + 1
  OBVIOUS
<1>3. DOMAIN Append(s, e) = 1..(Len(s) + 1)
  BY <1>2
<1>4. 1..(Len(s) + 1) = 1..Len(s) \cup {Len(s) + 1}
  BY <1>1
<1>5. Append(s, e)[Len(s) + 1] = e /\ \A u \in 1..Len(s) : Append(s, e)[u] = s[u]
  BY <1>1
<1> QED BY <1>1, <1>2, <1>3, <1>4, <1>5

(* The row is written.                                                     *)
LEMMA InsertRowShapes ==
  ASSUME Shaped, NEW x \in Xid, InsertRow(x)
  PROVE  /\ Shapes(x) /\ disturbed' = disturbed
         /\ cmd'[x] = [cmd[x] EXCEPT !.newRow = Len(rows) + 1,
                                     !.pc = IF cmd[x].op = "insert" THEN "list" ELSE "row delete"]
         /\ DOMAIN rows' = DOMAIN rows \cup {Len(rows) + 1} /\ Len(rows) + 1 \notin DOMAIN rows
         /\ \A u \in DOMAIN rows : rows'[u] = rows[u]
         /\ rows'[Len(rows) + 1] = [val |-> cmd[x].new, xmin |-> x, xmax |-> NoXid]
<1>1. PICK c, n, pc : c = cmd[x] /\ n = Len(rows) + 1 /\ pc = IF c.op = "insert" THEN "list" ELSE "row delete"
  OBVIOUS
<1>2. PICK d, r : d = [c EXCEPT !.newRow = n, !.pc = pc] /\ r = [val |-> c.new, xmin |-> x, xmax |-> NoXid]
  OBVIOUS
<1>3. /\ c \in StatementCmd /\ c.op \in {"insert", "update"} /\ c.pc = "row" /\ status[x] = "active"
      /\ c.new \in Val
  BY <1>1, StatementTyped DEF InsertRow, At, InStatement, Ops, Shaped, Control, Located
<1>4. rows \in Seq(Version) /\ r \in Version /\ n \in Nat
  <2>1. rows \in Seq(Version)
    BY DEF Shaped, Typed, RowsTyped
  <2>2. r \in Version
    BY <1>2, <1>3 DEF Version
  <2>3. Len(rows) \in Nat
    BY <2>1
  <2>4. n = Len(rows) + 1
    BY <1>1
  <2> QED BY <2>1, <2>2, <2>3, <2>4
<1>5. /\ d \in StatementCmd /\ d.op = c.op /\ d.pc = pc /\ d.new = c.new /\ d.touched = c.touched
      /\ d.row = c.row /\ d.newRow = n
  BY <1>1, <1>2, <1>3, <1>4 DEF StatementCmd
<1>6. /\ rows' = Append(rows, r) /\ Goes(x, d)
      /\ UNCHANGED <<known, ixVars, listed, status, modified, disturbed>>
  BY <1>1, <1>2 DEF InsertRow
<1>7. CmdTyped' /\ cmd'[x] = d /\ \A y \in Xid \ {x} : cmd'[y] = cmd[y]
  BY <1>5, <1>6, GoesSays DEF Command, Shaped
<1>8. /\ DOMAIN rows' = DOMAIN rows \cup {n} /\ n \notin DOMAIN rows /\ rows'[n] = r /\ rows' \in Seq(Version)
      /\ \A u \in DOMAIN rows : rows'[u] = rows[u]
  <2>1. /\ Append(rows, r) \in Seq(Version) /\ DOMAIN Append(rows, r) = DOMAIN rows \cup {Len(rows) + 1}
        /\ Len(rows) + 1 \notin DOMAIN rows /\ Append(rows, r)[Len(rows) + 1] = r
        /\ \A u \in DOMAIN rows : Append(rows, r)[u] = rows[u]
    BY <1>4, AppendFacts
  <2>2. n = Len(rows) + 1 /\ rows' = Append(rows, r)
    BY <1>1, <1>6
  <2> QED BY <2>1, <2>2, Zenon
<1>9. Typed'
  BY <1>6, <1>7, <1>8 DEF Shaped, Typed, RowsTyped, StatusTyped, IndexTyped, ixVars
<1>10. \A y : Temp(y)' = Temp(y) /\ Mark(y)' = Mark(y)
  BY <1>6, SameTemps
<1>11. Effect(x)
  <2>1. RowsEffect(x)
    BY <1>2, <1>3, <1>6, <1>8 DEF RowsEffect, Kept
  <2> QED BY <1>6, <1>7, <1>10, <2>1 DEF Effect, Others
<1>12. Located(x)'
  <2>1. c.op = "update" => c.row \in DOMAIN rows
    BY <1>1, <1>3 DEF Shaped, Located
  <2>2. (Current(x, n) /\ rows[n].val = c.new)'
    BY <1>2, <1>8 DEF Current
  <2> QED BY <1>1, <1>3, <1>5, <1>7, <1>8, <2>1, <2>2 DEF Located
<1>13. Control(x)'
  <2>1. c.op = "update" => c.row \in DOMAIN rows /\ (rows[c.row].xmin = x \/ Committed(rows[c.row].xmin))
    BY <1>1, <1>3 DEF Shaped, Control, Located, OnRow
  <2>2. c.op = "update" => /\ (rows[cmd[x].row].xmin = x \/ Committed(rows[cmd[x].row].xmin))'
                           /\ n # c.row
    BY <1>5, <1>6, <1>7, <1>8, <2>1 DEF Committed
  <2>3. /\ ~OnRow(x, {"index delete", "index"})' /\ ~Adds(x, {"index"})' /\ ~Reserved(x)'
    BY <1>1, <1>3, <1>5, <1>7 DEF OnRow, Adds, Reserved
  <2>4. c.op = "insert" => c.touched
    BY <1>1, <1>3 DEF Shaped, Control
  <2>5. (OnRow(x, {"index delete", "index", "row", "row delete"})' => c.op = "update") /\ (Unlisted(x)' => c.op = "update")
    BY <1>3, <1>5, <1>7 DEF OnRow, Unlisted
  <2>6. Unlisted(x)' => c.touched
    <3>1. c.op = "update" => (Same(x)' <=> Same(x))
      BY <1>1, <1>5, <1>7, <1>8, <2>1 DEF Same
    <3>2. Unlisted(x)' => Unlisted(x)
      BY <1>1, <1>3, <2>5, <3>1 DEF Unlisted, OnRow
    <3> QED BY <1>1, <2>5, <3>2 DEF Shaped, Control
  <2>7. /\ d.op # "commit" /\ d.op # "abort" /\ cmd'[x] = d /\ status'[x] = "active"
        /\ (d.op = "update" => c.op = "update") /\ (d.op = "insert" => c.op = "insert")
        /\ d.newRow = n /\ d.row = c.row /\ d.touched = c.touched
    BY <1>3, <1>5, <1>6, <1>7
  <2> QED BY <2>2, <2>3, <2>4, <2>5, <2>6, <2>7 DEF Control
<1>14. Unfilled'
  BY <1>6, <1>10 DEF Shaped, Unfilled, ixVars
<1> QED BY <1>1, <1>2, <1>6, <1>7, <1>8, <1>9, <1>11, <1>12, <1>13, <1>14 DEF Shapes

(* The value of the row is taken out of the index, or marked in it.        *)
RowValue(x) == rows[cmd[x].row].val
DeleteIndexed(x) == DeleteIndex(x) /\ TakenHere(x, RowValue(x))

LEMMA DeleteIndexShapes ==
  ASSUME Shaped, NEW x \in Xid, DeleteIndexed(x)
  PROVE  /\ Shapes(x) /\ cmd[x].row \in DOMAIN rows
         /\ disturbed' = (disturbed \/ \E y \in Xid \ {x} : RowValue(x) \in Mark(y))
         /\ cmd'[x] = [cmd[x] EXCEPT !.touched = TRUE,
                         !.pc = IF cmd[x].op = "update" THEN "index" ELSE "row delete"]
         /\ Temp(x)' = IF RowValue(x) \in index THEN Temp(x) ELSE Temp(x) \ {RowValue(x)}
         /\ Mark(x)' = IF RowValue(x) \in index THEN Mark(x) \cup {RowValue(x)} ELSE Mark(x)
<1>1. PICK c, d, v : /\ c = cmd[x] /\ v = rows[c.row].val
                     /\ d = [c EXCEPT !.touched = TRUE, !.pc = IF c.op = "update" THEN "index" ELSE "row delete"]
  OBVIOUS
<1>2. /\ c \in StatementCmd /\ c.op \in {"delete", "update"} /\ c.pc = "index delete" /\ status[x] = "active"
      /\ c.row \in DOMAIN rows /\ known
  BY <1>1, StatementTyped DEF DeleteIndexed, DeleteIndex, At, InStatement, Ops, Shaped, Control, Located
<1>3. /\ d \in StatementCmd /\ d.op = c.op /\ d.pc = (IF c.op = "update" THEN "index" ELSE "row delete")
      /\ d.new = c.new /\ d.touched = TRUE /\ d.row = c.row /\ d.newRow = c.newRow
  BY <1>1, <1>2 DEF StatementCmd
<1>4. /\ IndexDelete(x, v) /\ Goes(x, d) /\ UNCHANGED <<known, rows, listed, status, modified>>
      /\ disturbed' = (disturbed \/ \E y \in Xid \ {x} : v \in Mark(y))
  BY <1>1 DEF DeleteIndexed, DeleteIndex, RowValue, TakenHere
<1>5. CmdTyped' /\ cmd'[x] = d /\ \A y \in Xid \ {x} : cmd'[y] = cmd[y]
  BY <1>3, <1>4, GoesSays DEF Command, Shaped
<1>6. /\ Temp(x)' = (IF v \in index THEN Temp(x) ELSE Temp(x) \ {v})
      /\ Mark(x)' = (IF v \in index THEN Mark(x) \cup {v} ELSE Mark(x))
      /\ \A y \in Xid \ {x} : Temp(y)' = Temp(y) /\ Mark(y)' = Mark(y)
  BY <1>4, DeleteTemps
<1>7. Typed'
  <2>1. v \in Val
    BY <1>1, <1>2, RowTyped DEF Shaped, Typed, Version
  <2>2. disturbed' \in BOOLEAN
    BY <1>4 DEF Shaped, Typed, IndexTyped
  <2>3. IndexTyped'
    BY <1>4, <2>1, <2>2, IndexDeleteTyped DEF Shaped, Typed
  <2> QED BY <1>4, <1>5, <2>3 DEF Shaped, Typed, RowsTyped, StatusTyped
<1>8. Effect(x)
  <2>1. RowsEffect(x)
    BY <1>4, SameRows DEF Shaped, Typed
  <2>2. disturbed => disturbed'
    BY <1>4
  <2> QED BY <1>4, <1>5, <1>6, <2>1, <2>2 DEF Effect, Others
<1>9. Located(x)'
  <2>1. c.op = "update" => c.new \in Val
    BY <1>1 DEF Shaped, Located
  <2> QED BY <1>2, <1>3, <1>4, <1>5, <2>1 DEF Located
<1>10. Control(x)'
  <2>1. /\ rows[c.row].xmin = x \/ Committed(rows[c.row].xmin)
        /\ c.op = "update" => c.new # rows[c.row].val
    BY <1>1, <1>2 DEF Shaped, Control, OnRow, Same
  <2>2. (rows[cmd[x].row].xmin = x \/ Committed(rows[cmd[x].row].xmin))'
    BY <1>3, <1>4, <1>5, <2>1 DEF Committed
  <2>3. ~Same(x)'
    BY <1>3, <1>4, <1>5, <2>1 DEF Same
  <2>4. /\ d.op # "commit" /\ d.op # "abort" /\ d.op # "insert" /\ ~(d.op = "update" /\ d.pc = "row delete")
        /\ d.touched /\ cmd'[x] = d /\ status'[x] = "active" /\ known'
    BY <1>2, <1>3, <1>4, <1>5
  <2>5. ~Reserved(x)'
    BY <1>3, <1>5 DEF Reserved, Adds
  <2> QED BY <2>2, <2>3, <2>4, <2>5 DEF Control
<1>11. Unfilled'
  BY <1>2, <1>4 DEF Unfilled
<1> QED BY <1>1, <1>2, <1>4, <1>5, <1>6, <1>7, <1>8, <1>9, <1>10, <1>11 DEF Shapes, RowValue

LEMMA ExceptFacts ==
  ASSUME NEW S, NEW s \in Seq(S), NEW u \in DOMAIN s, NEW e \in S
  PROVE  [s EXCEPT ![u] = e] \in Seq(S) /\ DOMAIN [s EXCEPT ![u] = e] = DOMAIN s
<1>1. Len(s) \in Nat /\ s \in [1..Len(s) -> S]
  OBVIOUS
<1>2. [s EXCEPT ![u] = e] \in [1..Len(s) -> S]
  BY <1>1
<1> QED BY <1>1, <1>2

(* The row is deleted, or found gone, and the statement goes on or ends.   *)
LEMMA RowDeletedShapes ==
  ASSUME Shaped, NEW x \in Xid, InStatement(x), status[x] = "active",
         NEW u \in DOMAIN rows, rows' = Deleted(x, u), listed' \subseteq DOMAIN rows,
         disturbed' \in BOOLEAN, disturbed => disturbed', Running(rows[u].xmax) => disturbed',
         CmdTyped', \A y \in Xid \ {x} : cmd'[y] = cmd[y], Located(x)', Control(x)',
         UNCHANGED <<known, ixVars, status, modified>>
  PROVE  Shapes(x)
<1>1. rows \in Seq(Version) /\ rows[u] \in Version
  BY RowTyped DEF Shaped, Typed, RowsTyped
<1>2. /\ rows' \in Seq(Version) /\ DOMAIN rows' = DOMAIN rows
      /\ \A w \in DOMAIN rows : w # u => rows'[w] = rows[w]
      /\ Visible(x, rows[u]) => rows'[u].xmax = x
      /\ ~Visible(x, rows[u]) => rows' = rows
      /\ Kept(u)
  <2>1. [rows[u] EXCEPT !.xmax = x] \in Version
    BY <1>1 DEF Version
  <2>2. CASE Visible(x, rows[u])
    <3>1. rows' = [rows EXCEPT ![u] = [rows[u] EXCEPT !.xmax = x]]
      BY <1>1, <2>2 DEF Deleted
    <3>2. rows' \in Seq(Version) /\ DOMAIN rows' = DOMAIN rows
      BY <1>1, <2>1, <3>1, ExceptFacts
    <3>3. rows'[u] = [rows[u] EXCEPT !.xmax = x] /\ \A w \in DOMAIN rows : w # u => rows'[w] = rows[w]
      BY <1>1, <3>1
    <3>4. rows'[u].xmax = x /\ rows'[u].val = rows[u].val /\ rows'[u].xmin = rows[u].xmin
      BY <1>1, <3>3 DEF Version
    <3> QED BY <2>2, <3>2, <3>3, <3>4 DEF Kept
  <2>3. CASE ~Visible(x, rows[u])
    BY <1>1, <2>3 DEF Kept, Deleted
  <2> QED BY <2>2, <2>3
<1>3. Typed'
  BY <1>2 DEF Shaped, Typed, RowsTyped, StatusTyped, IndexTyped, ixVars
<1>4. \A y : Temp(y)' = Temp(y) /\ Mark(y)' = Mark(y)
  BY SameTemps
<1>5. Effect(x)
  <2>1. Visible(x, rows[u]) => Deletes(x, u)
    BY <1>2 DEF Deletes
  <2>2. \A w \in DOMAIN rows : Kept(w) /\ (rows'[w].xmax = rows[w].xmax \/ Deletes(x, w))
    BY <1>2, <2>1 DEF Kept
  <2>3. RowsEffect(x)
    BY <1>2, <2>2 DEF RowsEffect
  <2> QED BY <1>4, <2>3 DEF Effect, Others
<1>6. Unfilled'
  BY <1>4 DEF Shaped, Unfilled, ixVars
<1> QED BY <1>3, <1>5, <1>6 DEF Shapes

(* Where the statement is when the row is to be deleted.                   *)
LEMMA AtRowDelete ==
  ASSUME Shaped, NEW x \in Xid, At(x, {"delete", "update"}, "row delete")
  PROVE  /\ InStatement(x) /\ cmd[x] \in StatementCmd /\ status[x] = "active"
         /\ cmd[x].row \in DOMAIN rows
         /\ cmd[x].op = "update" => listed \cup {cmd[x].newRow} \subseteq DOMAIN rows
<1>1. cmd[x].op \in {"delete", "update"} /\ cmd[x].pc = "row delete"
  BY DEF At
<1>2. InStatement(x) /\ Located(x) /\ listed \subseteq DOMAIN rows
  BY <1>1 DEF InStatement, Ops, Shaped, Typed, RowsTyped
<1> QED BY <1>1, <1>2, StatementTyped DEF Shaped, Control, Located, Current

(* The row is deleted, or found gone.                                      *)
LEMMA DeleteRowShapes ==
  ASSUME Shaped, NEW x \in Xid, DeleteRow(x)
  PROVE  /\ Shapes(x) /\ cmd[x].row \in DOMAIN rows /\ status[x] = "active"
         /\ cmd'[x] = [cmd[x] EXCEPT !.pc = "read"]
         /\ disturbed' = (disturbed \/ ~Visible(x, rows[cmd[x].row]) \/ Running(rows[cmd[x].row].xmax))
         /\ rows' = IF Visible(x, rows[cmd[x].row]) THEN [rows EXCEPT ![cmd[x].row].xmax = x] ELSE rows
<1>1. PICK c, d, u : c = cmd[x] /\ d = [c EXCEPT !.pc = "read"] /\ u = c.row
  OBVIOUS
<1>2. /\ c \in StatementCmd /\ c.op \in {"delete", "update"} /\ c.pc = "row delete" /\ status[x] = "active"
      /\ u \in DOMAIN rows /\ InStatement(x)
      /\ c.op = "update" => listed \cup {c.newRow} \subseteq DOMAIN rows
  BY <1>1, AtRowDelete DEF DeleteRow, At
<1>3. d \in StatementCmd /\ d.op = c.op /\ d.pc = "read" /\ d.new = c.new
  BY <1>1, <1>2 DEF StatementCmd
<1>4. /\ Goes(x, d) /\ UNCHANGED <<known, ixVars, status, modified>>
      /\ rows' = Deleted(x, u)
      /\ disturbed' = (disturbed \/ ~Visible(x, rows[u]) \/ Running(rows[u].xmax))
      /\ listed' = (IF c.op = "update" THEN listed \cup {c.newRow} ELSE listed)
  BY <1>1 DEF DeleteRow
<1>5. CmdTyped' /\ cmd'[x] = d /\ \A y \in Xid \ {x} : cmd'[y] = cmd[y]
  BY <1>3, <1>4, GoesSays DEF Command, Shaped
<1>6. listed' \subseteq DOMAIN rows /\ disturbed' \in BOOLEAN
  BY <1>2, <1>4 DEF Shaped, Typed, RowsTyped, IndexTyped
<1>7. Located(x)'
  <2>1. c.op = "update" => c.new \in Val
    BY <1>1 DEF Shaped, Located
  <2> QED BY <1>2, <1>3, <1>5, <2>1 DEF Located
<1>8. Control(x)'
  <2>1. /\ ~OnRow(x, {"index delete", "index", "row", "row delete"})' /\ ~OnRow(x, {"index delete", "index"})'
        /\ ~Adds(x, {"index"})' /\ ~Unlisted(x)' /\ ~Reserved(x)'
    BY <1>3, <1>5 DEF OnRow, Adds, Unlisted, Reserved
  <2>2. d.op # "commit" /\ d.op # "abort" /\ d.pc # "row delete" /\ d.op # "insert"
    BY <1>2, <1>3
  <2>3. cmd'[x] = d /\ status'[x] = "active"
    BY <1>2, <1>4, <1>5
  <2> QED BY <2>1, <2>2, <2>3 DEF Control
<1>9. Shapes(x)
  BY <1>2, <1>4, <1>5, <1>6, <1>7, <1>8, RowDeletedShapes
<1> QED BY <1>1, <1>2, <1>4, <1>5, <1>9 DEF Deleted

(* vm.delete or the B+ tree throws.                                        *)
LEMMA DeleteRowFailsShapes ==
  ASSUME Shaped, NEW x \in Xid, DeleteRowFails(x)
  PROVE  Shapes(x) /\ Quietly(x) /\ cmd'[x] = NoCmd
         /\ (cmd[x].touched \/ cmd[x].op = "update" => disturbed')
<1>1. cmd[x].touched \in BOOLEAN /\ listed \subseteq DOMAIN rows /\ modified \subseteq Xid
  BY AtRowDelete DEF DeleteRowFails, StatementCmd, Shaped, Typed, RowsTyped
<1>2. CmdTyped' /\ cmd'[x] = NoCmd /\ \A y \in Xid \ {x} : cmd'[y] = cmd[y]
  BY EndsTyped, GoesSays DEF DeleteRowFails, Shaped
<1>3. /\ disturbed' \in BOOLEAN /\ (disturbed => disturbed')
      /\ (cmd[x].touched \/ cmd[x].op = "update" => disturbed')
  BY <1>1 DEF DeleteRowFails, Shaped, Typed, IndexTyped
<1>4. Quietly(x)
  BY <1>2, <1>3 DEF DeleteRowFails, Quietly
<1>5. listed' \subseteq DOMAIN rows /\ modified' \subseteq Xid
  BY <1>1 DEF DeleteRowFails
<1> QED BY <1>2, <1>3, <1>4, <1>5, EndedShaped, QuietShapes

LEMMA UpdateListFailsShapes ==
  ASSUME Shaped, NEW x \in Xid, UpdateListFails(x)
  PROVE  Shapes(x) /\ disturbed'
<1>1. cmd[x].op = "update" /\ cmd[x].pc = "row delete"
  BY DEF UpdateListFails, At
<1>2. /\ InStatement(x) /\ status[x] = "active" /\ cmd[x].row \in DOMAIN rows
      /\ listed \cup {cmd[x].newRow} \subseteq DOMAIN rows
  BY <1>1, AtRowDelete DEF UpdateListFails, At
<1>3. CmdTyped' /\ cmd'[x] = NoCmd /\ \A y \in Xid \ {x} : cmd'[y] = cmd[y]
  BY EndsTyped, GoesSays DEF UpdateListFails, Shaped
<1>4. /\ rows' = Deleted(x, cmd[x].row) /\ listed' \subseteq DOMAIN rows /\ disturbed' = TRUE
      /\ UNCHANGED <<known, ixVars, status, modified>>
  BY <1>2 DEF UpdateListFails
<1> QED BY <1>2, <1>3, <1>4, EndedShaped, RowDeletedShapes

(* A transaction ends: its status is written, and the tables are told next.*)
EndsAs(x, op, st) ==
  /\ status[x] = "active" /\ status' = [status EXCEPT ![x] = st]
  /\ Goes(x, [op |-> op, pc |-> "end"])
  /\ disturbed' \in BOOLEAN /\ (disturbed => disturbed')
  /\ UNCHANGED <<known, ixVars, rows, listed, modified>>

LEMMA EndsAsShapes ==
  ASSUME Shaped, NEW x \in Xid, NEW op, NEW st, EndsAs(x, op, st),
         <<op, st>> \in {<<"commit", "committed">>, <<"abort", "aborted">>}
  PROVE  Shapes(x) /\ cmd'[x] = [op |-> op, pc |-> "end"] /\ status'[x] = st
<1>1. PICK d : d = [op |-> op, pc |-> "end"]
  OBVIOUS
<1>2. /\ d \in Command /\ d.op = op /\ d.pc = "end"
      /\ (op = "commit" /\ st = "committed") \/ (op = "abort" /\ st = "aborted")
  BY <1>1, EndsTyped
<1>3. CmdTyped' /\ cmd'[x] = d /\ \A y \in Xid \ {x} : cmd'[y] = cmd[y]
  BY <1>1, <1>2, GoesSays DEF EndsAs, Shaped
<1>4. StatusTyped' /\ status'[x] = st /\ \A y \in Xid \ {x} : status'[y] = status[y]
  BY <1>2 DEF EndsAs, Shaped, Typed, StatusTyped
<1>5. \A y : Temp(y)' = Temp(y) /\ Mark(y)' = Mark(y)
  BY SameTemps DEF EndsAs
<1>6. Typed'
  BY <1>3, <1>4 DEF EndsAs, Shaped, Typed, IndexTyped, RowsTyped, ixVars
<1>7. Effect(x)
  <2>1. RowsEffect(x)
    BY SameRows DEF Shaped, Typed, EndsAs
  <2> QED BY <1>2, <1>3, <1>4, <1>5, <2>1 DEF Effect, Others, EndsAs
<1>8. Located(x)' /\ Control(x)'
  BY <1>2, <1>3, <1>4 DEF Located, Control, InStatement, Ops, OnRow, Adds, Unlisted, Reserved
<1>9. Unfilled'
  BY <1>5 DEF Shaped, Unfilled, EndsAs, ixVars
<1> QED BY <1>1, <1>3, <1>4, <1>6, <1>7, <1>8, <1>9 DEF Shapes

LEMMA BeginShapes ==
  ASSUME Shaped, NEW x \in Xid, Begin(x)
  PROVE  Shapes(x) /\ cmd' = cmd /\ cmd[x] = NoCmd
<1>1. Located(x) /\ Control(x) /\ cmd[x] \in Command /\ status[x] = "none"
  BY DEF Shaped, Typed, CmdTyped, Begin
<1>2. cmd[x].op \notin Ops \cup {"commit", "abort"}
  BY <1>1 DEF Control, InStatement
<1>3. cmd[x] = NoCmd
  <2>1. cmd[x] \notin StatementCmd
    BY <1>2 DEF StatementCmd
  <2>2. cmd[x] \notin EndCmd
    BY <1>2 DEF EndCmd
  <2> QED BY <1>1, <2>1, <2>2 DEF Command
<1>4. StatusTyped' /\ status'[x] = "active" /\ \A y \in Xid \ {x} : status'[y] = status[y]
  BY DEF Begin, Shaped, Typed, StatusTyped
<1>5. Typed'
  BY <1>4 DEF Begin, Shaped, Typed, IndexTyped, RowsTyped, CmdTyped, ixVars
<1>6. \A y : Temp(y)' = Temp(y) /\ Mark(y)' = Mark(y)
  BY SameTemps DEF Begin
<1>7. Effect(x)
  <2>1. RowsEffect(x)
    BY SameRows DEF Shaped, Typed, Begin
  <2> QED BY <1>1, <1>4, <1>6, <2>1 DEF Effect, Others, Begin
<1>8. Located(x)' /\ Control(x)'
  <2>1. cmd'[x] = NoCmd
    BY <1>3 DEF Begin
  <2> QED BY <2>1, EndedShaped
<1>9. Unfilled'
  BY <1>6 DEF Shaped, Unfilled, Begin, ixVars
<1> QED BY <1>3, <1>5, <1>7, <1>8, <1>9 DEF Begin, Shapes

(* The index is told, or not, that a transaction has ended.                *)
LEMMA ToldShapes ==
  ASSUME Shaped, NEW x \in Xid, CommitIndex(x) \/ RollbackIndex(x)
  PROVE  /\ Shapes(x) /\ cmd'[x] = NoCmd
         /\ UNCHANGED <<known, rows, listed, status, modified, disturbed>>
<1>1. /\ Goes(x, NoCmd) /\ UNCHANGED <<known, rows, listed, status, modified, disturbed>>
      /\ \/ UNCHANGED ixVars
         \/ Forgets(x) /\ index' \in {Merged(x), index \cup Mark(x)}
  BY DEF CommitIndex, RollbackIndex
<1>2. CmdTyped' /\ cmd'[x] = NoCmd /\ \A y \in Xid \ {x} : cmd'[y] = cmd[y]
  BY <1>1, EndsTyped, GoesSays DEF Shaped
<1>3. /\ \A y \in Xid \ {x} : Temp(y)' = Temp(y) /\ Mark(y)' = Mark(y)
      /\ Temp(x)' \in {{}, Temp(x)} /\ Mark(x)' \in {{}, Mark(x)}
  BY <1>1, SameTemps, ForgetsTemps
<1>4. IndexTyped'
  <2>1. CASE UNCHANGED ixVars
    BY <1>1, <2>1 DEF Shaped, Typed, IndexTyped, ixVars
  <2>2. CASE Forgets(x) /\ index' \in {Merged(x), index \cup Mark(x)}
    <3>1. IndexTyped
      BY DEF Shaped, Typed
    <3>2. index' \subseteq Val
      BY <2>2, <3>1, TempTyped DEF Merged, IndexTyped
    <3> QED BY <1>1, <2>2, <3>1, <3>2, ForgetsTyped
  <2> QED BY <1>1, <2>1, <2>2
<1>5. Typed'
  BY <1>1, <1>2, <1>4 DEF Shaped, Typed, RowsTyped, StatusTyped
<1>6. Effect(x)
  <2>1. RowsEffect(x)
    BY <1>1, SameRows DEF Shaped, Typed
  <2> QED BY <1>1, <1>2, <1>3, <2>1 DEF Effect, Others
<1>7. Located(x)' /\ Control(x)'
  BY <1>2, EndedShaped
<1>8. Unfilled'
  <2> SUFFICES ASSUME ~known PROVE (index = {} /\ \A y \in Xid : Temp(y) = {} /\ Mark(y) = {})'
    BY <1>1 DEF Unfilled
  <2>1. index = {} /\ \A y \in Xid : Temp(y) = {} /\ Mark(y) = {}
    BY DEF Shaped, Unfilled
  <2>2. index' = {}
    BY <1>1, <2>1 DEF Merged, ixVars
  <2>3. ASSUME NEW y \in Xid PROVE Temp(y)' = {} /\ Mark(y)' = {}
    BY <1>3, <2>1
  <2> QED BY <2>2, <2>3
<1> QED BY <1>1, <1>2, <1>5, <1>6, <1>7, <1>8 DEF Shapes

LEMMA EmptyIsMap ==
  ASSUME NEW K, NEW V
  PROVE  IsMap(<<>>, K, V) /\ DOMAIN <<>> = {}
<1>1. DOMAIN <<>> = {}
  OBVIOUS
<1>2. <<>> \in [{} -> V]
  OBVIOUS
<1> QED BY <1>1, <1>2 DEF IsMap

(* The process ends and begins again.                                      *)
LEMMA RestartShaped ==
  ASSUME Shaped, Restart
  PROVE  /\ Shaped' /\ ~known' /\ rows' = rows /\ disturbed' = disturbed
         /\ \A x \in Xid : status'[x] # "active" /\ (Committed(x)' <=> Committed(x))
<1>1. /\ StatusTyped'
      /\ \A x \in Xid : /\ status'[x] = IF status[x] = "active" THEN "aborted" ELSE status[x]
                        /\ cmd'[x] = NoCmd
  BY DEF Restart, Shaped, Typed, StatusTyped
<1>2. CmdTyped'
  BY EndsTyped DEF Restart, Shaped, Typed, CmdTyped
<1>3. IndexTyped'
  BY EmptyIsMap DEF Restart, Shaped, Typed, IndexTyped
<1>4. RowsTyped'
  BY DEF Restart, Shaped, Typed, RowsTyped
<1>5. \A x \in Xid : Committed(x)' <=> Committed(x)
  BY <1>1 DEF Committed
<1>6. RowsKept'
  <2> SUFFICES ASSUME NEW u \in DOMAIN rows
               PROVE  (/\ status[rows[u].xmin] # "none"
                       /\ rows[u].xmax # NoXid => status[rows[u].xmax] # "none"
                       /\ ~Committed(rows[u].xmin) => rows[u].xmax \in {NoXid, rows[u].xmin})'
    BY DEF Restart, RowsKept
  <2>1. PICK a, b : a = rows[u].xmin /\ b = rows[u].xmax
    OBVIOUS
  <2>2. /\ a \in Xid /\ b \in Xid \cup {NoXid} /\ status[a] # "none" /\ (b # NoXid => status[b] # "none")
        /\ ~Committed(a) => b \in {NoXid, a}
    BY <2>1, RowTyped DEF Shaped, Typed, Version, RowsKept
  <2>3. rows' = rows
    BY DEF Restart
  <2> QED BY <1>1, <1>5, <2>1, <2>2, <2>3 DEF Committed
<1>7. Unfilled'
  BY DEF Unfilled, Restart, Temp, Mark
<1>8. InsertsExclude'
  BY DEF Restart, InsertsExclude
<1>9. \A x \in Xid : Located(x)' /\ Control(x)'
  BY <1>1, EndedShaped
<1> QED BY <1>1, <1>2, <1>3, <1>4, <1>5, <1>6, <1>7, <1>8, <1>9 DEF Restart, Shaped, Typed

(* Every other step of x, by what it is.                                   *)
(* The B+ tree throws at the new row.                                      *)
LEMMA InsertListFailsShapes ==
  ASSUME Shaped, NEW x \in Xid, InsertListFails(x)
  PROVE  Shapes(x) /\ disturbed'
<1>1. /\ cmd[x].op = "insert" /\ cmd[x].pc = "list" /\ Throws(x)
      /\ UNCHANGED <<known, ixVars, rows, status, modified>>
      /\ listed' \in {listed, listed \cup {cmd[x].newRow}}
  BY DEF InsertListFails, At
<1>2. InStatement(x) /\ cmd[x].touched /\ Located(x) /\ listed \subseteq DOMAIN rows /\ modified \subseteq Xid
  BY <1>1 DEF InStatement, Ops, Shaped, Control, Typed, RowsTyped
<1>3. /\ CmdTyped' /\ cmd'[x] = NoCmd /\ \A y \in Xid \ {x} : cmd'[y] = cmd[y]
      /\ disturbed' \in BOOLEAN /\ disturbed'
  BY <1>1, <1>2, ThrowsSays DEF Shaped
<1>4. listed' \subseteq DOMAIN rows
  BY <1>1, <1>2 DEF Located, Current
<1>5. Quietly(x)
  BY <1>1, <1>3 DEF Quietly
<1> QED BY <1>1, <1>2, <1>3, <1>4, <1>5, EndedShaped, QuietShapes

LEMMA StepShapes ==
  ASSUME Shaped, NEW x \in Xid, Step(x)
  PROVE  Shapes(x)
<1>1. ASSUME NEW ops, NEW pc, At(x, ops, pc), ops \subseteq Ops PROVE InStatement(x)
  BY <1>1 DEF At, InStatement
<1>2. CASE InsertIndex(x)
  <2>1. CASE Taken(x, cmd[x].new)
    <3>1. Throws(x) /\ InStatement(x) /\ known' = known /\ IndexInsert(x, cmd[x].new)
      BY <1>2, <2>1 DEF InsertIndex, At, InStatement, Ops
    <3>2. /\ CmdTyped' /\ cmd'[x] = NoCmd /\ \A y \in Xid \ {x} : cmd'[y] = cmd[y]
          /\ disturbed' \in BOOLEAN /\ (disturbed => disturbed')
      BY <3>1, ThrowsSays DEF Shaped
    <3>3. Located(x)' /\ Control(x)'
      BY <3>2, EndedShaped
    <3>4. known
      BY <1>2 DEF InsertIndex, At, Shaped, Control, Adds
    <3>5. cmd[x].new \in Val
      BY <1>2 DEF InsertIndex, At, Shaped, Located
    <3>6. IndexTyped'
      BY <3>1, <3>2, <3>5, IndexInsertTyped DEF Shaped, Typed
    <3>7. Typed'
      BY <1>2, <3>2, <3>6 DEF InsertIndex, Shaped, Typed, RowsTyped, StatusTyped
    <3>8. \A y \in Xid \ {x} : Temp(y)' = Temp(y) /\ Mark(y)' = Mark(y)
      BY <3>1, InsertTemps
    <3>9. RowsEffect(x)
      BY <1>2, SameRows DEF InsertIndex, Shaped, Typed
    <3>10. Effect(x)
      BY <1>2, <3>2, <3>8, <3>9 DEF InsertIndex, Effect, Others
    <3> QED BY <3>1, <3>3, <3>4, <3>7, <3>10 DEF Shapes, Unfilled
  <2>2. CASE ~Taken(x, cmd[x].new)
    BY <1>2, <2>2, InsertIndexShapes DEF InsertIndexed
  <2> QED BY <2>1, <2>2
<1>3. CASE InsertRow(x)
  BY <1>3, InsertRowShapes
<1>4. CASE InsertRowFails(x)
  BY <1>4, <1>1, ThrowShapes DEF InsertRowFails, Ops
<1>5. CASE InsertList(x)
  <2>1. listed' \subseteq DOMAIN rows
    <3>1. Located(x) /\ listed \subseteq DOMAIN rows
      BY DEF Shaped, Typed, RowsTyped
    <3>2. cmd[x].newRow \in DOMAIN rows
      BY <1>5, <3>1 DEF InsertList, At, Located, Current
    <3> QED BY <1>5, <3>1, <3>2 DEF InsertList
  <2> QED BY <1>5, <2>1, EndShapes DEF InsertList
<1>6. ASSUME NEW u \in listed, ReadRow(x, u) PROVE Shapes(x)
  BY <1>6, ReadShapes
<1>7. ASSUME NEW u \in listed, ReadNothing(x, u) PROVE Shapes(x)
  <2>1. CASE cmd[x].op = "delete"
    BY <1>7, <2>1, <1>1, ThrowShapes DEF ReadNothing, Ops
  <2>2. CASE cmd[x].op # "delete"
    BY <1>7, <2>2, PassShapes DEF ReadNothing
  <2> QED BY <2>1, <2>2
<1>8. CASE DeleteIndex(x)
  <2>1. CASE TakenHere(x, RowValue(x))
    BY <1>8, <2>1, DeleteIndexShapes DEF DeleteIndexed
  <2>2. CASE ~TakenHere(x, RowValue(x))
    <3>1. Throws(x) /\ InStatement(x) /\ known' = known /\ IndexDelete(x, RowValue(x)) /\ known
      BY <1>8, <2>2 DEF DeleteIndex, At, InStatement, Ops, TakenHere, RowValue
    <3>2. /\ CmdTyped' /\ cmd'[x] = NoCmd /\ \A y \in Xid \ {x} : cmd'[y] = cmd[y]
          /\ disturbed' \in BOOLEAN /\ (disturbed => disturbed')
      BY <3>1, ThrowsSays DEF Shaped
    <3>3. Located(x)' /\ Control(x)'
      BY <3>2, EndedShaped
    <3>5. RowValue(x) \in Val
      <4>1. cmd[x].row \in DOMAIN rows
        BY <1>8 DEF DeleteIndex, At, Shaped, Located
      <4> QED BY <4>1, RowTyped DEF Shaped, Typed, Version, RowValue
    <3>6. IndexTyped'
      BY <3>1, <3>2, <3>5, IndexDeleteTyped DEF Shaped, Typed
    <3>7. Typed'
      BY <1>8, <3>2, <3>6 DEF DeleteIndex, Shaped, Typed, RowsTyped, StatusTyped
    <3>8. \A y \in Xid \ {x} : Temp(y)' = Temp(y) /\ Mark(y)' = Mark(y)
      BY <3>1, DeleteTemps
    <3>9. RowsEffect(x)
      BY <1>8, SameRows DEF DeleteIndex, Shaped, Typed
    <3>10. Effect(x)
      BY <1>8, <3>2, <3>8, <3>9 DEF DeleteIndex, Effect, Others
    <3> QED BY <3>1, <3>3, <3>7, <3>10 DEF Shapes, Unfilled
  <2> QED BY <2>1, <2>2
<1>9. CASE UpdateUnknown(x)
  BY <1>9, <1>1, ThrowShapes DEF UpdateUnknown, Ops
<1>10. CASE DeleteRow(x)
  BY <1>10, DeleteRowShapes
<1>11. CASE DeleteDeadlock(x)
  <2>1. status[x] = "active" /\ cmd[x].touched \in BOOLEAN
    BY <1>11, <1>1, StatementTyped DEF DeleteDeadlock, At, InStatement, Ops, Shaped, Control, StatementCmd
  <2>2. disturbed' \in BOOLEAN /\ (disturbed => disturbed')
    BY <1>11, <2>1 DEF DeleteDeadlock, Shaped, Typed, IndexTyped
  <2>3. EndsAs(x, "abort", "aborted")
    BY <1>11, <2>1, <2>2 DEF DeleteDeadlock, EndsAs
  <2> QED BY <2>3, EndsAsShapes
<1>12. CASE StatementEnds(x)
  BY <1>12, EndShapes DEF StatementEnds, Shaped, Typed, RowsTyped
<1>13. CASE CommitIndex(x) \/ RollbackIndex(x)
  BY <1>13, ToldShapes
<1>14. CASE InsertListFails(x)
  BY <1>14, InsertListFailsShapes
<1>15. CASE ReadRowFails(x)
  BY <1>15, <1>1, ThrowShapes DEF ReadRowFails, Ops
<1>16. CASE DeleteRowFails(x) \/ UpdateListFails(x)
  BY <1>16, DeleteRowFailsShapes, UpdateListFailsShapes
<1> QED BY <1>2, <1>3, <1>4, <1>5, <1>6, <1>7, <1>8, <1>9, <1>10, <1>11, <1>12, <1>13, <1>14, <1>15, <1>16 DEF Step

Starting(x) ==
  \/ \E v \in Val : InsertBegin(x, v)
  \/ \E found \in SUBSET listed \ {{}} :
       DeleteBegin(x, found) \/ \E v \in Val : UpdateBegin(x, found, v)
Fating(x) == Begin(x) \/ Commit(x) \/ Abort(x)

LEMMA StartingSays ==
  ASSUME Shaped, NEW x \in Xid, Starting(x)
  PROVE  /\ Shapes(x) /\ Quietly(x) /\ UNCHANGED <<modified, disturbed>>
         /\ Ready(x) /\ cmd'[x].op \in Ops /\ cmd'[x].pc \in {"index", "read"}
         /\ cmd'[x].op = "insert" \/ cmd'[x].pc = "read"
<1>1. \A op, pc, todo, new : Statement(op, pc, todo, new).op = op /\ Statement(op, pc, todo, new).pc = pc
  BY DEF Statement
<1>2. ASSUME NEW v \in Val, InsertBegin(x, v)
      PROVE  /\ Shapes(x) /\ Quietly(x) /\ cmd'[x] = Statement("insert", "index", {}, v)
             /\ UNCHANGED <<modified, disturbed>> /\ Ready(x)
  <2>1. /\ known /\ Starts(x, Statement("insert", "index", {}, v))
        /\ UNCHANGED <<known, ixVars, rows, listed, status, modified, disturbed>>
    BY <1>2 DEF InsertBegin
  <2>2. /\ "insert" \in Ops /\ {} \in SUBSET Nat /\ v \in Val \cup {NoVal}
        /\ "insert" \notin {"delete", "update"} /\ "insert" # "update"
    BY DEF Ops
  <2>3. Shapes(x) /\ Quietly(x) /\ cmd'[x] = Statement("insert", "index", {}, v)
    BY <1>2, <2>1, <2>2, StartShapes
  <2> QED BY <2>1, <2>3 DEF Starts
<1>3. ASSUME NEW found \in SUBSET listed \ {{}}, DeleteBegin(x, found)
      PROVE  /\ Shapes(x) /\ Quietly(x) /\ cmd'[x] = Statement("delete", "read", found, NoVal)
             /\ UNCHANGED <<modified, disturbed>> /\ Ready(x)
  <2>1. found \in SUBSET Nat
    BY DEF Shaped, Typed, RowsTyped
  <2> QED BY <1>3, <2>1, StartShapes DEF DeleteBegin, Ops, Starts
<1>4. ASSUME NEW found \in SUBSET listed \ {{}}, NEW v \in Val, UpdateBegin(x, found, v)
      PROVE  /\ Shapes(x) /\ Quietly(x) /\ cmd'[x] = Statement("update", "read", found, v)
             /\ UNCHANGED <<modified, disturbed>> /\ Ready(x)
  <2>1. found \in SUBSET Nat
    BY DEF Shaped, Typed, RowsTyped
  <2> QED BY <1>4, <2>1, StartShapes DEF UpdateBegin, Ops, Starts
<1>5. \/ \E v \in Val : InsertBegin(x, v)
      \/ \E found \in SUBSET listed \ {{}} : DeleteBegin(x, found)
      \/ \E found \in SUBSET listed \ {{}}, v \in Val : UpdateBegin(x, found, v)
  BY DEF Starting
<1>6. CASE \E v \in Val : InsertBegin(x, v)
  <2>1. PICK v \in Val : InsertBegin(x, v)
    BY <1>6
  <2>2. cmd'[x].op = "insert" /\ cmd'[x].pc = "index"
    BY <1>1, <1>2, <2>1
  <2> QED BY <1>2, <2>1, <2>2 DEF Ops
<1>7. CASE \E found \in SUBSET listed \ {{}} : DeleteBegin(x, found)
  <2>1. PICK found \in SUBSET listed \ {{}} : DeleteBegin(x, found)
    BY <1>7
  <2>2. cmd'[x].op = "delete" /\ cmd'[x].pc = "read"
    BY <1>1, <1>3, <2>1
  <2> QED BY <1>3, <2>1, <2>2 DEF Ops
<1>8. CASE \E found \in SUBSET listed \ {{}}, v \in Val : UpdateBegin(x, found, v)
  <2>1. PICK found \in SUBSET listed \ {{}}, v \in Val : UpdateBegin(x, found, v)
    BY <1>8
  <2>2. cmd'[x].op = "update" /\ cmd'[x].pc = "read"
    BY <1>1, <1>4, <2>1
  <2> QED BY <1>4, <2>1, <2>2 DEF Ops
<1> QED BY <1>5, <1>6, <1>7, <1>8

LEMMA FatingShapes ==
  ASSUME Shaped, NEW x \in Xid, Fating(x)
  PROVE  Shapes(x)
<1>1. CASE Begin(x)
  BY <1>1, BeginShapes
<1>2. CASE Commit(x)
  <2>1. EndsAs(x, "commit", "committed")
    BY <1>2 DEF Commit, Ready, EndsAs, Shaped, Typed, IndexTyped
  <2> QED BY <2>1, EndsAsShapes
<1>3. CASE Abort(x)
  <2>1. EndsAs(x, "abort", "aborted")
    BY <1>3 DEF Abort, Ready, EndsAs, Shaped, Typed, IndexTyped
  <2> QED BY <2>1, EndsAsShapes
<1> QED BY <1>1, <1>2, <1>3 DEF Fating

LEMMA NextCases ==
  Next <=> (\E x \in Xid : Fating(x) \/ Starting(x) \/ Step(x)) \/ Restart
BY DEF Next, Fating, Starting

LEMMA InitShaped ==
  ASSUME Init PROVE Shaped /\ ~disturbed
<1>1. IndexTyped
  BY EmptyIsMap DEF Init, IndexTyped
<1>2. RowsTyped /\ RowsKept
  <2>1. <<>> \in Seq(Version) /\ DOMAIN <<>> = {}
    OBVIOUS
  <2> QED BY <2>1 DEF Init, RowsTyped, RowsKept
<1>3. StatusTyped /\ CmdTyped
  BY EndsTyped, MaxStatementsIsNat DEF Init, StatusTyped, CmdTyped
<1>4. InsertsExclude /\ Unfilled
  BY DEF Init, InsertsExclude, Unfilled
<1>5. ASSUME NEW x \in Xid PROVE Located(x) /\ Control(x)
  <2>1. cmd[x].op = "none"
    BY EndsTyped DEF Init
  <2> QED BY <2>1 DEF Located, Control, InStatement, Ops, OnRow, Adds, Unlisted, Reserved
<1> QED BY <1>1, <1>2, <1>3, <1>4, <1>5 DEF Init, Shaped, Typed

LEMMA ShapedStays ==
  ASSUME Shaped, [Next]_vars
  PROVE  Shaped'
<1>1. CASE UNCHANGED vars
  <2>1. Typed'
    BY <1>1 DEF Shaped, Typed, IndexTyped, RowsTyped, StatusTyped, CmdTyped, vars
  <2>2. RowsKept' /\ Unfilled' /\ InsertsExclude'
    BY <1>1 DEF Shaped, RowsKept, Unfilled, InsertsExclude, vars, Temp, Mark, Committed
  <2>3. ASSUME NEW x \in Xid PROVE Located(x)' /\ Control(x)'
    <3>1. /\ cmd' = cmd /\ rows' = rows /\ status' = status /\ known' = known /\ Temp(x)' = Temp(x)
          /\ \A z : Committed(z)' <=> Committed(z)
      BY <1>1 DEF vars, Temp, Committed
    <3>2. Located(x)'
      BY <3>1 DEF Shaped, Located, Current
    <3>3. (Unlisted(x)' <=> Unlisted(x)) /\ (Reserved(x)' <=> Reserved(x)) /\ (Same(x)' <=> Same(x))
      BY <3>1 DEF Unlisted, Reserved, Same, OnRow, Adds
    <3>4. Control(x)'
      <4>1. Control(x)
        BY DEF Shaped
      <4>2. /\ InStatement(x)' <=> InStatement(x)
            /\ \A pcs : (OnRow(x, pcs)' <=> OnRow(x, pcs)) /\ (Adds(x, pcs)' <=> Adds(x, pcs))
            /\ Committed(rows[cmd[x].row].xmin)' <=> Committed(rows[cmd[x].row].xmin)
        BY <3>1 DEF InStatement, OnRow, Adds, Committed
      <4> QED BY <3>1, <3>3, <4>1, <4>2 DEF Control
    <3> QED BY <3>2, <3>4
  <2> QED BY <2>1, <2>2, <2>3 DEF Shaped
<1>2. CASE Restart
  BY <1>2, RestartShaped
<1>3. ASSUME NEW x \in Xid, Fating(x) \/ Starting(x) \/ Step(x) PROVE Shaped'
  <2>1. Shapes(x)
    BY <1>3, FatingShapes, StartingSays, StepShapes
  <2> QED BY <2>1, ShapedOn DEF Shapes
<1> QED BY <1>1, <1>2, <1>3, NextCases

LEMMA ShapedTypes ==
  ASSUME Shaped PROVE TypeOK
<1>1. \A u \in DOMAIN rows : rows[u] \in [val : Val, xmin : Xid, xmax : Xid \cup {NoXid}]
  BY RowTyped DEF Shaped, Typed, Version
<1> QED BY <1>1 DEF Shaped, Typed, IndexTyped, RowsTyped, StatusTyped, CmdTyped, TypeOK

(* The maps, the rows and the statements always have their types.          *)
THEOREM IndexTypes == Spec => []TypeOK
<1>1. Init => Shaped
  BY InitShaped
<1>2. Shaped /\ [Next]_vars => Shaped'
  BY ShapedStays
<1>3. Shaped => TypeOK
  BY ShapedTypes
<1> QED BY <1>1, <1>2, <1>3, PTL DEF Spec

----------------------------------------------------------------------------
(* Calm and Exact.  First what a step of x leaves as it was for another     *)
(* transaction y that is running: unless the two go for one row, y has      *)
(* written and taken the same rows, and stands where it stood.              *)

SameFor(y) ==
  /\ known' = known
  /\ DOMAIN rows \subseteq DOMAIN rows' /\ \A u \in DOMAIN rows : rows'[u].val = rows[u].val
  /\ cmd'[y] = cmd[y] /\ Temp(y)' = Temp(y) /\ Mark(y)' = Mark(y)
  /\ \A u : Current(y, u)' <=> Current(y, u)
  /\ \A v : Wrote(y, v)' <=> Wrote(y, v)
  /\ \A v : Took(y, v)' <=> Took(y, v)
  /\ OnRow(y, {"index delete", "index", "row", "row delete"}) =>
       cmd[y].row \in DOMAIN rows /\ (Live(rows[cmd[y].row])' => Live(rows[cmd[y].row]))
  /\ (Unlisted(y)' <=> Unlisted(y)) /\ (Reserved(y)' <=> Reserved(y)) /\ (Copied(y)' <=> Copied(y))
  /\ OnRow(y, {"row", "row delete"}) => (Same(y)' <=> Same(y))

LEMMA OthersSame ==
  ASSUME Shaped, NEW x \in Xid, Effect(x), ~disturbed', NEW y \in Xid \ {x}, Running(y)
  PROVE  SameFor(y)
<1>1. /\ known' = known /\ cmd'[y] = cmd[y] /\ Temp(y)' = Temp(y) /\ Mark(y)' = Mark(y) /\ DOMAIN rows \subseteq DOMAIN rows'
      /\ \A u \in DOMAIN rows : rows'[u].val = rows[u].val /\ rows'[u].xmin = rows[u].xmin
      /\ \A u \in DOMAIN rows : rows'[u].xmax = rows[u].xmax \/ Deletes(x, u)
      /\ \A u \in DOMAIN rows' \ DOMAIN rows : rows'[u].xmin = x /\ rows'[u].xmax = NoXid
  BY DEF Effect, Others, RowsEffect, Kept
<1>2. y # NoXid /\ x # NoXid /\ status[y] = "active" /\ \A u \in DOMAIN rows : rows[u] \in Version
  BY NoXidIsNone, RowTyped DEF Running, Shaped, Typed
<1>3. ASSUME NEW z \in Xid PROVE Committed(z) => Committed(z)'
  BY DEF Effect, Others, Committed
<1>4. ASSUME NEW u PROVE Current(y, u)' <=> Current(y, u)
  <2>1. ASSUME Current(y, u) PROVE ~Deletes(x, u)
    BY <1>2, <2>1 DEF Current, Deletes, Visible, Committed
  <2>2. ASSUME Current(y, u)' PROVE u \in DOMAIN rows /\ ~Deletes(x, u)
    BY <1>1, <1>2, <2>2 DEF Current, Deletes
  <2> QED BY <1>1, <2>1, <2>2 DEF Current
<1>5. ASSUME NEW v PROVE Wrote(y, v)' <=> Wrote(y, v)
  <2>1. ASSUME NEW u PROVE u \in DOMAIN rows' /\ Current(y, u)' <=> u \in DOMAIN rows /\ Current(y, u)
    BY <1>1, <1>4 DEF Current
  <2> QED BY <1>1, <2>1 DEF Wrote
<1>6. ASSUME NEW v PROVE Took(y, v)' <=> Took(y, v)
  <2>1. ASSUME NEW u \in DOMAIN rows, rows[u].val = v, Committed(rows[u].xmin), rows[u].xmax = y
        PROVE  Took(y, v)'
    <3>1. ~Deletes(x, u)
      BY <2>1, <1>2 DEF Deletes, Running
    <3>2. rows'[u].xmax = y /\ rows'[u].val = v /\ u \in DOMAIN rows'
      BY <1>1, <2>1, <3>1
    <3>3. PICK a \in Xid : a = rows[u].xmin
      BY <1>2 DEF Version
    <3>4. rows'[u].xmin = a /\ Committed(a)'
      BY <1>1, <1>3, <2>1, <3>3
    <3> QED BY <3>2, <3>4 DEF Took, Committed
  <2>2. ASSUME NEW u \in DOMAIN rows', rows'[u].val = v, (Committed(rows[u].xmin))', rows'[u].xmax = y
        PROVE  Took(y, v)
    <3>1. u \in DOMAIN rows
      BY <1>1, <1>2, <2>2
    <3>2. rows[u].val = v /\ rows[u].xmax = y
      BY <1>1, <2>2, <3>1 DEF Deletes
    <3>3. PICK a \in Xid : a = rows[u].xmin
      BY <1>2, <3>1 DEF Version
    <3>4. rows'[u].xmin = a /\ Committed(a)'
      BY <1>1, <2>2, <3>1, <3>3 DEF Committed
    <3>5. CASE Committed(a)
      BY <3>1, <3>2, <3>3, <3>5 DEF Took
    <3>6. CASE ~Committed(a)
      <4>1. y \in {NoXid, a}
        BY <3>1, <3>2, <3>3, <3>6 DEF Shaped, RowsKept
      <4>2. status'[y] = "active"
        BY <1>2 DEF Effect, Others
      <4> QED BY <1>2, <3>4, <4>1, <4>2 DEF Committed
    <3> QED BY <3>5, <3>6
  <2> QED BY <2>1, <2>2 DEF Took
<1>7. ASSUME OnRow(y, {"index delete", "index", "row", "row delete"})
      PROVE  cmd[y].row \in DOMAIN rows /\ (Live(rows[cmd[y].row])' => Live(rows[cmd[y].row]))
  <2>1. PICK u : u = cmd[y].row
    OBVIOUS
  <2>2. Located(y) /\ Control(y)
    BY DEF Shaped
  <2>3. u \in DOMAIN rows /\ (rows[u].xmin = y \/ Committed(rows[u].xmin))
    BY <1>7, <2>1, <2>2 DEF Located, Control, OnRow
  <2>4. PICK a, b, c : a = rows[u].xmin /\ b = rows[u].xmax /\ c = rows'[u].xmax
    OBVIOUS
  <2>5. a \in Xid /\ b \in Xid \cup {NoXid} /\ rows'[u].xmin = a
    BY <1>1, <1>2, <2>3, <2>4 DEF Version
  <2>6. ASSUME Live(rows[u])' PROVE Live(rows[u])
    <3>1. Committed(a)' /\ ~Committed(c)'
      BY <2>4, <2>5, <2>6 DEF Live, Committed
    <3>2. Committed(a)
      <4>1. status'[y] = "active"
        BY <1>2 DEF Effect, Others
      <4> QED BY <2>3, <2>4, <3>1, <4>1 DEF Committed
    <3>3. ~Committed(b)
      <4>1. CASE c = b
        BY <1>3, <2>5, <3>1, <4>1 DEF Committed
      <4>2. CASE Deletes(x, u)
        <5>1. b = NoXid \/ ~Committed(b)
          BY <2>4, <4>2 DEF Deletes, Visible
        <5> QED BY <5>1 DEF Committed
      <4> QED BY <1>1, <2>3, <2>4, <4>1, <4>2
    <3> QED BY <2>4, <3>2, <3>3 DEF Live
  <2>7. (cmd[y].row = u)'
    BY <1>1, <2>1
  <2>8. Live(rows[cmd[y].row])' => Live(rows[u])'
    BY <2>7 DEF Live, Committed
  <2> QED BY <2>1, <2>3, <2>6, <2>8
<1>8. OnRow(y, {"index", "row", "row delete"}) \/ Adds(y, {"row"}) => (Same(y)' <=> Same(y))
  BY <1>1, <1>7 DEF OnRow, Adds, Same
<1>9. (Unlisted(y)' <=> Unlisted(y)) /\ (Reserved(y)' <=> Reserved(y)) /\ (Copied(y)' <=> Copied(y))
  BY <1>1, <1>8 DEF Unlisted, Reserved, Copied, OnRow, Adds
<1>10. OnRow(y, {"row", "row delete"}) => (Same(y)' <=> Same(y))
  BY <1>8 DEF OnRow
<1> QED BY <1>1, <1>4, <1>5, <1>6, <1>7, <1>9, <1>10 DEF SameFor

LEMMA SameOfRows ==
  ASSUME NEW y, SameFor(y), OfRows(y)
  PROVE  OfRows(y)'
<1>1. PICK c : c = cmd[y]
  OBVIOUS
<1>2. /\ known' = known /\ cmd'[y] = c /\ Temp(y)' = Temp(y) /\ Mark(y)' = Mark(y) /\ DOMAIN rows \subseteq DOMAIN rows'
      /\ \A u : Current(y, u)' <=> Current(y, u)
      /\ \A u : Current(y, u) => u \in DOMAIN rows /\ rows'[u].val = rows[u].val
      /\ \A v : (Wrote(y, v)' <=> Wrote(y, v)) /\ (Took(y, v)' <=> Took(y, v))
      /\ (Unlisted(y)' <=> Unlisted(y)) /\ (Reserved(y)' <=> Reserved(y)) /\ (Copied(y)' <=> Copied(y))
  BY <1>1 DEF SameFor, Current
<1>3. Single(y)'
  BY <1>1, <1>2 DEF OfRows, Single
<1>4. Backed(y)'
  <2>1. ASSUME NEW u \in DOMAIN rows', Current(y, u)'
        PROVE  (\/ rows[u].val \in Temp(y)
                \/ Took(y, rows[u].val)
                \/ Copied(y) /\ u = cmd[y].newRow
                \/ known /\ Unlisted(y) /\ u = cmd[y].row /\ rows[u].val \notin Mark(y))'
    <3>1. PICK v : v = rows[u].val
      OBVIOUS
    <3>2. Current(y, u) /\ rows'[u].val = v
      BY <1>2, <2>1, <3>1
    <3>3. \/ v \in Temp(y)
          \/ Took(y, v)
          \/ Copied(y) /\ u = c.newRow
          \/ known /\ Unlisted(y) /\ u = c.row /\ v \notin Mark(y)
      BY <1>1, <1>2, <3>1, <3>2 DEF OfRows, Backed
    <3>4. Took(y, v) => (Took(y, rows[u].val))'
      BY <1>2, <3>2 DEF Took
    <3> QED BY <1>2, <3>2, <3>3, <3>4
  <2> QED BY <2>1 DEF Backed
<1>5. Lonely(y)'
  <2> SUFFICES ASSUME OnRow(y, {"index delete", "index", "row", "row delete"})'
               PROVE  Lonely(y)'
    BY DEF Lonely
  <2>1. OnRow(y, {"index delete", "index", "row", "row delete"}) /\ c.row \in DOMAIN rows
    BY <1>1, <1>2 DEF OnRow, SameFor
  <2>2. rows'[c.row].val = rows[c.row].val
    BY <2>1 DEF SameFor
  <2>3. \A u \in DOMAIN rows : Current(y, u) /\ rows[u].val = rows[c.row].val =>
          u = c.row \/ (Copied(y) /\ u = c.newRow)
    BY <1>1, <2>1 DEF OfRows, Lonely
  <2> QED BY <1>2, <2>2, <2>3 DEF Lonely
<1>6. Fresh(y)'
  <2>1. Reserved(y) => ~Wrote(y, c.new)
    BY <1>1 DEF OfRows, Fresh
  <2>2. Wrote(y, cmd[y].new)' => Wrote(y, c.new)'
    BY <1>2 DEF Wrote
  <2> QED BY <1>2, <2>1, <2>2 DEF Fresh
<1> QED BY <1>3, <1>4, <1>5, <1>6 DEF OfRows

LEMMA SameOfValues ==
  ASSUME NEW y, SameFor(y), OfValues(y)
  PROVE  OfValues(y)'
<1>1. PICK c : c = cmd[y]
  OBVIOUS
<1>2. /\ cmd'[y] = c /\ Temp(y)' = Temp(y) /\ Mark(y)' = Mark(y) /\ DOMAIN rows \subseteq DOMAIN rows'
      /\ \A u : Current(y, u)' <=> Current(y, u)
      /\ \A u : Current(y, u) => u \in DOMAIN rows /\ rows'[u].val = rows[u].val
      /\ \A v : (Wrote(y, v)' <=> Wrote(y, v)) /\ (Took(y, v)' <=> Took(y, v))
      /\ (Unlisted(y)' <=> Unlisted(y)) /\ (Reserved(y)' <=> Reserved(y)) /\ (Copied(y)' <=> Copied(y))
  BY <1>1 DEF SameFor, Current
<1>3. OnRow(y, {"index", "row", "row delete"}) =>
        c.row \in DOMAIN rows /\ rows'[c.row].val = rows[c.row].val /\ (Live(rows[c.row])' => Live(rows[c.row]))
  <2>1. OnRow(y, {"index", "row", "row delete"}) => OnRow(y, {"index delete", "index", "row", "row delete"})
    BY DEF OnRow
  <2>2. (Live(rows[c.row]))' => (Live(rows[cmd[y].row]))'
    BY <1>2 DEF Live, Committed
  <2> QED BY <1>1, <2>1, <2>2 DEF SameFor
<1>4. Taking(y)'
  BY <1>2 DEF OfValues, Taking
<1>5. Marking(y)'
  <2>1. ASSUME NEW v \in Mark(y)
        PROVE  (\/ Took(y, v) /\ ~Wrote(y, v)
                \/ /\ Unlisted(y) /\ rows[cmd[y].row].val = v
                   /\ \A u \in DOMAIN rows : Current(y, u) /\ rows[u].val = v => u = cmd[y].row)'
    <3>1. \/ Took(y, v) /\ ~Wrote(y, v)
          \/ /\ Unlisted(y) /\ rows[c.row].val = v
             /\ \A u \in DOMAIN rows : Current(y, u) /\ rows[u].val = v => u = c.row
      BY <1>1, <2>1 DEF OfValues, Marking
    <3>2. CASE Took(y, v) /\ ~Wrote(y, v)
      BY <1>2, <3>2
    <3>3. CASE /\ Unlisted(y) /\ rows[c.row].val = v
               /\ \A u \in DOMAIN rows : Current(y, u) /\ rows[u].val = v => u = c.row
      <4>1. rows'[c.row].val = v
        BY <1>3, <3>3 DEF Unlisted
      <4> QED BY <1>2, <3>3, <4>1
    <3> QED BY <3>1, <3>2, <3>3
  <2> QED BY <1>2, <2>1 DEF Marking
<1>6. Holding(y)'
  BY <1>1, <1>2 DEF OfValues, Holding
<1>7. Given(y)'
  <2>1. ASSUME NEW v \in Val, Unlisted(y)', rows'[c.row].val = v
        PROVE  (v \notin Temp(y) /\ (v \in Mark(y) \/ (~Took(y, v) /\ ~Live(rows[c.row]))))'
    <3>1. Unlisted(y) /\ rows[c.row].val = v /\ (Live(rows[c.row])' => Live(rows[c.row]))
      BY <1>2, <1>3, <2>1 DEF Unlisted
    <3>2. v \notin Temp(y) /\ (v \in Mark(y) \/ (~Took(y, v) /\ ~Live(rows[c.row])))
      BY <1>1, <3>1 DEF OfValues, Given
    <3> QED BY <1>2, <3>1, <3>2
  <2>2. (Live(rows[cmd[y].row]))' => (Live(rows[c.row]))'
    BY <1>2 DEF Live, Committed
  <2> QED BY <1>2, <2>1, <2>2 DEF Given
<1>8. Unmarked(y)'
  BY <1>1, <1>2 DEF OfValues, Unmarked, SameFor, OnRow
<1> QED BY <1>4, <1>5, <1>6, <1>7, <1>8 DEF OfValues

(* While nobody commits, the live rows are the same.                       *)
SameFates == \A z \in Xid : Committed(z)' <=> Committed(z)

LEMMA LiveRows ==
  ASSUME Shaped, NEW x \in Xid, Effect(x), SameFates
  PROVE  /\ \A u \in DOMAIN rows : u \in DOMAIN rows' /\ rows'[u].val = rows[u].val /\ (Live(rows[u])' <=> Live(rows[u]))
         /\ \A u \in DOMAIN rows' \ DOMAIN rows : ~Live(rows[u])'
<1>1. ASSUME NEW u \in DOMAIN rows
      PROVE  u \in DOMAIN rows' /\ rows'[u].val = rows[u].val /\ (Live(rows[u])' <=> Live(rows[u]))
  <2>1. PICK a, b, c : a = rows[u].xmin /\ b = rows[u].xmax /\ c = rows'[u].xmax
    OBVIOUS
  <2>2. /\ a \in Xid /\ b \in Xid \cup {NoXid} /\ rows'[u].xmin = a /\ u \in DOMAIN rows' /\ rows'[u].val = rows[u].val
        /\ c = b \/ Deletes(x, u)
    BY <2>1, RowTyped DEF Shaped, Typed, Version, Effect, RowsEffect, Kept
  <2>3. Committed(a)' <=> Committed(a)
    BY <2>2 DEF SameFates
  <2>4. Committed(c)' <=> Committed(b)
    <3>1. CASE c = b
      BY <2>2, <3>1 DEF SameFates, Committed
    <3>2. CASE Deletes(x, u)
      <4>1. c = x /\ ~Committed(x)
        BY <2>1, <3>2 DEF Deletes, Committed
      <4>2. ~Committed(b)
        BY <2>1, <3>2 DEF Deletes, Visible, Committed
      <4> QED BY <4>1, <4>2 DEF SameFates
    <3> QED BY <2>2, <3>1, <3>2
  <2>5. Live(rows[u]) <=> Committed(a) /\ ~Committed(b)
    BY <2>1 DEF Live
  <2>6. Live(rows[u])' <=> Committed(a)' /\ ~Committed(c)'
    BY <2>1, <2>2 DEF Live, Committed
  <2> QED BY <2>2, <2>3, <2>4, <2>5, <2>6
<1>2. ASSUME NEW u \in DOMAIN rows' \ DOMAIN rows PROVE ~Live(rows[u])'
  <2>1. rows' # rows /\ rows'[u].xmin = x
    BY <1>2 DEF Effect, RowsEffect
  <2>2. status'[x] = "active"
    BY <2>1 DEF Effect, RowsEffect
  <2> QED BY <2>1, <2>2 DEF Live, Committed
<1> QED BY <1>1, <1>2

LEMMA LivesStay ==
  ASSUME Shaped, NEW x \in Xid, Effect(x), SameFates
  PROVE  (UniqueValues => UniqueValues') /\ \A v : Lives(v)' <=> Lives(v)
BY LiveRows DEF UniqueValues, Lives

(* A committed transaction keeps what it took.                             *)
LEMMA TookStays ==
  ASSUME Shaped, NEW x \in Xid, Effect(x), NEW y \in Xid \ {x}, Committed(y), NEW v, Took(y, v)
  PROVE  Took(y, v)'
<1>1. PICK u \in DOMAIN rows : rows[u].val = v /\ Committed(rows[u].xmin) /\ rows[u].xmax = y
  BY DEF Took
<1>2. PICK a \in Xid : a = rows[u].xmin
  BY RowTyped DEF Shaped, Typed, Version
<1>3. ~Deletes(x, u)
  <2>1. a # x \/ rows[u].xmax # NoXid
    BY <1>1 DEF Committed
  <2> QED BY <1>1, <1>2 DEF Deletes, Visible, Committed
<1>4. u \in DOMAIN rows' /\ rows'[u].val = v /\ rows'[u].xmin = a /\ rows'[u].xmax = y
  BY <1>1, <1>2, <1>3 DEF Effect, RowsEffect, Kept
<1>5. Committed(a)'
  BY <1>1, <1>2 DEF Committed, Effect, Others
<1> QED BY <1>4, <1>5 DEF Took, Committed

(* What remains to be shown of a step of x.                                *)
LEMMA CalmOn ==
  ASSUME Inv, NEW x \in Xid, Effect(x), ~disturbed' => UniqueValues',
         ~disturbed' /\ Running(x)' => OfRows(x)'
  PROVE  Calm'
<1> SUFFICES ASSUME ~disturbed', NEW y \in Xid \ {x}, Running(y)' PROVE OfRows(y)'
  BY DEF Calm
<1>1. Running(y) /\ ~disturbed
  BY DEF Effect, Others, Running
<1>2. OfRows(y) /\ Shaped
  BY <1>1 DEF Inv, Calm
<1> QED BY <1>1, <1>2, OthersSame, SameOfRows

LEMMA OthersTold ==
  ASSUME NEW x \in Xid, Effect(x), NEW y \in Xid \ {x}, Told(y)
  PROVE  Told(y)'
BY DEF Told, Effect, Others, Running, Ending, InStatement

LEMMA OthersOfValues ==
  ASSUME Inv, NEW x \in Xid, Effect(x), ~disturbed', known, NEW y \in Xid \ {x}, Running(y)'
  PROVE  OfValues(y)'
<1>1. Running(y) /\ ~disturbed
  BY DEF Effect, Others, Running
<1>2. OfValues(y) /\ Shaped
  BY <1>1 DEF Inv, Exact
<1> QED BY <1>1, <1>2, OthersSame, SameOfValues

(* A step that neither commits nor tells the index of a commit.            *)
LEMMA ExactOn ==
  ASSUME Inv, NEW x \in Xid, Effect(x), SameFates, index' = index,
         cmd[x].op # "commit", cmd'[x].op # "commit",
         ~disturbed' /\ known => Apart' /\ Told(x)' /\ (Running(x)' => OfValues(x)')
  PROVE  Exact'
<1> SUFFICES ASSUME ~disturbed', known' PROVE Exact'
  BY DEF Exact
<1>1. known /\ ~disturbed /\ Shaped
  BY DEF Effect, Inv
<1>2. /\ Apart /\ LiveListed /\ ListedLive
      /\ \A y \in Xid : Told(y) /\ Committing(y) /\ (Running(y) => OfValues(y))
  BY <1>1 DEF Inv, Exact
<1>3. \A v : Lives(v)' <=> Lives(v)
  BY <1>1, LivesStay
<1>4. \A y \in Xid : (cmd'[y].op = "commit" <=> cmd[y].op = "commit")
                     /\ (cmd[y].op = "commit" => Temp(y)' = Temp(y) /\ Mark(y)' = Mark(y))
  BY DEF Effect, Others
<1>5. LiveListed'
  BY <1>2, <1>3, <1>4 DEF LiveListed
<1>6. ListedLive'
  <2>1. ASSUME NEW v, NEW y \in Xid, cmd[y].op = "commit", Took(y, v) PROVE Took(y, v)'
    <3>1. y # x /\ Committed(y)
      BY <2>1, <1>1, NoXidIsNone DEF Shaped, Control, Committed
    <3> QED BY <1>1, <2>1, <3>1, TookStays
  <2> QED BY <1>2, <1>3, <1>4, <2>1 DEF ListedLive
<1>7. \A y \in Xid : Committing(y)'
  BY <1>2, <1>3, <1>4 DEF Committing
<1>8. \A y \in Xid : Told(y)' /\ (Running(y)' => OfValues(y)')
  BY <1>1, <1>2, OthersTold, OthersOfValues
<1> QED BY <1>1, <1>5, <1>6, <1>7, <1>8 DEF Exact

----------------------------------------------------------------------------
(* The case behind uniqueness: a value that a running transaction holds, or *)
(* has written without having taken it, is not live.                       *)

LEMMA TookLives ==
  ASSUME Shaped, NEW x \in Xid, Running(x), NEW v, Took(x, v)
  PROVE  Lives(v)
BY DEF Took, Lives, Live, Running, Committed

LEMMA TempAlone ==
  ASSUME InsertsExclude, NEW x \in Xid, NEW y \in Xid, NEW v, v \in Temp(x), v \in Temp(y)
  PROVE  x = y
BY DEF InsertsExclude, Temp

LEMMA HeldElsewhere ==
  ASSUME Inv, ~disturbed, NEW x \in Xid, cmd[x].op # "commit", NEW v \in Temp(x)
  PROVE  known /\ v \in Val /\ v \notin index /\ ~Lives(v)
<1>1. known
  BY DEF Inv, Shaped, Unfilled
<1>2. v \in Val
  BY TempTyped DEF Inv, Shaped, Typed
<1>3. Apart /\ LiveListed
  BY <1>1 DEF Inv, Exact
<1>4. v \notin index
  BY <1>3 DEF Apart
<1>5. ASSUME NEW y \in Xid, cmd[y].op = "commit" PROVE v \notin Temp(y)
  BY <1>5, TempAlone DEF Inv, Shaped
<1> QED BY <1>1, <1>2, <1>3, <1>4, <1>5 DEF LiveListed

(* What it has written and neither is handling now is its own value or one *)
(* it took, and it is no other live row's.                                 *)
Calmly(x) == ~Unlisted(x) /\ ~Copied(x) /\ ~Reserved(x)

LEMMA WrittenAlone ==
  ASSUME Inv, ~disturbed, NEW x \in Xid, Running(x), Calmly(x), NEW u \in DOMAIN rows, NEW w \in DOMAIN rows,
         Current(x, u), Live(rows[w]), rows[w].xmax # x
  PROVE  rows[u].val # rows[w].val
<1> SUFFICES ASSUME rows[u].val = rows[w].val PROVE FALSE
  OBVIOUS
<1>1. PICK v : v = rows[u].val
  OBVIOUS
<1>2. OfRows(x) /\ UniqueValues /\ Shaped
  BY DEF Inv, Calm
<1>3. v \in Temp(x) \/ Took(x, v)
  BY <1>1, <1>2 DEF OfRows, Backed, Calmly
<1>4. Lives(v)
  BY <1>1 DEF Lives
<1>5. cmd[x].op # "commit"
  BY <1>2 DEF Shaped, Control, Running
<1>6. CASE v \in Temp(x)
  BY <1>4, <1>5, <1>6, HeldElsewhere
<1>7. CASE Took(x, v)
  <2>1. PICK t \in DOMAIN rows : rows[t].val = v /\ Committed(rows[t].xmin) /\ rows[t].xmax = x
    BY <1>7 DEF Took
  <2>2. Live(rows[t])
    BY <2>1 DEF Live, Running, Committed
  <2>3. t # w
    BY <2>1
  <2> QED BY <1>1, <1>2, <2>1, <2>2, <2>3 DEF UniqueValues
<1> QED BY <1>3, <1>6, <1>7

----------------------------------------------------------------------------
(* Steps that leave rows and index as they are.                            *)

Still(x) ==
  /\ known' = known /\ index' = index /\ rows' = rows /\ status' = status
  /\ \A y \in Xid : Temp(y)' = Temp(y) /\ Mark(y)' = Mark(y)

LEMMA QuietStill ==
  ASSUME NEW x \in Xid, Quietly(x) PROVE Still(x)
BY SameTemps DEF Quietly, Still, ixVars

LEMMA StillStep ==
  ASSUME Inv, NEW x \in Xid, Running(x), Still(x), Effect(x),
         cmd[x].op # "commit", cmd'[x].op # "commit",
         ~disturbed' => /\ Calmly(x) /\ ~Copied(x)' /\ ~Reserved(x)' /\ Lonely(x)'
                        /\ known => ~Unlisted(x)' /\ Told(x)' /\ Unmarked(x)'
  PROVE  Calm' /\ Exact'
<1>1. rows' = rows /\ status' = status /\ index' = index /\ known' = known
  BY DEF Still
<1>2. \A z : Committed(z)' <=> Committed(z)
  BY <1>1 DEF Committed
<1>3. SameFates
  BY <1>2 DEF SameFates
<1>4. /\ \A u : Current(x, u)' <=> Current(x, u)
      /\ \A v : (Wrote(x, v)' <=> Wrote(x, v)) /\ (Took(x, v)' <=> Took(x, v))
  BY <1>1, <1>2 DEF Current, Wrote, Took, Committed
<1>5. Temp(x)' = Temp(x) /\ Mark(x)' = Mark(x)
  BY DEF Still
<1>6. Shaped /\ (~disturbed' => ~disturbed)
  BY DEF Inv, Effect
<1>7. ASSUME ~disturbed' PROVE OfRows(x)'
  <2>1. OfRows(x) /\ Calmly(x)
    BY <1>6, <1>7 DEF Inv, Calm
  <2>2. Single(x)'
    BY <1>1, <1>4, <2>1 DEF OfRows, Single, Calmly
  <2>3. Backed(x)'
    <3>1. ASSUME NEW u \in DOMAIN rows, Current(x, u) PROVE (rows[u].val \in Temp(x) \/ Took(x, rows[u].val))'
      <4>1. PICK v : v = rows[u].val
        OBVIOUS
      <4>2. v \in Temp(x) \/ Took(x, v)
        BY <2>1, <3>1, <4>1 DEF OfRows, Backed, Calmly
      <4>3. rows'[u].val = v
        BY <1>1, <4>1
      <4>4. Took(x, v) => (Took(x, rows[u].val))'
        BY <1>4, <4>3 DEF Took
      <4> QED BY <1>5, <4>2, <4>3, <4>4
    <3> QED BY <1>1, <1>4, <3>1 DEF Backed
  <2> QED BY <1>7, <2>2, <2>3 DEF OfRows, Fresh
<1>8. Calm'
  <2>1. ~disturbed' => UniqueValues'
    BY <1>3, <1>6, LivesStay DEF Inv, Calm
  <2> QED BY <1>7, <2>1, CalmOn
<1>9. ASSUME ~disturbed', known PROVE Apart' /\ Told(x)' /\ OfValues(x)'
  <2>1. Apart /\ OfValues(x) /\ Calmly(x)
    BY <1>6, <1>9 DEF Inv, Exact
  <2>2. Apart'
    BY <1>1, <2>1 DEF Still, Apart
  <2>3. Taking(x)'
    BY <1>4, <1>5, <2>1 DEF OfValues, Taking
  <2>4. Marking(x)'
    BY <1>4, <1>5, <2>1 DEF OfValues, Marking, Calmly
  <2>5. Holding(x)'
    BY <1>4, <1>5, <2>1 DEF OfValues, Holding, Calmly
  <2>6. Given(x)' /\ Unmarked(x)' /\ Told(x)'
    BY <1>9 DEF Given
  <2> QED BY <2>2, <2>3, <2>4, <2>5, <2>6 DEF OfValues
<1>10. Exact'
  BY <1>1, <1>3, <1>9, ExactOn
<1> QED BY <1>8, <1>10

(* A statement that has not touched the index has no row or value under    *)
(* way.                                                                    *)
LEMMA UntouchedCalmly ==
  ASSUME Shaped, NEW x \in Xid, InStatement(x), ~cmd[x].touched, cmd[x].pc # "row delete"
  PROVE  Calmly(x)
<1>1. Control(x) /\ Located(x)
  BY DEF Shaped
<1>2. ~Unlisted(x)
  <2>1. Unlisted(x) => cmd[x].op = "update"
    BY <1>1 DEF Unlisted, OnRow, Located
  <2> QED BY <1>1, <2>1 DEF Control
<1>3. ~Copied(x)
  BY DEF Copied
<1>4. ~Reserved(x)
  BY <1>1, <1>2 DEF Reserved, Adds, Control, Unlisted, OnRow
<1> QED BY <1>2, <1>3, <1>4 DEF Calmly

LEMMA NoCmdIdle ==
  ASSUME NEW x \in Xid, cmd[x] = NoCmd
  PROVE  Calmly(x) /\ Lonely(x) /\ Unmarked(x)
BY EndsTyped DEF Calmly, Lonely, Unmarked, Unlisted, Copied, Reserved, OnRow, Adds

LEMMA NoCmdIdleNext ==
  ASSUME NEW x \in Xid, cmd'[x] = NoCmd
  PROVE  /\ ~Unlisted(x)' /\ ~Copied(x)' /\ ~Reserved(x)' /\ Lonely(x)' /\ Unmarked(x)'
         /\ cmd'[x].op = "none"
BY EndsTyped DEF Lonely, Unmarked, Unlisted, Copied, Reserved, OnRow, Adds

LEMMA StatementRuns ==
  ASSUME Shaped, NEW x \in Xid, InStatement(x)
  PROVE  Running(x) /\ cmd[x].op # "commit" /\ cmd[x].op # "abort"
BY NoXidIsNone DEF Shaped, Control, InStatement, Running, Ops

LEMMA ThrowsInv ==
  ASSUME Inv, NEW x \in Xid, InStatement(x), cmd[x].pc # "row delete",
         Still(x), Effect(x), modified' = modified, cmd'[x] = NoCmd, cmd[x].touched => disturbed'
  PROVE  Calm' /\ Exact'
<1>1. Shaped /\ Running(x) /\ cmd[x].op # "commit"
  BY StatementRuns DEF Inv
<1>2. ~disturbed' => Calmly(x)
  BY <1>1, UntouchedCalmly
<1>3. /\ ~Unlisted(x)' /\ ~Copied(x)' /\ ~Reserved(x)' /\ Lonely(x)' /\ Unmarked(x)'
      /\ cmd'[x].op = "none"
  BY NoCmdIdleNext
<1>4. ~disturbed' /\ known => Told(x)'
  <2>1. ASSUME ~disturbed', known PROVE Told(x)'
    <3>1. Told(x) /\ ~cmd[x].touched
      BY <2>1 DEF Inv, Exact, Effect
    <3>2. Running(x)'
      BY <1>1 DEF Still, Running
    <3> QED BY <3>1, <3>2 DEF Told, Still
  <2> QED BY <2>1
<1> QED BY <1>1, <1>2, <1>3, <1>4, StillStep

LEMMA EndsInv ==
  ASSUME Inv, NEW x \in Xid, InStatement(x), cmd[x].pc \in {"read", "list"},
         Still(x), Effect(x), x \in modified', cmd'[x] = NoCmd
  PROVE  Calm' /\ Exact'
<1>1. Shaped /\ Running(x) /\ cmd[x].op # "commit"
  BY StatementRuns DEF Inv
<1>2. Calmly(x)
  BY DEF Calmly, Unlisted, Copied, Reserved, OnRow, Adds
<1>3. /\ ~Unlisted(x)' /\ ~Copied(x)' /\ ~Reserved(x)' /\ Lonely(x)' /\ Unmarked(x)'
      /\ cmd'[x].op = "none"
  BY NoCmdIdleNext
<1>4. Told(x)'
  BY <1>1 DEF Told, Still, Running
<1> QED BY <1>1, <1>2, <1>3, <1>4, StillStep

LEMMA StartsInv ==
  ASSUME Inv, NEW x \in Xid, Starting(x)
  PROVE  Calm' /\ Exact'
<1>1. /\ Effect(x) /\ Quietly(x) /\ UNCHANGED <<modified, disturbed>>
      /\ Ready(x) /\ cmd'[x].op \in Ops /\ cmd'[x].pc \in {"index", "read"}
      /\ cmd'[x].op = "insert" \/ cmd'[x].pc = "read"
  BY StartingSays DEF Inv, Shapes
<1>2. Still(x) /\ Running(x)
  BY <1>1, QuietStill, NoXidIsNone DEF Ready, Running
<1>3. Calmly(x) /\ cmd[x].op = "none"
  BY <1>1, NoCmdIdle, EndsTyped DEF Ready
<1>4. /\ ~Copied(x)' /\ ~Reserved(x)' /\ ~Unlisted(x)' /\ Lonely(x)' /\ Unmarked(x)'
      /\ cmd'[x].op # "commit"
  BY <1>1 DEF Copied, Reserved, Unlisted, Lonely, Unmarked, OnRow, Adds, Ops
<1>5. ~disturbed' /\ known => Told(x)'
  <2>1. ASSUME ~disturbed', known PROVE Told(x)'
    <3>1. Told(x) /\ ~InStatement(x)
      BY <1>1, <1>3, <2>1 DEF Inv, Exact, InStatement, Ops
    <3>2. Running(x)'
      BY <1>2 DEF Still, Running
    <3> QED BY <1>1, <1>2, <3>1, <3>2 DEF Told, Still
  <2> QED BY <2>1
<1> QED BY <1>1, <1>2, <1>3, <1>4, <1>5, StillStep

LEMMA PassInv ==
  ASSUME Inv, NEW x \in Xid, At(x, {"delete", "update"}, "read"), Still(x), Effect(x),
         disturbed' = disturbed, modified' = modified,
         NEW u, cmd'[x] = [cmd[x] EXCEPT !.todo = @ \ {u}]
  PROVE  Calm' /\ Exact'
<1>1. Shaped /\ InStatement(x)
  BY DEF Inv, At, InStatement, Ops
<1>2. Running(x) /\ cmd[x].op # "commit"
  BY <1>1, StatementRuns
<1>3. PICK c, d : c = cmd[x] /\ d = [c EXCEPT !.todo = @ \ {u}]
  OBVIOUS
<1>4. c \in StatementCmd /\ c.op \in {"delete", "update"} /\ c.pc = "read"
  BY <1>1, <1>3, StatementTyped DEF At, Shaped
<1>5. cmd'[x] = d /\ d.op = c.op /\ d.pc = "read" /\ d.touched = c.touched
  BY <1>3, <1>4 DEF StatementCmd
<1>6. Calmly(x)
  BY <1>3, <1>4 DEF Calmly, Unlisted, Copied, Reserved, OnRow, Adds
<1>7. /\ ~Copied(x)' /\ ~Reserved(x)' /\ ~Unlisted(x)' /\ Lonely(x)' /\ Unmarked(x)'
      /\ cmd'[x].op # "commit"
  BY <1>4, <1>5 DEF Copied, Reserved, Unlisted, Lonely, Unmarked, OnRow, Adds
<1>8. ASSUME ~disturbed', known PROVE Told(x)'
  <2>1. Told(x) /\ Running(x)'
    BY <1>2, <1>8 DEF Inv, Exact, Still, Running
  <2>2. InStatement(x)' /\ (cmd[x].touched <=> cmd[x].touched')
    BY <1>3, <1>4, <1>5 DEF InStatement, Ops
  <2> QED BY <2>1, <2>2 DEF Told, Still
<1> QED BY <1>2, <1>6, <1>7, <1>8, StillStep

LEMMA ReadInv ==
  ASSUME Inv, NEW x \in Xid, NEW u \in listed, ReadRow(x, u)
  PROVE  Calm' /\ Exact'
<1>1. Shaped /\ InStatement(x)
  BY DEF Inv, ReadRow, At, InStatement, Ops
<1>2. Running(x) /\ cmd[x].op # "commit"
  BY <1>1, StatementRuns
<1>3. PICK c, d : c = cmd[x] /\ d = [c EXCEPT !.todo = @ \ {u}, !.row = u, !.pc = AfterRead(x, u)]
  OBVIOUS
<1>4. c \in StatementCmd /\ c.op \in {"delete", "update"} /\ c.pc = "read"
  BY <1>1, <1>3, StatementTyped DEF ReadRow, At, Shaped
<1>5. /\ Effect(x) /\ Quietly(x) /\ disturbed' = disturbed /\ modified' = modified /\ cmd'[x] = d
      /\ Still(x) /\ Visible(x, rows[u]) /\ rows' = rows /\ known' = known
  BY <1>1, <1>3, ReadShapes, QuietStill DEF Shapes, ReadRow
<1>6. /\ AfterRead(x, u) \in {"row", "index delete", "row delete"}
      /\ c.op = "update" => AfterRead(x, u) = IF c.new = rows[u].val THEN "row" ELSE "index delete"
      /\ c.op = "delete" => AfterRead(x, u) = IF known THEN "index delete" ELSE "row delete"
  BY <1>3, <1>4 DEF AfterRead
<1>7. d.op = c.op /\ d.pc = AfterRead(x, u) /\ d.row = u /\ d.new = c.new /\ d.touched = c.touched
  BY <1>3, <1>4 DEF StatementCmd
<1>8. Calmly(x)
  BY <1>3, <1>4 DEF Calmly, Unlisted, Copied, Reserved, OnRow, Adds
<1>9. Same(x)' <=> c.op = "update" /\ c.new = rows[u].val
  BY <1>5, <1>7 DEF Same
<1>10. ~Copied(x)' /\ ~Reserved(x)' /\ (known => ~Unlisted(x)') /\ cmd'[x].op # "commit"
  BY <1>4, <1>5, <1>6, <1>7, <1>9 DEF Copied, Reserved, Unlisted, OnRow, Adds
<1>11. u \in DOMAIN rows /\ rows[u] \in Version
  BY <1>1, RowTyped DEF Shaped, Typed, RowsTyped
<1>12. Current(x, u) \/ (Live(rows[u]) /\ rows[u].xmax # x)
  BY <1>5, <1>11 DEF Visible, Current, Live
<1>13. ASSUME ~disturbed' PROVE Lonely(x)'
  <2>1. ASSUME NEW w \in DOMAIN rows, Current(x, w), rows[w].val = rows[u].val PROVE w = u
    <3>1. CASE Current(x, u)
      BY <1>2, <1>5, <1>8, <1>11, <1>13, <2>1, <3>1 DEF Inv, Calm, OfRows, Single, Calmly
    <3>2. CASE Live(rows[u]) /\ rows[u].xmax # x
      BY <1>2, <1>5, <1>8, <1>11, <1>13, <2>1, <3>2, WrittenAlone
    <3> QED BY <1>12, <3>1, <3>2
  <2> QED BY <1>5, <1>7, <2>1 DEF Lonely, Current
<1>14. ASSUME ~disturbed', known PROVE Unmarked(x)'
  <2> SUFFICES ASSUME c.new = rows[u].val, c.new \in Mark(x) PROVE FALSE
    BY <1>5, <1>7, <1>9 DEF Unmarked, Still
  <2>1. OfValues(x) /\ UniqueValues
    BY <1>2, <1>5, <1>14 DEF Inv, Exact, Calm
  <2>2. Took(x, c.new) /\ ~Wrote(x, c.new)
    BY <1>8, <2>1 DEF OfValues, Marking, Calmly
  <2>3. Live(rows[u]) /\ rows[u].xmax # x
    BY <1>11, <1>12, <2>2 DEF Wrote
  <2>4. PICK t \in DOMAIN rows : rows[t].val = c.new /\ Committed(rows[t].xmin) /\ rows[t].xmax = x
    BY <2>2 DEF Took
  <2>5. Live(rows[t]) /\ t # u
    BY <1>2, <2>3, <2>4 DEF Live, Running, Committed
  <2> QED BY <1>11, <2>1, <2>3, <2>4, <2>5 DEF UniqueValues
<1>15. ASSUME ~disturbed', known PROVE Told(x)'
  <2>1. Told(x) /\ Running(x)'
    BY <1>2, <1>5, <1>15 DEF Inv, Exact, Still, Running
  <2>2. InStatement(x)' /\ (cmd[x].touched <=> cmd[x].touched')
    BY <1>3, <1>4, <1>5, <1>7 DEF InStatement, Ops
  <2> QED BY <1>5, <2>1, <2>2 DEF Told, Still
<1> QED BY <1>2, <1>5, <1>8, <1>10, <1>13, <1>14, <1>15, StillStep

----------------------------------------------------------------------------
(* The new value goes into the index: nobody has it and it is not live.    *)
LEMMA InsertIndexInv ==
  ASSUME Inv, NEW x \in Xid, InsertIndexed(x)
  PROVE  Calm' /\ Exact'
<1>1. Shaped /\ InStatement(x)
  BY DEF Inv, InsertIndexed, InsertIndex, At, InStatement, Ops
<1>2. Running(x) /\ cmd[x].op # "commit"
  BY <1>1, StatementRuns
<1>3. PICK c, d, v : c = cmd[x] /\ d = [c EXCEPT !.pc = "row", !.touched = TRUE] /\ v = c.new
  OBVIOUS
<1>4. c \in StatementCmd /\ c.op \in {"insert", "update"} /\ c.pc = "index" /\ v \in Val /\ known
  BY <1>1, <1>3, StatementTyped DEF InsertIndexed, InsertIndex, At, Shaped, Located, Control, Adds
<1>5. d.op = c.op /\ d.pc = "row" /\ d.row = c.row /\ d.new = v /\ d.touched = TRUE
  BY <1>3, <1>4 DEF StatementCmd
<1>6. /\ Effect(x) /\ disturbed' = disturbed /\ cmd'[x] = d
      /\ Temp(x)' = Temp(x) \cup {v} /\ Mark(x)' = Mark(x)
      /\ \A y \in Xid \ {x} : Temp(y)' = Temp(y) /\ Mark(y)' = Mark(y)
  BY <1>1, <1>3, InsertIndexShapes DEF Shapes, Effect, Others
<1>7. /\ ~Taken(x, v) /\ index' = index /\ known' = known /\ rows' = rows /\ status' = status
      /\ modified' = modified
  BY <1>3 DEF InsertIndexed, InsertIndex, IndexInsert
<1>8. \A z : Committed(z)' <=> Committed(z)
  BY <1>7 DEF Committed
<1>9. SameFates
  BY <1>8 DEF SameFates
<1>10. /\ \A u : Current(x, u)' <=> Current(x, u)
       /\ \A w : (Wrote(x, w)' <=> Wrote(x, w)) /\ (Took(x, w)' <=> Took(x, w))
  BY <1>7, <1>8 DEF Current, Wrote, Took, Committed
<1>11. v \notin index /\ \A y \in Xid : v \notin Temp(y)
  BY <1>7 DEF Taken, Temp
<1>12. c.op = "update" => ~Same(x) /\ c.row \in DOMAIN rows /\ c.new # rows[c.row].val
  BY <1>1, <1>3, <1>4 DEF Shaped, Control, Located, OnRow, Same
<1>13. c.op = "update" => ~Same(x)'
  BY <1>3, <1>5, <1>6, <1>7, <1>12 DEF Same
<1>14. /\ (Unlisted(x) <=> c.op = "update") /\ (Unlisted(x)' <=> c.op = "update")
       /\ ~Copied(x) /\ ~Copied(x)' /\ ~Reserved(x) /\ Reserved(x)'
  BY <1>3, <1>4, <1>5, <1>6, <1>12, <1>13 DEF Unlisted, Copied, Reserved, OnRow, Adds, Same
<1>15. ASSUME ~disturbed' PROVE OfRows(x)'
  <2>1. OfRows(x) /\ Apart /\ LiveListed
    BY <1>2, <1>4, <1>6, <1>15 DEF Inv, Calm, Exact
  <2>2. Single(x)'
    BY <1>7, <1>10, <1>14, <2>1 DEF OfRows, Single
  <2>3. Backed(x)'
    <3>1. ASSUME NEW u \in DOMAIN rows, Current(x, u)
          PROVE  (\/ rows[u].val \in Temp(x)
                  \/ Took(x, rows[u].val)
                  \/ Copied(x) /\ u = cmd[x].newRow
                  \/ known /\ Unlisted(x) /\ u = cmd[x].row /\ rows[u].val \notin Mark(x))'
      <4>1. PICK w : w = rows[u].val
        OBVIOUS
      <4>2. w \in Temp(x) \/ Took(x, w) \/ (known /\ Unlisted(x) /\ u = c.row /\ w \notin Mark(x))
        BY <1>3, <1>14, <2>1, <3>1, <4>1 DEF OfRows, Backed
      <4>3. rows'[u].val = w
        BY <1>7, <4>1
      <4>4. Took(x, w) => (Took(x, rows[u].val))'
        BY <1>10, <4>3 DEF Took
      <4> QED BY <1>5, <1>6, <1>7, <1>14, <4>2, <4>3, <4>4
    <3> QED BY <1>7, <1>10, <3>1 DEF Backed
  <2>4. Lonely(x)'
    BY <1>3, <1>4, <1>5, <1>6, <1>7, <1>10, <1>14, <2>1 DEF OfRows, Lonely, OnRow
  <2>5. ~Wrote(x, v)
    <3> SUFFICES ASSUME NEW u \in DOMAIN rows, Current(x, u), rows[u].val = v PROVE FALSE
      BY DEF Wrote
    <3>1. Took(x, v) \/ (Unlisted(x) /\ u = c.row)
      BY <1>3, <1>11, <1>14, <2>1 DEF OfRows, Backed
    <3>2. CASE Took(x, v)
      <4>1. Lives(v)
        BY <1>1, <1>2, <3>2, TookLives
      <4> QED BY <1>4, <1>11, <2>1, <4>1 DEF LiveListed
    <3>3. CASE Unlisted(x) /\ u = c.row
      BY <1>3, <1>12, <1>14, <3>3
    <3> QED BY <3>1, <3>2, <3>3
  <2>6. Fresh(x)'
    BY <1>5, <1>6, <1>10, <2>5 DEF Fresh, Wrote
  <2> QED BY <2>2, <2>3, <2>4, <2>6 DEF OfRows
<1>16. Calm'
  <2>1. ~disturbed' => UniqueValues'
    BY <1>1, <1>6, <1>9, LivesStay DEF Inv, Calm
  <2> QED BY <1>6, <1>15, <2>1, CalmOn
<1>17. ASSUME ~disturbed' PROVE Apart' /\ Told(x)' /\ OfValues(x)'
  <2>1. Apart /\ OfValues(x)
    BY <1>2, <1>4, <1>6, <1>17 DEF Inv, Exact
  <2>2. Apart'
    <3>1. \A y \in Xid : Mark(y)' = Mark(y) /\ (Temp(y) \cap index)' = {}
      BY <1>6, <1>7, <1>11, <2>1 DEF Apart
    <3> QED BY <1>7, <2>1, <3>1 DEF Apart
  <2>3. Told(x)'
    BY <1>1, <1>2, <1>3, <1>5, <1>6, <1>7 DEF Told, InStatement, Running
  <2>4. Taking(x)'
    BY <1>6, <1>10, <2>1 DEF OfValues, Taking
  <2>5. Marking(x)'
    BY <1>3, <1>5, <1>6, <1>7, <1>10, <1>14, <2>1 DEF OfValues, Marking
  <2>6. Holding(x)'
    BY <1>5, <1>6, <1>10, <1>14, <2>1 DEF OfValues, Holding
  <2>7. Given(x)'
    <3>1. ASSUME NEW w \in Val, Unlisted(x)', rows[c.row].val = w
          PROVE  (w \notin Temp(x) /\ (w \in Mark(x) \/ (~Took(x, w) /\ ~Live(rows[c.row]))))'
      <4>1. Unlisted(x) /\ w # v
        BY <1>3, <1>12, <1>14, <3>1
      <4>2. w \notin Temp(x) /\ (w \in Mark(x) \/ (~Took(x, w) /\ ~Live(rows[c.row])))
        BY <1>3, <2>1, <3>1, <4>1 DEF OfValues, Given
      <4>3. Live(rows[c.row])' => Live(rows[c.row])
        BY <1>7 DEF Live, Committed
      <4> QED BY <1>6, <1>10, <4>1, <4>2, <4>3
    <3>2. (Live(rows[cmd[x].row]))' => (Live(rows[c.row]))'
      BY <1>5, <1>6 DEF Live, Committed
    <3> QED BY <1>5, <1>6, <1>7, <3>1, <3>2 DEF Given
  <2>8. Unmarked(x)'
    BY <1>4, <1>5, <1>6, <1>13 DEF Unmarked, OnRow
  <2> QED BY <2>2, <2>3, <2>4, <2>5, <2>6, <2>7, <2>8 DEF OfValues
<1>18. Exact'
  <2>1. cmd'[x].op # "commit"
    BY <1>4, <1>5, <1>6
  <2> QED BY <1>2, <1>6, <1>7, <1>9, <1>17, <2>1, ExactOn
<1> QED BY <1>16, <1>18

(* The new row is written: its value is held for it, or it is the copy of   *)
(* the row the statement is on.                                             *)
LEMMA InsertRowInv ==
  ASSUME Inv, NEW x \in Xid, InsertRow(x)
  PROVE  Calm' /\ Exact'
<1>1. Shaped /\ InStatement(x)
  BY DEF Inv, InsertRow, At, InStatement, Ops
<1>2. Running(x) /\ cmd[x].op # "commit" /\ x # NoXid
  BY <1>1, StatementRuns DEF Running
<1>3. PICK c, n, v : c = cmd[x] /\ n = Len(rows) + 1 /\ v = c.new
  OBVIOUS
<1>4. PICK d : d = [c EXCEPT !.newRow = n, !.pc = IF c.op = "insert" THEN "list" ELSE "row delete"]
  OBVIOUS
<1>5. c \in StatementCmd /\ c.op \in {"insert", "update"} /\ c.pc = "row"
  BY <1>1, <1>3, StatementTyped DEF InsertRow, At, Shaped
<1>6. /\ d.op = c.op /\ d.pc = (IF c.op = "insert" THEN "list" ELSE "row delete")
      /\ d.row = c.row /\ d.new = v /\ d.touched = c.touched /\ d.newRow = n
  BY <1>3, <1>4, <1>5 DEF StatementCmd
<1>7. /\ Effect(x) /\ disturbed' = disturbed /\ cmd'[x] = d
      /\ DOMAIN rows' = DOMAIN rows \cup {n} /\ n \notin DOMAIN rows
      /\ \A u \in DOMAIN rows : rows'[u] = rows[u]
      /\ rows'[n] = [val |-> v, xmin |-> x, xmax |-> NoXid]
  BY <1>1, <1>3, <1>4, InsertRowShapes DEF Shapes
<1>8. /\ index' = index /\ known' = known /\ status' = status /\ modified' = modified
      /\ \A y : Temp(y)' = Temp(y) /\ Mark(y)' = Mark(y)
  BY SameTemps DEF InsertRow, ixVars
<1>9. rows'[n].val = v /\ rows'[n].xmin = x /\ rows'[n].xmax = NoXid
  BY <1>7
<1>10. \A z : Committed(z)' <=> Committed(z)
  BY <1>8 DEF Committed
<1>11. SameFates
  BY <1>10 DEF SameFates
<1>12. /\ \A u : Current(x, u)' <=> Current(x, u) \/ u = n
       /\ ~Current(x, n)
  BY <1>7, <1>9 DEF Current
<1>13. ASSUME NEW w PROVE Wrote(x, w)' <=> Wrote(x, w) \/ w = v
  BY <1>7, <1>9, <1>12 DEF Wrote
<1>14. ASSUME NEW w PROVE Took(x, w)' <=> Took(x, w)
  <2>1. \A u \in DOMAIN rows : Committed(rows[u].xmin)' <=> Committed(rows[u].xmin)
    BY <1>7, <1>10 DEF Committed
  <2> QED BY <1>2, <1>7, <1>9, <2>1 DEF Took
<1>15. c.op = "update" => c.row \in DOMAIN rows /\ rows'[c.row].val = rows[c.row].val
  BY <1>1, <1>3, <1>5, <1>7 DEF Shaped, Located
<1>16. (Same(x) <=> c.op = "update" /\ v = rows[c.row].val) /\ (Same(x)' <=> Same(x))
  BY <1>3, <1>6, <1>7, <1>15 DEF Same
<1>17. /\ Unlisted(x) <=> c.op = "update" /\ ~Same(x)
       /\ Unlisted(x)' <=> c.op = "update" /\ ~Same(x)
       /\ Copied(x)' <=> c.op = "update" /\ Same(x)
       /\ ~Copied(x) /\ ~Reserved(x)' /\ (Reserved(x) <=> ~Same(x))
  BY <1>3, <1>5, <1>6, <1>7, <1>16 DEF Unlisted, Copied, Reserved, OnRow, Adds
<1>18. ASSUME ~disturbed' PROVE OfRows(x)'
  <2>1. OfRows(x)
    BY <1>2, <1>7, <1>18 DEF Inv, Calm
  <2>2. ASSUME NEW u \in DOMAIN rows, Current(x, u), rows[u].val = v
        PROVE  u = c.row /\ Same(x)
    <3>1. Same(x)
      BY <1>3, <1>17, <2>1, <2>2 DEF OfRows, Fresh, Wrote
    <3>2. OnRow(x, {"index delete", "index", "row", "row delete"})
      BY <1>3, <1>5, <1>16, <3>1 DEF OnRow
    <3> QED BY <1>3, <1>16, <1>17, <2>1, <2>2, <3>1, <3>2 DEF OfRows, Lonely
  <2>3. Single(x)'
    <3> SUFFICES ASSUME NEW u \in DOMAIN rows', NEW w \in DOMAIN rows', Current(x, u)', Current(x, w)',
                        rows'[u].val = rows'[w].val, u # w
                 PROVE  Copied(x)' /\ ((u = c.row /\ w = n) \/ (w = c.row /\ u = n))
      BY <1>6, <1>7 DEF Single
    <3>1. CASE u = n
      BY <1>7, <1>9, <1>12, <1>16, <1>17, <2>2, <3>1
    <3>2. CASE w = n
      BY <1>7, <1>9, <1>12, <1>16, <1>17, <2>2, <3>2
    <3>3. CASE u # n /\ w # n
      BY <1>7, <1>12, <1>17, <2>1, <3>3 DEF OfRows, Single
    <3> QED BY <3>1, <3>2, <3>3
  <2>4. Backed(x)'
    <3>1. ASSUME NEW u \in DOMAIN rows', Current(x, u)'
          PROVE  (\/ rows[u].val \in Temp(x)
                  \/ Took(x, rows[u].val)
                  \/ Copied(x) /\ u = cmd[x].newRow
                  \/ known /\ Unlisted(x) /\ u = cmd[x].row /\ rows[u].val \notin Mark(x))'
      <4>1. CASE u = n
        <5>1. Reserved(x) => v \in Temp(x)
          BY <1>1, <1>3 DEF Shaped, Control
        <5> QED BY <1>6, <1>7, <1>8, <1>9, <1>16, <1>17, <4>1, <5>1
      <4>2. CASE u # n
        <5>1. PICK w : w = rows[u].val
          OBVIOUS
        <5>2. Current(x, u) /\ rows'[u].val = w /\ u \in DOMAIN rows
          BY <1>7, <1>12, <3>1, <4>2, <5>1
        <5>3. w \in Temp(x) \/ Took(x, w) \/ (known /\ Unlisted(x) /\ u = c.row /\ w \notin Mark(x))
          BY <1>3, <1>17, <2>1, <5>1, <5>2 DEF OfRows, Backed
        <5>4. Took(x, w) => (Took(x, rows[u].val))'
          BY <1>14, <5>2 DEF Took
        <5> QED BY <1>6, <1>7, <1>8, <1>17, <5>2, <5>3, <5>4
      <4> QED BY <4>1, <4>2
    <3> QED BY <3>1 DEF Backed
  <2>5. Lonely(x)'
    <3> SUFFICES ASSUME c.op = "update", NEW u \in DOMAIN rows', Current(x, u)', rows'[u].val = rows'[c.row].val
                 PROVE  u = c.row \/ (Copied(x)' /\ u = n)
      BY <1>5, <1>6, <1>7 DEF Lonely, OnRow
    <3>1. CASE u = n
      BY <1>9, <1>15, <1>16, <1>17, <3>1
    <3>2. CASE u # n
      <4>1. OnRow(x, {"index delete", "index", "row", "row delete"})
        BY <1>3, <1>5 DEF OnRow
      <4> QED BY <1>3, <1>7, <1>12, <1>15, <1>17, <2>1, <3>2, <4>1 DEF OfRows, Lonely
    <3> QED BY <3>1, <3>2
  <2>6. Fresh(x)'
    BY <1>17 DEF Fresh
  <2> QED BY <2>3, <2>4, <2>5, <2>6 DEF OfRows
<1>19. Calm'
  <2>1. ~disturbed' => UniqueValues'
    BY <1>1, <1>7, <1>11, LivesStay DEF Inv, Calm
  <2> QED BY <1>7, <1>18, <2>1, CalmOn
<1>20. ASSUME ~disturbed', known PROVE Apart' /\ Told(x)' /\ OfValues(x)'
  <2>1. Apart /\ OfValues(x) /\ Told(x)
    BY <1>2, <1>7, <1>20 DEF Inv, Exact
  <2>2. Apart'
    BY <1>8, <2>1 DEF Apart
  <2>3. Told(x)'
    BY <1>1, <1>2, <1>3, <1>6, <1>7, <1>8, <2>1 DEF Told, InStatement, Running
  <2>4. Taking(x)'
    BY <1>8, <1>13, <1>14, <2>1 DEF OfValues, Taking
  <2>5. v \notin Mark(x)
    <3>1. CASE Reserved(x)
      <4>1. v \in Temp(x)
        BY <1>1, <1>3, <3>1 DEF Shaped, Control
      <4> QED BY <2>1, <4>1 DEF Apart
    <3>2. CASE ~Reserved(x)
      BY <1>3, <1>5, <1>16, <1>17, <2>1, <3>2 DEF OfValues, Unmarked, OnRow
    <3> QED BY <3>1, <3>2
  <2>6. Marking(x)'
    <3>1. ASSUME NEW w \in Mark(x)
          PROVE  (\/ Took(x, w) /\ ~Wrote(x, w)
                  \/ /\ Unlisted(x) /\ rows[cmd[x].row].val = w
                     /\ \A u \in DOMAIN rows : Current(x, u) /\ rows[u].val = w => u = cmd[x].row)'
      <4>1. w # v
        BY <2>5
      <4>2. \/ Took(x, w) /\ ~Wrote(x, w)
            \/ /\ Unlisted(x) /\ rows[c.row].val = w
               /\ \A u \in DOMAIN rows : Current(x, u) /\ rows[u].val = w => u = c.row
        BY <1>3, <2>1 DEF OfValues, Marking
      <4>3. CASE Took(x, w) /\ ~Wrote(x, w)
        BY <1>13, <1>14, <4>1, <4>3
      <4>4. CASE /\ Unlisted(x) /\ rows[c.row].val = w
                 /\ \A u \in DOMAIN rows : Current(x, u) /\ rows[u].val = w => u = c.row
        <5>1. Unlisted(x)' /\ rows'[c.row].val = w
          BY <1>15, <1>17, <4>4
        <5>2. \A u \in DOMAIN rows' : Current(x, u)' /\ rows'[u].val = w => u = c.row
          BY <1>7, <1>9, <1>12, <4>1, <4>4
        <5> QED BY <1>6, <1>7, <5>1, <5>2
      <4> QED BY <4>2, <4>3, <4>4
    <3> QED BY <1>8, <3>1 DEF Marking
  <2>7. Holding(x)'
    BY <1>3, <1>8, <1>13, <2>1 DEF OfValues, Holding
  <2>8. Given(x)'
    <3>1. ASSUME NEW w \in Val, Unlisted(x)', rows'[c.row].val = w
          PROVE  (w \notin Temp(x) /\ (w \in Mark(x) \/ (~Took(x, w) /\ ~Live(rows[c.row]))))'
      <4>1. Unlisted(x) /\ c.row \in DOMAIN rows /\ rows[c.row].val = w
        BY <1>15, <1>17, <3>1
      <4>2. w \notin Temp(x) /\ (w \in Mark(x) \/ (~Took(x, w) /\ ~Live(rows[c.row])))
        BY <1>3, <2>1, <4>1 DEF OfValues, Given
      <4>3. Live(rows[c.row])' => Live(rows[c.row])
        BY <1>7, <1>8, <4>1 DEF Live, Committed
      <4> QED BY <1>8, <1>14, <4>2, <4>3
    <3>2. (Live(rows[cmd[x].row]))' => (Live(rows[c.row]))'
      BY <1>6, <1>7 DEF Live, Committed
    <3> QED BY <1>6, <1>7, <3>1, <3>2 DEF Given
  <2>9. Unmarked(x)'
    BY <1>6, <1>7, <1>8, <2>5 DEF Unmarked
  <2> QED BY <2>2, <2>3, <2>4, <2>6, <2>7, <2>8, <2>9 DEF OfValues
<1>21. Exact'
  <2>1. cmd'[x].op # "commit"
    BY <1>5, <1>6, <1>7
  <2> QED BY <1>2, <1>7, <1>8, <1>11, <1>20, <2>1, ExactOn
<1> QED BY <1>19, <1>21

(* The value of the row is taken back, if it is the transaction's own, or   *)
(* marked, if it is committed.                                              *)
LEMMA DeleteIndexInv ==
  ASSUME Inv, NEW x \in Xid, DeleteIndexed(x)
  PROVE  Calm' /\ Exact'
<1>1. Shaped /\ InStatement(x)
  BY DEF Inv, DeleteIndexed, DeleteIndex, At, InStatement, Ops
<1>2. Running(x) /\ cmd[x].op # "commit"
  BY <1>1, StatementRuns
<1>3. PICK c, v : c = cmd[x] /\ v = RowValue(x)
  OBVIOUS
<1>4. PICK d : d = [c EXCEPT !.touched = TRUE, !.pc = IF c.op = "update" THEN "index" ELSE "row delete"]
  OBVIOUS
<1>5. c \in StatementCmd /\ c.op \in {"delete", "update"} /\ c.pc = "index delete" /\ known
  BY <1>1, <1>3, StatementTyped DEF DeleteIndexed, DeleteIndex, At, Shaped
<1>6. /\ d.op = c.op /\ d.pc = (IF c.op = "update" THEN "index" ELSE "row delete")
      /\ d.row = c.row /\ d.new = c.new /\ d.touched = TRUE
  BY <1>4, <1>5 DEF StatementCmd
<1>7. /\ Effect(x) /\ c.row \in DOMAIN rows /\ cmd'[x] = d
      /\ disturbed' = (disturbed \/ \E y \in Xid \ {x} : v \in Mark(y))
      /\ Temp(x)' = (IF v \in index THEN Temp(x) ELSE Temp(x) \ {v})
      /\ Mark(x)' = (IF v \in index THEN Mark(x) \cup {v} ELSE Mark(x))
  BY <1>1, <1>3, <1>4, DeleteIndexShapes DEF Shapes
<1>8. /\ index' = index /\ known' = known /\ rows' = rows /\ status' = status /\ modified' = modified
      /\ v \in index \cup Temp(x) /\ v = rows[c.row].val
  BY <1>3 DEF DeleteIndexed, DeleteIndex, IndexDelete, TakenHere, RowValue
<1>9. \A y \in Xid \ {x} : Temp(y)' = Temp(y) /\ Mark(y)' = Mark(y)
  BY <1>7 DEF Effect, Others
<1>10. \A z : Committed(z)' <=> Committed(z)
  BY <1>8 DEF Committed
<1>11. SameFates
  BY <1>10 DEF SameFates
<1>12. /\ \A u : Current(x, u)' <=> Current(x, u)
       /\ \A w : (Wrote(x, w)' <=> Wrote(x, w)) /\ (Took(x, w)' <=> Took(x, w))
  BY <1>8, <1>10 DEF Current, Wrote, Took, Committed
<1>13. c.op = "update" => c.new # v
  BY <1>1, <1>3, <1>5, <1>8 DEF Shaped, Control, OnRow, Same
<1>14. ~Same(x)'
  BY <1>6, <1>7, <1>8, <1>13 DEF Same
<1>15. ~Unlisted(x) /\ ~Copied(x) /\ ~Reserved(x) /\ Unlisted(x)' /\ ~Copied(x)' /\ ~Reserved(x)'
  BY <1>3, <1>5, <1>6, <1>7, <1>14 DEF Unlisted, Copied, Reserved, OnRow, Adds
<1>16. ASSUME ~disturbed' PROVE /\ OfRows(x) /\ Apart /\ OfValues(x) /\ LiveListed /\ Told(x)
                                /\ \A y \in Xid \ {x} : v \notin Mark(y)
                                /\ ~disturbed
  BY <1>2, <1>5, <1>7, <1>16 DEF Inv, Calm, Exact
<1>17. ASSUME ~disturbed', NEW u \in DOMAIN rows, Current(x, u), rows[u].val = v
       PROVE  u = c.row
  <2>1. OnRow(x, {"index delete", "index", "row", "row delete"})
    BY <1>3, <1>5 DEF OnRow
  <2> QED BY <1>3, <1>8, <1>15, <1>16, <1>17, <2>1 DEF OfRows, Lonely
<1>18. ASSUME ~disturbed' PROVE OfRows(x)'
  <2>1. Single(x)'
    BY <1>8, <1>12, <1>15, <1>16, <1>18 DEF OfRows, Single
  <2>2. Backed(x)'
    <3>1. ASSUME NEW u \in DOMAIN rows, Current(x, u)
          PROVE  (\/ rows[u].val \in Temp(x)
                  \/ Took(x, rows[u].val)
                  \/ Copied(x) /\ u = cmd[x].newRow
                  \/ known /\ Unlisted(x) /\ u = cmd[x].row /\ rows[u].val \notin Mark(x))'
      <4>1. PICK w : w = rows[u].val
        OBVIOUS
      <4>2. w \in Temp(x) \/ Took(x, w)
        BY <1>15, <1>16, <1>18, <3>1, <4>1 DEF OfRows, Backed
      <4>3. rows'[u].val = w
        BY <1>8, <4>1
      <4>4. CASE Took(x, w)
        <5>1. (Took(x, rows[u].val))'
          BY <1>12, <4>3, <4>4 DEF Took
        <5> QED BY <5>1
      <4>5. CASE w \in Temp(x) /\ (w # v \/ v \in index)
        BY <1>7, <4>3, <4>5
      <4>6. CASE w = v /\ v \notin index
        <5>1. u = c.row
          BY <1>17, <1>18, <3>1, <4>1, <4>6
        <5>2. v \notin Mark(x)
          BY <1>16, <1>18, <4>6 DEF Apart
        <5> QED BY <1>5, <1>6, <1>7, <1>8, <1>15, <4>3, <4>6, <5>1, <5>2
      <4> QED BY <4>2, <4>4, <4>5, <4>6
    <3> QED BY <1>8, <1>12, <3>1 DEF Backed
  <2>3. Lonely(x)'
    BY <1>6, <1>7, <1>8, <1>12, <1>17, <1>18 DEF Lonely, Current
  <2>4. Fresh(x)'
    BY <1>15 DEF Fresh
  <2> QED BY <2>1, <2>2, <2>3, <2>4 DEF OfRows
<1>19. Calm'
  <2>1. ~disturbed' => UniqueValues'
    BY <1>1, <1>7, <1>11, LivesStay DEF Inv, Calm, Effect
  <2> QED BY <1>7, <1>18, <2>1, CalmOn
<1>20. ASSUME ~disturbed' PROVE Apart' /\ Told(x)' /\ OfValues(x)'
  <2>1. Apart'
    <3>1. Temp(x)' \cap index = {} /\ Mark(x)' \subseteq index
      BY <1>7, <1>16, <1>20 DEF Apart
    <3>2. \A y \in Xid \ {x} : Mark(x)' \cap Mark(y) = {} /\ Mark(y) \cap Mark(x)' = {}
      BY <1>7, <1>16, <1>20 DEF Apart
    <3>3. ASSUME NEW y \in Xid
          PROVE  (Temp(y) \cap index = {} /\ Mark(y) \subseteq index)' /\
                 \A z \in Xid \ {y} : Mark(y)' \cap Mark(z)' = {}
      BY <1>8, <1>9, <1>16, <1>20, <3>1, <3>2 DEF Apart
    <3> QED BY <3>3 DEF Apart
  <2>2. Told(x)'
    BY <1>1, <1>2, <1>3, <1>6, <1>7, <1>8 DEF Told, InStatement, Running
  <2>3. Taking(x)'
    BY <1>7, <1>12, <1>16, <1>20 DEF OfValues, Taking
  <2>4. Marking(x)'
    <3>1. ASSUME NEW w \in Mark(x)'
          PROVE  (\/ Took(x, w) /\ ~Wrote(x, w)
                  \/ /\ Unlisted(x) /\ rows[cmd[x].row].val = w
                     /\ \A u \in DOMAIN rows : Current(x, u) /\ rows[u].val = w => u = cmd[x].row)'
      <4>1. CASE w = v
        BY <1>6, <1>7, <1>8, <1>12, <1>15, <1>17, <1>20, <4>1
      <4>2. CASE w # v
        BY <1>7, <1>12, <1>15, <1>16, <1>20, <3>1, <4>2 DEF OfValues, Marking
      <4> QED BY <4>1, <4>2
    <3> QED BY <3>1 DEF Marking
  <2>5. Holding(x)'
    BY <1>7, <1>12, <1>15, <1>16, <1>20 DEF OfValues, Holding
  <2>6. Given(x)'
    <3>1. v \notin Temp(x)'
      BY <1>7, <1>16, <1>20 DEF Apart
    <3>2. v \in Mark(x)' \/ (~Took(x, v) /\ ~Live(rows[c.row]))
      <4>1. CASE v \in index
        BY <1>7, <4>1
      <4>2. CASE v \notin index
        <5>1. ~Lives(v)
          BY <1>2, <1>8, <1>16, <1>20, <4>2, HeldElsewhere
        <5>2. ~Took(x, v)
          BY <1>1, <1>2, <5>1, TookLives
        <5>3. ~Live(rows[c.row])
          BY <1>7, <1>8, <5>1 DEF Lives
        <5> QED BY <5>2, <5>3
      <4> QED BY <4>1, <4>2
    <3>3. (Live(rows[cmd[x].row]))' => Live(rows[c.row])
      BY <1>6, <1>7, <1>8 DEF Live, Committed
    <3> QED BY <1>6, <1>7, <1>8, <1>12, <3>1, <3>2, <3>3 DEF Given
  <2>7. Unmarked(x)'
    BY <1>14 DEF Unmarked
  <2> QED BY <2>1, <2>2, <2>3, <2>4, <2>5, <2>6, <2>7 DEF OfValues
<1>21. Exact'
  <2>1. cmd'[x].op # "commit"
    BY <1>5, <1>6, <1>7
  <2> QED BY <1>2, <1>7, <1>8, <1>11, <1>20, <2>1, ExactOn
<1> QED BY <1>19, <1>21

(* The row is deleted: it was the transaction's own, or it is one it takes. *)
LEMMA DeleteRowInv ==
  ASSUME Inv, NEW x \in Xid, DeleteRow(x)
  PROVE  Calm' /\ Exact'
<1>1. Shaped /\ InStatement(x)
  BY DEF Inv, DeleteRow, At, InStatement, Ops
<1>2. Running(x) /\ cmd[x].op # "commit" /\ x # NoXid
  BY <1>1, StatementRuns DEF Running
<1>3. PICK c, u, v : c = cmd[x] /\ u = c.row /\ v = rows[u].val
  OBVIOUS
<1>4. PICK d : d = [c EXCEPT !.pc = "read"]
  OBVIOUS
<1>5. c \in StatementCmd /\ c.op \in {"delete", "update"} /\ c.pc = "row delete"
  BY <1>1, <1>3, StatementTyped DEF DeleteRow, At, Shaped
<1>6. d.op = c.op /\ d.pc = "read" /\ d.touched = c.touched
  BY <1>4, <1>5 DEF StatementCmd
<1>7. /\ Effect(x) /\ u \in DOMAIN rows /\ cmd'[x] = d
      /\ disturbed' = (disturbed \/ ~Visible(x, rows[u]) \/ Running(rows[u].xmax))
      /\ rows' = IF Visible(x, rows[u]) THEN [rows EXCEPT ![u].xmax = x] ELSE rows
  BY <1>1, <1>3, <1>4, DeleteRowShapes DEF Shapes
<1>8. /\ index' = index /\ known' = known /\ status' = status /\ modified' = modified
      /\ \A y : Temp(y)' = Temp(y) /\ Mark(y)' = Mark(y)
  BY SameTemps DEF DeleteRow, ixVars
<1>9. \A z : Committed(z)' <=> Committed(z)
  BY <1>8 DEF Committed
<1>10. SameFates
  BY <1>9 DEF SameFates
<1>11. ASSUME ~disturbed'
       PROVE  /\ OfRows(x) /\ ~disturbed /\ Visible(x, rows[u])
              /\ DOMAIN rows' = DOMAIN rows
              /\ \A w \in DOMAIN rows : rows'[w].val = rows[w].val /\ rows'[w].xmin = rows[w].xmin
              /\ \A w \in DOMAIN rows : w # u => rows'[w].xmax = rows[w].xmax
              /\ rows'[u].xmax = x
  <2>1. ~disturbed /\ Visible(x, rows[u]) /\ OfRows(x)
    BY <1>2, <1>7, <1>11 DEF Inv, Calm
  <2>2. rows \in Seq(Version) /\ \A w \in DOMAIN rows : rows[w] \in Version
    BY <1>1, RowTyped DEF Shaped, Typed, RowsTyped
  <2>3. rows' = [rows EXCEPT ![u] = [rows[u] EXCEPT !.xmax = x]]
    BY <1>7, <2>1, <2>2
  <2>4. /\ DOMAIN rows' = DOMAIN rows /\ rows'[u] = [rows[u] EXCEPT !.xmax = x]
        /\ \A w \in DOMAIN rows : w # u => rows'[w] = rows[w]
    BY <1>7, <2>2, <2>3
  <2>5. rows'[u].xmax = x /\ rows'[u].val = rows[u].val /\ rows'[u].xmin = rows[u].xmin
    BY <1>7, <2>2, <2>4 DEF Version
  <2> QED BY <2>1, <2>4, <2>5
<1>12. ASSUME ~disturbed', NEW w PROVE Current(x, w)' <=> Current(x, w) /\ w # u
  BY <1>2, <1>11, <1>12 DEF Current
<1>13. ASSUME ~disturbed', NEW m
       PROVE  Took(x, m)' <=> Took(x, m) \/ (m = v /\ Committed(rows[u].xmin))
  <2>1. \A w \in DOMAIN rows : Committed(rows[w].xmin)' <=> Committed(rows[w].xmin)
    BY <1>9, <1>11, <1>13 DEF Committed
  <2>2. Took(x, m) => Took(x, m)'
    BY <1>11, <1>13, <2>1 DEF Took
  <2>3. m = v /\ Committed(rows[u].xmin) => Took(x, m)'
    BY <1>3, <1>7, <1>11, <1>13, <2>1 DEF Took
  <2>4. Took(x, m)' => Took(x, m) \/ (m = v /\ Committed(rows[u].xmin))
    BY <1>3, <1>11, <1>13, <2>1 DEF Took
  <2> QED BY <2>2, <2>3, <2>4
<1>14. /\ Same(x) => c.op = "update" /\ c.new = v
       /\ Copied(x) <=> Same(x)
       /\ Unlisted(x) <=> ~Same(x)
       /\ ~Reserved(x) /\ ~Unlisted(x)' /\ ~Copied(x)' /\ ~Reserved(x)'
  BY <1>3, <1>5, <1>6, <1>7 DEF Same, Copied, Unlisted, Reserved, OnRow, Adds
<1>15. Same(x) => /\ Current(x, c.newRow) /\ c.newRow # u /\ c.newRow \in DOMAIN rows
                  /\ rows[c.newRow].val = v
  BY <1>1, <1>3, <1>5, <1>14 DEF Shaped, Located, Control, Current
<1>16. Visible(x, rows[u]) => Current(x, u) \/ (Committed(rows[u].xmin) /\ Live(rows[u]))
  BY <1>7 DEF Visible, Current, Live
<1>17. ASSUME ~disturbed', Current(x, u) PROVE v \in Temp(x) \/ Took(x, v) \/ (Unlisted(x) /\ v \notin Mark(x))
  BY <1>3, <1>7, <1>11, <1>14, <1>15, <1>17 DEF OfRows, Backed
<1>18. ASSUME ~disturbed' PROVE OfRows(x)'
  <2>1. Single(x)'
    BY <1>3, <1>11, <1>12, <1>18 DEF OfRows, Single
  <2>2. Backed(x)'
    <3>1. ASSUME NEW w \in DOMAIN rows, Current(x, w), w # u
          PROVE  (rows[w].val \in Temp(x) \/ Took(x, rows[w].val))'
      <4>1. PICK m : m = rows[w].val
        OBVIOUS
      <4>2. rows'[w].val = m
        BY <1>11, <1>18, <4>1
      <4>3. \/ m \in Temp(x)
            \/ Took(x, m)
            \/ Copied(x) /\ w = c.newRow
        BY <1>3, <1>11, <1>18, <3>1, <4>1 DEF OfRows, Backed
      <4>4. Copied(x) /\ w = c.newRow => m \in Temp(x) \/ Took(x, m)'
        <5> SUFFICES ASSUME Copied(x), w = c.newRow PROVE m \in Temp(x) \/ Took(x, m)'
          OBVIOUS
        <5>1. m = v
          BY <1>14, <1>15, <4>1
        <5>2. CASE Current(x, u)
          <6>1. v \in Temp(x) \/ Took(x, v)
            BY <1>14, <1>17, <1>18, <5>2
          <6> QED BY <1>13, <1>18, <5>1, <6>1
        <5>3. CASE Committed(rows[u].xmin)
          BY <1>13, <1>18, <5>1, <5>3
        <5> QED BY <1>11, <1>16, <1>18, <5>2, <5>3
      <4>5. Took(x, m) => Took(x, m)'
        BY <1>13, <1>18
      <4>6. Took(x, m)' => (Took(x, rows[w].val))'
        BY <4>2 DEF Took
      <4> QED BY <1>8, <4>2, <4>3, <4>4, <4>5, <4>6
    <3> QED BY <1>11, <1>12, <1>18, <3>1 DEF Backed
  <2>3. Lonely(x)' /\ Fresh(x)'
    BY <1>6, <1>7, <1>14 DEF Lonely, Fresh, OnRow
  <2> QED BY <2>1, <2>2, <2>3 DEF OfRows
<1>19. Calm'
  <2>1. ~disturbed' => UniqueValues'
    BY <1>1, <1>7, <1>10, LivesStay DEF Inv, Calm, Effect
  <2> QED BY <1>7, <1>18, <2>1, CalmOn
<1>20. ASSUME ~disturbed', known PROVE Apart' /\ Told(x)' /\ OfValues(x)'
  <2>1. Apart /\ OfValues(x) /\ Told(x)
    BY <1>2, <1>11, <1>20 DEF Inv, Exact
  <2>2. Apart'
    BY <1>8, <2>1 DEF Apart
  <2>3. Told(x)'
    BY <1>1, <1>2, <1>3, <1>6, <1>7, <1>8, <2>1 DEF Told, InStatement, Running
  <2>4. v \in Val
    BY <1>1, <1>3, <1>7, RowTyped DEF Shaped, Typed, Version
  <2>5. Unlisted(x) => /\ v \notin Temp(x)
                       /\ v \in Mark(x) \/ (~Took(x, v) /\ ~Live(rows[u]))
    BY <1>3, <2>1, <2>4 DEF OfValues, Given
  <2>6. ASSUME NEW m PROVE Wrote(x, m)' <=> \E w \in DOMAIN rows : w # u /\ Current(x, w) /\ rows[w].val = m
    BY <1>11, <1>12, <1>20 DEF Wrote
  <2>7. Copied(x) => Wrote(x, v)'
    BY <1>14, <1>15, <2>6
  <2>8. ASSUME NEW m, Wrote(x, m), m # v PROVE Wrote(x, m)'
    BY <1>3, <2>6, <2>8 DEF Wrote
  <2>9. Taking(x)'
    <3>1. ASSUME NEW m \in Val, Took(x, m)' PROVE m \in Mark(x) \/ Wrote(x, m)'
      <4>1. CASE m # v
        <5>1. Took(x, m)
          BY <1>13, <1>20, <3>1, <4>1
        <5> QED BY <2>1, <2>8, <4>1, <5>1 DEF OfValues, Taking
      <4>2. CASE m = v /\ Copied(x)
        BY <2>7, <4>2
      <4>3. CASE m = v /\ Unlisted(x)
        <5>1. Took(x, v) \/ Live(rows[u])
          <6>1. CASE Took(x, v)
            BY <6>1
          <6>2. CASE Committed(rows[u].xmin)
            <7>1. ~Current(x, u)
              BY <1>2, <6>2 DEF Current, Running, Committed
            <7> QED BY <1>11, <1>16, <1>20, <7>1
          <6> QED BY <1>13, <1>20, <3>1, <4>3, <6>1, <6>2
        <5> QED BY <2>5, <4>3, <5>1
      <4> QED BY <1>14, <4>1, <4>2, <4>3
    <3> QED BY <1>8, <3>1 DEF Taking
  <2>10. Marking(x)'
    <3>1. ASSUME NEW m \in Mark(x) PROVE Took(x, m)' /\ ~Wrote(x, m)'
      <4>1. \/ Took(x, m) /\ ~Wrote(x, m)
            \/ /\ Unlisted(x) /\ v = m
               /\ \A w \in DOMAIN rows : Current(x, w) /\ rows[w].val = m => w = u
        BY <1>3, <2>1 DEF OfValues, Marking
      <4>2. CASE Took(x, m) /\ ~Wrote(x, m)
        BY <1>13, <1>20, <2>6, <4>2 DEF Wrote
      <4>3. CASE /\ Unlisted(x) /\ v = m
                 /\ \A w \in DOMAIN rows : Current(x, w) /\ rows[w].val = m => w = u
        <5>1. ~Wrote(x, m)'
          BY <2>6, <4>3
        <5>2. Took(x, m)'
          <6>1. CASE Current(x, u)
            <7>1. Took(x, v)
              BY <1>17, <1>20, <2>5, <3>1, <4>3, <6>1
            <7> QED BY <1>13, <1>20, <4>3, <7>1
          <6>2. CASE Committed(rows[u].xmin)
            BY <1>13, <1>20, <4>3, <6>2
          <6> QED BY <1>11, <1>16, <1>20, <6>1, <6>2
        <5> QED BY <5>1, <5>2
      <4> QED BY <4>1, <4>2, <4>3
    <3> QED BY <1>8, <3>1 DEF Marking
  <2>11. Holding(x)'
    <3>1. ASSUME NEW m \in Temp(x) PROVE Wrote(x, m)'
      <4>1. Wrote(x, m)
        BY <1>14, <2>1 DEF OfValues, Holding
      <4> QED BY <1>14, <2>5, <2>7, <2>8, <4>1
    <3> QED BY <1>8, <3>1 DEF Holding
  <2>12. Given(x)' /\ Unmarked(x)'
    BY <1>6, <1>7, <1>14 DEF Given, Unmarked, OnRow
  <2> QED BY <2>2, <2>3, <2>9, <2>10, <2>11, <2>12 DEF OfValues
<1>21. Exact'
  <2>1. cmd'[x].op # "commit"
    BY <1>5, <1>6, <1>7
  <2> QED BY <1>2, <1>7, <1>8, <1>10, <1>20, <2>1, ExactOn
<1> QED BY <1>19, <1>21

----------------------------------------------------------------------------
(* The fates.                                                              *)

LEMMA BeginInv ==
  ASSUME Inv, NEW x \in Xid, Begin(x)
  PROVE  Calm' /\ Exact'
<1>1. Shaped /\ Effect(x) /\ cmd' = cmd /\ cmd[x] = NoCmd
  BY BeginShapes DEF Inv, Shapes
<1>2. /\ status[x] = "none" /\ x # NoXid
      /\ index' = index /\ known' = known /\ rows' = rows /\ disturbed' = disturbed /\ modified' = modified
      /\ \A y : Temp(y)' = Temp(y) /\ Mark(y)' = Mark(y)
  BY SameTemps, NoXidIsNone DEF Begin, ixVars
<1>3. status'[x] = "active" /\ \A z \in Xid \ {x} : status'[z] = status[z]
  BY <1>1 DEF Begin, Shaped, Typed, StatusTyped
<1>4. SameFates
  BY <1>2, <1>3 DEF SameFates, Committed
<1>5. \A u \in DOMAIN rows : rows[u].xmin # x /\ rows[u].xmax # x
  BY <1>1, <1>2 DEF Shaped, RowsKept
<1>6. (\A u : ~Current(x, u)') /\ (\A v : ~Took(x, v)' /\ ~Wrote(x, v)')
  BY <1>2, <1>5 DEF Current, Took, Wrote
<1>7. cmd'[x] = NoCmd /\ NoCmd.op = "none"
  BY <1>1, EndsTyped
<1>8. ~Unlisted(x)' /\ ~Copied(x)' /\ ~Reserved(x)' /\ Lonely(x)' /\ Unmarked(x)'
  BY <1>7, NoCmdIdleNext
<1>9. OfRows(x)'
  BY <1>6, <1>8 DEF OfRows, Single, Backed, Fresh
<1>10. Calm'
  <2>1. ~disturbed' => UniqueValues'
    BY <1>1, <1>2, <1>4, LivesStay DEF Inv, Calm
  <2> QED BY <1>1, <1>9, <2>1, CalmOn
<1>11. ASSUME ~disturbed', known PROVE Apart' /\ Told(x)' /\ OfValues(x)'
  <2>1. Apart /\ Told(x)
    BY <1>2, <1>11 DEF Inv, Exact
  <2>2. Temp(x) = {} /\ Mark(x) = {}
    BY <1>1, <1>2, <1>7, <2>1 DEF Told, Running, Ending
  <2>3. Apart' /\ Told(x)'
    BY <1>2, <2>1, <2>2 DEF Apart, Told
  <2>4. OfValues(x)'
    BY <1>2, <1>6, <1>8, <2>2 DEF OfValues, Taking, Marking, Holding, Given
  <2> QED BY <2>3, <2>4
<1>12. Exact'
  BY <1>1, <1>2, <1>4, <1>7, <1>11, ExactOn
<1> QED BY <1>10, <1>12

LEMMA AbortInv ==
  ASSUME Inv, NEW x \in Xid, EndsAs(x, "abort", "aborted"), cmd[x].op # "commit",
         ~disturbed' /\ InStatement(x) => ~cmd[x].touched
  PROVE  Calm' /\ Exact'
<1>1. Shaped /\ Effect(x) /\ cmd'[x] = [op |-> "abort", pc |-> "end"] /\ status'[x] = "aborted"
  BY EndsAsShapes DEF Inv, Shapes
<1>2. /\ status[x] = "active" /\ index' = index /\ known' = known /\ rows' = rows /\ modified' = modified
      /\ (disturbed => disturbed')
      /\ \A y : Temp(y)' = Temp(y) /\ Mark(y)' = Mark(y)
  BY SameTemps DEF EndsAs, ixVars
<1>3. SameFates
  BY <1>1, <1>2 DEF SameFates, Committed, Effect, Others
<1>4. cmd'[x].op = "abort" /\ ~Running(x)'
  BY <1>1 DEF Running
<1>5. Calm'
  <2>1. ~disturbed' => UniqueValues'
    BY <1>1, <1>2, <1>3, LivesStay DEF Inv, Calm
  <2> QED BY <1>1, <1>4, <2>1, CalmOn
<1>6. ASSUME ~disturbed', known PROVE Apart' /\ Told(x)'
  <2>1. Apart /\ Told(x)
    BY <1>2, <1>6 DEF Inv, Exact
  <2>2. Apart'
    BY <1>2, <2>1 DEF Apart
  <2>3. Told(x)'
    BY <1>2, <1>4, <1>6, <2>1 DEF Told, Ending
  <2> QED BY <2>2, <2>3
<1>7. Exact'
  BY <1>1, <1>2, <1>3, <1>4, <1>6, ExactOn
<1> QED BY <1>5, <1>7

(* What is known of x when it commits: its rows that are not deleted, the   *)
(* values it holds and the rows it took fit together, and with those that   *)
(* are live.                                                                *)
LEMMA CommitInv ==
  ASSUME Inv, NEW x \in Xid, Commit(x)
  PROVE  Calm' /\ Exact'
<1>1. EndsAs(x, "commit", "committed") /\ cmd[x] = NoCmd
  BY DEF Commit, Ready, EndsAs, Inv, Shaped, Typed, IndexTyped
<1>2. Shaped /\ Effect(x) /\ cmd'[x] = [op |-> "commit", pc |-> "end"] /\ status'[x] = "committed"
  BY <1>1, EndsAsShapes DEF Inv, Shapes
<1>3. /\ status[x] = "active" /\ index' = index /\ known' = known /\ rows' = rows /\ modified' = modified
      /\ disturbed' = disturbed /\ x # NoXid
      /\ \A y : Temp(y)' = Temp(y) /\ Mark(y)' = Mark(y)
  BY SameTemps, NoXidIsNone DEF Commit, Ready, ixVars
<1>4. Calmly(x) /\ cmd[x].op = "none" /\ cmd'[x].op = "commit" /\ ~Running(x)' /\ Running(x)
  BY <1>1, <1>2, <1>3, NoCmdIdle, EndsTyped DEF Running
<1>5. \A z : Committed(z)' <=> Committed(z) \/ z = x
  <2>1. ASSUME NEW z PROVE Committed(z)' <=> Committed(z) \/ z = x
    <3>1. CASE z \in Xid \ {x}
      BY <1>2, <3>1 DEF Effect, Others, Committed
    <3>2. CASE z = x
      BY <1>2, <1>3, <3>2 DEF Committed
    <3>3. CASE z \notin Xid
      BY <1>2, <1>3, <3>3 DEF Committed, Commit
    <3> QED BY <3>1, <3>2, <3>3
  <2> QED BY <2>1
<1>6. ASSUME NEW u \in DOMAIN rows
      PROVE  /\ Live(rows[u])' <=> Current(x, u) \/ (Live(rows[u]) /\ rows[u].xmax # x)
             /\ Current(x, u) => ~Live(rows[u])
  <2>1. PICK a, b : a = rows[u].xmin /\ b = rows[u].xmax
    OBVIOUS
  <2>2. /\ ~Committed(a) => b \in {NoXid, a}
        /\ ~Committed(x) /\ ~Committed(NoXid)
    BY <1>2, <1>3, <2>1 DEF Shaped, RowsKept, Committed
  <2>3. Live(rows[u])' <=> (Committed(a) \/ a = x) /\ ~(Committed(b) \/ b = x)
    <3>1. Live(rows[u])' <=> Committed(a)' /\ ~Committed(b)'
      BY <1>3, <2>1 DEF Live, Committed
    <3> QED BY <1>5, <3>1
  <2>4. (Current(x, u) <=> a = x /\ b = NoXid) /\ (Live(rows[u]) <=> Committed(a) /\ ~Committed(b))
    BY <2>1 DEF Current, Live
  <2> QED BY <1>3, <2>1, <2>2, <2>3, <2>4
<1>7. ASSUME ~disturbed PROVE OfRows(x) /\ UniqueValues
  BY <1>4, <1>7 DEF Inv, Calm
<1>8. ASSUME ~disturbed' PROVE UniqueValues'
  <2> SUFFICES ASSUME NEW u \in DOMAIN rows, NEW w \in DOMAIN rows, u # w, Live(rows[u])', Live(rows[w])'
               PROVE  rows[u].val # rows[w].val
    BY <1>3 DEF UniqueValues
  <2>1. ~disturbed /\ OfRows(x) /\ UniqueValues
    BY <1>3, <1>7, <1>8
  <2>2. CASE Current(x, u) /\ Current(x, w)
    BY <1>4, <2>1, <2>2 DEF OfRows, Single, Calmly
  <2>3. CASE Current(x, u) /\ Live(rows[w]) /\ rows[w].xmax # x
    BY <1>4, <2>1, <2>3, WrittenAlone
  <2>4. CASE Current(x, w) /\ Live(rows[u]) /\ rows[u].xmax # x
    BY <1>4, <2>1, <2>4, WrittenAlone
  <2>5. CASE Live(rows[u]) /\ Live(rows[w])
    BY <2>1, <2>5 DEF UniqueValues
  <2> QED BY <1>6, <2>2, <2>3, <2>4, <2>5
<1>9. Calm'
  BY <1>2, <1>4, <1>8, CalmOn
<1> SUFFICES ASSUME ~disturbed', known' PROVE Exact'
  BY <1>9 DEF Exact
<1>10. /\ ~disturbed /\ known /\ Apart /\ LiveListed /\ ListedLive /\ OfValues(x) /\ OfRows(x) /\ UniqueValues
       /\ \A y \in Xid : Told(y) /\ Committing(y)
  BY <1>3, <1>4, <1>7 DEF Inv, Exact
<1>11. ASSUME NEW v PROVE Lives(v)' <=> \/ Wrote(x, v)
                                       \/ \E u \in DOMAIN rows : rows[u].val = v /\ Live(rows[u]) /\ rows[u].xmax # x
  BY <1>3, <1>6 DEF Lives, Wrote
<1>12. ASSUME NEW v, Wrote(x, v) PROVE v \in Temp(x) \/ Took(x, v)
  BY <1>4, <1>10, <1>12 DEF OfRows, Backed, Wrote, Calmly
<1>13. ASSUME NEW v, Took(x, v) PROVE Lives(v)
  BY <1>2, <1>4, <1>13, TookLives
<1>14. ASSUME NEW u \in DOMAIN rows, Live(rows[u]), rows[u].xmax = x PROVE Took(x, rows[u].val)
  BY <1>14 DEF Took, Live
<1>15. ASSUME NEW v, Took(x, v), ~Wrote(x, v) PROVE ~Lives(v)'
  <2>1. PICK t \in DOMAIN rows : rows[t].val = v /\ Committed(rows[t].xmin) /\ rows[t].xmax = x
    BY <1>15 DEF Took
  <2>2. Live(rows[t])
    BY <1>4, <2>1 DEF Live, Running, Committed
  <2> QED BY <1>10, <1>11, <1>15, <2>1, <2>2 DEF UniqueValues
<1>16. ASSUME NEW y \in Xid, NEW v, Took(y, v) PROVE Took(y, v)'
  BY <1>3, <1>5, <1>16 DEF Took, Committed
<1>17. \A y \in Xid \ {x} : cmd'[y] = cmd[y]
  BY <1>2 DEF Effect, Others
<1>18. Apart'
  BY <1>3, <1>10 DEF Apart
<1>19. LiveListed'
  <2>1. ASSUME NEW v \in Val, Lives(v)'
        PROVE  v \in index \/ \E y \in Xid : cmd'[y].op = "commit" /\ v \in Temp(y)
    <3>1. CASE v \in Temp(x)
      BY <1>4, <3>1
    <3>2. CASE Lives(v)
      BY <1>4, <1>10, <1>17, <3>2 DEF LiveListed
    <3>3. v \in Temp(x) \/ Lives(v)
      BY <1>11, <1>12, <1>13, <2>1 DEF Lives
    <3> QED BY <3>1, <3>2, <3>3
  <2> QED BY <1>3, <2>1 DEF LiveListed
<1>20. ListedLive'
  <2>1. ASSUME NEW v \in index
        PROVE  Lives(v)' \/ \E y \in Xid : cmd'[y].op = "commit" /\ v \in Mark(y) /\ Took(y, v)'
    <3>1. CASE \E y \in Xid : cmd[y].op = "commit" /\ v \in Mark(y) /\ Took(y, v)
      BY <1>4, <1>16, <1>17, <3>1
    <3>2. CASE Lives(v)
      <4>1. PICK u \in DOMAIN rows : rows[u].val = v /\ Live(rows[u])
        BY <3>2 DEF Lives
      <4>2. CASE rows[u].xmax # x
        BY <1>11, <4>1, <4>2
      <4>3. CASE rows[u].xmax = x
        <5>1. Took(x, v) /\ v \in Val
          BY <1>2, <1>14, <4>1, <4>3, RowTyped DEF Shaped, Typed, Version
        <5>2. v \in Mark(x) \/ Wrote(x, v)
          BY <1>10, <5>1 DEF OfValues, Taking
        <5> QED BY <1>4, <1>11, <1>16, <5>1, <5>2
      <4> QED BY <4>2, <4>3
    <3> QED BY <1>10, <3>1, <3>2 DEF ListedLive
  <2> QED BY <1>3, <2>1 DEF ListedLive
<1>21. Committing(x)'
  <2>1. ASSUME NEW v \in Temp(x) PROVE Lives(v)'
    BY <1>4, <1>10, <1>11 DEF OfValues, Holding, Calmly
  <2>2. ASSUME NEW v \in Mark(x) PROVE ~Lives(v)'
    BY <1>4, <1>10, <1>15 DEF OfValues, Marking, Calmly
  <2> QED BY <1>3, <2>1, <2>2 DEF Committing
<1>22. ASSUME NEW y \in Xid \ {x} PROVE Committing(y)'
  <2> SUFFICES ASSUME cmd[y].op = "commit"
               PROVE  (\A v \in Temp(y) : Lives(v)') /\ (\A v \in Mark(y) : ~Lives(v)')
    BY <1>3, <1>17 DEF Committing
  <2>1. (\A v \in Temp(y) : Lives(v)) /\ (\A v \in Mark(y) : ~Lives(v))
    BY <1>10 DEF Committing
  <2>2. Temp(y) \cap index = {} /\ Mark(y) \subseteq index /\ Temp(x) \cap index = {} /\ Mark(x) \subseteq index
    BY <1>10 DEF Apart
  <2>3. ASSUME NEW v \in Temp(y) PROVE Lives(v)'
    <3>1. PICK u \in DOMAIN rows : rows[u].val = v /\ Live(rows[u])
      BY <2>1 DEF Lives
    <3>2. CASE rows[u].xmax # x
      BY <1>11, <3>1, <3>2
    <3>3. CASE rows[u].xmax = x
      <4>1. Took(x, v) /\ v \in Val
        BY <1>2, <1>14, <3>1, <3>3, RowTyped DEF Shaped, Typed, Version
      <4>2. v \notin Mark(x)
        BY <2>2
      <4> QED BY <1>10, <1>11, <4>1, <4>2 DEF OfValues, Taking
    <3> QED BY <3>2, <3>3
  <2>4. ASSUME NEW v \in Mark(y) PROVE ~Lives(v)'
    <3>1. ~Wrote(x, v)
      BY <1>12, <1>13, <2>1, <2>2
    <3> QED BY <1>11, <2>1, <3>1 DEF Lives
  <2> QED BY <2>3, <2>4
<1>23. ASSUME NEW y \in Xid PROVE Told(y)' /\ (Running(y)' => OfValues(y)')
  <2>1. CASE y = x
    <3>1. Told(x)'
      BY <1>3, <1>4, <1>10 DEF Told, Ending, InStatement, Ops
    <3> QED BY <1>4, <2>1, <3>1
  <2>2. CASE y # x
    BY <1>2, <1>10, <2>2, OthersTold, OthersOfValues
  <2> QED BY <2>1, <2>2
<1> QED BY <1>18, <1>19, <1>20, <1>21, <1>22, <1>23 DEF Exact

(* The index is told of a commit: it has just what was live before it was,  *)
(* and the values of the transaction and not those it marked.               *)
LEMMA ToldIndex ==
  ASSUME Inv, ~disturbed, known, NEW x \in Xid, CommitIndex(x) \/ RollbackIndex(x)
  PROVE  /\ Temp(x)' = {} /\ Mark(x)' = {}
         /\ cmd[x].op = "commit" => index' = (index \cup Temp(x)) \ Mark(x)
         /\ cmd[x].op # "commit" => cmd[x].op = "abort" /\ index' = index
<1>1. Shaped /\ Apart /\ Told(x)
  BY DEF Inv, Exact
<1>2. Temp(x) \cap index = {} /\ Mark(x) \subseteq index
  BY <1>1 DEF Apart
<1>3. \/ cmd[x].op = "commit" /\ CommitIndex(x)
      \/ cmd[x].op = "abort" /\ RollbackIndex(x)
  BY DEF CommitIndex, RollbackIndex, At
<1>4. CASE Touched(x)
  BY <1>2, <1>3, <1>4, ForgetsTemps DEF CommitIndex, RollbackIndex, Merged
<1>5. CASE ~Touched(x)
  <2>1. UNCHANGED ixVars
    BY <1>3, <1>5 DEF CommitIndex, RollbackIndex
  <2>2. Temp(x) = {} /\ Mark(x) = {}
    <3>1. CASE x \notin modified
      BY <1>1, <1>3, <3>1 DEF Told, InStatement, Ops
    <3>2. CASE x \notin DOMAIN tempIndex
      BY <1>1, <3>2 DEF Shaped, Typed, IndexTyped, Temp, Mark
    <3> QED BY <1>5, <3>1, <3>2 DEF Touched
  <2> QED BY <1>3, <2>1, <2>2, SameTemps DEF ixVars
<1> QED BY <1>4, <1>5

LEMMA ToldInv ==
  ASSUME Inv, NEW x \in Xid, CommitIndex(x) \/ RollbackIndex(x)
  PROVE  Calm' /\ Exact'
<1>1. /\ Shaped /\ Effect(x) /\ cmd'[x] = NoCmd
      /\ UNCHANGED <<known, rows, listed, status, modified, disturbed>>
  BY ToldShapes DEF Inv, Shapes
<1>2. /\ ~Running(x) /\ ~Running(x)' /\ cmd[x].op \in {"commit", "abort"}
      /\ cmd'[x].op = "none"
  <2>1. cmd[x].op \in {"commit", "abort"}
    BY DEF CommitIndex, RollbackIndex, At
  <2>2. status[x] # "active"
    BY <1>1, <2>1 DEF Shaped, Control
  <2> QED BY <1>1, <2>1, <2>2, EndsTyped DEF Running
<1>3. SameFates
  BY <1>1 DEF SameFates, Committed
<1>4. Calm'
  <2>1. ~disturbed' => UniqueValues'
    BY <1>1, <1>3, LivesStay DEF Inv, Calm
  <2> QED BY <1>1, <1>2, <2>1, CalmOn
<1> SUFFICES ASSUME ~disturbed', known' PROVE Exact'
  BY <1>4 DEF Exact
<1>5. /\ ~disturbed /\ known /\ Apart /\ LiveListed /\ ListedLive
      /\ \A y \in Xid : Told(y) /\ Committing(y)
  BY <1>1 DEF Inv, Exact
<1>6. /\ Temp(x)' = {} /\ Mark(x)' = {}
      /\ cmd[x].op = "commit" => index' = (index \cup Temp(x)) \ Mark(x)
      /\ cmd[x].op # "commit" => cmd[x].op = "abort" /\ index' = index
  BY <1>5, ToldIndex
<1>7. \A y \in Xid \ {x} : cmd'[y] = cmd[y] /\ Temp(y)' = Temp(y) /\ Mark(y)' = Mark(y)
  BY <1>1 DEF Effect, Others
<1>8. \A v : Lives(v)' <=> Lives(v)
  BY <1>1, <1>3, LivesStay
<1>9. Apart'
  <2>1. ASSUME NEW y \in Xid \ {x}
        PROVE  Temp(y) \cap index' = {} /\ Mark(y) \subseteq index' /\ Temp(y) \cap Temp(x) = {}
    <3>1. Temp(y) \cap Temp(x) = {}
      BY <1>1, TempAlone DEF Shaped
    <3>2. Mark(y) \cap Mark(x) = {} /\ Temp(y) \cap index = {} /\ Mark(y) \subseteq index
      BY <1>5 DEF Apart
    <3> QED BY <1>6, <3>1, <3>2
  <2>2. ASSUME NEW y \in Xid, NEW z \in Xid \ {y} PROVE (Mark(y) \cap Mark(z) = {})'
    BY <1>5, <1>6, <1>7 DEF Apart
  <2> QED BY <1>6, <1>7, <2>1, <2>2 DEF Apart
<1>10. LiveListed'
  <2>1. ASSUME NEW v \in Val, Lives(v)
        PROVE  v \in index' \/ \E y \in Xid : cmd'[y].op = "commit" /\ v \in Temp(y)'
    <3>1. CASE v \in index
      BY <1>5, <1>6, <2>1, <3>1 DEF Committing
    <3>2. CASE \E y \in Xid : cmd[y].op = "commit" /\ v \in Temp(y)
      <4>1. PICK y \in Xid : cmd[y].op = "commit" /\ v \in Temp(y)
        BY <3>2
      <4>2. CASE y = x
        BY <1>5, <1>6, <2>1, <4>1, <4>2 DEF Committing
      <4>3. CASE y # x
        BY <1>7, <4>1, <4>3
      <4> QED BY <4>2, <4>3
    <3> QED BY <1>5, <2>1, <3>1, <3>2 DEF LiveListed
  <2> QED BY <1>8, <2>1 DEF LiveListed
<1>11. ASSUME NEW y \in Xid, NEW v, Took(y, v) PROVE Took(y, v)'
  BY <1>1, <1>11 DEF Took, Committed
<1>12. ListedLive'
  <2>1. ASSUME NEW v \in index'
        PROVE  Lives(v) \/ \E y \in Xid : cmd'[y].op = "commit" /\ v \in Mark(y)' /\ Took(y, v)'
    <3>1. CASE v \in index
      <4>1. CASE \E y \in Xid : cmd[y].op = "commit" /\ v \in Mark(y) /\ Took(y, v)
        <5>1. PICK y \in Xid : cmd[y].op = "commit" /\ v \in Mark(y) /\ Took(y, v)
          BY <4>1
        <5>2. y # x
          BY <1>6, <2>1, <5>1
        <5> QED BY <1>7, <1>11, <5>1, <5>2
      <4> QED BY <1>5, <3>1, <4>1 DEF ListedLive
    <3>2. CASE v \notin index
      BY <1>5, <1>6, <2>1, <3>2 DEF Committing
    <3> QED BY <3>1, <3>2
  <2> QED BY <1>8, <2>1 DEF ListedLive
<1>13. ASSUME NEW y \in Xid PROVE Told(y)' /\ Committing(y)' /\ (Running(y)' => OfValues(y)')
  <2>1. CASE y = x
    BY <1>2, <1>6, <2>1 DEF Told, Committing
  <2>2. CASE y # x
    BY <1>1, <1>5, <1>7, <1>8, <2>2, OthersTold, OthersOfValues DEF Committing
  <2> QED BY <2>1, <2>2
<1> QED BY <1>9, <1>10, <1>12, <1>13 DEF Exact

LEMMA RestartInv ==
  ASSUME Inv, Restart
  PROVE  Inv'
<1>1. /\ Shaped' /\ ~known' /\ rows' = rows /\ disturbed' = disturbed
      /\ \A x \in Xid : status'[x] # "active" /\ (Committed(x)' <=> Committed(x))
  BY RestartShaped DEF Inv
<1>2. ASSUME NEW u \in DOMAIN rows PROVE Live(rows[u])' <=> Live(rows[u])
  <2>1. PICK a, b : a = rows[u].xmin /\ b = rows[u].xmax
    OBVIOUS
  <2>2. a \in Xid /\ b \in Xid \cup {NoXid}
    BY <2>1, RowTyped DEF Inv, Shaped, Typed, Version
  <2>3. (Committed(a)' <=> Committed(a)) /\ (Committed(b)' <=> Committed(b))
    BY <1>1, <2>2 DEF Committed
  <2> QED BY <1>1, <2>1, <2>3 DEF Live, Committed
<1>3. Calm'
  BY <1>1, <1>2 DEF Inv, Calm, UniqueValues, Running
<1>4. Exact'
  BY <1>1 DEF Exact
<1> QED BY <1>1, <1>3, <1>4 DEF Inv

----------------------------------------------------------------------------
(* Without an index every row stands for one that was taken.               *)
LEMMA UnknownCalm ==
  ASSUME Inv, NEW x \in Xid, InStatement(x), cmd[x].op = "delete", Still(x), Effect(x),
         cmd'[x] = NoCmd, ~known, ~disturbed'
  PROVE  Calm'
<1>1. rows' = rows /\ status' = status /\ known' = known /\ Temp(x)' = Temp(x) /\ Mark(x)' = Mark(x)
  BY DEF Still
<1>2. \A z : Committed(z)' <=> Committed(z)
  BY <1>1 DEF Committed
<1>3. SameFates
  BY <1>2 DEF SameFates
<1>4. /\ \A u : Current(x, u)' <=> Current(x, u)
      /\ \A v : (Wrote(x, v)' <=> Wrote(x, v)) /\ (Took(x, v)' <=> Took(x, v))
  BY <1>1, <1>2 DEF Current, Wrote, Took, Committed
<1>5. Shaped /\ ~disturbed
  BY DEF Inv, Effect
<1>6. OfRows(x) /\ ~Copied(x)
  BY <1>5, StatementRuns DEF Inv, Calm, Copied
<1>7. /\ ~Unlisted(x)' /\ ~Copied(x)' /\ ~Reserved(x)' /\ Lonely(x)' /\ Unmarked(x)'
  BY NoCmdIdleNext
<1>8. Single(x)'
  BY <1>1, <1>4, <1>6 DEF OfRows, Single
<1>9. Backed(x)'
  <2>1. ASSUME NEW u \in DOMAIN rows, Current(x, u) PROVE (rows[u].val \in Temp(x) \/ Took(x, rows[u].val))'
    <3>1. PICK v : v = rows[u].val
      OBVIOUS
    <3>2. v \in Temp(x) \/ Took(x, v)
      BY <1>6, <2>1, <3>1 DEF OfRows, Backed
    <3>3. rows'[u].val = v
      BY <1>1, <3>1
    <3>4. Took(x, v) => (Took(x, rows[u].val))'
      BY <1>4, <3>3 DEF Took
    <3> QED BY <1>1, <3>2, <3>3, <3>4
  <2> QED BY <1>1, <1>4, <2>1 DEF Backed
<1>10. OfRows(x)'
  BY <1>7, <1>8, <1>9 DEF OfRows, Fresh
<1>11. UniqueValues'
  BY <1>3, <1>5, LivesStay DEF Inv, Calm
<1> QED BY <1>1, <1>3, <1>5, <1>10, <1>11, CalmOn

(* vm.delete throws: only a delete that had no index to change leaves       *)
(* nothing undone, and then the index is not known.                        *)
LEMMA DeleteRowFailsInv ==
  ASSUME Inv, NEW x \in Xid, DeleteRowFails(x)
  PROVE  Calm' /\ Exact'
<1>1. Shaped /\ Effect(x) /\ Still(x) /\ cmd'[x] = NoCmd
  BY DeleteRowFailsShapes, QuietStill DEF Inv, Shapes
<1>2. At(x, {"delete", "update"}, "row delete") /\ modified' = modified
  BY DEF DeleteRowFails
<1>3. CASE disturbed'
  BY <1>3 DEF Calm, Exact
<1>4. CASE ~disturbed'
  <2>1. cmd[x].op = "delete" /\ cmd[x].pc = "row delete" /\ ~cmd[x].touched
    BY <1>1, <1>2, <1>4, DeleteRowFailsShapes DEF At
  <2>2. Control(x) /\ InStatement(x)
    BY <1>1, <2>1 DEF Shaped, InStatement, Ops
  <2>3. ~known
    BY <2>1, <2>2 DEF Control, Unlisted, OnRow, Same
  <2>4. ~known'
    BY <1>1, <2>3 DEF Still
  <2>5. Exact'
    BY <2>4 DEF Exact
  <2>6. Calm'
    BY <1>1, <1>4, <2>1, <2>2, <2>3, UnknownCalm
  <2> QED BY <2>5, <2>6
<1> QED BY <1>3, <1>4

LEMMA StepInv ==
  ASSUME Inv, NEW x \in Xid, Step(x)
  PROVE  Calm' /\ Exact'
<1>0. Shaped /\ Effect(x)
  BY StepShapes DEF Inv, Shapes
<1>1. ASSUME NEW ops, NEW pc, At(x, ops, pc), ops \subseteq Ops PROVE InStatement(x) /\ cmd[x].pc = pc
  BY <1>1 DEF At, InStatement
<1>2. ASSUME InStatement(x), Throws(x)
      PROVE  cmd'[x] = NoCmd /\ (cmd[x].touched => disturbed')
  BY <1>0, <1>2, ThrowsSays DEF Shaped
<1>3. ASSUME InStatement(x), Throws(x), cmd[x].pc # "row delete", modified' = modified, Still(x)
      PROVE  Calm' /\ Exact'
  BY <1>0, <1>2, <1>3, ThrowsInv
<1>4. ASSUME UNCHANGED <<known, ixVars, rows, status>> PROVE Still(x)
  BY <1>4, SameTemps DEF Still, ixVars
<1>5. CASE InsertIndex(x)
  <2>1. CASE Taken(x, cmd[x].new)
    <3>1. Throws(x) /\ InStatement(x) /\ cmd[x].pc = "index" /\ modified' = modified
      BY <1>5, <2>1 DEF InsertIndex, At, InStatement, Ops
    <3>2. Temp(x)' = Temp(x) /\ Mark(x)' = Mark(x) /\ \A y \in Xid \ {x} : Temp(y)' = Temp(y) /\ Mark(y)' = Mark(y)
      BY <1>5, <2>1, InsertTemps DEF InsertIndex
    <3>3. Still(x)
      BY <1>5, <3>2 DEF Still, InsertIndex, IndexInsert
    <3> QED BY <1>3, <3>1, <3>3
  <2>2. CASE ~Taken(x, cmd[x].new)
    BY <1>5, <2>2, InsertIndexInv DEF InsertIndexed
  <2> QED BY <2>1, <2>2
<1>6. CASE InsertRow(x)
  BY <1>6, InsertRowInv
<1>7. CASE InsertRowFails(x)
  <2>1. InStatement(x) /\ cmd[x].pc = "row" /\ Throws(x) /\ modified' = modified
    BY <1>1, <1>7 DEF InsertRowFails, Ops
  <2>2. Still(x)
    BY <1>4, <1>7 DEF InsertRowFails
  <2> QED BY <1>3, <2>1, <2>2
<1>8. CASE InsertList(x)
  <2>1. InStatement(x) /\ cmd[x].pc = "list" /\ Still(x) /\ x \in modified'
    BY <1>1, <1>4, <1>8 DEF InsertList, Ops
  <2>2. cmd'[x] = NoCmd
    BY <1>0, <1>8, EndsTyped, GoesSays DEF InsertList, Shaped
  <2> QED BY <1>0, <2>1, <2>2, EndsInv
<1>9. ASSUME NEW u \in listed, ReadRow(x, u) PROVE Calm' /\ Exact'
  BY <1>9, ReadInv
<1>10. ASSUME NEW u \in listed, ReadNothing(x, u) PROVE Calm' /\ Exact'
  <2>1. InStatement(x) /\ cmd[x].pc = "read" /\ Still(x) /\ modified' = modified
    BY <1>1, <1>4, <1>10 DEF ReadNothing, Ops
  <2>2. CASE cmd[x].op = "delete"
    BY <1>3, <1>10, <2>1, <2>2 DEF ReadNothing
  <2>3. CASE cmd[x].op # "delete"
    <3>1. /\ At(x, {"delete", "update"}, "read") /\ Goes(x, [cmd[x] EXCEPT !.todo = @ \ {u}]) /\ disturbed' = disturbed
          /\ UNCHANGED <<known, ixVars, rows, listed, status, modified>>
      BY <1>10, <2>3 DEF ReadNothing
    <3>2. cmd'[x] = [cmd[x] EXCEPT !.todo = @ \ {u}]
      BY <1>0, <3>1, PassShapes
    <3> QED BY <1>0, <2>1, <3>1, <3>2, PassInv
  <2> QED BY <2>2, <2>3
<1>11. CASE DeleteIndex(x)
  <2>1. CASE TakenHere(x, RowValue(x))
    BY <1>11, <2>1, DeleteIndexInv DEF DeleteIndexed
  <2>2. CASE ~TakenHere(x, RowValue(x))
    <3>1. Throws(x) /\ InStatement(x) /\ cmd[x].pc = "index delete" /\ modified' = modified
      BY <1>11, <2>2 DEF DeleteIndex, At, InStatement, Ops, TakenHere, RowValue
    <3>2. Temp(x)' = Temp(x) /\ Mark(x)' = Mark(x) /\ \A y \in Xid \ {x} : Temp(y)' = Temp(y) /\ Mark(y)' = Mark(y)
      <4>1. IndexDelete(x, RowValue(x)) /\ RowValue(x) \notin index /\ RowValue(x) \notin Temp(x)
        BY <1>11, <2>2 DEF DeleteIndex, TakenHere, RowValue
      <4>2. Temp(x) \ {RowValue(x)} = Temp(x)
        BY <4>1
      <4> QED BY <4>1, <4>2, DeleteTemps
    <3>3. Still(x)
      BY <1>11, <3>2 DEF Still, DeleteIndex, IndexDelete
    <3> QED BY <1>3, <3>1, <3>3
  <2> QED BY <2>1, <2>2
<1>12. CASE UpdateUnknown(x)
  <2>1. InStatement(x) /\ cmd[x].pc = "index delete" /\ Throws(x) /\ modified' = modified
    BY <1>1, <1>12 DEF UpdateUnknown, Ops
  <2>2. Still(x)
    BY <1>4, <1>12 DEF UpdateUnknown
  <2> QED BY <1>3, <2>1, <2>2
<1>13. CASE DeleteRow(x)
  BY <1>13, DeleteRowInv
<1>14. CASE DeleteDeadlock(x)
  <2>1. InStatement(x)
    BY <1>1, <1>14 DEF DeleteDeadlock, Ops
  <2>2. Running(x) /\ cmd[x].op # "commit" /\ cmd[x].touched \in BOOLEAN
    BY <1>0, <2>1, StatementRuns, StatementTyped DEF Shaped, StatementCmd
  <2>3. disturbed' \in BOOLEAN /\ (disturbed => disturbed') /\ (cmd[x].touched => disturbed')
    BY <1>0, <1>14, <2>2 DEF DeleteDeadlock, Shaped, Typed, IndexTyped
  <2>4. EndsAs(x, "abort", "aborted")
    BY <1>14, <2>2, <2>3 DEF DeleteDeadlock, EndsAs, Running
  <2> QED BY <2>2, <2>3, <2>4, AbortInv
<1>15. CASE StatementEnds(x)
  <2>1. InStatement(x) /\ cmd[x].pc = "read" /\ Still(x) /\ x \in modified'
    BY <1>1, <1>4, <1>15 DEF StatementEnds, Ops
  <2>2. cmd'[x] = NoCmd
    BY <1>0, <1>15, EndsTyped, GoesSays DEF StatementEnds, Shaped
  <2> QED BY <1>0, <2>1, <2>2, EndsInv
<1>16. CASE CommitIndex(x) \/ RollbackIndex(x)
  BY <1>16, ToldInv
<1>17. CASE InsertListFails(x) \/ UpdateListFails(x)
  BY <1>0, <1>17, InsertListFailsShapes, UpdateListFailsShapes DEF Calm, Exact
<1>18. CASE ReadRowFails(x)
  <2>1. InStatement(x) /\ cmd[x].pc = "read" /\ Throws(x) /\ modified' = modified
    BY <1>1, <1>18 DEF ReadRowFails, Ops
  <2>2. Still(x)
    BY <1>4, <1>18 DEF ReadRowFails
  <2> QED BY <1>3, <2>1, <2>2
<1>19. CASE DeleteRowFails(x)
  BY <1>19, DeleteRowFailsInv
<1> QED BY <1>5, <1>6, <1>7, <1>8, <1>9, <1>10, <1>11, <1>12, <1>13, <1>14, <1>15, <1>16, <1>17, <1>18, <1>19 DEF Step

LEMMA FatingInv ==
  ASSUME Inv, NEW x \in Xid, Fating(x)
  PROVE  Calm' /\ Exact'
<1>1. CASE Abort(x)
  <2>1. cmd[x].op = "none"
    BY <1>1, EndsTyped DEF Abort, Ready
  <2>2. EndsAs(x, "abort", "aborted")
    BY <1>1 DEF Abort, Ready, EndsAs, Inv, Shaped, Typed, IndexTyped
  <2> QED BY <2>1, <2>2, AbortInv DEF InStatement, Ops
<1> QED BY <1>1, BeginInv, CommitInv DEF Fating

LEMMA InvStays ==
  ASSUME Inv, [Next]_vars
  PROVE  Inv'
<1>1. Shaped'
  BY ShapedStays DEF Inv
<1>2. CASE UNCHANGED vars
  <2>1. /\ known' = known /\ index' = index /\ rows' = rows /\ status' = status /\ cmd' = cmd
        /\ modified' = modified /\ disturbed' = disturbed
        /\ \A x : Temp(x)' = Temp(x) /\ Mark(x)' = Mark(x)
    BY <1>2 DEF vars, Temp, Mark
  <2>2. /\ \A x : (Committed(x)' <=> Committed(x)) /\ (Running(x)' <=> Running(x)) /\ (Ending(x)' <=> Ending(x))
        /\ \A u : Live(rows[u])' <=> Live(rows[u])
    BY <2>1 DEF Committed, Running, Ending, Live
  <2>3. /\ \A x, u : Current(x, u)' <=> Current(x, u)
        /\ \A x, v : (Wrote(x, v)' <=> Wrote(x, v)) /\ (Took(x, v)' <=> Took(x, v))
        /\ \A v : Lives(v)' <=> Lives(v)
    BY <2>1, <2>2 DEF Current, Wrote, Took, Lives, Committed
  <2>4. ASSUME NEW x \in Xid
        PROVE  /\ (OfRows(x) => OfRows(x)') /\ (OfValues(x) => OfValues(x)')
               /\ (Told(x) => Told(x)') /\ (Committing(x) => Committing(x)')
    <3>1. /\ (Unlisted(x)' <=> Unlisted(x)) /\ (Reserved(x)' <=> Reserved(x)) /\ (Copied(x)' <=> Copied(x))
          /\ (Same(x)' <=> Same(x)) /\ \A pcs : OnRow(x, pcs)' <=> OnRow(x, pcs)
      BY <2>1 DEF Unlisted, Reserved, Copied, Same, OnRow, Adds
    <3>2. OfRows(x) => OfRows(x)'
      <4>1. Single(x) => Single(x)'
        BY <2>1, <2>3, <3>1 DEF Single
      <4>5. Lonely(x) => Lonely(x)'
        BY <2>1, <2>3, <3>1 DEF Lonely
      <4>2. Fresh(x) => Fresh(x)'
        BY <2>1, <3>1 DEF Fresh, Wrote, Current
      <4>3. Backed(x) => Backed(x)'
        BY <2>1, <2>2, <3>1 DEF Backed, Took, Current, Committed
      <4> QED BY <4>1, <4>2, <4>3, <4>5 DEF OfRows
    <3>3. OfValues(x) => OfValues(x)'
      <4>1. (Taking(x) => Taking(x)') /\ (Holding(x) => Holding(x)')
        BY <2>1, <2>3, <3>1 DEF Taking, Holding
      <4>4. Marking(x) => Marking(x)'
        BY <2>1, <2>3, <3>1 DEF Marking
      <4>2. Given(x) => Given(x)'
        BY <2>1, <2>3, <3>1 DEF Given, Live, Committed
      <4>3. Unmarked(x) => Unmarked(x)'
        BY <2>1, <3>1 DEF Unmarked
      <4> QED BY <4>1, <4>2, <4>3, <4>4 DEF OfValues
    <3>4. (Told(x) => Told(x)') /\ (Committing(x) => Committing(x)')
      BY <2>1, <2>2, <2>3 DEF Told, Committing, InStatement
    <3> QED BY <3>2, <3>3, <3>4
  <2>5. Calm'
    BY <2>1, <2>2, <2>4 DEF Inv, Calm, UniqueValues
  <2>6. Exact'
    <3>1. (Apart => Apart') /\ (LiveListed => LiveListed') /\ (ListedLive => ListedLive')
      BY <2>1, <2>3 DEF Apart, LiveListed, ListedLive
    <3> QED BY <2>1, <2>2, <2>4, <3>1 DEF Inv, Exact
  <2> QED BY <1>1, <2>5, <2>6 DEF Inv
<1>3. CASE Restart
  BY <1>3, RestartInv
<1>4. ASSUME NEW x \in Xid, Fating(x) \/ Starting(x) \/ Step(x) PROVE Inv'
  BY <1>1, <1>4, FatingInv, StartsInv, StepInv DEF Inv
<1> QED BY <1>2, <1>3, <1>4, NextCases

LEMMA InvExact ==
  ASSUME Inv PROVE ExactIndex
<1> SUFFICES ASSUME ~disturbed, known
             PROVE  /\ \A u \in DOMAIN rows :
                         Live(rows[u]) => \/ rows[u].val \in index
                                          \/ \E x \in Xid : Ending(x) /\ rows[u].val \in Temp(x)
                    /\ \A v \in index : \E u \in DOMAIN rows :
                         /\ rows[u].val = v /\ Committed(rows[u].xmin)
                         /\ (Committed(rows[u].xmax) => Ending(rows[u].xmax))
                    /\ \A x \in Xid : Temp(x) # {} => /\ (Running(x) \/ Ending(x))
                                                       /\ Temp(x) \cap index = {}
  BY DEF Inv, Calm, ExactIndex
<1>1. Shaped /\ Apart /\ LiveListed /\ ListedLive /\ \A x \in Xid : Told(x)
  BY DEF Inv, Exact
<1>2. ASSUME NEW u \in DOMAIN rows, Live(rows[u])
      PROVE  \/ rows[u].val \in index
             \/ \E x \in Xid : Ending(x) /\ rows[u].val \in Temp(x)
  <2>1. rows[u].val \in Val
    BY <1>1, RowTyped DEF Shaped, Typed, Version
  <2> QED BY <1>1, <1>2, <2>1 DEF LiveListed, Lives, Ending
<1>3. ASSUME NEW v \in index
      PROVE  \E u \in DOMAIN rows : /\ rows[u].val = v /\ Committed(rows[u].xmin)
                                    /\ (Committed(rows[u].xmax) => Ending(rows[u].xmax))
  BY <1>1 DEF ListedLive, Lives, Live, Took, Ending
<1>4. ASSUME NEW x \in Xid, Temp(x) # {}
      PROVE  (Running(x) \/ Ending(x)) /\ Temp(x) \cap index = {}
  BY <1>1, <1>4 DEF Told, Apart
<1> QED BY <1>2, <1>3, <1>4

(* ExactIndex: until a statement breaks off half way or two transactions go *)
(* for one row or value, the unique index (UniqueIndex.java) is exact and   *)
(* no two live rows have one value.                                         *)
THEOREM IndexExact == Spec => []ExactIndex
<1>1. Init => Inv
  <2> SUFFICES ASSUME Init PROVE Inv
    OBVIOUS
  <2>1. Shaped /\ ~disturbed /\ known
    BY InitShaped DEF Init
  <2>2. \A x \in Xid : ~Running(x) /\ Temp(x) = {} /\ Mark(x) = {} /\ cmd[x].op = "none"
    BY EndsTyped DEF Init, Running, Temp, Mark
  <2>3. DOMAIN rows = {} /\ index = {}
    BY DEF Init
  <2>4. Calm
    BY <2>2, <2>3 DEF Calm, UniqueValues
  <2>5. Exact
    BY <2>2, <2>3 DEF Exact, Apart, LiveListed, ListedLive, Lives, Told, Committing
  <2> QED BY <2>1, <2>4, <2>5 DEF Inv
<1>2. Inv /\ [Next]_vars => Inv'
  BY InvStays
<1>3. Inv => ExactIndex
  BY InvExact
<1> QED BY <1>1, <1>2, <1>3, PTL DEF Spec
=============================================================================
