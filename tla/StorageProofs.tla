--------------------------- MODULE StorageProofs ---------------------------
(***************************************************************************)
(* What holds of the files over every crash and restart, for any bounds:   *)
(* the types, that what was decided of a transaction stays, that recovery  *)
(* leaves no transaction of the processes before active, that nothing is   *)
(* in the data file that the log does not know, and that the open database *)
(* shows what was committed.                                               *)
(***************************************************************************)
EXTENDS Storage, WellFoundedInduction, TLAPS

----------------------------------------------------------------------------
(* Maximum and minimum.                                                    *)

(* A set of natural numbers has a least one.                               *)
LEMMA LeastNatural ==
  ASSUME NEW S \in SUBSET Nat, S # {}
  PROVE  \E x \in S : \A y \in S : x <= y
<1> DEFINE less == OpToRel(<, Nat)
<1>1. IsWellFoundedOn(less, Nat)
  BY NatLessThanWellFounded
<1>2. \A x, y \in Nat : y < x => <<y, x>> \in less
  <2> SUFFICES ASSUME NEW x \in Nat, NEW y \in Nat, y < x PROVE <<y, x>> \in less
    OBVIOUS
  <2> QED BY DEF OpToRel
<1> HIDE DEF less
<1>3. PICK x \in S : \A y \in S : ~(<<y, x>> \in less)
  BY <1>1, WFMin
<1>4. ASSUME NEW y \in S
      PROVE  x <= y
  <2>1. x \in Nat /\ y \in Nat
    OBVIOUS
  <2>2. ~(y < x)
    BY <1>2, <1>3, <2>1
  <2> QED BY <2>1, <2>2
<1> QED BY <1>4

LEMMA MinIsLeast ==
  ASSUME NEW S \in SUBSET Nat, S # {}
  PROVE  Min(S) \in S /\ \A y \in S : Min(S) <= y
BY LeastNatural DEF Min

(* The least upper bound of a set with 0 in it is in the set.              *)
LEMMA MaxIsGreatest ==
  ASSUME NEW B \in Nat, NEW S \in SUBSET (0 .. B), 0 \in S
  PROVE  Max(S) \in S /\ \A y \in S : Max(S) >= y
<1> DEFINE Upper == {b \in Nat : \A y \in S : y <= b}
<1>1. B \in Upper
  OBVIOUS
<1>2. PICK m \in Upper : \A b \in Upper : m <= b
  BY <1>1, LeastNatural
<1>3. m \in S
  <2> SUFFICES ASSUME m \notin S PROVE FALSE
    OBVIOUS
  <2>1. m \in Nat /\ m # 0 /\ m - 1 \in Nat
    OBVIOUS
  <2>2. ASSUME NEW y \in S PROVE y <= m - 1
    <3>1. y \in Nat /\ y <= m /\ y # m
      OBVIOUS
    <3> QED BY <3>1, <2>1
  <2>3. m - 1 \in Upper
    BY <2>1, <2>2
  <2> QED BY <1>2, <2>1, <2>3
<1>4. \A y \in S : m >= y
  OBVIOUS
<1> QED BY <1>3, <1>4 DEF Max

----------------------------------------------------------------------------
(* Maps, pages and records.                                                *)

LEMMA PutIsMap ==
  ASSUME NEW f, NEW K, NEW V, IsMap(f, K, V), NEW k \in K, NEW v \in V
  PROVE  IsMap(Put(f, k, v), K, V)
BY DEF IsMap, Put

LEMMA WithoutIsMap ==
  ASSUME NEW f, NEW K, NEW L, NEW V, IsMap(f, K, V), NEW k, DOMAIN f \ {k} \subseteq L
  PROVE  IsMap(Without(f, k), L, V)
BY DEF IsMap, Without

LEMMA NoKeys ==
  ASSUME NEW K, NEW V
  PROVE  IsMap(<<>>, K, V)
BY DEF IsMap

LEMMA EmptyPage == <<>> \in Page
<1>1. <<>> \in [{} -> Row] /\ {} \in SUBSET Slot
  OBVIOUS
<1> QED BY <1>1 DEF Page

LEMMA PageIsMap ==
  ASSUME NEW pg \in Page
  PROVE  DOMAIN pg \subseteq Slot /\ \A s \in DOMAIN pg : pg[s] \in Row
BY DEF Page

LEMMA PutPage ==
  ASSUME NEW pg \in Page, NEW s \in Slot, NEW r \in Row
  PROVE  Put(pg, s, r) \in Page
<1>1. PICK D \in SUBSET Slot : pg \in [D -> Row]
  BY DEF Page
<1>2. Put(pg, s, r) \in [D \cup {s} -> Row]
  BY <1>1 DEF Put
<1>3. D \cup {s} \in SUBSET Slot
  OBVIOUS
<1> QED BY <1>2, <1>3 DEF Page

LEMMA ItemIsRow ==
  ASSUME NEW x \in Xid
  PROVE  Item(x) \in Row /\ [Item(x) EXCEPT !.valid = FALSE] \in Row
BY DEF Item, Row

LEMMA RecordType ==
  ASSUME NEW x \in Xid, NEW p \in PageNo, NEW s \in Slot,
         NEW old \in Row, NEW new \in Row, NEW i \in BOOLEAN
  PROVE  /\ Record(x, p, s, old, new, i) \in LogRecord
         /\ Record(x, p, s, old, new, i).xid = x
         /\ Record(x, p, s, old, new, i).bytes = "all"
BY DEF Record, LogRecord

LEMMA InsertRecordType ==
  ASSUME NEW x \in Xid, NEW p \in PageNo, FSO(p) + 1 \in Slot
  PROVE  /\ InsertRecord(x, p) \in LogRecord
         /\ InsertRecord(x, p).xid = x /\ InsertRecord(x, p).page = p
         /\ InsertRecord(x, p).bytes = "all"
<1> DEFINE s == FSO(p) + 1
           old == [Item(x) EXCEPT !.valid = FALSE]
<1>1. old \in Row /\ Item(x) \in Row /\ s \in Slot
  BY ItemIsRow
<1>2. InsertRecord(x, p) = Record(x, p, s, old, Item(x), TRUE)
  BY DEF InsertRecord
<1> HIDE DEF s, old
<1>3. Record(x, p, s, old, Item(x), TRUE) \in LogRecord
  BY <1>1, RecordType
<1> QED BY <1>2, <1>3 DEF Record

LEMMA TornType ==
  ASSUME NEW b \in {"head", "part"}
  PROVE  Torn(b) \in LogRecord /\ Torn(b).xid = 1 /\ Torn(b).bytes = b
<1>1. 1 \in Xid /\ 1 \in PageNo /\ 1 \in Slot
  BY BoundsAreNumbers DEF Xid, PageNo, Slot
<1>2. Record(1, 1, 1, Item(1), Item(1), TRUE) \in LogRecord
  BY <1>1, ItemIsRow, RecordType
<1> QED BY <1>1, <1>2 DEF Torn, LogRecord, Record
----------------------------------------------------------------------------
(* What reading the log gives.                                             *)

LEMMA ReadableIsPrefix ==
  ASSUME NEW l \in Seq(LogRecord)
  PROVE  /\ Readable(l) \in Seq(LogRecord) /\ Len(Readable(l)) <= Len(l)
         /\ \A n \in 1 .. Len(Readable(l)) : Readable(l)[n] = l[n] /\ l[n].bytes = "all"
         /\ (\A n \in 1 .. Len(l) : n < Len(l) => l[n].bytes = "all") =>
              \A n \in 1 .. Len(l) : l[n].bytes = "all" => n <= Len(Readable(l))
<1> DEFINE broken == {n \in 1 .. Len(l) : l[n].bytes # "all"}
<1>1. CASE broken = {}
  <2>1. Readable(l) = l
    BY <1>1 DEF Readable
  <2> QED BY <1>1, <2>1
<1>2. CASE broken # {}
  <2> DEFINE k == Min(broken)
  <2>1. k \in broken /\ \A n \in broken : k <= n
    <3>1. broken \in SUBSET Nat
      OBVIOUS
    <3> QED BY ONLY <3>1, <1>2, MinIsLeast
  <2>3. Readable(l) = SubSeq(l, 1, k - 1)
    BY <1>2 DEF Readable
  <2> HIDE DEF k
  <2>2. /\ k \in 1 .. Len(l) /\ l[k].bytes # "all"
        /\ \A n \in 1 .. Len(l) : n < k => l[n].bytes = "all"
    <3>1. Len(l) \in Nat
      OBVIOUS
    <3> QED BY <2>1, <3>1
  <2>4. /\ SubSeq(l, 1, k - 1) \in Seq(LogRecord) /\ Len(SubSeq(l, 1, k - 1)) = k - 1
        /\ \A n \in 1 .. k - 1 : SubSeq(l, 1, k - 1)[n] = l[n]
    BY <2>2
  <2> QED BY <2>2, <2>3, <2>4
<1> QED BY <1>1, <1>2

LEMMA ViewIsPage ==
  ASSUME TypeOK, NEW p \in 1 .. Len(file)
  PROVE  View(p) \in Page /\ p \in PageNo
BY BoundsAreNumbers DEF TypeOK, View, IsMap, PageNo

LEMMA NextPlaceIsSlot ==
  ASSUME TypeOK, NEW p \in Selectable
  PROVE  p \in 1 .. Len(file) /\ p \in PageNo /\ FSO(p) + 1 \in Slot
<1>1. p \in 1 .. Len(file) /\ FSO(p) < MaxSlot
  BY DEF Selectable
<1>2. DOMAIN View(p) \subseteq Slot /\ p \in PageNo
  BY <1>1, ViewIsPage, PageIsMap
<1>3. {0} \cup DOMAIN View(p) \in SUBSET (0 .. MaxSlot)
  BY <1>2, BoundsAreNumbers DEF Slot
<1>4. FSO(p) \in 0 .. MaxSlot
  BY <1>3, MaxIsGreatest, BoundsAreNumbers DEF FSO
<1> QED BY <1>1, <1>2, <1>4, BoundsAreNumbers DEF Slot

LEMMA LastPageIsNumber ==
  ASSUME TypeOK
  PROVE  LastPage \in 0 .. MaxPage
<1>1. Readable(log) \in Seq(LogRecord)
  BY ReadableIsPrefix DEF TypeOK
<1>2. \A n \in 1 .. Len(Records) : Records[n].page \in 0 .. MaxPage
  <2> SUFFICES ASSUME NEW n \in 1 .. Len(Records) PROVE Records[n].page \in 0 .. MaxPage
    OBVIOUS
  <2>1. Records[n] \in LogRecord
    BY <1>1 DEF Records
  <2> QED BY <2>1, BoundsAreNumbers DEF LogRecord, PageNo
<1>3. {0} \cup {Records[n].page : n \in 1 .. Len(Records)} \in SUBSET (0 .. MaxPage)
  BY <1>2, BoundsAreNumbers
<1> QED BY <1>3, MaxIsGreatest, BoundsAreNumbers DEF LastPage
----------------------------------------------------------------------------
(* Type correctness.                                                       *)

(* The rows a transaction has inserted and deleted.                        *)
Work == [ins : SUBSET (PageNo \X Slot), del : SUBSET (PageNo \X Slot)]

LEMMA TypeInit == Init => TypeOK
BY BoundsAreNumbers DEF Init, TypeOK, IsMap

LEMMA TypeForget ==
  ASSUME TypeOK, Forget, UNCHANGED <<header, status, file>>,
         log' \in Seq(LogRecord), Len(log') <= MaxLog, vc' \in {"open", "closed"},
         mode' = "down", crashes' \in 0 .. MaxCrash
  PROVE  TypeOK'
BY BoundsAreNumbers DEF Forget, TypeOK, IsMap

(* Begin, commit and abort.                                                *)
LEMMA TypeTransaction ==
  ASSUME TypeOK, BeginStatus \/ BeginCounter \/ (\E x \in Xid : Commit(x) \/ Abort(x))
  PROVE  TypeOK'
<1> USE BoundsAreNumbers DEF disk, recovery, ghost, Work
<1>1. CASE BeginStatus
  <2>1. status' \in Seq({"active", "committed", "aborted"}) /\ Len(status') <= MaxXid
    <3>1. /\ status \in Seq({"active", "committed", "aborted"}) /\ Len(status) <= MaxXid
          /\ counter < MaxXid /\ counter \in Nat
      BY <1>1 DEF BeginStatus, TypeOK
    <3>2. CASE Len(status) = counter
      <4>1. status' = Append(status, "active")
        BY <1>1, <3>2 DEF BeginStatus
      <4> QED BY <3>1, <3>2, <4>1
    <3>3. CASE Len(status) # counter
      <4>1. status' = [status EXCEPT ![counter + 1] = "active"]
        BY <1>1, <3>3 DEF BeginStatus
      <4>2. Len(status) \in Nat /\ status \in [1 .. Len(status) -> {"active", "committed", "aborted"}]
        BY <3>1
      <4>3. status' \in [1 .. Len(status) -> {"active", "committed", "aborted"}]
        BY <4>1, <4>2
      <4> QED BY <3>1, <4>2, <4>3
    <3> QED BY <3>2, <3>3
  <2> QED BY <1>1, <2>1 DEF BeginStatus, TypeOK
<1>2. CASE BeginCounter
  <2>1. counter + 1 \in 0 .. MaxXid /\ counter + 1 \in Xid
    BY <1>2 DEF BeginCounter, TypeOK, Xid
  <2>2. work' \in [running' -> Work]
    BY <1>2 DEF BeginCounter, TypeOK, Put
  <2>3. IsMap(op', running', LogRecord)
    BY <1>2 DEF BeginCounter, TypeOK, IsMap
  <2> QED BY <1>2, <2>1, <2>2, <2>3 DEF BeginCounter, TypeOK
<1>3. ASSUME NEW x \in Xid, Commit(x) \/ Abort(x)
      PROVE  TypeOK'
  <2>1. status' \in Seq({"active", "committed", "aborted"}) /\ Len(status') <= MaxXid
    <3>1. ASSUME NEW b \in {"committed", "aborted"}, status' = [status EXCEPT ![x] = b]
          PROVE  status' \in Seq({"active", "committed", "aborted"}) /\ Len(status') = Len(status)
      <4>1. Len(status) \in Nat /\ status \in [1 .. Len(status) -> {"active", "committed", "aborted"}]
        BY DEF TypeOK
      <4>2. status' \in [1 .. Len(status) -> {"active", "committed", "aborted"}]
        BY <3>1, <4>1
      <4> QED BY <4>1, <4>2
    <3>2. PICK b \in {"committed", "aborted"} : status' = [status EXCEPT ![x] = b]
      BY <1>3 DEF Commit, Abort
    <3> QED BY <3>1, <3>2 DEF TypeOK
  <2>2. work' \in [running' -> Work]
    <3>1. work' = Without(work, x) /\ running' = running \ {x}
      BY <1>3 DEF Commit, Abort
    <3>2. work \in [running -> Work]
      BY DEF TypeOK
    <3> QED BY ONLY <3>1, <3>2 DEF Without
  <2>3. IsMap(op', running', LogRecord)
    BY <1>3 DEF Commit, Abort, TypeOK, IsMap
  <2>4. promised' \subseteq PageNo \X Slot
    BY <1>3 DEF Commit, Abort, TypeOK
  <2> QED BY <1>3, <2>1, <2>2, <2>3, <2>4 DEF Commit, Abort, TypeOK
<1> QED BY <1>1, <1>2, <1>3

(* Rows and pages.                                                         *)
LEMMA TypeRows ==
  ASSUME TypeOK,
         \/ NewPage
         \/ \E x \in Xid :
              \/ \E p \in PageNo : InsertLog(x, p)
              \/ InsertPage(x)
              \/ \E p \in 1 .. Len(file), s \in Slot : DeletePage(x, p, s)
              \/ DeleteLog(x)
         \/ \E p \in PageNo : Evict(p)
  PROVE  TypeOK'
<1> USE BoundsAreNumbers DEF disk, recovery, ghost, Work
<1>1. CASE NewPage
  <2>1. file' \in Seq(Page) /\ Len(file') = Len(file) + 1 /\ Len(file') <= MaxPage
    <3>1. file' = Append(file, <<>>) /\ Len(file) < MaxPage /\ file \in Seq(Page)
      BY <1>1 DEF NewPage, TypeOK
    <3>2. Len(file) + 1 <= MaxPage
      BY <3>1
    <3> HIDE DEF Page
    <3> QED BY <3>1, <3>2, EmptyPage
  <2>2. IsMap(mem', 1 .. Len(file'), Page)
    <3>1. mem' = mem /\ IsMap(mem, 1 .. Len(file), Page) /\ Len(file) \in Nat
      BY <1>1 DEF NewPage, TypeOK
    <3>2. 1 .. Len(file) \subseteq 1 .. Len(file')
      BY <2>1, <3>1
    <3> QED BY <3>1, <3>2 DEF IsMap
  <2>3. \A y \in DOMAIN op : op[y].page \in Nat
    BY DEF TypeOK, IsMap, LogRecord, PageNo
  <2>4. \A y \in DOMAIN op' : op'[y].xid = y /\ op'[y].page <= Len(file')
    BY <1>1, <2>1, <2>3 DEF NewPage, TypeOK
  <2> QED BY <1>1, <2>1, <2>2, <2>4 DEF NewPage, TypeOK
<1>2. ASSUME NEW x \in Xid, NEW p \in PageNo, InsertLog(x, p)
      PROVE  TypeOK'
  <2>1. /\ InsertRecord(x, p) \in LogRecord
        /\ InsertRecord(x, p).xid = x /\ InsertRecord(x, p).page <= Len(file)
    <3>1. p \in 1 .. Len(file) /\ FSO(p) + 1 \in Slot
      BY <1>2, NextPlaceIsSlot DEF InsertLog
    <3>2. /\ InsertRecord(x, p) \in LogRecord
          /\ InsertRecord(x, p).xid = x /\ InsertRecord(x, p).page = p
      BY <3>1, InsertRecordType
    <3> QED BY <3>1, <3>2
  <2>2. log' \in Seq(LogRecord) /\ Len(log') <= MaxLog
    BY <1>2, <2>1 DEF InsertLog, TypeOK
  <2>3. IsMap(op', running', LogRecord) /\ \A y \in DOMAIN op' : op'[y].xid = y /\ op'[y].page <= Len(file')
    BY <1>2, <2>1 DEF InsertLog, Ready, TypeOK, IsMap, Put
  <2> QED BY <1>2, <2>2, <2>3 DEF InsertLog, TypeOK
<1>3. ASSUME NEW x \in Xid, InsertPage(x)
      PROVE  TypeOK'
  <2> DEFINE r == op[x]
  <2>1. x \in running /\ r \in LogRecord
    BY <1>3 DEF InsertPage, TypeOK, IsMap
  <2>2. IsMap(mem', 1 .. Len(file'), Page)
    <3>1. r.page \in 1 .. Len(file)
      BY <1>3, <2>1 DEF InsertPage, TypeOK, LogRecord, PageNo
    <3> QED BY <1>3, <2>1, <3>1, ViewIsPage, PutPage, PutIsMap DEF InsertPage, TypeOK, LogRecord
  <2>3. work' \in [running' -> Work]
    <3>1. <<r.page, r.slot>> \in PageNo \X Slot
      BY <2>1 DEF LogRecord
    <3>2. work \in [running -> Work] /\ work' = [work EXCEPT ![x].ins = @ \cup {<<r.page, r.slot>>}]
      BY <1>3 DEF InsertPage, TypeOK
    <3>3. [work[x] EXCEPT !.ins = @ \cup {<<r.page, r.slot>>}] \in Work
      BY <3>1, <3>2, <2>1
    <3>4. work' \in [running -> Work]
      BY <3>2, <3>3
    <3> QED BY <3>4, <1>3 DEF InsertPage
  <2>4. IsMap(op', running', LogRecord) /\ \A y \in DOMAIN op' : op'[y].xid = y /\ op'[y].page <= Len(file')
    BY <1>3 DEF InsertPage, TypeOK, IsMap, Without
  <2> QED BY <1>3, <2>2, <2>3, <2>4 DEF InsertPage, TypeOK
<1>4. ASSUME NEW x \in Xid, NEW p \in 1 .. Len(file), NEW s \in Slot, DeletePage(x, p, s)
      PROVE  TypeOK'
  <2> DEFINE old == View(p)[s]
             new == [old EXCEPT !.xmax = x]
  <2>1. View(p) \in Page /\ p \in PageNo /\ old \in Row
    BY <1>4, ViewIsPage, PageIsMap DEF DeletePage
  <2>2. new \in Row
    BY <2>1 DEF Row
  <2> HIDE DEF old, new
  <2>3. /\ Record(x, p, s, old, new, FALSE) \in LogRecord
        /\ Record(x, p, s, old, new, FALSE).xid = x /\ Record(x, p, s, old, new, FALSE).page <= Len(file)
    <3>1. Record(x, p, s, old, new, FALSE) \in LogRecord
      BY <2>1, <2>2, RecordType
    <3>2. Record(x, p, s, old, new, FALSE).xid = x /\ Record(x, p, s, old, new, FALSE).page = p
      BY DEF Record
    <3>3. p <= Len(file)
      BY DEF TypeOK
    <3> QED BY <3>1, <3>2, <3>3
  <2>4. /\ mem' = Put(mem, p, Put(View(p), s, new)) /\ op' = Put(op, x, Record(x, p, s, old, new, FALSE))
        /\ x \in running
    BY <1>4 DEF DeletePage, Ready, old, new
  <2>5. IsMap(mem', 1 .. Len(file), Page)
    BY <2>1, <2>2, <2>4, PutPage, PutIsMap DEF TypeOK
  <2> DEFINE r == Record(x, p, s, old, new, FALSE)
  <2>6. IsMap(op', running, LogRecord) /\ \A y \in DOMAIN op' : op'[y].xid = y /\ op'[y].page <= Len(file')
    <3>1. op' = Put(op, x, r) /\ r \in LogRecord /\ r.xid = x /\ r.page <= Len(file) /\ file' = file
      BY <1>4, <2>3, <2>4 DEF DeletePage
    <3> HIDE DEF r
    <3>2. IsMap(op', running, LogRecord)
      <4>1. IsMap(op, running, LogRecord)
        BY DEF TypeOK
      <4>2. IsMap(Put(op, x, r), running, LogRecord)
        BY ONLY <2>4, <3>1, <4>1, PutIsMap
      <4> QED BY <3>1, <4>2
    <3>3. \A y \in DOMAIN op' : op'[y].xid = y /\ op'[y].page <= Len(file')
      BY <3>1 DEF TypeOK, Put
    <3> QED BY <3>2, <3>3
  <2> QED BY <1>4, <2>5, <2>6 DEF DeletePage, TypeOK
<1>5. ASSUME NEW x \in Xid, DeleteLog(x)
      PROVE  TypeOK'
  <2>1. x \in running /\ op[x] \in LogRecord
    BY <1>5 DEF DeleteLog, TypeOK, IsMap
  <2>2. log' \in Seq(LogRecord) /\ Len(log') <= MaxLog
    BY <1>5, <2>1 DEF DeleteLog, TypeOK
  <2>3. work' \in [running' -> Work]
    <3>1. <<op[x].page, op[x].slot>> \in PageNo \X Slot
      BY <2>1 DEF LogRecord
    <3>2. work \in [running -> Work] /\ work' = [work EXCEPT ![x].del = @ \cup {<<op[x].page, op[x].slot>>}]
      BY <1>5 DEF DeleteLog, TypeOK
    <3>3. [work[x] EXCEPT !.del = @ \cup {<<op[x].page, op[x].slot>>}] \in Work
      BY <3>1, <3>2, <2>1
    <3>4. work' \in [running -> Work]
      BY <3>2, <3>3
    <3> QED BY <3>4, <1>5 DEF DeleteLog
  <2>4. IsMap(op', running', LogRecord) /\ \A y \in DOMAIN op' : op'[y].xid = y /\ op'[y].page <= Len(file')
    BY <1>5 DEF DeleteLog, TypeOK, IsMap, Without
  <2> QED BY <1>5, <2>2, <2>3, <2>4 DEF DeleteLog, TypeOK
<1>6. ASSUME NEW p \in PageNo, Evict(p)
      PROVE  TypeOK'
  <2>1. mem[p] \in Page /\ p \in 1 .. Len(file)
    BY <1>6 DEF Evict, TypeOK, IsMap
  <2>2. file' \in Seq(Page) /\ Len(file') = Len(file)
    BY <1>6, <2>1 DEF Evict, TypeOK
  <2>3. IsMap(mem', 1 .. Len(file'), Page)
    BY <1>6, <2>2, WithoutIsMap DEF Evict, TypeOK, IsMap
  <2> QED BY <1>6, <2>2, <2>3 DEF Evict, TypeOK
<1> QED BY <1>1, <1>2, <1>3, <1>4, <1>5, <1>6
(* The end of a process, and the start of the next one.                    *)
LEMMA TypeRestart ==
  ASSUME TypeOK, Close \/ Crash \/ Open \/ OpenFails \/ Opened
  PROVE  TypeOK'
<1> USE BoundsAreNumbers DEF disk, recovery, ghost
<1>1. CASE Close
  BY <1>1, TypeForget DEF Close, TypeOK
<1>2. CASE Crash
  <2>1. log' \in Seq(LogRecord) /\ Len(log') <= MaxLog
    <3>1. CASE log' = log
      BY <3>1 DEF TypeOK
    <3>2. ASSUME NEW b \in {"head", "part"}, Len(log) < MaxLog, log' = Append(log, Torn(b))
          PROVE  log' \in Seq(LogRecord) /\ Len(log') <= MaxLog
      <4>1. Torn(b) \in LogRecord
        BY TornType
      <4>2. log \in Seq(LogRecord)
        BY DEF TypeOK
      <4> QED BY <3>2, <4>1, <4>2
    <3> QED BY <1>2, <3>1, <3>2 DEF Crash
  <2>2. crashes' \in 0 .. MaxCrash
    BY <1>2 DEF Crash, TypeOK
  <2> QED BY <1>2, <2>1, <2>2, TypeForget DEF Crash, TypeOK
<1>3. CASE Open
  <2>1. log' \in Seq(LogRecord) /\ Len(log') <= MaxLog
    BY <1>3, ReadableIsPrefix DEF Open, TypeOK
  <2>2. mode' \in {"ready", "failed", "truncate"}
    BY <1>3 DEF Open
  <2> QED BY <1>3, <2>1, <2>2 DEF Open, TypeOK
<1>4. CASE OpenFails
  BY <1>4, TypeForget DEF OpenFails, TypeOK
<1>5. CASE Opened
  BY <1>5 DEF Opened, TypeOK
<1> QED BY <1>1, <1>2, <1>3, <1>4, <1>5

LEMMA RecordsHaveTypes ==
  ASSUME TypeOK
  PROVE  /\ Records \in Seq(LogRecord) /\ Len(Records) \in 0 .. MaxLog
         /\ \A n \in 1 .. Len(Records) : Records[n] \in LogRecord
<1>1. log \in Seq(LogRecord) /\ Len(log) <= MaxLog
  BY DEF TypeOK
<1>2. Records \in Seq(LogRecord) /\ Len(Records) <= Len(log)
  BY <1>1, ReadableIsPrefix DEF Records
<1> QED BY <1>1, <1>2, BoundsAreNumbers

LEMMA RestoreKeepsTypes ==
  ASSUME TypeOK, NEW r \in LogRecord, NEW image \in Row, Restore(r, image)
  PROVE  file' \in Seq(Page) /\ Len(file') = Len(file)
<1>1. Len(file) \in Nat /\ file \in [1 .. Len(file) -> Page]
  BY DEF TypeOK
<1>2. CASE r.page \in 1 .. Len(file)
  <2>1. Put(file[r.page], r.slot, image) \in Page
    BY <1>1, <1>2, PutPage DEF LogRecord
  <2>2. file' = [file EXCEPT ![r.page] = Put(file[r.page], r.slot, image)]
    BY DEF Restore
  <2>3. file' \in [1 .. Len(file) -> Page]
    BY <1>1, <2>1, <2>2
  <2> QED BY <1>1, <2>3
<1>3. CASE r.page \notin 1 .. Len(file)
  <2>1. file' \in [1 .. Len(file) -> Page]
    BY <1>1, <1>3 DEF Restore
  <2> QED BY <1>1, <2>1
<1> QED BY <1>2, <1>3

(* Between two runs nothing runs and nothing is in memory.                 *)
Idle == mode # "up" => running = {} /\ mem = <<>>

(* The record redo or undo is at is one of the log.                        *)
Positions ==
  /\ mode = "redo" => at >= 1
  /\ undoing # 0 => mode = "undo" /\ at <= Len(Records)

LEMMA TypeRecovery ==
  ASSUME TypeOK, Idle, Positions, Recovering
  PROVE  TypeOK'
<1> USE BoundsAreNumbers DEF disk, recovery, ghost, Idle, Positions
<1>1. CASE RecTruncate
  <2>1. file' \in [1 .. LastPage -> Page] /\ LastPage \in 0 .. MaxPage
    BY <1>1, LastPageIsNumber, EmptyPage DEF RecTruncate, TypeOK
  <2>2. file' \in Seq(Page) /\ Len(file') <= MaxPage
    BY <2>1
  <2>3. IsMap(mem', 1 .. Len(file'), Page)
    BY <1>1, NoKeys DEF RecTruncate
  <2>4. DOMAIN op = {} /\ at' \in 0 .. MaxLog + 1
    <3>1. running = {}
      BY <1>1 DEF RecTruncate
    <3>2. at' = 1
      BY <1>1 DEF RecTruncate
    <3>3. DOMAIN op = {}
      BY <3>1 DEF TypeOK, IsMap
    <3>4. 1 \in 0 .. MaxLog + 1
      OBVIOUS
    <3> QED BY <3>2, <3>3, <3>4
  <2> QED BY <1>1, <2>2, <2>3, <2>4 DEF RecTruncate, TypeOK
<1>2. CASE Redo
  <2>1. at <= Len(Records) /\ Len(Records) \in 0 .. MaxLog /\ at \in Nat
    BY <1>2, RecordsHaveTypes DEF Redo, TypeOK
  <2>2. file' \in Seq(Page) /\ Len(file') = Len(file)
    <3>1. CASE UNCHANGED file
      BY <3>1 DEF TypeOK
    <3>2. CASE Restore(Records[at], Records[at].new)
      <4>1. at \in 1 .. Len(Records)
        BY <1>2, <2>1 DEF Redo
      <4>2. Records[at] \in LogRecord /\ Records[at].new \in Row
        BY <4>1, RecordsHaveTypes DEF LogRecord
      <4> QED BY <3>2, <4>2, RestoreKeepsTypes
    <3> QED BY <1>2, <3>1, <3>2 DEF Redo
  <2> QED BY <1>2, <2>1, <2>2 DEF Redo, TypeOK
<1>3. CASE RedoEnds
  BY <1>3 DEF RedoEnds, TypeOK
<1>4. ASSUME NEW x \in Xid, UndoBegins(x)
      PROVE  TypeOK'
  BY <1>4, RecordsHaveTypes DEF UndoBegins, TypeOK, Xid
<1>5. CASE Undo
  <2>1. at \in 1 .. Len(Records) /\ Len(Records) \in 0 .. MaxLog /\ at - 1 \in 0 .. MaxLog + 1
    BY <1>5, RecordsHaveTypes DEF Undo, TypeOK
  <2>2. file' \in Seq(Page) /\ Len(file') = Len(file)
    <3>1. CASE UNCHANGED file
      BY <3>1 DEF TypeOK
    <3>2. CASE Restore(Records[at], Records[at].old)
      <4>1. Records[at] \in LogRecord /\ Records[at].old \in Row
        BY <2>1, RecordsHaveTypes DEF LogRecord
      <4> QED BY <3>2, <4>1, RestoreKeepsTypes
    <3> QED BY <1>5, <3>1, <3>2 DEF Undo
  <2> QED BY <1>5, <2>1, <2>2 DEF Undo, TypeOK
<1>6. CASE UndoEnds
  <2>1. status' \in Seq({"active", "committed", "aborted"}) /\ Len(status') = Len(status)
    <3>1. Len(status) \in Nat /\ status \in [1 .. Len(status) -> {"active", "committed", "aborted"}]
      BY DEF TypeOK
    <3>2. status' \in [1 .. Len(status) -> {"active", "committed", "aborted"}]
      BY <1>6, <3>1 DEF UndoEnds
    <3> QED BY <3>1, <3>2
  <2> QED BY <1>6, <2>1 DEF UndoEnds, TypeOK
<1>7. CASE RecDone
  BY <1>7 DEF RecDone, TypeOK
<1> QED BY <1>1, <1>2, <1>3, <1>4, <1>5, <1>6, <1>7 DEF Recovering
----------------------------------------------------------------------------
(* Who may still be active.                                                *)

(* The header counts every transaction; a status byte behind it belongs to *)
(* one that has not begun yet.                                             *)
Counted ==
  /\ mode # "down" => counter = header
  /\ Len(status) \in {header, header + 1}
  /\ Len(status) = header + 1 => status[header + 1] = "active"

(* A running transaction is counted and not decided; what it logs is its   *)
(* own.                                                                    *)
RunningActive ==
  /\ running \subseteq 1 .. header
  /\ \A x \in running : status[x] = "active"
  /\ \A x \in DOMAIN op : op[x].bytes = "all"

(* So is one that recovery takes back.                                     *)
Undone == undoing # 0 => undoing \in 1 .. header /\ status[undoing] = "active"

(* A record is of a counted transaction; only the last may be torn, and    *)
(* none is once the tail has been removed.                                 *)
Recorded ==
  /\ \A n \in 1 .. Len(log) : log[n].xid \in 1 .. header
  /\ mode # "down" => \A n \in 1 .. Len(log) : log[n].bytes = "all"

(* When the database is open, and when it was closed in order, no record   *)
(* is of a transaction that ended undecided.                               *)
Decided ==
  /\ mode = "up" => vc = "open"
  /\ mode \in {"truncate", "redo", "undo"} => vc = "open"
  /\ mode \in {"up", "ready"} \/ vc = "closed" =>
       \A n \in 1 .. Len(log) : log[n].xid \in running \/ status[log[n].xid] # "active"


Control == Idle /\ Positions /\ Counted /\ RunningActive /\ Undone /\ Recorded /\ Decided

LEMMA ControlInit == Init => Control
BY DEF Init, Control, Idle, Positions, Counted, RunningActive, Undone, Recorded, Decided

(* Where the log is whole, reading it gives all of it.                     *)
LEMMA WholeIsRead ==
  ASSUME NEW l, \A n \in 1 .. Len(l) : l[n].bytes = "all"
  PROVE  Readable(l) = l
<1>1. {n \in 1 .. Len(l) : l[n].bytes # "all"} = {}
  OBVIOUS
<1> QED BY <1>1 DEF Readable

(* The types the control of the storage rests on.                          *)
LEMMA Shapes ==
  ASSUME TypeOK
  PROVE  /\ header \in Nat /\ counter \in Nat /\ Len(status) \in Nat /\ Len(log) \in Nat
         /\ status \in [1 .. Len(status) -> {"active", "committed", "aborted"}]
         /\ running \subseteq Nat /\ DOMAIN op \subseteq running
         /\ \A x \in DOMAIN op : op[x] \in LogRecord /\ op[x].xid = x
         /\ log \in Seq(LogRecord)
         /\ at \in Nat /\ undoing \in Nat
BY BoundsAreNumbers DEF TypeOK, IsMap, Xid

LEMMA ControlTransaction ==
  ASSUME TypeOK, Control, BeginStatus \/ BeginCounter \/ (\E x \in Xid : Commit(x) \/ Abort(x))
  PROVE  Control'
<1> USE DEF disk, recovery, ghost, Control
<1>0. Records' = Records
  BY DEF BeginStatus, BeginCounter, Commit, Abort, Records
<1>1. CASE BeginStatus
  <2>1. /\ counter = header /\ Len(status) = header
        /\ status' = Append(status, "active")
    <3>1. counter = header /\ (Len(status) > counter => status[counter + 1] # "active")
      BY <1>1 DEF BeginStatus, Counted
    <3>2. Len(status) = header
      BY <3>1, Shapes DEF Counted
    <3>3. status' = Append(status, "active")
      BY <1>1, <3>1, <3>2 DEF BeginStatus
    <3> QED BY <3>1, <3>2, <3>3
  <2>2. /\ Len(status') = header + 1 /\ status'[header + 1] = "active"
        /\ \A x \in 1 .. header : status'[x] = status[x]
    BY <2>1, Shapes
  <2>3. Idle' /\ Positions' /\ Recorded'
    BY <1>0, <1>1 DEF BeginStatus, Idle, Positions, Recorded
  <2>4. Counted'
    BY <1>1, <2>1, <2>2 DEF BeginStatus, Counted
  <2>5. RunningActive' /\ Undone'
    BY <1>1, <2>2 DEF BeginStatus, RunningActive, Undone
  <2>6. Decided'
    BY <1>1, <2>2 DEF BeginStatus, Decided, Recorded
  <2> QED BY <2>3, <2>4, <2>5, <2>6
<1>2. CASE BeginCounter
  <2>1. /\ counter = header /\ Len(status) = header + 1 /\ header' = header + 1
        /\ counter' = header + 1 /\ status' = status /\ running' = running \cup {header + 1}
    BY <1>2, Shapes DEF BeginCounter, Counted
  <2>2. Idle' /\ Positions'
    BY <1>0, <1>2 DEF BeginCounter, Idle, Positions
  <2>3. Counted'
    BY <2>1, <1>2, Shapes DEF Counted
  <2>4. RunningActive'
    <3>1. running' \subseteq 1 .. header'
      <4>1. header \in Nat /\ running \subseteq 1 .. header
        BY Shapes DEF RunningActive
      <4>2. 1 .. header \subseteq 1 .. header + 1 /\ header + 1 \in 1 .. header + 1
        BY <4>1
      <4> QED BY <2>1, <4>1, <4>2
    <3>2. \A x \in running' : status'[x] = "active"
      BY <2>1 DEF RunningActive, Counted
    <3>3. op' = op
      BY <1>2 DEF BeginCounter
    <3> QED BY <3>1, <3>2, <3>3 DEF RunningActive
  <2>5. Undone' /\ Recorded'
    BY <1>2, <2>1, Shapes DEF BeginCounter, Undone, Recorded
  <2>6. Decided'
    BY <1>2, <2>1 DEF BeginCounter, Decided
  <2> QED BY <2>2, <2>3, <2>4, <2>5, <2>6
<1>3. ASSUME NEW x \in Xid, Commit(x) \/ Abort(x)
      PROVE  Control'
  <2>1. /\ mode = "up" /\ x \in running /\ x \notin DOMAIN op /\ running' = running \ {x}
        /\ UNCHANGED <<header, log, vc, mode, counter, op, at, undoing>>
    BY <1>3 DEF Commit, Abort
  <2>2. PICK b \in {"committed", "aborted"} : status' = [status EXCEPT ![x] = b]
    BY <1>3 DEF Commit, Abort
  <2>3. x \in 1 .. header /\ x \in 1 .. Len(status) /\ status[x] = "active"
    <3>1. x \in 1 .. header /\ status[x] = "active"
      BY <2>1 DEF RunningActive
    <3>2. header <= Len(status)
      BY Shapes DEF Counted
    <3> QED BY <3>1, <3>2, Shapes
  <2>4. /\ Len(status') = Len(status) /\ status'[x] = b
        /\ \A y \in 1 .. Len(status) : y # x => status'[y] = status[y]
    BY <2>2, <2>3, Shapes
  <2>5. Idle' /\ Positions' /\ Recorded'
    BY <1>0, <2>1 DEF Idle, Positions, Recorded
  <2>6. Counted'
    BY <2>1, <2>3, <2>4, Shapes DEF Counted
  <2>7. RunningActive'
    BY <2>1, <2>3, <2>4, Shapes DEF RunningActive, Counted
  <2>8. Undone'
    BY <2>1 DEF Undone, Positions
  <2>9. Decided'
    <3>1. mode' = "up" /\ vc' = "open"
      BY <2>1 DEF Decided
    <3>2. ASSUME NEW n \in 1 .. Len(log), log[n].xid \notin running'
          PROVE  status'[log[n].xid] # "active"
      <4>1. log[n].xid \in 1 .. Len(status)
        BY Shapes DEF Recorded, Counted
      <4>2. CASE log[n].xid = x
        BY <2>4, <4>2
      <4>3. CASE log[n].xid # x
        BY <2>1, <2>4, <3>2, <4>1, <4>3 DEF Decided
      <4> QED BY <4>2, <4>3
    <3> QED BY <2>1, <3>1, <3>2 DEF Decided
  <2> QED BY <2>5, <2>6, <2>7, <2>8, <2>9
<1> QED BY <1>1, <1>2, <1>3

LEMMA ControlRows ==
  ASSUME TypeOK, Control,
         \/ NewPage
         \/ \E x \in Xid :
              \/ \E p \in PageNo : InsertLog(x, p)
              \/ InsertPage(x)
              \/ \E p \in 1 .. Len(file), s \in Slot : DeletePage(x, p, s)
              \/ DeleteLog(x)
         \/ \E p \in PageNo : Evict(p)
  PROVE  Control'
<1> USE DEF disk, recovery, ghost, Control
<1>1. /\ mode = "up" /\ running \subseteq 1 .. header /\ undoing = 0
      /\ UNCHANGED <<header, status, vc, mode, counter, running, at, undoing>>
  <2>1. /\ mode = "up"
        /\ UNCHANGED <<header, status, vc, mode, counter, running, at, undoing>>
    <3> DEFINE Frame == mode = "up" /\ UNCHANGED <<header, status, vc, mode, counter, running, at, undoing>>
    <3>1. CASE NewPage \/ \E p \in PageNo : Evict(p)
      BY <3>1 DEF NewPage, Evict, Ready
    <3>2. ASSUME NEW x \in Xid, (\E p \in PageNo : InsertLog(x, p)) \/ InsertPage(x)
          PROVE  Frame
      BY <3>2 DEF InsertLog, InsertPage, Ready
    <3>3. ASSUME NEW x \in Xid, (\E p \in 1 .. Len(file), s \in Slot : DeletePage(x, p, s)) \/ DeleteLog(x)
          PROVE  Frame
      BY <3>3 DEF DeletePage, DeleteLog, Ready
    <3> QED BY <3>1, <3>2, <3>3
  <2> QED BY <2>1 DEF RunningActive, Positions
<1>2. Idle' /\ Positions' /\ Counted' /\ Undone'
  BY <1>1 DEF Idle, Positions, Counted, Undone
(* The log stays, or gets a record of a running transaction.               *)
<1>3. \/ log' = log
      \/ \E r \in LogRecord : log' = Append(log, r) /\ r.xid \in running /\ r.bytes = "all"
  <2>1. ASSUME NEW x \in Xid, NEW p \in PageNo, InsertLog(x, p)
        PROVE  \E r \in LogRecord : log' = Append(log, r) /\ r.xid \in running /\ r.bytes = "all"
    <3>1. p \in 1 .. Len(file) /\ FSO(p) + 1 \in Slot
      BY <2>1, NextPlaceIsSlot DEF InsertLog
    <3>2. /\ InsertRecord(x, p) \in LogRecord
          /\ InsertRecord(x, p).xid = x /\ InsertRecord(x, p).bytes = "all"
      BY <3>1, InsertRecordType
    <3>3. log' = Append(log, InsertRecord(x, p)) /\ x \in running
      BY <2>1 DEF InsertLog, Ready
    <3> QED BY <3>2, <3>3
  <2>2. ASSUME NEW x \in Xid, DeleteLog(x)
        PROVE  \E r \in LogRecord : log' = Append(log, r) /\ r.xid \in running /\ r.bytes = "all"
    <3>1. x \in DOMAIN op /\ log' = Append(log, op[x])
      BY <2>2 DEF DeleteLog
    <3>2. op[x] \in LogRecord /\ op[x].xid \in running /\ op[x].bytes = "all"
      BY <3>1, Shapes DEF RunningActive
    <3> QED BY <3>1, <3>2
  <2> QED BY <2>1, <2>2 DEF NewPage, InsertPage, DeletePage, Evict
<1>4. Recorded' /\ Decided'
  <2>1. CASE log' = log
    BY <1>1, <2>1 DEF Recorded, Decided
  <2>2. ASSUME NEW r \in LogRecord, log' = Append(log, r), r.xid \in running, r.bytes = "all"
        PROVE  Recorded' /\ Decided'
    <3>1. /\ Len(log') = Len(log) + 1 /\ log'[Len(log) + 1] = r
          /\ \A n \in 1 .. Len(log) : log'[n] = log[n]
      BY <2>2, Shapes
    <3>2. ASSUME NEW n \in 1 .. Len(log')
          PROVE  n \in 1 .. Len(log) \/ (n = Len(log) + 1 /\ log'[n] = r)
      BY <3>1, Shapes
    <3>3. Recorded'
      BY <1>1, <2>2, <3>1, <3>2 DEF Recorded
    <3>4. Decided'
      BY <1>1, <2>2, <3>1, <3>2 DEF Decided
    <3> QED BY <3>3, <3>4
  <2> QED BY <1>3, <2>1, <2>2
<1>5. RunningActive'
  <2>1. ASSUME NEW x \in DOMAIN op'
        PROVE  op'[x].bytes = "all"
    <3>1. ASSUME NEW y \in Xid, NEW p \in PageNo, InsertLog(y, p)
          PROVE  op'[x].bytes = "all"
      BY <3>1, <2>1 DEF InsertLog, Put, InsertRecord, Record, RunningActive
    <3>2. ASSUME NEW y \in Xid, NEW p \in 1 .. Len(file), NEW s \in Slot, DeletePage(y, p, s)
          PROVE  op'[x].bytes = "all"
      BY <3>2, <2>1 DEF DeletePage, Put, Record, RunningActive
    <3>3. ASSUME NEW y \in Xid, InsertPage(y) \/ DeleteLog(y)
          PROVE  op'[x].bytes = "all"
      BY <3>3, <2>1 DEF InsertPage, DeleteLog, Without, RunningActive
    <3>4. CASE op' = op
      BY <3>4, <2>1 DEF RunningActive
    <3> QED BY <3>1, <3>2, <3>3, <3>4 DEF NewPage, Evict
  <2> QED BY <1>1, <2>1 DEF RunningActive
<1> QED BY <1>2, <1>4, <1>5

LEMMA ControlRestart ==
  ASSUME TypeOK, Control, Close \/ Crash \/ Open \/ OpenFails \/ Opened
  PROVE  Control'
<1> USE DEF disk, recovery, ghost, Control
<1>1. CASE Close
  <2>1. /\ mode = "up" /\ running = {} /\ vc' = "closed" /\ mode' = "down"
        /\ running' = {} /\ mem' = <<>> /\ op' = <<>> /\ undoing' = 0
        /\ UNCHANGED <<header, status, log>>
    BY <1>1 DEF Close, Forget
  <2> QED BY <2>1 DEF Idle, Positions, Counted, RunningActive, Undone, Recorded, Decided
<1>2. CASE Crash
  <2>1. /\ mode' = "down" /\ running' = {} /\ mem' = <<>> /\ op' = <<>> /\ undoing' = 0
        /\ UNCHANGED <<header, status, vc>>
    BY <1>2 DEF Crash, Forget
  <2>2. Idle' /\ Positions' /\ Counted' /\ RunningActive' /\ Undone'
    BY <2>1 DEF Idle, Positions, Counted, RunningActive, Undone
  <2>3. CASE log' = log
    BY <2>1, <2>2, <2>3, <1>2, Shapes DEF Crash, Recorded, Decided, Idle, RunningActive
  <2>4. ASSUME NEW b \in {"head", "part"}, log' = Append(log, Torn(b)), mode = "up", running # {}
        PROVE  Control'
    <3>1. vc = "open" /\ 1 \in 1 .. header
      <4>1. PICK x \in running : x \in 1 .. header
        BY <2>4 DEF RunningActive
      <4> QED BY <2>4, <4>1, Shapes DEF Decided
    <3>2. /\ Len(log') = Len(log) + 1 /\ log'[Len(log) + 1] = Torn(b)
          /\ \A n \in 1 .. Len(log) : log'[n] = log[n]
      BY <2>4, Shapes, TornType
    <3>3. Torn(b).xid = 1
      BY TornType
    <3>4. ASSUME NEW n \in 1 .. Len(log')
          PROVE  n \in 1 .. Len(log) \/ (n = Len(log) + 1 /\ log'[n] = Torn(b))
      BY <3>2, Shapes
    <3>5. Recorded'
      BY <2>1, <3>1, <3>2, <3>3, <3>4 DEF Recorded
    <3>6. Decided'
      BY <2>1, <3>1 DEF Decided
    <3> QED BY <2>2, <3>5, <3>6
  <2> QED BY <1>2, <2>3, <2>4 DEF Crash
<1>3. CASE Open
  <2>1. /\ mode = "down" /\ counter' = header /\ log' = Readable(log)
        /\ mode' \in {"ready", "failed", "truncate"}
        /\ mode' = "ready" <=> vc = "closed"
        /\ UNCHANGED <<header, status, vc, running, mem, op, at, undoing>>
    BY <1>3 DEF Open, TypeOK
  <2>2. /\ Len(log') <= Len(log)
        /\ \A n \in 1 .. Len(log') : log'[n] = log[n] /\ log[n].bytes = "all"
        /\ Len(log') \in Nat /\ Len(log) \in Nat
    <3>1. log \in Seq(LogRecord)
      BY Shapes
    <3>2. Readable(log) \in Seq(LogRecord)
      BY <3>1, ReadableIsPrefix
    <3> QED BY <2>1, <3>1, <3>2, ReadableIsPrefix
  <2>3. running = {} /\ undoing = 0 /\ mem = <<>>
    BY <2>1 DEF Idle, Positions
  <2>4. Idle' /\ Positions' /\ Counted' /\ RunningActive' /\ Undone'
    BY <2>1, <2>3 DEF Idle, Positions, Counted, RunningActive, Undone
  <2>5. Recorded'
    BY <2>1, <2>2 DEF Recorded
  <2>6. mode' \in {"truncate", "redo", "undo"} => vc' = "open"
    BY <2>1 DEF TypeOK
  <2>7. Decided'
    BY <2>1, <2>2, <2>6 DEF Decided
  <2> QED BY <2>4, <2>5, <2>7
<1>4. CASE OpenFails
  <2>1. /\ mode' = "down" /\ running' = {} /\ mem' = <<>> /\ op' = <<>> /\ undoing' = 0
        /\ mode = "failed" /\ UNCHANGED <<header, status, vc, log>>
    BY <1>4 DEF OpenFails, Forget
  <2> QED BY <2>1 DEF Idle, Positions, Counted, RunningActive, Undone, Recorded, Decided
<1>5. CASE Opened
  <2>1. /\ mode = "ready" /\ mode' = "up" /\ vc' = "open"
        /\ UNCHANGED <<header, status, log, counter, running, mem, op, at, undoing>>
    BY <1>5 DEF Opened
  <2> QED BY <2>1 DEF Idle, Positions, Counted, RunningActive, Undone, Recorded, Decided
<1> QED BY <1>1, <1>2, <1>3, <1>4, <1>5

LEMMA ControlRecovery ==
  ASSUME TypeOK, Control, Recovering
  PROVE  Control'
<1> USE DEF disk, recovery, ghost, Control
<1>1. /\ mode \in {"truncate", "redo", "undo"} /\ vc = "open" /\ counter = header
      /\ running = {} /\ mem = <<>>
      /\ UNCHANGED <<header, log, vc, counter, running, mem, op>>
  <2>1. /\ mode \in {"truncate", "redo", "undo"}
        /\ UNCHANGED <<header, log, vc, counter, running, mem, op>>
    BY DEF Recovering, RecTruncate, Redo, RedoEnds, UndoBegins, Undo, UndoEnds, RecDone
  <2> QED BY <2>1 DEF Decided, Counted, Idle
<1>2. Records = log /\ Records' = log
  BY <1>1, WholeIsRead DEF Recorded, Records
<1>3. mode' \in {"truncate", "redo", "undo", "ready"}
  BY <1>1 DEF Recovering, RecTruncate, Redo, RedoEnds, UndoBegins, Undo, UndoEnds, RecDone
<1>4. Idle' /\ Recorded'
  BY <1>1 DEF Idle, Recorded
<1>5. CASE UndoEnds
  <2>1. undoing \in 1 .. header /\ undoing' = 0 /\ mode' = mode
    BY <1>5 DEF UndoEnds, Undone
  <2>2. undoing \in 1 .. Len(status)
    BY <2>1, Shapes DEF Counted
  <2>3. Len(status') = Len(status) /\ \A x \in 1 .. Len(status) : x # undoing => status'[x] = status[x]
    BY <1>5, <2>2, Shapes DEF UndoEnds
  <2>4. Positions' /\ Undone' /\ RunningActive'
    BY <1>1, <1>5, <2>1 DEF UndoEnds, Positions, Undone, RunningActive
  <2>5. Counted'
    <3>1. Len(status) = header + 1 => header + 1 # undoing
      BY <2>1, Shapes
    <3> QED BY <1>1, <2>1, <2>3, <3>1, Shapes DEF Counted
  <2>6. Decided'
    BY <1>1, <1>5, <2>1 DEF UndoEnds, Decided
  <2> QED BY <1>4, <2>4, <2>5, <2>6
<1>6. CASE RecTruncate \/ Redo \/ RedoEnds \/ (\E x \in Xid : UndoBegins(x)) \/ Undo
  <2>1. status' = status /\ mode' \in {"truncate", "redo", "undo"}
    BY <1>6 DEF RecTruncate, Redo, RedoEnds, UndoBegins, Undo
  <2>2. Counted' /\ RunningActive' /\ Decided'
    BY <1>1, <2>1 DEF Counted, RunningActive, Decided
  <2>3. Positions'
    <3>1. CASE RecTruncate
      BY <3>1 DEF RecTruncate, Positions
    <3>2. CASE Redo
      BY <3>2, Shapes DEF Redo, Positions
    <3>3. CASE RedoEnds
      BY <3>3 DEF RedoEnds, Positions
    <3>4. ASSUME NEW x \in Xid, UndoBegins(x)
          PROVE  Positions'
      BY <3>4, <1>2, Shapes DEF UndoBegins, Positions
    <3>5. CASE Undo
      <4>1. /\ mode = "undo" /\ mode' = "undo" /\ undoing' = undoing
            /\ at' = at - 1 /\ at > 0 /\ at <= Len(log)
        BY <1>2, <3>5 DEF Undo, Positions
      <4>2. at' <= Len(log)
        BY <4>1, Shapes
      <4> QED BY <1>2, <4>1, <4>2 DEF Positions
    <3> QED BY <1>6, <3>1, <3>2, <3>3, <3>4, <3>5
  <2>4. Undone'
    <3>1. CASE UNCHANGED undoing
      BY <1>1, <2>1, <3>1 DEF Undone
    <3>2. ASSUME NEW x \in Xid, UndoBegins(x)
          PROVE  Undone'
      <4>1. undoing' = x /\ x \in ToUndo
        BY <3>2 DEF UndoBegins
      <4>2. x \in 1 .. header /\ status[x] = "active"
        BY <1>2, <4>1 DEF ToUndo, Recorded
      <4> QED BY <1>1, <2>1, <4>1, <4>2 DEF Undone
    <3> QED BY <1>6, <3>1, <3>2 DEF RecTruncate, Redo, RedoEnds, Undo
  <2> QED BY <1>4, <2>2, <2>3, <2>4
<1>7. CASE RecDone
  <2>1. undoing = 0 /\ ToUndo = {} /\ mode' = "ready" /\ UNCHANGED <<status, at, undoing>>
    BY <1>7 DEF RecDone
  <2>2. \A n \in 1 .. Len(log) : status[log[n].xid] # "active"
    BY <1>2, <2>1 DEF ToUndo
  <2> QED BY <1>1, <1>4, <2>1, <2>2 DEF Positions, Counted, RunningActive, Undone, Decided
<1> QED BY <1>5, <1>6, <1>7 DEF Recovering

----------------------------------------------------------------------------
(* The theorems.                                                           *)

Inv == TypeOK /\ Control

LEMMA InvInductive == Inv /\ [Next]_vars => Inv'
<1> SUFFICES ASSUME Inv, [Next]_vars PROVE Inv'
  OBVIOUS
<1>0. TypeOK /\ Control /\ Idle /\ Positions
  BY DEF Inv, Control
<1>1. CASE BeginStatus \/ BeginCounter \/ (\E x \in Xid : Commit(x) \/ Abort(x))
  BY <1>0, <1>1, TypeTransaction, ControlTransaction DEF Inv
<1>2. CASE \/ NewPage
           \/ \E x \in Xid :
                \/ \E p \in PageNo : InsertLog(x, p)
                \/ InsertPage(x)
                \/ \E p \in 1 .. Len(file), s \in Slot : DeletePage(x, p, s)
                \/ DeleteLog(x)
           \/ \E p \in PageNo : Evict(p)
  BY <1>0, <1>2, TypeRows, ControlRows DEF Inv
<1>3. CASE Close \/ Crash \/ Open \/ OpenFails \/ Opened
  BY <1>0, <1>3, TypeRestart, ControlRestart DEF Inv
<1>4. CASE Recovering
  BY <1>0, <1>4, TypeRecovery, ControlRecovery DEF Inv
<1>5. CASE UNCHANGED vars
  BY <1>0, <1>5 DEF Inv, vars, disk, recovery, ghost, Control, TypeOK, Idle, Positions, Counted,
                    RunningActive, Undone, Recorded, Decided, Records, IsMap
<1> QED BY <1>1, <1>2, <1>3, <1>4, <1>5 DEF Next

LEMMA InvAlways == Spec => []Inv
<1>1. Init => Inv
  BY TypeInit, ControlInit DEF Inv
<1> QED BY <1>1, InvInductive, PTL DEF Spec

(* Every variable stays within its type, over every crash and restart: in  *)
(* particular recovery reads no record, page or status byte that is not    *)
(* there (Recover.java, TransactionManagerImpl.java).                      *)
THEOREM TypesHold == Spec => []TypeOK
<1>1. Inv => TypeOK
  BY DEF Inv
<1> QED BY <1>1, InvAlways, PTL

(* What a step leaves of a fate.                                           *)
LEMMA FateStep ==
  ASSUME Inv, Next, NEW x \in 1 .. Len(status), status[x] # "active"
  PROVE  x \in 1 .. Len(status') /\ status'[x] = status[x]
<1>0. TypeOK /\ Positions /\ Counted /\ RunningActive /\ Undone
  BY DEF Inv, Control
<1>1. CASE status' = status
  BY <1>1
<1>2. CASE BeginStatus
  <2>1. counter = header /\ (Len(status) > counter => status[counter + 1] # "active")
    BY <1>0, <1>2 DEF BeginStatus, Counted
  <2>2. Len(status) = counter
    BY <1>0, <2>1, Shapes DEF Counted
  <2>3. status' = Append(status, "active")
    BY <1>2, <2>2 DEF BeginStatus
  <2> QED BY <1>0, <2>3, Shapes
<1>3. ASSUME NEW y \in Xid, Commit(y) \/ Abort(y)
      PROVE  x \in 1 .. Len(status') /\ status'[x] = status[x]
  <2>1. PICK b \in {"committed", "aborted"} : status' = [status EXCEPT ![y] = b]
    BY <1>3 DEF Commit, Abort
  <2>2. status[y] = "active"
    BY <1>0, <1>3 DEF Commit, Abort, RunningActive
  <2> QED BY <1>0, <2>1, <2>2, Shapes
<1>4. CASE UndoEnds
  <2>1. status' = [status EXCEPT ![undoing] = "aborted"] /\ status[undoing] = "active"
    BY <1>0, <1>4 DEF UndoEnds, Undone
  <2> QED BY <1>0, <2>1, Shapes
<1>5. ASSUME NEW y \in Xid,
             \/ \E p \in PageNo : InsertLog(y, p)
             \/ InsertPage(y)
             \/ \E p \in 1 .. Len(file), s \in Slot : DeletePage(y, p, s)
             \/ DeleteLog(y)
      PROVE  status' = status
  BY <1>5 DEF InsertLog, InsertPage, DeletePage, DeleteLog, disk
<1>6. CASE \/ BeginCounter \/ NewPage \/ (\E p \in PageNo : Evict(p))
           \/ Close \/ Crash \/ Open \/ OpenFails \/ Opened
  <2>1. status' = status
    BY <1>6 DEF BeginCounter, NewPage, Evict, Close, Crash, Open, OpenFails, Opened, disk
  <2> QED BY <1>1, <2>1
<1>7. CASE RecTruncate \/ Redo \/ RedoEnds \/ (\E y \in Xid : UndoBegins(y)) \/ Undo \/ RecDone
  <2>1. status' = status
    BY <1>7 DEF RecTruncate, Redo, RedoEnds, UndoBegins, Undo, RecDone, disk
  <2> QED BY <1>1, <2>1
<1> QED BY <1>1, <1>2, <1>3, <1>4, <1>5, <1>6, <1>7 DEF Next, Recovering

(* A status byte that says committed or aborted is never written again,    *)
(* neither by a transaction that takes a number nor by recovery            *)
(* (TransactionManagerImpl.java:118, Recover.java:139).                    *)
THEOREM FateStays == Spec => FateIsFinal
<1>1. Inv /\ [Next]_vars =>
        [\A x \in 1 .. Len(status) :
           status[x] # "active" => x \in 1 .. Len(status') /\ status'[x] = status[x]]_vars
  BY FateStep
<1> QED BY <1>1, InvAlways, PTL DEF Spec, FateIsFinal

(* When the database is open, every record of the log is of a transaction  *)
(* that runs or that was decided: recovery, however often it was cut off,  *)
(* has left none of the transactions before it active (Recover.java:128).  *)
THEOREM NoneStaysActive == Spec => []NoneLeftActive
<1>1. Inv => NoneLeftActive
  <2> SUFFICES ASSUME Inv, mode = "up"
               PROVE  \A n \in 1 .. Len(Records) :
                        Records[n].xid \in running \/ status[Records[n].xid] # "active"
    BY DEF NoneLeftActive
  <2>1. Recorded /\ Decided
    BY DEF Inv, Control
  <2>2. Records = log
    BY <2>1, WholeIsRead DEF Recorded, Records
  <2> QED BY <2>1, <2>2 DEF Decided
<1> QED BY <1>1, InvAlways, PTL

----------------------------------------------------------------------------
(* What is in the data file is in the log: an insert is logged before its  *)
(* item is on the page, and a page that shows a deletion not yet logged is *)
(* in use until it is, so that it is not written.  Recovery writes only    *)
(* images from the log, and those hold only what was logged before them.   *)

(* A whole record of the log speaks of what x did to the row.              *)
Speaks(r, x, p, s) == r.bytes = "all" /\ r.xid = x /\ r.page = p /\ r.slot = s
Logged(x, p, s) == \E n \in 1 .. Len(log) : Speaks(log[n], x, p, s)
RowLogged(e, p, s) == Logged(e.xmin, p, s) /\ (e.xmax # SuperXid => Logged(e.xmax, p, s))

(* In memory a deletion may wait for its record.                           *)
Under(x, p, s) == Logged(x, p, s) \/ (x \in DOMAIN op /\ op[x].page = p /\ op[x].slot = s)
RowUnder(e, p, s) == Logged(e.xmin, p, s) /\ (e.xmax # SuperXid => Under(e.xmax, p, s))

TornLast == \A n \in 1 .. Len(log) : n < Len(log) => log[n].bytes = "all"

FileLogged == \A p \in 1 .. Len(file) : \A s \in DOMAIN file[p] : RowLogged(file[p][s], p, s)

ImagesLogged == \A n \in 1 .. Len(log) : log[n].bytes = "all" =>
  RowLogged(log[n].old, log[n].page, log[n].slot) /\ RowLogged(log[n].new, log[n].page, log[n].slot)

MemLogged == \A p \in DOMAIN mem : \A s \in DOMAIN mem[p] : RowUnder(mem[p][s], p, s)

(* The call in progress: what it found was logged, and what it writes is,  *)
(* but for the mark of its own deletion.                                   *)
CallLogged(x, r) ==
  /\ RowLogged(r.old, r.page, r.slot)
  /\ Logged(r.new.xmin, r.page, r.slot)
  /\ r.new.xmax \in {SuperXid, x}
  /\ r.insert => r.new.xmax = SuperXid /\ Logged(x, r.page, r.slot)
CallsLogged == \A x \in DOMAIN op : CallLogged(x, op[x])

AllLogged == TornLast /\ FileLogged /\ ImagesLogged /\ MemLogged /\ CallsLogged

LEMMA AllLoggedInit == Init => AllLogged
BY DEF Init, AllLogged, TornLast, FileLogged, ImagesLogged, MemLogged, CallsLogged

----------------------------------------------------------------------------
(* What is logged stays logged.                                            *)

Kept == \A x, p, s : Logged(x, p, s) => Logged(x, p, s)'

LEMMA AppendKeeps ==
  ASSUME TypeOK, NEW r \in LogRecord, log' = Append(log, r)
  PROVE  /\ Kept
         /\ Len(log') = Len(log) + 1 /\ log'[Len(log) + 1] = r
         /\ \A n \in 1 .. Len(log) : log'[n] = log[n]
         /\ \A n \in 1 .. Len(log') : n \in 1 .. Len(log) \/ n = Len(log) + 1
         /\ r.bytes = "all" => Logged(r.xid, r.page, r.slot)'
<1>1. /\ Len(log') = Len(log) + 1 /\ log'[Len(log) + 1] = r /\ Len(log) \in Nat
      /\ \A n \in 1 .. Len(log) : log'[n] = log[n]
  BY Shapes
<1>2. \A n \in 1 .. Len(log) : n \in 1 .. Len(log')
  BY <1>1
<1>3. Kept
  BY <1>1, <1>2 DEF Kept, Logged
<1>4. r.bytes = "all" => Logged(r.xid, r.page, r.slot)'
  <2>1. Len(log) + 1 \in 1 .. Len(log')
    BY <1>1
  <2> QED BY <1>1, <2>1 DEF Logged, Speaks
<1>5. \A n \in 1 .. Len(log') : n \in 1 .. Len(log) \/ n = Len(log) + 1
  BY <1>1
<1> QED BY <1>1, <1>3, <1>4, <1>5

LEMMA SameKeeps ==
  ASSUME log' = log
  PROVE  Kept
BY DEF Kept, Logged

(* Removing a torn tail loses nothing that was logged.                     *)
LEMMA ReadKeeps ==
  ASSUME TypeOK, TornLast, log' = Readable(log)
  PROVE  /\ Kept /\ Len(log') <= Len(log) /\ Len(log') \in Nat
         /\ \A n \in 1 .. Len(log') : n \in 1 .. Len(log) /\ log'[n] = log[n] /\ log[n].bytes = "all"
<1>1. log \in Seq(LogRecord)
  BY Shapes
<1>2. /\ Readable(log) \in Seq(LogRecord) /\ Len(Readable(log)) <= Len(log)
      /\ \A n \in 1 .. Len(Readable(log)) : Readable(log)[n] = log[n] /\ log[n].bytes = "all"
      /\ \A n \in 1 .. Len(log) : log[n].bytes = "all" => n <= Len(Readable(log))
  BY <1>1, ReadableIsPrefix DEF TornLast
<1>3. Len(log') \in Nat /\ Len(log) \in Nat
  BY <1>1, <1>2
<1>4. Kept
  <2> SUFFICES ASSUME NEW x, NEW p, NEW s, NEW n \in 1 .. Len(log), Speaks(log[n], x, p, s)
               PROVE  Logged(x, p, s)'
    BY DEF Kept, Logged
  <2>1. n \in 1 .. Len(log') /\ log'[n] = log[n]
    BY <1>2, <1>3 DEF Speaks
  <2> QED BY <2>1 DEF Logged
<1> QED BY <1>2, <1>3, <1>4

(* With the log kept, rows and images stay logged.                         *)
LEMMA RowsKept ==
  ASSUME Kept, NEW e, NEW p, NEW s, RowLogged(e, p, s)
  PROVE  Logged(e.xmin, p, s)' /\ (e.xmax # SuperXid => Logged(e.xmax, p, s)')
BY DEF Kept, RowLogged

LEMMA FileKept ==
  ASSUME Kept, FileLogged, UNCHANGED file
  PROVE  FileLogged'
BY DEF Kept, FileLogged, RowLogged

LEMMA ImagesKept ==
  ASSUME Kept, ImagesLogged, UNCHANGED log
  PROVE  ImagesLogged'
BY DEF ImagesLogged, RowLogged, Logged

LEMMA ImagesAppended ==
  ASSUME TypeOK, ImagesLogged, NEW r \in LogRecord, log' = Append(log, r),
         r.bytes = "all" => \A e \in {r.old, r.new} :
           /\ Logged(e.xmin, r.page, r.slot)'
           /\ e.xmax # SuperXid => Logged(e.xmax, r.page, r.slot)'
  PROVE  ImagesLogged'
<1>0. Kept
  BY AppendKeeps
<1> SUFFICES ASSUME NEW n \in 1 .. Len(log'), log'[n].bytes = "all"
             PROVE  (RowLogged(log[n].old, log[n].page, log[n].slot)
                     /\ RowLogged(log[n].new, log[n].page, log[n].slot))'
  BY DEF ImagesLogged
<1>1. CASE n \in 1 .. Len(log)
  <2>1. log'[n] = log[n]
    BY <1>1, AppendKeeps
  <2> QED BY <1>0, <1>1, <2>1 DEF ImagesLogged, RowLogged, Kept
<1>2. CASE n = Len(log) + 1
  <2>1. log'[n] = r
    BY <1>2, AppendKeeps
  <2> QED BY <2>1 DEF RowLogged
<1> QED BY <1>1, <1>2, AppendKeeps

(* What View shows of a page.                                              *)
LEMMA ViewIsUnder ==
  ASSUME AllLogged, NEW p \in 1 .. Len(file), NEW s \in DOMAIN View(p)
  PROVE  RowUnder(View(p)[s], p, s)
<1>1. CASE p \in DOMAIN mem
  BY <1>1 DEF View, AllLogged, MemLogged
<1>2. CASE p \notin DOMAIN mem
  BY <1>2 DEF View, AllLogged, FileLogged, RowUnder, RowLogged, Under
<1> QED BY <1>1, <1>2

----------------------------------------------------------------------------
(* Calls on rows and pages.                                                *)

LEMMA LoggedInsertLog ==
  ASSUME Inv, AllLogged, NEW x \in Xid, NEW p \in PageNo, InsertLog(x, p)
  PROVE  AllLogged'
<1>0. TypeOK /\ Recorded
  BY DEF Inv, Control
<1>1. PICK r \in LogRecord :
        /\ r = InsertRecord(x, p)
        /\ r.xid = x /\ r.page = p /\ r.bytes = "all" /\ r.insert
        /\ r.old.xmin = x /\ r.old.xmax = SuperXid /\ r.new.xmin = x /\ r.new.xmax = SuperXid
  <2>1. p \in 1 .. Len(file) /\ FSO(p) + 1 \in Slot
    BY <1>0, NextPlaceIsSlot DEF InsertLog
  <2>2. InsertRecord(x, p) \in LogRecord
    BY <2>1, InsertRecordType
  <2> QED BY <2>2 DEF InsertRecord, Record, Item
<1>2. /\ log' = Append(log, r) /\ op' = Put(op, x, r) /\ x \notin DOMAIN op /\ mode = "up"
      /\ UNCHANGED <<file, mem>>
  BY <1>1 DEF InsertLog, Ready, disk
<1>3. Kept /\ Logged(x, p, r.slot)'
  BY <1>0, <1>1, <1>2, AppendKeeps
<1>4. TornLast'
  BY <1>0, <1>1, <1>2, AppendKeeps, Shapes DEF Recorded, TornLast
<1>5. ImagesLogged'
  <2>1. \A e \in {r.old, r.new} : e.xmin = x /\ e.xmax = SuperXid
    BY <1>1
  <2>2. \A e \in {r.old, r.new} :
           /\ Logged(e.xmin, r.page, r.slot)'
           /\ e.xmax # SuperXid => Logged(e.xmax, r.page, r.slot)'
    BY <1>1, <1>3, <2>1
  <2> QED BY <1>0, <1>1, <1>2, <2>2, ImagesAppended DEF AllLogged
<1>6. FileLogged'
  BY <1>2, <1>3, FileKept DEF AllLogged
<1>7. \A y \in DOMAIN op : y \in DOMAIN op' /\ op'[y] = op[y]
  BY <1>2 DEF Put
<1>8. MemLogged'
  BY <1>2, <1>3, <1>7 DEF AllLogged, MemLogged, RowUnder, Under, Kept
<1>9. CallsLogged'
  <2> SUFFICES ASSUME NEW y \in DOMAIN op' PROVE CallLogged(y, op[y])'
    BY DEF CallsLogged
  <2>1. CASE y = x
    <3>1. op'[y] = r
      BY <1>2, <2>1 DEF Put
    <3> QED BY <1>1, <1>3, <2>1, <3>1 DEF CallLogged, RowLogged
  <2>2. CASE y # x
    <3>1. y \in DOMAIN op /\ op'[y] = op[y]
      BY <1>2, <2>2 DEF Put
    <3> QED BY <1>3, <3>1 DEF AllLogged, CallsLogged, CallLogged, RowLogged, Kept
  <2> QED BY <2>1, <2>2
<1> QED BY <1>4, <1>5, <1>6, <1>8, <1>9 DEF AllLogged

LEMMA LoggedInsertPage ==
  ASSUME Inv, AllLogged, NEW x \in Xid, InsertPage(x)
  PROVE  AllLogged'
<1>0. TypeOK
  BY DEF Inv
<1> PICK r : r = op[x]
  OBVIOUS
<1>1. /\ x \in DOMAIN op /\ r.insert /\ mem' = Put(mem, r.page, Put(View(r.page), r.slot, r.new))
      /\ op' = Without(op, x) /\ UNCHANGED <<log, file>>
  BY DEF InsertPage, disk
<1>2. /\ r.page \in 1 .. Len(file) /\ Logged(x, r.page, r.slot)
      /\ Logged(r.new.xmin, r.page, r.slot) /\ r.new.xmax = SuperXid
  <2>1. r \in LogRecord /\ r.page <= Len(file)
    BY <1>0, <1>1 DEF TypeOK, IsMap
  <2>2. r.page \in 1 .. Len(file)
    BY <2>1, <1>0, BoundsAreNumbers DEF LogRecord, PageNo, TypeOK
  <2> QED BY <1>1, <2>2 DEF AllLogged, CallsLogged, CallLogged
<1>3. Kept
  BY <1>1, SameKeeps
<1>4. TornLast' /\ ImagesLogged' /\ FileLogged'
  BY <1>1, <1>3, ImagesKept, FileKept DEF AllLogged, TornLast
<1>5. ASSUME NEW y, NEW p, NEW s, Under(y, p, s)
      PROVE  Under(y, p, s)'
  <2>1. CASE Logged(y, p, s)
    BY <1>3, <2>1 DEF Kept, Under
  <2>2. CASE y = x /\ r.page = p /\ r.slot = s
    BY <1>2, <1>3, <2>2 DEF Kept, Under
  <2>3. CASE y \in DOMAIN op /\ y # x /\ op[y].page = p /\ op[y].slot = s
    <3>1. y \in DOMAIN op' /\ op'[y] = op[y]
      BY <1>1, <2>3 DEF Without
    <3> QED BY <2>3, <3>1 DEF Under
  <2> QED BY <1>5, <2>1, <2>2, <2>3 DEF Under
<1>6. ASSUME NEW e, NEW p, NEW s, RowUnder(e, p, s)
      PROVE  RowUnder(e, p, s)'
  BY <1>3, <1>5, <1>6 DEF RowUnder, Kept
<1>7. MemLogged'
  <2> SUFFICES ASSUME NEW p \in DOMAIN mem', NEW s \in DOMAIN mem'[p]
               PROVE  RowUnder(mem[p][s], p, s)'
    BY DEF MemLogged
  <2>1. CASE p # r.page
    <3>1. p \in DOMAIN mem /\ mem'[p] = mem[p]
      BY <1>1, <2>1 DEF Put
    <3> QED BY <1>6, <3>1 DEF AllLogged, MemLogged
  <2>2. CASE p = r.page
    <3>1. mem'[p] = Put(View(p), r.slot, r.new)
      BY <1>1, <2>2 DEF Put
    <3>2. CASE s = r.slot
      <4>1. mem'[p][s] = r.new
        BY <3>1, <3>2 DEF Put
      <4> QED BY <1>2, <1>3, <2>2, <3>2, <4>1 DEF RowUnder, Kept
    <3>3. CASE s # r.slot
      <4>1. s \in DOMAIN View(p) /\ mem'[p][s] = View(p)[s]
        BY <3>1, <3>3 DEF Put
      <4>2. RowUnder(View(p)[s], p, s)
        BY <1>2, <2>2, <4>1, ViewIsUnder
      <4> QED BY <1>6, <4>1, <4>2
    <3> QED BY <3>2, <3>3
  <2> QED BY <2>1, <2>2
<1>8. CallsLogged'
  <2>1. \A y \in DOMAIN op' : y \in DOMAIN op /\ op'[y] = op[y]
    BY <1>1 DEF Without
  <2> QED BY <1>3, <2>1 DEF AllLogged, CallsLogged, CallLogged, RowLogged, Kept
<1> QED BY <1>4, <1>7, <1>8 DEF AllLogged

LEMMA LoggedDeletePage ==
  ASSUME Inv, AllLogged, NEW x \in Xid, NEW p \in 1 .. Len(file), NEW s \in Slot, DeletePage(x, p, s)
  PROVE  AllLogged'
<1>0. TypeOK
  BY DEF Inv
<1>1. PICK old : old = View(p)[s]
  OBVIOUS
<1>2. PICK new : new = [old EXCEPT !.xmax = x]
  OBVIOUS
<1>3. /\ s \in DOMAIN View(p) /\ old.xmax \notin running /\ x \in running \ DOMAIN op
      /\ mem' = Put(mem, p, Put(View(p), s, new))
      /\ op' = Put(op, x, Record(x, p, s, old, new, FALSE))
      /\ UNCHANGED <<log, file>>
  BY <1>1, <1>2 DEF DeletePage, Deletable, Ready, disk
<1>4. old \in Row /\ new.xmin = old.xmin /\ new.xmax = x
  <2>1. old \in Row
    BY <1>0, <1>1, <1>3, ViewIsPage, PageIsMap
  <2> QED BY <1>2, <2>1 DEF Row
<1>5. Kept
  BY <1>3, SameKeeps
(* The deletion before, if there was one, is not in progress.              *)
<1>6. RowLogged(old, p, s)
  <2>1. RowUnder(old, p, s)
    BY <1>1, <1>3, ViewIsUnder
  <2>2. DOMAIN op \subseteq running
    BY <1>0, Shapes
  <2> QED BY <1>3, <2>1, <2>2 DEF RowUnder, RowLogged, Under
<1>7. TornLast' /\ ImagesLogged' /\ FileLogged'
  BY <1>3, <1>5, ImagesKept, FileKept DEF AllLogged, TornLast
<1>8. PICK r : r = Record(x, p, s, old, new, FALSE)
  OBVIOUS
<1>9. r.old = old /\ r.new = new /\ r.page = p /\ r.slot = s /\ ~r.insert
  BY <1>8 DEF Record
<1>10. /\ \A y \in DOMAIN op : y \in DOMAIN op' /\ op'[y] = op[y]
       /\ \A y \in DOMAIN op' : (y \in DOMAIN op /\ op'[y] = op[y]) \/ (y = x /\ op'[y] = r)
       /\ x \in DOMAIN op' /\ op'[x] = r
  BY <1>3, <1>8 DEF Put
<1>11. ASSUME NEW e, NEW q, NEW t, RowUnder(e, q, t)
       PROVE  RowUnder(e, q, t)'
  BY <1>5, <1>10, <1>11 DEF RowUnder, Under, Kept
<1>12. MemLogged'
  <2> SUFFICES ASSUME NEW q \in DOMAIN mem', NEW t \in DOMAIN mem'[q]
               PROVE  RowUnder(mem[q][t], q, t)'
    BY DEF MemLogged
  <2>1. CASE q # p
    <3>1. q \in DOMAIN mem /\ mem'[q] = mem[q]
      BY <1>3, <2>1 DEF Put
    <3> QED BY <1>11, <3>1 DEF AllLogged, MemLogged
  <2>2. CASE q = p
    <3>1. mem'[q] = Put(View(p), s, new)
      BY <1>3, <2>2 DEF Put
    <3>2. CASE t = s
      <4>1. mem'[q][t] = new
        BY <3>1, <3>2 DEF Put
      <4>2. Logged(new.xmin, p, s)'
        BY <1>4, <1>5, <1>6 DEF RowLogged, Kept
      <4>3. Under(new.xmax, p, s)'
        BY <1>4, <1>9, <1>10 DEF Under
      <4> QED BY <2>2, <3>2, <4>1, <4>2, <4>3 DEF RowUnder
    <3>3. CASE t # s
      <4>1. t \in DOMAIN View(p) /\ mem'[q][t] = View(p)[t]
        BY <3>1, <3>3 DEF Put
      <4>2. RowUnder(View(p)[t], p, t)
        BY <4>1, ViewIsUnder
      <4> QED BY <1>11, <2>2, <4>1, <4>2
    <3> QED BY <3>2, <3>3
  <2> QED BY <2>1, <2>2
<1>13. CallsLogged'
  <2> SUFFICES ASSUME NEW y \in DOMAIN op' PROVE CallLogged(y, op[y])'
    BY DEF CallsLogged
  <2>1. CASE y \in DOMAIN op /\ op'[y] = op[y]
    BY <1>5, <2>1 DEF AllLogged, CallsLogged, CallLogged, RowLogged, Kept
  <2>2. CASE y = x /\ op'[y] = r
    BY <1>4, <1>5, <1>6, <1>9, <2>2 DEF CallLogged, RowLogged, Kept
  <2> QED BY <1>10, <2>1, <2>2
<1> QED BY <1>7, <1>12, <1>13 DEF AllLogged

LEMMA LoggedDeleteLog ==
  ASSUME Inv, AllLogged, NEW x \in Xid, DeleteLog(x)
  PROVE  AllLogged'
<1>0. TypeOK /\ Recorded /\ RunningActive
  BY DEF Inv, Control
<1>1. PICK r : r = op[x]
  OBVIOUS
<1>2. /\ x \in DOMAIN op /\ log' = Append(log, r) /\ op' = Without(op, x) /\ mode = "up"
      /\ UNCHANGED <<file, mem>>
  BY <1>1 DEF DeleteLog, disk
<1>3. r \in LogRecord /\ r.xid = x /\ r.bytes = "all" /\ CallLogged(x, r)
  BY <1>0, <1>1, <1>2, Shapes DEF RunningActive, AllLogged, CallsLogged
<1>4. Kept /\ Logged(x, r.page, r.slot)'
  BY <1>0, <1>2, <1>3, AppendKeeps
<1>5. TornLast'
  BY <1>0, <1>2, <1>3, AppendKeeps, Shapes DEF Recorded, TornLast
<1>6. ImagesLogged'
  <2>1. /\ Logged(r.old.xmin, r.page, r.slot)'
        /\ r.old.xmax # SuperXid => Logged(r.old.xmax, r.page, r.slot)'
        /\ Logged(r.new.xmin, r.page, r.slot)'
        /\ r.new.xmax # SuperXid => Logged(r.new.xmax, r.page, r.slot)'
    BY <1>3, <1>4 DEF CallLogged, RowLogged, Kept
  <2>2. \A e \in {r.old, r.new} :
           /\ Logged(e.xmin, r.page, r.slot)'
           /\ e.xmax # SuperXid => Logged(e.xmax, r.page, r.slot)'
    BY <2>1
  <2> QED BY <1>0, <1>2, <1>3, <2>2, ImagesAppended DEF AllLogged
<1>7. FileLogged'
  BY <1>2, <1>4, FileKept DEF AllLogged
<1>8. ASSUME NEW y, NEW p, NEW s, Under(y, p, s)
      PROVE  Under(y, p, s)'
  <2>1. CASE Logged(y, p, s)
    BY <1>4, <2>1 DEF Kept, Under
  <2>2. CASE y = x /\ r.page = p /\ r.slot = s
    BY <1>4, <2>2 DEF Under
  <2>3. CASE y \in DOMAIN op /\ y # x /\ op[y].page = p /\ op[y].slot = s
    <3>1. y \in DOMAIN op' /\ op'[y] = op[y]
      BY <1>2, <2>3 DEF Without
    <3> QED BY <2>3, <3>1 DEF Under
  <2> QED BY <1>1, <1>8, <2>1, <2>2, <2>3 DEF Under
<1>9. MemLogged'
  BY <1>2, <1>4, <1>8 DEF AllLogged, MemLogged, RowUnder, Kept
<1>10. CallsLogged'
  <2>1. \A y \in DOMAIN op' : y \in DOMAIN op /\ op'[y] = op[y]
    BY <1>2 DEF Without
  <2> QED BY <1>4, <2>1 DEF AllLogged, CallsLogged, CallLogged, RowLogged, Kept
<1> QED BY <1>5, <1>6, <1>7, <1>9, <1>10 DEF AllLogged

(* No call uses the page, so none of its deletions waits for its record.   *)
LEMMA LoggedEvict ==
  ASSUME Inv, AllLogged, NEW p \in PageNo, Evict(p)
  PROVE  AllLogged'
<1>0. TypeOK
  BY DEF Inv
<1>1. /\ p \in DOMAIN mem /\ \A x \in DOMAIN op : op[x].page # p
      /\ file' = [file EXCEPT ![p] = mem[p]] /\ mem' = Without(mem, p)
      /\ UNCHANGED <<log, op>>
  BY DEF Evict
<1>2. Kept
  BY <1>1, SameKeeps
<1>3. Len(file') = Len(file) /\ \A q \in 1 .. Len(file) : file'[q] = IF q = p THEN mem[p] ELSE file[q]
  BY <1>0, <1>1 DEF TypeOK
<1>4. FileLogged'
  <2> SUFFICES ASSUME NEW q \in 1 .. Len(file), NEW s \in DOMAIN file'[q]
               PROVE  RowLogged(file[q][s], q, s)'
    BY <1>3 DEF FileLogged
  <2>1. CASE q = p
    <3>1. file'[q] = mem[p] /\ RowUnder(mem[p][s], p, s)
      BY <1>1, <1>3, <2>1 DEF AllLogged, MemLogged
    <3> QED BY <1>1, <1>2, <2>1, <3>1 DEF RowUnder, Under, RowLogged, Kept
  <2>2. CASE q # p
    <3>1. file'[q] = file[q] /\ RowLogged(file[q][s], q, s)
      BY <1>3, <2>2 DEF AllLogged, FileLogged
    <3> QED BY <1>2, <3>1 DEF RowLogged, Kept
  <2> QED BY <2>1, <2>2
<1>5. MemLogged'
  BY <1>1, <1>2 DEF AllLogged, MemLogged, RowUnder, Under, Kept, Without
<1>6. TornLast' /\ ImagesLogged' /\ CallsLogged'
  BY <1>1, <1>2, ImagesKept DEF AllLogged, TornLast, CallsLogged, CallLogged, RowLogged, Kept
<1> QED BY <1>4, <1>5, <1>6 DEF AllLogged

LEMMA LoggedNewPage ==
  ASSUME Inv, AllLogged, NewPage
  PROVE  AllLogged'
<1>1. file' = Append(file, <<>>) /\ UNCHANGED <<log, op, mem>>
  BY DEF NewPage
<1>2. Kept
  BY <1>1, SameKeeps
<1>3. /\ \A q \in 1 .. Len(file) : file'[q] = file[q]
      /\ \A q \in 1 .. Len(file') : q \in 1 .. Len(file) \/ file'[q] = <<>>
  BY <1>1 DEF Inv, TypeOK
<1>4. FileLogged'
  <2> SUFFICES ASSUME NEW q \in 1 .. Len(file'), NEW s \in DOMAIN file'[q]
               PROVE  RowLogged(file[q][s], q, s)'
    BY DEF FileLogged
  <2>1. q \in 1 .. Len(file) /\ file'[q] = file[q]
    BY <1>3
  <2> QED BY <1>2, <2>1 DEF AllLogged, FileLogged, RowLogged, Kept
<1>5. MemLogged'
  BY <1>1, <1>2 DEF AllLogged, MemLogged, RowUnder, Under, Kept
<1>6. TornLast' /\ ImagesLogged' /\ CallsLogged'
  BY <1>1, <1>2, ImagesKept DEF AllLogged, TornLast, CallsLogged, CallLogged, RowLogged, Kept
<1> QED BY <1>4, <1>5, <1>6 DEF AllLogged

----------------------------------------------------------------------------
(* The end of a process, and the start of the next one.                    *)

(* What is in memory is forgotten.                                         *)
LEMMA LoggedForget ==
  ASSUME Kept, AllLogged, Forget, UNCHANGED file
  PROVE  FileLogged' /\ MemLogged' /\ CallsLogged'
<1>1. mem' = <<>> /\ op' = <<>>
  BY DEF Forget
<1> QED BY <1>1, FileKept DEF AllLogged, MemLogged, CallsLogged

LEMMA LoggedRestart ==
  ASSUME Inv, AllLogged, Close \/ Crash \/ Open \/ OpenFails
  PROVE  AllLogged'
<1>0. TypeOK /\ Recorded
  BY DEF Inv, Control
<1>1. CASE log' = log /\ Forget /\ UNCHANGED file
  <2>1. Kept
    BY <1>1, SameKeeps
  <2> QED BY <1>1, <2>1, LoggedForget, ImagesKept DEF AllLogged, TornLast
<1>2. ASSUME NEW b \in {"head", "part"}, log' = Append(log, Torn(b)), mode = "up", Forget, UNCHANGED file
      PROVE  AllLogged'
  <2>1. PICK r \in LogRecord : r = Torn(b) /\ r.bytes # "all"
    BY TornType
  <2>2. Kept
    BY <1>0, <1>2, <2>1, AppendKeeps
  <2>3. TornLast'
    BY <1>0, <1>2, <2>1, AppendKeeps, Shapes DEF Recorded, TornLast
  <2>4. ImagesLogged'
    BY <1>0, <1>2, <2>1, ImagesAppended DEF AllLogged
  <2> QED BY <1>2, <2>2, <2>3, <2>4, LoggedForget DEF AllLogged
<1>3. CASE Open
  <2>1. log' = Readable(log) /\ UNCHANGED <<file, mem, op>>
    BY <1>3 DEF Open
  <2>2. /\ Kept /\ Len(log') <= Len(log) /\ Len(log') \in Nat
        /\ \A n \in 1 .. Len(log') : n \in 1 .. Len(log) /\ log'[n] = log[n] /\ log[n].bytes = "all"
    BY <1>0, <2>1, ReadKeeps DEF AllLogged
  <2>3. TornLast'
    BY <2>2 DEF TornLast
  <2>4. ImagesLogged'
    BY <2>2 DEF AllLogged, ImagesLogged, RowLogged, Kept
  <2>5. FileLogged'
    BY <2>1, <2>2, FileKept DEF AllLogged
  <2>6. MemLogged' /\ CallsLogged'
    BY <2>1, <2>2 DEF AllLogged, MemLogged, RowUnder, Under, CallsLogged, CallLogged, RowLogged, Kept
  <2> QED BY <2>3, <2>4, <2>5, <2>6 DEF AllLogged
<1> QED BY <1>1, <1>2, <1>3 DEF Close, Crash, OpenFails, disk

(* Recovery writes images from the log.                                    *)
LEMMA LoggedRestore ==
  ASSUME Inv, AllLogged, UNCHANGED <<log, mem, op>>, NEW n \in 1 .. Len(log), log[n].bytes = "all",
         NEW image \in {log[n].old, log[n].new}, Restore(log[n], image)
  PROVE  FileLogged'
<1>1. PICK r : r = log[n]
  OBVIOUS
<1>2. RowLogged(image, r.page, r.slot) /\ Kept
  BY <1>1, SameKeeps DEF AllLogged, ImagesLogged
<1>3. /\ Len(file') = Len(file)
      /\ \A p \in 1 .. Len(file) :
           file'[p] = IF p = r.page THEN Put(file[p], r.slot, image) ELSE file[p]
  BY <1>1 DEF Restore, Inv, TypeOK
<1> SUFFICES ASSUME NEW p \in 1 .. Len(file), NEW s \in DOMAIN file'[p]
             PROVE  RowLogged(file[p][s], p, s)'
  BY <1>3 DEF FileLogged
<1>4. CASE p = r.page /\ s = r.slot
  <2>1. file'[p][s] = image
    BY <1>3, <1>4 DEF Put
  <2> QED BY <1>2, <1>4, <2>1 DEF RowLogged, Kept
<1>5. CASE ~(p = r.page /\ s = r.slot)
  <2>1. s \in DOMAIN file[p] /\ file'[p][s] = file[p][s]
    <3>1. CASE p # r.page
      BY <1>3, <3>1
    <3>2. CASE p = r.page
      <4>1. file'[p] = Put(file[p], r.slot, image) /\ s # r.slot
        BY <1>3, <1>5, <3>2
      <4>2. s \in DOMAIN Put(file[p], r.slot, image)
        BY <4>1
      <4> QED BY <4>1, <4>2 DEF Put
    <3> QED BY <3>1, <3>2
  <2>2. RowLogged(file[p][s], p, s)
    BY <2>1 DEF AllLogged, FileLogged
  <2> QED BY <1>2, <2>1, <2>2 DEF RowLogged, Kept
<1> QED BY <1>4, <1>5

LEMMA LoggedRecovery ==
  ASSUME Inv, AllLogged, Recovering
  PROVE  AllLogged'
<1>0. TypeOK /\ Recorded /\ Positions
  BY DEF Inv, Control
<1>1. UNCHANGED <<log, mem, op>> /\ mode # "down"
  BY DEF Recovering, RecTruncate, Redo, RedoEnds, UndoBegins, Undo, UndoEnds, RecDone, disk
<1>2. Kept /\ Records = log
  BY <1>0, <1>1, SameKeeps, WholeIsRead DEF Recorded, Records
<1>3. TornLast' /\ ImagesLogged' /\ MemLogged' /\ CallsLogged'
  BY <1>1, <1>2, ImagesKept
     DEF AllLogged, TornLast, MemLogged, RowUnder, Under, CallsLogged, CallLogged, RowLogged, Kept
<1>4. FileLogged'
  <2>1. CASE file' = file
    BY <1>2, <2>1, FileKept DEF AllLogged
  <2>2. CASE RecTruncate
    <3>1. file' = [p \in 1 .. LastPage |-> IF p \in DOMAIN file THEN file[p] ELSE <<>>]
      BY <2>2 DEF RecTruncate
    <3>2. LastPage \in Nat /\ DOMAIN file = 1 .. Len(file)
      BY <1>0, LastPageIsNumber DEF TypeOK
    <3>3. Len(file') = LastPage
      BY <3>1, <3>2
    <3> SUFFICES ASSUME NEW p \in 1 .. LastPage, NEW s \in DOMAIN file'[p]
                 PROVE  RowLogged(file[p][s], p, s)'
      BY <3>3 DEF FileLogged
    <3>4. p \in 1 .. Len(file) /\ file'[p] = file[p]
      BY <3>1, <3>2
    <3> QED BY <1>2, <3>4 DEF AllLogged, FileLogged, RowLogged, Kept
  <2>3. CASE Redo /\ Restore(Records[at], Records[at].new)
    <3>1. at \in 1 .. Len(log)
      BY <1>0, <1>2, <2>3, Shapes DEF Redo, Positions
    <3>2. log[at].bytes = "all"
      BY <1>0, <1>1, <3>1 DEF Recorded
    <3> QED BY <1>1, <1>2, <2>3, <3>1, <3>2, LoggedRestore
  <2>4. CASE Undo /\ Restore(Records[at], Records[at].old)
    <3>1. at \in 1 .. Len(log)
      BY <1>0, <1>2, <2>4, Shapes DEF Undo, Positions
    <3>2. log[at].bytes = "all"
      BY <1>0, <1>1, <3>1 DEF Recorded
    <3> QED BY <1>1, <1>2, <2>4, <3>1, <3>2, LoggedRestore
  <2> QED BY <2>1, <2>2, <2>3, <2>4
          DEF Recovering, Redo, RedoEnds, UndoBegins, Undo, UndoEnds, RecDone, disk
<1> QED BY <1>3, <1>4 DEF AllLogged

(* Steps that touch neither the log nor rows.                              *)
LEMMA LoggedUnchanged ==
  ASSUME AllLogged, UNCHANGED <<log, file, mem, op>>
  PROVE  AllLogged'
<1>1. Kept
  BY SameKeeps
<1> QED BY <1>1, ImagesKept, FileKept
        DEF AllLogged, TornLast, MemLogged, RowUnder, Under, CallsLogged, CallLogged, RowLogged, Kept

----------------------------------------------------------------------------
LEMMA AllLoggedInductive == Inv /\ AllLogged /\ [Next]_vars => AllLogged'
<1> SUFFICES ASSUME Inv, AllLogged, [Next]_vars PROVE AllLogged'
  OBVIOUS
<1>1. CASE UNCHANGED <<log, file, mem, op>>
  BY <1>1, LoggedUnchanged
<1>2. CASE NewPage \/ Close \/ Crash \/ Open \/ OpenFails \/ Recovering
  BY <1>2, LoggedNewPage, LoggedRestart, LoggedRecovery
<1>3. ASSUME NEW x \in Xid, (\E p \in PageNo : InsertLog(x, p)) \/ InsertPage(x) \/ DeleteLog(x)
      PROVE  AllLogged'
  BY <1>3, LoggedInsertLog, LoggedInsertPage, LoggedDeleteLog
<1>4. ASSUME NEW x \in Xid, NEW p \in 1 .. Len(file), NEW s \in Slot, DeletePage(x, p, s)
      PROVE  AllLogged'
  BY <1>4, LoggedDeletePage
<1>5. ASSUME NEW p \in PageNo, Evict(p)
      PROVE  AllLogged'
  BY <1>5, LoggedEvict
<1>6. BeginStatus \/ BeginCounter \/ Opened \/ (\E x \in Xid : Commit(x) \/ Abort(x)) \/ UNCHANGED vars
        => UNCHANGED <<log, file, mem, op>>
  BY DEF BeginStatus, BeginCounter, Opened, Commit, Abort, vars, disk
<1> QED BY <1>1, <1>2, <1>3, <1>4, <1>5, <1>6 DEF Next

(* Whenever the database is open, every row version and every deletion in  *)
(* the data file has its record in the log, however many crashes there     *)
(* were and wherever they fell: what did not commit can be taken back      *)
(* (DataManagerImpl.java:73, DataItemImpl.java:66).                        *)
THEOREM LogGoesAhead == Spec => []WriteAhead
<1>1. Inv /\ AllLogged => WriteAhead
  <2> SUFFICES ASSUME Inv, AllLogged, mode = "up",
                      NEW p \in 1 .. Len(file), NEW s \in DOMAIN file[p]
               PROVE  LET e == file[p][s]
                          OnRecord(x) == \E n \in 1 .. Len(Records) :
                            Records[n].xid = x /\ Records[n].page = p /\ Records[n].slot = s
                      IN  OnRecord(e.xmin) /\ (e.xmax # SuperXid => OnRecord(e.xmax))
    BY DEF WriteAhead
  <2>1. Records = log
    BY WholeIsRead DEF Inv, Control, Recorded, Records
  <2>2. RowLogged(file[p][s], p, s)
    BY DEF AllLogged, FileLogged
  <2> QED BY <2>1, <2>2 DEF RowLogged, Logged, Speaks
<1>2. Init => Inv /\ AllLogged
  BY TypeInit, ControlInit, AllLoggedInit DEF Inv
<1> QED BY <1>1, <1>2, InvInductive, AllLoggedInductive, PTL DEF Spec

----------------------------------------------------------------------------
(***************************************************************************)
(* What the open database shows is what was committed.  Two accounts of    *)
(* the rows are kept apart: the log and the status bytes say which rows    *)
(* committed transactions have left, and that is what was promised; the    *)
(* pages say which rows are shown.  A page agrees with the log while the   *)
(* database is open, and recovery makes it agree again, whatever part of   *)
(* the pages, of an earlier recovery too, had reached the file.            *)
(***************************************************************************)

(* The records a reader of the log gets, and who is past an ending.        *)
Whole == {n \in 1 .. Len(log) : log[n].bytes = "all"}
Aborted(x) == x \in 1 .. Len(status) /\ status[x] = "aborted"
Committed(x) == x \in 1 .. Len(status) /\ status[x] = "committed"

Beside(r, t) == r.page = t.page /\ r.slot = t.slot
At(r, p, s) == r.page = p /\ r.slot = s
Inserted(x, p, s) == \E n \in Whole : log[n].insert /\ log[n].xid = x /\ At(log[n], p, s)
Deleted(x, p, s) == \E n \in Whole : ~log[n].insert /\ log[n].xid = x /\ At(log[n], p, s)
Touched(p, s) == \E n \in Whole : At(log[n], p, s)

----------------------------------------------------------------------------
(* What the log says.                                                      *)

(* The images of a record.  A deletion finds a row that is committed, or   *)
(* its own, and that nobody has deleted but transactions that aborted.     *)
InsertImages(r) == r.old = [Item(r.xid) EXCEPT !.valid = FALSE] /\ r.new = Item(r.xid)
DeleteImages(r) ==
  /\ r.old.valid /\ r.new = [r.old EXCEPT !.xmax = r.xid]
  /\ Inserted(r.old.xmin, r.page, r.slot)
  /\ r.old.xmin = r.xid \/ Committed(r.old.xmin)
  /\ r.old.xmax = SuperXid \/ Aborted(r.old.xmax)
Images(r) == (r.insert => InsertImages(r)) /\ (~r.insert => DeleteImages(r))

WholeRecords == {log[n] : n \in Whole}
ImagesRight == \A r \in WholeRecords : Images(r)

(* A place is given out once, and a deletion is followed by another only   *)
(* when it was aborted.                                                    *)
InTurn == \A m, n \in Whole : m < n /\ Beside(log[m], log[n]) =>
  ~log[n].insert /\ (log[m].insert \/ Aborted(log[m].xid))

(* The row is there and nobody has deleted it, as far as is committed.     *)
Left(p, s) ==
  /\ \E x \in Xid : Inserted(x, p, s) /\ Committed(x)
  /\ \A x \in Xid : Deleted(x, p, s) => ~Committed(x)

PromisedLeft == \A p \in PageNo, s \in Slot : <<p, s>> \in promised <=> Left(p, s)

LogRight == ImagesRight /\ InTurn /\ PromisedLeft

----------------------------------------------------------------------------
(* What the calls in progress and the pages say while the database is open.*)

Calling(x, p, s) == x \in DOMAIN op /\ At(op[x], p, s)
Inserting(x, p, s) == Calling(x, p, s) /\ op[x].insert
Deleting(x, p, s) == Calling(x, p, s) /\ ~op[x].insert

WorkLogged == \A x \in running : \A p \in PageNo, s \in Slot :
  /\ <<p, s>> \in work[x].ins <=> Inserted(x, p, s) /\ ~Inserting(x, p, s)
  /\ <<p, s>> \in work[x].del <=> Deleted(x, p, s)

(* An insert in progress has the place to itself; a deletion in progress   *)
(* has its mark on the page and is the first that may last.                *)
InsertOpen(r) ==
  /\ r.slot \notin DOMAIN View(r.page)
  /\ \E n \in Whole : log[n] = r
  /\ \A n \in Whole : Beside(log[n], r) => log[n] = r
DeleteOpen(r) ==
  /\ DeleteImages(r)
  /\ r.slot \in DOMAIN View(r.page) /\ View(r.page)[r.slot].xmax = r.xid
  /\ \A x \in Xid : Deleted(x, r.page, r.slot) => Aborted(x)
CallOpen(r) == (r.insert => InsertOpen(r)) /\ (~r.insert => DeleteOpen(r))
Calls == {op[x] : x \in DOMAIN op}
CallsOpen == \A r \in Calls : CallOpen(r)

(* A version on a page shows the insert and the deletion that the log says *)
(* may have been committed.                                                *)
Fits(e, p, s) ==
  /\ Inserted(e.xmin, p, s)
  /\ e.valid \/ Aborted(e.xmin)
  /\ e.xmax # SuperXid => Deleted(e.xmax, p, s) \/ Deleting(e.xmax, p, s) \/ Aborted(e.xmax)
  /\ \A x \in Xid : Deleted(x, p, s) => x = e.xmax \/ Aborted(x)
Shows(p, s, e) == p \in 1 .. Len(file) /\ s \in DOMAIN View(p) /\ View(p)[s] = e
Settled(p, s) == \E e \in Row : Shows(p, s, e) /\ Fits(e, p, s)

AllAtRest == \A p \in PageNo, s \in Slot :
  Touched(p, s) => (\E x \in Xid : Inserting(x, p, s)) \/ Settled(p, s)
RowsSettled == mode \in {"up", "ready"} \/ vc = "closed" => AllAtRest

----------------------------------------------------------------------------
(* How far recovery has come.                                              *)

PagesThere == mode \in {"redo", "undo"} => \A n \in Whole : log[n].page \in 1 .. Len(file)

Holds(p, s, e) == s \in DOMAIN file[p] /\ file[p][s] = e

(* Each place has the last image that redo has come by.                    *)
Redone == mode = "redo" => \A n \in Whole :
  /\ n < at /\ status[log[n].xid] # "active"
  /\ \A m \in Whole : n < m /\ m < at /\ Beside(log[m], log[n]) => status[log[m].xid] = "active"
  => Holds(log[n].page, log[n].slot, log[n].new)

(* Places no active transaction wrote to are settled by redo, and stay so. *)
Calm(p, s) == \A n \in Whole : At(log[n], p, s) => status[log[n].xid] # "active"
CalmSettled == mode = "undo" =>
  \A p \in PageNo, s \in Slot : Touched(p, s) /\ Calm(p, s) => Settled(p, s)

(* The others get back what the transaction that is undone first found.    *)
TakenBack == mode = "undo" /\ undoing # 0 => \A n \in at + 1 .. Len(log) :
  /\ log[n].xid = undoing
  /\ \A m \in at + 1 .. n - 1 : Beside(log[m], log[n]) => log[m].xid # undoing
  => Holds(log[n].page, log[n].slot, log[n].old)

Restored == PagesThere /\ Redone /\ CalmSettled /\ TakenBack

Agreed == LogRight /\ WorkLogged /\ CallsOpen /\ RowsSettled /\ Restored

LEMMA AgreedInit == Init => Agreed
BY DEF Init, Agreed, LogRight, ImagesRight, InTurn, PromisedLeft, Left, Inserted, Deleted, Touched, Whole,
       WholeRecords, WorkLogged, CallsOpen, Calls, RowsSettled, AllAtRest, Restored, PagesThere, Redone, CalmSettled, TakenBack

----------------------------------------------------------------------------
(* How the log grows.                                                      *)

LEMMA RecordFacts ==
  ASSUME Inv, NEW n \in Whole
  PROVE  /\ n \in 1 .. Len(log) /\ n \in Nat /\ log[n].bytes = "all"
         /\ log[n] \in LogRecord /\ log[n].xid \in 1 .. Len(status)
         /\ log[n].xid \in 1 .. header /\ log[n].xid \in Xid /\ log[n].page \in PageNo /\ log[n].slot \in Slot
         /\ log[n].old \in Row /\ log[n].new \in Row
<1>1. n \in 1 .. Len(log) /\ log \in Seq(LogRecord) /\ log[n].bytes = "all"
  BY Shapes DEF Whole, Inv
<1>2. log[n].xid \in 1 .. header /\ header \in Nat /\ Len(status) \in {header, header + 1}
  BY <1>1, Shapes DEF Inv, Control, Recorded, Counted
<1>3. log[n] \in LogRecord
  BY <1>1
<1> QED BY <1>1, <1>2, <1>3 DEF LogRecord

LEMMA FateOfRecord ==
  ASSUME Inv, NEW x \in 1 .. Len(status)
  PROVE  /\ status[x] # "active" => Aborted(x) \/ Committed(x)
         /\ status[x] = "active" => ~Aborted(x) /\ ~Committed(x)
         /\ ~(Aborted(x) /\ Committed(x))
BY Shapes DEF Inv, Aborted, Committed

LEMMA RunningIsActive ==
  ASSUME Inv, NEW x \in running
  PROVE  status[x] = "active" /\ ~Aborted(x) /\ ~Committed(x) /\ x \in 1 .. Len(status) /\ x \in Xid /\ x # 0
<1>1. status[x] = "active" /\ x \in 1 .. header
  BY DEF Inv, Control, RunningActive
<1>2. x \in 1 .. Len(status)
  BY <1>1, Shapes DEF Inv, Control, Counted
<1>3. x \in Xid
  BY DEF Inv, TypeOK
<1> QED BY <1>1, <1>2, <1>3 DEF Aborted, Committed

(* What has ended stays so, and in the way it ended.                       *)
FatesKept == \A x : (Aborted(x) => Aborted(x)') /\ (Committed(x) => Committed(x)')

LEMMA FatesStay ==
  ASSUME Inv, Next
  PROVE  FatesKept
BY FateStep DEF FatesKept, Aborted, Committed

LEMMA FatesUnchanged ==
  ASSUME status' = status
  PROVE  /\ FatesKept
         /\ \A x : (Aborted(x)' <=> Aborted(x)) /\ (Committed(x)' <=> Committed(x))
BY DEF FatesKept, Aborted, Committed

SameLog == Whole' = Whole /\ \A n \in Whole : log'[n] = log[n]

LEMMA SameLogSays ==
  ASSUME SameLog
  PROVE  /\ \A x, p, s : (Inserted(x, p, s)' <=> Inserted(x, p, s)) /\ (Deleted(x, p, s)' <=> Deleted(x, p, s))
         /\ \A p, s : Touched(p, s)' <=> Touched(p, s)
BY DEF SameLog, Inserted, Deleted, Touched

LEMMA LogUnchanged ==
  ASSUME log' = log
  PROVE  SameLog
BY DEF SameLog, Whole

LEMMA TailIsNotRead ==
  ASSUME Inv, AllLogged,
         log' = Readable(log) \/ \E b \in {"head", "part"} : log' = Append(log, Torn(b))
  PROVE  SameLog
<1>0. TypeOK /\ TornLast
  BY DEF Inv, AllLogged
<1>1. CASE log' = Readable(log)
  <2>1. log \in Seq(LogRecord)
    BY <1>0, Shapes
  <2>2. /\ Len(Readable(log)) <= Len(log) /\ Len(Readable(log)) \in Nat
        /\ \A n \in 1 .. Len(Readable(log)) : Readable(log)[n] = log[n] /\ log[n].bytes = "all"
        /\ \A n \in 1 .. Len(log) : log[n].bytes = "all" => n <= Len(Readable(log))
    BY <1>0, <2>1, ReadableIsPrefix DEF TornLast
  <2>3. Len(log) \in Nat
    BY <2>1
  <2>4. \A n \in 1 .. Len(log) : n \in Whole => n \in 1 .. Len(log') /\ log'[n] = log[n]
    BY <1>1, <2>2, <2>3 DEF Whole
  <2>5. \A n \in 1 .. Len(log') : n \in Whole
    BY <1>1, <2>2, <2>3 DEF Whole
  <2>6. \A n \in Whole : n \in 1 .. Len(log) /\ log[n].bytes = "all"
    BY DEF Whole
  <2>7. Whole' = {n \in 1 .. Len(log') : log'[n].bytes = "all"}
    BY DEF Whole
  <2> QED BY <2>4, <2>5, <2>6, <2>7 DEF SameLog
<1>2. ASSUME NEW b \in {"head", "part"}, log' = Append(log, Torn(b))
      PROVE  SameLog
  <2>1. PICK r \in LogRecord : r = Torn(b) /\ r.bytes # "all"
    BY TornType
  <2>2. /\ Len(log') = Len(log) + 1 /\ log'[Len(log) + 1] = r /\ Len(log) \in Nat
        /\ \A n \in 1 .. Len(log) : log'[n] = log[n]
        /\ \A n \in 1 .. Len(log') : n \in 1 .. Len(log) \/ n = Len(log) + 1
    BY <1>0, <1>2, <2>1, AppendKeeps, Shapes
  <2>3. 1 .. Len(log) \subseteq 1 .. Len(log')
    BY <2>2
  <2>4. Whole' = {n \in 1 .. Len(log') : log'[n].bytes = "all"}
    BY DEF Whole
  <2> QED BY <2>1, <2>2, <2>3, <2>4 DEF SameLog, Whole
<1> QED BY <1>1, <1>2

Added(r) ==
  /\ Whole' = Whole \cup {Len(log) + 1} /\ log'[Len(log) + 1] = r
  /\ \A n \in Whole : log'[n] = log[n] /\ n < Len(log) + 1

LEMMA AppendAdds ==
  ASSUME Inv, NEW r \in LogRecord, r.bytes = "all", log' = Append(log, r)
  PROVE  Added(r)
<1>1. /\ Len(log') = Len(log) + 1 /\ log'[Len(log) + 1] = r /\ Len(log) \in Nat
      /\ \A n \in 1 .. Len(log) : log'[n] = log[n]
      /\ \A n \in 1 .. Len(log') : n \in 1 .. Len(log) \/ n = Len(log) + 1
  BY AppendKeeps, Shapes DEF Inv
<1>2. 1 .. Len(log) \subseteq 1 .. Len(log') /\ Len(log) + 1 \in 1 .. Len(log')
  BY <1>1
<1>3. Whole' = {n \in 1 .. Len(log') : log'[n].bytes = "all"}
  BY DEF Whole
<1>4. Whole' = Whole \cup {Len(log) + 1}
  BY <1>1, <1>2, <1>3 DEF Whole
<1> QED BY <1>1, <1>4 DEF Added, Whole

LEMMA AddedSays ==
  ASSUME NEW r, Added(r)
  PROVE  /\ \A x, p, s : Inserted(x, p, s)' <=> Inserted(x, p, s) \/ (r.insert /\ r.xid = x /\ At(r, p, s))
         /\ \A x, p, s : Deleted(x, p, s)' <=> Deleted(x, p, s) \/ (~r.insert /\ r.xid = x /\ At(r, p, s))
         /\ \A p, s : Touched(p, s)' <=> Touched(p, s) \/ At(r, p, s)
BY DEF Added, Inserted, Deleted, Touched

(* The log never forgets.                                                  *)
SaysMore == \A x, p, s :
  (Inserted(x, p, s) => Inserted(x, p, s)') /\ (Deleted(x, p, s) => Deleted(x, p, s)')

LEMMA LogSaysMore ==
  ASSUME SameLog \/ \E r : Added(r)
  PROVE  SaysMore
<1>1. CASE SameLog
  BY <1>1, SameLogSays DEF SaysMore
<1>2. ASSUME NEW r, Added(r)
      PROVE  SaysMore
  BY <1>2, AddedSays DEF SaysMore
<1> QED BY <1>1, <1>2

LEMMA ImagesStay ==
  ASSUME SaysMore, FatesKept, NEW r, Images(r)
  PROVE  Images(r)'
BY DEF SaysMore, FatesKept, Images, InsertImages, DeleteImages

----------------------------------------------------------------------------
(* The log stays right.                                                    *)

SameCommits == \A x \in Xid : Committed(x)' <=> Committed(x)

LEMMA LogRightKept ==
  ASSUME SameLog, FatesKept, SameCommits, LogRight, promised' = promised
  PROVE  LogRight'
<1>1. SaysMore
  BY LogSaysMore
<1>2. ImagesRight'
  <2> SUFFICES ASSUME NEW r \in WholeRecords' PROVE Images(r)'
    BY DEF ImagesRight
  <2>1. Images(r)
    BY DEF SameLog, LogRight, ImagesRight, WholeRecords
  <2> QED BY <1>1, <2>1, ImagesStay
<1>3. InTurn'
  BY DEF SameLog, LogRight, InTurn, FatesKept, Beside
<1>4. PromisedLeft'
  BY SameLogSays DEF SameCommits, LogRight, PromisedLeft, Left
<1> QED BY <1>2, <1>3, <1>4 DEF LogRight

(* A record of a transaction that has not committed.                       *)
LEMMA LogRightAdded ==
  ASSUME FatesKept, SameCommits, LogRight, promised' = promised,
         NEW r \in LogRecord, Added(r), Images(r)', ~Committed(r.xid),
         \A n \in Whole : Beside(log[n], r) => ~r.insert /\ (log[n].insert \/ Aborted(log[n].xid))
  PROVE  LogRight'
<1>1. SaysMore
  BY LogSaysMore
<1>2. ImagesRight'
  <2> SUFFICES ASSUME NEW t \in WholeRecords', t # r PROVE Images(t)'
    BY DEF ImagesRight
  <2>1. Images(t)
    BY DEF Added, LogRight, ImagesRight, WholeRecords
  <2> QED BY <1>1, <2>1, ImagesStay
<1>3. InTurn'
  <2> SUFFICES ASSUME NEW m \in Whole', NEW n \in Whole', m < n, Beside(log'[m], log'[n])
               PROVE  (~log[n].insert /\ (log[m].insert \/ Aborted(log[m].xid)))'
    BY DEF InTurn, Beside
  <2>0. Len(log) + 1 \notin Whole /\ \A k \in Whole : k \in Nat /\ Len(log) + 1 \in Nat
    BY DEF Added, Whole
  <2>1. CASE n \in Whole
    <3>1. m \in Whole
      BY <2>0, <2>1 DEF Added
    <3> QED BY <2>1, <3>1 DEF Added, LogRight, InTurn, FatesKept
  <2>2. CASE n = Len(log) + 1
    <3>1. m \in Whole
      BY <2>2 DEF Added, Whole
    <3> QED BY <2>2, <3>1 DEF Added, FatesKept
  <2> QED BY <2>1, <2>2 DEF Added
<1>4. PromisedLeft'
  <2>1. r.xid \in Xid
    BY DEF LogRecord
  <2>2. \A x \in Xid : \A p, s : Committed(x) => (Inserted(x, p, s)' <=> Inserted(x, p, s))
                                              /\ (Deleted(x, p, s)' <=> Deleted(x, p, s))
    BY AddedSays
  <2> QED BY <2>2 DEF SameCommits, LogRight, PromisedLeft, Left
<1> QED BY <1>2, <1>3, <1>4 DEF LogRight

(* Who deleted a row before the transaction that inserted it committed was *)
(* that transaction.                                                       *)
LEMMA OneInsert ==
  ASSUME Inv, LogRight, NEW m \in Whole, NEW n \in Whole, Beside(log[m], log[n]), log[m].insert, log[n].insert
  PROVE  m = n
BY RecordFacts DEF LogRight, InTurn, Beside

LEMMA WhoDeletes ==
  ASSUME Inv, LogRight, NEW x, NEW y, NEW p, NEW s, Inserted(x, p, s), Deleted(y, p, s)
  PROVE  x = y \/ Committed(x)
<1>1. PICK m \in Whole : log[m].insert /\ log[m].xid = x /\ At(log[m], p, s)
  BY DEF Inserted
<1>2. PICK n \in Whole : ~log[n].insert /\ log[n].xid = y /\ At(log[n], p, s)
  BY DEF Deleted
<1>3. DeleteImages(log[n])
  BY <1>2 DEF LogRight, ImagesRight, WholeRecords, Images
<1>4. PICK k \in Whole : log[k].insert /\ log[k].xid = log[n].old.xmin /\ At(log[k], p, s)
  BY <1>2, <1>3 DEF DeleteImages, Inserted, At
<1>5. k = m
  BY <1>1, <1>4, OneInsert DEF Beside, At
<1> QED BY <1>1, <1>2, <1>3, <1>4, <1>5 DEF DeleteImages

LEMMA SayersKnown ==
  ASSUME Inv, NEW x, NEW p, NEW s, Inserted(x, p, s) \/ Deleted(x, p, s)
  PROVE  x \in Xid /\ x \in 1 .. Len(status) /\ x \in 1 .. header /\ p \in PageNo /\ s \in Slot /\ Touched(p, s)
BY RecordFacts DEF Inserted, Deleted, Touched, At

----------------------------------------------------------------------------
(* Rows and calls that a step does not touch.                              *)

LEMMA FitsStill ==
  ASSUME SaysMore, FatesKept, NEW e, NEW p, NEW s, Fits(e, p, s),
         \A x \in Xid : Deleted(x, p, s)' => Deleted(x, p, s) \/ x = e.xmax,
         Deleting(e.xmax, p, s) => Deleting(e.xmax, p, s)' \/ Deleted(e.xmax, p, s)'
  PROVE  Fits(e, p, s)'
BY DEF SaysMore, FatesKept, Fits

SameView == \A p \in 1 .. Len(file) : p \in 1 .. Len(file') /\ View(p)' = View(p)

SameRow(p, s) ==
  /\ s \in DOMAIN View(p)' <=> s \in DOMAIN View(p)
  /\ s \in DOMAIN View(p) => View(p)'[s] = View(p)[s]

(* No new record of the place.                                             *)
NoNews(p, s) == \A n \in Whole' : (n \in Whole /\ log'[n] = log[n]) \/ ~At(log'[n], p, s)

LEMMA CallStill ==
  ASSUME FatesKept, SaysMore, NEW r, CallOpen(r), SameRow(r.page, r.slot), NoNews(r.page, r.slot),
         \A n \in Whole : n \in Whole' /\ log'[n] = log[n]
  PROVE  CallOpen(r)'
<1>1. CASE r.insert
  <2>1. InsertOpen(r)
    BY <1>1 DEF CallOpen
  <2>2. InsertOpen(r)'
    BY <2>1 DEF InsertOpen, SameRow, NoNews, Beside, At
  <2> QED BY <1>1, <2>2 DEF CallOpen
<1>2. CASE ~r.insert
  <2>1. DeleteOpen(r)
    BY <1>2 DEF CallOpen
  <2>2. \A x : Deleted(x, r.page, r.slot)' => Deleted(x, r.page, r.slot)
    BY DEF NoNews, Deleted
  <2>3. DeleteImages(r)'
    BY <2>1 DEF SaysMore, FatesKept, DeleteImages, DeleteOpen
  <2>4. DeleteOpen(r)'
    BY <2>1, <2>2, <2>3 DEF DeleteOpen, SameRow, FatesKept
  <2> QED BY <1>2, <2>4 DEF CallOpen
<1> QED BY <1>1, <1>2

LEMMA CallsInFile ==
  ASSUME Inv, NEW r \in Calls
  PROVE  /\ r \in LogRecord /\ r.page \in 1 .. Len(file) /\ r.slot \in Slot /\ r.page \in PageNo
         /\ r.bytes = "all" /\ r.xid \in running /\ r.xid \in DOMAIN op /\ op[r.xid] = r
<1>1. PICK x \in DOMAIN op : r = op[x]
  BY DEF Calls
<1>2. r \in LogRecord /\ r.xid = x /\ x \in running /\ r.bytes = "all" /\ r.page <= Len(file)
  BY <1>1, Shapes DEF Inv, Control, RunningActive, TypeOK
<1>3. r.page \in Nat /\ r.page >= 1 /\ Len(file) \in Nat /\ r.slot \in Slot /\ r.page \in PageNo
  BY <1>2, BoundsAreNumbers DEF LogRecord, PageNo, Inv, TypeOK
<1> QED BY <1>1, <1>2, <1>3

LEMMA QuietStep ==
  ASSUME Inv, SameLog, FatesKept, SameView, op' = op
  PROVE  /\ CallsOpen => CallsOpen'
         /\ AllAtRest => AllAtRest'
<1>1. SaysMore
  BY LogSaysMore
<1>2. ASSUME CallsOpen
      PROVE  CallsOpen'
  <2> SUFFICES ASSUME NEW r \in Calls PROVE CallOpen(r)'
    BY DEF CallsOpen, Calls
  <2>1. SameRow(r.page, r.slot)
    BY CallsInFile DEF SameView, SameRow
  <2>2. NoNews(r.page, r.slot) /\ \A n \in Whole : n \in Whole' /\ log'[n] = log[n]
    BY DEF SameLog, NoNews
  <2> QED BY <1>1, <1>2, <2>1, <2>2, CallStill DEF CallsOpen
<1>3. ASSUME AllAtRest
      PROVE  AllAtRest'
  <2> SUFFICES ASSUME NEW p \in PageNo, NEW s \in Slot, Touched(p, s)'
               PROVE  (\E x \in Xid : Inserting(x, p, s)') \/ Settled(p, s)'
    BY DEF AllAtRest
  <2>1. \A x : (Inserting(x, p, s)' <=> Inserting(x, p, s)) /\ (Deleting(x, p, s)' <=> Deleting(x, p, s))
    BY DEF Inserting, Deleting, Calling
  <2>2. CASE \E x \in Xid : Inserting(x, p, s)
    BY <2>1, <2>2
  <2>3. CASE Settled(p, s)
    <3>1. PICK e \in Row : Shows(p, s, e) /\ Fits(e, p, s)
      BY <2>3 DEF Settled
    <3>2. Shows(p, s, e)'
      BY <3>1 DEF Shows, SameView
    <3>3. Fits(e, p, s)'
      BY <1>1, <2>1, <3>1, SameLogSays, FitsStill
    <3> QED BY <3>2, <3>3 DEF Settled
  <2> QED BY <1>3, <2>2, <2>3, SameLogSays DEF AllAtRest
<1> QED BY <1>2, <1>3

(* Recovery is over while the database is open or closed, and its parts of *)
(* the invariant say nothing.                                              *)
LEMMA NotRecovering ==
  ASSUME mode' \notin {"redo", "undo"}
  PROVE  Restored'
BY DEF Restored, PagesThere, Redone, CalmSettled, TakenBack

LEMMA WorkStill ==
  ASSUME SameLog, op' = op, WorkLogged, running' \subseteq running,
         \A x \in running' : work'[x] = work[x]
  PROVE  WorkLogged'
<1>1. \A x, p, s : Inserting(x, p, s)' <=> Inserting(x, p, s)
  BY DEF Inserting, Calling
<1> QED BY <1>1, SameLogSays DEF WorkLogged

----------------------------------------------------------------------------
(* Transactions.                                                           *)

LEMMA ViewUnchanged ==
  ASSUME UNCHANGED <<mem, file>>
  PROVE  SameView
BY DEF SameView, View

LEMMA AgreedBeginStatus ==
  ASSUME Inv, Agreed, BeginStatus
  PROVE  Agreed'
<1>1. UNCHANGED <<log, mem, file, op, mode, running, work, promised, vc>> /\ mode = "up"
  BY DEF BeginStatus, recovery, ghost
<1>2. SameLog /\ FatesKept /\ SameView
  BY <1>1, LogUnchanged, ViewUnchanged, FatesStay DEF Next
<1>3. SameCommits
  <2>1. counter = header /\ (Len(status) > counter => status[counter + 1] # "active")
    BY DEF BeginStatus, Inv, Control, Counted
  <2>2. Len(status) = counter
    BY <2>1, Shapes DEF Inv, Control, Counted
  <2>3. status' = Append(status, "active")
    BY <2>2 DEF BeginStatus
  <2>4. Len(status') = Len(status) + 1 /\ status'[Len(status) + 1] = "active" /\ Len(status) \in Nat
        /\ \A x \in 1 .. Len(status) : status'[x] = status[x]
    BY <2>3, Shapes DEF Inv
  <2>5. \A x \in 1 .. Len(status') : x \in 1 .. Len(status) \/ x = Len(status) + 1
    BY <2>4
  <2>6. \A x \in Xid : Committed(x)' => Committed(x)
    BY <2>4, <2>5 DEF Committed
  <2> QED BY <1>2, <2>6 DEF SameCommits, FatesKept
<1>4. LogRight'
  BY <1>1, <1>2, <1>3, LogRightKept DEF Agreed
<1>5. WorkLogged'
  BY <1>1, <1>2, WorkStill DEF Agreed
<1>6. CallsOpen' /\ RowsSettled'
  BY <1>1, <1>2, QuietStep DEF Agreed, RowsSettled
<1> QED BY <1>1, <1>4, <1>5, <1>6, NotRecovering DEF Agreed

LEMMA AgreedBeginCounter ==
  ASSUME Inv, Agreed, BeginCounter
  PROVE  Agreed'
<1>1. /\ UNCHANGED <<status, log, mem, file, op, mode, promised, vc>> /\ mode = "up"
      /\ running' = running \cup {counter + 1} /\ counter = header /\ header \in Nat
      /\ work' = Put(work, counter + 1, [ins |-> {}, del |-> {}]) /\ DOMAIN work = running
  BY Shapes DEF BeginCounter, recovery, Inv, Control, Counted, TypeOK
<1>2. SameLog /\ FatesKept /\ SameView /\ SameCommits
  BY <1>1, LogUnchanged, ViewUnchanged, FatesUnchanged DEF SameCommits
<1>3. LogRight'
  BY <1>1, <1>2, LogRightKept DEF Agreed
<1>4. WorkLogged'
  <2> SUFFICES ASSUME NEW x \in running', NEW p \in PageNo, NEW s \in Slot
               PROVE  (/\ <<p, s>> \in work[x].ins <=> Inserted(x, p, s) /\ ~Inserting(x, p, s)
                       /\ <<p, s>> \in work[x].del <=> Deleted(x, p, s))'
    BY DEF WorkLogged
  <2>1. Inserting(x, p, s)' <=> Inserting(x, p, s)
    BY <1>1 DEF Inserting, Calling
  <2>2. CASE x = counter + 1
    <3>1. ~Inserted(x, p, s) /\ ~Deleted(x, p, s)
      <4>1. x \notin 1 .. header
        BY <1>1, <2>2
      <4> QED BY <4>1, SayersKnown
    <3>2. work'[x] = [ins |-> {}, del |-> {}]
      BY <1>1, <2>2 DEF Put
    <3> QED BY <1>2, <3>1, <3>2, SameLogSays
  <2>3. CASE x # counter + 1
    <3>1. x \in running /\ work'[x] = work[x]
      BY <1>1, <2>3 DEF Put
    <3> QED BY <1>2, <2>1, <3>1, SameLogSays DEF Agreed, WorkLogged
  <2> QED BY <2>2, <2>3
<1>5. CallsOpen' /\ RowsSettled'
  BY <1>1, <1>2, QuietStep DEF Agreed, RowsSettled
<1> QED BY <1>1, <1>3, <1>4, <1>5, NotRecovering DEF Agreed

LEMMA AgreedAbort ==
  ASSUME Inv, Agreed, NEW x \in Xid, Abort(x)
  PROVE  Agreed'
<1>1. /\ UNCHANGED <<log, mem, file, op, mode, promised, vc>> /\ mode = "up" /\ x \in running
      /\ running' = running \ {x} /\ status' = [status EXCEPT ![x] = "aborted"]
      /\ work' = Without(work, x) /\ DOMAIN work = running
  BY DEF Abort, recovery, Inv, TypeOK
<1>2. SameLog /\ SameView /\ FatesKept
  BY <1>1, LogUnchanged, ViewUnchanged, FatesStay DEF Next
<1>3. SameCommits
  <2>1. Len(status') = Len(status) /\ \A y \in 1 .. Len(status) : status'[y] = IF y = x THEN "aborted" ELSE status[y]
    BY <1>1, Shapes DEF Inv
  <2>2. \A y \in Xid : Committed(y)' => Committed(y)
    BY <2>1 DEF Committed
  <2> QED BY <1>2, <2>2 DEF SameCommits, FatesKept
<1>4. LogRight'
  BY <1>1, <1>2, <1>3, LogRightKept DEF Agreed
<1>5. \A y \in running' : work'[y] = work[y]
  BY <1>1 DEF Without
<1>6. WorkLogged'
  BY <1>1, <1>2, <1>5, WorkStill DEF Agreed
<1>7. CallsOpen' /\ RowsSettled'
  BY <1>1, <1>2, QuietStep DEF Agreed, RowsSettled
<1> QED BY <1>1, <1>4, <1>6, <1>7, NotRecovering DEF Agreed

(* What the transaction left is promised, and what it deleted no longer.   *)
LEMMA AgreedCommit ==
  ASSUME Inv, Agreed, NEW x \in Xid, Commit(x)
  PROVE  Agreed'
<1>1. /\ UNCHANGED <<log, mem, file, op, mode, vc>> /\ mode = "up" /\ x \in running /\ x \notin DOMAIN op
      /\ running' = running \ {x} /\ status' = [status EXCEPT ![x] = "committed"]
      /\ promised' = (promised \cup work[x].ins) \ work[x].del
      /\ work' = Without(work, x) /\ DOMAIN work = running
  BY DEF Commit, recovery, Inv, TypeOK
<1>2. SameLog /\ SameView /\ FatesKept
  BY <1>1, LogUnchanged, ViewUnchanged, FatesStay DEF Next
<1>3. SaysMore
  BY <1>2, LogSaysMore
<1>4. \A y \in Xid : Committed(y)' <=> Committed(y) \/ y = x
  <2>1. Len(status') = Len(status) /\ \A y \in 1 .. Len(status) : status'[y] = IF y = x THEN "committed" ELSE status[y]
    BY <1>1, Shapes DEF Inv
  <2>2. x \in 1 .. Len(status)
    BY <1>1, RunningIsActive
  <2> QED BY <2>1, <2>2 DEF Committed
<1>5. ImagesRight'
  <2> SUFFICES ASSUME NEW r \in WholeRecords' PROVE Images(r)'
    BY DEF ImagesRight
  <2>1. Images(r)
    BY <1>2 DEF SameLog, Agreed, LogRight, ImagesRight, WholeRecords
  <2> QED BY <1>2, <1>3, <2>1, ImagesStay
<1>6. InTurn'
  BY <1>2 DEF SameLog, Agreed, LogRight, InTurn, FatesKept, Beside
<1>7. PromisedLeft'
  <2> SUFFICES ASSUME NEW p \in PageNo, NEW s \in Slot
               PROVE  <<p, s>> \in promised' <=> Left(p, s)'
    BY DEF PromisedLeft
  <2>1. /\ <<p, s>> \in work[x].ins <=> Inserted(x, p, s)
        /\ <<p, s>> \in work[x].del <=> Deleted(x, p, s)
    BY <1>1 DEF Agreed, WorkLogged, Inserting, Calling
  <2>2. <<p, s>> \in promised' <=> (Left(p, s) \/ Inserted(x, p, s)) /\ ~Deleted(x, p, s)
    BY <1>1, <2>1 DEF Agreed, LogRight, PromisedLeft
  <2>3. Left(p, s)' <=> /\ \E y \in Xid : Inserted(y, p, s) /\ (Committed(y) \/ y = x)
                        /\ \A y \in Xid : Deleted(y, p, s) => ~(Committed(y) \/ y = x)
    BY <1>2, <1>4, SameLogSays DEF Left
  (* Nobody else deletes what the transaction has inserted.                *)
  <2>4. Inserted(x, p, s) => \A y \in Xid : Deleted(y, p, s) => y = x
    BY <1>1, RunningIsActive, WhoDeletes DEF Agreed
  <2>5. \A y \in Xid : Committed(y) => y # x
    BY <1>1, RunningIsActive
  <2> QED BY <2>2, <2>3, <2>4, <2>5 DEF Left
<1>8. \A y \in running' : work'[y] = work[y]
  BY <1>1 DEF Without
<1>9. WorkLogged'
  BY <1>1, <1>2, <1>8, WorkStill DEF Agreed
<1>10. CallsOpen' /\ RowsSettled'
  BY <1>1, <1>2, QuietStep DEF Agreed, RowsSettled
<1> QED BY <1>1, <1>5, <1>6, <1>7, <1>9, <1>10, NotRecovering DEF Agreed, LogRight

----------------------------------------------------------------------------
(* Pages written and processes ended: what View shows stays.               *)

LEMMA AgreedNewPage ==
  ASSUME Inv, Agreed, NewPage
  PROVE  Agreed'
<1>1. /\ UNCHANGED <<log, status, mem, op, mode, running, work, promised, vc>> /\ mode = "up"
      /\ file' = Append(file, <<>>)
  BY DEF NewPage, recovery, ghost, Ready
<1>2. SameView
  <2>1. file \in Seq(Page) /\ IsMap(mem, 1 .. Len(file), Page)
    BY DEF Inv, TypeOK
  <2>2. /\ Len(file') = Len(file) + 1 /\ Len(file) \in Nat
        /\ \A p \in 1 .. Len(file) : file'[p] = file[p]
    BY <1>1, <2>1
  <2> QED BY <1>1, <2>2 DEF SameView, View
<1>3. SameLog /\ FatesKept /\ SameCommits
  BY <1>1, LogUnchanged, FatesUnchanged DEF SameCommits
<1>4. LogRight' /\ WorkLogged'
  BY <1>1, <1>3, LogRightKept, WorkStill DEF Agreed
<1>5. CallsOpen' /\ RowsSettled'
  BY <1>1, <1>2, <1>3, QuietStep DEF Agreed, RowsSettled
<1> QED BY <1>1, <1>4, <1>5, NotRecovering DEF Agreed

LEMMA AgreedEvict ==
  ASSUME Inv, Agreed, NEW p \in PageNo, Evict(p)
  PROVE  Agreed'
<1>1. /\ UNCHANGED <<log, status, op, mode, running, work, promised, vc>> /\ mode = "up"
      /\ p \in DOMAIN mem /\ file' = [file EXCEPT ![p] = mem[p]] /\ mem' = Without(mem, p)
  BY DEF Evict, recovery, ghost
<1>2. SameView
  <2>1. file \in Seq(Page)
    BY DEF Inv, TypeOK
  <2>2. Len(file') = Len(file) /\ \A q \in 1 .. Len(file) : file'[q] = IF q = p THEN mem[p] ELSE file[q]
    BY <1>1, <2>1
  <2> QED BY <1>1, <2>2 DEF SameView, View, Without
<1>3. SameLog /\ FatesKept /\ SameCommits
  BY <1>1, LogUnchanged, FatesUnchanged DEF SameCommits
<1>4. LogRight' /\ WorkLogged'
  BY <1>1, <1>3, LogRightKept, WorkStill DEF Agreed
<1>5. CallsOpen' /\ RowsSettled'
  BY <1>1, <1>2, <1>3, QuietStep DEF Agreed, RowsSettled
<1> QED BY <1>1, <1>4, <1>5, NotRecovering DEF Agreed

LEMMA IdleMemory ==
  ASSUME Inv, mode # "up"
  PROVE  running = {} /\ mem = <<>> /\ DOMAIN op = {} /\ op = <<>>
<1>1. running = {} /\ mem = <<>> /\ DOMAIN op = {}
  BY Shapes DEF Inv, Control, Idle
<1>2. op \in [{} -> LogRecord]
  BY <1>1 DEF Inv, TypeOK, IsMap
<1>3. op = <<>>
  BY <1>2
<1> QED BY <1>1, <1>3

LEMMA AgreedRestart ==
  ASSUME Inv, AllLogged, Agreed, Close \/ Crash \/ Open \/ OpenFails \/ Opened
  PROVE  Agreed'
<1>1. /\ UNCHANGED <<status, file, promised>> /\ mode' \notin {"redo", "undo"}
      /\ log' = log \/ log' = Readable(log) \/ \E b \in {"head", "part"} : log' = Append(log, Torn(b))
  BY DEF Close, Crash, Open, OpenFails, Opened, Forget, disk, ghost
<1>2. SameLog /\ FatesKept /\ SameCommits
  BY <1>1, LogUnchanged, TailIsNotRead, FatesUnchanged DEF SameCommits
<1>3. LogRight'
  BY <1>1, <1>2, LogRightKept DEF Agreed
(* What is left of what was in memory.                                     *)
<1>4. CASE (mode = "up" => mem = <<>> /\ op = <<>>) /\ mem' = mem /\ op' = op /\ running' = running /\ work' = work
  <2>1. SameView
    BY <1>1, <1>4, ViewUnchanged
  <2>2. WorkLogged'
    BY <1>2, <1>4, WorkStill DEF Agreed
  <2>3. CallsOpen' /\ (AllAtRest => AllAtRest')
    BY <1>2, <1>4, <2>1, QuietStep DEF Agreed
  <2>4. mode' \in {"up", "ready"} \/ vc' = "closed" => mode \in {"up", "ready"} \/ vc = "closed"
    BY DEF Close, Crash, Open, OpenFails, Opened, disk
  <2> QED BY <1>1, <1>3, <2>2, <2>3, <2>4, NotRecovering DEF Agreed, RowsSettled
<1>5. CASE Forget /\ mode' = "down"
  <2>1. mem' = <<>> /\ op' = <<>> /\ running' = {}
    BY <1>5 DEF Forget
  <2>2. WorkLogged' /\ CallsOpen'
    BY <2>1 DEF WorkLogged, CallsOpen, Calls
  <2>3. RowsSettled'
    <3>1. CASE mode # "up" \/ Close
      <4>1. mem = <<>> /\ op = <<>>
        <5>1. CASE mode # "up"
          BY <5>1, IdleMemory
        <5>2. CASE Close
          <6>1. DOMAIN op = {} /\ mem = <<>>
            BY <5>2, Shapes DEF Close, Inv
          <6>2. op \in [{} -> LogRecord]
            BY <6>1 DEF Inv, TypeOK, IsMap
          <6> QED BY <6>1, <6>2
        <5> QED BY <3>1, <5>1, <5>2
      <4>2. SameView /\ op' = op
        BY <1>1, <2>1, <4>1, ViewUnchanged
      <4>3. AllAtRest => AllAtRest'
        BY <1>2, <4>2, QuietStep
      <4>4. vc' = "closed" => mode \in {"up", "ready"} \/ vc = "closed"
        BY DEF Close, Crash, Open, OpenFails, Opened, disk
      <4> QED BY <1>5, <4>3, <4>4 DEF Agreed, RowsSettled
    <3>2. CASE mode = "up" /\ ~Close
      <4>1. vc' = vc /\ vc = "open"
        BY <1>5, <3>2 DEF Crash, Open, OpenFails, Opened, Inv, Control, Decided, disk
      <4> QED BY <1>5, <4>1 DEF RowsSettled
    <3> QED BY <3>1, <3>2
  <2> QED BY <1>1, <1>3, <2>2, <2>3, NotRecovering DEF Agreed
<1>6. Close \/ Crash \/ OpenFails => Forget /\ mode' = "down"
  BY DEF Close, Crash, OpenFails
<1>7. Open \/ Opened => mode # "up" /\ mem' = mem /\ op' = op /\ running' = running /\ work' = work
  BY DEF Open, Opened, ghost
<1> QED BY <1>4, <1>5, <1>6, <1>7

----------------------------------------------------------------------------
(* Rows.                                                                   *)

LEMMA OpIsRunning ==
  ASSUME Inv, NEW y \in DOMAIN op
  PROVE  y \in running /\ y \in Xid /\ op[y] \in Calls /\ op[y].xid = y
BY Shapes, RunningIsActive DEF Inv, Calls

(* A place with a row on it is one of the log, and not of an insert in     *)
(* progress.                                                               *)
LEMMA ShownIsSettled ==
  ASSUME Inv, AllLogged, Agreed, mode = "up", NEW p \in 1 .. Len(file), NEW s \in DOMAIN View(p)
  PROVE  Settled(p, s) /\ p \in PageNo /\ s \in Slot /\ Touched(p, s) /\ \A y : ~Inserting(y, p, s)
<1>1. p \in PageNo /\ s \in Slot
  BY ViewIsPage, PageIsMap DEF Inv
<1>2. Touched(p, s)
  <2>1. Logged(View(p)[s].xmin, p, s)
    BY ViewIsUnder DEF RowUnder
  <2> QED BY <2>1 DEF Logged, Speaks, Touched, Whole, At
<1>3. ASSUME NEW y, Inserting(y, p, s)
      PROVE  FALSE
  <2>1. op[y] \in Calls /\ InsertOpen(op[y])
    BY <1>3, OpIsRunning DEF Inserting, Calling, Agreed, CallsOpen, CallOpen
  <2> QED BY <1>3, <2>1 DEF InsertOpen, Inserting, Calling, At
<1> QED BY <1>1, <1>2, <1>3 DEF Agreed, RowsSettled, AllAtRest

(* A new place: no record speaks of it.                                    *)
LEMMA NextPlaceIsNew ==
  ASSUME Inv, Agreed, mode = "up", NEW p \in Selectable
  PROVE  ~Touched(p, FSO(p) + 1) /\ FSO(p) + 1 \notin DOMAIN View(p)
<1>1. p \in 1 .. Len(file) /\ p \in PageNo /\ FSO(p) + 1 \in Slot /\ InsertsOn(p) = {}
  BY NextPlaceIsSlot DEF Inv, Selectable
<1>2. FSO(p) + 1 \notin DOMAIN View(p)
  <2>1. DOMAIN View(p) \subseteq Slot
    BY <1>1, ViewIsPage, PageIsMap DEF Inv
  <2>2. {0} \cup DOMAIN View(p) \in SUBSET (0 .. MaxSlot)
    BY <2>1, BoundsAreNumbers DEF Slot
  <2>3. MaxSlot \in Nat
    BY BoundsAreNumbers
  <2>4. FSO(p) \in {0} \cup DOMAIN View(p) /\ \A s \in {0} \cup DOMAIN View(p) : FSO(p) >= s
    BY <2>2, <2>3, MaxIsGreatest DEF FSO
  <2>5. FSO(p) \in Nat /\ \A s \in DOMAIN View(p) : s \in Nat
    BY <2>1, <2>4 DEF Slot
  <2> QED BY <2>4, <2>5
<1>3. ~Settled(p, FSO(p) + 1)
  BY <1>2 DEF Settled, Shows
<1>4. \A y \in Xid : ~Inserting(y, p, FSO(p) + 1)
  BY <1>1 DEF InsertsOn, Inserting, Calling, At
<1> QED BY <1>1, <1>2, <1>3, <1>4 DEF Agreed, RowsSettled, AllAtRest

LEMMA AgreedInsertLog ==
  ASSUME Inv, Agreed, NEW x \in Xid, NEW p \in PageNo, InsertLog(x, p)
  PROVE  Agreed'
<1>1. PICK r \in LogRecord :
        /\ r = InsertRecord(x, p) /\ InsertImages(r)
        /\ r.xid = x /\ r.page = p /\ r.slot = FSO(p) + 1 /\ r.bytes = "all" /\ r.insert
  <2>1. InsertRecord(x, p) \in LogRecord
    BY NextPlaceIsSlot, InsertRecordType DEF InsertLog, Inv
  <2> QED BY <2>1 DEF InsertRecord, Record, InsertImages
<1>2. /\ log' = Append(log, r) /\ op' = Put(op, x, r) /\ x \in running /\ x \notin DOMAIN op /\ mode = "up"
      /\ p \in Selectable
      /\ UNCHANGED <<status, file, mem, mode, running, work, promised, vc>>
  BY <1>1 DEF InsertLog, Ready, ghost
<1>3. Added(r) /\ SaysMore /\ FatesKept /\ SameCommits /\ SameView
  BY <1>1, <1>2, AppendAdds, LogSaysMore, FatesUnchanged, ViewUnchanged DEF SameCommits
<1>4. ~Touched(p, r.slot) /\ r.slot \notin DOMAIN View(p)
  BY <1>1, <1>2, NextPlaceIsNew
<1>5. LogRight'
  <2>1. Images(r)'
    BY <1>1 DEF Images, InsertImages
  <2>2. ~Committed(r.xid)
    BY <1>1, <1>2, RunningIsActive
  <2>3. \A n \in Whole : ~Beside(log[n], r)
    BY <1>1, <1>4 DEF Touched, Beside, At
  <2> QED BY <1>2, <1>3, <2>1, <2>2, <2>3, LogRightAdded DEF Agreed
<1>6. \A y : y # x => (y \in DOMAIN op' <=> y \in DOMAIN op) /\ (y \in DOMAIN op => op'[y] = op[y])
  BY <1>2 DEF Put
<1>7. x \in DOMAIN op' /\ op'[x] = r
  BY <1>2 DEF Put
<1>8. \A y, q, s : /\ Inserting(y, q, s)' <=> Inserting(y, q, s) \/ (y = x /\ q = p /\ s = r.slot)
                   /\ Deleting(y, q, s)' <=> Deleting(y, q, s)
  BY <1>1, <1>2, <1>6, <1>7 DEF Inserting, Deleting, Calling, At
<1>9. \A y, q, s : /\ Inserted(y, q, s)' <=> Inserted(y, q, s) \/ (y = x /\ q = p /\ s = r.slot)
                   /\ Deleted(y, q, s)' <=> Deleted(y, q, s)
                   /\ Touched(q, s)' <=> Touched(q, s) \/ (q = p /\ s = r.slot)
  BY <1>1, <1>3, AddedSays DEF At
<1>10. WorkLogged'
  <2>1. \A y : ~Inserted(y, p, r.slot)
    BY <1>4 DEF Inserted, Touched
  <2> SUFFICES ASSUME NEW y \in running, NEW q \in PageNo, NEW s \in Slot
               PROVE  (/\ <<q, s>> \in work[y].ins <=> Inserted(y, q, s) /\ ~Inserting(y, q, s)
                       /\ <<q, s>> \in work[y].del <=> Deleted(y, q, s))'
    BY <1>2 DEF WorkLogged
  <2>2. /\ <<q, s>> \in work[y].ins <=> Inserted(y, q, s) /\ ~Inserting(y, q, s)
        /\ <<q, s>> \in work[y].del <=> Deleted(y, q, s)
    BY DEF Agreed, WorkLogged
  <2> QED BY <1>2, <1>8, <1>9, <2>1, <2>2
<1>11. CallsOpen'
  <2> SUFFICES ASSUME NEW t \in Calls' PROVE CallOpen(t)'
    BY DEF CallsOpen
  <2>1. CASE t = r
    <3>1. r.slot \notin DOMAIN View(r.page)'
      BY <1>1, <1>2, <1>4 DEF View
    <3>2. \A n \in Whole' : Beside(log'[n], r) => log'[n] = r
      BY <1>1, <1>3, <1>4 DEF Added, Touched, Beside, At
    <3>3. \E n \in Whole' : log'[n] = r
      BY <1>3 DEF Added
    <3> QED BY <1>1, <2>1, <3>1, <3>2, <3>3 DEF CallOpen, InsertOpen
  <2>2. CASE t # r
    <3>1. t \in Calls
      BY <1>6, <1>7, <2>2 DEF Calls
    <3>2. CallOpen(t) /\ t.page \in 1 .. Len(file)
      BY <3>1, CallsInFile DEF Agreed, CallsOpen
    <3>3. Touched(t.page, t.slot)
      <4>1. CASE t.insert
        BY <3>2, <4>1 DEF CallOpen, InsertOpen, Touched, At
      <4>2. CASE ~t.insert
        BY <3>2, <4>2 DEF CallOpen, DeleteOpen, DeleteImages, Inserted, Touched, At
      <4> QED BY <4>1, <4>2
    <3>4. NoNews(t.page, t.slot) /\ \A n \in Whole : n \in Whole' /\ log'[n] = log[n]
      BY <1>1, <1>3, <1>4, <3>3 DEF Added, NoNews, At
    <3>5. SameRow(t.page, t.slot)
      BY <1>3, <3>2 DEF SameView, SameRow
    <3> QED BY <1>3, <3>2, <3>4, <3>5, CallStill
  <2> QED BY <2>1, <2>2
<1>12. AllAtRest'
  <2> SUFFICES ASSUME NEW q \in PageNo, NEW s \in Slot, Touched(q, s)'
               PROVE  (\E y \in Xid : Inserting(y, q, s)') \/ Settled(q, s)'
    BY DEF AllAtRest
  <2>1. CASE q = p /\ s = r.slot
    BY <1>8, <2>1
  <2>2. CASE Touched(q, s) /\ \E y \in Xid : Inserting(y, q, s)
    BY <1>8, <2>2
  <2>3. CASE Settled(q, s)
    <3>1. PICK e \in Row : Shows(q, s, e) /\ Fits(e, q, s)
      BY <2>3 DEF Settled
    <3>2. Shows(q, s, e)'
      BY <1>3, <3>1 DEF Shows, SameView
    <3>3. Fits(e, q, s)'
      BY <1>3, <1>8, <1>9, <3>1, FitsStill
    <3> QED BY <3>2, <3>3 DEF Settled
  <2> QED BY <1>2, <1>9, <2>1, <2>2, <2>3 DEF Agreed, RowsSettled, AllAtRest
<1> QED BY <1>2, <1>5, <1>10, <1>11, <1>12, NotRecovering DEF Agreed, RowsSettled

(* A row is written on its page in memory.                                 *)
LEMMA WrittenShows ==
  ASSUME Inv, NEW p \in 1 .. Len(file), NEW s \in Slot, NEW e \in Row,
         file' = file, mem' = Put(mem, p, Put(View(p), s, e))
  PROVE  /\ Shows(p, s, e)'
         /\ \A q, t, f : Shows(q, t, f) /\ ~(q = p /\ t = s) => Shows(q, t, f)'
         /\ \A q \in 1 .. Len(file) : \A t : ~(q = p /\ t = s) => SameRow(q, t)
<1>1. View(p)' = Put(View(p), s, e)
  BY DEF View, Put
<1>2. \A q : q # p => View(q)' = View(q)
  BY DEF View, Put
<1>3. /\ s \in DOMAIN Put(View(p), s, e) /\ Put(View(p), s, e)[s] = e
      /\ \A t : t # s => /\ t \in DOMAIN Put(View(p), s, e) <=> t \in DOMAIN View(p)
                         /\ t \in DOMAIN View(p) => Put(View(p), s, e)[t] = View(p)[t]
  BY DEF Put
<1>4. Shows(p, s, e)'
  BY <1>1, <1>3 DEF Shows
<1>5. ASSUME NEW q \in 1 .. Len(file), NEW t, ~(q = p /\ t = s)
      PROVE  SameRow(q, t)
  <2>1. CASE q = p
    BY <1>1, <1>3, <1>5, <2>1 DEF SameRow
  <2>2. CASE q # p
    BY <1>2, <2>2 DEF SameRow
  <2> QED BY <2>1, <2>2
<1>6. \A q, t, f : Shows(q, t, f) /\ ~(q = p /\ t = s) => Shows(q, t, f)'
  BY <1>5 DEF Shows, SameRow
<1> QED BY <1>4, <1>5, <1>6

LEMMA AgreedInsertPage ==
  ASSUME Inv, Agreed, NEW x \in Xid, InsertPage(x)
  PROVE  Agreed'
<1>0. PICK r : r = op[x]
  OBVIOUS
<1>1. /\ x \in DOMAIN op /\ r.insert /\ mem' = Put(mem, r.page, Put(View(r.page), r.slot, r.new)) /\ op' = Without(op, x)
      /\ work' = [work EXCEPT ![x].ins = @ \cup {<<r.page, r.slot>>}] /\ mode = "up"
      /\ UNCHANGED <<log, status, file, mode, running, promised, vc>>
  BY <1>0 DEF InsertPage, disk
<1>2. /\ r \in Calls /\ r.page \in 1 .. Len(file) /\ r.slot \in Slot /\ r.page \in PageNo /\ r.new \in Row
      /\ r.xid = x /\ x \in running
  BY <1>0, <1>1, OpIsRunning, CallsInFile DEF LogRecord
<1>3. InsertOpen(r)
  BY <1>1, <1>2 DEF Agreed, CallsOpen, CallOpen
<1>4. InsertImages(r)
  BY <1>1, <1>3 DEF InsertOpen, Agreed, LogRight, ImagesRight, WholeRecords, Images
<1>5. SameLog /\ SaysMore /\ FatesKept /\ SameCommits
  BY <1>1, LogUnchanged, LogSaysMore, FatesUnchanged DEF SameCommits
<1>6. LogRight'
  BY <1>1, <1>5, LogRightKept DEF Agreed
<1>7. /\ Shows(r.page, r.slot, r.new)'
      /\ \A q, t, f : Shows(q, t, f) /\ ~(q = r.page /\ t = r.slot) => Shows(q, t, f)'
      /\ \A q \in 1 .. Len(file) : \A t : ~(q = r.page /\ t = r.slot) => SameRow(q, t)
  BY <1>1, <1>2, WrittenShows
<1>8. /\ x \notin DOMAIN op'
      /\ \A y : y # x => (y \in DOMAIN op' <=> y \in DOMAIN op) /\ (y \in DOMAIN op => op'[y] = op[y])
  BY <1>1 DEF Without
<1>9. /\ \A y, q, s : Inserting(y, q, s)' <=> Inserting(y, q, s) /\ y # x
      /\ \A y, q, s : Deleting(y, q, s)' <=> Deleting(y, q, s)
      /\ \A q, s : Inserting(x, q, s) => q = r.page /\ s = r.slot
  BY <1>0, <1>1, <1>8 DEF Inserting, Deleting, Calling, At
<1>10. Inserted(x, r.page, r.slot)
  BY <1>1, <1>2, <1>3, RecordFacts DEF InsertOpen, Inserted, At
<1>11. ~\E y : Deleted(y, r.page, r.slot)
  BY <1>1, <1>3 DEF InsertOpen, Deleted, Beside, At
<1>12. WorkLogged'
  <2> SUFFICES ASSUME NEW y \in running, NEW q \in PageNo, NEW s \in Slot
               PROVE  (/\ <<q, s>> \in work[y].ins <=> Inserted(y, q, s) /\ ~Inserting(y, q, s)
                       /\ <<q, s>> \in work[y].del <=> Deleted(y, q, s))'
    BY <1>1 DEF WorkLogged
  <2>1. /\ <<q, s>> \in work[y].ins <=> Inserted(y, q, s) /\ ~Inserting(y, q, s)
        /\ <<q, s>> \in work[y].del <=> Deleted(y, q, s)
    BY DEF Agreed, WorkLogged
  <2>2. /\ work'[y].del = work[y].del
        /\ <<q, s>> \in work'[y].ins <=> <<q, s>> \in work[y].ins \/ (y = x /\ q = r.page /\ s = r.slot)
    <3>1. work \in [running -> Work]
      BY DEF Inv, TypeOK, Work
    <3>2. work'[y] = IF y = x THEN [work[x] EXCEPT !.ins = @ \cup {<<r.page, r.slot>>}] ELSE work[y]
      BY <1>1, <3>1
    <3> QED BY <3>1, <3>2 DEF Work
  <2> QED BY <1>5, <1>9, <1>10, <2>1, <2>2, SameLogSays
<1>13. CallsOpen'
  <2>0. \A t \in Calls' : t \in Calls /\ t.xid # x
    <3> SUFFICES ASSUME NEW y \in DOMAIN op' PROVE op'[y] \in Calls /\ op'[y].xid # x
      BY DEF Calls
    <3>1. y # x /\ y \in DOMAIN op /\ op'[y] = op[y]
      BY <1>8
    <3> QED BY <3>1, OpIsRunning
  <2> SUFFICES ASSUME NEW t \in Calls, t.xid # x PROVE CallOpen(t)'
    BY <2>0 DEF CallsOpen
  <2>1. CallOpen(t) /\ t.page \in 1 .. Len(file)
    BY CallsInFile DEF Agreed, CallsOpen
  (* The place belongs to one call.                                        *)
  <2>2. ~(t.page = r.page /\ t.slot = r.slot)
    <3> SUFFICES ASSUME t.page = r.page, t.slot = r.slot PROVE FALSE
      OBVIOUS
    <3>1. CASE t.insert
      <4>1. PICK n \in Whole : log[n] = t
        BY <2>1, <3>1 DEF CallOpen, InsertOpen
      <4>2. log[n] = r
        BY <1>3, <4>1 DEF InsertOpen, Beside
      <4> QED BY <1>2, <4>1, <4>2
    <3>2. CASE ~t.insert
      BY <1>3, <2>1, <3>2 DEF CallOpen, InsertOpen, DeleteOpen
    <3> QED BY <3>1, <3>2
  <2>3. SameRow(t.page, t.slot)
    BY <1>7, <2>1, <2>2
  <2>4. NoNews(t.page, t.slot) /\ \A n \in Whole : n \in Whole' /\ log'[n] = log[n]
    BY <1>5 DEF SameLog, NoNews
  <2> QED BY <1>5, <2>1, <2>3, <2>4, CallStill
<1>14. AllAtRest'
  <2> SUFFICES ASSUME NEW q \in PageNo, NEW s \in Slot, Touched(q, s)
               PROVE  (\E y \in Xid : Inserting(y, q, s)') \/ Settled(q, s)'
    BY <1>5, SameLogSays DEF AllAtRest
  <2>1. CASE q = r.page /\ s = r.slot
    <3>1. /\ r.new.xmin = x /\ r.new.xmax = SuperXid /\ r.new.valid
      BY <1>2, <1>4 DEF InsertImages, Item
    <3>2. Fits(r.new, q, s)'
      BY <1>5, <1>10, <1>11, <2>1, <3>1, SameLogSays DEF Fits
    <3> QED BY <1>2, <1>7, <2>1, <3>2 DEF Settled
  <2>2. CASE ~(q = r.page /\ s = r.slot)
    <3>1. CASE \E y \in Xid : Inserting(y, q, s)
      BY <1>9, <2>2, <3>1
    <3>2. CASE Settled(q, s)
      <4>1. PICK e \in Row : Shows(q, s, e) /\ Fits(e, q, s)
        BY <3>2 DEF Settled
      <4>2. Shows(q, s, e)'
        BY <1>7, <2>2, <4>1
      <4>3. Fits(e, q, s)'
        BY <1>5, <1>9, <4>1, SameLogSays, FitsStill
      <4> QED BY <4>2, <4>3 DEF Settled
    <3> QED BY <1>1, <3>1, <3>2 DEF Agreed, RowsSettled, AllAtRest
  <2> QED BY <2>1, <2>2
<1> QED BY <1>1, <1>6, <1>12, <1>13, <1>14, NotRecovering DEF Agreed, RowsSettled

(* The row is there for good, and every deletion of it so far was taken    *)
(* back or aborted.                                                        *)
LEMMA WhatDeleteFinds ==
  ASSUME Inv, AllLogged, Agreed, mode = "up", NEW x \in running, NEW p \in PageNo, NEW s \in Slot,
         NEW e \in Row, Shows(p, s, e), Deletable(x, e)
  PROVE  /\ Fits(e, p, s) /\ e.valid /\ Inserted(e.xmin, p, s)
         /\ e.xmin = x \/ Committed(e.xmin)
         /\ e.xmax = SuperXid \/ Aborted(e.xmax)
         /\ e.xmax \notin running
         /\ \A y \in Xid : Deleted(y, p, s) => Aborted(y)
         /\ \A y : ~Inserting(y, p, s) /\ ~Deleting(y, p, s)
<1>1. Fits(e, p, s) /\ \A y : ~Inserting(y, p, s)
  <2>1. p \in 1 .. Len(file) /\ s \in DOMAIN View(p) /\ View(p)[s] = e
    BY DEF Shows
  <2> QED BY <2>1, ShownIsSettled DEF Settled, Shows
<1>2. e.xmax \notin running /\ e.valid /\ ReadCommitted(status, [xid |-> x], e)
  BY DEF Deletable
<1>3. Inserted(e.xmin, p, s) /\ e.xmin \in 1 .. Len(status) /\ e.xmin # 0
  BY <1>1, SayersKnown DEF Fits
<1>4. e.xmin = x \/ Committed(e.xmin)
  BY <1>2, <1>3 DEF ReadCommitted, IsCommitted, Committed, SuperXid
<1>5. e.xmax = SuperXid \/ status[e.xmax] # "committed"
  BY <1>2 DEF ReadCommitted, IsCommitted, SuperXid
<1>6. \A y : ~Deleting(y, p, s)
  <2> SUFFICES ASSUME NEW y, Deleting(y, p, s) PROVE FALSE
    OBVIOUS
  <2>1. op[y] \in Calls /\ y \in running /\ op[y].xid = y
    BY OpIsRunning DEF Deleting, Calling
  <2>2. View(p)[s].xmax = y
    BY <2>1 DEF Deleting, Calling, At, Agreed, CallsOpen, CallOpen, DeleteOpen
  <2> QED BY <1>2, <2>1, <2>2 DEF Shows
<1>7. e.xmax = SuperXid \/ Aborted(e.xmax)
  <2>1. CASE Deleted(e.xmax, p, s)
    <3>1. PICK n \in Whole : log[n].xid = e.xmax
      BY <2>1 DEF Deleted
    <3>2. e.xmax \in 1 .. Len(status) /\ status[e.xmax] # "active"
      BY <1>2, <3>1, RecordFacts DEF Inv, Control, Decided
    <3> QED BY <1>5, <3>2, FateOfRecord DEF Committed
  <2> QED BY <1>1, <1>6, <2>1 DEF Fits
<1>8. \A y \in Xid : Deleted(y, p, s) => Aborted(y)
  <2> SUFFICES ASSUME NEW y \in Xid, Deleted(y, p, s), y = e.xmax PROVE Aborted(y)
    BY <1>1 DEF Fits
  <2>1. y # SuperXid
    BY DEF Xid, SuperXid
  <2> QED BY <1>7, <2>1
<1> QED BY <1>1, <1>2, <1>3, <1>4, <1>6, <1>7, <1>8

LEMMA AgreedDeletePage ==
  ASSUME Inv, AllLogged, Agreed, NEW x \in Xid, NEW p \in 1 .. Len(file), NEW s \in Slot, DeletePage(x, p, s)
  PROVE  Agreed'
<1>0. PICK old : old = View(p)[s]
  OBVIOUS
<1>1. PICK new : new = [old EXCEPT !.xmax = x]
  OBVIOUS
<1>2. PICK r : r = Record(x, p, s, old, new, FALSE)
  OBVIOUS
<1>3. /\ mem' = Put(mem, p, Put(View(p), s, new)) /\ op' = Put(op, x, r) /\ mode = "up"
      /\ s \in DOMAIN View(p) /\ Deletable(x, old) /\ x \in running /\ x \notin DOMAIN op
      /\ UNCHANGED <<log, status, file, mode, running, work, promised, vc>>
  BY <1>0, <1>1, <1>2 DEF DeletePage, Ready, disk, ghost
<1>4. /\ old \in Row /\ Shows(p, s, old) /\ p \in PageNo
      /\ new \in Row /\ new.valid = old.valid /\ new.xmin = old.xmin /\ new.xmax = x
  <2>1. old \in Row /\ p \in PageNo
    BY <1>0, <1>3, ViewIsPage, PageIsMap DEF Inv
  <2> QED BY <1>0, <1>1, <1>3, <2>1 DEF Shows, Row
<1>5. /\ old.valid /\ Inserted(old.xmin, p, s)
      /\ old.xmin = x \/ Committed(old.xmin)
      /\ old.xmax = SuperXid \/ Aborted(old.xmax)
      /\ old.xmax \notin running
      /\ \A y \in Xid : Deleted(y, p, s) => Aborted(y)
      /\ \A y : ~Inserting(y, p, s) /\ ~Deleting(y, p, s)
  BY <1>3, <1>4, WhatDeleteFinds
<1>6. r.xid = x /\ r.page = p /\ r.slot = s /\ r.old = old /\ r.new = new /\ ~r.insert
  BY <1>2 DEF Record
<1>7. SameLog /\ SaysMore /\ FatesKept /\ SameCommits
  BY <1>3, LogUnchanged, LogSaysMore, FatesUnchanged DEF SameCommits
<1>8. LogRight'
  BY <1>3, <1>7, LogRightKept DEF Agreed
<1>9. /\ Shows(p, s, new)'
      /\ \A q, t, f : Shows(q, t, f) /\ ~(q = p /\ t = s) => Shows(q, t, f)'
      /\ \A q \in 1 .. Len(file) : \A t : ~(q = p /\ t = s) => SameRow(q, t)
  BY <1>3, <1>4, WrittenShows
<1>10. /\ x \in DOMAIN op' /\ op'[x] = r
       /\ \A y : y # x => (y \in DOMAIN op' <=> y \in DOMAIN op) /\ (y \in DOMAIN op => op'[y] = op[y])
  BY <1>3 DEF Put
<1>11. /\ \A y, q, t : Inserting(y, q, t)' <=> Inserting(y, q, t)
       /\ \A y, q, t : Deleting(y, q, t) => Deleting(y, q, t)'
       /\ Deleting(x, p, s)'
  BY <1>3, <1>6, <1>10 DEF Inserting, Deleting, Calling, At
<1>12. WorkLogged'
  BY <1>3, <1>7, <1>11, SameLogSays DEF Agreed, WorkLogged
<1>13. CallsOpen'
  <2>0. \A t \in Calls' : t = r \/ t \in Calls
    BY <1>10 DEF Calls
  <2> SUFFICES ASSUME NEW t \in Calls' PROVE CallOpen(t)'
    BY DEF CallsOpen
  <2>1. CASE t = r
    <3>1. DeleteImages(r)
      BY <1>1, <1>5, <1>6 DEF DeleteImages
    <3>2. DeleteImages(r)'
      BY <1>7, <3>1 DEF SaysMore, FatesKept, DeleteImages
    <3>3. \A y \in Xid : Deleted(y, p, s)' => Aborted(y)'
      BY <1>5, <1>7, SameLogSays DEF FatesKept
    <3>4. DeleteOpen(r)'
      BY <1>4, <1>6, <1>9, <3>2, <3>3 DEF DeleteOpen, Shows
    <3> QED BY <1>6, <2>1, <3>4 DEF CallOpen
  <2>2. CASE t \in Calls
    <3>1. CallOpen(t) /\ t.page \in 1 .. Len(file) /\ t.xid \in DOMAIN op /\ op[t.xid] = t
      BY <2>2, CallsInFile DEF Agreed, CallsOpen
    <3>2. ~(t.page = p /\ t.slot = s)
      BY <1>5, <3>1 DEF Inserting, Deleting, Calling, At
    <3>3. SameRow(t.page, t.slot)
      BY <1>9, <3>1, <3>2
    <3>4. NoNews(t.page, t.slot) /\ \A n \in Whole : n \in Whole' /\ log'[n] = log[n]
      BY <1>7 DEF SameLog, NoNews
    <3> QED BY <1>7, <3>1, <3>3, <3>4, CallStill
  <2> QED BY <2>0, <2>1, <2>2
<1>14. AllAtRest'
  <2> SUFFICES ASSUME NEW q \in PageNo, NEW t \in Slot, Touched(q, t)
               PROVE  (\E y \in Xid : Inserting(y, q, t)') \/ Settled(q, t)'
    BY <1>7, SameLogSays DEF AllAtRest
  <2>1. CASE q = p /\ t = s
    <3>1. Fits(new, p, s)'
      <4>1. Inserted(new.xmin, p, s)'
        BY <1>4, <1>5, <1>7, SameLogSays
      <4>2. \A y \in Xid : Deleted(y, p, s)' => Aborted(y)'
        BY <1>5, <1>7, SameLogSays DEF FatesKept
      <4> QED BY <1>4, <1>5, <1>11, <4>1, <4>2 DEF Fits
    <3> QED BY <1>4, <1>9, <2>1, <3>1 DEF Settled
  <2>2. CASE ~(q = p /\ t = s)
    <3>1. CASE \E y \in Xid : Inserting(y, q, t)
      BY <1>11, <3>1
    <3>2. CASE Settled(q, t)
      <4>1. PICK e \in Row : Shows(q, t, e) /\ Fits(e, q, t)
        BY <3>2 DEF Settled
      <4>2. Shows(q, t, e)'
        BY <1>9, <2>2, <4>1
      <4>3. Fits(e, q, t)'
        BY <1>7, <1>11, <4>1, SameLogSays, FitsStill
      <4> QED BY <4>2, <4>3 DEF Settled
    <3> QED BY <1>3, <3>1, <3>2 DEF Agreed, RowsSettled, AllAtRest
  <2> QED BY <2>1, <2>2
<1> QED BY <1>3, <1>8, <1>12, <1>13, <1>14, NotRecovering DEF Agreed, RowsSettled

LEMMA AgreedDeleteLog ==
  ASSUME Inv, AllLogged, Agreed, NEW x \in Xid, DeleteLog(x)
  PROVE  Agreed'
<1>0. PICK r : r = op[x]
  OBVIOUS
<1>1. /\ x \in DOMAIN op /\ ~r.insert /\ log' = Append(log, r) /\ op' = Without(op, x) /\ mode = "up"
      /\ work' = [work EXCEPT ![x].del = @ \cup {<<r.page, r.slot>>}]
      /\ UNCHANGED <<status, file, mem, mode, running, promised, vc>>
  BY <1>0 DEF DeleteLog, disk
<1>2. /\ r \in Calls /\ r \in LogRecord /\ r.page \in 1 .. Len(file) /\ r.slot \in Slot /\ r.page \in PageNo
      /\ r.xid = x /\ x \in running /\ r.bytes = "all"
  BY <1>0, <1>1, OpIsRunning, CallsInFile
<1>3. DeleteOpen(r)
  BY <1>1, <1>2 DEF Agreed, CallsOpen, CallOpen
<1>4. Added(r) /\ SaysMore /\ FatesKept /\ SameCommits /\ SameView
  BY <1>1, <1>2, AppendAdds, LogSaysMore, FatesUnchanged, ViewUnchanged DEF SameCommits
<1>5. \A y, q, s : /\ Inserted(y, q, s)' <=> Inserted(y, q, s)
                   /\ Deleted(y, q, s)' <=> Deleted(y, q, s) \/ (y = x /\ q = r.page /\ s = r.slot)
                   /\ Touched(q, s)' <=> Touched(q, s) \/ (q = r.page /\ s = r.slot)
  BY <1>1, <1>2, <1>4, AddedSays DEF At
<1>6. LogRight'
  <2>1. Images(r)'
    BY <1>1, <1>3, <1>4, ImagesStay DEF Images, DeleteOpen
  <2>2. ~Committed(r.xid)
    BY <1>2, RunningIsActive
  <2>3. \A n \in Whole : Beside(log[n], r) => log[n].insert \/ Aborted(log[n].xid)
    <3> SUFFICES ASSUME NEW n \in Whole, Beside(log[n], r), ~log[n].insert PROVE Aborted(log[n].xid)
      OBVIOUS
    <3>1. Deleted(log[n].xid, r.page, r.slot) /\ log[n].xid \in Xid
      BY RecordFacts DEF Deleted, Beside, At
    <3> QED BY <1>3, <3>1 DEF DeleteOpen
  <2> QED BY <1>1, <1>2, <1>4, <2>1, <2>2, <2>3, LogRightAdded DEF Agreed
<1>7. /\ x \notin DOMAIN op'
      /\ \A y : y # x => (y \in DOMAIN op' <=> y \in DOMAIN op) /\ (y \in DOMAIN op => op'[y] = op[y])
  BY <1>1 DEF Without
<1>8. /\ \A y, q, s : Inserting(y, q, s)' <=> Inserting(y, q, s)
      /\ \A y, q, s : Deleting(y, q, s) => Deleting(y, q, s)' \/ (y = x /\ q = r.page /\ s = r.slot)
  BY <1>0, <1>1, <1>7 DEF Inserting, Deleting, Calling, At
<1>9. WorkLogged'
  <2> SUFFICES ASSUME NEW y \in running, NEW q \in PageNo, NEW s \in Slot
               PROVE  (/\ <<q, s>> \in work[y].ins <=> Inserted(y, q, s) /\ ~Inserting(y, q, s)
                       /\ <<q, s>> \in work[y].del <=> Deleted(y, q, s))'
    BY <1>1 DEF WorkLogged
  <2>1. /\ <<q, s>> \in work[y].ins <=> Inserted(y, q, s) /\ ~Inserting(y, q, s)
        /\ <<q, s>> \in work[y].del <=> Deleted(y, q, s)
    BY DEF Agreed, WorkLogged
  <2>2. /\ work'[y].ins = work[y].ins
        /\ <<q, s>> \in work'[y].del <=> <<q, s>> \in work[y].del \/ (y = x /\ q = r.page /\ s = r.slot)
    <3>1. work \in [running -> Work]
      BY DEF Inv, TypeOK, Work
    <3>2. work'[y] = IF y = x THEN [work[x] EXCEPT !.del = @ \cup {<<r.page, r.slot>>}] ELSE work[y]
      BY <1>1, <3>1
    <3> QED BY <3>1, <3>2 DEF Work
  <2> QED BY <1>5, <1>8, <2>1, <2>2
<1>10. CallsOpen'
  <2>0. \A t \in Calls' : t \in Calls /\ t.xid # x
    <3> SUFFICES ASSUME NEW y \in DOMAIN op' PROVE op'[y] \in Calls /\ op'[y].xid # x
      BY DEF Calls
    <3>1. y # x /\ y \in DOMAIN op /\ op'[y] = op[y]
      BY <1>7
    <3> QED BY <3>1, OpIsRunning
  <2> SUFFICES ASSUME NEW t \in Calls, t.xid # x PROVE CallOpen(t)'
    BY <2>0 DEF CallsOpen
  <2>1. CallOpen(t) /\ t.page \in 1 .. Len(file)
    BY CallsInFile DEF Agreed, CallsOpen
  <2>2. ~(t.page = r.page /\ t.slot = r.slot)
    BY <1>2, <1>3, <2>1 DEF CallOpen, InsertOpen, DeleteOpen
  <2>3. SameRow(t.page, t.slot)
    BY <1>4, <2>1 DEF SameView, SameRow
  <2>4. NoNews(t.page, t.slot) /\ \A n \in Whole : n \in Whole' /\ log'[n] = log[n]
    BY <1>4, <2>2 DEF Added, NoNews, At
  <2> QED BY <1>4, <2>1, <2>3, <2>4, CallStill
<1>11. AllAtRest'
  <2> SUFFICES ASSUME NEW q \in PageNo, NEW s \in Slot, Touched(q, s)'
               PROVE  (\E y \in Xid : Inserting(y, q, s)') \/ Settled(q, s)'
    BY DEF AllAtRest
  <2>1. Touched(q, s)
    BY <1>3, <1>5 DEF DeleteOpen, DeleteImages, Inserted, Touched
  <2>2. CASE \E y \in Xid : Inserting(y, q, s)
    BY <1>8, <2>2
  <2>3. CASE Settled(q, s)
    <3>1. PICK e \in Row : Shows(q, s, e) /\ Fits(e, q, s)
      BY <2>3 DEF Settled
    <3>2. Shows(q, s, e)'
      BY <1>4, <3>1 DEF Shows, SameView
    <3>3. q = r.page /\ s = r.slot => e.xmax = x
      BY <1>2, <1>3, <3>1 DEF DeleteOpen, Shows
    <3>4. Fits(e, q, s)'
      BY <1>4, <1>5, <1>8, <3>1, <3>3, FitsStill
    <3> QED BY <3>2, <3>4 DEF Settled
  <2> QED BY <1>1, <2>1, <2>2, <2>3 DEF Agreed, RowsSettled, AllAtRest
<1> QED BY <1>1, <1>6, <1>9, <1>10, <1>11, NotRecovering DEF Agreed, RowsSettled

----------------------------------------------------------------------------
(* Recovery.                                                               *)

LEMMA RecoveryReads ==
  ASSUME Inv, mode \in {"truncate", "redo", "undo"}
  PROVE  /\ Whole = 1 .. Len(log) /\ Records = log /\ mem = <<>> /\ op = <<>> /\ running = {} /\ vc = "open"
         /\ \A p, s, e : Shows(p, s, e) <=> p \in 1 .. Len(file) /\ Holds(p, s, e)
<1>1. \A n \in 1 .. Len(log) : log[n].bytes = "all"
  BY DEF Inv, Control, Recorded
<1>2. Whole = 1 .. Len(log) /\ Records = log
  BY <1>1, WholeIsRead DEF Whole, Records
<1>3. mem = <<>> /\ op = <<>> /\ running = {} /\ vc = "open"
  BY IdleMemory DEF Inv, Control, Decided
<1>4. \A p : View(p) = file[p]
  BY <1>3 DEF View
<1> QED BY <1>2, <1>3, <1>4 DEF Shows, Holds

LEMMA RestoreHolds ==
  ASSUME Inv, NEW r, NEW image, r.page \in 1 .. Len(file), Restore(r, image)
  PROVE  /\ Holds(r.page, r.slot, image)' /\ Len(file') = Len(file)
         /\ \A q \in 1 .. Len(file) : \A t, f : Holds(q, t, f) /\ ~At(r, q, t) => Holds(q, t, f)'
<1>1. Len(file') = Len(file)
      /\ \A q \in 1 .. Len(file) : file'[q] = IF q = r.page THEN Put(file[q], r.slot, image) ELSE file[q]
  BY DEF Restore, Inv, TypeOK
<1>2. file'[r.page] = Put(file[r.page], r.slot, image)
  BY <1>1
<1>3. Holds(r.page, r.slot, image)'
  BY <1>2 DEF Holds, Put
<1>4. ASSUME NEW q \in 1 .. Len(file), NEW t, NEW f, Holds(q, t, f), ~At(r, q, t)
      PROVE  Holds(q, t, f)'
  <2>1. CASE q = r.page
    <3>1. t # r.slot
      BY <1>4, <2>1 DEF At
    <3> QED BY <1>2, <1>4, <2>1, <3>1 DEF Holds, Put
  <2>2. CASE q # r.page
    BY <1>1, <1>4, <2>2 DEF Holds
  <2> QED BY <2>1, <2>2
<1> QED BY <1>1, <1>3, <1>4

(* What the steps of recovery have in common.                              *)
LEMMA RecoverySame ==
  ASSUME Inv, Agreed, Recovering, SameCommits
  PROVE  /\ SameLog /\ FatesKept /\ SaysMore
         /\ LogRight' /\ WorkLogged' /\ CallsOpen'
         /\ mode' # "ready" => RowsSettled'
<1>1. /\ mode \in {"truncate", "redo", "undo"} /\ mode' \in {"redo", "undo", "ready"}
      /\ UNCHANGED <<log, op, running, work, promised, vc>>
  BY DEF Recovering, RecTruncate, Redo, RedoEnds, UndoBegins, Undo, UndoEnds, RecDone, disk, ghost
<1>2. SameLog /\ FatesKept
  BY <1>1, LogUnchanged, FatesStay DEF Next
<1>3. LogRight'
  BY <1>1, <1>2, LogRightKept DEF Agreed
<1>4. WorkLogged'
  BY <1>1, <1>2, WorkStill DEF Agreed
<1>5. CallsOpen'
  BY <1>1, RecoveryReads DEF CallsOpen, Calls
<1>6. mode' # "ready" => RowsSettled'
  BY <1>1, RecoveryReads DEF RowsSettled
<1> QED BY <1>2, <1>3, <1>4, <1>5, <1>6, LogSaysMore

LEMMA AgreedTruncate ==
  ASSUME Inv, Agreed, RecTruncate
  PROVE  Agreed'
<1>1. /\ mode = "truncate" /\ mode' = "redo" /\ at' = 1 /\ UNCHANGED <<status, log>>
      /\ file' = [p \in 1 .. LastPage |-> IF p \in DOMAIN file THEN file[p] ELSE <<>>]
  BY DEF RecTruncate
<1>2. SameCommits
  BY <1>1, FatesUnchanged DEF SameCommits
<1>3. LogRight' /\ WorkLogged' /\ CallsOpen' /\ RowsSettled' /\ SameLog
  BY <1>1, <1>2, RecoverySame DEF Recovering
<1>4. PagesThere'
  <2>1. LastPage \in 0 .. MaxPage /\ MaxPage \in Nat
    BY LastPageIsNumber, BoundsAreNumbers DEF Inv
  <2>2. Len(file') = LastPage
    BY <1>1, <2>1
  <2>3. Records = log /\ Whole = 1 .. Len(log)
    BY <1>1, RecoveryReads
  <2>4. \A n \in 1 .. Len(log) : log[n].page \in PageNo
    BY <2>3, RecordFacts
  <2>5. {0} \cup {Records[n].page : n \in 1 .. Len(Records)} \in SUBSET (0 .. MaxPage)
    BY <2>1, <2>3, <2>4 DEF PageNo
  <2>6. \A n \in 1 .. Len(log) : LastPage >= log[n].page
    BY <2>1, <2>3, <2>5, MaxIsGreatest DEF LastPage
  <2>7. \A n \in Whole : log[n].page \in 1 .. Len(file')
    BY <2>1, <2>2, <2>3, <2>4, <2>6 DEF PageNo
  <2> QED BY <1>3, <2>7 DEF PagesThere, SameLog
<1>5. Redone' /\ CalmSettled' /\ TakenBack'
  BY <1>1 DEF Redone, CalmSettled, TakenBack, Whole
<1> QED BY <1>3, <1>4, <1>5 DEF Agreed, Restored

LEMMA AgreedRedo ==
  ASSUME Inv, Agreed, Redo
  PROVE  Agreed'
<1>0. PICK r : r = log[at]
  OBVIOUS
<1>1. Records = log /\ Whole = 1 .. Len(log) /\ mode = "redo" /\ mode' = "redo" /\ at' = at + 1
      /\ UNCHANGED <<status, log>>
  BY RecoveryReads DEF Redo
<1>2. at \in 1 .. Len(log) /\ at \in Nat
  BY <1>1, Shapes DEF Redo, Inv, Control, Positions
<1>3. SameCommits
  BY <1>1, FatesUnchanged DEF SameCommits
<1>4. LogRight' /\ WorkLogged' /\ CallsOpen' /\ RowsSettled' /\ SameLog
  BY <1>1, <1>3, RecoverySame DEF Recovering
<1>5. r.page \in 1 .. Len(file) /\ \A n \in 1 .. Len(log) : log[n].page \in 1 .. Len(file)
  BY <1>0, <1>1, <1>2 DEF Agreed, Restored, PagesThere
<1>6. (status[r.xid] # "active" /\ Restore(r, r.new)) \/ (status[r.xid] = "active" /\ file' = file)
  BY <1>0, <1>1 DEF Redo
<1>7. /\ Len(file') = Len(file)
      /\ status[r.xid] # "active" => Holds(r.page, r.slot, r.new)'
      /\ \A q \in 1 .. Len(file) : \A t, f :
           Holds(q, t, f) /\ (At(r, q, t) => status[r.xid] = "active") => Holds(q, t, f)'
  BY <1>5, <1>6, RestoreHolds DEF Holds
<1>8. PagesThere'
  BY <1>1, <1>4, <1>5, <1>7 DEF PagesThere, SameLog
<1>9. Redone'
  <2> SUFFICES ASSUME NEW n \in Whole, n < at + 1, status[log[n].xid] # "active",
                      \A m \in Whole : n < m /\ m < at + 1 /\ Beside(log[m], log[n]) => status[log[m].xid] = "active"
               PROVE  Holds(log[n].page, log[n].slot, log[n].new)'
    BY <1>1, <1>4 DEF Redone, Beside, SameLog
  <2>1. CASE n = at
    BY <1>0, <1>1, <1>7, <2>1 DEF Holds
  <2>2. CASE n # at
    <3>1. n < at /\ at < at + 1 /\ at \in Whole /\ n \in 1 .. Len(log) /\ \A m \in Whole : m < at => m < at + 1
      BY <1>1, <1>2, <2>2
    <3>2. Holds(log[n].page, log[n].slot, log[n].new)
      BY <1>1, <3>1 DEF Agreed, Restored, Redone
    <3>3. At(r, log[n].page, log[n].slot) => status[r.xid] = "active"
      BY <1>0, <3>1 DEF At, Beside
    <3>4. log[n].page \in 1 .. Len(file)
      BY <1>5, <3>1
    <3>5. PICK q, t, f : q = log[n].page /\ t = log[n].slot /\ f = log[n].new
      OBVIOUS
    <3>6. Holds(q, t, f)'
      BY <1>7, <3>2, <3>3, <3>4, <3>5
    <3> QED BY <1>1, <3>5, <3>6 DEF Holds
  <2> QED BY <2>1, <2>2
<1>10. CalmSettled' /\ TakenBack'
  BY <1>1 DEF CalmSettled, TakenBack
<1> QED BY <1>4, <1>8, <1>9, <1>10 DEF Agreed, Restored

LEMMA GreatestNatural ==
  ASSUME NEW N \in Nat, NEW S \in SUBSET (1 .. N), S # {}
  PROVE  \E n \in S : \A m \in S : m <= n
<1>1. {0} \cup S \in SUBSET (0 .. N)
  OBVIOUS
<1>2. PICK n \in {0} \cup S : \A m \in {0} \cup S : n >= m
  BY <1>1, MaxIsGreatest
<1>3. PICK k \in S : k \in 1 .. N
  OBVIOUS
<1>4. n # 0 /\ n \in Nat
  BY <1>1, <1>2, <1>3
<1> QED BY <1>2, <1>4

(* The last image of a place no active transaction wrote to.               *)
LEMMA LastImageFits ==
  ASSUME Inv, LogRight, NEW p \in PageNo, NEW s \in Slot, NEW n \in Whole, At(log[n], p, s),
         \A m \in Whole : At(log[m], p, s) => m <= n
  PROVE  Fits(log[n].new, p, s) /\ log[n].new \in Row
<1>1. PICK r : r = log[n]
  OBVIOUS
<1>2. Images(r) /\ r \in LogRecord /\ r.xid \in Xid /\ r.old \in Row /\ r.new \in Row
  BY <1>1, RecordFacts DEF LogRight, ImagesRight, WholeRecords
(* Deletions before it were aborted.                                       *)
<1>3. ASSUME NEW x \in Xid, Deleted(x, p, s)
      PROVE  (~r.insert /\ x = r.xid) \/ (~r.insert /\ Aborted(x))
  <2>1. PICK m \in Whole : ~log[m].insert /\ log[m].xid = x /\ At(log[m], p, s)
    BY <1>3 DEF Deleted
  <2>2. m = n \/ m < n
    BY <2>1, RecordFacts
  <2> QED BY <1>1, <2>1, <2>2 DEF LogRight, InTurn, Beside, At
<1>4. CASE r.insert
  <2>1. r.new.xmin = r.xid /\ r.new.xmax = SuperXid /\ r.new.valid
    BY <1>2, <1>4 DEF Images, InsertImages, Item
  <2>2. Inserted(r.new.xmin, p, s)
    BY <1>1, <1>4, <2>1 DEF Inserted
  <2> QED BY <1>1, <1>2, <1>3, <1>4, <2>1, <2>2 DEF Fits
<1>5. CASE ~r.insert
  <2>1. r.new.xmin = r.old.xmin /\ r.new.xmax = r.xid /\ r.new.valid /\ Inserted(r.old.xmin, p, s)
    BY <1>1, <1>2, <1>5 DEF Images, DeleteImages, At, Row
  <2>2. Deleted(r.xid, p, s)
    BY <1>1, <1>5 DEF Deleted
  <2> QED BY <1>1, <1>2, <1>3, <2>1, <2>2 DEF Fits
<1> QED BY <1>4, <1>5

LEMMA AgreedRedoEnds ==
  ASSUME Inv, Agreed, RedoEnds
  PROVE  Agreed'
<1>1. /\ Records = log /\ Whole = 1 .. Len(log) /\ mem = <<>> /\ mode = "redo" /\ mode' = "undo"
      /\ at > Len(log) /\ undoing = 0 /\ UNCHANGED <<status, log, file, mem, op, undoing>>
  BY RecoveryReads DEF RedoEnds, disk, Inv, Control, Positions
<1>2. SameCommits
  BY <1>1, FatesUnchanged DEF SameCommits
<1>3. LogRight' /\ WorkLogged' /\ CallsOpen' /\ RowsSettled' /\ SameLog /\ SaysMore /\ FatesKept
  BY <1>1, <1>2, RecoverySame DEF Recovering
<1>4. PagesThere'
  BY <1>1, <1>3 DEF PagesThere, SameLog, Agreed, Restored
<1>5. CalmSettled'
  <2> SUFFICES ASSUME NEW p \in PageNo, NEW s \in Slot, Touched(p, s), Calm(p, s)
               PROVE  Settled(p, s)'
    BY <1>1, <1>3, SameLogSays DEF CalmSettled, Calm, SameLog, At
  <2>1. PICK n \in {n \in Whole : At(log[n], p, s)} : \A m \in {m \in Whole : At(log[m], p, s)} : m <= n
    <3>1. {n \in Whole : At(log[n], p, s)} \in SUBSET (1 .. Len(log)) /\ Len(log) \in Nat
      BY <1>1, Shapes DEF Inv
    <3>2. {n \in Whole : At(log[n], p, s)} # {}
      BY DEF Touched
    <3> QED BY <3>1, <3>2, GreatestNatural
  <2>2. Fits(log[n].new, p, s) /\ log[n].new \in Row
    BY <2>1, LastImageFits DEF Agreed
  <2>3. Holds(p, s, log[n].new)
    <3>1. n < at /\ status[log[n].xid] # "active" /\ n \in Nat
      BY <1>1, <2>1, Shapes DEF Calm, Inv
    <3>2. \A m \in Whole : n < m /\ m < at /\ Beside(log[m], log[n]) => FALSE
      BY <1>1, <2>1, <3>1 DEF Beside, At
    <3> QED BY <1>1, <2>1, <3>1, <3>2 DEF Agreed, Restored, Redone, At
  <2>4. p \in 1 .. Len(file)
    BY <1>1, <2>1 DEF Agreed, Restored, PagesThere, At
  <2>5. PICK e : e = log[n].new
    OBVIOUS
  <2>6. Shows(p, s, e)
    BY <1>1, <2>3, <2>4, <2>5, RecoveryReads
  <2>7. Shows(p, s, e)'
    BY <1>1, <2>6 DEF Shows, View
  <2>8. Fits(e, p, s)'
    BY <1>1, <1>3, <2>2, <2>5, SameLogSays, FitsStill DEF Deleting, Calling
  <2> QED BY <2>2, <2>5, <2>7, <2>8 DEF Settled
<1>6. Redone' /\ TakenBack'
  BY <1>1 DEF Redone, TakenBack
<1> QED BY <1>3, <1>4, <1>5, <1>6 DEF Agreed, Restored
LEMMA SettledStays ==
  ASSUME SameLog, FatesKept, op' = op, mem = <<>>, mem' = <<>>, Len(file') = Len(file),
         NEW p, NEW s, Settled(p, s), \A e : Holds(p, s, e) => Holds(p, s, e)'
  PROVE  Settled(p, s)'
<1>1. PICK e \in Row : Shows(p, s, e) /\ Fits(e, p, s)
  BY DEF Settled
<1>2. Shows(p, s, e)'
  BY <1>1 DEF Shows, View, Holds
<1>3. Fits(e, p, s)'
  BY <1>1, LogSaysMore, SameLogSays, FitsStill DEF Deleting, Calling
<1> QED BY <1>2, <1>3 DEF Settled

(* Undo has not begun with a transaction, or is done with all.             *)
LEMMA AgreedUndoTurns ==
  ASSUME Inv, Agreed, RecDone \/ \E x \in Xid : UndoBegins(x)
  PROVE  Agreed'
<1>1. /\ Records = log /\ Whole = 1 .. Len(log) /\ mem = <<>> /\ mode = "undo"
      /\ UNCHANGED <<status, log, file, mem, op>>
  BY RecoveryReads DEF RecDone, UndoBegins, disk
<1>2. SameCommits
  BY <1>1, FatesUnchanged DEF SameCommits
<1>3. LogRight' /\ WorkLogged' /\ CallsOpen' /\ (mode' # "ready" => RowsSettled') /\ SameLog /\ FatesKept
  BY <1>1, <1>2, RecoverySame DEF Recovering
<1>4. \A p, s : Settled(p, s) => Settled(p, s)'
  BY <1>1, <1>3, SettledStays DEF Holds
<1>5. CASE RecDone
  <2>1. mode' = "ready" /\ ToUndo = {}
    BY <1>5 DEF RecDone
  <2>2. \A n \in Whole : status[log[n].xid] # "active"
    BY <1>1, <2>1 DEF ToUndo
  <2>3. \A p \in PageNo, s \in Slot : Touched(p, s) => Settled(p, s)
    BY <1>1, <2>2 DEF Agreed, Restored, CalmSettled, Calm
  <2>4. RowsSettled'
    BY <1>3, <1>4, <2>3, SameLogSays DEF RowsSettled, AllAtRest
  <2> QED BY <1>3, <2>1, <2>4, NotRecovering DEF Agreed
<1>6. ASSUME NEW x \in Xid, UndoBegins(x)
      PROVE  Agreed'
  <2>1. mode' = "undo" /\ at' = Len(log)
    BY <1>1, <1>6 DEF UndoBegins
  <2>2. PagesThere'
    BY <1>1, <1>3 DEF PagesThere, SameLog, Agreed, Restored
  <2>3. CalmSettled'
    BY <1>1, <1>3, <1>4, SameLogSays DEF CalmSettled, Calm, SameLog, At, Agreed, Restored
  <2>4. TakenBack'
    <3>1. Len(log) \in Nat
      BY Shapes DEF Inv
    <3>2. {n \in at' + 1 .. Len(log') : TRUE} = {}
      BY <1>1, <2>1, <3>1
    <3> QED BY <3>2 DEF TakenBack
  <2>5. Redone'
    BY <2>1 DEF Redone
  <2> QED BY <1>3, <2>1, <2>2, <2>3, <2>4, <2>5 DEF Agreed, Restored
<1> QED BY <1>5, <1>6

LEMMA AgreedUndo ==
  ASSUME Inv, Agreed, Undo
  PROVE  Agreed'
<1>0. PICK r : r = log[at]
  OBVIOUS
<1>1. /\ Records = log /\ Whole = 1 .. Len(log) /\ mem = <<>> /\ mode = "undo" /\ mode' = "undo"
      /\ at > 0 /\ undoing # 0 /\ at' = at - 1 /\ UNCHANGED <<status, log, mem, op, undoing>>
  BY RecoveryReads DEF Undo
<1>2. at \in 1 .. Len(log) /\ at \in Nat /\ Len(log) \in Nat /\ at' + 1 = at
  BY <1>1, Shapes DEF Undo, Inv, Control, Positions
<1>3. SameCommits
  BY <1>1, FatesUnchanged DEF SameCommits
<1>4. LogRight' /\ WorkLogged' /\ CallsOpen' /\ RowsSettled' /\ SameLog /\ FatesKept
  BY <1>1, <1>3, RecoverySame DEF Recovering
<1>5. r.page \in 1 .. Len(file) /\ \A n \in 1 .. Len(log) : log[n].page \in 1 .. Len(file)
  BY <1>0, <1>1, <1>2 DEF Agreed, Restored, PagesThere
<1>6. (r.xid = undoing /\ Restore(r, r.old)) \/ (r.xid # undoing /\ file' = file)
  BY <1>0, <1>1 DEF Undo
<1>7. /\ Len(file') = Len(file)
      /\ r.xid = undoing => Holds(r.page, r.slot, r.old)'
      /\ \A q \in 1 .. Len(file) : \A t, f :
           Holds(q, t, f) /\ (At(r, q, t) => r.xid # undoing) => Holds(q, t, f)'
  BY <1>5, <1>6, RestoreHolds DEF Holds
<1>8. PagesThere'
  BY <1>1, <1>4, <1>5, <1>7 DEF PagesThere, SameLog
<1>9. TakenBack'
  <2> SUFFICES ASSUME NEW n \in at .. Len(log), log[n].xid = undoing,
                      \A m \in at .. n - 1 : Beside(log[m], log[n]) => log[m].xid # undoing
               PROVE  Holds(log[n].page, log[n].slot, log[n].old)'
    BY <1>1, <1>2 DEF TakenBack, Beside
  <2>1. CASE n = at
    BY <1>0, <1>1, <1>7, <2>1 DEF Holds
  <2>2. CASE n # at
    <3>1. n \in at + 1 .. Len(log) /\ at \in at .. n - 1 /\ n \in 1 .. Len(log) /\ at + 1 .. n - 1 \subseteq at .. n - 1
      BY <1>2, <2>2
    <3>2. Holds(log[n].page, log[n].slot, log[n].old)
      BY <1>1, <3>1 DEF Agreed, Restored, TakenBack
    <3>3. At(r, log[n].page, log[n].slot) => r.xid # undoing
      BY <1>0, <3>1 DEF At, Beside
    <3>4. log[n].page \in 1 .. Len(file)
      BY <1>5, <3>1
    <3>5. PICK q, t, f : q = log[n].page /\ t = log[n].slot /\ f = log[n].old
      OBVIOUS
    <3>6. Holds(q, t, f)'
      BY <1>7, <3>2, <3>3, <3>4, <3>5
    <3> QED BY <1>1, <3>5, <3>6 DEF Holds
  <2> QED BY <2>1, <2>2
(* A place that is calm has no record of the transaction that is undone.   *)
<1>10. CalmSettled'
  <2> SUFFICES ASSUME NEW p \in PageNo, NEW s \in Slot, Touched(p, s), Calm(p, s)
               PROVE  Settled(p, s)'
    BY <1>1, <1>4, SameLogSays DEF CalmSettled, Calm, SameLog, At
  <2>1. Settled(p, s)
    BY <1>1 DEF Agreed, Restored, CalmSettled
  <2>2. At(r, p, s) => r.xid # undoing
    BY <1>0, <1>1, <1>2 DEF Calm, Inv, Control, Undone
  <2>3. \A e : Holds(p, s, e) => Holds(p, s, e)'
    BY <1>7, <2>1, <2>2 DEF Settled, Shows
  <2> QED BY <1>1, <1>4, <1>7, <2>1, <2>3, SettledStays
<1>11. Redone'
  BY <1>1 DEF Redone
<1> QED BY <1>4, <1>8, <1>9, <1>10, <1>11 DEF Agreed, Restored

(* What the first record of an active transaction found at a place.        *)
LEMMA FirstImageFits ==
  ASSUME Inv, LogRight, FatesKept, SameLog, op' = op, NEW p \in PageNo, NEW s \in Slot, NEW x,
         status[x] = "active", Aborted(x)', NEW n \in Whole, At(log[n], p, s), log[n].xid = x,
         \A m \in Whole : At(log[m], p, s) /\ log[m].xid = x => n <= m,
         NEW old, old = log[n].old
  PROVE  Fits(old, p, s)' /\ old \in Row
<1>1. PICK r : r = log[n]
  OBVIOUS
<1>2. Images(r) /\ r \in LogRecord /\ r.xid = x /\ r.old \in Row /\ x \in 1 .. Len(status) /\ x \in Xid
  BY <1>1, RecordFacts DEF LogRight, ImagesRight, WholeRecords
<1>3. ~Committed(x) /\ ~Aborted(x)
  BY <1>2, FateOfRecord
<1>4. old = r.old
  BY <1>1
<1>5. CASE r.insert
  <2>1. old.xmin = x /\ old.xmax = SuperXid
    BY <1>2, <1>4, <1>5 DEF Images, InsertImages, Item
  <2>2. Inserted(x, p, s)
    BY <1>1, <1>2, <1>5 DEF Inserted
  <2>3. \A y \in Xid : Deleted(y, p, s) => y = x
    BY <1>3, <2>2, WhoDeletes
  <2>4. Fits(old, p, s)'
    BY <2>1, <2>2, <2>3, SameLogSays DEF Fits
  <2> QED BY <1>2, <1>4, <2>4
<1>6. CASE ~r.insert
  <2>1. /\ old.valid /\ Inserted(old.xmin, p, s)
        /\ old.xmax = SuperXid \/ Aborted(old.xmax)
    BY <1>1, <1>2, <1>4, <1>6 DEF Images, DeleteImages, At
  <2>2. ASSUME NEW y \in Xid, Deleted(y, p, s)
        PROVE  y = x \/ Aborted(y)
    <3>1. PICK m \in Whole : ~log[m].insert /\ log[m].xid = y /\ At(log[m], p, s)
      BY <2>2 DEF Deleted
    <3>2. m = n \/ m < n \/ n < m
      BY RecordFacts
    <3> QED BY <1>1, <1>2, <1>3, <1>6, <3>1, <3>2 DEF LogRight, InTurn, Beside, At
  <2>3. Fits(old, p, s)'
    BY <2>1, <2>2, SameLogSays DEF Fits, FatesKept
  <2> QED BY <1>2, <1>4, <2>3
<1> QED BY <1>5, <1>6
(* The transaction is aborted: its places are as it first found them.      *)
LEMMA AgreedUndoEnds ==
  ASSUME Inv, Agreed, UndoEnds
  PROVE  Agreed'
<1>1. /\ Records = log /\ Whole = 1 .. Len(log) /\ mem = <<>> /\ mode = "undo" /\ mode' = "undo"
      /\ undoing # 0 /\ undoing' = 0 /\ at = 0 /\ status' = [status EXCEPT ![undoing] = "aborted"]
      /\ UNCHANGED <<log, file, mem, op>>
  BY RecoveryReads DEF UndoEnds
<1>2. /\ Len(status') = Len(status)
      /\ \A y \in 1 .. Len(status) : status'[y] = IF y = undoing THEN "aborted" ELSE status[y]
  BY <1>1, Shapes DEF Inv
<1>0. PICK x : x = undoing
  OBVIOUS
<1>3. status[x] = "active" /\ x \in 1 .. Len(status) /\ Aborted(x)'
  <2>1. status[x] = "active" /\ x \in 1 .. header
    BY <1>0, <1>1 DEF Inv, Control, Undone
  <2>2. x \in 1 .. Len(status)
    BY <2>1, Shapes DEF Inv, Control, Counted
  <2> QED BY <1>0, <1>2, <2>1, <2>2 DEF Aborted
<1>4. SameCommits
  BY <1>0, <1>2, <1>3 DEF SameCommits, Committed
<1>5. LogRight' /\ WorkLogged' /\ CallsOpen' /\ RowsSettled' /\ SameLog /\ FatesKept
  BY <1>1, <1>4, RecoverySame DEF Recovering
<1>6. PagesThere'
  BY <1>1, <1>5 DEF PagesThere, SameLog, Agreed, Restored
<1>7. CalmSettled'
  <2> SUFFICES ASSUME NEW p \in PageNo, NEW s \in Slot, Touched(p, s),
                      \A n \in Whole : At(log[n], p, s) => status'[log[n].xid] # "active"
               PROVE  Settled(p, s)'
    BY <1>1, <1>5, SameLogSays DEF CalmSettled, Calm, SameLog, At
  <2> DEFINE Own == {n \in Whole : At(log[n], p, s) /\ log[n].xid = x}
  <2>1. CASE Own = {}
    <3>1. Calm(p, s)
      BY <1>0, <1>2, <2>1, RecordFacts DEF Calm
    <3>2. Settled(p, s)
      BY <1>1, <3>1 DEF Agreed, Restored, CalmSettled
    <3> QED BY <1>1, <1>5, <3>2, SettledStays DEF Holds
  <2>2. CASE Own # {}
    <3>1. PICK n \in Own : \A m \in Own : n <= m
      <4>1. Own \in SUBSET Nat
        BY <1>1
      <4> QED BY <2>2, <4>1, LeastNatural
    <3>2. n \in Whole /\ At(log[n], p, s) /\ log[n].xid = x /\ n \in 1 .. Len(log)
      BY <1>1, <3>1
    <3>3. \A m \in Whole : At(log[m], p, s) /\ log[m].xid = x => n <= m
      BY <3>1
    <3> HIDE DEF Own
    <3>4. PICK old : old = log[n].old
      OBVIOUS
    <3>5. Fits(old, p, s)' /\ old \in Row
      BY <1>1, <1>3, <1>5, <3>2, <3>3, <3>4, FirstImageFits DEF Agreed
    <3>6. Holds(p, s, old)
      <4>1. n \in at + 1 .. Len(log) /\ n \in Nat
        BY <1>1, <3>2
      <4>2. \A m \in at + 1 .. n - 1 : Beside(log[m], log[n]) => log[m].xid # x
        <5> SUFFICES ASSUME NEW m \in at + 1 .. n - 1, Beside(log[m], log[n]), log[m].xid = x
                     PROVE  FALSE
          OBVIOUS
        <5>1. m \in Whole /\ m < n /\ m \in Nat
          BY <1>1, <3>2
        <5>2. At(log[m], p, s)
          BY <3>2 DEF Beside, At
        <5> QED BY <3>3, <4>1, <5>1, <5>2
      <4> QED BY <1>0, <1>1, <3>2, <3>4, <4>1, <4>2 DEF Agreed, Restored, TakenBack, At
    <3>7. p \in 1 .. Len(file)
      BY <1>1, <3>2 DEF Agreed, Restored, PagesThere, At
    <3>8. Shows(p, s, old)'
      BY <1>1, <3>6, <3>7 DEF Shows, View, Holds
    <3> QED BY <3>5, <3>8 DEF Settled
  <2> QED BY <2>1, <2>2
<1>8. Redone' /\ TakenBack'
  BY <1>1 DEF Redone, TakenBack
<1> QED BY <1>5, <1>6, <1>7, <1>8 DEF Agreed, Restored

----------------------------------------------------------------------------
LEMMA AgreedInductive == Inv /\ AllLogged /\ Agreed /\ [Next]_vars => Agreed'
<1> SUFFICES ASSUME Inv, AllLogged, Agreed, [Next]_vars PROVE Agreed'
  OBVIOUS
<1>1. CASE BeginStatus \/ BeginCounter \/ NewPage
  BY <1>1, AgreedBeginStatus, AgreedBeginCounter, AgreedNewPage
<1>2. CASE Close \/ Crash \/ Open \/ OpenFails \/ Opened
  BY <1>2, AgreedRestart
<1>3. CASE Recovering
  BY <1>3, AgreedTruncate, AgreedRedo, AgreedRedoEnds, AgreedUndoTurns, AgreedUndo, AgreedUndoEnds DEF Recovering
<1>4. ASSUME NEW x \in Xid, Commit(x) \/ Abort(x) \/ (\E p \in PageNo : InsertLog(x, p)) \/ InsertPage(x) \/ DeleteLog(x)
      PROVE  Agreed'
  BY <1>4, AgreedCommit, AgreedAbort, AgreedInsertLog, AgreedInsertPage, AgreedDeleteLog
<1>5. ASSUME NEW x \in Xid, NEW p \in 1 .. Len(file), NEW s \in Slot, DeletePage(x, p, s)
      PROVE  Agreed'
  BY <1>5, AgreedDeletePage
<1>6. ASSUME NEW p \in PageNo, Evict(p)
      PROVE  Agreed'
  BY <1>6, AgreedEvict
<1>7. CASE UNCHANGED vars
  <2>1. UNCHANGED <<log, status, file, mem, op, mode, running, work, promised, vc, at, undoing>>
    BY <1>7 DEF vars, disk, recovery, ghost
  <2>2. SameLog /\ FatesKept /\ SameCommits /\ SameView
    BY <2>1, LogUnchanged, FatesUnchanged, ViewUnchanged DEF SameCommits
  <2>3. LogRight' /\ WorkLogged'
    BY <2>1, <2>2, LogRightKept, WorkStill DEF Agreed
  <2>4. CallsOpen' /\ RowsSettled'
    BY <2>1, <2>2, QuietStep DEF Agreed, RowsSettled
  <2>5. Restored'
    <3>1. \A p, s : (Settled(p, s)' <=> Settled(p, s)) /\ (Calm(p, s)' <=> Calm(p, s)) /\ (Touched(p, s)' <=> Touched(p, s))
      BY <2>1 DEF Settled, Shows, Fits, View, Inserted, Deleted, Touched, Whole, Deleting, Calling, Aborted, Calm, At
    <3>2. CalmSettled'
      BY <2>1, <3>1 DEF Agreed, Restored, CalmSettled
    <3> QED BY <2>1, <3>2 DEF Agreed, Restored, PagesThere, Redone, TakenBack, Holds, Whole, Beside
  <2> QED BY <2>3, <2>4, <2>5 DEF Agreed
<1> QED BY <1>1, <1>2, <1>3, <1>4, <1>5, <1>6, <1>7 DEF Next

(* Where the pages agree with the log, a row is shown exactly when the log *)
(* and the status bytes say that it is left.                               *)
LEMMA ShownIsLeft ==
  ASSUME Inv, AllLogged, Agreed, mode = "up", NEW p \in 1 .. Len(file), NEW s \in Slot
  PROVE  Shown(p, s) <=> p \in PageNo /\ Left(p, s)
<1>1. ASSUME Shown(p, s)
      PROVE  p \in PageNo /\ Left(p, s)
  <2>1. s \in DOMAIN View(p) /\ Settled(p, s) /\ p \in PageNo
    BY <1>1, ShownIsSettled DEF Shown
  <2>2. PICK e \in Row : e = View(p)[s] /\ Fits(e, p, s)
    BY <2>1 DEF Settled, Shows
  <2>3. e.valid /\ ReadCommitted(status, [xid |-> MaxXid + 1], e)
    BY <1>1, <2>2 DEF Shown
  <2>4. Inserted(e.xmin, p, s) /\ e.xmin \in Xid /\ e.xmin \in 1 .. Len(status)
    BY <2>2, SayersKnown DEF Fits
  <2>5. e.xmin # MaxXid + 1 /\ e.xmin # 0
    BY <2>4, BoundsAreNumbers DEF Xid
  <2>6. Committed(e.xmin) /\ (e.xmax = 0 \/ ~Committed(e.xmax))
    BY <2>3, <2>4, <2>5 DEF ReadCommitted, IsCommitted, SuperXid, Committed
  <2>7. \A x \in Xid : Deleted(x, p, s) => ~Committed(x)
    <3> SUFFICES ASSUME NEW x \in Xid, Deleted(x, p, s), Committed(x) PROVE FALSE
      OBVIOUS
    <3>1. x # 0 /\ ~Aborted(x)
      BY FateOfRecord DEF Committed, Xid
    <3> QED BY <2>2, <2>6, <3>1 DEF Fits
  <2> QED BY <2>1, <2>4, <2>6, <2>7 DEF Left
<1>2. ASSUME p \in PageNo, Left(p, s)
      PROVE  Shown(p, s)
  <2>1. PICK x \in Xid : Inserted(x, p, s) /\ Committed(x)
    BY <1>2 DEF Left
  <2>2. ASSUME NEW y, Inserting(y, p, s)
        PROVE  FALSE
    <3>1. y \in running /\ op[y] \in Calls /\ op[y].xid = y /\ InsertOpen(op[y])
      BY <2>2, OpIsRunning DEF Inserting, Calling, Agreed, CallsOpen, CallOpen
    <3>2. PICK n \in Whole : log[n].xid = x /\ At(log[n], p, s)
      BY <2>1 DEF Inserted
    <3>3. log[n] = op[y]
      BY <2>2, <3>1, <3>2 DEF InsertOpen, Inserting, Calling, At, Beside
    <3> QED BY <2>1, <3>1, <3>2, <3>3, RunningIsActive
  <2>3. Settled(p, s)
    BY <1>2, <2>1, <2>2, SayersKnown DEF Agreed, RowsSettled, AllAtRest
  <2>4. PICK e \in Row : Shows(p, s, e) /\ Fits(e, p, s)
    BY <2>3 DEF Settled
  (* The version shown is the one that x inserted.                         *)
  <2>5. e.xmin = x
    <3>1. PICK m \in Whole : log[m].insert /\ log[m].xid = e.xmin /\ At(log[m], p, s)
      BY <2>4 DEF Fits, Inserted
    <3>2. PICK n \in Whole : log[n].insert /\ log[n].xid = x /\ At(log[n], p, s)
      BY <2>1 DEF Inserted
    <3> QED BY <3>1, <3>2, OneInsert DEF Agreed, Beside, At
  <2>6. ~Aborted(x) /\ x # 0 /\ status[x] = "committed"
    BY <2>1, FateOfRecord DEF Committed, Xid
  <2>7. e.valid
    BY <2>4, <2>5, <2>6 DEF Fits
  <2>8. e.xmax = 0 \/ status[e.xmax] # "committed"
    <3> SUFFICES ASSUME e.xmax # 0, status[e.xmax] = "committed" PROVE FALSE
      OBVIOUS
    <3>1. CASE Deleted(e.xmax, p, s)
      <4>1. e.xmax \in Xid /\ e.xmax \in 1 .. Len(status)
        BY <3>1, SayersKnown
      <4> QED BY <1>2, <3>1, <4>1 DEF Left, Committed
    <3>2. CASE Deleting(e.xmax, p, s)
      BY <3>2, OpIsRunning, RunningIsActive DEF Deleting, Calling
    <3>3. CASE Aborted(e.xmax)
      BY <3>3 DEF Aborted
    <3> QED BY <2>4, <3>1, <3>2, <3>3 DEF Fits, SuperXid
  <2>9. e.xmax # MaxXid + 1
    BY BoundsAreNumbers DEF Row, Xid, SuperXid
  <2>10. ReadCommitted(status, [xid |-> MaxXid + 1], e)
    BY <2>5, <2>6, <2>8, <2>9 DEF ReadCommitted, IsCommitted, SuperXid
  <2> QED BY <2>4, <2>7, <2>10 DEF Shown, Shows
<1> QED BY <1>1, <1>2

(* Whenever the database is open, a transaction that begins reads exactly  *)
(* the rows that committed transactions have left, over any number of      *)
(* crashes, in the middle of a write to the log or of a recovery too       *)
(* (Recover.java:88).                                                      *)
THEOREM CommitsSurvive == Spec => []Durable
<1>1. Inv /\ AllLogged /\ Agreed => Durable
  <2> SUFFICES ASSUME Inv, AllLogged, Agreed, mode = "up" PROVE Visible = promised
    BY DEF Durable
  <2>1. ASSUME NEW p \in PageNo, NEW s \in Slot, Left(p, s)
        PROVE  p \in 1 .. Len(file)
    <3>1. PICK x \in Xid : Inserted(x, p, s) /\ Committed(x)
      BY <2>1 DEF Left
    <3>2. CASE Settled(p, s)
      BY <3>2 DEF Settled, Shows
    <3>3. ASSUME NEW y \in Xid, Inserting(y, p, s)
          PROVE  p \in 1 .. Len(file)
      BY <3>3, OpIsRunning, CallsInFile DEF Inserting, Calling, At
    <3> QED BY <3>1, <3>2, <3>3, SayersKnown DEF Agreed, RowsSettled, AllAtRest
  <2>2. \A p \in 1 .. Len(file), s \in Slot : Shown(p, s) <=> p \in PageNo /\ Left(p, s)
    BY ShownIsLeft
  <2>3. \A p \in PageNo, s \in Slot : <<p, s>> \in promised <=> Left(p, s)
    BY DEF Agreed, LogRight, PromisedLeft
  <2>4. promised \subseteq PageNo \X Slot
    BY DEF Inv, TypeOK
  <2>5. ASSUME NEW row \in Visible
        PROVE  row \in promised
    <3>1. PICK p \in 1 .. Len(file), s \in Slot : row = <<p, s>> /\ Shown(p, s)
      BY DEF Visible
    <3> QED BY <2>2, <2>3, <3>1
  <2>6. ASSUME NEW row \in promised
        PROVE  row \in Visible
    <3>1. PICK p \in PageNo, s \in Slot : row = <<p, s>>
      BY <2>4
    <3>2. p \in 1 .. Len(file) /\ Shown(p, s)
      BY <2>1, <2>2, <2>3, <3>1
    <3> QED BY <3>1, <3>2 DEF Visible
  <2> QED BY <2>5, <2>6
<1>2. Init => Inv /\ AllLogged /\ Agreed
  BY TypeInit, ControlInit, AllLoggedInit, AgreedInit DEF Inv
<1> QED BY <1>1, <1>2, InvInductive, AllLoggedInductive, AgreedInductive, PTL DEF Spec
=============================================================================
