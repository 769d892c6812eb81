--------------------------- MODULE WebConsoleProofs ---------------------------
(***************************************************************************)
(* Terminal pages, other clients and the front end keep their promises for *)
(* any number of pages, connections, users and commands: the prompt comes  *)
(* back, the answers of a connection stay in order, and the inits of a user*)
(* that meet nothing share one database.                                   *)
(***************************************************************************)
EXTENDS WebConsole, FiniteSetTheorems, TLAPS

----------------------------------------------------------------------------
(* The pages.  A run in progress is in runs until it ends, and its end      *)
(* takes the page out of isPrinting, so that a page without a prompt has    *)
(* one that prints.                                                         *)

HistoryTyped ==
  /\ entered \in [Page -> 0..MaxTyped] /\ historyCmdIndex \in [Page -> Int]
  /\ \A p \in Page : \/ historyCmdIndex[p] \in 0..entered[p]
                     \/ historyCmdIndex[p] = -1 /\ entered[p] = 0
RunsTyped == DOMAIN runs = Page /\ \A p \in Page : IsMap(runs[p], 0..MaxTyped, 0..Lines)
PageInv ==
  /\ mounted \subseteq Page /\ isPrinting \subseteq Page
  /\ HistoryTyped /\ RunsTyped
  /\ socket \in [Page -> {"none", "connecting", "open", "closed"}]
  /\ \A p \in isPrinting : DOMAIN runs[p] # {}

(* What any step of the page p may change.                                 *)
Moving(p) ==
  \/ Printing(p) \/ ArrowUp(p) \/ ArrowDown(p)
  \/ EnterBuiltin(p) \/ EnterDynamic(p) \/ EnterTooEarly(p) \/ EnterUnsent(p) \/ EnterStatement(p)
  \/ SocketOpens(p) \/ SocketCloses(p)

LEMMA PrintingKeeps ==
  ASSUME PageInv, NEW p \in Page, Printing(p)
  PROVE  PageInv'
<1>1. PICK r \in DOMAIN runs[p] : RunPrints(p, r) \/ RunEnds(p, r)
  BY DEF Printing
<1>2. IsMap(runs[p], 0..MaxTyped, 0..Lines)
  BY DEF PageInv, RunsTyped
<1>3. CASE RunPrints(p, r)
  <2>1. /\ DOMAIN runs' = Page /\ \A q \in Page \ {p} : runs'[q] = runs[q]
        /\ DOMAIN runs'[p] = DOMAIN runs[p] /\ \A e \in DOMAIN runs[p] : runs'[p][e] \in 0..Lines
        /\ runs'[p] = [e \in DOMAIN runs[p] |-> runs'[p][e]]
    <3>1. PICK m : m = [runs[p] EXCEPT ![r] = @ - 1]
      OBVIOUS
    <3>2. /\ DOMAIN m = DOMAIN runs[p] /\ \A e \in DOMAIN runs[p] : m[e] \in 0..Lines
          /\ m = [e \in DOMAIN runs[p] |-> m[e]]
      BY <1>1, <1>2, <1>3, <3>1, LinesAreCounted DEF RunPrints, IsMap
    <3>3. runs' = [runs EXCEPT ![p] = m]
      BY <1>3, <3>1 DEF RunPrints
    <3> QED BY <3>2, <3>3 DEF PageInv, RunsTyped
  <2>2. IsMap(runs[p], 0..MaxTyped, 0..Lines)'
    BY <1>2, <2>1 DEF IsMap
  <2>3. RunsTyped'
    BY <2>1, <2>2 DEF RunsTyped, PageInv, IsMap
  <2> QED BY <1>3, <2>1, <2>3 DEF RunPrints, PageInv, HistoryTyped, historyVars
<1>4. CASE RunEnds(p, r)
  <2>1. /\ DOMAIN runs' = Page /\ \A q \in Page \ {p} : runs'[q] = runs[q]
        /\ runs'[p] = Without(runs[p], r)
    BY <1>4 DEF RunEnds, PageInv, RunsTyped
  <2>2. IsMap(runs[p], 0..MaxTyped, 0..Lines)'
    BY <1>2, <2>1 DEF IsMap, Without
  <2>3. RunsTyped'
    BY <2>1, <2>2 DEF RunsTyped, PageInv, IsMap
  <2>4. socket' \in [Page -> {"none", "connecting", "open", "closed"}]
    BY <1>4 DEF RunEnds, PageInv
  <2> QED BY <1>4, <2>1, <2>3, <2>4 DEF RunEnds, PageInv, HistoryTyped, historyVars
<1> QED BY <1>1, <1>3, <1>4

LEMMA EnteringKeeps ==
  ASSUME PageInv, NEW p \in Page, Enters(p)
  PROVE  HistoryTyped' /\ entered[p] + 1 \in 0..MaxTyped
BY LinesAreCounted DEF PageInv, HistoryTyped, Enters

LEMMA MovingKeeps ==
  ASSUME PageInv, NEW p \in Page, Moving(p)
  PROVE  PageInv'
<1>1. CASE Printing(p)
  BY <1>1, PrintingKeeps
<1>2. CASE ArrowUp(p) \/ ArrowDown(p)
  <2>1. PICK i \in Int : Recalls(p, i) /\ i \in 0..entered[p]
    BY <1>2 DEF ArrowUp, ArrowDown, PageInv, HistoryTyped
  <2> QED BY <2>1 DEF Recalls, PageInv, HistoryTyped, RunsTyped
<1>3. CASE EnterDynamic(p)
  <2>1. /\ DOMAIN runs' = Page /\ \A q \in Page \ {p} : runs'[q] = runs[q]
        /\ runs'[p] = Put(runs[p], entered[p] + 1, Lines)
    BY <1>3 DEF EnterDynamic, PageInv, RunsTyped
  <2>2. IsMap(runs[p], 0..MaxTyped, 0..Lines)' /\ DOMAIN runs'[p] # {}
    BY <1>3, <2>1, EnteringKeeps, LinesAreCounted DEF EnterDynamic, IsMap, Put, PageInv, RunsTyped
  <2>3. RunsTyped'
    BY <2>1, <2>2 DEF RunsTyped, PageInv, IsMap
  <2> QED BY <1>3, <2>1, <2>2, <2>3, EnteringKeeps DEF EnterDynamic, PageInv
<1>4. CASE EnterBuiltin(p) \/ EnterUnsent(p) \/ EnterStatement(p) \/ EnterTooEarly(p)
  BY <1>4, EnteringKeeps DEF EnterBuiltin, EnterUnsent, EnterStatement, EnterTooEarly, PageInv, RunsTyped
<1>5. CASE SocketOpens(p) \/ SocketCloses(p)
  BY <1>5 DEF SocketOpens, SocketCloses, historyVars, PageInv, HistoryTyped, RunsTyped
<1> QED BY <1>1, <1>2, <1>3, <1>4, <1>5 DEF Moving

LEMMA PagesStay ==
  ASSUME PageInv, [Next]_vars
  PROVE  PageInv'
<1>1. CASE UNCHANGED pageVars
  BY <1>1 DEF pageVars, historyVars, PageInv, HistoryTyped, RunsTyped
<1>2. UNCHANGED pageVars \/ \E p \in Page : Moving(p)
  BY DEF Next, Pages, PageStep, Moving, Refused, OpensConnection, Closes, Shows, Sends, vars
<1> QED BY <1>1, <1>2, MovingKeeps

LEMMA PagesStart ==
  ASSUME Init PROVE PageInv
<1>1. \A p \in Page : IsMap(runs[p], 0..MaxTyped, 0..Lines) /\ DOMAIN runs[p] # {}
  BY LinesAreCounted DEF Init, PageInit, IsMap, Put, Boot
<1> QED BY <1>1, LinesAreCounted DEF Init, PageInit, PageInv, HistoryTyped, RunsTyped

(* A page without a prompt has a command in progress, whose end brings the *)
(* prompt back, whichever commands print at once (Terminal.run).           *)
THEOREM PromptAlwaysReturns == Spec => []PromptReturns
<1>1. PageInv => PromptReturns
  BY DEF PageInv, PromptReturns
<1> QED BY <1>1, PagesStart, PagesStay, PTL DEF Spec

----------------------------------------------------------------------------
(* The server: its types, what its fields refer to, and that a thread works *)
(* only for a connection that was open.                                    *)

Message == [id : Nat, command : {InitCmd, SqlCmd}]
Executors == UNION {[D -> Nat] : D \in SUBSET Session}
UserSession == [tables : Nat, executorMap : Executors]
Handle == [user : User, made : Nat, open : BOOLEAN]

InSession == {"files", "create", "check", "open", "set", "executor"}
WorkShape(w) ==
  \/ w = Idle
  \/ w \in [pc : {"init", "new session", "sql"}, id : Nat]
  \/ w \in [pc : InSession \ {"set"}, id : Nat, session : Nat]
  \/ w \in [pc : {"set"}, id : Nat, session : Nat, handle : Nat]
  \/ w \in [pc : {"execute"}, id : Nat, handle : Nat]

TalkTyped ==
  /\ connection \in [Session -> {"none", "open", "closed"}]
  /\ sent \in [Session -> Nat] /\ shown \in [Session -> Nat]
  /\ up \in [Session -> Seq(Message)] /\ tasks \in [Session -> Seq(Message)]
  /\ down \in [Session -> Seq(Nat)] /\ executors \subseteq Session
WorkTyped == DOMAIN work = Session /\ \A s \in Session : WorkShape(work[s])
DataTyped ==
  /\ userSessions \in Seq(UserSession) /\ handles \in Seq(Handle)
  /\ files \in [User -> [there : BOOLEAN, made : Nat]]
  /\ IsMap(activeUsers, User, Nat)
  /\ expiry = Idle \/ expiry \in [pc : {"close", "forget", "destroy"}, user : User]

(* What is pointed at is there.                                            *)
Admitted(s) == tasks[s] # <<>> \/ work[s] # Idle => connection[s] # "none"
Refers(s) ==
  /\ work[s].pc \in InSession => work[s].session \in DOMAIN userSessions
  /\ work[s].pc = "set" => work[s].handle \in DOMAIN handles
  /\ work[s].pc = "executor" => userSessions[work[s].session].tables # 0
Opened(o) ==
  /\ userSessions[o].tables \in 0..Len(handles)
  /\ \A s \in DOMAIN userSessions[o].executorMap : userSessions[o].executorMap[s] \in DOMAIN handles
Linked ==
  /\ \A u \in DOMAIN activeUsers : activeUsers[u] \in DOMAIN userSessions
  /\ \A o \in DOMAIN userSessions : Opened(o)
  /\ \A s \in Session : Admitted(s) /\ Refers(s)
  /\ expiry.pc \in {"close", "forget"} => expiry.user \in DOMAIN activeUsers
ServerInv == TalkTyped /\ WorkTyped /\ DataTyped /\ Linked

----------------------------------------------------------------------------
(* The commands of a connection, from the answer it was shown last to the  *)
(* one it sent last.                                                       *)

IdsOf(q) == [i \in DOMAIN q |-> q[i].id]
Rising(q) == \A i, j \in DOMAIN q : i < j => q[i] < q[j]
Elems(q) == {q[i] : i \in DOMAIN q}
Before(A, B) == \A a \in A, b \in B : a < b
Doing(s) == IF work[s] = Idle THEN {} ELSE {work[s].id}

(* An answer shown, those under way, the task in progress, those to come,  *)
(* the commands under way, how many were sent.                             *)
InOrder(m, D, W, T, U, n) ==
  /\ Rising(D) /\ Rising(T) /\ Rising(U)
  /\ Before({m}, Elems(D) \cup W \cup Elems(T) \cup Elems(U))
  /\ Before(Elems(D), W \cup Elems(T) \cup Elems(U))
  /\ Before(W, Elems(T) \cup Elems(U)) /\ Before(Elems(T), Elems(U))
  /\ \A i \in {m} \cup Elems(D) \cup W \cup Elems(T) \cup Elems(U) : i <= n
Ordered(s) == InOrder(shown[s], down[s], Doing(s), IdsOf(tasks[s]), IdsOf(up[s]), sent[s])

----------------------------------------------------------------------------
(* The databases.  Each UserSession belongs to one user; as long as no init *)
(* of a user meets anything, there is one of them at a time, it works on    *)
(* the session that is registered, and the database that is open is the one *)
(* of that session or the one the init has just opened.                     *)

Uses(u, o) ==
  \/ u \in DOMAIN activeUsers /\ activeUsers[u] = o
  \/ \E s \in Session : UserOf[s] = u /\ work[s].pc \in InSession /\ work[s].session = o
Apart == \A u, v \in User, o \in DOMAIN userSessions : Uses(u, o) /\ Uses(v, o) => u = v

OpenOf(u) == {h \in DOMAIN handles : handles[h].user = u /\ handles[h].open}
Registers(u, o) == u \in DOMAIN activeUsers /\ activeUsers[u] = o
Current(u, h) ==
  \E o \in DOMAIN userSessions :
    /\ Registers(u, o)
    /\ \/ userSessions[o].tables = h
       \/ \E s \in Initialising(u) : At(s, "set") /\ work[s].session = o /\ work[s].handle = h

InitAlone(u) == (\A s, t \in Initialising(u) : s = t) /\ (Expires(u) => Initialising(u) = {})
InitKnows(u, s) ==
  /\ At(s, "new session") => u \notin DOMAIN activeUsers
  /\ work[s].pc \in InSession => Registers(u, work[s].session)
  /\ At(s, "create") => ~files[u].there
  /\ work[s].pc \in {"open", "set"} => userSessions[work[s].session].tables = 0
OneOpen(u) == \A h \in OpenOf(u) :
  /\ Current(u, h)
  /\ ~Expires(u) => files[u].there /\ files[u].made = handles[h].made
Expired(u) ==
  /\ Expires(u) /\ expiry.pc = "forget" => OpenOf(u) = {}
  /\ Expires(u) /\ expiry.pc = "destroy" => u \notin DOMAIN activeUsers
Shares(u) == u \in DOMAIN activeUsers =>
  LET o == userSessions[activeUsers[u]]
  IN  \A s \in DOMAIN o.executorMap : o.executorMap[s] = o.tables /\ o.tables # 0
Quiet(u) ==
  /\ InitAlone(u) /\ (\A s \in Initialising(u) : InitKnows(u, s))
  /\ OneOpen(u) /\ Expired(u) /\ Shares(u)

----------------------------------------------------------------------------
(* What a thread is at has a shape that its label tells.                   *)

LEMMA ShapeAt ==
  ASSUME NEW w, WorkShape(w)
  PROVE  /\ w.pc = "idle" <=> w = Idle
         /\ w.pc \in {"init", "new session", "sql"} => w \in [pc : {"init", "new session", "sql"}, id : Nat]
         /\ w.pc \in InSession \ {"set"} => w \in [pc : InSession \ {"set"}, id : Nat, session : Nat]
         /\ w.pc = "set" => w \in [pc : {"set"}, id : Nat, session : Nat, handle : Nat]
         /\ w.pc = "execute" => w \in [pc : {"execute"}, id : Nat, handle : Nat]
         /\ w # Idle => w.id \in Nat
<1>1. CASE w = Idle
  <2>1. w.pc = "idle"
    BY <1>1 DEF Idle
  <2> QED BY <1>1, <2>1 DEF InSession
<1>2. CASE w \in [pc : {"init", "new session", "sql"}, id : Nat]
  <2>1. w.pc \in {"init", "new session", "sql"} /\ w.id \in Nat /\ Idle.pc = "idle"
    BY <1>2 DEF Idle
  <2> QED BY <1>2, <2>1 DEF InSession
<1>3. CASE w \in [pc : InSession \ {"set"}, id : Nat, session : Nat]
  <2>1. w.pc \in InSession \ {"set"} /\ w.id \in Nat /\ Idle.pc = "idle"
    BY <1>3 DEF Idle
  <2> QED BY <1>3, <2>1 DEF InSession
<1>4. CASE w \in [pc : {"set"}, id : Nat, session : Nat, handle : Nat]
  <2>1. w.pc = "set" /\ w.id \in Nat /\ Idle.pc = "idle"
    BY <1>4 DEF Idle
  <2> QED BY <1>4, <2>1 DEF InSession
<1>5. CASE w \in [pc : {"execute"}, id : Nat, handle : Nat]
  <2>1. w.pc = "execute" /\ w.id \in Nat /\ Idle.pc = "idle"
    BY <1>5 DEF Idle
  <2> QED BY <1>5, <2>1 DEF InSession
<1> QED BY <1>1, <1>2, <1>3, <1>4, <1>5 DEF WorkShape

(* The tasks a thread may be given or go on with.                          *)
LEMMA Tasks ==
  ASSUME NEW pc, NEW id \in Nat, NEW o \in Nat, NEW h \in Nat
  PROVE  /\ pc \in {"init", "new session", "sql"} =>
              WorkShape([pc |-> pc, id |-> id]) /\ [pc |-> pc, id |-> id] # Idle
         /\ pc \in InSession \ {"set"} =>
              /\ WorkShape([pc |-> pc, id |-> id, session |-> o])
              /\ [pc |-> pc, id |-> id, session |-> o] # Idle
         /\ LET w == [pc |-> "set", id |-> id, session |-> o, handle |-> h] IN WorkShape(w) /\ w # Idle
         /\ LET w == [pc |-> "execute", id |-> id, handle |-> h] IN WorkShape(w) /\ w # Idle
<1>1. ASSUME pc \in {"init", "new session", "sql"}
      PROVE  WorkShape([pc |-> pc, id |-> id]) /\ [pc |-> pc, id |-> id].pc # Idle.pc
  BY <1>1 DEF WorkShape, Idle
<1>2. ASSUME pc \in InSession \ {"set"}
      PROVE  /\ WorkShape([pc |-> pc, id |-> id, session |-> o])
             /\ [pc |-> pc, id |-> id, session |-> o].pc # Idle.pc
  BY <1>2 DEF WorkShape, Idle, InSession
<1>3. LET w == [pc |-> "set", id |-> id, session |-> o, handle |-> h] IN WorkShape(w) /\ w.pc # Idle.pc
  BY DEF WorkShape, Idle
<1>4. LET w == [pc |-> "execute", id |-> id, handle |-> h] IN WorkShape(w) /\ w.pc # Idle.pc
  BY DEF WorkShape, Idle
<1> QED BY <1>1, <1>2, <1>3, <1>4

LEMMA GoesSays ==
  ASSUME DOMAIN work = Session, NEW s \in Session, NEW w, Goes(s, w)
  PROVE  DOMAIN work' = Session /\ work'[s] = w /\ \A t \in Session \ {s} : work'[t] = work[t]
BY DEF Goes

Talk == <<connection, channels, executors, tasks, shown>>
Moves(s) ==
  /\ DOMAIN work' = Session /\ WorkShape(work'[s])
  /\ \A t \in Session \ {s} : work'[t] = work[t]

(* The thread goes on with its task, or is done with it.                   *)
GoesOn(s) ==
  /\ Moves(s) /\ UNCHANGED Talk
  /\ work[s] # Idle /\ work'[s] # Idle /\ work'[s].id = work[s].id
Ends(s) == Moves(s) /\ work[s] # Idle /\ work'[s] = Idle

LEMMA ObjectTyped ==
  ASSUME DataTyped, NEW o \in DOMAIN userSessions
  PROVE  /\ userSessions[o] \in UserSession
         /\ userSessions[o].tables \in Nat /\ userSessions[o].executorMap \in Executors
<1>1. userSessions[o] \in UserSession
  BY DEF DataTyped
<1> QED BY <1>1 DEF UserSession

LEMMA InitGoesOn ==
  ASSUME ServerInv, NEW s \in Session, UNCHANGED shown,
         \/ InitLook(s) \/ InitNewSession(s) \/ InitFiles(s) \/ InitCreate(s) \/ InitCheck(s)
         \/ InitOpen(s) \/ InitSet(s) \/ SqlBegins(s)
  PROVE  GoesOn(s)
<1>1. PICK w : w = work[s]
  OBVIOUS
<1>2. WorkShape(w) /\ DOMAIN work = Session
  BY <1>1 DEF ServerInv, WorkTyped
<1>3. ASSUME NEW v, Goes(s, v), WorkShape(v), v # Idle, w # Idle, v.id = w.id, UNCHANGED Talk
      PROVE  GoesOn(s)
  BY <1>1, <1>2, <1>3, GoesSays DEF GoesOn, Moves
<1>4. w.pc # "idle" => w # Idle /\ w.id \in Nat
  BY <1>2, ShapeAt
<1>5. Len(userSessions) \in Nat /\ Len(handles) \in Nat
      /\ \A u \in DOMAIN activeUsers : activeUsers[u] \in Nat
  BY DEF ServerInv, DataTyped, IsMap
<1>6. CASE InitLook(s)
  <2>1. CASE UserOf[s] \in DOMAIN activeUsers
    <3>1. Goes(s, [pc |-> "files", id |-> w.id, session |-> activeUsers[UserOf[s]]])
      BY <1>1, <1>6, <2>1 DEF InitLook
    <3>2. w.id \in Nat /\ w # Idle /\ "files" \in InSession \ {"set"} /\ UNCHANGED Talk
      BY <1>1, <1>6, <1>4 DEF InitLook, At, Talk, InSession
    <3> QED BY <1>3, <1>5, <2>1, <3>1, <3>2, Tasks
  <2>2. CASE UserOf[s] \notin DOMAIN activeUsers
    <3>1. Goes(s, [pc |-> "new session", id |-> w.id])
      BY <1>1, <1>6, <2>2 DEF InitLook
    <3>2. w.id \in Nat /\ w # Idle /\ UNCHANGED Talk
      BY <1>1, <1>6, <1>4 DEF InitLook, At, Talk
    <3> QED BY <1>3, <3>1, <3>2, Tasks
  <2> QED BY <2>1, <2>2
<1>7. CASE InitNewSession(s)
  <2>1. w.id \in Nat /\ w # Idle /\ "files" \in InSession \ {"set"} /\ UNCHANGED Talk
    BY <1>1, <1>7, <1>4 DEF InitNewSession, At, Talk, InSession
  <2>2. PICK o \in Nat : o = Len(userSessions) + 1
    BY <1>5
  <2>3. Goes(s, [pc |-> "files", id |-> w.id, session |-> o])
    BY <1>1, <1>7, <2>2 DEF InitNewSession
  <2> QED BY <1>3, <2>1, <2>3, Tasks
<1>8. ASSUME NEW pc \in InSession \ {"set"}, w.pc \in InSession \ {"set"},
             Goes(s, [work[s] EXCEPT !.pc = pc]), UNCHANGED Talk
      PROVE  GoesOn(s)
  <2>1. w \in [pc : InSession \ {"set"}, id : Nat, session : Nat]
    BY <1>2, <1>8, ShapeAt
  <2>2. PICK v : v = [w EXCEPT !.pc = pc]
    OBVIOUS
  <2>3. v \in [pc : InSession \ {"set"}, id : Nat, session : Nat] /\ v.id = w.id
    BY <2>1, <2>2, <1>8
  <2>4. v # Idle /\ w # Idle
    BY <2>1, <2>3 DEF Idle, InSession
  <2> QED BY <1>1, <1>3, <1>8, <2>2, <2>3, <2>4 DEF WorkShape
<1>9. CASE InitFiles(s) \/ InitCreate(s) \/ InitCheck(s)
  <2>1. w.pc \in InSession \ {"set"} /\ UNCHANGED Talk
    BY <1>1, <1>9 DEF InitFiles, InitCreate, InitCheck, At, InSession, Talk
  <2>2. \E pc \in InSession \ {"set"} : Goes(s, [work[s] EXCEPT !.pc = pc])
    BY <1>9 DEF InitFiles, InitCreate, InitCheck, InSession
  <2> QED BY <1>8, <2>1, <2>2
<1>10. CASE InitOpen(s)
  <2>1. w \in [pc : InSession \ {"set"}, id : Nat, session : Nat]
    BY <1>1, <1>2, <1>10, ShapeAt DEF InitOpen, At, InSession
  <2>2. w.id \in Nat /\ w.session \in Nat /\ w # Idle /\ UNCHANGED Talk
    BY <1>1, <1>10, <1>4, <2>1 DEF InitOpen, At, Talk
  <2>3. PICK h \in Nat : h = Len(handles) + 1
    BY <1>5
  <2>4. PICK v : v = [pc |-> "set", id |-> w.id, session |-> w.session, handle |-> h]
    OBVIOUS
  <2>5. Goes(s, v) /\ v.id = w.id
    BY <1>1, <1>10, <2>3, <2>4 DEF InitOpen
  <2>6. WorkShape(v) /\ v # Idle
    BY <2>2, <2>4, Tasks
  <2> QED BY <1>3, <2>2, <2>5, <2>6
<1>11. CASE InitSet(s)
  <2>1. w \in [pc : {"set"}, id : Nat, session : Nat, handle : Nat]
    BY <1>1, <1>2, <1>11, ShapeAt DEF InitSet, At
  <2>2. w.id \in Nat /\ w.session \in Nat /\ w # Idle /\ "executor" \in InSession \ {"set"} /\ UNCHANGED Talk
    BY <1>1, <1>11, <1>4, <2>1 DEF InitSet, At, Talk, InSession
  <2>3. Goes(s, [pc |-> "executor", id |-> w.id, session |-> w.session])
    BY <1>1, <1>11 DEF InitSet
  <2> QED BY <1>3, <2>2, <2>3, Tasks
<1>12. CASE SqlBegins(s)
  <2>1. PICK n : n = userSessions[activeUsers[UserOf[s]]].executorMap[s]
    OBVIOUS
  <2>2. n \in Nat
    <3>1. activeUsers[UserOf[s]] \in DOMAIN userSessions
      BY <1>12 DEF SqlBegins, Registered, ServerInv, Linked
    <3>2. userSessions[activeUsers[UserOf[s]]].executorMap \in Executors
      BY <3>1, ObjectTyped DEF ServerInv
    <3> QED BY <1>12, <2>1, <3>2 DEF SqlBegins, Registered, Executor, Executors
  <2>3. Goes(s, [pc |-> "execute", id |-> w.id, handle |-> n]) /\ UNCHANGED Talk
    BY <1>1, <1>12, <2>1 DEF SqlBegins, Talk
  <2>4. w.id \in Nat /\ w # Idle
    BY <1>1, <1>12, <1>4 DEF SqlBegins, At
  <2> QED BY <1>3, <2>2, <2>3, <2>4, Tasks
<1> QED BY <1>6, <1>7, <1>9, <1>10, <1>11, <1>12

LEMMA TaskEnds ==
  ASSUME ServerInv, NEW s \in Session,
         \/ Answers(s) /\ work[s] # Idle
         \/ InitOpenThrows(s)
  PROVE  Ends(s)
<1>1. Goes(s, Idle) /\ DOMAIN work = Session
  BY DEF Answers, InitOpenThrows, ServerInv, WorkTyped
<1>2. work[s] # Idle
  BY DEF InitOpenThrows, At, Idle
<1> QED BY <1>1, <1>2, GoesSays DEF Ends, Moves, WorkShape

----------------------------------------------------------------------------
(* The kinds of steps, as far as messages and tasks go.                    *)

TalkStep(s) ==
  \/ GoesOn(s)
  \/ Ends(s) /\ Answers(s) /\ UNCHANGED <<connection, executors, tasks, shown>>
  \/ Ends(s) /\ UNCHANGED Talk
  \/ Take(s) /\ UNCHANGED shown
  \/ (Connect(s) \/ (\E c \in {InitCmd, SqlCmd} : Send(s, c))) /\ UNCHANGED shown
  \/ (HandleTextMessage(s) \/ AfterConnectionClosed(s)) /\ UNCHANGED shown
  \/ Shows(s)

LEMMA WorkingTalks ==
  ASSUME ServerInv, NEW s \in Session, Working(s), UNCHANGED shown
  PROVE  TalkStep(s)
<1>1. CASE \/ InitLook(s) \/ InitNewSession(s) \/ InitFiles(s) \/ InitCreate(s) \/ InitCheck(s)
           \/ InitOpen(s) \/ InitSet(s) \/ SqlBegins(s)
  BY <1>1, InitGoesOn DEF TalkStep
<1>2. CASE \/ InitKnown(s) \/ InitNoDirectory(s) \/ InitExecutor(s) \/ InitExecutorLost(s)
           \/ SqlRefused(s) \/ SqlEnds(s)
  <2>1. Answers(s) /\ UNCHANGED <<connection, executors, tasks, shown>>
    BY <1>2 DEF InitKnown, InitNoDirectory, InitExecutor, InitExecutorLost, SqlRefused, SqlEnds
  <2>2. work[s].pc \in {"init", "files", "executor", "sql", "execute"}
    BY <1>2 DEF InitKnown, InitNoDirectory, InitExecutor, InitExecutorLost, SqlRefused, SqlEnds, At
  <2>3. work[s] # Idle
    BY <2>2 DEF Idle
  <2> QED BY <2>1, <2>3, TaskEnds DEF TalkStep
<1>3. CASE InitOpenThrows(s)
  <2>1. Ends(s)
    BY <1>3, TaskEnds
  <2> QED BY <1>3, <2>1 DEF TalkStep, InitOpenThrows, Talk
<1>4. CASE Take(s)
  BY <1>4 DEF TalkStep
<1> QED BY <1>1, <1>2, <1>3, <1>4 DEF Working

LEMMA StepsTalk ==
  ASSUME ServerInv, [Next]_vars
  PROVE  UNCHANGED <<Talk, work>> \/ \E s \in Session : TalkStep(s)
<1>1. CASE UNCHANGED vars
  BY <1>1 DEF vars, serverVars, Talk
<1>2. CASE Pages /\ UNCHANGED <<serverVars, shown>>
  BY <1>2 DEF serverVars, Talk
<1>3. CASE ServerStep /\ UNCHANGED <<pageVars, shown>>
  <2>1. CASE \E s \in Session : HandleTextMessage(s) \/ Working(s)
    BY <1>3, <2>1, WorkingTalks DEF TalkStep
  <2>2. CASE (\E u \in User : ExpiryFinds(u)) \/ Expiring
    BY <1>3, <2>2 DEF ExpiryFinds, Expiring, ExpiryCloses, ExpiryThrows, ExpiryForgets, ExpiryDestroys, Talk
  <2> QED BY <1>3, <2>1, <2>2 DEF ServerStep
<1>4. CASE \E p \in Page : Refused(p)
  BY <1>4 DEF Refused, serverVars, Talk
<1>5. ASSUME NEW s \in Session,
             \/ OpensConnection(s) \/ Closes(s) \/ Shows(s)
             \/ \E c \in {InitCmd, SqlCmd} : Sends(s, c)
      PROVE  TalkStep(s)
  BY <1>5 DEF OpensConnection, Closes, Sends, TalkStep
<1> QED BY <1>1, <1>2, <1>3, <1>4, <1>5 DEF Next

(* The first task is taken.                                                *)
LEMMA TakeSays ==
  ASSUME TalkTyped, WorkTyped, NEW s \in Session, Take(s)
  PROVE  /\ work[s] = Idle /\ tasks[s] # <<>> /\ tasks[s] \in Seq(Message)
         /\ tasks' = [tasks EXCEPT ![s] = Tail(tasks[s])]
         /\ Moves(s) /\ work'[s].id = Head(tasks[s]).id /\ Head(tasks[s]).id \in Nat
         /\ work'[s].pc \in {"init", "sql"} /\ work'[s] # Idle
         /\ UNCHANGED <<connection, sent, up, down, executors, database, expiry, overlapped>>
<1>1. PICK q \in Seq(Message) : q = tasks[s]
  BY DEF TalkTyped
<1>2. q # <<>> /\ work[s] = Idle
  BY <1>1 DEF Take
<1>3. [j \in 1..(Len(q) - 1) |-> IF j < 1 THEN q[j] ELSE q[j + 1]] = Tail(q)
  BY <1>1, <1>2
<1>4. tasks' = [tasks EXCEPT ![s] = Tail(q)]
  BY <1>1, <1>3 DEF Take, NextTask
<1>5. q[1] = Head(q) /\ q[1] \in Message
  BY <1>1, <1>2
<1>6. PICK pc \in {"init", "sql"} : Goes(s, [pc |-> pc, id |-> q[1].id])
  BY <1>1 DEF Take, NextTask
<1>7. q[1].id \in Nat
  BY <1>5 DEF Message
<1>8. WorkShape([pc |-> pc, id |-> q[1].id]) /\ [pc |-> pc, id |-> q[1].id] # Idle
  BY <1>6, <1>7, Tasks
<1>9. Moves(s) /\ work'[s] = [pc |-> pc, id |-> q[1].id]
  BY <1>6, <1>8, GoesSays DEF WorkTyped, Moves
<1>10. PICK w : w = work'[s]
  OBVIOUS
<1>11. w.pc \in {"init", "sql"} /\ w.id = q[1].id /\ w # Idle
  BY <1>6, <1>8, <1>9, <1>10
<1>12. UNCHANGED <<connection, sent, up, down, executors, database, expiry, overlapped>>
  BY DEF Take, channels
<1> QED BY <1>1, <1>2, <1>4, <1>5, <1>7, <1>9, <1>10, <1>11, <1>12

LEMMA TalkStays ==
  ASSUME ServerInv, [Next]_vars
  PROVE  TalkTyped' /\ WorkTyped' /\ \A s \in Session : Admitted(s)'
<1>1. CASE UNCHANGED <<Talk, work>>
  BY <1>1 DEF ServerInv, TalkTyped, WorkTyped, Linked, Admitted, Talk, channels
<1>2. ASSUME NEW s \in Session, TalkStep(s)
      PROVE  TalkTyped' /\ WorkTyped' /\ \A t \in Session : Admitted(t)'
  <2>1. /\ TalkTyped /\ WorkTyped /\ \A t \in Session : Admitted(t)
    BY DEF ServerInv, Linked
  <2>2. CASE GoesOn(s)
    BY <2>1, <2>2 DEF GoesOn, Moves, Talk, channels, TalkTyped, WorkTyped, Admitted
  <2>3. CASE Ends(s) /\ Answers(s) /\ UNCHANGED <<connection, executors, tasks, shown>>
    <3>1. work[s].id \in Nat
      BY <2>1, <2>3, ShapeAt DEF Ends, WorkTyped
    <3>2. down' \in [Session -> Seq(Nat)]
      BY <2>1, <2>3, <3>1 DEF Answers, TalkTyped
    <3> QED BY <2>1, <2>3, <3>2 DEF Answers, Ends, Moves, TalkTyped, WorkTyped, Admitted
  <2>4. CASE Ends(s) /\ UNCHANGED Talk
    BY <2>1, <2>4 DEF Ends, Moves, Talk, channels, TalkTyped, WorkTyped, Admitted
  <2>5. CASE Take(s) /\ UNCHANGED shown
    <3>1. Take(s) /\ UNCHANGED shown
      BY <2>5
    <3>2. /\ work[s] = Idle /\ tasks[s] # <<>> /\ tasks[s] \in Seq(Message) /\ Moves(s)
          /\ tasks' = [tasks EXCEPT ![s] = Tail(tasks[s])]
          /\ UNCHANGED <<connection, sent, up, down, executors>>
      BY <2>1, <3>1, TakeSays
    <3>3. Tail(tasks[s]) \in Seq(Message)
      BY <3>2
    <3>4. PICK q \in Seq(Message) : tasks' = [tasks EXCEPT ![s] = q]
      BY <3>2, <3>3
    <3>5. tasks' \in [Session -> Seq(Message)] /\ \A t \in Session \ {s} : tasks'[t] = tasks[t]
      BY <2>1, <3>4 DEF TalkTyped
    <3>6. TalkTyped' /\ WorkTyped'
      BY <2>1, <3>5, <3>1, <3>2 DEF Moves, TalkTyped, WorkTyped
    <3>7. connection[s] # "none"
      BY <2>1, <3>2 DEF Admitted
    <3> QED BY <2>1, <3>5, <3>2, <3>6, <3>7 DEF Moves, Admitted
  <2>6. CASE Connect(s) /\ UNCHANGED shown
    BY <2>1, <2>6 DEF Connect, channels, TalkTyped, WorkTyped, Admitted
  <2>7. ASSUME NEW c \in {InitCmd, SqlCmd}, Send(s, c), UNCHANGED shown
        PROVE  TalkTyped' /\ WorkTyped' /\ \A t \in Session : Admitted(t)'
    <3>1. [id |-> sent[s] + 1, command |-> c] \in Message
      BY <2>1 DEF Message, TalkTyped
    <3>2. up' \in [Session -> Seq(Message)] /\ sent' \in [Session -> Nat]
      BY <2>1, <2>7, <3>1 DEF Send, TalkTyped
    <3> QED BY <2>1, <2>7, <3>2 DEF Send, TalkTyped, WorkTyped, Admitted
  <2>8. CASE HandleTextMessage(s) /\ UNCHANGED shown
    <3>1. up[s] \in Seq(Message) /\ up[s] # <<>> /\ tasks[s] \in Seq(Message) /\ connection[s] = "open"
      BY <2>1, <2>8 DEF HandleTextMessage, TalkTyped
    <3>2. Head(up[s]) \in Message /\ Tail(up[s]) \in Seq(Message)
      BY <3>1
    <3>3. Append(tasks[s], Head(up[s])) \in Seq(Message)
      BY <3>1, <3>2
    <3>4. up' \in [Session -> Seq(Message)] /\ tasks' \in [Session -> Seq(Message)]
          /\ \A t \in Session \ {s} : tasks'[t] = tasks[t]
      BY <2>1, <2>8, <3>2, <3>3 DEF HandleTextMessage, TalkTyped
    <3> QED BY <2>1, <2>8, <3>1, <3>4 DEF HandleTextMessage, TalkTyped, WorkTyped, Admitted
  <2>9. CASE AfterConnectionClosed(s) /\ UNCHANGED shown
    <3>1. up' \in [Session -> Seq(Message)] /\ down' \in [Session -> Seq(Nat)]
      BY <2>1, <2>9 DEF AfterConnectionClosed, TalkTyped
    <3> QED BY <2>1, <2>9, <3>1 DEF AfterConnectionClosed, TalkTyped, WorkTyped, Admitted
  <2>10. CASE Shows(s)
    <3>1. down[s] \in Seq(Nat) /\ down[s] # <<>>
      BY <2>1, <2>10 DEF Shows, TalkTyped
    <3>2. Head(down[s]) \in Nat /\ Tail(down[s]) \in Seq(Nat)
      BY <3>1
    <3> QED BY <2>1, <2>10, <3>2 DEF Shows, TalkTyped, WorkTyped, Admitted
  <2> QED BY <1>2, <2>2, <2>3, <2>4, <2>5, <2>6, <2>7, <2>8, <2>9, <2>10 DEF TalkStep
<1> QED BY <1>1, <1>2, StepsTalk

----------------------------------------------------------------------------
(* The order of commands.  Each step takes the first of one of the queues  *)
(* of a connection and puts it last into the next.                         *)

LEMMA TailRises ==
  ASSUME NEW q \in Seq(Nat), q # <<>>, Rising(q)
  PROVE  /\ Rising(Tail(q)) /\ Elems(Tail(q)) \subseteq Elems(q)
         /\ Head(q) \in Elems(q) /\ Before({Head(q)}, Elems(Tail(q)))
<1>1. Len(q) \in Nat /\ Len(q) >= 1 /\ DOMAIN q = 1..Len(q) /\ Head(q) = q[1]
  OBVIOUS
<1>2. DOMAIN Tail(q) = 1..(Len(q) - 1) /\ \A i \in 1..(Len(q) - 1) : Tail(q)[i] = q[i + 1]
  OBVIOUS
<1>3. Rising(Tail(q))
  BY <1>1, <1>2 DEF Rising
<1>4. \A i \in DOMAIN Tail(q) : i + 1 \in DOMAIN q /\ Tail(q)[i] = q[i + 1] /\ q[1] < q[i + 1]
  BY <1>1, <1>2 DEF Rising
<1> QED BY <1>1, <1>3, <1>4 DEF Elems, Before

LEMMA AppendRises ==
  ASSUME NEW q \in Seq(Nat), NEW n \in Nat, Rising(q), Before(Elems(q), {n})
  PROVE  Rising(Append(q, n)) /\ Elems(Append(q, n)) = Elems(q) \cup {n}
<1>1. PICK r : r = Append(q, n)
  OBVIOUS
<1>2. /\ Len(q) \in Nat /\ DOMAIN q = 1..Len(q) /\ DOMAIN r = 1..(Len(q) + 1)
      /\ r[Len(q) + 1] = n /\ \A i \in 1..Len(q) : r[i] = q[i]
  BY <1>1
<1>3. \A i \in 1..Len(q) : q[i] < n
  BY <1>2 DEF Elems, Before
<1>4. Rising(r)
  BY <1>2, <1>3 DEF Rising
<1>5. Elems(r) = Elems(q) \cup {n}
  <2>1. ASSUME NEW e \in Elems(r) PROVE e \in Elems(q) \cup {n}
    <3>1. PICK i \in 1..(Len(q) + 1) : e = r[i]
      BY <1>2 DEF Elems
    <3>2. i = Len(q) + 1 \/ i \in 1..Len(q)
      BY <1>2
    <3> QED BY <1>2, <3>1, <3>2 DEF Elems
  <2>2. ASSUME NEW i \in DOMAIN q PROVE q[i] \in Elems(r)
    <3>1. i \in DOMAIN r /\ r[i] = q[i]
      BY <1>2
    <3> QED BY <3>1 DEF Elems
  <2>3. n \in Elems(r)
    <3>1. Len(q) + 1 \in DOMAIN r
      BY <1>2
    <3> QED BY <1>2, <3>1 DEF Elems
  <2> QED BY <2>1, <2>2, <2>3 DEF Elems
<1> QED BY <1>1, <1>4, <1>5

LEMMA IdsTyped ==
  ASSUME NEW q \in Seq(Message)
  PROVE  IdsOf(q) \in Seq(Nat)
<1>1. \A m \in Message : m.id \in Nat
  BY DEF Message
<1>2. \A i \in 1..Len(q) : q[i] \in Message
  OBVIOUS
<1> QED BY <1>1, <1>2 DEF IdsOf

LEMMA IdsOfTail ==
  ASSUME NEW q \in Seq(Message), q # <<>>
  PROVE  IdsOf(Tail(q)) = Tail(IdsOf(q)) /\ Head(IdsOf(q)) = Head(q).id /\ IdsOf(q) # <<>>
<1>1. PICK f : f = IdsOf(q)
  OBVIOUS
<1>2. f \in Seq(Nat) /\ Len(f) = Len(q) /\ \A i \in 1..Len(q) : f[i] = q[i].id
  BY <1>1, IdsTyped DEF IdsOf
<1>3. Len(q) \in Nat /\ Len(q) >= 1
  OBVIOUS
<1>4. Tail(f) = [i \in 1..(Len(q) - 1) |-> f[i + 1]]
  <2>1. f \in Seq(Nat) /\ f # <<>> /\ Len(f) = Len(q)
    BY <1>2, <1>3
  <2>2. Tail(f) \in Seq(Nat) /\ Len(Tail(f)) = Len(f) - 1
        /\ \A i \in 1..(Len(f) - 1) : Tail(f)[i] = f[i + 1]
    BY <2>1
  <2>3. PICK t \in Seq(Nat) : t = Tail(f)
    BY <2>2
  <2>4. Len(t) = Len(q) - 1 /\ \A i \in 1..(Len(q) - 1) : t[i] = f[i + 1]
    BY <2>1, <2>2, <2>3
  <2>5. t = [i \in 1..Len(t) |-> t[i]]
    OBVIOUS
  <2>6. t = [i \in 1..(Len(q) - 1) |-> f[i + 1]]
    BY <2>4, <2>5
  <2> QED BY <2>3, <2>6
<1>5. \A i \in 1..(Len(q) - 1) : f[i + 1] = q[i + 1].id
  BY <1>2, <1>3
<1>6. PICK r : r = Tail(q)
  OBVIOUS
<1>7. DOMAIN r = 1..(Len(q) - 1) /\ \A i \in 1..(Len(q) - 1) : r[i] = q[i + 1]
  BY <1>3, <1>6
<1>8. IdsOf(r) = [i \in 1..(Len(q) - 1) |-> f[i + 1]]
  BY <1>5, <1>7 DEF IdsOf
<1>9. Head(f) = f[1] /\ Head(q) = q[1] /\ f # <<>>
  BY <1>2, <1>3
<1> QED BY <1>1, <1>2, <1>3, <1>4, <1>6, <1>8, <1>9

LEMMA IdsOfAppend ==
  ASSUME NEW q \in Seq(Message), NEW m \in Message
  PROVE  IdsOf(Append(q, m)) = Append(IdsOf(q), m.id)
<1>1. PICK f : f = IdsOf(q)
  OBVIOUS
<1>2. f \in Seq(Nat) /\ Len(f) = Len(q) /\ \A i \in 1..Len(q) : f[i] = q[i].id
  BY <1>1, IdsTyped DEF IdsOf
<1>3. PICK r : r = Append(q, m)
  OBVIOUS
<1>4. /\ Len(q) \in Nat /\ DOMAIN r = 1..(Len(q) + 1) /\ r[Len(q) + 1] = m
      /\ \A i \in 1..Len(q) : r[i] = q[i]
  BY <1>3
<1>5. Append(f, m.id) = [i \in 1..(Len(q) + 1) |-> r[i].id]
  BY <1>2, <1>4
<1>6. IdsOf(r) = [i \in 1..(Len(q) + 1) |-> r[i].id]
  BY <1>4 DEF IdsOf
<1> QED BY <1>1, <1>3, <1>5, <1>6

(* The queues are lists of numbers, at most one task is in progress.       *)
Queues(m, D, W, T, U, n) ==
  m \in Nat /\ D \in Seq(Nat) /\ W \subseteq Nat /\ T \in Seq(Nat) /\ U \in Seq(Nat) /\ n \in Nat

LEMMA ElemsTyped ==
  ASSUME NEW q \in Seq(Nat)
  PROVE  Elems(q) \subseteq Nat
BY DEF Elems

LEMMA SendsInOrder ==
  ASSUME NEW m, NEW D, NEW W, NEW T, NEW U, NEW n, Queues(m, D, W, T, U, n), InOrder(m, D, W, T, U, n)
  PROVE  InOrder(m, D, W, T, Append(U, n + 1), n + 1)
<1>1. /\ m \in Nat /\ n \in Nat /\ Elems(D) \subseteq Nat /\ W \subseteq Nat
      /\ Elems(T) \subseteq Nat /\ Elems(U) \subseteq Nat
  BY ElemsTyped DEF Queues
<1>2. \A i \in {m} \cup Elems(D) \cup W \cup Elems(T) \cup Elems(U) : i < n + 1
  BY <1>1 DEF InOrder
<1>3. Rising(Append(U, n + 1)) /\ Elems(Append(U, n + 1)) = Elems(U) \cup {n + 1}
  BY <1>1, <1>2, AppendRises DEF InOrder, Before, Queues
<1> QED BY <1>1, <1>2, <1>3 DEF InOrder, Before

LEMMA HearsInOrder ==
  ASSUME NEW m, NEW D, NEW W, NEW T, NEW U, NEW n, Queues(m, D, W, T, U, n), InOrder(m, D, W, T, U, n),
         U # <<>>
  PROVE  InOrder(m, D, W, Append(T, Head(U)), Tail(U), n)
<1>1. /\ Rising(Tail(U)) /\ Elems(Tail(U)) \subseteq Elems(U)
      /\ Head(U) \in Elems(U) /\ Before({Head(U)}, Elems(Tail(U)))
  BY TailRises DEF Queues, InOrder
<1>2. Before(Elems(T), {Head(U)}) /\ Head(U) \in Nat
  BY <1>1, ElemsTyped DEF InOrder, Before, Queues
<1>3. Rising(Append(T, Head(U))) /\ Elems(Append(T, Head(U))) = Elems(T) \cup {Head(U)}
  BY <1>2, AppendRises DEF InOrder, Queues
<1> QED BY <1>1, <1>3 DEF InOrder, Before

LEMMA TakesInOrder ==
  ASSUME NEW m, NEW D, NEW T, NEW U, NEW n, Queues(m, D, {}, T, U, n), InOrder(m, D, {}, T, U, n), T # <<>>
  PROVE  InOrder(m, D, {Head(T)}, Tail(T), U, n)
<1>1. /\ Rising(Tail(T)) /\ Elems(Tail(T)) \subseteq Elems(T)
      /\ Head(T) \in Elems(T) /\ Before({Head(T)}, Elems(Tail(T)))
  BY TailRises DEF Queues, InOrder
<1> QED BY <1>1 DEF InOrder, Before

LEMMA AnswersInTurn ==
  ASSUME NEW m, NEW D, NEW w, NEW T, NEW U, NEW n, Queues(m, D, {w}, T, U, n), InOrder(m, D, {w}, T, U, n)
  PROVE  InOrder(m, Append(D, w), {}, T, U, n) /\ InOrder(m, D, {}, T, U, n)
<1>1. Rising(Append(D, w)) /\ Elems(Append(D, w)) = Elems(D) \cup {w}
  BY AppendRises DEF InOrder, Queues, Before
<1> QED BY <1>1 DEF InOrder, Before

LEMMA ShowsInOrder ==
  ASSUME NEW m, NEW D, NEW W, NEW T, NEW U, NEW n, Queues(m, D, W, T, U, n), InOrder(m, D, W, T, U, n),
         D # <<>>
  PROVE  InOrder(Head(D), Tail(D), W, T, U, n)
<1>1. /\ Rising(Tail(D)) /\ Elems(Tail(D)) \subseteq Elems(D)
      /\ Head(D) \in Elems(D) /\ Before({Head(D)}, Elems(Tail(D)))
  BY TailRises DEF Queues, InOrder
<1> QED BY <1>1 DEF InOrder, Before

LEMMA BreaksInOrder ==
  ASSUME NEW m, NEW D, NEW W, NEW T, NEW U, NEW n, InOrder(m, D, W, T, U, n)
  PROVE  InOrder(m, <<>>, W, T, <<>>, n)
<1>1. Rising(<<>>) /\ Elems(<<>>) = {}
  BY DEF Rising, Elems
<1> QED BY <1>1 DEF InOrder, Before

LEMMA QueuesTyped ==
  ASSUME TalkTyped, WorkTyped, NEW s \in Session
  PROVE  Queues(shown[s], down[s], Doing(s), IdsOf(tasks[s]), IdsOf(up[s]), sent[s])
<1>1. /\ shown[s] \in Nat /\ sent[s] \in Nat /\ down[s] \in Seq(Nat)
      /\ tasks[s] \in Seq(Message) /\ up[s] \in Seq(Message)
  BY DEF TalkTyped
<1>2. IdsOf(tasks[s]) \in Seq(Nat) /\ IdsOf(up[s]) \in Seq(Nat)
  BY <1>1, IdsTyped
<1>3. Doing(s) \subseteq Nat
  BY ShapeAt DEF Doing, WorkTyped
<1> QED BY <1>1, <1>2, <1>3 DEF Queues

LEMMA OrderedOn ==
  ASSUME NEW t, shown'[t] = shown[t], down'[t] = down[t], tasks'[t] = tasks[t], up'[t] = up[t],
         sent'[t] = sent[t], Doing(t)' = Doing(t), Ordered(t)
  PROVE  Ordered(t)'
BY DEF Ordered

LEMMA TalkOrdered ==
  ASSUME ServerInv, NEW s \in Session, TalkStep(s), Ordered(s)
  PROVE  Ordered(s)' /\ \A t \in Session \ {s} : Ordered(t) => Ordered(t)'
<1>1. TalkTyped /\ WorkTyped
  BY DEF ServerInv
<1>2. PICK m \in Nat, D \in Seq(Nat), T \in Seq(Nat), U \in Seq(Nat), n \in Nat :
        /\ m = shown[s] /\ D = down[s] /\ T = IdsOf(tasks[s]) /\ U = IdsOf(up[s]) /\ n = sent[s]
        /\ Queues(m, D, Doing(s), T, U, n) /\ InOrder(m, D, Doing(s), T, U, n)
  BY <1>1, QueuesTyped DEF Queues, Ordered
<1>3. ASSUME Moves(s), UNCHANGED <<connection, sent, up, shown>>,
             \A t \in Session \ {s} : down'[t] = down[t] /\ tasks'[t] = tasks[t]
      PROVE  \A t \in Session \ {s} : Ordered(t) => Ordered(t)'
  BY <1>3, OrderedOn DEF Moves, Doing
<1>4. CASE GoesOn(s)
  <2>1. Doing(s)' = Doing(s) /\ UNCHANGED <<connection, sent, up, down, tasks, shown>>
    BY <1>4 DEF GoesOn, Doing, Talk, channels
  <2> QED BY <1>3, <1>4, <2>1, OrderedOn DEF GoesOn
<1>5. CASE Ends(s) /\ Answers(s) /\ UNCHANGED <<connection, executors, tasks, shown>>
  <2>1. PICK w : w = work[s].id /\ Doing(s) = {w} /\ Doing(s)' = {}
    BY <1>5 DEF Ends, Doing
  <2>2. down' = [down EXCEPT ![s] = Append(D, w)] \/ down' = down
    BY <1>2, <1>5, <2>1 DEF Answers
  <2>3. (down'[s] = Append(D, w) \/ down'[s] = D) /\ \A t \in Session \ {s} : down'[t] = down[t]
    BY <1>1, <1>2, <2>2 DEF TalkTyped
  <2>4. UNCHANGED <<connection, sent, up, shown, tasks>>
    BY <1>5 DEF Answers
  <2>5. InOrder(m, Append(D, w), {}, T, U, n) /\ InOrder(m, D, {}, T, U, n)
    BY <1>2, <2>1, AnswersInTurn
  <2>6. Ordered(s)'
    BY <1>2, <2>1, <2>3, <2>4, <2>5 DEF Ordered
  <2> QED BY <1>3, <1>5, <2>3, <2>4, <2>6 DEF Ends
<1>6. CASE Ends(s) /\ UNCHANGED Talk
  <2>1. PICK w : w = work[s].id /\ Doing(s) = {w} /\ Doing(s)' = {}
    BY <1>6 DEF Ends, Doing
  <2>2. UNCHANGED <<connection, sent, up, down, tasks, shown>>
    BY <1>6 DEF Talk, channels
  <2>3. InOrder(m, D, {}, T, U, n)
    BY <1>2, <2>1, AnswersInTurn
  <2>4. Ordered(s)'
    BY <1>2, <2>1, <2>2, <2>3 DEF Ordered
  <2> QED BY <1>3, <1>6, <2>2, <2>4 DEF Ends
<1>7. CASE Take(s) /\ UNCHANGED shown
  <2>1. /\ work[s] = Idle /\ tasks[s] # <<>> /\ tasks[s] \in Seq(Message) /\ Moves(s)
        /\ tasks' = [tasks EXCEPT ![s] = Tail(tasks[s])]
        /\ work'[s].id = Head(tasks[s]).id /\ work'[s] # Idle
        /\ UNCHANGED <<connection, sent, up, down>>
    BY <1>1, <1>7, TakeSays
  <2>2. tasks'[s] = Tail(tasks[s]) /\ \A t \in Session \ {s} : tasks'[t] = tasks[t]
    BY <1>1, <2>1 DEF TalkTyped
  <2>3. IdsOf(tasks[s])' = Tail(T) /\ T # <<>> /\ Doing(s)' = {Head(T)} /\ Doing(s) = {}
    BY <1>2, <2>1, <2>2, IdsOfTail DEF Doing
  <2>4. InOrder(m, D, {Head(T)}, Tail(T), U, n)
    BY <1>2, <2>3, TakesInOrder
  <2>5. Ordered(s)'
    BY <1>2, <1>7, <2>1, <2>3, <2>4 DEF Ordered
  <2> QED BY <1>3, <1>7, <2>1, <2>2, <2>5
<1>8. CASE Connect(s) /\ UNCHANGED shown
  BY <1>8, OrderedOn DEF Connect, channels, Doing
<1>9. ASSUME NEW c \in {InitCmd, SqlCmd}, Send(s, c), UNCHANGED shown
      PROVE  Ordered(s)' /\ \A t \in Session \ {s} : Ordered(t) => Ordered(t)'
  <2>1. n + 1 \in Nat
    OBVIOUS
  <2>2. PICK e : e = [id |-> n + 1, command |-> c]
    OBVIOUS
  <2>3. e \in Message /\ e.id = n + 1
    BY <2>2, <2>1, <1>9, Zenon DEF Message
  <2>4. /\ up'[s] = Append(up[s], e) /\ sent'[s] = n + 1 /\ up[s] \in Seq(Message)
        /\ \A t \in Session \ {s} : up'[t] = up[t] /\ sent'[t] = sent[t]
        /\ UNCHANGED <<down, tasks, work>>
    BY <1>1, <1>2, <1>9, <2>2 DEF Send, TalkTyped
  <2>5. IdsOf(up[s])' = Append(U, n + 1)
    BY <1>2, <2>2, <2>4, <2>3, IdsOfAppend
  <2>6. Ordered(s)'
    BY <1>2, <1>9, <2>4, <2>5, SendsInOrder DEF Ordered, Doing
  <2> QED BY <1>9, <2>4, <2>6, OrderedOn DEF Doing
<1>10. CASE HandleTextMessage(s) /\ UNCHANGED shown
  <2>1. PICK e : e = Head(up[s])
    OBVIOUS
  <2>2. /\ up[s] \in Seq(Message) /\ tasks[s] \in Seq(Message) /\ up[s] # <<>>
        /\ tasks'[s] = Append(tasks[s], e) /\ up'[s] = Tail(up[s])
        /\ \A t \in Session \ {s} : up'[t] = up[t] /\ tasks'[t] = tasks[t]
        /\ UNCHANGED <<down, sent, work>>
    BY <1>1, <1>10, <2>1 DEF HandleTextMessage, TalkTyped
  <2>3. e \in Message
    BY <2>1, <2>2
  <2>4. /\ IdsOf(tasks[s])' = Append(T, Head(U)) /\ IdsOf(up[s])' = Tail(U) /\ U # <<>>
    BY <1>2, <2>1, <2>2, <2>3, IdsOfAppend, IdsOfTail
  <2>5. Ordered(s)'
    BY <1>2, <1>10, <2>2, <2>4, HearsInOrder DEF Ordered, Doing
  <2> QED BY <1>10, <2>2, <2>5, OrderedOn DEF Doing
<1>11. CASE AfterConnectionClosed(s) /\ UNCHANGED shown
  <2>1. /\ up'[s] = <<>> /\ down'[s] = <<>> /\ UNCHANGED <<sent, tasks, work>>
        /\ \A t \in Session \ {s} : up'[t] = up[t] /\ down'[t] = down[t]
    BY <1>1, <1>11 DEF AfterConnectionClosed, TalkTyped
  <2>2. IdsOf(up[s])' = <<>>
    BY <2>1 DEF IdsOf
  <2>3. Ordered(s)'
    BY <1>2, <1>11, <2>1, <2>2, BreaksInOrder DEF Ordered, Doing
  <2> QED BY <1>11, <2>1, <2>3, OrderedOn DEF Doing
<1>12. CASE Shows(s)
  <2>1. /\ down[s] # <<>> /\ shown'[s] = Head(D) /\ down'[s] = Tail(D)
        /\ UNCHANGED <<sent, up, tasks, work>>
        /\ \A t \in Session \ {s} : shown'[t] = shown[t] /\ down'[t] = down[t]
    BY <1>1, <1>2, <1>12 DEF Shows, TalkTyped
  <2>2. Ordered(s)'
    BY <1>2, <2>1, ShowsInOrder DEF Ordered, Doing
  <2> QED BY <2>1, <2>2, OrderedOn DEF Doing
<1> QED BY <1>4, <1>5, <1>6, <1>7, <1>8, <1>9, <1>10, <1>11, <1>12 DEF TalkStep

LEMMA OrderStays ==
  ASSUME ServerInv, \A s \in Session : Ordered(s), [Next]_vars
  PROVE  \A s \in Session : Ordered(s)'
<1>1. CASE UNCHANGED <<Talk, work>>
  BY <1>1, OrderedOn DEF Talk, channels, Doing
<1> QED BY <1>1, StepsTalk, TalkOrdered

LEMMA ConcatRises ==
  ASSUME NEW q \in Seq(Nat), NEW r \in Seq(Nat), Rising(q), Rising(r), Before(Elems(q), Elems(r))
  PROVE  q \o r \in Seq(Nat) /\ Rising(q \o r) /\ Elems(q \o r) = Elems(q) \cup Elems(r)
<1>1. q \o r \in Seq(Nat)
  OBVIOUS
<1>2. PICK c \in Seq(Nat) : c = q \o r
  BY <1>1
<1>3. PICK m \in Nat, n \in Nat :
        /\ DOMAIN q = 1..m /\ DOMAIN r = 1..n /\ DOMAIN c = 1..(m + n)
        /\ \A i \in 1..(m + n) : c[i] = IF i <= m THEN q[i] ELSE r[i - m]
  <2>1. PICK m \in Nat, n \in Nat : m = Len(q) /\ n = Len(r)
    OBVIOUS
  <2>2. /\ DOMAIN q = 1..m /\ DOMAIN r = 1..n /\ DOMAIN c = 1..(m + n)
        /\ \A i \in 1..(m + n) : c[i] = IF i <= m THEN q[i] ELSE r[i - m]
    BY <1>2, <2>1
  <2> QED BY <2>2
<1>4. \A i \in DOMAIN q, j \in DOMAIN r : q[i] < r[j]
  BY DEF Before, Elems
<1>5. Rising(c)
  <2> SUFFICES ASSUME NEW i \in DOMAIN c, NEW j \in DOMAIN c, i < j PROVE c[i] < c[j]
    BY DEF Rising
  <2>1. i \in Nat /\ j \in Nat /\ i \in 1..(m + n) /\ j \in 1..(m + n)
    BY <1>3
  <2>2. CASE j <= m
    <3>1. i \in 1..m /\ j \in 1..m /\ i <= m
      BY <2>1, <2>2
    <3>2. q[i] < q[j] /\ c[i] = q[i] /\ c[j] = q[j]
      BY <1>3, <2>1, <2>2, <3>1 DEF Rising
    <3> QED BY <3>2
  <2>3. CASE i <= m /\ ~(j <= m)
    <3>1. i \in 1..m /\ j - m \in 1..n
      BY <2>1, <2>3
    <3>2. c[i] = q[i] /\ c[j] = r[j - m] /\ q[i] < r[j - m]
      BY <1>3, <1>4, <2>1, <2>3, <3>1
    <3> QED BY <3>2
  <2>4. CASE ~(i <= m)
    <3>1. ~(j <= m) /\ i - m \in 1..n /\ j - m \in 1..n /\ i - m < j - m
      BY <2>1, <2>4
    <3>2. r[i - m] < r[j - m]
      BY <1>3, <3>1 DEF Rising
    <3>3. c[i] = r[i - m] /\ c[j] = r[j - m]
      BY <1>3, <2>1, <2>4, <3>1
    <3> QED BY <3>2, <3>3
  <2> QED BY <2>2, <2>3, <2>4
<1>6. \A i \in DOMAIN c : c[i] \in Elems(q) \cup Elems(r)
  <2> TAKE i \in DOMAIN c
  <2>1. CASE i <= m
    <3>1. i \in DOMAIN q /\ c[i] = q[i]
      BY <1>3, <2>1
    <3> QED BY <3>1 DEF Elems
  <2>2. CASE ~(i <= m)
    <3>1. i - m \in DOMAIN r /\ c[i] = r[i - m]
      BY <1>3, <2>2
    <3> QED BY <3>1 DEF Elems
  <2> QED BY <2>1, <2>2
<1>7. (\A i \in DOMAIN q : q[i] \in Elems(c)) /\ (\A i \in DOMAIN r : r[i] \in Elems(c))
  <2>1. ASSUME NEW i \in DOMAIN q PROVE q[i] \in Elems(c)
    <3>1. i \in DOMAIN c /\ c[i] = q[i]
      BY <1>3
    <3> QED BY <3>1 DEF Elems
  <2>2. ASSUME NEW i \in DOMAIN r PROVE r[i] \in Elems(c)
    <3>1. m + i \in DOMAIN c /\ c[m + i] = r[i]
      BY <1>3
    <3> QED BY <3>1 DEF Elems
  <2> QED BY <2>1, <2>2
<1>8. Elems(c) = Elems(q) \cup Elems(r)
  BY <1>6, <1>7 DEF Elems
<1> QED BY <1>2, <1>5, <1>8

LEMMA OrderSays ==
  ASSUME TalkTyped, WorkTyped, NEW s \in Session, Ordered(s)
  PROVE  LET c == Commands(s) IN (\A i \in 1..(Len(c) - 1) : c[i] < c[i + 1]) /\ c[Len(c)] <= sent[s]
<1>1. PICK m \in Nat, D \in Seq(Nat), T \in Seq(Nat), U \in Seq(Nat), n \in Nat :
        /\ m = shown[s] /\ D = down[s] /\ T = IdsOf(tasks[s]) /\ U = IdsOf(up[s]) /\ n = sent[s]
        /\ Queues(m, D, Doing(s), T, U, n) /\ InOrder(m, D, Doing(s), T, U, n)
  BY QueuesTyped DEF Queues, Ordered
<1>2. PICK W : W = IF work[s] = Idle THEN <<>> ELSE <<work[s].id>>
  OBVIOUS
<1>3. W \in Seq(Nat) /\ Rising(W) /\ Elems(W) = Doing(s)
  <2>1. CASE work[s] = Idle
    <3>1. W = <<>> /\ Doing(s) = {}
      BY <1>2, <2>1 DEF Doing
    <3> QED BY <3>1 DEF Rising, Elems
  <2>2. CASE work[s] # Idle
    <3>1. PICK w \in Nat : W = <<w>> /\ Doing(s) = {w}
      BY <1>2, <2>2, ShapeAt DEF Doing, WorkTyped
    <3>2. DOMAIN <<w>> = {1} /\ <<w>>[1] = w
      OBVIOUS
    <3> QED BY <3>1, <3>2 DEF Rising, Elems
  <2> QED BY <2>1, <2>2
<1>4. <<m>> \in Seq(Nat) /\ Rising(<<m>>) /\ Elems(<<m>>) = {m}
  <2>1. DOMAIN <<m>> = {1} /\ <<m>>[1] = m
    OBVIOUS
  <2> QED BY <2>1 DEF Rising, Elems
<1>5. PICK d, w, v, u : d = Elems(D) /\ w = Doing(s) /\ v = Elems(T) /\ u = Elems(U)
  OBVIOUS
<1>6. /\ Rising(D) /\ Rising(T) /\ Rising(U)
      /\ Before({m}, d) /\ Before({m} \cup d, w) /\ Before({m} \cup d \cup w, v)
      /\ Before({m} \cup d \cup w \cup v, u)
      /\ \A i \in {m} \cup d \cup w \cup v \cup u : i <= n
  BY <1>1, <1>5 DEF InOrder, Before
<1>7. PICK q : q = <<m>> \o D
  OBVIOUS
<1>8. PICK r : r = q \o W
  OBVIOUS
<1>9. PICK t : t = r \o T
  OBVIOUS
<1>10. PICK c : c = t \o U
  OBVIOUS
<1>11. q \in Seq(Nat) /\ Rising(q) /\ Elems(q) = {m} \cup d
  <2>1. PICK p : p = <<m>>
    OBVIOUS
  <2>2. p \in Seq(Nat) /\ Rising(p) /\ Elems(p) = {m}
    BY <1>4, <2>1
  <2>3. D \in Seq(Nat) /\ Rising(D) /\ Elems(D) = d /\ Before({m}, d)
    BY <1>1, <1>5, <1>6
  <2>4. p \o D \in Seq(Nat) /\ Rising(p \o D) /\ Elems(p \o D) = {m} \cup d
    <3>1. Before(Elems(p), Elems(D))
      BY <2>2, <2>3
    <3>2. p \o D \in Seq(Nat) /\ Rising(p \o D) /\ Elems(p \o D) = Elems(p) \cup Elems(D)
      BY <2>2, <2>3, <3>1, ConcatRises
    <3> QED BY <2>2, <2>3, <3>2
  <2> QED BY <1>7, <2>1, <2>4
<1>12. r \in Seq(Nat) /\ Rising(r) /\ Elems(r) = {m} \cup d \cup w
  <2>1. W \in Seq(Nat) /\ Rising(W) /\ Before(Elems(q), Elems(W))
    BY <1>3, <1>5, <1>6, <1>11
  <2>2. q \o W \in Seq(Nat) /\ Rising(q \o W) /\ Elems(q \o W) = Elems(q) \cup Elems(W)
    BY <1>11, <2>1, ConcatRises
  <2> QED BY <1>3, <1>8, <1>5, <1>11, <2>2
<1>13. t \in Seq(Nat) /\ Rising(t) /\ Elems(t) = {m} \cup d \cup w \cup v
  <2>1. T \in Seq(Nat) /\ Rising(T) /\ Before(Elems(r), Elems(T))
    BY <1>1, <1>5, <1>6, <1>12
  <2>2. r \o T \in Seq(Nat) /\ Rising(r \o T) /\ Elems(r \o T) = Elems(r) \cup Elems(T)
    BY <1>12, <2>1, ConcatRises
  <2> QED BY <1>9, <1>5, <1>12, <2>2
<1>14. c \in Seq(Nat) /\ Rising(c) /\ Elems(c) = {m} \cup d \cup w \cup v \cup u
  <2>1. U \in Seq(Nat) /\ Rising(U) /\ Before(Elems(t), Elems(U))
    BY <1>1, <1>5, <1>6, <1>13
  <2>2. t \o U \in Seq(Nat) /\ Rising(t \o U) /\ Elems(t \o U) = Elems(t) \cup Elems(U)
    BY <1>13, <2>1, ConcatRises
  <2> QED BY <1>10, <1>5, <1>13, <2>2
<1>15. Commands(s) = c
  BY <1>1, <1>2, <1>7, <1>8, <1>9, <1>10 DEF Commands, IdsOf
<1>16. Len(c) \in Nat /\ Len(c) >= 1 /\ DOMAIN c = 1..Len(c)
  <2>1. Elems(c) # {}
    BY <1>14
  <2>2. DOMAIN c # {}
    BY <2>1 DEF Elems
  <2> QED BY <1>14, <2>2
<1>17. \A i \in 1..(Len(c) - 1) : c[i] < c[i + 1]
  <2>1. \A i \in 1..(Len(c) - 1) : i \in DOMAIN c /\ i + 1 \in DOMAIN c /\ i < i + 1
    BY <1>16, <1>14
  <2> QED BY <1>14, <2>1 DEF Rising
<1>18. c[Len(c)] \in Elems(c)
  <2>1. Len(c) \in DOMAIN c
    BY <1>16, <1>14
  <2> QED BY <2>1 DEF Elems
<1>19. c[Len(c)] <= sent[s]
  BY <1>1, <1>14, <1>18, <1>6
<1> QED BY <1>15, <1>17, <1>19

----------------------------------------------------------------------------
(* Where an init goes.                                                     *)

LEMMA KeptRecord ==
  ASSUME NEW w, WorkShape(w), w.pc \in InSession \ {"set"}, NEW pc
  PROVE  LET v == [w EXCEPT !.pc = pc] IN v.pc = pc /\ v.id = w.id /\ v.session = w.session
<1>1. w \in [pc : InSession \ {"set"}, id : Nat, session : Nat]
  BY ShapeAt
<1> QED BY <1>1

Sits(s, pc, o) == work'[s].pc = pc /\ work'[s].session = o

LEMMA InitSays ==
  ASSUME ServerInv, NEW s \in Session
  PROVE  /\ InitLook(s) =>
              IF UserOf[s] \in DOMAIN activeUsers THEN Sits(s, "files", activeUsers[UserOf[s]])
                                                  ELSE work'[s].pc = "new session"
         /\ InitNewSession(s) => Sits(s, "files", Len(userSessions) + 1)
         /\ InitFiles(s) => IF files[UserOf[s]].there THEN Sits(s, "check", work[s].session)
                                                      ELSE Sits(s, "create", work[s].session)
         /\ InitCreate(s) => Sits(s, "check", work[s].session)
         /\ InitCheck(s) => IF Opens(s) THEN Sits(s, "open", work[s].session)
                                        ELSE Sits(s, "executor", work[s].session)
         /\ InitOpen(s) => Sits(s, "set", work[s].session) /\ work'[s].handle = Len(handles) + 1
         /\ InitSet(s) => Sits(s, "executor", work[s].session)
         /\ SqlBegins(s) => work'[s].pc = "execute"
<1>1. DOMAIN work = Session /\ WorkShape(work[s])
  BY DEF ServerInv, WorkTyped
<1>2. ASSUME InitLook(s)
      PROVE  IF UserOf[s] \in DOMAIN activeUsers THEN Sits(s, "files", activeUsers[UserOf[s]])
                                                 ELSE work'[s].pc = "new session"
  <2>1. CASE UserOf[s] \in DOMAIN activeUsers
    <3>1. PICK n : n = activeUsers[UserOf[s]]
      OBVIOUS
    <3>2. work'[s] = [pc |-> "files", id |-> work[s].id, session |-> n]
      BY <1>1, <1>2, <2>1, <3>1, GoesSays DEF InitLook
    <3> QED BY <2>1, <3>1, <3>2 DEF Sits
  <2>2. CASE UserOf[s] \notin DOMAIN activeUsers
    <3>1. PICK v : v = [pc |-> "new session", id |-> work[s].id]
      OBVIOUS
    <3>2. v.pc = "new session" /\ work'[s] = v
      BY <1>1, <1>2, <2>2, <3>1, GoesSays DEF InitLook
    <3> QED BY <2>2, <3>2
  <2> QED BY <2>1, <2>2
<1>3. ASSUME InitNewSession(s)
      PROVE  Sits(s, "files", Len(userSessions) + 1)
  <2>1. work'[s] = [pc |-> "files", id |-> work[s].id, session |-> Len(userSessions) + 1]
    BY <1>1, <1>3, GoesSays DEF InitNewSession
  <2> QED BY <2>1 DEF Sits
<1>4. ASSUME NEW pc, work[s].pc \in InSession \ {"set"}, Goes(s, [work[s] EXCEPT !.pc = pc])
      PROVE  Sits(s, pc, work[s].session)
  <2>1. PICK v : v = [work[s] EXCEPT !.pc = pc]
    OBVIOUS
  <2>2. v.pc = pc /\ v.session = work[s].session
    BY <1>1, <1>4, <2>1, KeptRecord
  <2>3. work'[s] = v
    BY <1>1, <1>4, <2>1, GoesSays
  <2> QED BY <2>2, <2>3 DEF Sits
<1>5. ASSUME InitFiles(s)
      PROVE  IF files[UserOf[s]].there THEN Sits(s, "check", work[s].session)
                                       ELSE Sits(s, "create", work[s].session)
  BY <1>4, <1>5 DEF InitFiles, At, InSession
<1>6. InitCreate(s) => Sits(s, "check", work[s].session)
  BY <1>4 DEF InitCreate, At, InSession
<1>7. InitCheck(s) => IF Opens(s) THEN Sits(s, "open", work[s].session)
                                  ELSE Sits(s, "executor", work[s].session)
  BY <1>4 DEF InitCheck, At, InSession
<1>8. ASSUME InitOpen(s)
      PROVE  Sits(s, "set", work[s].session) /\ work'[s].handle = Len(handles) + 1
  <2>1. work'[s] = [pc |-> "set", id |-> work[s].id, session |-> work[s].session, handle |-> Len(handles) + 1]
    BY <1>1, <1>8, GoesSays DEF InitOpen
  <2> QED BY <2>1 DEF Sits
<1>9. ASSUME InitSet(s)
      PROVE  Sits(s, "executor", work[s].session)
  <2>1. work'[s] = [pc |-> "executor", id |-> work[s].id, session |-> work[s].session]
    BY <1>1, <1>9, GoesSays DEF InitSet
  <2> QED BY <2>1 DEF Sits
<1>10. ASSUME SqlBegins(s)
       PROVE  work'[s].pc = "execute"
  <2>1. PICK n : n = userSessions[activeUsers[UserOf[s]]].executorMap[s]
    OBVIOUS
  <2>2. work'[s] = [pc |-> "execute", id |-> work[s].id, handle |-> n]
    BY <1>1, <1>10, <2>1, GoesSays DEF SqlBegins
  <2> QED BY <2>2
<1> QED BY <1>2, <1>3, <1>5, <1>6, <1>7, <1>8, <1>9, <1>10

----------------------------------------------------------------------------
(* The steps of a session on the database, and those of the expiry check.  *)

DataStep(s) ==
  \/ InitNewSession(s) \/ InitCreate(s) \/ InitOpen(s) \/ InitSet(s) \/ InitExecutor(s)
  \/ AfterConnectionClosed(s)
Still == UNCHANGED <<database, expiry, overlapped>>
StillStep(s) ==
  \/ InitFiles(s) \/ InitNoDirectory(s) \/ InitCheck(s) \/ InitOpenThrows(s) \/ InitExecutorLost(s)
  \/ Take(s) \/ InitKnown(s) \/ SqlRefused(s) \/ SqlBegins(s) \/ SqlEnds(s)
ExpiryStep == Expiring \/ \E u \in User : ExpiryFinds(u)

LEMMA StillIsStill ==
  ASSUME NEW s, StillStep(s)
  PROVE  Still
BY DEF StillStep, Still, InitFiles, InitNoDirectory, InitCheck, InitOpenThrows, InitExecutorLost,
       Take, InitKnown, SqlRefused, SqlBegins, SqlEnds

(* What an init changes beside what its thread is at.                      *)
LEMMA StepsMove ==
  ASSUME ServerInv, [Next]_vars
  PROVE  \/ Still /\ work' = work
         \/ ExpiryStep /\ work' = work
         \/ \E s \in Session : AfterConnectionClosed(s) /\ work' = work
         \/ \E s \in Session : StillStep(s) \/ InitLook(s) \/ DataStep(s)
<1>1. CASE UNCHANGED vars
  BY <1>1 DEF vars, serverVars, Still
<1>2. CASE Pages /\ UNCHANGED <<serverVars, shown>>
  BY <1>2 DEF serverVars, Still
<1>3. CASE ServerStep /\ UNCHANGED <<pageVars, shown>>
  <2>1. ASSUME NEW s \in Session, Working(s)
        PROVE  StillStep(s) \/ InitLook(s) \/ DataStep(s)
    BY <2>1 DEF Working, StillStep, DataStep
  <2>2. ASSUME NEW s \in Session, HandleTextMessage(s)
        PROVE  Still /\ work' = work
    BY <2>2 DEF HandleTextMessage, Still
  <2>3. CASE (\E u \in User : ExpiryFinds(u)) \/ Expiring
    BY <2>3 DEF ExpiryStep, ExpiryFinds, Expiring, ExpiryCloses, ExpiryThrows, ExpiryForgets, ExpiryDestroys
  <2> QED BY <1>3, <2>1, <2>2, <2>3 DEF ServerStep
<1>4. CASE \E p \in Page : Refused(p)
  BY <1>4 DEF Refused, serverVars, Still
<1>5. ASSUME NEW s \in Session,
             OpensConnection(s) \/ Shows(s) \/ \E c \in {InitCmd, SqlCmd} : Sends(s, c)
      PROVE  Still /\ work' = work
  BY <1>5 DEF OpensConnection, Shows, Sends, Connect, Send, Still
<1>6. ASSUME NEW s \in Session, Closes(s)
      PROVE  AfterConnectionClosed(s) /\ work' = work
  BY <1>6 DEF Closes, AfterConnectionClosed
<1> QED BY <1>1, <1>2, <1>3, <1>4, <1>5, <1>6 DEF Next

(* The tables and the references only come to be.                          *)
Grown ==
  /\ DOMAIN userSessions \subseteq DOMAIN userSessions' /\ DOMAIN handles \subseteq DOMAIN handles'
  /\ \A o \in DOMAIN userSessions : userSessions[o].tables # 0 => userSessions'[o].tables # 0

LEMMA RefersOn ==
  ASSUME Grown, NEW t, Refers(t), work'[t] = work[t]
  PROVE  Refers(t)'
<1>1. PICK w : w = work[t] /\ work'[t] = w
  OBVIOUS
<1>2. /\ w.pc \in InSession => w.session \in DOMAIN userSessions
      /\ w.pc = "set" => w.handle \in DOMAIN handles
      /\ w.pc = "executor" => userSessions[w.session].tables # 0
  BY <1>1 DEF Refers
<1>3. "executor" \in InSession
  BY DEF InSession
<1>4. /\ w.pc \in InSession => w.session \in DOMAIN userSessions'
      /\ w.pc = "set" => w.handle \in DOMAIN handles'
      /\ w.pc = "executor" => userSessions'[w.session].tables # 0
  BY <1>2, <1>3 DEF Grown
<1> QED BY <1>1, <1>4 DEF Refers

(* One of the objects is changed, or one is added.                         *)
LEMMA ObjectChanges ==
  ASSUME DataTyped, NEW o \in DOMAIN userSessions, NEW e \in UserSession,
         userSessions' = [userSessions EXCEPT ![o] = e]
  PROVE  /\ userSessions' \in Seq(UserSession) /\ DOMAIN userSessions' = DOMAIN userSessions
         /\ userSessions'[o] = e /\ \A p \in DOMAIN userSessions \ {o} : userSessions'[p] = userSessions[p]
BY DEF DataTyped

LEMMA ExecutorPut ==
  ASSUME NEW m \in Executors, NEW s \in Session, NEW n \in Nat
  PROVE  /\ Put(m, s, n) \in Executors /\ DOMAIN Put(m, s, n) = DOMAIN m \cup {s}
         /\ Put(m, s, n)[s] = n /\ \A t \in DOMAIN m \ {s} : Put(m, s, n)[t] = m[t]
<1>1. PICK D \in SUBSET Session : m \in [D -> Nat]
  BY DEF Executors
<1>2. Put(m, s, n) \in [D \cup {s} -> Nat]
  BY <1>1 DEF Put
<1> QED BY <1>1, <1>2 DEF Executors, Put

LEMMA ExecutorWithout ==
  ASSUME NEW m \in Executors, NEW s
  PROVE  /\ Without(m, s) \in Executors /\ DOMAIN Without(m, s) = DOMAIN m \ {s}
         /\ \A t \in DOMAIN m \ {s} : Without(m, s)[t] = m[t]
<1>1. PICK D \in SUBSET Session : m \in [D -> Nat]
  BY DEF Executors
<1>2. Without(m, s) \in [D \ {s} -> Nat]
  BY <1>1 DEF Without
<1> QED BY <1>1, <1>2 DEF Executors, Without

(* What each step on the database leaves there.                            *)
LEMMA NewSessionSays ==
  ASSUME ServerInv, NEW s \in Session, InitNewSession(s)
  PROVE  LET n == Len(userSessions) + 1
         IN  /\ userSessions' \in Seq(UserSession) /\ DOMAIN userSessions' = DOMAIN userSessions \cup {n}
             /\ n \notin DOMAIN userSessions /\ n \in Nat
             /\ userSessions'[n] = NewSession /\ \A o \in DOMAIN userSessions : userSessions'[o] = userSessions[o]
             /\ activeUsers' = Put(activeUsers, UserOf[s], n)
             /\ UNCHANGED <<handles, files, expiry, overlapped>>
<1>1. <<>> \in [{} -> Nat]
  OBVIOUS
<1>2. NewSession \in UserSession
  BY <1>1 DEF NewSession, UserSession, Executors
<1>3. userSessions \in Seq(UserSession)
  BY DEF ServerInv, DataTyped
<1>4. userSessions' = Append(userSessions, NewSession)
  BY DEF InitNewSession
<1>5. PICK n : n = Len(userSessions) + 1
  OBVIOUS
<1>6. /\ userSessions' \in Seq(UserSession) /\ DOMAIN userSessions' = DOMAIN userSessions \cup {n}
      /\ n \notin DOMAIN userSessions /\ n \in Nat
      /\ userSessions'[n] = NewSession /\ \A o \in DOMAIN userSessions : userSessions'[o] = userSessions[o]
  BY <1>2, <1>3, <1>4, <1>5
<1> QED BY <1>5, <1>6 DEF InitNewSession

LEMMA OpenSays ==
  ASSUME ServerInv, NEW s \in Session, InitOpen(s)
  PROVE  LET n == Len(handles) + 1
         IN  /\ handles' \in Seq(Handle) /\ DOMAIN handles' = DOMAIN handles \cup {n}
             /\ n \notin DOMAIN handles /\ n \in Nat /\ n # 0
             /\ handles'[n] = [user |-> UserOf[s], made |-> files[UserOf[s]].made, open |-> TRUE]
             /\ \A h \in DOMAIN handles : handles'[h] = handles[h]
             /\ files[UserOf[s]].there
             /\ UNCHANGED <<userSessions, activeUsers, files, expiry, overlapped>>
<1>1. UserOf[s] \in User
  BY UsersKnown
<1>2. PICK e : e = [user |-> UserOf[s], made |-> files[UserOf[s]].made, open |-> TRUE]
  OBVIOUS
<1>3. e \in Handle
  BY <1>1, <1>2 DEF Handle, ServerInv, DataTyped
<1>4. handles' = Append(handles, e) /\ handles \in Seq(Handle)
  BY <1>2 DEF InitOpen, ServerInv, DataTyped
<1>5. PICK n : n = Len(handles) + 1
  OBVIOUS
<1>6. /\ handles' \in Seq(Handle) /\ DOMAIN handles' = DOMAIN handles \cup {n}
      /\ n \notin DOMAIN handles /\ n \in Nat /\ n # 0
      /\ handles'[n] = e /\ \A h \in DOMAIN handles : handles'[h] = handles[h]
  BY <1>3, <1>4, <1>5
<1> QED BY <1>2, <1>5, <1>6 DEF InitOpen

LEMMA SetSays ==
  ASSUME ServerInv, NEW s \in Session, InitSet(s)
  PROVE  \E o \in DOMAIN userSessions, h \in DOMAIN handles :
           /\ o = work[s].session /\ h = work[s].handle /\ h # 0
           /\ userSessions' \in Seq(UserSession) /\ DOMAIN userSessions' = DOMAIN userSessions
           /\ userSessions'[o].tables = h /\ userSessions'[o].executorMap = userSessions[o].executorMap
           /\ \A p \in DOMAIN userSessions \ {o} : userSessions'[p] = userSessions[p]
           /\ UNCHANGED <<activeUsers, handles, files, expiry, overlapped>>
<1>1. PICK o : o = work[s].session
  OBVIOUS
<1>2. PICK h : h = work[s].handle
  OBVIOUS
<1>3. o \in DOMAIN userSessions /\ h \in DOMAIN handles /\ h \in Nat /\ h # 0
  BY <1>1, <1>2 DEF InitSet, At, InSession, ServerInv, Linked, Refers, DataTyped
<1>4. PICK e : e = [userSessions[o] EXCEPT !.tables = h]
  OBVIOUS
<1>5. e \in UserSession /\ e.tables = h /\ e.executorMap = userSessions[o].executorMap
  BY <1>3, <1>4, ObjectTyped DEF UserSession, ServerInv
<1>6. userSessions' = [userSessions EXCEPT ![o] = e]
  BY <1>1, <1>2, <1>4 DEF InitSet
<1>7. /\ userSessions' \in Seq(UserSession) /\ DOMAIN userSessions' = DOMAIN userSessions
      /\ userSessions'[o] = e /\ \A p \in DOMAIN userSessions \ {o} : userSessions'[p] = userSessions[p]
  BY <1>3, <1>5, <1>6, ObjectChanges DEF ServerInv
<1> QED BY <1>1, <1>2, <1>3, <1>5, <1>7 DEF InitSet

LEMMA ExecutorSays ==
  ASSUME ServerInv, NEW s \in Session, InitExecutor(s)
  PROVE  \E o \in DOMAIN userSessions :
           /\ o = work[s].session /\ userSessions[o].tables # 0
           /\ userSessions' \in Seq(UserSession) /\ DOMAIN userSessions' = DOMAIN userSessions
           /\ userSessions'[o].tables = userSessions[o].tables
           /\ userSessions'[o].executorMap = Put(userSessions[o].executorMap, s, userSessions[o].tables)
           /\ \A p \in DOMAIN userSessions \ {o} : userSessions'[p] = userSessions[p]
           /\ UNCHANGED <<activeUsers, handles, files, expiry, overlapped>>
<1>1. PICK o : o = work[s].session
  OBVIOUS
<1>2. o \in DOMAIN userSessions /\ userSessions[o].tables # 0
  BY <1>1 DEF InitExecutor, At, InSession, ServerInv, Linked, Refers
<1>3. PICK m : m = Put(userSessions[o].executorMap, s, userSessions[o].tables)
  OBVIOUS
<1>4. m \in Executors
  BY <1>2, <1>3, ObjectTyped, ExecutorPut DEF ServerInv
<1>5. PICK e : e = [userSessions[o] EXCEPT !.executorMap = m]
  OBVIOUS
<1>6. e \in UserSession /\ e.tables = userSessions[o].tables /\ e.executorMap = m
  BY <1>2, <1>4, <1>5, ObjectTyped DEF UserSession, ServerInv
<1>7. userSessions' = [userSessions EXCEPT ![o] = e]
  BY <1>1, <1>3, <1>5 DEF InitExecutor
<1>8. /\ userSessions' \in Seq(UserSession) /\ DOMAIN userSessions' = DOMAIN userSessions
      /\ userSessions'[o] = e /\ \A p \in DOMAIN userSessions \ {o} : userSessions'[p] = userSessions[p]
  BY <1>2, <1>6, <1>7, ObjectChanges DEF ServerInv
<1> QED BY <1>1, <1>2, <1>3, <1>6, <1>8 DEF InitExecutor

LEMMA ClosedSays ==
  ASSUME ServerInv, NEW s \in Session, AfterConnectionClosed(s)
  PROVE  /\ userSessions' \in Seq(UserSession) /\ DOMAIN userSessions' = DOMAIN userSessions
         /\ \A o \in DOMAIN userSessions :
              /\ userSessions'[o].tables = userSessions[o].tables
              /\ \A t \in DOMAIN userSessions'[o].executorMap :
                   /\ t \in DOMAIN userSessions[o].executorMap
                   /\ userSessions'[o].executorMap[t] = userSessions[o].executorMap[t]
         /\ UNCHANGED <<activeUsers, handles, files, expiry, overlapped, work>>
<1>1. UNCHANGED <<activeUsers, handles, files, expiry, overlapped, work>>
  BY DEF AfterConnectionClosed
<1>2. CASE userSessions' = userSessions
  BY <1>1, <1>2 DEF ServerInv, DataTyped
<1>3. CASE userSessions' # userSessions
  <2>1. PICK o : o = activeUsers[UserOf[s]]
    OBVIOUS
  <2>2. o \in DOMAIN userSessions
    BY <1>3, <2>1 DEF AfterConnectionClosed, Registered, ServerInv, Linked
  <2>3. PICK m : m = Without(userSessions[o].executorMap, s)
    OBVIOUS
  <2>4. /\ m \in Executors /\ DOMAIN m \subseteq DOMAIN userSessions[o].executorMap
        /\ \A t \in DOMAIN m : m[t] = userSessions[o].executorMap[t]
    <3>1. PICK f \in Executors : f = userSessions[o].executorMap
      BY <2>2, ObjectTyped DEF ServerInv
    <3>2. m \in Executors /\ DOMAIN m = DOMAIN f \ {s} /\ \A t \in DOMAIN f \ {s} : m[t] = f[t]
      BY <2>3, <3>1, ExecutorWithout
    <3> QED BY <3>1, <3>2
  <2>5. PICK e : e = [userSessions[o] EXCEPT !.executorMap = m]
    OBVIOUS
  <2>6. e \in UserSession /\ e.tables = userSessions[o].tables /\ e.executorMap = m
    BY <2>2, <2>4, <2>5, ObjectTyped DEF UserSession, ServerInv
  <2>7. userSessions' = [userSessions EXCEPT ![o] = e]
    BY <1>3, <2>1, <2>3, <2>5 DEF AfterConnectionClosed
  <2>8. DataTyped
    BY DEF ServerInv
  <2>9. /\ userSessions' \in Seq(UserSession) /\ DOMAIN userSessions' = DOMAIN userSessions
        /\ userSessions'[o] = e /\ \A p \in DOMAIN userSessions \ {o} : userSessions'[p] = userSessions[p]
    BY <2>2, <2>6, <2>7, <2>8, ObjectChanges
  <2> QED BY <1>1, <2>4, <2>6, <2>9
<1> QED BY <1>2, <1>3

(* The expiry check.                                                       *)
LEMMA ExpiryKnown ==
  ASSUME DataTyped, expiry.pc # "idle"
  PROVE  /\ expiry \in [pc : {"close", "forget", "destroy"}, user : User] /\ expiry.user \in User
         /\ \A u : Expires(u) <=> u = expiry.user
<1>1. expiry # Idle
  BY DEF Idle
<1>2. PICK e \in [pc : {"close", "forget", "destroy"}, user : User] : e = expiry
  BY <1>1 DEF DataTyped
<1>3. e.user \in User
  OBVIOUS
<1> QED BY <1>2, <1>3 DEF Expires

LEMMA ExpiryGoes ==
  ASSUME DataTyped, expiry.pc # "idle", NEW pc \in {"forget", "destroy"}, expiry' = [expiry EXCEPT !.pc = pc]
  PROVE  /\ expiry' \in [pc : {"close", "forget", "destroy"}, user : User]
         /\ expiry'.pc = pc /\ expiry'.user = expiry.user
<1>1. PICK e : e = expiry
  OBVIOUS
<1>2. e \in [pc : {"close", "forget", "destroy"}, user : User]
  BY <1>1, ExpiryKnown
<1>3. PICK f : f = [e EXCEPT !.pc = pc]
  OBVIOUS
<1>4. f \in [pc : {"close", "forget", "destroy"}, user : User] /\ f.pc = pc /\ f.user = e.user
  BY <1>2, <1>3
<1> QED BY <1>1, <1>3, <1>4

LEMMA FindSays ==
  ASSUME NEW u \in User, ExpiryFinds(u)
  PROVE  /\ u \in DOMAIN activeUsers /\ expiry = Idle
         /\ expiry' \in [pc : {"close", "forget", "destroy"}, user : User]
         /\ expiry'.pc = "close" /\ expiry'.user = u
         /\ overlapped' = IF Initialising(u) # {} THEN overlapped \cup {u} ELSE overlapped
         /\ UNCHANGED <<database, work>>
<1>1. PICK e : e = [pc |-> "close", user |-> u]
  OBVIOUS
<1>2. e \in [pc : {"close", "forget", "destroy"}, user : User] /\ e.pc = "close" /\ e.user = u
  BY <1>1
<1> QED BY <1>1, <1>2 DEF ExpiryFinds

LEMMA CloseSays ==
  ASSUME ServerInv, ExpiryCloses \/ ExpiryThrows
  PROVE  \E u \in User, o \in DOMAIN userSessions :
           /\ expiry.pc = "close" /\ u = expiry.user
           /\ u \in DOMAIN activeUsers /\ o = activeUsers[u]
           /\ handles' \in Seq(Handle) /\ DOMAIN handles' = DOMAIN handles
           /\ \A h \in DOMAIN handles : /\ handles'[h].user = handles[h].user
                                        /\ handles'[h].made = handles[h].made
                                        /\ handles'[h].open => handles[h].open /\ h # userSessions[o].tables
           /\ UNCHANGED <<userSessions, activeUsers, files, overlapped, work>>
<1>1. expiry.pc = "close" /\ UNCHANGED <<userSessions, activeUsers, files, overlapped, work>>
  BY DEF ExpiryCloses, ExpiryThrows
<1>2. DataTyped /\ Linked
  BY DEF ServerInv
<1>3. PICK u \in User : u = expiry.user
  BY <1>1, <1>2, ExpiryKnown
<1>4. u \in DOMAIN activeUsers
  BY <1>1, <1>2, <1>3 DEF Linked
<1>5. PICK o \in DOMAIN userSessions : o = activeUsers[u]
  BY <1>2, <1>4 DEF Linked
<1>6. PICK t : t = userSessions[o].tables
  OBVIOUS
<1>7. t \in 0..Len(handles) /\ handles \in Seq(Handle)
  BY <1>2, <1>6 DEF Linked, Opened, DataTyped
<1>8. handles' = IF t = 0 THEN handles ELSE [handles EXCEPT ![t].open = FALSE]
  BY <1>3, <1>5, <1>6 DEF ExpiryCloses, ExpiryThrows, Closed
<1>9. /\ handles' \in Seq(Handle) /\ DOMAIN handles' = DOMAIN handles
      /\ \A h \in DOMAIN handles : /\ handles'[h].user = handles[h].user
                                   /\ handles'[h].made = handles[h].made
                                   /\ handles'[h].open => handles[h].open /\ h # t
  <2>1. CASE t = 0
    BY <1>7, <1>8, <2>1
  <2>2. CASE t # 0
    <3>1. t \in DOMAIN handles
      BY <1>7, <2>2
    <3>2. PICK e : e = [handles[t] EXCEPT !.open = FALSE]
      OBVIOUS
    <3>3. e \in Handle /\ e.user = handles[t].user /\ e.made = handles[t].made /\ e.open = FALSE
      <4>1. PICK d \in Handle : d = handles[t]
        BY <1>7, <3>1
      <4> QED BY <3>2, <4>1 DEF Handle
    <3>4. handles' = [handles EXCEPT ![t] = e]
      BY <1>8, <2>2, <3>2
    <3>5. /\ handles' \in Seq(Handle) /\ DOMAIN handles' = DOMAIN handles /\ handles'[t] = e
          /\ \A h \in DOMAIN handles \ {t} : handles'[h] = handles[h]
      BY <1>7, <3>1, <3>3, <3>4
    <3> QED BY <3>3, <3>5
  <2> QED BY <2>1, <2>2
<1> QED BY <1>1, <1>3, <1>4, <1>5, <1>6, <1>9

LEMMA ForgetSays ==
  ASSUME ServerInv, ExpiryForgets
  PROVE  /\ expiry.pc = "forget" /\ expiry.user \in DOMAIN activeUsers
         /\ expiry' \in [pc : {"close", "forget", "destroy"}, user : User]
         /\ expiry'.pc = "destroy" /\ expiry'.user = expiry.user
         /\ IsMap(activeUsers', User, Nat) /\ DOMAIN activeUsers' = DOMAIN activeUsers \ {expiry.user}
         /\ \A u \in DOMAIN activeUsers' : activeUsers'[u] = activeUsers[u]
         /\ UNCHANGED <<userSessions, handles, files, overlapped, work>>
<1>1. expiry.pc = "forget" /\ expiry' = [expiry EXCEPT !.pc = "destroy"]
      /\ activeUsers' = Without(activeUsers, expiry.user)
      /\ UNCHANGED <<userSessions, handles, files, overlapped, work>>
  BY DEF ExpiryForgets
<1>2. DataTyped /\ expiry.user \in DOMAIN activeUsers
  BY <1>1 DEF ServerInv, Linked
<1>3. IsMap(activeUsers', User, Nat) /\ DOMAIN activeUsers' = DOMAIN activeUsers \ {expiry.user}
      /\ \A u \in DOMAIN activeUsers' : activeUsers'[u] = activeUsers[u]
  BY <1>1, <1>2 DEF DataTyped, IsMap, Without
<1> QED BY <1>1, <1>2, <1>3, ExpiryGoes

LEMMA DestroySays ==
  ASSUME ServerInv, ExpiryDestroys
  PROVE  /\ expiry.pc = "destroy" /\ expiry' = Idle /\ files' \in [User -> [there : BOOLEAN, made : Nat]]
         /\ \A u \in User : u # expiry.user => files'[u] = files[u]
         /\ UNCHANGED <<userSessions, handles, activeUsers, overlapped, work>>
<1>1. PICK u : u = expiry.user
  OBVIOUS
<1>2. PICK e : e = [files[u] EXCEPT !.there = FALSE]
  OBVIOUS
<1>3. u \in User /\ files \in [User -> [there : BOOLEAN, made : Nat]]
  BY <1>1, ExpiryKnown DEF ServerInv, ExpiryDestroys, DataTyped
<1>4. e \in [there : BOOLEAN, made : Nat]
  BY <1>2, <1>3
<1>5. files' = [files EXCEPT ![u] = e]
  BY <1>1, <1>2 DEF ExpiryDestroys
<1> QED BY <1>1, <1>3, <1>4, <1>5 DEF ExpiryDestroys

LEMMA CreateSays ==
  ASSUME ServerInv, NEW s \in Session, InitCreate(s)
  PROVE  /\ files' \in [User -> [there : BOOLEAN, made : Nat]]
         /\ \A u \in User : u # UserOf[s] => files'[u] = files[u]
         /\ UNCHANGED <<userSessions, handles, activeUsers, expiry, overlapped>>
<1>1. PICK u \in User : u = UserOf[s]
  BY UsersKnown
<1>2. PICK n : n = files[u].made + 1
  OBVIOUS
<1>3. n \in Nat
  BY <1>1, <1>2 DEF ServerInv, DataTyped
<1>4. PICK e \in [there : BOOLEAN, made : Nat] : e = [there |-> TRUE, made |-> n]
  BY <1>3
<1>5. files' = [files EXCEPT ![u] = e]
  BY <1>1, <1>2, <1>4 DEF InitCreate
<1> QED BY <1>1, <1>4, <1>5 DEF InitCreate, ServerInv, DataTyped

----------------------------------------------------------------------------
(* The types and references of the database stay.                          *)

References == \A s \in Session : Refers(s)
Links ==
  /\ \A u \in DOMAIN activeUsers : activeUsers[u] \in DOMAIN userSessions
  /\ \A o \in DOMAIN userSessions : Opened(o)
  /\ expiry.pc \in {"close", "forget"} => expiry.user \in DOMAIN activeUsers

LEMMA SameLinks ==
  ASSUME DataTyped, Links, UNCHANGED <<database, expiry>>
  PROVE  DataTyped' /\ Links' /\ Grown
BY DEF database, DataTyped, Links, Opened, Grown

(* Objects that keep their tables or get some, executors that have them.   *)
LEMMA OpenedOn ==
  ASSUME DataTyped, Links, userSessions' \in Seq(UserSession), handles' \in Seq(Handle),
         DOMAIN userSessions' = DOMAIN userSessions, DOMAIN handles \subseteq DOMAIN handles',
         \A o \in DOMAIN userSessions :
           /\ userSessions'[o].tables = userSessions[o].tables \/ userSessions'[o].tables \in DOMAIN handles
           /\ \A t \in DOMAIN userSessions'[o].executorMap :
                \/ userSessions'[o].executorMap[t] \in DOMAIN handles
                \/ /\ t \in DOMAIN userSessions[o].executorMap
                   /\ userSessions'[o].executorMap[t] = userSessions[o].executorMap[t]
  PROVE  Grown /\ \A o \in DOMAIN userSessions' : Opened(o)'
<1>1. /\ Len(handles) \in Nat /\ Len(handles') \in Nat /\ DOMAIN handles = 1..Len(handles)
      /\ DOMAIN handles' = 1..Len(handles')
  BY DEF DataTyped
<1>2. 0..Len(handles) \subseteq 0..Len(handles')
  BY <1>1
<1>3. ASSUME NEW o \in DOMAIN userSessions
      PROVE  /\ userSessions'[o].tables \in 0..Len(handles')
             /\ \A t \in DOMAIN userSessions'[o].executorMap : userSessions'[o].executorMap[t] \in DOMAIN handles'
             /\ userSessions[o].tables # 0 => userSessions'[o].tables # 0
  <2>1. /\ userSessions[o].tables \in 0..Len(handles)
        /\ \A t \in DOMAIN userSessions[o].executorMap : userSessions[o].executorMap[t] \in DOMAIN handles
    BY DEF Links, Opened
  <2> QED BY <1>1, <1>2, <2>1
<1> QED BY <1>3 DEF Grown, Opened

LEMMA DataKeeps ==
  ASSUME ServerInv, NEW s \in Session, DataStep(s)
  PROVE  DataTyped' /\ Links' /\ Grown
<1>1. DataTyped /\ Links
  BY DEF ServerInv, Linked, Links
<1>2. CASE InitNewSession(s)
  <2>1. PICK n : n = Len(userSessions) + 1
    OBVIOUS
  <2>2. /\ userSessions' \in Seq(UserSession) /\ DOMAIN userSessions' = DOMAIN userSessions \cup {n}
        /\ n \notin DOMAIN userSessions /\ n \in Nat /\ userSessions'[n] = NewSession
        /\ \A o \in DOMAIN userSessions : userSessions'[o] = userSessions[o]
        /\ activeUsers' = Put(activeUsers, UserOf[s], n)
        /\ UNCHANGED <<handles, files, expiry>>
    BY <1>2, <2>1, NewSessionSays
  <2>3. UserOf[s] \in User
    BY UsersKnown
  <2>4. /\ IsMap(activeUsers', User, Nat) /\ DOMAIN activeUsers' = DOMAIN activeUsers \cup {UserOf[s]}
        /\ \A u \in DOMAIN activeUsers' : activeUsers'[u] \in DOMAIN userSessions'
    BY <1>1, <2>2, <2>3 DEF DataTyped, Links, IsMap, Put
  <2>5. NewSession.tables = 0 /\ NewSession.executorMap = <<>> /\ DOMAIN NewSession.executorMap = {}
    BY DEF NewSession
  <2>6. Len(handles) \in Nat
    BY <1>1 DEF DataTyped
  <2>7. Opened(n)'
    BY <2>2, <2>5, <2>6 DEF Opened
  <2>8. \A o \in DOMAIN userSessions' : Opened(o)'
    BY <1>1, <2>2, <2>7 DEF Links, Opened
  <2> QED BY <1>1, <2>2, <2>4, <2>8 DEF DataTyped, Links, Grown
<1>3. CASE InitCreate(s)
  BY <1>1, <1>3, CreateSays DEF DataTyped, Links, Opened, Grown
<1>4. CASE InitOpen(s)
  <2>1. PICK n : n = Len(handles) + 1
    OBVIOUS
  <2>2. /\ handles' \in Seq(Handle) /\ DOMAIN handles' = DOMAIN handles \cup {n}
        /\ UNCHANGED <<userSessions, activeUsers, files, expiry>>
    BY <1>4, <2>1, OpenSays
  <2>3. userSessions' \in Seq(UserSession)
    BY <1>1, <2>2 DEF DataTyped
  <2>4. Grown /\ \A o \in DOMAIN userSessions' : Opened(o)'
    BY <1>1, <2>2, <2>3, OpenedOn
  <2> QED BY <1>1, <2>2, <2>4 DEF DataTyped, Links
<1>5. CASE InitSet(s)
  <2>1. PICK o \in DOMAIN userSessions, h \in DOMAIN handles :
          /\ userSessions' \in Seq(UserSession) /\ DOMAIN userSessions' = DOMAIN userSessions
          /\ userSessions'[o].tables = h /\ userSessions'[o].executorMap = userSessions[o].executorMap
          /\ \A p \in DOMAIN userSessions \ {o} : userSessions'[p] = userSessions[p]
          /\ UNCHANGED <<activeUsers, handles, files, expiry>>
    BY <1>5, SetSays
  <2>2. handles' \in Seq(Handle) /\ DOMAIN handles' = DOMAIN handles
    BY <1>1, <2>1 DEF DataTyped
  <2>3. Grown /\ \A p \in DOMAIN userSessions' : Opened(p)'
    BY <1>1, <2>1, <2>2, OpenedOn
  <2> QED BY <1>1, <2>1, <2>3 DEF DataTyped, Links
<1>6. CASE InitExecutor(s)
  <2>1. PICK o \in DOMAIN userSessions :
          /\ userSessions[o].tables # 0
          /\ userSessions' \in Seq(UserSession) /\ DOMAIN userSessions' = DOMAIN userSessions
          /\ userSessions'[o].tables = userSessions[o].tables
          /\ userSessions'[o].executorMap = Put(userSessions[o].executorMap, s, userSessions[o].tables)
          /\ \A p \in DOMAIN userSessions \ {o} : userSessions'[p] = userSessions[p]
          /\ UNCHANGED <<activeUsers, handles, files, expiry>>
    BY <1>6, ExecutorSays
  <2>2. handles' \in Seq(Handle) /\ DOMAIN handles' = DOMAIN handles
    BY <1>1, <2>1 DEF DataTyped
  <2>3. userSessions[o].tables \in DOMAIN handles
    <3>1. userSessions[o].tables \in 0..Len(handles) /\ DOMAIN handles = 1..Len(handles) /\ Len(handles) \in Nat
      BY <1>1 DEF Links, Opened, DataTyped
    <3> QED BY <2>1, <3>1
  <2>4. PICK m : m = userSessions[o].executorMap
    OBVIOUS
  <2>5. \A t \in DOMAIN userSessions'[o].executorMap :
          \/ userSessions'[o].executorMap[t] \in DOMAIN handles
          \/ t \in DOMAIN m /\ userSessions'[o].executorMap[t] = m[t]
    BY <2>1, <2>3, <2>4 DEF Put
  <2>6. Grown /\ \A p \in DOMAIN userSessions' : Opened(p)'
    BY <1>1, <2>1, <2>2, <2>4, <2>5, OpenedOn
  <2> QED BY <1>1, <2>1, <2>6 DEF DataTyped, Links
<1>7. CASE AfterConnectionClosed(s)
  <2>1. handles' \in Seq(Handle) /\ DOMAIN handles' = DOMAIN handles
    BY <1>1, <1>7, ClosedSays DEF DataTyped
  <2>2. Grown /\ \A p \in DOMAIN userSessions' : Opened(p)'
    BY <1>1, <1>7, <2>1, ClosedSays, OpenedOn
  <2> QED BY <1>1, <1>7, <2>2, ClosedSays DEF DataTyped, Links
<1> QED BY <1>2, <1>3, <1>4, <1>5, <1>6, <1>7 DEF DataStep

LEMMA ExpiryKeeps ==
  ASSUME ServerInv, ExpiryStep
  PROVE  DataTyped' /\ Links' /\ Grown /\ work' = work
<1>1. DataTyped /\ Links
  BY DEF ServerInv, Linked, Links
<1>2. ASSUME NEW u \in User, ExpiryFinds(u)
      PROVE  DataTyped' /\ Links' /\ Grown /\ work' = work
  BY <1>1, <1>2, FindSays DEF database, DataTyped, Links, Opened, Grown
<1>3. CASE ExpiryCloses \/ ExpiryThrows
  <2>1. PICK u \in User, o \in DOMAIN userSessions :
          /\ expiry.pc = "close" /\ u = expiry.user /\ u \in DOMAIN activeUsers
          /\ handles' \in Seq(Handle) /\ DOMAIN handles' = DOMAIN handles
          /\ UNCHANGED <<userSessions, activeUsers, files, work>>
    BY <1>3, CloseSays
  <2>2. /\ expiry' = Idle \/ expiry' \in [pc : {"close", "forget", "destroy"}, user : User]
        /\ expiry'.pc \in {"close", "forget"} => expiry'.user = u
    <3>1. CASE ExpiryCloses
      BY <1>1, <2>1, <3>1, ExpiryGoes DEF ExpiryCloses
    <3>2. CASE ExpiryThrows
      BY <3>2 DEF ExpiryThrows, Idle
    <3> QED BY <1>3, <3>1, <3>2
  <2>3. userSessions' \in Seq(UserSession)
    BY <1>1, <2>1 DEF DataTyped
  <2>4. Grown /\ \A p \in DOMAIN userSessions' : Opened(p)'
    BY <1>1, <2>1, <2>3, OpenedOn
  <2> QED BY <1>1, <2>1, <2>2, <2>4 DEF DataTyped, Links
<1>4. CASE ExpiryForgets
  BY <1>1, <1>4, ForgetSays DEF DataTyped, Links, Opened, Grown
<1>5. CASE ExpiryDestroys
  BY <1>1, <1>5, DestroySays DEF DataTyped, Links, Opened, Grown, Idle
<1> QED BY <1>2, <1>3, <1>4, <1>5 DEF ExpiryStep, Expiring

(* The task of s, after its step.                                          *)
LEMMA StepRefers ==
  ASSUME ServerInv, NEW s \in Session, StillStep(s) \/ InitLook(s) \/ DataStep(s), Grown
  PROVE  Refers(s)' /\ \A t \in Session \ {s} : work'[t] = work[t]
<1>1. DOMAIN work = Session /\ Refers(s) /\ Linked
  BY DEF ServerInv, WorkTyped, Linked
<1>2. PICK w, v : w = work[s] /\ v = work'[s]
  OBVIOUS
<1>3. /\ w.pc \in InSession => w.session \in DOMAIN userSessions'
      /\ w.pc = "set" => w.handle \in DOMAIN handles
      /\ w.pc = "executor" => userSessions[w.session].tables # 0
  BY <1>1, <1>2 DEF Refers, Grown
<1>4. ASSUME v.pc \notin InSession PROVE Refers(s)'
  BY <1>2, <1>4 DEF Refers, InSession
<1>5. ASSUME v.pc \in InSession \ {"set", "executor"}, v.session \in DOMAIN userSessions'
      PROVE  Refers(s)'
  BY <1>2, <1>5 DEF Refers
<1>6. CASE StillStep(s) /\ ~InitFiles(s) /\ ~InitCheck(s)
  <2>1. Take(s) \/ SqlBegins(s) \/ Goes(s, Idle)
    BY <1>6 DEF StillStep, InitNoDirectory, InitOpenThrows, InitExecutorLost, InitKnown, SqlRefused, SqlEnds, Answers
  <2>2. CASE Take(s)
    BY <1>2, <1>4, <2>2, TakeSays DEF ServerInv, Moves, InSession
  <2>3. CASE SqlBegins(s)
    BY <1>1, <1>2, <1>4, <2>3, InitSays, GoesSays DEF SqlBegins, InSession
  <2>4. CASE Goes(s, Idle)
    BY <1>1, <1>2, <1>4, <2>4, GoesSays DEF Idle, InSession
  <2> QED BY <2>1, <2>2, <2>3, <2>4
<1>7. CASE InitFiles(s)
  BY <1>1, <1>2, <1>3, <1>5, <1>7, InitSays, GoesSays DEF InitFiles, At, Sits, InSession
<1>8. CASE InitCheck(s)
  <2>1. CASE Opens(s)
    BY <1>1, <1>2, <1>3, <1>5, <1>8, <2>1, InitSays, GoesSays DEF InitCheck, At, Sits, InSession
  <2>2. CASE ~Opens(s)
    <3>1. v.pc = "executor" /\ v.session = w.session /\ userSessions[w.session].tables # 0
          /\ w.pc = "check" /\ userSessions' = userSessions
      BY <1>2, <1>8, <2>2, InitSays DEF InitCheck, At, Sits, Opens, database
    <3>2. v.session \in DOMAIN userSessions' /\ userSessions'[v.session].tables # 0
      BY <1>3, <3>1 DEF InSession
    <3>3. Refers(s)'
      BY <1>2, <3>1, <3>2 DEF Refers
    <3> QED BY <1>1, <1>8, <3>3, GoesSays DEF InitCheck
  <2> QED BY <2>1, <2>2
<1>9. CASE InitLook(s)
  <2>1. CASE UserOf[s] \in DOMAIN activeUsers
    <3>1. v.pc = "files" /\ v.session = activeUsers[UserOf[s]] /\ userSessions' = userSessions
      BY <1>2, <1>9, <2>1, InitSays DEF Sits, InitLook, database
    <3>2. v.session \in DOMAIN userSessions'
      BY <1>1, <2>1, <3>1 DEF Linked
    <3> QED BY <1>1, <1>5, <1>9, <3>1, <3>2, GoesSays DEF InitLook, InSession
  <2>2. CASE UserOf[s] \notin DOMAIN activeUsers
    BY <1>1, <1>2, <1>4, <1>9, <2>2, InitSays, GoesSays DEF InitLook, InSession
  <2> QED BY <2>1, <2>2
<1>10. CASE InitNewSession(s)
  <2>1. v.pc = "files" /\ v.session = Len(userSessions) + 1
    BY <1>2, <1>10, InitSays DEF Sits
  <2>2. v.session \in DOMAIN userSessions'
    BY <1>10, <2>1, NewSessionSays
  <2> QED BY <1>1, <1>5, <1>10, <2>1, <2>2, GoesSays DEF InitNewSession, InSession
<1>11. CASE InitCreate(s)
  BY <1>1, <1>2, <1>3, <1>5, <1>11, InitSays, GoesSays DEF InitCreate, At, Sits, InSession
<1>12. CASE InitOpen(s)
  <2>1. v.pc = "set" /\ v.session = w.session /\ v.handle = Len(handles) + 1 /\ w.pc = "open"
    BY <1>2, <1>12, InitSays DEF Sits, InitOpen, At
  <2>2. v.session \in DOMAIN userSessions' /\ v.handle \in DOMAIN handles'
    BY <1>3, <1>12, <2>1, OpenSays DEF InSession
  <2>3. Refers(s)'
    BY <1>2, <2>1, <2>2 DEF Refers
  <2> QED BY <1>1, <1>12, <2>3, GoesSays DEF InitOpen
<1>13. CASE InitSet(s)
  <2>1. v.pc = "executor" /\ v.session = w.session
    BY <1>2, <1>13, InitSays DEF Sits
  <2>2. v.session \in DOMAIN userSessions' /\ userSessions'[v.session].tables # 0
    BY <1>2, <1>13, <2>1, SetSays
  <2>3. Refers(s)'
    BY <1>2, <2>1, <2>2 DEF Refers
  <2> QED BY <1>1, <1>13, <2>3, GoesSays DEF InitSet
<1>14. CASE InitExecutor(s)
  BY <1>1, <1>2, <1>4, <1>14, GoesSays DEF InitExecutor, Answers, Idle, InSession
<1>15. CASE AfterConnectionClosed(s)
  <2>1. work' = work
    BY <1>15 DEF AfterConnectionClosed
  <2> QED BY <1>1, <2>1, RefersOn
<1> QED BY <1>6, <1>7, <1>8, <1>9, <1>10, <1>11, <1>12, <1>13, <1>14, <1>15 DEF DataStep

LEMMA ServerStays ==
  ASSUME ServerInv, [Next]_vars
  PROVE  ServerInv'
<1>1. DataTyped /\ Links /\ References
  BY DEF ServerInv, Linked, Links, References
<1>2. ASSUME Still, work' = work
      PROVE  DataTyped' /\ Links' /\ References'
  <2>1. DataTyped' /\ Links' /\ Grown
    BY <1>1, <1>2, SameLinks DEF Still
  <2> QED BY <1>1, <1>2, <2>1, RefersOn DEF References
<1>3. ASSUME ExpiryStep
      PROVE  DataTyped' /\ Links' /\ References'
  BY <1>1, <1>3, ExpiryKeeps, RefersOn DEF References
<1>4. ASSUME NEW s \in Session, StillStep(s) \/ InitLook(s) \/ DataStep(s)
      PROVE  DataTyped' /\ Links' /\ References'
  <2>1. DataTyped' /\ Links' /\ Grown
    <3>1. CASE StillStep(s) \/ InitLook(s)
      <4>1. UNCHANGED <<database, expiry>>
        BY <3>1, StillIsStill DEF Still, InitLook
      <4> QED BY <1>1, <4>1, SameLinks
    <3> QED BY <1>4, <3>1, DataKeeps
  <2> QED BY <1>1, <1>4, <2>1, StepRefers, RefersOn DEF References
<1>5. \A s \in Session : AfterConnectionClosed(s) => DataStep(s)
  BY DEF DataStep
<1>6. DataTyped' /\ Links' /\ References'
  BY <1>2, <1>3, <1>4, <1>5, StepsMove
<1> QED BY <1>6, TalkStays DEF ServerInv, Linked, Links, References

----------------------------------------------------------------------------
(* At first there is nothing.                                              *)

LEMMA ServerStarts ==
  ASSUME Init PROVE ServerInv
<1>1. TalkTyped
  BY DEF Init, ServerInit, TalkTyped
<1>2. WorkTyped /\ \A s \in Session : Admitted(s) /\ Refers(s)
  BY DEF Init, ServerInit, WorkTyped, WorkShape, Admitted, Refers, Idle, InSession
<1>3. userSessions \in Seq(UserSession) /\ handles \in Seq(Handle) /\ DOMAIN userSessions = {}
  BY DEF Init, ServerInit
<1>4. IsMap(activeUsers, User, Nat) /\ DOMAIN activeUsers = {}
  BY DEF Init, ServerInit, IsMap
<1>5. files \in [User -> [there : BOOLEAN, made : Nat]] /\ expiry = Idle /\ expiry.pc = "idle"
  BY DEF Init, ServerInit, Idle
<1> QED BY <1>1, <1>2, <1>3, <1>4, <1>5 DEF ServerInv, DataTyped, Linked

LEMMA OrderStarts ==
  ASSUME Init, NEW s \in Session PROVE Ordered(s)
<1>1. shown[s] = 0 /\ down[s] = <<>> /\ tasks[s] = <<>> /\ up[s] = <<>> /\ sent[s] = 0 /\ work[s] = Idle
  BY DEF Init, ServerInit
<1>2. Rising(<<>>) /\ Elems(<<>>) = {} /\ IdsOf(<<>>) = <<>>
  BY DEF Rising, Elems, IdsOf
<1>3. Doing(s) = {}
  BY <1>1 DEF Doing
<1>4. InOrder(0, <<>>, {}, <<>>, <<>>, 0)
  BY <1>2 DEF InOrder, Before
<1> QED BY <1>1, <1>2, <1>3, <1>4 DEF Ordered

(* The page and the server keep their types, and a thread works only for a *)
(* connection that was open (Terminal, TerminalWebSocketHandler).          *)
THEOREM ConsoleTyped == Spec => []TypeOK
<1>1. Init => ServerInv /\ PageInv
  BY ServerStarts, PagesStart
<1>2. ServerInv /\ PageInv /\ [Next]_vars => ServerInv' /\ PageInv'
  BY ServerStays, PagesStay
<1>3. ASSUME ServerInv, PageInv PROVE TypeOK
  <2>1. PageTypeOK
    BY <1>3 DEF PageInv, HistoryTyped, RunsTyped, PageTypeOK
  <2>2. IsMap(activeUsers, User, DOMAIN userSessions)
    BY <1>3 DEF ServerInv, DataTyped, Linked, IsMap
  <2>3. ASSUME NEW o \in DOMAIN userSessions
        PROVE  /\ userSessions[o].tables \in 0..Len(handles)
               /\ IsMap(userSessions[o].executorMap, Session, DOMAIN handles)
    <3>1. userSessions[o].executorMap \in Executors /\ Opened(o)
      BY <1>3, ObjectTyped DEF ServerInv, Linked
    <3>2. PICK m \in Executors : m = userSessions[o].executorMap
      BY <3>1
    <3>3. IsMap(m, Session, DOMAIN handles)
      BY <3>1, <3>2 DEF Executors, Opened, IsMap
    <3> QED BY <3>1, <3>2, <3>3 DEF Opened
  <2> QED BY <1>3, <2>1, <2>2, <2>3 DEF TypeOK, ServerInv, TalkTyped, Linked, Admitted
<1> QED BY <1>1, <1>2, <1>3, PTL DEF Spec

(* The answers of a connection are shown in the order of its commands, and *)
(* none is shown twice (the executor service of one thread,                *)
(* handleTextMessage).                                                     *)
THEOREM AnswersStayInOrder == Spec => []AnswersInOrder
<1> DEFINE AllOrdered == \A s \in Session : Ordered(s)
<1>1. Init => ServerInv /\ AllOrdered
  BY ServerStarts, OrderStarts
<1>2. ServerInv /\ AllOrdered /\ [Next]_vars => ServerInv' /\ AllOrdered'
  BY ServerStays, OrderStays
<1>3. ServerInv /\ AllOrdered => AnswersInOrder
  BY OrderSays DEF ServerInv, AnswersInOrder
<1> QED BY <1>1, <1>2, <1>3, PTL DEF Spec

----------------------------------------------------------------------------
(* What of the inits, the objects and the database of a user has to stay,  *)
(* for its quiet to stay.                                                  *)

SameInits(u) == Initialising(u)' = Initialising(u) /\ \A s \in Initialising(u) : work'[s] = work[s]
SameEntry(u) ==
  /\ u \in DOMAIN activeUsers' <=> u \in DOMAIN activeUsers
  /\ u \in DOMAIN activeUsers => activeUsers'[u] = activeUsers[u]
SameExpiry(u) == (Expires(u)' <=> Expires(u)) /\ (Expires(u) => expiry'.pc = expiry.pc)
FewerOpen(u) ==
  /\ OpenOf(u)' \subseteq OpenOf(u)
  /\ \A h \in OpenOf(u)' : handles'[h].made = handles[h].made
SameObject(o) ==
  /\ userSessions'[o].tables = userSessions[o].tables
  /\ \A t \in DOMAIN userSessions'[o].executorMap :
       /\ t \in DOMAIN userSessions[o].executorMap
       /\ userSessions'[o].executorMap[t] = userSessions[o].executorMap[t]
SameObjects(u) ==
  /\ DOMAIN userSessions \subseteq DOMAIN userSessions'
  /\ \A o \in DOMAIN userSessions : Uses(u, o) => SameObject(o)
Frame(u) ==
  /\ SameInits(u) /\ SameEntry(u) /\ SameExpiry(u) /\ FewerOpen(u) /\ SameObjects(u)
  /\ files'[u] = files[u]

LEMMA Objects ==
  ASSUME ServerInv, NEW u \in User
  PROVE  /\ u \in DOMAIN activeUsers => activeUsers[u] \in DOMAIN userSessions /\ Uses(u, activeUsers[u])
         /\ \A s \in Session : UserOf[s] = u /\ work[s].pc \in InSession =>
              work[s].session \in DOMAIN userSessions /\ Uses(u, work[s].session)
BY DEF ServerInv, Linked, Refers, Uses

LEMMA StaysQuiet ==
  ASSUME ServerInv, NEW u \in User, Quiet(u), Frame(u)
  PROVE  Quiet(u)'
<1>1. SameInits(u) /\ SameEntry(u) /\ SameExpiry(u) /\ FewerOpen(u) /\ SameObjects(u) /\ files'[u] = files[u]
  BY DEF Frame
<1>2. InitAlone(u)'
  BY <1>1 DEF Quiet, InitAlone, SameInits, SameExpiry
<1>3. ASSUME NEW o, Registers(u, o)
      PROVE  Registers(u, o)' /\ o \in DOMAIN userSessions' /\ SameObject(o)
  BY <1>1, <1>3, Objects DEF Registers, SameEntry, SameObjects
<1>4. ASSUME NEW s \in Initialising(u)'
      PROVE  InitKnows(u, s)'
  <2>1. PICK w : w = work[s] /\ work'[s] = w /\ s \in Session /\ UserOf[s] = u
    BY <1>1 DEF SameInits, Initialising
  <2>2. InitKnows(u, s)
    BY <1>1 DEF SameInits, Quiet
  <2>3. /\ w.pc = "new session" => u \notin DOMAIN activeUsers'
        /\ w.pc \in InSession => Registers(u, w.session)'
        /\ w.pc = "create" => ~files'[u].there
    BY <1>1, <1>3, <2>1, <2>2 DEF InitKnows, At, SameEntry
  <2>4. w.pc \in {"open", "set"} => userSessions'[w.session].tables = 0
    BY <1>3, <2>1, <2>2 DEF InitKnows, InSession, SameObject
  <2> QED BY <2>1, <2>3, <2>4 DEF InitKnows, At
<1>5. ASSUME NEW h \in OpenOf(u)'
      PROVE  Current(u, h)' /\ (~Expires(u)' => files'[u].there /\ files'[u].made = handles'[h].made)
  <2>1. h \in OpenOf(u) /\ handles'[h].made = handles[h].made
    BY <1>1 DEF FewerOpen
  <2>2. Current(u, h) /\ (~Expires(u) => files[u].there /\ files[u].made = handles[h].made)
    BY <2>1 DEF Quiet, OneOpen
  <2>3. PICK o \in DOMAIN userSessions :
          /\ Registers(u, o)
          /\ \/ userSessions[o].tables = h
             \/ \E s \in Initialising(u) : At(s, "set") /\ work[s].session = o /\ work[s].handle = h
    BY <2>2 DEF Current
  <2>4. Registers(u, o)' /\ o \in DOMAIN userSessions' /\ userSessions'[o].tables = userSessions[o].tables
    BY <1>3, <2>3 DEF SameObject
  <2>5. \/ userSessions'[o].tables = h
        \/ \E s \in Initialising(u)' : At(s, "set")' /\ work'[s].session = o /\ work'[s].handle = h
    BY <1>1, <2>3, <2>4 DEF SameInits, At
  <2>6. Current(u, h)'
    BY <2>4, <2>5 DEF Current
  <2> QED BY <1>1, <2>1, <2>2, <2>6 DEF SameExpiry
<1>6. Expired(u)'
  BY <1>1 DEF SameExpiry, FewerOpen, SameEntry, Quiet, Expired
<1>7. Shares(u)'
  <2> SUFFICES ASSUME u \in DOMAIN activeUsers'
               PROVE  \A s \in DOMAIN userSessions'[activeUsers'[u]].executorMap :
                        /\ userSessions'[activeUsers'[u]].executorMap[s] = userSessions'[activeUsers'[u]].tables
                        /\ userSessions'[activeUsers'[u]].tables # 0
    BY DEF Shares
  <2>1. PICK o : o = activeUsers[u] /\ activeUsers'[u] = o /\ u \in DOMAIN activeUsers
    BY <1>1 DEF SameEntry
  <2>2. SameObject(o)
    BY <1>3, <2>1 DEF Registers
  <2>3. \A s \in DOMAIN userSessions[o].executorMap :
          userSessions[o].executorMap[s] = userSessions[o].tables /\ userSessions[o].tables # 0
    BY <2>1 DEF Quiet, Shares
  <2> QED BY <2>1, <2>2, <2>3 DEF SameObject
<1> QED BY <1>2, <1>4, <1>5, <1>6, <1>7 DEF Quiet, OneOpen

----------------------------------------------------------------------------
(* The steps that leave a user alone.                                      *)

ThreadStep(s) == StillStep(s) \/ InitLook(s) \/ DataStep(s)
Outside(s) == Take(s) \/ InitKnown(s) \/ SqlRefused(s) \/ SqlBegins(s) \/ SqlEnds(s)

LEMMA OthersStay ==
  ASSUME ServerInv, NEW s \in Session, ThreadStep(s)
  PROVE  \A t \in Session \ {s} : work'[t] = work[t]
<1>1. DataTyped /\ Links
  BY DEF ServerInv, Linked, Links
<1>2. CASE StillStep(s) \/ InitLook(s)
  <2>1. UNCHANGED <<database, expiry>>
    BY <1>2, StillIsStill DEF Still, InitLook
  <2> QED BY <1>1, <1>2, <2>1, SameLinks, StepRefers
<1>3. CASE DataStep(s)
  BY <1>3, DataKeeps, StepRefers
<1> QED BY <1>2, <1>3 DEF ThreadStep

LEMMA OutsideStays ==
  ASSUME ServerInv, NEW s \in Session, Outside(s)
  PROVE  Still /\ work[s].pc \notin InitSteps /\ work'[s].pc \notin InitSteps
<1>1. StillStep(s)
  BY DEF Outside, StillStep
<1>2. Still
  BY <1>1, StillIsStill
<1>3. CASE Take(s)
  <2>1. work[s] = Idle /\ work'[s].pc \in {"init", "sql"}
    BY <1>3, TakeSays DEF ServerInv
  <2>2. work[s].pc = "idle"
    BY <2>1 DEF Idle
  <2> QED BY <1>2, <2>1, <2>2 DEF InitSteps
<1>4. CASE SqlBegins(s)
  BY <1>2, <1>4, InitSays DEF SqlBegins, At, InitSteps
<1>5. CASE InitKnown(s) \/ SqlRefused(s) \/ SqlEnds(s)
  <2>1. work'[s] = Idle
    BY <1>5, GoesSays DEF InitKnown, SqlRefused, SqlEnds, Answers, ServerInv, WorkTyped
  <2>2. work[s].pc \in {"init", "sql", "execute"} /\ work'[s].pc = "idle"
    BY <1>5, <2>1 DEF InitKnown, SqlRefused, SqlEnds, At, Idle
  <2> QED BY <1>2, <2>2 DEF InitSteps
<1> QED BY <1>3, <1>4, <1>5 DEF Outside

(* The inits of a user, when the others' threads or none have moved.       *)
LEMMA InitsStay ==
  ASSUME NEW u, NEW s, \A t \in Session \ {s} : work'[t] = work[t],
         UserOf[s] # u \/ (work[s].pc \notin InitSteps /\ work'[s].pc \notin InitSteps) \/ work' = work
  PROVE  SameInits(u)
BY DEF SameInits, Initialising

LEMMA StillFrames ==
  ASSUME NEW u, SameInits(u), Still
  PROVE  Frame(u)
<1>1. UNCHANGED <<userSessions, activeUsers, handles, files, expiry>>
  BY DEF Still, database
<1> QED BY <1>1 DEF Frame, SameEntry, SameExpiry, FewerOpen, OpenOf, SameObjects, SameObject, Expires

(* A thread that works for another user.                                   *)
LEMMA OthersFrame ==
  ASSUME ServerInv, Apart, NEW u \in User, NEW s \in Session, ThreadStep(s), UserOf[s] # u
  PROVE  Frame(u)
<1>1. SameInits(u)
  BY OthersStay, InitsStay
<1>2. CASE StillStep(s)
  BY <1>1, <1>2, StillIsStill, StillFrames
<1>3. CASE InitLook(s)
  <2>1. UNCHANGED <<userSessions, activeUsers, handles, files, expiry>>
    BY <1>3 DEF InitLook, database
  <2> QED BY <1>1, <2>1 DEF Frame, SameEntry, SameExpiry, FewerOpen, OpenOf, SameObjects, SameObject, Expires
<1>4. ASSUME UNCHANGED <<activeUsers, handles, files, expiry>>, SameObjects(u)
      PROVE  Frame(u)
  BY <1>1, <1>4 DEF Frame, SameEntry, SameExpiry, FewerOpen, OpenOf, Expires
<1>5. ASSUME UNCHANGED <<userSessions, activeUsers, expiry>>, FewerOpen(u), files'[u] = files[u]
      PROVE  Frame(u)
  BY <1>1, <1>5 DEF Frame, SameEntry, SameExpiry, SameObjects, SameObject, Expires
<1>6. CASE InitNewSession(s)
  <2>1. PICK n : n = Len(userSessions) + 1
    OBVIOUS
  <2>2. /\ DOMAIN userSessions' = DOMAIN userSessions \cup {n}
        /\ \A o \in DOMAIN userSessions : userSessions'[o] = userSessions[o]
        /\ activeUsers' = Put(activeUsers, UserOf[s], n)
        /\ UNCHANGED <<handles, files, expiry>>
    BY <1>6, <2>1, NewSessionSays
  <2>3. SameEntry(u)
    BY <2>2 DEF SameEntry, Put
  <2>4. SameObjects(u)
    BY <2>2 DEF SameObjects, SameObject
  <2> QED BY <1>1, <2>2, <2>3, <2>4 DEF Frame, SameExpiry, FewerOpen, OpenOf, Expires
<1>7. CASE InitCreate(s)
  <2>1. /\ files'[u] = files[u] /\ UNCHANGED <<userSessions, handles, activeUsers, expiry>>
    BY <1>7, CreateSays
  <2> QED BY <1>5, <2>1 DEF FewerOpen, OpenOf
<1>8. CASE InitOpen(s)
  <2>1. PICK n : n = Len(handles) + 1
    OBVIOUS
  <2>2. /\ DOMAIN handles' = DOMAIN handles \cup {n}
        /\ handles'[n] = [user |-> UserOf[s], made |-> files[UserOf[s]].made, open |-> TRUE]
        /\ \A h \in DOMAIN handles : handles'[h] = handles[h]
        /\ UNCHANGED <<userSessions, activeUsers, files, expiry>>
    BY <1>8, <2>1, OpenSays
  <2>3. handles'[n].user # u
    BY <2>2
  <2>4. FewerOpen(u)
    BY <2>2, <2>3 DEF FewerOpen, OpenOf
  <2> QED BY <1>5, <2>2, <2>4
<1>9. ASSUME NEW o \in DOMAIN userSessions, o = work[s].session, work[s].pc \in InSession
      PROVE  ~Uses(u, o)
  <2>1. Uses(UserOf[s], o) /\ UserOf[s] \in User
    BY <1>9, UsersKnown DEF Uses
  <2> QED BY <2>1 DEF Apart
<1>10. CASE InitSet(s)
  <2>1. PICK o \in DOMAIN userSessions :
          /\ o = work[s].session /\ DOMAIN userSessions' = DOMAIN userSessions
          /\ \A p \in DOMAIN userSessions \ {o} : userSessions'[p] = userSessions[p]
          /\ UNCHANGED <<activeUsers, handles, files, expiry>>
    BY <1>10, SetSays
  <2>2. ~Uses(u, o)
    BY <1>9, <1>10, <2>1 DEF InitSet, At, InSession
  <2>3. SameObjects(u)
    BY <2>1, <2>2 DEF SameObjects, SameObject
  <2> QED BY <1>4, <2>1, <2>3
<1>11. CASE InitExecutor(s)
  <2>1. PICK o \in DOMAIN userSessions :
          /\ o = work[s].session /\ DOMAIN userSessions' = DOMAIN userSessions
          /\ \A p \in DOMAIN userSessions \ {o} : userSessions'[p] = userSessions[p]
          /\ UNCHANGED <<activeUsers, handles, files, expiry>>
    BY <1>11, ExecutorSays
  <2>2. ~Uses(u, o)
    BY <1>9, <1>11, <2>1 DEF InitExecutor, At, InSession
  <2>3. SameObjects(u)
    BY <2>1, <2>2 DEF SameObjects, SameObject
  <2> QED BY <1>4, <2>1, <2>3
<1>12. CASE AfterConnectionClosed(s)
  <2>1. SameObjects(u)
    BY <1>12, ClosedSays DEF SameObjects, SameObject
  <2> QED BY <1>4, <1>12, <2>1, ClosedSays
<1> QED BY <1>2, <1>3, <1>6, <1>7, <1>8, <1>10, <1>11, <1>12 DEF ThreadStep, DataStep

(* Connections that close, and the expiry of another user.                 *)
LEMMA ClosedFrames ==
  ASSUME ServerInv, NEW u \in User, NEW s \in Session, AfterConnectionClosed(s)
  PROVE  Frame(u)
<1>1. SameObjects(u) /\ UNCHANGED <<activeUsers, handles, files, expiry, work>>
  BY ClosedSays DEF SameObjects, SameObject
<1> QED BY <1>1 DEF Frame, SameInits, Initialising, SameEntry, SameExpiry, FewerOpen, OpenOf, Expires

LEMMA ExpiryFrames ==
  ASSUME ServerInv, NEW u \in User, ExpiryStep, ~Expires(u), ~Expires(u)'
  PROVE  Frame(u)
<1>1. SameInits(u) /\ SameExpiry(u)
  BY ExpiryKeeps DEF SameInits, Initialising, SameExpiry
<1>2. ASSUME UNCHANGED userSessions, SameEntry(u), FewerOpen(u), files'[u] = files[u]
      PROVE  Frame(u)
  BY <1>1, <1>2 DEF Frame, SameObjects, SameObject
<1>3. ASSUME NEW v \in User, ExpiryFinds(v)
      PROVE  Frame(u)
  <2>1. UNCHANGED <<userSessions, activeUsers, handles, files>>
    BY <1>3 DEF ExpiryFinds, database
  <2> QED BY <1>2, <2>1 DEF SameEntry, FewerOpen, OpenOf
<1>4. CASE ExpiryCloses \/ ExpiryThrows
  <2>1. /\ DOMAIN handles' = DOMAIN handles
        /\ \A h \in DOMAIN handles : /\ handles'[h].user = handles[h].user
                                     /\ handles'[h].made = handles[h].made
                                     /\ handles'[h].open => handles[h].open
        /\ UNCHANGED <<userSessions, activeUsers, files>>
    BY <1>4, CloseSays
  <2>2. FewerOpen(u)
    BY <2>1 DEF FewerOpen, OpenOf
  <2> QED BY <1>2, <2>1, <2>2 DEF SameEntry
<1>5. CASE ExpiryForgets
  <2>1. expiry.user # u
    BY <1>5 DEF ExpiryForgets, Expires
  <2> QED BY <1>2, <1>5, <2>1, ForgetSays DEF SameEntry, FewerOpen, OpenOf
<1>6. CASE ExpiryDestroys
  <2>1. expiry.user # u
    BY <1>6 DEF ExpiryDestroys, Expires
  <2> QED BY <1>2, <1>6, <2>1, DestroySays DEF SameEntry, FewerOpen, OpenOf
<1> QED BY <1>3, <1>4, <1>5, <1>6 DEF ExpiryStep, Expiring

----------------------------------------------------------------------------
(* An init of a user that is alone.                                        *)

Alone(u, s) == Initialising(u) \subseteq {s} /\ ~Expires(u)

LEMMA QuietAlone ==
  ASSUME NEW u, NEW s \in Session, Quiet(u), UserOf[s] = u, work[s].pc \in InitSteps
  PROVE  Alone(u, s) /\ InitKnows(u, s)
<1>1. s \in Initialising(u)
  BY DEF Initialising
<1> QED BY <1>1 DEF Quiet, InitAlone, Alone

LEMMA StaysAlone ==
  ASSUME ServerInv, NEW u, NEW s \in Session, ThreadStep(s), UserOf[s] = u, expiry' = expiry, Alone(u, s),
         s \in Initialising(u)' => InitKnows(u, s)', OneOpen(u)', Shares(u)'
  PROVE  Quiet(u)'
<1>1. Initialising(u)' \subseteq {s}
  BY OthersStay DEF Alone, Initialising
<1>2. ~Expires(u)'
  BY DEF Alone, Expires
<1> QED BY <1>1, <1>2 DEF Quiet, InitAlone, Expired

(* The database that is open is the one of the session that is registered. *)
LEMMA OpenRegistered ==
  ASSUME NEW u, NEW s, Quiet(u), Initialising(u) \subseteq {s}, ~At(s, "set"), NEW h \in OpenOf(u)
  PROVE  \E o \in DOMAIN userSessions : Registers(u, o) /\ userSessions[o].tables = h
BY DEF Quiet, OneOpen, Current

LEMMA StaysOpen ==
  ASSUME NEW u, NEW s, Quiet(u), Alone(u, s), ~At(s, "set"), FewerOpen(u), SameEntry(u), files'[u] = files[u],
         \A o \in DOMAIN userSessions : Registers(u, o) =>
           o \in DOMAIN userSessions' /\ userSessions'[o].tables = userSessions[o].tables
  PROVE  OneOpen(u)'
<1> SUFFICES ASSUME NEW h \in OpenOf(u)'
             PROVE  Current(u, h)' /\ files'[u].there /\ files'[u].made = handles'[h].made
  BY DEF OneOpen
<1>1. h \in OpenOf(u) /\ handles'[h].made = handles[h].made
  BY DEF FewerOpen
<1>2. PICK o \in DOMAIN userSessions : Registers(u, o) /\ userSessions[o].tables = h
  BY <1>1, OpenRegistered DEF Alone
<1>3. Registers(u, o)' /\ o \in DOMAIN userSessions' /\ userSessions'[o].tables = h
  BY <1>2 DEF Registers, SameEntry
<1>4. Current(u, h)'
  BY <1>3 DEF Current
<1>5. files[u].there /\ files[u].made = handles[h].made
  BY <1>1 DEF Quiet, OneOpen, Alone
<1> QED BY <1>1, <1>4, <1>5

(* A step that only looks.                                                 *)
LEMMA LooksStay ==
  ASSUME NEW u, NEW s, Quiet(u), Alone(u, s), ~At(s, "set"),
         UNCHANGED <<userSessions, activeUsers, handles, files, expiry>>
  PROVE  OneOpen(u)' /\ Shares(u)'
<1>1. Shares(u)'
  BY DEF Quiet, Shares
<1>2. FewerOpen(u) /\ SameEntry(u)
  BY DEF FewerOpen, OpenOf, SameEntry
<1> QED BY <1>1, <1>2, StaysOpen

LEMMA LookStaysQuiet ==
  ASSUME ServerInv, NEW u \in User, Quiet(u), NEW s \in Session, UserOf[s] = u, u \notin overlapped',
         InitLook(s)
  PROVE  Quiet(u)'
<1>1. Initialising(u) = {} /\ ~Expires(u)
  BY DEF InitLook
<1>2. Alone(u, s)
  BY <1>1 DEF Alone
<1>3. UNCHANGED <<userSessions, activeUsers, handles, files, expiry>> /\ ~At(s, "set") /\ ThreadStep(s)
  BY DEF InitLook, database, At, ThreadStep
<1>4. OneOpen(u)' /\ Shares(u)'
  BY <1>2, <1>3, LooksStay
<1>5. InitKnows(u, s)'
  <2>1. PICK v : v = work'[s]
    OBVIOUS
  <2>2. CASE u \in DOMAIN activeUsers
    <3>1. v.pc = "files" /\ v.session = activeUsers[u]
      BY <2>1, <2>2, InitSays DEF Sits
    <3> QED BY <1>3, <2>1, <2>2, <3>1 DEF InitKnows, At, Registers
  <2>3. CASE u \notin DOMAIN activeUsers
    <3>1. v.pc = "new session"
      BY <2>1, <2>3, InitSays
    <3> QED BY <1>3, <2>1, <2>3, <3>1 DEF InitKnows, At, InSession
  <2> QED BY <2>2, <2>3
<1> QED BY <1>2, <1>3, <1>4, <1>5, StaysAlone

LEMMA StillStaysQuiet ==
  ASSUME ServerInv, NEW u \in User, Quiet(u), NEW s \in Session, UserOf[s] = u, StillStep(s)
  PROVE  Quiet(u)'
<1>1. UNCHANGED <<userSessions, activeUsers, handles, files, expiry>> /\ Still
  BY StillIsStill DEF Still, database
<1>2. CASE Outside(s)
  <2>1. SameInits(u)
    BY <1>2, OthersStay, OutsideStays, InitsStay DEF ThreadStep
  <2> QED BY <1>1, <2>1, StillFrames, StaysQuiet
<1>3. ASSUME work[s].pc \in InSession \ {"set"}, s \in Initialising(u)' => InitKnows(u, s)'
      PROVE  Quiet(u)'
  <2>1. work[s].pc \in InitSteps /\ ~At(s, "set")
    BY <1>3 DEF InSession, InitSteps, At
  <2>2. Alone(u, s)
    BY <2>1, QuietAlone
  <2> QED BY <1>1, <1>3, <2>1, <2>2, LooksStay, StaysAlone DEF ThreadStep
<1>4. CASE InitNoDirectory(s) \/ InitOpenThrows(s) \/ InitExecutorLost(s)
  <2>1. work'[s] = Idle
    BY <1>4, GoesSays DEF InitNoDirectory, InitOpenThrows, InitExecutorLost, Answers, ServerInv, WorkTyped
  <2>2. work'[s].pc = "idle"
    BY <2>1 DEF Idle
  <2>3. s \notin Initialising(u)'
    BY <2>2 DEF Initialising, InitSteps
  <2> QED BY <1>3, <1>4, <2>3 DEF InitNoDirectory, InitOpenThrows, InitExecutorLost, At, InSession
<1>5. PICK v, o : v = work'[s] /\ o = work[s].session
  OBVIOUS
<1>6. work[s].pc \in InSession => Registers(u, o) /\ Registers(u, o)'
  <2>1. work[s].pc \in InSession => work[s].pc \in InitSteps
    BY DEF InSession, InitSteps
  <2> QED BY <1>1, <1>5, <2>1, QuietAlone DEF InitKnows, Registers
<1>7. CASE InitFiles(s)
  <2>1. work[s].pc \in InSession \ {"set"}
    BY <1>7 DEF InitFiles, At, InSession
  <2>2. v.session = o /\ (v.pc = "check" \/ (v.pc = "create" /\ ~files[u].there))
    BY <1>5, <1>7, InitSays DEF Sits
  <2>3. InitKnows(u, s)'
    BY <1>1, <1>5, <1>6, <2>1, <2>2 DEF InitKnows, At
  <2> QED BY <1>3, <2>1, <2>3
<1>8. CASE InitCheck(s)
  <2>1. work[s].pc \in InSession \ {"set"}
    BY <1>8 DEF InitCheck, At, InSession
  <2>2. v.session = o /\ (v.pc = "executor" \/ (v.pc = "open" /\ userSessions[o].tables = 0))
    BY <1>5, <1>8, InitSays DEF Sits, Opens
  <2>3. InitKnows(u, s)'
    BY <1>1, <1>5, <1>6, <2>1, <2>2 DEF InitKnows, At
  <2> QED BY <1>3, <2>1, <2>3
<1> QED BY <1>2, <1>4, <1>7, <1>8 DEF StillStep, Outside

----------------------------------------------------------------------------
(* The steps with which an init makes a session, files and a database.     *)

LEMMA NewSessionStaysQuiet ==
  ASSUME ServerInv, NEW u \in User, Quiet(u), NEW s \in Session, UserOf[s] = u, InitNewSession(s)
  PROVE  Quiet(u)'
<1>1. ThreadStep(s) /\ work[s].pc \in InitSteps /\ At(s, "new session")
  BY DEF ThreadStep, DataStep, InitNewSession, At, InitSteps
<1>2. Alone(u, s) /\ u \notin DOMAIN activeUsers
  BY <1>1, QuietAlone DEF InitKnows
<1>3. PICK n : n = Len(userSessions) + 1
  OBVIOUS
<1>4. /\ userSessions'[n] = NewSession /\ activeUsers' = Put(activeUsers, u, n)
      /\ UNCHANGED <<handles, files, expiry>>
  BY <1>3, NewSessionSays
<1>5. u \in DOMAIN activeUsers' /\ activeUsers'[u] = n
  BY <1>4 DEF Put
<1>6. OneOpen(u)'
  <2>1. OpenOf(u) = {}
    BY <1>2 DEF Quiet, OneOpen, Current, Registers
  <2> QED BY <1>4, <2>1 DEF OneOpen, OpenOf
<1>7. Shares(u)'
  <2>1. NewSession.executorMap = <<>> /\ DOMAIN <<>> = {}
    BY DEF NewSession
  <2> QED BY <1>4, <1>5, <2>1 DEF Shares
<1>8. InitKnows(u, s)'
  <2>1. PICK v : v = work'[s] /\ v.pc = "files" /\ v.session = n
    BY <1>3, InitSays DEF Sits
  <2> QED BY <1>5, <2>1 DEF InitKnows, At, Registers
<1> QED BY <1>1, <1>2, <1>4, <1>6, <1>7, <1>8, StaysAlone

(* The session an init works on is the user's.                             *)
LEMMA Works ==
  ASSUME ServerInv, NEW u \in User, Quiet(u), NEW s \in Session, UserOf[s] = u, work[s].pc \in InSession
  PROVE  \E o \in DOMAIN userSessions :
           o = work[s].session /\ Registers(u, o) /\ Alone(u, s) /\ InitKnows(u, s)
<1>1. work[s].pc \in InitSteps
  BY DEF InSession, InitSteps
<1>2. Alone(u, s) /\ InitKnows(u, s)
  BY <1>1, QuietAlone
<1> QED BY <1>2, Objects DEF InitKnows

LEMMA CreateStaysQuiet ==
  ASSUME ServerInv, NEW u \in User, Quiet(u), NEW s \in Session, UserOf[s] = u, InitCreate(s)
  PROVE  Quiet(u)'
<1>1. ThreadStep(s) /\ work[s].pc \in InSession /\ At(s, "create")
  BY DEF ThreadStep, DataStep, InitCreate, At, InSession
<1>2. PICK o \in DOMAIN userSessions :
        o = work[s].session /\ Registers(u, o) /\ Alone(u, s) /\ InitKnows(u, s)
  BY <1>1, Works
<1>3. UNCHANGED <<userSessions, handles, activeUsers, expiry>>
  BY CreateSays
<1>4. OneOpen(u)'
  <2>1. OpenOf(u) = {}
    BY <1>1, <1>2 DEF Quiet, OneOpen, InitKnows, Alone
  <2> QED BY <1>3, <2>1 DEF OneOpen, OpenOf
<1>5. Shares(u)'
  BY <1>3 DEF Quiet, Shares
<1>6. InitKnows(u, s)'
  <2>1. PICK v : v = work'[s] /\ v.pc = "check" /\ v.session = o
    BY <1>2, InitSays DEF Sits
  <2> QED BY <1>2, <1>3, <2>1 DEF InitKnows, At, Registers
<1> QED BY <1>1, <1>2, <1>3, <1>4, <1>5, <1>6, StaysAlone

LEMMA OpenStaysQuiet ==
  ASSUME ServerInv, NEW u \in User, Quiet(u), NEW s \in Session, UserOf[s] = u, InitOpen(s)
  PROVE  Quiet(u)'
<1>1. ThreadStep(s) /\ work[s].pc \in InSession /\ work[s].pc = "open"
  BY DEF ThreadStep, DataStep, InitOpen, At, InSession
<1>2. PICK o \in DOMAIN userSessions :
        o = work[s].session /\ Registers(u, o) /\ Alone(u, s) /\ InitKnows(u, s)
  BY <1>1, Works
<1>3. userSessions[o].tables = 0
  BY <1>1, <1>2 DEF InitKnows
<1>4. PICK n : n = Len(handles) + 1
  OBVIOUS
<1>5. PICK e : e = [user |-> u, made |-> files[u].made, open |-> TRUE]
  OBVIOUS
<1>6. /\ DOMAIN handles' = DOMAIN handles \cup {n} /\ n # 0 /\ handles'[n] = e
      /\ \A h \in DOMAIN handles : handles'[h] = handles[h]
      /\ files[u].there /\ UNCHANGED <<userSessions, activeUsers, files, expiry>>
  BY <1>4, <1>5, OpenSays
<1>7. OpenOf(u)' \subseteq {n}
  <2>1. ASSUME NEW h \in OpenOf(u) PROVE FALSE
    <3>1. PICK p \in DOMAIN userSessions : Registers(u, p) /\ userSessions[p].tables = h
      BY <1>1, <1>2, <2>1, OpenRegistered DEF Alone, At
    <3>2. h = 0 /\ h \in DOMAIN handles
      BY <1>2, <1>3, <2>1, <3>1 DEF Registers, OpenOf
    <3>3. handles \in Seq(Handle)
      BY DEF ServerInv, DataTyped
    <3> QED BY <3>2, <3>3
  <2> QED BY <1>6, <2>1 DEF OpenOf
<1>8. Registers(u, o)' /\ o \in DOMAIN userSessions' /\ userSessions'[o].tables = 0
  BY <1>2, <1>3, <1>6 DEF Registers
<1>9. PICK v : v = work'[s] /\ v.pc = "set" /\ v.session = o /\ v.handle = n
  BY <1>2, <1>4, InitSays DEF Sits
<1>10. OneOpen(u)'
  <2>1. s \in Initialising(u)' /\ At(s, "set")'
    BY <1>9 DEF Initialising, InitSteps, At
  <2>2. Current(u, n)'
    BY <1>8, <1>9, <2>1 DEF Current
  <2>3. files'[u].there /\ files'[u].made = handles'[n].made
    BY <1>5, <1>6
  <2> QED BY <1>7, <2>2, <2>3 DEF OneOpen
<1>11. Shares(u)'
  BY <1>6 DEF Quiet, Shares
<1>12. InitKnows(u, s)'
  BY <1>8, <1>9 DEF InitKnows, At
<1> QED BY <1>1, <1>2, <1>6, <1>10, <1>11, <1>12, StaysAlone

LEMMA SetStaysQuiet ==
  ASSUME ServerInv, NEW u \in User, Quiet(u), NEW s \in Session, UserOf[s] = u, InitSet(s)
  PROVE  Quiet(u)'
<1>1. ThreadStep(s) /\ work[s].pc \in InSession /\ work[s].pc = "set"
  BY DEF ThreadStep, DataStep, InitSet, At, InSession
<1>2. PICK o \in DOMAIN userSessions :
        o = work[s].session /\ Registers(u, o) /\ Alone(u, s) /\ InitKnows(u, s)
  BY <1>1, Works
<1>3. userSessions[o].tables = 0
  BY <1>1, <1>2 DEF InitKnows
<1>4. PICK n \in DOMAIN handles :
        /\ n = work[s].handle /\ DOMAIN userSessions' = DOMAIN userSessions
        /\ userSessions'[o].tables = n /\ userSessions'[o].executorMap = userSessions[o].executorMap
        /\ UNCHANGED <<activeUsers, handles, files, expiry>>
  BY <1>2, SetSays
<1>5. Registers(u, o)' /\ o \in DOMAIN userSessions'
  BY <1>2, <1>4 DEF Registers
<1>6. OneOpen(u)'
  <2> SUFFICES ASSUME NEW h \in OpenOf(u)
               PROVE  Current(u, h)' /\ files'[u].there /\ files'[u].made = handles'[h].made
    BY <1>4 DEF OneOpen, OpenOf
  <2>1. files[u].there /\ files[u].made = handles[h].made /\ Current(u, h)
    BY <1>2 DEF Quiet, OneOpen, Alone
  <2>2. h \in DOMAIN handles /\ h # 0
    <3>1. handles \in Seq(Handle) /\ h \in DOMAIN handles
      BY DEF ServerInv, DataTyped, OpenOf
    <3> QED BY <3>1
  <2>3. h = n
    <3>1. PICK p \in DOMAIN userSessions :
            /\ Registers(u, p)
            /\ \/ userSessions[p].tables = h
               \/ \E t \in Initialising(u) : work[t].handle = h
      BY <2>1 DEF Current
    <3>2. p = o
      BY <1>2, <3>1 DEF Registers
    <3>3. PICK t \in Initialising(u) : work[t].handle = h
      BY <1>3, <2>2, <3>1, <3>2
    <3>4. t = s
      BY <1>2 DEF Alone
    <3> QED BY <1>4, <3>3, <3>4
  <2>4. Current(u, h)'
    BY <1>4, <1>5, <2>3 DEF Current
  <2> QED BY <1>4, <2>1, <2>4
<1>7. Shares(u)'
  <2>1. DOMAIN userSessions[o].executorMap = {}
    BY <1>2, <1>3 DEF Quiet, Shares, Registers
  <2> QED BY <1>4, <1>5, <2>1 DEF Shares, Registers
<1>8. InitKnows(u, s)'
  <2>1. PICK v : v = work'[s] /\ v.pc = "executor" /\ v.session = o
    BY <1>2, InitSays DEF Sits
  <2> QED BY <1>5, <2>1 DEF InitKnows, At
<1> QED BY <1>1, <1>2, <1>4, <1>6, <1>7, <1>8, StaysAlone

LEMMA ExecutorStaysQuiet ==
  ASSUME ServerInv, NEW u \in User, Quiet(u), NEW s \in Session, UserOf[s] = u, InitExecutor(s)
  PROVE  Quiet(u)'
<1>1. ThreadStep(s) /\ work[s].pc \in InSession /\ work[s].pc = "executor"
  BY DEF ThreadStep, DataStep, InitExecutor, At, InSession
<1>2. PICK o \in DOMAIN userSessions :
        o = work[s].session /\ Registers(u, o) /\ Alone(u, s) /\ InitKnows(u, s)
  BY <1>1, Works
<1>3. PICK n : n = userSessions[o].tables
  OBVIOUS
<1>4. /\ n # 0 /\ DOMAIN userSessions' = DOMAIN userSessions
      /\ userSessions'[o].tables = n
      /\ userSessions'[o].executorMap = Put(userSessions[o].executorMap, s, n)
      /\ UNCHANGED <<activeUsers, handles, files, expiry>>
  BY <1>2, <1>3, ExecutorSays
<1>5. OneOpen(u)'
  <2>1. FewerOpen(u) /\ SameEntry(u) /\ ~At(s, "set")
    BY <1>1, <1>4 DEF FewerOpen, OpenOf, SameEntry, At
  <2>2. \A p \in DOMAIN userSessions : Registers(u, p) =>
          p \in DOMAIN userSessions' /\ userSessions'[p].tables = userSessions[p].tables
    BY <1>2, <1>3, <1>4 DEF Registers
  <2> QED BY <1>2, <1>4, <2>1, <2>2, StaysOpen
<1>6. Shares(u)'
  <2>1. PICK m : m = userSessions[o].executorMap
    OBVIOUS
  <2>2. \A t \in DOMAIN m : m[t] = n
    BY <1>2, <1>3, <2>1 DEF Quiet, Shares, Registers
  <2>3. \A t \in DOMAIN Put(m, s, n) : Put(m, s, n)[t] = n
    BY <2>2 DEF Put
  <2>4. u \in DOMAIN activeUsers' /\ activeUsers'[u] = o
    BY <1>2, <1>4 DEF Registers
  <2>5. userSessions'[o].executorMap = Put(m, s, n)
    BY <1>4, <2>1
  <2> QED BY <1>4, <2>3, <2>4, <2>5 DEF Shares
<1>7. s \notin Initialising(u)'
  <2>1. work'[s] = Idle
    BY GoesSays DEF InitExecutor, Answers, ServerInv, WorkTyped
  <2>2. work'[s].pc = "idle"
    BY <2>1 DEF Idle
  <2> QED BY <2>2 DEF Initialising, InitSteps
<1> QED BY <1>1, <1>2, <1>4, <1>5, <1>6, <1>7, StaysAlone

----------------------------------------------------------------------------
(* The expiry of a user none of whose connections does an init.            *)

LEMMA ExpiryStaysQuiet ==
  ASSUME ServerInv, NEW u \in User, Quiet(u), u \notin overlapped', ExpiryStep
  PROVE  Quiet(u)'
<1>1. CASE ~Expires(u) /\ ~Expires(u)'
  BY <1>1, ExpiryFrames, StaysQuiet
<1>2. ASSUME NEW v \in User, ExpiryFinds(v), Expires(u) \/ Expires(u)'
      PROVE  Quiet(u)'
  <2>1. /\ expiry.pc = "idle" /\ expiry'.pc = "close" /\ expiry'.user = u
        /\ UNCHANGED <<userSessions, activeUsers, handles, files, work>>
    BY <1>2, FindSays DEF database, Expires, Idle
  <2>2. Initialising(u) = {}
    BY <1>2, <2>1, FindSays
  <2>3. Initialising(u)' = {}
    BY <2>1, <2>2 DEF Initialising
  <2>4. Expires(u)' /\ ~Expires(u)
    BY <2>1 DEF Expires
  <2>5. ASSUME NEW h \in OpenOf(u)' PROVE Current(u, h)'
    <3>1. h \in OpenOf(u) /\ Initialising(u) \subseteq {} /\ Quiet(u)
      BY <2>1, <2>2 DEF OpenOf
    <3>2. PICK o \in DOMAIN userSessions : Registers(u, o) /\ userSessions[o].tables = h
      BY <2>2, <3>1 DEF Quiet, OneOpen, Current
    <3> QED BY <2>1, <3>2 DEF Current, Registers
  <2>6. Shares(u)'
    BY <2>1 DEF Quiet, Shares
  <2> QED BY <2>1, <2>3, <2>4, <2>5, <2>6 DEF Quiet, InitAlone, OneOpen, Expired
<1>3. ASSUME Expires(u), UNCHANGED work
      PROVE  /\ Initialising(u) = {} /\ Initialising(u)' = {} /\ InitAlone(u)'
             /\ \A h \in OpenOf(u) : u \in DOMAIN activeUsers /\ h = userSessions[activeUsers[u]].tables
  BY <1>3 DEF Quiet, InitAlone, Initialising, OneOpen, Current, Registers
<1>4. CASE (ExpiryCloses \/ ExpiryThrows) /\ Expires(u)
  <2>1. PICK o \in DOMAIN userSessions :
          /\ u \in DOMAIN activeUsers /\ o = activeUsers[u]
          /\ DOMAIN handles' = DOMAIN handles
          /\ \A h \in DOMAIN handles : /\ handles'[h].user = handles[h].user
                                       /\ handles'[h].open => handles[h].open /\ h # userSessions[o].tables
          /\ UNCHANGED <<userSessions, activeUsers, files, work>>
    BY <1>4, CloseSays DEF Expires
  <2>2. OpenOf(u)' = {}
    BY <1>3, <1>4, <2>1 DEF OpenOf
  <2>3. Expires(u)' => expiry'.pc = "forget"
    <3>1. CASE ExpiryCloses
      <4>1. expiry.pc # "idle" /\ expiry' = [expiry EXCEPT !.pc = "forget"] /\ DataTyped
        BY <3>1 DEF ExpiryCloses, ServerInv
      <4> QED BY <4>1, ExpiryGoes
    <3>2. CASE ExpiryThrows
      BY <3>2 DEF ExpiryThrows, Idle, Expires
    <3> QED BY <1>4, <3>1, <3>2
  <2>4. Shares(u)'
    BY <2>1 DEF Quiet, Shares
  <2> QED BY <1>3, <1>4, <2>1, <2>2, <2>3, <2>4 DEF Quiet, OneOpen, Expired
<1>5. CASE ExpiryForgets /\ Expires(u)
  <2>1. /\ expiry.pc = "forget" /\ expiry.user = u /\ expiry'.pc = "destroy"
        /\ u \notin DOMAIN activeUsers' /\ UNCHANGED <<userSessions, handles, files, work>>
    BY <1>5, ForgetSays DEF Expires
  <2>2. OpenOf(u)' = {}
    BY <1>5, <2>1 DEF Quiet, Expired, OpenOf
  <2> QED BY <1>3, <1>5, <2>1, <2>2 DEF Quiet, OneOpen, Expired, Shares
<1>6. CASE ExpiryDestroys /\ Expires(u)
  <2>1. /\ expiry.pc = "destroy" /\ expiry' = Idle /\ UNCHANGED <<userSessions, handles, activeUsers, work>>
    BY <1>6, DestroySays
  <2>2. u \notin DOMAIN activeUsers /\ expiry'.pc = "idle"
    BY <1>6, <2>1 DEF Quiet, Expired, Idle
  <2>3. OpenOf(u)' = {}
    BY <1>3, <1>6, <2>1, <2>2 DEF OpenOf
  <2> QED BY <1>3, <1>6, <2>1, <2>2, <2>3 DEF Quiet, OneOpen, Expired, Shares, Expires
<1>7. ASSUME Expiring, ~Expires(u) PROVE ~Expires(u)'
  <2>1. CASE ExpiryCloses
    <3>1. expiry.pc # "idle" /\ expiry' = [expiry EXCEPT !.pc = "forget"] /\ DataTyped
      BY <2>1 DEF ExpiryCloses, ServerInv
    <3>2. expiry'.user = expiry.user
      BY <3>1, ExpiryGoes
    <3> QED BY <1>7, <3>1, <3>2 DEF Expires
  <2>2. CASE ExpiryThrows \/ ExpiryDestroys
    BY <2>2 DEF ExpiryThrows, ExpiryDestroys, Idle, Expires
  <2>3. CASE ExpiryForgets
    BY <1>7, <2>3, ForgetSays DEF Expires
  <2> QED BY <1>7, <2>1, <2>2, <2>3 DEF Expiring
<1> QED BY <1>1, <1>2, <1>4, <1>5, <1>6, <1>7 DEF ExpiryStep, Expiring

LEMMA QuietStays ==
  ASSUME ServerInv, Apart, [Next]_vars, NEW u \in User, u \notin overlapped', Quiet(u)
  PROVE  Quiet(u)'
<1>1. CASE Still /\ work' = work
  <2>1. SameInits(u)
    BY <1>1 DEF SameInits, Initialising
  <2> QED BY <1>1, <2>1, StillFrames, StaysQuiet
<1>2. CASE ExpiryStep
  BY <1>2, ExpiryStaysQuiet
<1>3. ASSUME NEW s \in Session, AfterConnectionClosed(s)
      PROVE  Quiet(u)'
  BY <1>3, ClosedFrames, StaysQuiet
<1>4. ASSUME NEW s \in Session, ThreadStep(s)
      PROVE  Quiet(u)'
  <2>1. CASE UserOf[s] # u
    BY <1>4, <2>1, OthersFrame, StaysQuiet
  <2>2. CASE UserOf[s] = u
    BY <1>3, <1>4, <2>2, LookStaysQuiet, StillStaysQuiet, NewSessionStaysQuiet, CreateStaysQuiet,
       OpenStaysQuiet, SetStaysQuiet, ExecutorStaysQuiet DEF ThreadStep, DataStep
  <2> QED BY <2>1, <2>2
<1> QED BY <1>1, <1>2, <1>3, <1>4, StepsMove DEF ThreadStep

(* An overlap is remembered.                                               *)
LEMMA OverlapsStay ==
  ASSUME ServerInv, [Next]_vars
  PROVE  overlapped \subseteq overlapped'
<1>1. ASSUME NEW s \in Session, DataStep(s)
      PROVE  overlapped' = overlapped
  BY <1>1 DEF DataStep, InitNewSession, InitCreate, InitOpen, InitSet, InitExecutor, AfterConnectionClosed
<1>2. ASSUME NEW s \in Session, InitLook(s)
      PROVE  overlapped \subseteq overlapped'
  BY <1>2 DEF InitLook
<1>3. ASSUME ExpiryStep
      PROVE  overlapped \subseteq overlapped'
  BY <1>3 DEF ExpiryStep, ExpiryFinds, Expiring, ExpiryCloses, ExpiryThrows, ExpiryForgets, ExpiryDestroys
<1>4. \A s \in Session : AfterConnectionClosed(s) => DataStep(s)
  BY DEF DataStep
<1>5. ASSUME NEW s \in Session, StillStep(s)
      PROVE  Still
  BY <1>5, StillIsStill
<1> QED BY <1>1, <1>2, <1>3, <1>4, <1>5, StepsMove DEF Still

----------------------------------------------------------------------------
(* No two users work on one session.                                       *)

LEMMA SessionSays ==
  ASSUME ServerInv, NEW s \in Session, ThreadStep(s), ~InitNewSession(s), work'[s].pc \in InSession
  PROVE  Uses(UserOf[s], work'[s].session) /\ activeUsers' = activeUsers
<1>1. PICK v, w : v = work'[s] /\ w = work[s]
  OBVIOUS
<1>2. activeUsers' = activeUsers
  <2>1. CASE StillStep(s)
    BY <2>1, StillIsStill DEF Still, database
  <2>2. CASE ~StillStep(s)
    BY <2>2 DEF ThreadStep, DataStep, InitLook, InitCreate, InitOpen, InitSet, InitExecutor,
       AfterConnectionClosed, database
  <2> QED BY <2>1, <2>2
<1>3. ASSUME w.pc \in InSession, v.session = w.session
      PROVE  Uses(UserOf[s], v.session)
  BY <1>1, <1>3 DEF Uses
<1>4. CASE InitLook(s)
  <2>1. UserOf[s] \in DOMAIN activeUsers
    BY <1>4, InitSays DEF InSession
  <2> QED BY <1>2, <1>4, <2>1, InitSays DEF Uses, Sits
<1>5. CASE InitFiles(s) \/ InitCheck(s) \/ InitCreate(s) \/ InitOpen(s) \/ InitSet(s)
  <2>1. w.pc \in InSession
    BY <1>1, <1>5 DEF InitFiles, InitCheck, InitCreate, InitOpen, InitSet, At, InSession
  <2>2. v.session = w.session
    BY <1>1, <1>5, InitSays DEF Sits
  <2> QED BY <1>1, <1>2, <1>3, <2>1, <2>2
<1>6. CASE InitNoDirectory(s) \/ InitOpenThrows(s) \/ InitExecutorLost(s) \/ InitExecutor(s)
  <2>1. v = Idle
    BY <1>1, <1>6, GoesSays DEF InitNoDirectory, InitOpenThrows, InitExecutorLost, InitExecutor, Answers,
       ServerInv, WorkTyped
  <2>2. v.pc = "idle"
    BY <2>1 DEF Idle
  <2> QED BY <1>1, <2>2 DEF InSession
<1>7. CASE Outside(s)
  BY <1>7, OutsideStays DEF InSession, InitSteps
<1>8. CASE AfterConnectionClosed(s)
  BY <1>1, <1>2, <1>3, <1>8 DEF AfterConnectionClosed
<1> QED BY <1>4, <1>5, <1>6, <1>7, <1>8 DEF ThreadStep, StillStep, DataStep, Outside

LEMMA ApartStays ==
  ASSUME ServerInv, Apart, [Next]_vars
  PROVE  Apart'
<1>1. ASSUME NEW u \in User, NEW o, Uses(u, o)
      PROVE  o \in DOMAIN userSessions
  BY <1>1, Objects DEF Uses
<1>2. ASSUME \A u \in User, o \in DOMAIN userSessions' : Uses(u, o)' => Uses(u, o)
      PROVE  Apart'
  BY <1>1, <1>2 DEF Apart
<1>3. ASSUME work' = work, \A u \in DOMAIN activeUsers' : u \in DOMAIN activeUsers /\ activeUsers'[u] = activeUsers[u]
      PROVE  Apart'
  BY <1>2, <1>3 DEF Uses
<1>4. CASE Still /\ work' = work
  BY <1>3, <1>4 DEF Still, database
<1>5. CASE ExpiryStep
  <2>1. ASSUME NEW u \in User, ExpiryFinds(u)
        PROVE  work' = work /\ activeUsers' = activeUsers
    BY <2>1 DEF ExpiryFinds, database
  <2>2. ASSUME ExpiryForgets
        PROVE  work' = work /\ \A u \in DOMAIN activeUsers' : u \in DOMAIN activeUsers /\ activeUsers'[u] = activeUsers[u]
    BY <2>2, ForgetSays
  <2> QED BY <1>3, <1>5, <2>1, <2>2 DEF ExpiryStep, Expiring, ExpiryCloses, ExpiryThrows, ExpiryDestroys
<1>6. ASSUME NEW s \in Session, AfterConnectionClosed(s)
      PROVE  Apart'
  BY <1>3, <1>6 DEF AfterConnectionClosed
<1>7. ASSUME NEW s \in Session, InitNewSession(s)
      PROVE  Apart'
  <2>1. PICK n : n = Len(userSessions) + 1
    OBVIOUS
  <2>2. /\ n \notin DOMAIN userSessions /\ DOMAIN userSessions' = DOMAIN userSessions \cup {n}
        /\ activeUsers' = Put(activeUsers, UserOf[s], n)
    BY <1>7, <2>1, NewSessionSays
  <2>3. work'[s].session = n
    BY <1>7, <2>1, InitSays DEF Sits
  <2>4. \A t \in Session \ {s} : work'[t] = work[t]
    BY <1>7, OthersStay DEF ThreadStep, DataStep
  <2>5. ASSUME NEW u \in User, NEW o \in DOMAIN userSessions', Uses(u, o)'
        PROVE  Uses(u, o) \/ (u = UserOf[s] /\ o = n)
    BY <2>2, <2>3, <2>4, <2>5 DEF Uses, Put
  <2> QED BY <1>1, <2>2, <2>5 DEF Apart
<1>8. ASSUME NEW s \in Session, ThreadStep(s), ~InitNewSession(s)
      PROVE  Apart'
  <2>1. activeUsers' = activeUsers
    <3>1. CASE StillStep(s)
      BY <3>1, StillIsStill DEF Still, database
    <3>2. CASE ~StillStep(s)
      BY <1>8, <3>2 DEF ThreadStep, DataStep, InitLook, InitCreate, InitOpen, InitSet, InitExecutor,
         AfterConnectionClosed, database
    <3> QED BY <3>1, <3>2
  <2>2. \A t \in Session \ {s} : work'[t] = work[t]
    BY <1>8, OthersStay
  <2>3. ASSUME NEW u \in User, NEW o, Uses(u, o)'
        PROVE  Uses(u, o)
    <3>1. CASE u \in DOMAIN activeUsers' /\ activeUsers'[u] = o
      BY <2>1, <3>1 DEF Uses
    <3>2. ASSUME NEW t \in Session, UserOf[t] = u, work'[t].pc \in InSession, work'[t].session = o
          PROVE  Uses(u, o)
      <4>1. CASE t = s
        BY <1>8, <3>2, <4>1, SessionSays
      <4>2. CASE t # s
        BY <2>2, <3>2, <4>2 DEF Uses
      <4> QED BY <4>1, <4>2
    <3> QED BY <2>3, <3>1, <3>2 DEF Uses
  <2> QED BY <1>2, <2>3
<1> QED BY <1>4, <1>5, <1>6, <1>7, <1>8, StepsMove DEF ThreadStep

----------------------------------------------------------------------------
LEMMA QuietStarts ==
  ASSUME Init
  PROVE  Apart /\ \A u \in User : Quiet(u)
<1>1. /\ userSessions = <<>> /\ activeUsers = <<>> /\ handles = <<>> /\ expiry.pc = "idle"
      /\ \A s \in Session : work[s].pc = "idle"
  BY DEF Init, ServerInit, Idle
<1>2. DOMAIN userSessions = {} /\ DOMAIN activeUsers = {} /\ DOMAIN handles = {}
  BY <1>1
<1>3. Apart
  BY <1>2 DEF Apart
<1>4. ASSUME NEW u \in User
      PROVE  Initialising(u) = {} /\ OpenOf(u) = {} /\ ~Expires(u)
  BY <1>1, <1>2 DEF Initialising, InitSteps, OpenOf, Expires
<1> QED BY <1>2, <1>3, <1>4 DEF Quiet, InitAlone, OneOpen, Expired, Shares

LEMMA QuietShares ==
  ASSUME ServerInv, NEW u \in User, Quiet(u)
  PROVE  /\ Cardinality(OpenOf(u)) <= 1
         /\ \A h \in OpenOf(u) : ~Expires(u) => files[u] = [there |-> TRUE, made |-> handles[h].made]
         /\ Shares(u)
<1>1. \A h, i \in OpenOf(u) : h = i
  <2> SUFFICES ASSUME NEW h \in OpenOf(u), NEW i \in OpenOf(u) PROVE h = i
    OBVIOUS
  <2>1. h # 0 /\ i # 0
    BY DEF OpenOf, ServerInv, DataTyped
  <2>2. PICK o \in DOMAIN userSessions :
          /\ Registers(u, o)
          /\ \/ userSessions[o].tables = h
             \/ \E s \in Initialising(u) : At(s, "set") /\ work[s].session = o /\ work[s].handle = h
    BY DEF Quiet, OneOpen, Current
  <2>3. PICK p \in DOMAIN userSessions :
          /\ Registers(u, p)
          /\ \/ userSessions[p].tables = i
             \/ \E s \in Initialising(u) : At(s, "set") /\ work[s].session = p /\ work[s].handle = i
    BY DEF Quiet, OneOpen, Current
  <2>4. o = p
    BY <2>2, <2>3 DEF Registers
  <2>5. \A s \in Initialising(u) : At(s, "set") /\ work[s].session = o => userSessions[o].tables = 0
    BY DEF Quiet, InitKnows, At
  <2> QED BY <2>1, <2>2, <2>3, <2>4, <2>5 DEF Quiet, InitAlone
<1>2. Cardinality(OpenOf(u)) <= 1
  <2>1. CASE OpenOf(u) = {}
    <3>1. Cardinality({}) = 0
      BY FS_EmptySet
    <3> QED BY <2>1, <3>1
  <2>2. CASE OpenOf(u) # {}
    <3>1. PICK h : OpenOf(u) = {h}
      BY <1>1, <2>2
    <3>2. Cardinality({h}) = 1
      BY FS_Singleton
    <3> QED BY <3>1, <3>2
  <2> QED BY <2>1, <2>2
<1>3. ASSUME NEW h \in OpenOf(u), ~Expires(u)
      PROVE  files[u] = [there |-> TRUE, made |-> handles[h].made]
  <2>1. PICK f \in [there : BOOLEAN, made : Nat] : f = files[u]
    BY DEF ServerInv, DataTyped
  <2>2. f.there /\ f.made = handles[h].made
    BY <1>3, <2>1 DEF Quiet, OneOpen
  <2>3. f = [there |-> f.there, made |-> f.made] /\ f.there = TRUE
    BY <2>1, <2>2
  <2> QED BY <2>1, <2>2, <2>3
<1> QED BY <1>2, <1>3 DEF Quiet

(* As long as no init of a user meets another one or an expiry, the user   *)
(* has one open database, on the files that are there, and every Executor  *)
(* of its session works on it (handleInitCommand, initializeDatabase,      *)
(* removeUserSession).                                                     *)
THEOREM InitsAlwaysShare == Spec => []InitsShareDatabase
<1> DEFINE AllQuiet == \A u \in User \ overlapped : Quiet(u)
<1>1. Init => ServerInv /\ Apart /\ AllQuiet
  BY ServerStarts, QuietStarts
<1>2. ServerInv /\ Apart /\ AllQuiet /\ [Next]_vars => ServerInv' /\ Apart' /\ AllQuiet'
  <2> SUFFICES ASSUME ServerInv, Apart, AllQuiet, [Next]_vars PROVE ServerInv' /\ Apart' /\ AllQuiet'
    OBVIOUS
  <2>1. \A u \in User : u \notin overlapped' => u \notin overlapped
    BY OverlapsStay
  <2>2. AllQuiet'
    BY <2>1, QuietStays
  <2> QED BY <2>2, ServerStays, ApartStays
<1>3. ServerInv /\ AllQuiet => InitsShareDatabase
  BY QuietShares DEF InitsShareDatabase, OpenOf, Shares
<1> QED BY <1>1, <1>2, <1>3, PTL DEF Spec
=============================================================================
