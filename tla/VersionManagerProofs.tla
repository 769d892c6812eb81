------------------------ MODULE VersionManagerProofs ------------------------
(***************************************************************************)
(* Safety of the version manager for any sessions, threads, transactions,  *)
(* rows and levels, and that it uses the lock table as it may be used.     *)
(***************************************************************************)
EXTENDS VersionManager, TLAPS

----------------------------------------------------------------------------
(* The invariant, and what TypeOK says of each part of the state.          *)

Labels == {"idle", "statement", "lock", "check", "write", "commit", "abort",
           "remove", "removing", "finish"}
Cmd == [kind : {"none", "delete", "commit", "abort", "auto"}, row : Uid \cup {NoRow},
        ser : BOOLEAN, lost : BOOLEAN, tmp : BOOLEAN, close : BOOLEAN]
Transaction == [xid : Xid, level : {"RU", "RC", "RR", "SER"}, snapshot : SUBSET Xid,
                err : BOOLEAN, autoAborted : BOOLEAN]

StatusTyped == status \in [Xid -> {"none", "active", "committed", "aborted"}]
ActiveTyped ==
  /\ DOMAIN activeTransaction \subseteq Xid
  /\ activeTransaction \in [DOMAIN activeTransaction -> Transaction]
  /\ \A x \in DOMAIN activeTransaction : activeTransaction[x].xid = x
GlobalTyped ==
  /\ globalLock \in [owner : Thread \cup {NoThread}, count : Nat]
  /\ globalLock.owner = NoThread <=> globalLock.count = 0
EntriesTyped ==
  /\ DOMAIN entries \subseteq Uid
  /\ entries \in [DOMAIN entries -> [xmin : Xid \cup {0}, xmax : Xid \cup {0}]]
SessionsTyped ==
  /\ xid \in [Session -> Xid \cup {0}] /\ pc \in [Session -> Labels]
  /\ on \in [Session -> Thread \cup {NoThread}] /\ cmd \in [Session -> Cmd]

(* A session that executes something is on a thread of its own.            *)
Threads ==
  /\ \A s \in Session : pc[s] = "idle" <=> on[s] = NoThread
  /\ \A s \in Session : on[s] \in Carrier[s] \cup {NoThread}
  /\ \A s, r \in Session : on[s] = on[r] /\ on[s] # NoThread => s = r

(* Whoever is inside the lock table is a session at remove, or the daemon. *)
CallShaped ==
  /\ call = [by |-> call.by, xid |-> call.xid, todo |-> call.todo, expired |-> call.expired]
  /\ call.by \in Thread \cup {Checker, NoThread}
Callers ==
  /\ CallShaped
  /\ \A s \in Session : pc[s] = "removing" => call.by = on[s] /\ call.xid = xid[s]
  /\ call.by \in Thread => \E s \in Session : pc[s] = "removing" /\ call.by = on[s]

(* What a session has in its locals, and of whom.                          *)
AtRest(s) == pc[s] = "idle" => cmd[s] = NoCmd
Busy(s) == pc[s] # "idle" => xid[s] # 0
Temporary(s) == pc[s] \in {"statement", "commit", "abort"} => cmd[s] = [NoCmd EXCEPT !.tmp = TRUE]
Deleting(s) == pc[s] \in {"lock", "check", "write"} => cmd[s].row \in DOMAIN entries
Changing(s) == pc[s] \in {"statement", "lock", "check", "write"} => Healthy(xid[s])
Finishing(s) == pc[s] \in {"remove", "removing", "finish"} =>
  /\ cmd[s].kind \in {"commit", "abort", "auto"}
  /\ cmd[s].kind = "auto" =>
       Active(xid[s]) /\ activeTransaction[xid[s]].err /\ ~activeTransaction[xid[s]].autoAborted
  /\ cmd[s].kind # "auto" => ~Active(xid[s])
  /\ cmd[s].kind = "abort" => status[xid[s]] # "committed"
Closed(s) == pc[s] \in {"removing", "finish"} => xid[s] \notin open
Released(s) == pc[s] = "finish" => xid[s] \notin DOMAIN x2u /\ xid[s] \notin DOMAIN waitU

Locals(s) ==
  AtRest(s) /\ Busy(s) /\ Temporary(s) /\ Deleting(s) /\ Changing(s) /\ Finishing(s) /\ Closed(s) /\ Released(s)

(* A transaction in the map is not committed; one that may still ask for   *)
(* rows is open; one rolled back by itself has left the lock table.        *)
Owned ==
  /\ OneSessionEach
  /\ \A s \in Session : xid[s] # 0 => status[xid[s]] # "none"
Undecided == \A x \in DOMAIN activeTransaction : status[x] \in {"active", "aborted"}
StillOpen == \A x \in Xid : status[x] = "none" \/ Healthy(x) => x \in open
RolledBack == \A x \in DOMAIN activeTransaction : activeTransaction[x].autoAborted =>
  /\ status[x] = "aborted" /\ activeTransaction[x].err
  /\ x \notin open /\ x \notin DOMAIN x2u /\ x \notin DOMAIN waitU

Types == StatusTyped /\ ActiveTyped /\ GlobalTyped /\ EntriesTyped /\ SessionsTyped
Control == Threads /\ Callers /\ \A s \in Session : Locals(s)
Fates == Owned /\ Undecided /\ StillOpen /\ RolledBack
Inv == Types /\ Control /\ Fates

----------------------------------------------------------------------------
(* Sessions: only s moves, and it is on a thread of its own or on none.    *)

Alone(s) == \A r \in Session \ {s} :
  pc'[r] = pc[r] /\ on'[r] = on[r] /\ cmd'[r] = cmd[r] /\ xid'[r] = xid[r]
OnThread(s) ==
  /\ pc'[s] = "idle" <=> on'[s] = NoThread
  /\ on'[s] = NoThread \/ on'[s] = on[s] \/ FreeThread(s, on'[s])
Moves(s) == SessionsTyped' /\ Alone(s) /\ OnThread(s)

LEMMA NoCmdTyped ==
  /\ NoCmd \in Cmd /\ [NoCmd EXCEPT !.tmp = TRUE] \in Cmd
  /\ [NoCmd EXCEPT !.tmp = TRUE].kind = "none" /\ NoCmd.kind = "none"
BY DEF Cmd, NoCmd

LEMMA RowCmd ==
  ASSUME NEW c \in Cmd, NEW u \in Uid
  PROVE  [c EXCEPT !.kind = "delete", !.row = u] \in Cmd /\ [c EXCEPT !.kind = "delete", !.row = u].row = u
BY DEF Cmd

LEMMA AutoCmd ==
  ASSUME NEW c \in Cmd, NEW b \in BOOLEAN
  PROVE  [c EXCEPT !.kind = "auto", !.ser = b] \in Cmd /\ [c EXCEPT !.kind = "auto", !.ser = b].kind = "auto"
BY DEF Cmd

LEMMA CommitCmd ==
  ASSUME NEW c \in Cmd, NEW b \in BOOLEAN, NEW d \in BOOLEAN
  PROVE  [c EXCEPT !.kind = "commit", !.lost = d, !.ser = b] \in Cmd /\ [c EXCEPT !.kind = "commit", !.lost = d, !.ser = b].kind = "commit"
BY DEF Cmd

LEMMA AbortCmd ==
  ASSUME NEW c \in Cmd, NEW b \in BOOLEAN, NEW d \in BOOLEAN
  PROVE  [c EXCEPT !.kind = "abort", !.close = d, !.ser = b] \in Cmd /\ [c EXCEPT !.kind = "abort", !.close = d, !.ser = b].kind = "abort"
BY DEF Cmd

LEMMA GotoMoves ==
  ASSUME SessionsTyped, NEW s \in Session, NEW label \in Labels \ {"idle"}, NEW t \in Thread, NEW c \in Cmd,
         t = on[s] \/ FreeThread(s, t), Goto(s, label, t, c)
  PROVE  Moves(s) /\ pc'[s] = label /\ on'[s] = t /\ cmd'[s] = c /\ xid' = xid
BY ThreadsAreDistinct DEF Goto, SessionsTyped, Moves, Alone, OnThread

LEMMA StatementEndsMoves ==
  ASSUME SessionsTyped, NEW s \in Session, NEW t \in Thread, NEW threw,
         t = on[s] \/ FreeThread(s, t), StatementEnds(s, t, threw)
  PROVE  /\ Moves(s) /\ xid' = xid
         /\ \/ pc'[s] = "idle" /\ cmd'[s] = NoCmd
            \/ pc'[s] \in {"commit", "abort"} /\ cmd'[s] = [NoCmd EXCEPT !.tmp = TRUE]
<1>1. NoCmd \in Cmd /\ [NoCmd EXCEPT !.tmp = TRUE] \in Cmd
  BY NoCmdTyped
<1> HIDE DEF NoCmd
<1>2. CASE cmd[s].tmp
  <2>1. PICK label \in {"commit", "abort"} : Goto(s, label, t, [NoCmd EXCEPT !.tmp = TRUE])
    BY <1>2 DEF StatementEnds
  <2> QED BY <1>1, <2>1, GotoMoves DEF Labels
<1>3. CASE ~cmd[s].tmp
  BY <1>1, <1>3 DEF StatementEnds, Goto, SessionsTyped, Moves, Alone, OnThread, Labels
<1> QED BY <1>2, <1>3

LEMMA RowEndsMoves ==
  ASSUME SessionsTyped, NEW s \in Session, NEW t \in Thread,
         t = on[s] \/ FreeThread(s, t), RowEnds(s, t)
  PROVE  /\ Moves(s) /\ xid' = xid
         /\ \/ pc'[s] = "idle" /\ cmd'[s] = NoCmd
            \/ pc'[s] = "statement" /\ cmd'[s] = [NoCmd EXCEPT !.tmp = TRUE]
<1>1. NoCmd \in Cmd /\ [NoCmd EXCEPT !.tmp = TRUE] \in Cmd
  BY NoCmdTyped
<1> HIDE DEF NoCmd
<1>2. CASE cmd[s].tmp
  BY <1>1, <1>2, GotoMoves DEF RowEnds, Labels
<1>3. CASE ~cmd[s].tmp
  BY <1>1, <1>3 DEF RowEnds, Goto, SessionsTyped, Moves, Alone, OnThread, Labels
<1> QED BY <1>2, <1>3

LEMMA TransactionEndsMoves ==
  ASSUME SessionsTyped, NEW s \in Session, NEW threw, TransactionEnds(s, threw)
  PROVE  /\ Moves(s) /\ pc'[s] = "idle" /\ cmd'[s] = NoCmd
         /\ xid'[s] = IF threw /\ ~cmd[s].close THEN xid[s] ELSE 0
<1>1. NoCmd \in Cmd
  BY NoCmdTyped
<1> HIDE DEF NoCmd
<1> QED BY <1>1 DEF TransactionEnds, SessionsTyped, Moves, Alone, OnThread, Labels

LEMMA MovesThreads ==
  ASSUME Types, Control, NEW s \in Session, Moves(s)
  PROVE  Threads'
BY DEF Types, Control, Threads, Moves, Alone, OnThread, FreeThread, SessionsTyped

----------------------------------------------------------------------------
(* The lock table: who is inside it, and for whom it records more.         *)

Inside == <<call, open>>
Shrinks == DOMAIN x2u' \subseteq DOMAIN x2u /\ DOMAIN waitU' \subseteq DOMAIN waitU
Grows(x) ==
  /\ DOMAIN x2u' \subseteq DOMAIN x2u \cup {x}
  /\ DOMAIN waitU' \subseteq DOMAIN waitU \cup {x}

LEMMA AddSays ==
  ASSUME NEW t, NEW x, NEW u,
         LT!AddOwned(t, x, u) \/ LT!AddFree(t, x, u) \/ LT!AddWait(t, x, u)
  PROVE  UNCHANGED Inside /\ Grows(x)
<1>1. CASE LT!AddOwned(t, x, u)
  BY <1>1 DEF LT!AddOwned, LT!vars, Inside, Grows
<1>2. CASE LT!AddFree(t, x, u)
  BY <1>2 DEF LT!AddFree, LT!PutIntoList, LT!Put, Inside, Grows
<1>3. CASE LT!AddWait(t, x, u)
  BY <1>3 DEF LT!AddWait, LT!Put, Inside, Grows
<1> QED BY <1>1, <1>2, <1>3

LEMMA DeadlockSays ==
  ASSUME NEW t, NEW x, NEW u, LT!AddDeadlock(t, x, u)
  PROVE  call' = call /\ open' = open \ {x} /\ Shrinks
BY DEF LT!AddDeadlock, LT!Without, Shrinks

LEMMA SelectSays ==
  ASSUME NEW t, NEW u, NEW threw, LT!SelectNewXID(t, u, threw)
  PROVE  DOMAIN waitU' \subseteq DOMAIN waitU
BY DEF LT!SelectNewXID, LT!ReleaseUnclaimed, LT!HandOver, LT!Without

LEMMA RemoveSays ==
  ASSUME CallShaped, NEW t \in Thread, NEW x
  PROVE  /\ LT!RemoveCall(t, x) =>
              /\ call.by = NoThread /\ call'.by = t /\ call'.xid = x /\ CallShaped'
              /\ open' = open \ {x} /\ Shrinks
         /\ LT!RemoveNext(t) =>
              /\ call.by = t /\ (call' = call \/ call' = LT!Idle)
              /\ call'.by \in {t, NoThread} /\ CallShaped' /\ open' = open /\ Shrinks
         /\ LT!RemoveReturn(t) =>
              /\ call.by = t /\ call'.by = NoThread /\ CallShaped' /\ open' = open /\ Shrinks
              /\ call.xid \notin DOMAIN x2u' /\ call.xid \notin DOMAIN waitU'
<1>1. ASSUME LT!RemoveCall(t, x)
      PROVE  /\ call.by = NoThread /\ call'.by = t /\ call'.xid = x /\ CallShaped'
             /\ open' = open \ {x} /\ Shrinks
  BY <1>1 DEF LT!RemoveCall, LT!Idle, CallShaped, Shrinks
<1>2. ASSUME LT!RemoveNext(t)
      PROVE  /\ call.by = t /\ (call' = call \/ call' = LT!Idle)
             /\ call'.by \in {t, NoThread} /\ CallShaped' /\ open' = open /\ Shrinks
  <2>1. /\ call.by = t /\ open' = open /\ call' \in {LT!Idle, call} /\ DOMAIN x2u' = DOMAIN x2u
        /\ DOMAIN waitU' \subseteq DOMAIN waitU
    BY <1>2, SelectSays DEF LT!RemoveNext, LT!Removing
  <2>2. LT!Idle.by = NoThread
    BY DEF LT!Idle
  <2> QED BY <2>1, <2>2, ThreadsAreDistinct DEF LT!Idle, CallShaped, Shrinks
<1>3. ASSUME LT!RemoveReturn(t)
      PROVE  /\ call.by = t /\ call'.by = NoThread /\ CallShaped' /\ open' = open /\ Shrinks
             /\ call.xid \notin DOMAIN x2u' /\ call.xid \notin DOMAIN waitU'
  BY <1>3 DEF LT!RemoveReturn, LT!Removing, LT!Idle, LT!Without, CallShaped, Shrinks
<1> QED BY <1>1, <1>2, <1>3

LEMMA TimeoutSays ==
  ASSUME CallShaped, Timeouts
  PROVE  call.by \notin Thread /\ call'.by \notin Thread /\ CallShaped' /\ open' = open /\ Shrinks
<1>1. ASSUME NEW late, LT!CheckTimeouts(late)
      PROVE  call.by = NoThread /\ call'.by = Checker /\ CallShaped' /\ open' = open /\ Shrinks
  BY <1>1 DEF LT!CheckTimeouts, LT!Idle, CallShaped, Shrinks
<1>2. ASSUME NEW x, LT!TimeoutNext(x)
      PROVE  call.by = Checker /\ call'.by = Checker /\ CallShaped' /\ open' = open /\ Shrinks
  <2>1. call' = [by |-> call.by, xid |-> x, todo |-> LT!Listed(x2u, x), expired |-> call.expired]
    BY <1>2 DEF LT!TimeoutNext, CallShaped
  <2>2. Shrinks
    BY <1>2 DEF LT!TimeoutNext, LT!Without, Shrinks
  <2> QED BY <1>2, <2>1, <2>2 DEF LT!TimeoutNext, CallShaped
<1>3. ASSUME LT!TimeoutRelease
      PROVE  call.by = Checker /\ call'.by \in {Checker, NoThread} /\ CallShaped' /\ open' = open /\ Shrinks
  <2>1. \/ call' = [by |-> call.by, xid |-> call.xid, todo |-> Tail(call.todo), expired |-> call.expired]
        \/ call' = LT!Idle
    BY <1>3 DEF LT!TimeoutRelease, CallShaped
  <2>2. Shrinks
    BY <1>3, SelectSays DEF LT!TimeoutRelease, Shrinks
  <2>3. call.by = Checker /\ open' = open
    BY <1>3 DEF LT!TimeoutRelease
  <2> QED BY <2>1, <2>2, <2>3 DEF LT!Idle, CallShaped
<1>4. ASSUME LT!TimeoutForget
      PROVE  call.by = Checker /\ call'.by = Checker /\ CallShaped' /\ open' = open /\ Shrinks
  <2>1. call' = [by |-> call.by, xid |-> NoXid, todo |-> call.todo, expired |-> call.expired \ {call.xid}]
    BY <1>4 DEF LT!TimeoutForget, CallShaped
  <2> QED BY <1>4, <2>1 DEF LT!TimeoutForget, CallShaped, Shrinks
<1>5. ASSUME LT!TimeoutReturn
      PROVE  call.by = Checker /\ call'.by = NoThread /\ CallShaped' /\ open' = open /\ Shrinks
  BY <1>5 DEF LT!TimeoutReturn, LT!Idle, CallShaped, Shrinks
<1> QED BY <1>1, <1>2, <1>3, <1>4, <1>5, ThreadsAreDistinct DEF Timeouts

----------------------------------------------------------------------------
(* A step of session s for transaction x: nobody else's transaction is     *)
(* touched, so only s and x need to be looked at.                          *)

Touches(x) ==
  /\ \A y \in Xid \ {x} :
       /\ status'[y] = status[y]
       /\ y \in DOMAIN activeTransaction' <=> y \in DOMAIN activeTransaction
       /\ y \in DOMAIN activeTransaction => activeTransaction'[y] = activeTransaction[y]
       /\ y \in open' <=> y \in open
       /\ y \in DOMAIN x2u' => y \in DOMAIN x2u
       /\ y \in DOMAIN waitU' => y \in DOMAIN waitU
  /\ DOMAIN entries \subseteq DOMAIN entries'

FateOf(x) ==
  /\ status[x] # "none"
  /\ Active(x) => status[x] \in {"active", "aborted"}
  /\ Healthy(x) => x \in open
  /\ Active(x) /\ activeTransaction[x].autoAborted =>
       /\ status[x] = "aborted" /\ activeTransaction[x].err
       /\ x \notin open /\ x \notin DOMAIN x2u /\ x \notin DOMAIN waitU

(* x is the transaction s has, or one it begins.                           *)
Of(s, x) == xid[s] = x \/ (xid[s] = 0 /\ status[x] = "none")

LEMMA NotOfOthers ==
  ASSUME Inv, NEW s \in Session, NEW x \in Xid, Of(s, x), NEW r \in Session \ {s}
  PROVE  xid[r] # x /\ xid[r] \in Xid \cup {0}
BY DEF Inv, Fates, Owned, OneSessionEach, Of, Types, SessionsTyped, Xid

LEMMA OthersStay ==
  ASSUME Inv, NEW s \in Session, NEW x \in Xid, Of(s, x), Alone(s), Touches(x), NEW r \in Session \ {s}
  PROVE  Locals(r)'
<1>1. /\ pc'[r] = pc[r] /\ cmd'[r] = cmd[r] /\ xid'[r] = xid[r]
      /\ xid[r] # 0 => xid[r] \in Xid \ {x}
  BY NotOfOthers DEF Alone
<1>2. Locals(r)
  BY DEF Inv, Control
<1>3. AtRest(r)' /\ Busy(r)' /\ Temporary(r)'
  BY <1>1, <1>2 DEF Locals, AtRest, Busy, Temporary
<1>4. Deleting(r)'
  BY <1>1, <1>2 DEF Locals, Deleting, Touches
<1>5. Changing(r)' /\ Finishing(r)'
  BY <1>1, <1>2 DEF Locals, Busy, Changing, Finishing, Touches, Healthy, Active
<1>6. Closed(r)' /\ Released(r)'
  BY <1>1, <1>2 DEF Locals, Busy, Closed, Released, Touches
<1> QED BY <1>3, <1>4, <1>5, <1>6 DEF Locals

LEMMA FatesStep ==
  ASSUME Inv, NEW s \in Session, NEW x \in Xid, Of(s, x), Moves(s), Touches(x),
         xid'[s] \in {0, x}, Active(x)' => xid'[s] = x, FateOf(x)',
         DOMAIN activeTransaction' \subseteq Xid
  PROVE  Fates'
<1>1. \A r \in Session \ {s} : xid'[r] = xid[r] /\ xid[r] # x
  BY NotOfOthers DEF Moves, Alone
<1>2. \A r \in Session : xid[r] \in Xid \cup {0}
  BY DEF Inv, Types, SessionsTyped
<1>3. Owned'
  <2>1. ASSUME NEW y \in DOMAIN activeTransaction'
        PROVE  \E r \in Session : xid'[r] = y
    <3>1. CASE y = x
      BY <2>1, <3>1 DEF Active
    <3>2. CASE y # x
      <4>1. y \in Xid /\ y \in DOMAIN activeTransaction
        BY <2>1, <3>2 DEF Touches
      <4>2. PICK r \in Session : xid[r] = y
        BY <4>1 DEF Inv, Fates, Owned, OneSessionEach
      <4>3. r # s
        BY <3>2, <4>1, <4>2 DEF Of, Xid
      <4> QED BY <1>1, <4>2, <4>3
    <3> QED BY <3>1, <3>2
  <2>2. \A q, r \in Session : xid'[q] = xid'[r] /\ xid'[q] # 0 => q = r
    BY <1>1 DEF Inv, Fates, Owned, OneSessionEach
  <2>3. \A r \in Session : xid'[r] # 0 => status'[xid'[r]] # "none"
    BY <1>1, <1>2 DEF Inv, Fates, Owned, Touches, FateOf
  <2> QED BY <2>1, <2>2, <2>3 DEF Owned, OneSessionEach
<1>4. Undecided'
  BY DEF Inv, Fates, Undecided, Touches, FateOf, Active
<1>5. StillOpen'
  BY DEF Inv, Fates, StillOpen, Touches, FateOf, Healthy, Active
<1>6. RolledBack'
  BY DEF Inv, Fates, RolledBack, Touches, FateOf, Active
<1> QED BY <1>3, <1>4, <1>5, <1>6 DEF Fates

LEMMA StepOf ==
  ASSUME Inv, NEW s \in Session, NEW x \in Xid, Of(s, x), Moves(s), Touches(x),
         xid'[s] \in {0, x}, Active(x)' => xid'[s] = x, FateOf(x)', Locals(s)',
         Types', Callers'
  PROVE  Inv'
<1>1. Threads'
  BY MovesThreads DEF Inv
<1>2. \A r \in Session : Locals(r)'
  BY OthersStay DEF Moves
<1>3. Fates'
  BY FatesStep DEF Types, ActiveTyped
<1> QED BY <1>1, <1>2, <1>3 DEF Inv, Control

(* A session outside the lock table stays outside, whoever is inside.      *)
LEMMA CallersStay ==
  ASSUME Inv, NEW s \in Session, Moves(s), pc[s] # "removing", pc'[s] # "removing", call' = call
  PROVE  Callers'
<1>1. \A r \in Session : pc[r] = "removing" => pc'[r] = pc[r] /\ on'[r] = on[r] /\ xid'[r] = xid[r]
  BY DEF Moves, Alone
<1>2. \A r \in Session : pc'[r] = "removing" => pc[r] = "removing"
  BY DEF Moves, Alone
<1> QED BY <1>1, <1>2 DEF Inv, Control, Callers, CallShaped

----------------------------------------------------------------------------
(* What is known of the transaction a session has.                         *)

LEMMA Known ==
  ASSUME Inv, NEW s \in Session, xid[s] # 0
  PROVE  xid[s] \in Xid /\ Of(s, xid[s]) /\ FateOf(xid[s])
<1>1. xid[s] \in Xid
  BY DEF Inv, Types, SessionsTyped
<1> QED BY <1>1 DEF Inv, Fates, Owned, Undecided, StillOpen, RolledBack, Of, FateOf, Active

LEMMA BusyKnown ==
  ASSUME Inv, NEW s \in Session, pc[s] # "idle"
  PROVE  /\ xid[s] # 0 /\ xid[s] \in Xid /\ Of(s, xid[s]) /\ FateOf(xid[s])
         /\ on[s] \in Thread /\ on[s] # NoThread
<1>1. xid[s] # 0 /\ on[s] # NoThread /\ on[s] \in Thread
  BY DEF Inv, Types, SessionsTyped, Control, Threads, Locals, Busy
<1> QED BY <1>1, Known

LEMMA FreeKnown ==
  ASSUME Inv, NEW s \in Session, NEW t, FreeThread(s, t)
  PROVE  t \in Thread /\ t # NoThread /\ pc[s] = "idle" /\ cmd[s] = NoCmd
BY SessionsHaveThreads, ThreadsAreDistinct DEF FreeThread, Inv, Control, Locals, AtRest

LEMMA ExecutingKnown ==
  ASSUME Inv, NEW s \in Session, NEW t \in Thread, Executing(s, t)
  PROVE  /\ xid[s] # 0 /\ xid[s] \in Xid /\ Of(s, xid[s]) /\ FateOf(xid[s])
         /\ t = on[s] \/ FreeThread(s, t)
         /\ pc[s] \in {"idle", "statement"} /\ cmd[s] \in {NoCmd, [NoCmd EXCEPT !.tmp = TRUE]}
<1>1. cmd[s] \in {NoCmd, [NoCmd EXCEPT !.tmp = TRUE]}
  BY DEF Executing, FreeThread, Inv, Control, Locals, AtRest, Temporary
<1> QED BY <1>1, Known, BusyKnown DEF Executing, FreeThread

LEMMA EndingKnown ==
  ASSUME Inv, NEW s \in Session, NEW t \in Thread, NEW label \in {"commit", "abort"}, Ending(s, t, label)
  PROVE  /\ xid[s] # 0 /\ xid[s] \in Xid /\ Of(s, xid[s]) /\ FateOf(xid[s])
         /\ t = on[s] \/ FreeThread(s, t)
         /\ pc[s] \in {"idle", label} /\ cmd[s] \in {NoCmd, [NoCmd EXCEPT !.tmp = TRUE]} /\ ~cmd[s].close
<1>1. cmd[s] \in {NoCmd, [NoCmd EXCEPT !.tmp = TRUE]}
  BY DEF Ending, FreeThread, Inv, Control, Locals, AtRest, Temporary
<1>2. ~cmd[s].close
  BY <1>1 DEF NoCmd
<1> QED BY <1>1, <1>2, Known, BusyKnown DEF Ending, FreeThread

----------------------------------------------------------------------------
(* Steps that leave the transactions and the rows as they are.             *)

LEMMA SameDb ==
  ASSUME Inv, NEW s \in Session, Moves(s), UNCHANGED dbVars
  PROVE  Types'
BY DEF Inv, Types, dbVars, StatusTyped, ActiveTyped, GlobalTyped, EntriesTyped, Moves

LEMMA SameTouches ==
  ASSUME UNCHANGED dbVars, UNCHANGED ltVars, NEW x
  PROVE  Touches(x) /\ (FateOf(x) => FateOf(x)') /\ (Active(x)' <=> Active(x)) /\ (Healthy(x)' <=> Healthy(x)) /\ call' = call
BY DEF dbVars, ltVars, Touches, FateOf, Active, Healthy

LEMMA IdleLocals ==
  ASSUME NEW s, pc'[s] = "idle" /\ cmd'[s] = NoCmd
  PROVE  Locals(s)'
BY DEF Locals, AtRest, Busy, Temporary, Deleting, Changing, Finishing, Closed, Released

(* A statement is over: the session is idle or its temporary transaction   *)
(* is ended.                                                               *)
LEMMA StatementLocals ==
  ASSUME NEW s, xid'[s] # 0,
         \/ pc'[s] = "idle" /\ cmd'[s] = NoCmd
         \/ pc'[s] \in {"commit", "abort"} /\ cmd'[s] = [NoCmd EXCEPT !.tmp = TRUE]
  PROVE  Locals(s)' /\ pc'[s] # "removing"
BY DEF Locals, AtRest, Busy, Temporary, Deleting, Changing, Finishing, Closed, Released

(* A row is done: the session is idle or its temporary transaction, which  *)
(* is healthy, goes on.                                                    *)
LEMMA RowLocals ==
  ASSUME NEW s, xid'[s] # 0, Healthy(xid[s])', xid' = xid,
         \/ pc'[s] = "idle" /\ cmd'[s] = NoCmd
         \/ pc'[s] = "statement" /\ cmd'[s] = [NoCmd EXCEPT !.tmp = TRUE]
  PROVE  Locals(s)' /\ pc'[s] # "removing"
BY DEF Locals, AtRest, Busy, Temporary, Deleting, Changing, Finishing, Closed, Released

LEMMA OwnedActive ==
  ASSUME Inv, NEW s \in Session, Active(xid[s])
  PROVE  xid[s] # 0
BY DEF Inv, Types, ActiveTyped, Active, Xid

LEMMA OtherStatementKeeps ==
  ASSUME Inv, NEW s \in Session, NEW threw \in BOOLEAN, OtherStatement(s, threw)
  PROVE  Inv'
<1>1. pc[s] = "statement" /\ StatementEnds(s, on[s], threw) /\ UNCHANGED dbVars /\ UNCHANGED ltVars
  BY DEF OtherStatement
<1>2. xid[s] # 0 /\ xid[s] \in Xid /\ Of(s, xid[s]) /\ FateOf(xid[s]) /\ on[s] \in Thread
  BY <1>1, BusyKnown
<1>3. /\ Moves(s) /\ xid' = xid
      /\ \/ pc'[s] = "idle" /\ cmd'[s] = NoCmd
         \/ pc'[s] \in {"commit", "abort"} /\ cmd'[s] = [NoCmd EXCEPT !.tmp = TRUE]
  BY <1>1, <1>2, StatementEndsMoves DEF Inv, Types
<1>4. PICK x : x = xid[s]
  OBVIOUS
<1>5. Touches(x) /\ FateOf(x)' /\ call' = call
  BY <1>1, <1>2, <1>4, SameTouches
<1>6. Locals(s)' /\ pc'[s] # "removing"
  BY <1>2, <1>3, StatementLocals
<1>7. Types' /\ Callers'
  BY <1>1, <1>3, <1>5, <1>6, SameDb, CallersStay
<1> QED BY <1>2, <1>3, <1>4, <1>5, <1>6, <1>7, StepOf

(* A transaction is let go of, or not, and nothing else happens.           *)
LEMMA LetGoKeeps ==
  ASSUME Inv, NEW s \in Session, NEW t \in Thread,
         CommitRefused(s, t) \/ \E close \in BOOLEAN : AbortLost(s, t, close)
  PROVE  Inv'
<1>1. UNCHANGED dbVars /\ UNCHANGED ltVars /\ (Ending(s, t, "commit") \/ Ending(s, t, "abort"))
  BY DEF CommitRefused, AbortLost
<1>2. /\ xid[s] # 0 /\ xid[s] \in Xid /\ Of(s, xid[s]) /\ FateOf(xid[s])
      /\ pc[s] # "removing" /\ ~cmd[s].close
  BY <1>1, EndingKnown
<1>3. Moves(s) /\ pc'[s] = "idle" /\ cmd'[s] = NoCmd /\ xid'[s] \in {0, xid[s]} /\ (Active(xid[s]) => xid'[s] = xid[s])
  <2>1. CASE CommitRefused(s, t)
    BY <1>2, <2>1, TransactionEndsMoves DEF CommitRefused, Inv, Types
  <2>2. ASSUME NEW close \in BOOLEAN, AbortLost(s, t, close)
        PROVE  Moves(s) /\ pc'[s] = "idle" /\ cmd'[s] = NoCmd /\ xid'[s] \in {0, xid[s]} /\ ~Active(xid[s])
    <3>1. NoCmd \in Cmd
      BY NoCmdTyped
    <3> HIDE DEF NoCmd
    <3> QED BY <2>2, <3>1 DEF AbortLost, Inv, Types, SessionsTyped, Moves, Alone, OnThread, Labels
  <2> QED BY <2>1, <2>2
<1>4. PICK x : x = xid[s]
  OBVIOUS
<1>5. Touches(x) /\ FateOf(x)' /\ call' = call /\ (Active(x)' <=> Active(x))
  BY <1>1, <1>2, <1>4, SameTouches
<1>6. Locals(s)'
  BY <1>3, IdleLocals
<1>7. Types' /\ Callers'
  BY <1>1, <1>2, <1>3, <1>5, SameDb, CallersStay
<1> QED BY <1>2, <1>3, <1>4, <1>5, <1>6, <1>7, StepOf

----------------------------------------------------------------------------
(* Statements.                                                             *)

LEMMA BeginKeeps ==
  ASSUME Inv, NEW s \in Session, NEW t \in Thread, NEW level \in {"RU", "RC", "RR", "SER"}, NEW tmp \in BOOLEAN,
         Begin(s, t, level, tmp)
  PROVE  Inv'
<1>1. /\ FreeThread(s, t) /\ xid[s] = 0 /\ MayEnter(t) /\ UNCHANGED <<ltVars, entries>>
      /\ globalLock' = IF level = "SER" THEN Acquire(globalLock, t) ELSE globalLock
      /\ pc' = [pc EXCEPT ![s] = IF tmp THEN "statement" ELSE "idle"]
      /\ on' = [on EXCEPT ![s] = IF tmp THEN t ELSE NoThread]
      /\ cmd' = [cmd EXCEPT ![s].tmp = tmp]
  BY DEF Begin
<1>2. PICK x \in Xid :
        /\ status[x] = "none" /\ UpdateXID(x, "active")
        /\ activeTransaction' = LT!Put(activeTransaction, x, NewTransaction(x, level))
        /\ xid' = [xid EXCEPT ![s] = x]
  BY DEF Begin
<1>3. t # NoThread /\ pc[s] = "idle" /\ cmd[s] = NoCmd
  BY <1>1, FreeKnown
<1>4. cmd' = [cmd EXCEPT ![s] = [NoCmd EXCEPT !.tmp = tmp]]
  BY <1>1, <1>3 DEF Inv, Types, SessionsTyped
<1>5. [NoCmd EXCEPT !.tmp = tmp] \in Cmd /\ (~tmp => [NoCmd EXCEPT !.tmp = tmp] = NoCmd)
  <2>1. NoCmd.tmp = FALSE
    BY DEF NoCmd
  <2>2. [NoCmd EXCEPT !.tmp = FALSE] = NoCmd
    BY <2>1, NoCmdTyped DEF Cmd
  <2> QED BY <2>2, NoCmdTyped
<1>6. PICK c : c = [NoCmd EXCEPT !.tmp = tmp]
  OBVIOUS
<1>7. /\ Moves(s) /\ xid'[s] = x /\ cmd'[s] = c /\ pc'[s] = (IF tmp THEN "statement" ELSE "idle")
  BY <1>1, <1>2, <1>3, <1>4, <1>5, <1>6
  DEF Inv, Types, SessionsTyped, Moves, Alone, OnThread, Labels
<1>8. NewTransaction(x, level) \in Transaction /\ NewTransaction(x, level).xid = x
      /\ ~NewTransaction(x, level).err /\ ~NewTransaction(x, level).autoAborted
  BY DEF NewTransaction, Transaction, Inv, Types, ActiveTyped
<1>9. PICK new : new = NewTransaction(x, level)
  OBVIOUS
<1>10. /\ status' = [status EXCEPT ![x] = "active"] /\ status'[x] = "active"
       /\ DOMAIN activeTransaction' = DOMAIN activeTransaction \cup {x} /\ activeTransaction'[x] = new
       /\ \A y \in DOMAIN activeTransaction \ {x} : activeTransaction'[y] = activeTransaction[y]
       /\ ActiveTyped' /\ StatusTyped'
  BY <1>2, <1>8, <1>9 DEF UpdateXID, LT!Put, Inv, Types, StatusTyped, ActiveTyped
<1>11. GlobalTyped'
  BY <1>1, <1>3 DEF Acquire, MayEnter, Inv, Types, GlobalTyped
<1>12. Types' /\ x \in open
  BY <1>1, <1>2, <1>7, <1>10, <1>11 DEF Inv, Types, EntriesTyped, Moves, Fates, StillOpen
<1>13. Touches(x) /\ FateOf(x)' /\ Of(s, x)
  BY <1>1, <1>2, <1>8, <1>9, <1>10, <1>12 DEF Touches, FateOf, Of, ltVars, Active, Healthy, Inv, Types, StatusTyped
<1>14. Locals(s)'
  <2>1. x # 0 /\ Healthy(x)'
    BY <1>8, <1>9, <1>10 DEF Healthy, Active, Xid
  <2> HIDE DEF NoCmd
  <2> QED BY <1>5, <1>6, <1>7, <2>1
          DEF Locals, AtRest, Busy, Temporary, Deleting, Changing, Finishing, Closed, Released
<1>15. Callers'
  BY <1>1, <1>3, <1>7, CallersStay DEF ltVars
<1> QED BY <1>7, <1>12, <1>13, <1>14, <1>15, StepOf

LEMMA InsertKeeps ==
  ASSUME Inv, NEW s \in Session, NEW t \in Thread, NEW u \in Uid, Insert(s, t, u)
  PROVE  Inv'
<1>1. /\ Executing(s, t) /\ Healthy(xid[s]) /\ RowEnds(s, t) /\ UNCHANGED <<ltVars, status, activeTransaction, globalLock>>
      /\ entries' = LT!Put(entries, u, [xmin |-> xid[s], xmax |-> 0])
  BY DEF Insert
<1>2. /\ xid[s] # 0 /\ xid[s] \in Xid /\ Of(s, xid[s]) /\ FateOf(xid[s])
      /\ t = on[s] \/ FreeThread(s, t)
      /\ pc[s] # "removing"
  BY <1>1, ExecutingKnown
<1>3. /\ Moves(s) /\ xid' = xid
      /\ \/ pc'[s] = "idle" /\ cmd'[s] = NoCmd
         \/ pc'[s] = "statement" /\ cmd'[s] = [NoCmd EXCEPT !.tmp = TRUE]
  BY <1>1, <1>2, RowEndsMoves DEF Inv, Types
<1>4. PICK x : x = xid[s]
  OBVIOUS
<1>5. EntriesTyped' /\ DOMAIN entries \subseteq DOMAIN entries'
  <2>1. [xmin |-> xid[s], xmax |-> 0] \in [xmin : Xid \cup {0}, xmax : Xid \cup {0}]
    BY <1>2
  <2> QED BY <1>1, <2>1 DEF LT!Put, Inv, Types, EntriesTyped
<1>6. Touches(x) /\ FateOf(x)' /\ call' = call /\ Healthy(x)'
  BY <1>1, <1>2, <1>4, <1>5 DEF ltVars, Touches, FateOf, Active, Healthy
<1>7. Locals(s)' /\ pc'[s] # "removing"
  BY <1>2, <1>3, <1>4, <1>6, RowLocals
<1>8. Types'
  BY <1>1, <1>3, <1>5 DEF Inv, Types, StatusTyped, ActiveTyped, GlobalTyped, Moves
<1>9. Callers'
  BY <1>2, <1>3, <1>6, <1>7, CallersStay
<1> QED BY <1>2, <1>3, <1>4, <1>6, <1>7, <1>8, <1>9, StepOf

LEMMA DeleteLookKeeps ==
  ASSUME Inv, NEW s \in Session, NEW t \in Thread, NEW u \in Uid, DeleteLook(s, t, u)
  PROVE  Inv'
<1>1. /\ Executing(s, t) /\ Healthy(xid[s]) /\ u \in DOMAIN entries
      /\ Goto(s, "lock", t, [cmd[s] EXCEPT !.kind = "delete", !.row = u])
      /\ UNCHANGED dbVars /\ UNCHANGED ltVars
  BY DEF DeleteLook
<1>2. /\ xid[s] # 0 /\ xid[s] \in Xid /\ Of(s, xid[s]) /\ FateOf(xid[s])
      /\ t = on[s] \/ FreeThread(s, t)
      /\ pc[s] # "removing"
  BY <1>1, ExecutingKnown
<1>3. PICK c \in Cmd : c = [cmd[s] EXCEPT !.kind = "delete", !.row = u] /\ c.row = u
  BY RowCmd DEF Inv, Types, SessionsTyped
<1>4. Moves(s) /\ pc'[s] = "lock" /\ cmd'[s] = c /\ xid' = xid
  BY <1>1, <1>2, <1>3, GotoMoves DEF Inv, Types, Labels
<1>5. PICK x : x = xid[s]
  OBVIOUS
<1>6. Touches(x) /\ FateOf(x)' /\ call' = call /\ Healthy(x)'
  BY <1>1, <1>2, <1>5, SameTouches
<1>7. Locals(s)'
  BY <1>1, <1>2, <1>3, <1>4, <1>5, <1>6
  DEF Locals, AtRest, Busy, Temporary, Deleting, Changing, Finishing, Closed, Released, dbVars
<1>8. Types' /\ Callers'
  BY <1>1, <1>2, <1>4, <1>6, SameDb, CallersStay
<1> QED BY <1>2, <1>4, <1>5, <1>6, <1>7, <1>8, StepOf

(* The transaction that asks for a row is healthy, so it may still ask.    *)
LEMMA DeleteLockKeeps ==
  ASSUME Inv, NEW s \in Session, DeleteLock(s)
  PROVE  Inv'
<1>1. /\ pc[s] = "lock" /\ Goto(s, "check", on[s], cmd[s]) /\ UNCHANGED dbVars
      /\ UNCHANGED Inside /\ Grows(xid[s])
  BY AddSays DEF DeleteLock
<1>2. xid[s] # 0 /\ xid[s] \in Xid /\ Of(s, xid[s]) /\ FateOf(xid[s]) /\ on[s] \in Thread
  BY <1>1, BusyKnown
<1>3. Moves(s) /\ pc'[s] = "check" /\ cmd'[s] = cmd[s] /\ xid' = xid
  BY <1>1, <1>2, GotoMoves DEF Inv, Types, SessionsTyped, Labels
<1>4. PICK x : x = xid[s]
  OBVIOUS
<1>5. Healthy(x) /\ cmd[s].row \in DOMAIN entries
  BY <1>1, <1>4 DEF Inv, Control, Locals, Deleting, Changing
<1>6. Touches(x) /\ FateOf(x)' /\ call' = call /\ Healthy(x)'
  BY <1>1, <1>2, <1>4, <1>5 DEF dbVars, Inside, Grows, Touches, FateOf, Active, Healthy
<1>7. Locals(s)'
  BY <1>1, <1>2, <1>3, <1>4, <1>5, <1>6
  DEF Locals, AtRest, Busy, Temporary, Deleting, Changing, Finishing, Closed, Released, dbVars
<1>8. Types' /\ Callers'
  BY <1>1, <1>3, <1>6, SameDb, CallersStay
<1> QED BY <1>2, <1>3, <1>4, <1>6, <1>7, <1>8, StepOf

LEMMA DeleteCheckKeeps ==
  ASSUME Inv, NEW s \in Session, DeleteCheck(s)
  PROVE  Inv'
<1>1. /\ pc[s] = "check" /\ UNCHANGED dbVars /\ UNCHANGED ltVars
      /\ RowEnds(s, on[s]) \/ Goto(s, "write", on[s], cmd[s])
  BY DEF DeleteCheck
<1>2. xid[s] # 0 /\ xid[s] \in Xid /\ Of(s, xid[s]) /\ FateOf(xid[s]) /\ on[s] \in Thread
  BY <1>1, BusyKnown
<1>3. PICK x : x = xid[s]
  OBVIOUS
<1>4. Healthy(x) /\ cmd[s].row \in DOMAIN entries
  BY <1>1, <1>3 DEF Inv, Control, Locals, Deleting, Changing
<1>5. Touches(x) /\ FateOf(x)' /\ call' = call /\ Healthy(x)'
  BY <1>1, <1>2, <1>3, <1>4, SameTouches
<1>6. Moves(s) /\ xid' = xid /\ Locals(s)' /\ pc'[s] # "removing"
  <2>1. CASE RowEnds(s, on[s])
    BY <1>2, <1>3, <1>5, <2>1, RowEndsMoves, RowLocals DEF Inv, Types
  <2>2. CASE Goto(s, "write", on[s], cmd[s])
    <3>1. Moves(s) /\ pc'[s] = "write" /\ cmd'[s] = cmd[s] /\ xid' = xid
      BY <1>2, <2>2, GotoMoves DEF Inv, Types, SessionsTyped, Labels
    <3> QED BY <1>1, <1>2, <1>3, <1>4, <1>5, <3>1
            DEF Locals, AtRest, Busy, Temporary, Deleting, Changing, Finishing, Closed, Released, dbVars
  <2> QED BY <1>1, <2>1, <2>2
<1>7. Types' /\ Callers'
  BY <1>1, <1>5, <1>6, SameDb, CallersStay
<1> QED BY <1>2, <1>3, <1>5, <1>6, <1>7, StepOf

LEMMA DeleteWriteKeeps ==
  ASSUME Inv, NEW s \in Session, DeleteWrite(s)
  PROVE  Inv'
<1>1. /\ pc[s] = "write" /\ RowEnds(s, on[s])
      /\ entries' = [entries EXCEPT ![cmd[s].row].xmax = xid[s]]
      /\ UNCHANGED <<ltVars, status, activeTransaction, globalLock>>
  BY DEF DeleteWrite, SetXmax
<1>2. xid[s] # 0 /\ xid[s] \in Xid /\ Of(s, xid[s]) /\ FateOf(xid[s]) /\ on[s] \in Thread
  BY <1>1, BusyKnown
<1>3. /\ Healthy(xid[s])' /\ Moves(s) /\ xid' = xid
      /\ \/ pc'[s] = "idle" /\ cmd'[s] = NoCmd
         \/ pc'[s] = "statement" /\ cmd'[s] = [NoCmd EXCEPT !.tmp = TRUE]
  <2>1. Healthy(xid[s])
    BY <1>1 DEF Inv, Control, Locals, Changing
  <2>2. /\ Moves(s) /\ xid' = xid
        /\ \/ pc'[s] = "idle" /\ cmd'[s] = NoCmd
           \/ pc'[s] = "statement" /\ cmd'[s] = [NoCmd EXCEPT !.tmp = TRUE]
    BY <1>1, <1>2, RowEndsMoves DEF Inv, Types
  <2> QED BY <1>1, <2>1, <2>2 DEF Healthy, Active
<1>4. PICK x : x = xid[s]
  OBVIOUS
<1>5. EntriesTyped' /\ DOMAIN entries' = DOMAIN entries
  BY <1>1, <1>2 DEF Inv, Types, EntriesTyped
<1>6. Touches(x) /\ FateOf(x)' /\ call' = call
  BY <1>1, <1>2, <1>4, <1>5 DEF ltVars, Touches, FateOf, Active, Healthy
<1>9. Locals(s)' /\ pc'[s] # "removing"
  BY <1>2, <1>3, RowLocals
<1>7. Types'
  BY <1>1, <1>3, <1>5 DEF Inv, Types, StatusTyped, ActiveTyped, GlobalTyped, Moves
<1>8. Callers'
  BY <1>1, <1>3, <1>6, CallersStay
<1> QED BY <1>2, <1>3, <1>4, <1>6, <1>7, <1>8, <1>9, StepOf

----------------------------------------------------------------------------
(* The ends of a transaction.                                              *)

LEMMA WithoutTyped ==
  ASSUME Inv, NEW x, activeTransaction' = LT!Without(activeTransaction, x)
  PROVE  /\ ActiveTyped' /\ ~Active(x)'
         /\ DOMAIN activeTransaction' = DOMAIN activeTransaction \ {x}
         /\ \A y \in DOMAIN activeTransaction \ {x} : activeTransaction'[y] = activeTransaction[y]
BY DEF LT!Without, Active, Inv, Types, ActiveTyped

LEMMA UnlockTyped ==
  ASSUME Inv, NEW ser, NEW t \in Thread, UnlockGlobal(ser, t)
  PROVE  GlobalTyped'
BY ThreadsAreDistinct DEF UnlockGlobal, Release, Free, Inv, Types, GlobalTyped

LEMMA AutoAbortKeeps ==
  ASSUME Inv, NEW s \in Session, DeleteDeadlock(s) \/ DeleteSkip(s)
  PROVE  Inv'
<1>1. /\ pc[s] \in {"lock", "check"} /\ call' = call /\ Shrinks
      /\ open' = open \/ open' = open \ {xid[s]}
      /\ activeTransaction' = [activeTransaction EXCEPT ![xid[s]].err = TRUE]
      /\ Goto(s, "remove", on[s], [cmd[s] EXCEPT !.kind = "auto", !.ser = Serializable(xid[s])])
      /\ UNCHANGED <<status, globalLock, entries>>
  BY DeadlockSays DEF DeleteDeadlock, DeleteSkip, AutoAbort, ltVars, Shrinks
<1>2. xid[s] # 0 /\ xid[s] \in Xid /\ Of(s, xid[s]) /\ FateOf(xid[s]) /\ on[s] \in Thread
  BY <1>1, BusyKnown
<1>3. PICK c \in Cmd : c = [cmd[s] EXCEPT !.kind = "auto", !.ser = Serializable(xid[s])] /\ c.kind = "auto"
  <2>1. cmd[s] \in Cmd
    BY DEF Inv, Types, SessionsTyped
  <2>2. PICK b \in BOOLEAN : b = Serializable(xid[s])
    BY Zenon DEF Serializable
  <2>3. [cmd[s] EXCEPT !.kind = "auto", !.ser = b] \in Cmd /\ [cmd[s] EXCEPT !.kind = "auto", !.ser = b].kind = "auto"
    BY <2>1, AutoCmd, Zenon
  <2> QED BY <2>2, <2>3, Zenon
<1>4. Moves(s) /\ pc'[s] = "remove" /\ cmd'[s] = c /\ xid' = xid
  BY <1>1, <1>2, <1>3, GotoMoves DEF Inv, Types, Labels
<1>5. PICK x : x = xid[s]
  OBVIOUS
<1>6. Healthy(x) /\ x \in DOMAIN activeTransaction
  BY <1>1, <1>5 DEF Inv, Control, Locals, Changing, Healthy, Active
<1>7. /\ ActiveTyped' /\ DOMAIN activeTransaction' = DOMAIN activeTransaction
      /\ activeTransaction'[x].err /\ activeTransaction'[x].autoAborted = activeTransaction[x].autoAborted
      /\ \A y \in DOMAIN activeTransaction \ {x} : activeTransaction'[y] = activeTransaction[y]
  <2>1. activeTransaction[x] \in Transaction /\ activeTransaction[x].xid = x
    BY <1>6 DEF Inv, Types, ActiveTyped
  <2>2. PICK e : e = [activeTransaction[x] EXCEPT !.err = TRUE]
    OBVIOUS
  <2>3. e \in Transaction /\ e.err /\ e.autoAborted = activeTransaction[x].autoAborted /\ e.xid = x
    BY <2>1, <2>2 DEF Transaction
  <2>4. activeTransaction' = [activeTransaction EXCEPT ![x] = e]
    BY <1>1, <1>5, <2>2
  <2> QED BY <1>6, <2>3, <2>4 DEF Inv, Types, ActiveTyped
<1>8. ~activeTransaction[x].autoAborted
  BY <1>2, <1>5, <1>6 DEF FateOf, Healthy
<1>9. Touches(x) /\ FateOf(x)'
  BY <1>1, <1>2, <1>5, <1>6, <1>7, <1>8 DEF Shrinks, Touches, FateOf, Active, Healthy
<1>10. Locals(s)'
  BY <1>2, <1>3, <1>4, <1>5, <1>6, <1>7, <1>8
  DEF Locals, AtRest, Busy, Temporary, Deleting, Changing, Finishing, Closed, Released, Active
<1>11. Types'
  BY <1>1, <1>4, <1>7 DEF Inv, Types, StatusTyped, GlobalTyped, EntriesTyped, Moves
<1>12. Callers'
  BY <1>1, <1>4, CallersStay
<1> QED BY <1>2, <1>4, <1>5, <1>9, <1>10, <1>11, <1>12, StepOf

(* commit and abort begin: the transaction leaves the map.                 *)
LEMMA LeaveKeeps ==
  ASSUME Inv, NEW s \in Session, NEW t \in Thread,
         Commit(s, t) \/ \E close \in BOOLEAN : Abort(s, t, close)
  PROVE  Inv'
<1>1. /\ activeTransaction' = LT!Without(activeTransaction, xid[s])
      /\ UNCHANGED <<ltVars, status, globalLock, entries>>
      /\ Ending(s, t, "commit") \/ Ending(s, t, "abort")
  BY DEF Commit, Abort
<1>2. /\ xid[s] # 0 /\ xid[s] \in Xid /\ Of(s, xid[s]) /\ FateOf(xid[s])
      /\ t = on[s] \/ FreeThread(s, t)
      /\ pc[s] # "removing"
  BY <1>1, EndingKnown
<1>3. PICK c \in Cmd : /\ Goto(s, "remove", t, c)
                       /\ c.kind = "commit" \/ (c.kind = "abort" /\ Active(xid[s]))
  <2>1. cmd[s] \in Cmd
    BY DEF Inv, Types, SessionsTyped
  <2>2. PICK b \in BOOLEAN : b = Serializable(xid[s])
    BY Zenon DEF Serializable
  <2>3. PICK d \in BOOLEAN : d = ~Active(xid[s])
    BY Zenon DEF Active
  <2>4. CASE Commit(s, t)
    <3>1. Goto(s, "remove", t, [cmd[s] EXCEPT !.kind = "commit", !.lost = d, !.ser = b])
      BY <2>2, <2>3, <2>4, Zenon DEF Commit
    <3>2. PICK e : e = [cmd[s] EXCEPT !.kind = "commit", !.lost = d, !.ser = b]
      OBVIOUS
    <3>3. e \in Cmd /\ e.kind = "commit"
      BY <2>1, <3>2, CommitCmd, Zenon
    <3> QED BY <3>1, <3>2, <3>3, Zenon
  <2>5. ASSUME NEW close \in BOOLEAN, Abort(s, t, close)
        PROVE  \E e \in Cmd : Goto(s, "remove", t, e) /\ e.kind = "abort" /\ Active(xid[s])
    <3>1. Goto(s, "remove", t, [cmd[s] EXCEPT !.kind = "abort", !.close = close, !.ser = b]) /\ Active(xid[s])
      BY <2>2, <2>5, Zenon DEF Abort
    <3>2. PICK e : e = [cmd[s] EXCEPT !.kind = "abort", !.close = close, !.ser = b]
      OBVIOUS
    <3>3. e \in Cmd /\ e.kind = "abort"
      BY <2>1, <3>2, AbortCmd, Zenon
    <3> QED BY <3>1, <3>2, <3>3, Zenon
  <2> QED BY <2>4, <2>5
<1>4. Moves(s) /\ pc'[s] = "remove" /\ cmd'[s] = c /\ xid' = xid
  BY <1>2, <1>3, GotoMoves DEF Inv, Types, Labels
<1>5. PICK x : x = xid[s]
  OBVIOUS
<1>6. /\ ActiveTyped' /\ ~Active(x)'
      /\ DOMAIN activeTransaction' = DOMAIN activeTransaction \ {x}
      /\ \A y \in DOMAIN activeTransaction \ {x} : activeTransaction'[y] = activeTransaction[y]
  BY <1>1, <1>5, WithoutTyped
<1>7. Touches(x) /\ FateOf(x)'
  BY <1>1, <1>2, <1>5, <1>6 DEF ltVars, Touches, FateOf, Healthy
<1>8. c.kind = "abort" => status[x] # "committed"
  BY <1>2, <1>3, <1>5 DEF FateOf
<1>9. Locals(s)'
  BY <1>1, <1>2, <1>3, <1>4, <1>5, <1>6, <1>8
  DEF Locals, AtRest, Busy, Temporary, Deleting, Changing, Finishing, Closed, Released
<1>10. Types'
  BY <1>1, <1>4, <1>6 DEF Inv, Types, StatusTyped, GlobalTyped, EntriesTyped, Moves
<1>11. Callers'
  BY <1>1, <1>2, <1>4, CallersStay DEF ltVars
<1> QED BY <1>2, <1>4, <1>5, <1>6, <1>7, <1>9, <1>10, <1>11, StepOf

LEMMA AbortAutoAbortedKeeps ==
  ASSUME Inv, NEW s \in Session, NEW t \in Thread, NEW close \in BOOLEAN, AbortAutoAborted(s, t, close)
  PROVE  Inv'
<1>1. /\ activeTransaction' = LT!Without(activeTransaction, xid[s])
      /\ UNCHANGED <<ltVars, status, entries>> /\ Ending(s, t, "abort")
      /\ UnlockGlobal(Serializable(xid[s]), t)
  BY DEF AbortAutoAborted
<1>2. xid[s] # 0 /\ xid[s] \in Xid /\ Of(s, xid[s]) /\ FateOf(xid[s]) /\ pc[s] # "removing"
  BY <1>1, EndingKnown
<1>3. Moves(s) /\ pc'[s] = "idle" /\ cmd'[s] = NoCmd /\ xid'[s] \in {0, xid[s]}
  <2>1. NoCmd \in Cmd
    BY NoCmdTyped
  <2> HIDE DEF NoCmd
  <2> QED BY <1>2, <2>1 DEF AbortAutoAborted, Inv, Types, SessionsTyped, Moves, Alone, OnThread, Labels
<1>4. PICK x : x = xid[s]
  OBVIOUS
<1>5. /\ ActiveTyped' /\ ~Active(x)'
      /\ DOMAIN activeTransaction' = DOMAIN activeTransaction \ {x}
      /\ \A y \in DOMAIN activeTransaction \ {x} : activeTransaction'[y] = activeTransaction[y]
  BY <1>1, <1>4, WithoutTyped
<1>6. Touches(x) /\ FateOf(x)'
  BY <1>1, <1>2, <1>4, <1>5 DEF ltVars, Touches, FateOf, Healthy
<1>7. Locals(s)'
  BY <1>3, IdleLocals
<1>8. Types'
  BY <1>1, <1>3, <1>5, UnlockTyped DEF Inv, Types, StatusTyped, EntriesTyped, Moves
<1>9. Callers'
  BY <1>1, <1>2, <1>3, CallersStay DEF ltVars
<1> QED BY <1>2, <1>3, <1>4, <1>5, <1>6, <1>7, <1>8, <1>9, StepOf

----------------------------------------------------------------------------
(* lt.remove, and the status after it.                                     *)

LEMMA LeavingKnown ==
  ASSUME Inv, NEW s \in Session, pc[s] \in {"remove", "removing", "finish"}
  PROVE  /\ Finishing(s) /\ ~Healthy(xid[s])
         /\ cmd[s].kind # "auto" => ~Active(xid[s])
         /\ pc[s] # "remove" => xid[s] \notin open
BY DEF Inv, Control, Locals, Finishing, Closed, Healthy

LEMMA OneInside ==
  ASSUME Inv, NEW s \in Session, pc[s] = "removing", NEW r \in Session, pc[r] = "removing"
  PROVE  r = s
BY BusyKnown DEF Inv, Control, Callers, Threads

LEMMA RemoveCallKeeps ==
  ASSUME Inv, NEW s \in Session, RemoveCall(s)
  PROVE  Inv'
<1>1. pc[s] = "remove" /\ LT!RemoveCall(on[s], xid[s]) /\ Goto(s, "removing", on[s], cmd[s]) /\ UNCHANGED dbVars
  BY DEF RemoveCall
<1>2. xid[s] # 0 /\ xid[s] \in Xid /\ Of(s, xid[s]) /\ FateOf(xid[s]) /\ on[s] \in Thread
  BY <1>1, BusyKnown
<1>3. Moves(s) /\ pc'[s] = "removing" /\ cmd'[s] = cmd[s] /\ xid' = xid /\ on'[s] = on[s]
  BY <1>1, <1>2, GotoMoves DEF Inv, Types, SessionsTyped, Labels
<1>4. PICK x : x = xid[s]
  OBVIOUS
<1>5. /\ call.by = NoThread /\ call'.by = on[s] /\ call'.xid = x /\ CallShaped'
      /\ open' = open \ {x} /\ Shrinks
  BY <1>1, <1>2, <1>4, RemoveSays DEF Inv, Control, Callers
<1>6. ~Healthy(x) /\ Finishing(s)
  BY <1>1, <1>4, LeavingKnown
<1>7. Touches(x) /\ FateOf(x)' /\ (Active(x)' <=> Active(x))
  BY <1>1, <1>2, <1>4, <1>5, <1>6 DEF dbVars, Shrinks, Touches, FateOf, Active, Healthy
<1>8. Locals(s)'
  BY <1>1, <1>2, <1>3, <1>4, <1>5, <1>6
  DEF Locals, AtRest, Busy, Temporary, Deleting, Changing, Finishing, Closed, Released, dbVars, Active
<1>9. Callers'
  <2>1. ASSUME NEW r \in Session, pc'[r] = "removing"
        PROVE  r = s
    <3>1. ASSUME r # s
          PROVE  FALSE
      <4>1. pc[r] = "removing"
        BY <1>3, <2>1, <3>1 DEF Moves, Alone
      <4> QED BY <1>5, <4>1, BusyKnown DEF Inv, Control, Callers
    <3> QED BY <3>1
  <2> QED BY <1>3, <1>4, <1>5, <2>1 DEF Callers
<1>10. Types'
  BY <1>1, <1>3, SameDb
<1> QED BY <1>2, <1>3, <1>4, <1>7, <1>8, <1>9, <1>10, StepOf

(* An exception leaves the loop of lt.remove: a rolled back statement      *)
(* ends, and so does the commit or abort, whose session keeps or loses the *)
(* transaction.                                                            *)
LEMMA RemoveNextKeeps ==
  ASSUME Inv, NEW s \in Session, RemoveNext(s)
  PROVE  Inv'
<1>1. pc[s] = "removing" /\ LT!RemoveNext(on[s]) /\ UNCHANGED dbVars
  BY DEF RemoveNext
<1>2. xid[s] # 0 /\ xid[s] \in Xid /\ Of(s, xid[s]) /\ FateOf(xid[s]) /\ on[s] \in Thread /\ on[s] # NoThread
  BY <1>1, BusyKnown
<1>3. PICK x : x = xid[s]
  OBVIOUS
<1>4. /\ call.by = on[s] /\ (call' = call \/ call' = LT!Idle)
      /\ call'.by \in {on[s], NoThread} /\ CallShaped' /\ open' = open /\ Shrinks
  BY <1>1, <1>2, RemoveSays DEF Inv, Control, Callers
<1>5. ~Healthy(x) /\ Finishing(s) /\ Locals(s)
  BY <1>1, <1>3, LeavingKnown DEF Inv, Control
<1>6. Touches(x) /\ FateOf(x)' /\ (Active(x)' <=> Active(x))
  BY <1>1, <1>2, <1>3, <1>4, <1>5 DEF dbVars, Shrinks, Touches, FateOf, Active, Healthy
<1>7. CASE call' # LT!Idle
  <2>1. UNCHANGED sessionVars /\ call' = call
    BY <1>4, <1>7 DEF RemoveNext
  <2>2. Moves(s) /\ xid'[s] = x /\ Types'
    BY <1>1, <1>3, <2>1 DEF sessionVars, dbVars, Moves, Alone, OnThread, Inv, Control, Threads,
       Types, SessionsTyped, StatusTyped, ActiveTyped, GlobalTyped, EntriesTyped
  <2>3. Locals(s)'
    BY <1>1, <1>4, <1>5, <2>1
    DEF sessionVars, dbVars, Locals, AtRest, Busy, Temporary, Deleting, Changing, Finishing, Closed, Released, Healthy, Active
  <2>4. Callers'
    BY <2>1 DEF sessionVars, Inv, Control, Callers, CallShaped
  <2> QED BY <1>2, <1>3, <1>6, <2>2, <2>3, <2>4, StepOf
<1>8. CASE call' = LT!Idle
  <2>1. /\ cmd[s].kind = "auto" => StatementEnds(s, on[s], TRUE)
        /\ cmd[s].kind # "auto" => TransactionEnds(s, TRUE)
    BY <1>8 DEF RemoveNext
  <2>2. Moves(s) /\ xid'[s] \in {0, x} /\ (Active(x) => xid'[s] = x) /\ Locals(s)' /\ pc'[s] # "removing"
    <3>1. CASE cmd[s].kind = "auto"
      BY <1>2, <1>3, <2>1, <3>1, StatementEndsMoves, StatementLocals DEF Inv, Types
    <3>2. CASE cmd[s].kind # "auto"
      <4>1. ~Active(x)
        BY <1>1, <1>3, <3>2, LeavingKnown
      <4> QED BY <1>2, <1>3, <2>1, <3>2, <4>1, TransactionEndsMoves, IdleLocals DEF Inv, Types
    <3> QED BY <3>1, <3>2
  <2>3. Callers'
    <3>1. \A r \in Session : pc'[r] # "removing"
      BY <1>1, <2>2, OneInside DEF Moves, Alone
    <3>2. call'.by = NoThread
      BY <1>8 DEF LT!Idle
    <3> QED BY <1>4, <3>1, <3>2, ThreadsAreDistinct DEF Callers
  <2>4. Types'
    BY <1>1, <2>2, SameDb
  <2> QED BY <1>2, <1>3, <1>6, <2>2, <2>3, <2>4, StepOf
<1> QED BY <1>7, <1>8

LEMMA RemoveReturnKeeps ==
  ASSUME Inv, NEW s \in Session, RemoveReturn(s)
  PROVE  Inv'
<1>1. pc[s] = "removing" /\ LT!RemoveReturn(on[s]) /\ Goto(s, "finish", on[s], cmd[s]) /\ UNCHANGED dbVars
  BY DEF RemoveReturn
<1>2. xid[s] # 0 /\ xid[s] \in Xid /\ Of(s, xid[s]) /\ FateOf(xid[s]) /\ on[s] \in Thread
  BY <1>1, BusyKnown
<1>3. Moves(s) /\ pc'[s] = "finish" /\ cmd'[s] = cmd[s] /\ xid' = xid
  BY <1>1, <1>2, GotoMoves DEF Inv, Types, SessionsTyped, Labels
<1>4. PICK x : x = xid[s]
  OBVIOUS
<1>5. /\ call'.by = NoThread /\ CallShaped' /\ open' = open /\ Shrinks
      /\ x \notin DOMAIN x2u' /\ x \notin DOMAIN waitU'
  BY <1>1, <1>2, <1>4, RemoveSays DEF Inv, Control, Callers
<1>6. ~Healthy(x) /\ Finishing(s) /\ x \notin open
  BY <1>1, <1>4, LeavingKnown
<1>7. Touches(x) /\ FateOf(x)' /\ (Active(x)' <=> Active(x))
  BY <1>1, <1>2, <1>4, <1>5, <1>6 DEF dbVars, Shrinks, Touches, FateOf, Active, Healthy
<1>8. Locals(s)'
  BY <1>1, <1>2, <1>3, <1>4, <1>5, <1>6
  DEF Locals, AtRest, Busy, Temporary, Deleting, Changing, Finishing, Closed, Released, dbVars, Active
<1>9. Callers'
  <2>1. \A r \in Session : pc'[r] # "removing"
    BY <1>1, <1>3, OneInside DEF Moves, Alone
  <2> QED BY <1>5, <2>1, ThreadsAreDistinct DEF Callers
<1>10. Types'
  BY <1>1, <1>3, SameDb
<1> QED BY <1>2, <1>3, <1>4, <1>7, <1>8, <1>9, <1>10, StepOf

LEMMA FinishKeeps ==
  ASSUME Inv, NEW s \in Session, FinishCommit(s) \/ FinishAbort(s)
  PROVE  Inv'
<1>1. /\ pc[s] = "finish" /\ cmd[s].kind # "auto" /\ UNCHANGED <<ltVars, activeTransaction, entries>>
      /\ \E field \in {"committed", "aborted"} : UpdateXID(xid[s], field)
      /\ \E threw : TransactionEnds(s, threw)
      /\ globalLock' = globalLock \/ UnlockGlobal(cmd[s].ser, on[s])
  BY DEF FinishCommit, FinishAbort
<1>2. xid[s] # 0 /\ xid[s] \in Xid /\ Of(s, xid[s]) /\ FateOf(xid[s]) /\ on[s] \in Thread
  BY <1>1, BusyKnown
<1>3. Moves(s) /\ pc'[s] = "idle" /\ cmd'[s] = NoCmd /\ xid'[s] \in {0, xid[s]}
  BY <1>1, TransactionEndsMoves DEF Inv, Types
<1>4. PICK x : x = xid[s]
  OBVIOUS
<1>5. ~Active(x)
  BY <1>1, <1>4, LeavingKnown
<1>6. StatusTyped' /\ status'[x] \in {"committed", "aborted"} /\ \A y \in Xid \ {x} : status'[y] = status[y]
  BY <1>1, <1>2, <1>4 DEF UpdateXID, Inv, Types, StatusTyped
<1>7. Touches(x) /\ FateOf(x)' /\ ~Active(x)'
  BY <1>1, <1>5, <1>6 DEF ltVars, Touches, FateOf, Active, Healthy
<1>8. Locals(s)'
  BY <1>3, IdleLocals
<1>9. Types'
  BY <1>1, <1>2, <1>3, <1>6, UnlockTyped DEF Inv, Types, ActiveTyped, GlobalTyped, EntriesTyped, Moves
<1>10. Callers'
  BY <1>1, <1>3, CallersStay DEF ltVars
<1> QED BY <1>2, <1>3, <1>4, <1>7, <1>8, <1>9, <1>10, StepOf

LEMMA FinishAutoKeeps ==
  ASSUME Inv, NEW s \in Session, FinishAuto(s)
  PROVE  Inv'
<1>1. /\ pc[s] = "finish" /\ cmd[s].kind = "auto" /\ UNCHANGED <<ltVars, entries>>
      /\ UpdateXID(xid[s], "aborted") /\ UnlockGlobal(cmd[s].ser, on[s])
      /\ StatementEnds(s, on[s], TRUE)
  BY DEF FinishAuto
<1>2. xid[s] # 0 /\ xid[s] \in Xid /\ Of(s, xid[s]) /\ FateOf(xid[s]) /\ on[s] \in Thread
  BY <1>1, BusyKnown
<1>3. Moves(s) /\ xid' = xid /\ Locals(s)' /\ pc'[s] # "removing"
  BY <1>1, <1>2, StatementEndsMoves, StatementLocals DEF Inv, Types
<1>4. PICK x : x = xid[s]
  OBVIOUS
<1>5. /\ x \in DOMAIN activeTransaction /\ activeTransaction[x].err
      /\ x \notin open /\ x \notin DOMAIN x2u /\ x \notin DOMAIN waitU
  BY <1>1, <1>4 DEF Inv, Control, Locals, Finishing, Closed, Released, Active
<1>6. PICK b \in BOOLEAN : b = ~UnlockThrows(cmd[s].ser, on[s])
  BY Zenon DEF UnlockThrows
<1>7. activeTransaction' = [activeTransaction EXCEPT ![x].autoAborted = b]
  BY <1>4, <1>6, Zenon DEF FinishAuto
<1>8. /\ ActiveTyped' /\ DOMAIN activeTransaction' = DOMAIN activeTransaction
      /\ activeTransaction'[x].err
      /\ \A y \in DOMAIN activeTransaction \ {x} : activeTransaction'[y] = activeTransaction[y]
  <2>1. activeTransaction[x] \in Transaction /\ activeTransaction[x].xid = x
    BY <1>5 DEF Inv, Types, ActiveTyped
  <2>2. PICK e : e = [activeTransaction[x] EXCEPT !.autoAborted = b]
    OBVIOUS
  <2>3. e \in Transaction /\ e.err /\ e.xid = x
    BY <1>5, <2>1, <2>2 DEF Transaction
  <2>4. activeTransaction' = [activeTransaction EXCEPT ![x] = e]
    BY <1>7, <2>2
  <2> QED BY <1>5, <2>3, <2>4 DEF Inv, Types, ActiveTyped
<1>9. StatusTyped' /\ status'[x] = "aborted" /\ \A y \in Xid \ {x} : status'[y] = status[y]
  BY <1>1, <1>2, <1>4 DEF UpdateXID, Inv, Types, StatusTyped
<1>10. Touches(x) /\ FateOf(x)'
  BY <1>1, <1>5, <1>8, <1>9 DEF ltVars, Touches, FateOf, Active, Healthy
<1>11. Types'
  BY <1>1, <1>2, <1>3, <1>8, <1>9, UnlockTyped DEF Inv, Types, EntriesTyped, Moves
<1>12. Callers'
  BY <1>1, <1>3, CallersStay DEF ltVars
<1> QED BY <1>2, <1>3, <1>4, <1>10, <1>11, <1>12, StepOf

(* The daemon takes rows and waits away, and nothing else.                 *)
LEMMA TimeoutsKeep ==
  ASSUME Inv, Timeouts
  PROVE  Inv'
<1>1. /\ call.by \notin Thread /\ call'.by \notin Thread /\ CallShaped' /\ open' = open /\ Shrinks
      /\ UNCHANGED dbVars /\ UNCHANGED sessionVars
  BY TimeoutSays DEF Inv, Control, Callers, Timeouts
<1>2. Types' /\ Threads'
  BY <1>1 DEF dbVars, sessionVars, Inv, Control, Types, Threads, SessionsTyped, StatusTyped, ActiveTyped,
              GlobalTyped, EntriesTyped
<1>3. Callers'
  <2>1. \A s \in Session : pc[s] # "removing"
    BY <1>1, BusyKnown DEF Inv, Control, Callers
  <2> QED BY <1>1, <2>1 DEF sessionVars, Callers
<1>4. ASSUME NEW s \in Session
      PROVE  Locals(s)'
  <2>1. Locals(s)
    BY DEF Inv, Control
  <2> QED BY <1>1, <2>1
          DEF dbVars, sessionVars, Shrinks, Locals, AtRest, Busy, Temporary, Deleting, Changing, Finishing,
              Closed, Released, Healthy, Active
<1>5. Fates'
  BY <1>1 DEF dbVars, sessionVars, Shrinks, Inv, Fates, Owned, OneSessionEach, Undecided, StillOpen, RolledBack,
              Healthy, Active
<1> QED BY <1>2, <1>3, <1>4, <1>5 DEF Inv, Control

----------------------------------------------------------------------------
LEMMA InvInit == Init => Inv
<1> SUFFICES ASSUME Init PROVE Inv
  OBVIOUS
<1>1. LT!Init /\ call = LT!Idle /\ open = Xid
  BY DEF Init, LT!Init
<1>2. NoCmd \in Cmd
  BY NoCmdTyped
<1>3. Types
  <2>1. StatusTyped /\ ActiveTyped /\ GlobalTyped
    BY ThreadsAreDistinct DEF Init, Free, StatusTyped, ActiveTyped, GlobalTyped
  <2>2. EntriesTyped
    BY BoundsAreNat DEF Init, EntriesTyped, SuperXid
  <2>3. SessionsTyped
    BY <1>2, Zenon DEF Init, SessionsTyped, Labels
  <2> QED BY <2>1, <2>2, <2>3 DEF Types
<1>4. Threads /\ \A s \in Session : pc[s] = "idle" /\ cmd[s] = NoCmd /\ xid[s] = 0
  BY DEF Init, Threads
<1>5. Callers
  BY <1>1, <1>4, ThreadsAreDistinct DEF Callers, CallShaped, LT!Idle
<1>6. \A s \in Session : Locals(s)
  BY <1>4 DEF Locals, AtRest, Busy, Temporary, Deleting, Changing, Finishing, Closed, Released
<1>7. Fates
  BY <1>1, <1>4 DEF Init, Fates, Owned, OneSessionEach, Undecided, StillOpen, RolledBack
<1> QED BY <1>3, <1>4, <1>5, <1>6, <1>7 DEF Inv, Control

LEMMA InvNext == Inv /\ [Next]_vars => Inv'
<1> SUFFICES ASSUME Inv, [Next]_vars PROVE Inv'
  OBVIOUS
<1>1. ASSUME NEW s \in Session, Statement(s)
      PROVE  Inv'
  <2>1. ASSUME NEW t \in Thread, NEW level, NEW tmp \in BOOLEAN, Begin(s, t, level, tmp),
               level \in Level[s] \/ level = "RC"
        PROVE  Inv'
    BY <2>1, BeginKeeps, LevelsAreLevels
  <2>2. ASSUME NEW threw \in BOOLEAN, OtherStatement(s, threw)
        PROVE  Inv'
    BY <2>2, OtherStatementKeeps
  <2>3. ASSUME NEW t \in Thread, NEW u \in Uid, Insert(s, t, u) \/ DeleteLook(s, t, u)
        PROVE  Inv'
    BY <2>3, InsertKeeps, DeleteLookKeeps
  <2>4. CASE DeleteLock(s) \/ DeleteDeadlock(s) \/ DeleteSkip(s) \/ DeleteCheck(s) \/ DeleteWrite(s)
    BY <2>4, DeleteLockKeeps, AutoAbortKeeps, DeleteCheckKeeps, DeleteWriteKeeps
  <2> QED BY <1>1, <2>1, <2>2, <2>3, <2>4 DEF Statement
<1>2. ASSUME NEW s \in Session, EndOfTransaction(s)
      PROVE  Inv'
  <2>1. ASSUME NEW t \in Thread, CommitRefused(s, t) \/ \E close \in BOOLEAN : AbortLost(s, t, close)
        PROVE  Inv'
    BY <2>1, LetGoKeeps
  <2>2. ASSUME NEW t \in Thread, Commit(s, t) \/ \E close \in BOOLEAN : Abort(s, t, close)
        PROVE  Inv'
    BY <2>2, LeaveKeeps
  <2>3. ASSUME NEW t \in Thread, NEW close \in BOOLEAN, AbortAutoAborted(s, t, close)
        PROVE  Inv'
    BY <2>3, AbortAutoAbortedKeeps
  <2>4. CASE RemoveCall(s) \/ RemoveNext(s) \/ RemoveReturn(s) \/ FinishCommit(s) \/ FinishAbort(s) \/ FinishAuto(s)
    BY <2>4, RemoveCallKeeps, RemoveNextKeeps, RemoveReturnKeeps, FinishKeeps, FinishAutoKeeps
  <2> QED BY <1>2, <2>1, <2>2, <2>3, <2>4 DEF EndOfTransaction
<1>3. CASE UNCHANGED vars
  <2>1. UNCHANGED ltVars /\ UNCHANGED dbVars /\ UNCHANGED sessionVars
    BY <1>3 DEF vars
  <2>2. Types'
    BY <2>1 DEF dbVars, sessionVars, Inv, Types, SessionsTyped, StatusTyped, ActiveTyped, GlobalTyped, EntriesTyped
  <2>3. Threads' /\ Callers'
    BY <2>1 DEF ltVars, sessionVars, Inv, Control, Threads, Callers, CallShaped
  <2>4. ASSUME NEW s \in Session
        PROVE  Locals(s)'
    <3>1. Locals(s)
      BY DEF Inv, Control
    <3> QED BY <2>1, <3>1
            DEF ltVars, dbVars, sessionVars, Locals, AtRest, Busy, Temporary, Deleting, Changing, Finishing,
                Closed, Released, Healthy, Active
  <2>5. Fates'
    BY <2>1 DEF ltVars, dbVars, sessionVars, Inv, Fates, Owned, OneSessionEach, Undecided, StillOpen, RolledBack,
                Healthy, Active
  <2> QED BY <2>2, <2>3, <2>4, <2>5 DEF Inv, Control
<1> QED BY <1>1, <1>2, <1>3, TimeoutsKeep DEF Next

LEMMA SpecInv == Spec => []Inv
BY InvInit, InvNext, PTL DEF Spec

----------------------------------------------------------------------------
(* What the invariant says.                                                *)

(* The map, the lock, the rows and the sessions have their types, and a    *)
(* session is on a thread exactly while it executes, a thread of its own,  *)
(* whatever the clients ask and whenever waits grow old                    *)
(* (VersionManagerImpl.java:20, Executor.java:11).                         *)
THEOREM ManagerTyped == Spec => []TypeOK
<1>1. Inv => TypeOK
  <2> SUFFICES ASSUME Inv PROVE TypeOK
    OBVIOUS
  <2>1. /\ LT!IsMap(activeTransaction, Xid,
             [xid : Xid, level : {"RU", "RC", "RR", "SER"}, snapshot : SUBSET Xid,
              err : BOOLEAN, autoAborted : BOOLEAN])
        /\ \A x \in DOMAIN activeTransaction : activeTransaction[x].xid = x
        /\ LT!IsMap(entries, Uid, [xmin : Xid \cup {0}, xmax : Xid \cup {0}])
    BY DEF LT!IsMap, Inv, Types, ActiveTyped, Transaction, EntriesTyped
  <2>2. ASSUME NEW s \in Session
        PROVE  /\ pc[s] = "idle" <=> on[s] = NoThread
               /\ pc[s] = "removing" <=> call.by \in Thread /\ call.by = on[s]
               /\ pc[s] \in {"lock", "check", "write"} => cmd[s].row \in DOMAIN entries
               /\ \A r \in Session \ {s} : on[r] = on[s] => on[s] = NoThread
    <3>1. pc[s] = "removing" => call.by \in Thread /\ call.by = on[s]
      BY BusyKnown DEF Inv, Control, Callers
    <3>2. call.by \in Thread /\ call.by = on[s] => pc[s] = "removing"
      BY ThreadsAreDistinct DEF Inv, Control, Callers, Threads
    <3>3. pc[s] \in {"lock", "check", "write"} => cmd[s].row \in DOMAIN entries
      BY DEF Inv, Control, Locals, Deleting
    <3> QED BY <3>1, <3>2, <3>3 DEF Inv, Control, Threads
  <2> QED BY <2>1, <2>2 DEF TypeOK, Inv, Types, StatusTyped, GlobalTyped, SessionsTyped, Labels, Cmd
<1> QED BY <1>1, SpecInv, PTL

(* Every transaction in the map has one session, which can still end it,   *)
(* after exceptions too (Executor.java:40, 47, 87).                        *)
THEOREM OneSessionOfEach == Spec => []OneSessionEach
<1>1. Inv => OneSessionEach
  BY DEF Inv, Fates, Owned
<1> QED BY <1>1, SpecInv, PTL

(* What the lock table takes for granted, that a transaction asks for no   *)
(* row after it gave its rows back, the version manager sees to: it has    *)
(* marked the transaction or taken it out of the map by then.              *)
THEOREM RequestsAreOpen == Spec => []LockRequestsAreOpen
<1>1. Inv => LockRequestsAreOpen
  BY BusyKnown DEF Inv, Control, Locals, Changing, Fates, StillOpen, LockRequestsAreOpen
<1> QED BY <1>1, SpecInv, PTL

(* abort trusts autoAborted and does no more than clean the map            *)
(* (VersionManagerImpl.java:225): the rollback is then complete.           *)
THEOREM AutoAbortedRolledBack == Spec => []AutoAbortedIsRolledBack
<1>1. Inv => AutoAbortedIsRolledBack
  BY DEF Inv, Fates, RolledBack, AutoAbortedIsRolledBack
<1> QED BY <1>1, SpecInv, PTL

----------------------------------------------------------------------------
(* What a step may do to a status, to a transaction in the map, and to     *)
(* what a session has.                                                     *)

LEMMA StatusChanges ==
  ASSUME [Next]_vars
  PROVE  \/ status' = status
         \/ \E x \in Xid : status[x] = "none" /\ UpdateXID(x, "active")
         \/ \E s \in Session : FinishCommit(s) \/ FinishAbort(s) \/ FinishAuto(s)
<1>1. ASSUME NEW s \in Session, Statement(s)
      PROVE  status' = status \/ \E x \in Xid : status[x] = "none" /\ UpdateXID(x, "active")
  <2>1. ASSUME NEW t, NEW level, NEW tmp, Begin(s, t, level, tmp)
        PROVE  \E x \in Xid : status[x] = "none" /\ UpdateXID(x, "active")
    BY <2>1 DEF Begin
  <2>2. ASSUME NEW t, NEW u, Insert(s, t, u) \/ DeleteLook(s, t, u)
        PROVE  status' = status
    BY <2>2 DEF Insert, DeleteLook, dbVars
  <2>3. ASSUME NEW threw, OtherStatement(s, threw)
        PROVE  status' = status
    BY <2>3 DEF OtherStatement, dbVars
  <2>4. CASE DeleteLock(s) \/ DeleteDeadlock(s) \/ DeleteSkip(s) \/ DeleteCheck(s) \/ DeleteWrite(s)
    BY <2>4 DEF DeleteLock, DeleteDeadlock, DeleteSkip, AutoAbort, DeleteCheck, DeleteWrite, dbVars
  <2> QED BY <1>1, <2>1, <2>2, <2>3, <2>4 DEF Statement
<1>2. ASSUME NEW s \in Session, EndOfTransaction(s)
      PROVE  status' = status \/ FinishCommit(s) \/ FinishAbort(s) \/ FinishAuto(s)
  BY <1>2 DEF EndOfTransaction, CommitRefused, Commit, AbortLost, AbortAutoAborted, Abort, RemoveCall, RemoveNext,
              RemoveReturn, dbVars
<1>3. CASE Timeouts \/ UNCHANGED vars
  BY <1>3 DEF Timeouts, vars, dbVars
<1> QED BY <1>1, <1>2, <1>3 DEF Next

LEMMA FinishSays ==
  ASSUME Inv, NEW s \in Session, FinishCommit(s) \/ FinishAbort(s) \/ FinishAuto(s)
  PROVE  /\ xid[s] \in Xid /\ \A y \in Xid \ {xid[s]} : status'[y] = status[y]
         /\ status'[xid[s]] \in {"committed", "aborted"}
         /\ status'[xid[s]] = "committed" \/ status[xid[s]] # "committed"
<1>1. pc[s] = "finish" /\ \E field \in {"committed", "aborted"} : UpdateXID(xid[s], field)
  BY DEF FinishCommit, FinishAbort, FinishAuto
<1>2. xid[s] \in Xid /\ FateOf(xid[s]) /\ Finishing(s)
  BY <1>1, BusyKnown, LeavingKnown
<1>3. CASE FinishCommit(s)
  BY <1>2, <1>3 DEF FinishCommit, UpdateXID, Inv, Types, StatusTyped
<1>4. CASE FinishAbort(s) \/ FinishAuto(s)
  <2>1. cmd[s].kind \in {"abort", "auto"}
    BY <1>4 DEF FinishAbort, FinishAuto
  <2>2. status[xid[s]] # "committed"
    BY <1>1, <1>2, <2>1 DEF Finishing, FateOf
  <2> QED BY <1>1, <1>2, <2>2 DEF UpdateXID, Inv, Types, StatusTyped
<1> QED BY <1>3, <1>4

LEMMA CommittedStep ==
  ASSUME Inv, [Next]_vars, NEW x \in Xid, status[x] = "committed"
  PROVE  status'[x] = "committed"
<1>1. CASE status' = status
  BY <1>1
<1>2. ASSUME NEW y \in Xid, status[y] = "none", UpdateXID(y, "active")
      PROVE  status'[x] = "committed"
  BY <1>2 DEF UpdateXID, Inv, Types, StatusTyped
<1>3. ASSUME NEW s \in Session, FinishCommit(s) \/ FinishAbort(s) \/ FinishAuto(s)
      PROVE  status'[x] = "committed"
  BY <1>3, FinishSays
<1> QED BY <1>1, <1>2, <1>3, StatusChanges

(* Once committed, a transaction stays so: a second commit writes the same *)
(* byte, and abort finds nothing in the map                                *)
(* (VersionManagerImpl.java:200, 219).                                     *)
THEOREM CommittedStays == Spec => CommittedIsFinal
<1>1. Inv /\ [Next]_vars => \A x \in Xid : status[x] = "committed" => status'[x] = "committed"
  BY CommittedStep
<1>2. Spec => [][\A x \in Xid : status[x] = "committed" => status'[x] = "committed"]_vars
  BY <1>1, SpecInv, PTL DEF Spec
<1> QED BY <1>2 DEF CommittedIsFinal

LEMMA LettingGo ==
  ASSUME Inv, [Next]_vars, NEW s \in Session, xid[s] # 0, xid'[s] = 0
  PROVE  \/ FinishCommit(s) \/ FinishAbort(s)
         \/ pc[s] # "idle" /\ TransactionEnds(s, TRUE)
         \/ \E t \in Thread : CommitRefused(s, t)
         \/ \E t \in Thread, close \in BOOLEAN : AbortLost(s, t, close) \/ AbortAutoAborted(s, t, close)
<1>1. ASSUME NEW r \in Session, Statement(r)
      PROVE  FALSE
  <2>1. ASSUME NEW label, NEW t, NEW c, Goto(r, label, t, c)
        PROVE  FALSE
    BY <2>1 DEF Goto
  <2>2. ASSUME NEW t, NEW threw, StatementEnds(r, t, threw)
        PROVE  FALSE
    BY <2>1, <2>2 DEF StatementEnds
  <2>7. ASSUME NEW t, RowEnds(r, t)
        PROVE  FALSE
    BY <2>1, <2>7 DEF RowEnds
  <2>3. ASSUME NEW t, NEW level, NEW tmp, Begin(r, t, level, tmp)
        PROVE  FALSE
    <3>1. PICK x \in Xid : xid[r] = 0 /\ xid' = [xid EXCEPT ![r] = x]
      BY <2>3 DEF Begin
    <3> QED BY <3>1 DEF Inv, Types, SessionsTyped
  <2>4. ASSUME NEW t, NEW u, Insert(r, t, u) \/ DeleteLook(r, t, u)
        PROVE  FALSE
    BY <2>1, <2>7, <2>4 DEF Insert, DeleteLook
  <2>5. ASSUME NEW threw, OtherStatement(r, threw)
        PROVE  FALSE
    BY <2>2, <2>5 DEF OtherStatement
  <2>6. CASE DeleteLock(r) \/ DeleteDeadlock(r) \/ DeleteSkip(r) \/ DeleteCheck(r) \/ DeleteWrite(r)
    BY <2>1, <2>7, <2>6 DEF DeleteLock, DeleteDeadlock, DeleteSkip, AutoAbort, DeleteCheck, DeleteWrite
  <2> QED BY <1>1, <2>3, <2>4, <2>5, <2>6 DEF Statement
<1>2. ASSUME NEW r \in Session, EndOfTransaction(r), r # s
      PROVE  FALSE
  <2>1. xid' = xid \/ \E n : xid' = [xid EXCEPT ![r] = n]
    BY <1>2 DEF EndOfTransaction, CommitRefused, Commit, AbortLost, AbortAutoAborted, Abort, RemoveCall, RemoveNext,
                RemoveReturn, FinishCommit, FinishAbort, FinishAuto, StatementEnds, TransactionEnds, Goto, sessionVars
  <2> QED BY <1>2, <2>1 DEF Inv, Types, SessionsTyped
<1>3. ASSUME EndOfTransaction(s)
      PROVE  \/ FinishCommit(s) \/ FinishAbort(s)
             \/ pc[s] # "idle" /\ TransactionEnds(s, TRUE)
             \/ \E t \in Thread : CommitRefused(s, t)
             \/ \E t \in Thread, close \in BOOLEAN : AbortLost(s, t, close) \/ AbortAutoAborted(s, t, close)
  BY <1>3 DEF EndOfTransaction, Commit, Abort, RemoveCall, RemoveNext, RemoveReturn, FinishAuto,
              StatementEnds, Goto, sessionVars
<1>4. CASE Timeouts \/ UNCHANGED vars
  BY <1>4 DEF Timeouts, vars, sessionVars
<1> QED BY <1>1, <1>2, <1>3, <1>4 DEF Next

(* A session forgets its transaction only once the status is written, but  *)
(* for a connection that is closed and for one whose transaction was       *)
(* already out of the map (Executor.java:40, 47).                          *)
THEOREM FateAlwaysDecided == Spec => FateDecided
<1> DEFINE Decided(s) ==
      xid[s] # 0 /\ xid'[s] = 0 /\ ~cmd[s].close
        => status'[xid[s]] \in {"committed", "aborted"} \/ (pc[s] = "idle" /\ ~Active(xid[s]))
<1>1. ASSUME Inv, [Next]_vars, NEW s \in Session
      PROVE  Decided(s)
  <2> SUFFICES ASSUME xid[s] # 0, xid'[s] = 0, ~cmd[s].close
               PROVE  status'[xid[s]] \in {"committed", "aborted"} \/ (pc[s] = "idle" /\ ~Active(xid[s]))
    OBVIOUS
  <2>1. CASE FinishCommit(s) \/ FinishAbort(s)
    BY <1>1, <2>1, FinishSays
  <2>2. CASE TransactionEnds(s, TRUE)
    BY <1>1, <2>2, TransactionEndsMoves DEF Inv, Types
  <2>3. ASSUME NEW t \in Thread, CommitRefused(s, t)
        PROVE  FALSE
    BY <1>1, <2>3, TransactionEndsMoves DEF CommitRefused, Inv, Types
  <2>4. ASSUME NEW t \in Thread, NEW close \in BOOLEAN, AbortLost(s, t, close)
        PROVE  pc[s] = "idle" /\ ~Active(xid[s])
    BY <1>1, <2>4 DEF AbortLost, Inv, Types, SessionsTyped
  <2>5. ASSUME NEW t \in Thread, NEW close \in BOOLEAN, AbortAutoAborted(s, t, close)
        PROVE  status'[xid[s]] = "aborted"
    BY <1>1, <2>5 DEF AbortAutoAborted, Active, Inv, Fates, RolledBack
  <2> QED BY <1>1, <2>1, <2>2, <2>3, <2>4, <2>5, LettingGo
<1>2. Inv /\ [Next]_vars => \A s \in Session : Decided(s)
  BY <1>1
<1> HIDE DEF Decided
<1>3. Spec => [][\A s \in Session : Decided(s)]_vars
  BY <1>2, SpecInv, PTL DEF Spec
<1> QED BY <1>3 DEF FateDecided, Decided

----------------------------------------------------------------------------
(* The map of transactions: a transaction keeps its level and its snapshot *)
(* for as long as it is in the map.                                        *)

MapBegins(x) ==
  \E level : status[x] = "none" /\ activeTransaction' = LT!Put(activeTransaction, x, NewTransaction(x, level))
MapMarks(x) ==
  /\ x \in DOMAIN activeTransaction
  /\ \/ activeTransaction' = [activeTransaction EXCEPT ![x].err = TRUE]
     \/ \E b : activeTransaction' = [activeTransaction EXCEPT ![x].autoAborted = b]

LEMMA MapSteps ==
  ASSUME Inv, [Next]_vars
  PROVE  \/ activeTransaction' = activeTransaction
         \/ \E x \in Xid : MapBegins(x) \/ MapMarks(x) \/ activeTransaction' = LT!Without(activeTransaction, x)
<1>1. ASSUME NEW s \in Session, Statement(s)
      PROVE  activeTransaction' = activeTransaction \/ \E x \in Xid : MapBegins(x) \/ MapMarks(x)
  <2>1. ASSUME NEW t, NEW level, NEW tmp, Begin(s, t, level, tmp)
        PROVE  \E x \in Xid : MapBegins(x)
    BY <2>1 DEF Begin, MapBegins
  <2>2. ASSUME NEW t, NEW u, Insert(s, t, u) \/ DeleteLook(s, t, u)
        PROVE  activeTransaction' = activeTransaction
    BY <2>2 DEF Insert, DeleteLook, dbVars
  <2>3. ASSUME NEW threw, OtherStatement(s, threw)
        PROVE  activeTransaction' = activeTransaction
    BY <2>3 DEF OtherStatement, dbVars
  <2>4. CASE DeleteDeadlock(s) \/ DeleteSkip(s)
    <3>1. pc[s] \in {"lock", "check"} /\ activeTransaction' = [activeTransaction EXCEPT ![xid[s]].err = TRUE]
      BY <2>4 DEF DeleteDeadlock, DeleteSkip, AutoAbort
    <3>2. xid[s] \in Xid /\ xid[s] \in DOMAIN activeTransaction
      BY <3>1, BusyKnown DEF Inv, Control, Locals, Changing, Healthy, Active
    <3> QED BY <3>1, <3>2 DEF MapMarks
  <2>5. CASE DeleteLock(s) \/ DeleteCheck(s) \/ DeleteWrite(s)
    BY <2>5 DEF DeleteLock, DeleteCheck, DeleteWrite, dbVars
  <2> QED BY <1>1, <2>1, <2>2, <2>3, <2>4, <2>5 DEF Statement
<1>2. ASSUME NEW s \in Session, EndOfTransaction(s)
      PROVE  \/ activeTransaction' = activeTransaction
             \/ \E x \in Xid : MapMarks(x) \/ activeTransaction' = LT!Without(activeTransaction, x)
  <2>1. ASSUME NEW t \in Thread, NEW close,
               Commit(s, t) \/ AbortAutoAborted(s, t, close) \/ Abort(s, t, close)
        PROVE  \E x \in Xid : activeTransaction' = LT!Without(activeTransaction, x)
    <3>1. activeTransaction' = LT!Without(activeTransaction, xid[s]) /\ (Ending(s, t, "commit") \/ Ending(s, t, "abort"))
      BY <2>1 DEF Commit, AbortAutoAborted, Abort
    <3> QED BY <3>1, EndingKnown
  <2>2. CASE FinishAuto(s)
    <3>1. pc[s] = "finish" /\ cmd[s].kind = "auto"
      BY <2>2 DEF FinishAuto
    <3>2. xid[s] \in Xid /\ xid[s] \in DOMAIN activeTransaction
      BY <3>1, BusyKnown, LeavingKnown DEF Finishing, Active
    <3> QED BY <2>2, <3>2 DEF FinishAuto, MapMarks
  <2>3. CASE RemoveCall(s) \/ RemoveNext(s) \/ RemoveReturn(s) \/ FinishCommit(s) \/ FinishAbort(s)
    BY <2>3 DEF RemoveCall, RemoveNext, RemoveReturn, FinishCommit, FinishAbort, dbVars
  <2>4. ASSUME NEW t, NEW close, CommitRefused(s, t) \/ AbortLost(s, t, close)
        PROVE  activeTransaction' = activeTransaction
    BY <2>4 DEF CommitRefused, AbortLost, dbVars
  <2> QED BY <1>2, <2>1, <2>2, <2>3, <2>4 DEF EndOfTransaction
<1>3. CASE Timeouts \/ UNCHANGED vars
  BY <1>3 DEF Timeouts, vars, dbVars
<1> QED BY <1>1, <1>2, <1>3 DEF Next

LEMMA MapChanges ==
  ASSUME Inv, [Next]_vars, NEW x \in DOMAIN activeTransaction'
  PROVE  \/ status[x] = "none"
         \/ /\ x \in DOMAIN activeTransaction
            /\ activeTransaction'[x].level = activeTransaction[x].level
            /\ activeTransaction'[x].snapshot = activeTransaction[x].snapshot
            /\ activeTransaction'[x].xid = activeTransaction[x].xid
<1>1. CASE activeTransaction' = activeTransaction
  BY <1>1
<1>2. ASSUME NEW y \in Xid, MapBegins(y)
      PROVE  \/ status[x] = "none"
             \/ x \in DOMAIN activeTransaction /\ activeTransaction'[x] = activeTransaction[x]
  BY <1>2 DEF MapBegins, LT!Put
<1>3. ASSUME NEW y \in Xid, activeTransaction' = LT!Without(activeTransaction, y)
      PROVE  x \in DOMAIN activeTransaction /\ activeTransaction'[x] = activeTransaction[x]
  BY <1>3 DEF LT!Without
<1>4. ASSUME NEW y \in Xid, MapMarks(y)
      PROVE  /\ x \in DOMAIN activeTransaction
             /\ activeTransaction'[x].level = activeTransaction[x].level
             /\ activeTransaction'[x].snapshot = activeTransaction[x].snapshot
             /\ activeTransaction'[x].xid = activeTransaction[x].xid
  <2>1. activeTransaction[y] \in Transaction /\ y \in DOMAIN activeTransaction
    BY <1>4 DEF MapMarks, Inv, Types, ActiveTyped
  <2>2. PICK e : /\ e = [activeTransaction[y] EXCEPT !.err = TRUE]
                      \/ \E b : e = [activeTransaction[y] EXCEPT !.autoAborted = b]
                 /\ activeTransaction' = [activeTransaction EXCEPT ![y] = e]
    BY <1>4 DEF MapMarks
  <2>3. /\ e.level = activeTransaction[y].level /\ e.snapshot = activeTransaction[y].snapshot
        /\ e.xid = activeTransaction[y].xid
    BY <2>1, <2>2 DEF Transaction
  <2> QED BY <2>1, <2>2, <2>3
<1> QED BY <1>1, <1>2, <1>3, <1>4, MapSteps

----------------------------------------------------------------------------
(* Snapshots.                                                              *)

(* What RepeatableRead makes of a row depends on the status of older       *)
(* transactions outside the snapshot only: if it changes, one of those     *)
(* began or ceased to be committed.                                        *)
LEMMA ViewOfSnapshot ==
  ASSUME NEW before, NEW after, NEW t, NEW e,
         RepeatableRead(before, t, e) # RepeatableRead(after, t, e),
         t.xid \in Nat, e.xmin \in Nat, e.xmax \in Nat
  PROVE  \E y \in Nat : /\ y # 0 /\ y < t.xid /\ y \notin t.snapshot
                        /\ y \in {e.xmin, e.xmax}
                        /\ (before[y] = "committed") # (after[y] = "committed")
<1>1. CASE e.xmin # 0 /\ e.xmin < t.xid /\ e.xmin \notin t.snapshot
           /\ (before[e.xmin] = "committed") # (after[e.xmin] = "committed")
  BY <1>1
<1>2. CASE e.xmax # 0 /\ e.xmax < t.xid /\ e.xmax \notin t.snapshot
           /\ (before[e.xmax] = "committed") # (after[e.xmax] = "committed")
  BY <1>2
<1>3. CASE /\ e.xmin # 0 /\ e.xmin < t.xid /\ e.xmin \notin t.snapshot
                => ((before[e.xmin] = "committed") <=> (after[e.xmin] = "committed"))
           /\ e.xmax # 0 /\ e.xmax < t.xid /\ e.xmax \notin t.snapshot
                => ((before[e.xmax] = "committed") <=> (after[e.xmax] = "committed"))
  <2>1. e.xmax > t.xid \/ e.xmax < t.xid \/ e.xmax = t.xid
    OBVIOUS
  <2>2. RepeatableRead(before, t, e) <=> RepeatableRead(after, t, e)
    BY <1>3, <2>1 DEF RepeatableRead, IsCommitted, IsInSnapshot, Unsettled, SuperXid
  <2> QED BY <2>2 DEF RepeatableRead
<1> QED BY <1>1, <1>2, <1>3

(* A snapshot does not move: while the rows stay as they are, only the     *)
(* commit of an older transaction that the snapshot does not hold shows    *)
(* (Visibility.java:88, 92).                                               *)
THEOREM SnapshotsIsolate == Spec => SnapshotIsolation
<1> DEFINE Isolated(x, u) ==
      /\ activeTransaction[x].level \in {"RR", "SER"}
      /\ UNCHANGED entries /\ Active(x)'
      /\ Sees(x, u)' # Sees(x, u)
      => \E y \in (1..(x - 1)) \ activeTransaction[x].snapshot :
           status[y] # "committed" /\ status'[y] = "committed"
<1>1. ASSUME Inv, [Next]_vars, NEW x \in DOMAIN activeTransaction, NEW u \in DOMAIN entries
      PROVE  Isolated(x, u)
  <2> SUFFICES ASSUME activeTransaction[x].level \in {"RR", "SER"}, entries' = entries, Active(x)',
                      Sees(x, u)' # Sees(x, u)
               PROVE  \E y \in (1..(x - 1)) \ activeTransaction[x].snapshot :
                        status[y] # "committed" /\ status'[y] = "committed"
    OBVIOUS
  <2>1. x \in Xid /\ status[x] # "none" /\ activeTransaction[x] \in Transaction /\ activeTransaction[x].xid = x
    BY <1>1 DEF Inv, Types, ActiveTyped, Fates, Undecided
  <2>2. /\ activeTransaction'[x].level = activeTransaction[x].level
        /\ activeTransaction'[x].snapshot = activeTransaction[x].snapshot
        /\ activeTransaction'[x].xid = activeTransaction[x].xid
    BY <1>1, <2>1, MapChanges DEF Active
  <2>3. PICK e : e = entries[u] /\ e.xmin \in Xid \cup {0} /\ e.xmax \in Xid \cup {0}
    BY <1>1 DEF Inv, Types, EntriesTyped
  <2>4. PICK t : t = activeTransaction[x]
    OBVIOUS
  <2>5. /\ Sees(x, u) = RepeatableRead(status, t, e)
        /\ Sees(x, u)' = RepeatableRead(status', t, e)
    BY <2>1, <2>2, <2>3, <2>4 DEF Sees, IsVisible, RepeatableRead, IsInSnapshot, Unsettled
  <2>6. t.xid \in Nat /\ e.xmin \in Nat /\ e.xmax \in Nat
    BY <2>1, <2>3, <2>4, BoundsAreNat DEF Xid
  <2>7. PICK y \in Nat : /\ y # 0 /\ y < t.xid /\ y \notin t.snapshot
                         /\ y \in {e.xmin, e.xmax}
                         /\ (status[y] = "committed") # (status'[y] = "committed")
    <3>1. RepeatableRead(status, t, e) # RepeatableRead(status', t, e)
      BY <2>5, Zenon
    <3> QED BY <2>6, <3>1, ViewOfSnapshot
  <2>8. y \in Xid /\ y \in (1..(x - 1)) \ activeTransaction[x].snapshot
    BY <2>1, <2>3, <2>4, <2>7, BoundsAreNat DEF Xid
  <2>9. ~(status[y] = "committed" /\ status'[y] # "committed")
    BY <1>1, <2>8, CommittedStep
  <2> QED BY <2>7, <2>8, <2>9
<1>2. Inv /\ [Next]_vars => \A x \in DOMAIN activeTransaction, u \in DOMAIN entries : Isolated(x, u)
  BY <1>1
<1> HIDE DEF Isolated
<1>3. Spec => [][\A x \in DOMAIN activeTransaction, u \in DOMAIN entries : Isolated(x, u)]_vars
  BY <1>2, SpecInv, PTL DEF Spec
<1> QED BY <1>3 DEF SnapshotIsolation, Isolated

----------------------------------------------------------------------------
(* The global lock.  A SERIALIZABLE transaction that runs holds it on a    *)
(* thread of its connection.                                               *)

Holds(s) == Serializable(xid[s]) /\ status[xid[s]] = "active"
Exclusive == \A s \in Session : Holds(s) => globalLock.owner \in Carrier[s]

LEMMA XidChanges ==
  ASSUME Inv, [Next]_vars, NEW s \in Session
  PROVE  \/ xid'[s] \in {xid[s], 0}
         \/ \E level : \E t \in Thread, tmp \in BOOLEAN : Begin(s, t, level, tmp)
<1>1. ASSUME NEW r \in Session, Statement(r)
      PROVE  xid' = xid \/ \E level : \E t \in Thread, tmp \in BOOLEAN : Begin(r, t, level, tmp)
  <2>1. ASSUME NEW t \in Thread, NEW u, Insert(r, t, u) \/ DeleteLook(r, t, u)
        PROVE  xid' = xid
    BY <2>1 DEF Insert, DeleteLook, RowEnds, Goto
  <2>2. ASSUME NEW threw, OtherStatement(r, threw)
        PROVE  xid' = xid
    BY <2>2 DEF OtherStatement, StatementEnds, Goto
  <2>3. CASE DeleteLock(r) \/ DeleteDeadlock(r) \/ DeleteSkip(r) \/ DeleteCheck(r) \/ DeleteWrite(r)
    BY <2>3 DEF DeleteLock, DeleteDeadlock, DeleteSkip, AutoAbort, DeleteCheck, DeleteWrite, RowEnds, Goto
  <2> QED BY <1>1, <2>1, <2>2, <2>3 DEF Statement
<1>2. ASSUME NEW r \in Session, EndOfTransaction(r)
      PROVE  xid' = xid \/ \E n \in {xid[r], 0} : xid' = [xid EXCEPT ![r] = n]
  BY <1>2 DEF EndOfTransaction, CommitRefused, Commit, AbortLost, AbortAutoAborted, Abort, RemoveCall, RemoveNext,
              RemoveReturn, FinishCommit, FinishAbort, FinishAuto, StatementEnds, TransactionEnds, Goto, sessionVars
<1>3. CASE Timeouts \/ UNCHANGED vars
  BY <1>3 DEF Timeouts, vars, sessionVars
<1>4. ASSUME NEW r \in Session \ {s}, NEW t, NEW level, NEW tmp, Begin(r, t, level, tmp)
      PROVE  xid'[s] = xid[s]
  BY <1>4 DEF Begin, Inv, Types, SessionsTyped
<1> QED BY <1>1, <1>2, <1>3, <1>4 DEF Next, Inv, Types, SessionsTyped

(* No other step makes a session hold the lock that did not.               *)
LEMMA HoldsBefore ==
  ASSUME Inv, [Next]_vars, NEW s \in Session, xid'[s] \in {xid[s], 0}, Holds(s)'
  PROVE  Holds(s)
<1>1. Inv'
  BY InvNext
<1>2. xid'[s] \in Xid /\ xid'[s] = xid[s] /\ xid[s] # 0
  BY <1>1 DEF Holds, Serializable, Active, Inv, Types, ActiveTyped, Xid
<1>3. status[xid[s]] # "none"
  BY <1>2, Known DEF FateOf
<1>4. Serializable(xid[s])
  BY <1>2, <1>3, MapChanges DEF Holds, Serializable, Active
<1>5. status[xid[s]] = "active"
  <2>1. status'[xid[s]] = "active"
    BY <1>2 DEF Holds
  <2>2. ASSUME NEW x \in Xid, status[x] = "none", UpdateXID(x, "active")
        PROVE  status[xid[s]] = "active"
    BY <1>2, <1>3, <2>1, <2>2 DEF UpdateXID, Inv, Types, StatusTyped
  <2>3. ASSUME NEW r \in Session, FinishCommit(r) \/ FinishAbort(r) \/ FinishAuto(r)
        PROVE  status[xid[s]] = "active"
    BY <1>2, <2>1, <2>3, FinishSays
  <2> QED BY <2>1, <2>2, <2>3, StatusChanges
<1> QED BY <1>4, <1>5 DEF Holds

(* Only begin takes the lock; it is given back by a thread of the          *)
(* connection whose transaction no longer runs.                            *)
LEMMA GlobalChanges ==
  ASSUME Inv, [Next]_vars
  PROVE  \/ globalLock' = globalLock
         \/ \E t \in Thread : MayEnter(t) /\ globalLock' = Acquire(globalLock, t)
         \/ \E s \in Session : globalLock.owner \in Carrier[s] /\ ~Holds(s)'
<1>1. ASSUME NEW s \in Session, Statement(s)
      PROVE  globalLock' = globalLock \/ \E t \in Thread : MayEnter(t) /\ globalLock' = Acquire(globalLock, t)
  <2>1. ASSUME NEW t \in Thread, NEW level, NEW tmp, Begin(s, t, level, tmp)
        PROVE  globalLock' = globalLock \/ (MayEnter(t) /\ globalLock' = Acquire(globalLock, t))
    BY <2>1 DEF Begin
  <2>2. ASSUME NEW t, NEW u, Insert(s, t, u) \/ DeleteLook(s, t, u)
        PROVE  globalLock' = globalLock
    BY <2>2 DEF Insert, DeleteLook, dbVars
  <2>3. ASSUME NEW threw, OtherStatement(s, threw)
        PROVE  globalLock' = globalLock
    BY <2>3 DEF OtherStatement, dbVars
  <2>4. CASE DeleteLock(s) \/ DeleteDeadlock(s) \/ DeleteSkip(s) \/ DeleteCheck(s) \/ DeleteWrite(s)
    BY <2>4 DEF DeleteLock, DeleteDeadlock, DeleteSkip, AutoAbort, DeleteCheck, DeleteWrite, dbVars
  <2> QED BY <1>1, <2>1, <2>2, <2>3, <2>4 DEF Statement
<1>2. ASSUME NEW s \in Session, EndOfTransaction(s)
      PROVE  globalLock' = globalLock \/ (globalLock.owner \in Carrier[s] /\ ~Holds(s)')
  <2>1. ASSUME NEW ser, NEW t \in Thread, UnlockGlobal(ser, t), t = on[s] \/ FreeThread(s, t)
        PROVE  globalLock' = globalLock \/ globalLock.owner \in Carrier[s]
    BY <2>1, ThreadsAreDistinct DEF UnlockGlobal, FreeThread, Inv, Control, Threads
  <2>2. ASSUME NEW t \in Thread, NEW close \in BOOLEAN, AbortAutoAborted(s, t, close)
        PROVE  globalLock' = globalLock \/ (globalLock.owner \in Carrier[s] /\ ~Holds(s)')
    <3>1. (t = on[s] \/ FreeThread(s, t)) /\ xid[s] \in Xid /\ UnlockGlobal(Serializable(xid[s]), t)
      BY <2>2, EndingKnown DEF AbortAutoAborted
    <3>2. globalLock' = globalLock \/ globalLock.owner \in Carrier[s]
      BY <2>1, <3>1, Zenon
    <3>3. xid'[s] \in {xid[s], 0}
      BY <2>2 DEF AbortAutoAborted, Inv, Types, SessionsTyped
    <3>4. ~Holds(s)'
      <4>1. Inv'
        BY InvNext
      <4>2. 0 \notin DOMAIN activeTransaction'
        BY <4>1 DEF Inv, Types, ActiveTyped, Xid
      <4>3. xid[s] \notin DOMAIN activeTransaction'
        BY <2>2 DEF AbortAutoAborted, LT!Without
      <4> QED BY <3>3, <4>2, <4>3 DEF Holds, Serializable, Active
    <3> QED BY <3>2, <3>4
  <2>3. CASE FinishAbort(s) \/ FinishAuto(s)
    <3>1. pc[s] = "finish" /\ UnlockGlobal(cmd[s].ser, on[s]) /\ UpdateXID(xid[s], "aborted")
      BY <2>3 DEF FinishAbort, FinishAuto
    <3>2. on[s] \in Thread /\ xid[s] \in Xid
      BY <3>1, BusyKnown
    <3>3. globalLock' = globalLock \/ globalLock.owner \in Carrier[s]
      BY <2>1, <3>1, <3>2
    <3>4. xid'[s] \in {xid[s], 0}
      BY <2>3 DEF FinishAbort, FinishAuto, TransactionEnds, StatementEnds, Goto, Inv, Types, SessionsTyped
    <3>5. ~Holds(s)'
      <4>1. Inv'
        BY InvNext
      <4>2. 0 \notin DOMAIN activeTransaction'
        BY <4>1 DEF Inv, Types, ActiveTyped, Xid
      <4>3. status'[xid[s]] = "aborted"
        BY <3>1, <3>2 DEF UpdateXID, Inv, Types, StatusTyped
      <4> QED BY <3>4, <4>2, <4>3 DEF Holds, Serializable, Active
    <3> QED BY <3>3, <3>5
  <2>4. CASE RemoveCall(s) \/ RemoveNext(s) \/ RemoveReturn(s) \/ FinishCommit(s)
    BY <2>4 DEF RemoveCall, RemoveNext, RemoveReturn, FinishCommit, dbVars
  <2>5. ASSUME NEW t, NEW close, CommitRefused(s, t) \/ Commit(s, t) \/ AbortLost(s, t, close) \/ Abort(s, t, close)
        PROVE  globalLock' = globalLock
    BY <2>5 DEF CommitRefused, Commit, AbortLost, Abort, dbVars
  <2> QED BY <1>2, <2>2, <2>3, <2>4, <2>5 DEF EndOfTransaction
<1>3. CASE Timeouts \/ UNCHANGED vars
  BY <1>3 DEF Timeouts, vars, dbVars
<1> QED BY <1>1, <1>2, <1>3 DEF Next

(* What Server.java:40 gives a connection, a thread of the pool for as     *)
(* long as it lives: no two connections share a thread.                    *)
OwnThreads == \A s, r \in Session : s # r => Carrier[s] \cap Carrier[r] = {}

LEMMA BeginTakes ==
  ASSUME Inv, NEW s \in Session, NEW t \in Thread, NEW level, NEW tmp, Begin(s, t, level, tmp), Holds(s)'
  PROVE  globalLock' = Acquire(globalLock, t)
<1>1. PICK x \in Xid : /\ xid' = [xid EXCEPT ![s] = x]
                       /\ activeTransaction' = LT!Put(activeTransaction, x, NewTransaction(x, level))
  BY DEF Begin
<1>2. xid'[s] = x
  BY <1>1 DEF Inv, Types, SessionsTyped
<1>3. activeTransaction'[x].level = level
  BY <1>1 DEF LT!Put, NewTransaction
<1>4. level = "SER"
  BY <1>2, <1>3 DEF Holds, Serializable
<1> QED BY <1>4 DEF Begin

LEMMA ExclusiveNext ==
  ASSUME OwnThreads, Inv, Exclusive, [Next]_vars
  PROVE  Exclusive'
<1> SUFFICES ASSUME NEW s \in Session, Holds(s)' PROVE globalLock'.owner \in Carrier[s]
  BY DEF Exclusive
<1>1. ASSUME NEW t \in Thread, NEW level, NEW tmp \in BOOLEAN, Begin(s, t, level, tmp)
      PROVE  globalLock'.owner \in Carrier[s]
  <2>1. globalLock' = Acquire(globalLock, t)
    BY <1>1, BeginTakes
  <2>2. t \in Carrier[s]
    BY <1>1 DEF Begin, FreeThread
  <2>3. Acquire(globalLock, t).owner = t
    BY DEF Acquire
  <2> QED BY <2>1, <2>2, <2>3
<1>2. CASE xid'[s] \in {xid[s], 0}
  <2>1. Holds(s) /\ globalLock.owner \in Carrier[s] /\ globalLock.owner \in Thread
    BY <1>2, HoldsBefore, SessionsHaveThreads DEF Exclusive
  <2>2. CASE globalLock' = globalLock
    BY <2>1, <2>2
  <2>3. ASSUME NEW t \in Thread, MayEnter(t), globalLock' = Acquire(globalLock, t)
        PROVE  globalLock'.owner \in Carrier[s]
    BY <2>1, <2>3, ThreadsAreDistinct DEF MayEnter, Acquire
  <2>4. ASSUME NEW r \in Session, globalLock.owner \in Carrier[r], ~Holds(r)'
        PROVE  FALSE
    <3>1. r # s
      BY <2>4
    <3> QED BY <2>1, <2>4, <3>1 DEF OwnThreads
  <2> QED BY <2>2, <2>3, <2>4, GlobalChanges
<1> QED BY <1>1, <1>2, XidChanges

(* While a SERIALIZABLE transaction runs no other connection begins, at    *)
(* any level, if connections have threads of their own: the lock that      *)
(* begin takes (VersionManagerImpl.java:162) is not given back before the  *)
(* transaction leaves the map or its status is written.                    *)
THEOREM SerializableAlone ==
  ASSUME OwnThreads
  PROVE  Spec => SerializableKeepsOthersOut
<1> DEFINE KeptOut(s, r) ==
      /\ xid[s] = 0 /\ xid'[s] # 0
      /\ Serializable(xid[r]) /\ status[xid[r]] = "active"
      => s = r
<1>1. Init => Exclusive
  <2> SUFFICES ASSUME Init, NEW s \in Session PROVE ~Holds(s)
    BY DEF Exclusive
  <2> QED BY DEF Init, Holds, Serializable, Active
<1>2. Inv /\ Exclusive /\ [Next]_vars => Exclusive'
  BY ExclusiveNext
<1>3. ASSUME Inv, Exclusive, [Next]_vars, NEW s \in Session, NEW r \in Session
      PROVE  KeptOut(s, r)
  <2> SUFFICES ASSUME xid[s] = 0, xid'[s] # 0, Serializable(xid[r]), status[xid[r]] = "active"
               PROVE  s = r
    OBVIOUS
  <2>1. PICK t \in Thread : MayEnter(t) /\ FreeThread(s, t)
    BY <1>3, XidChanges DEF Begin
  <2>2. globalLock.owner \in Carrier[r] /\ globalLock.owner \in Thread
    BY <1>3, SessionsHaveThreads DEF Exclusive, Holds
  <2>3. globalLock.owner = t /\ t \in Carrier[s]
    BY <2>1, <2>2, ThreadsAreDistinct DEF MayEnter, FreeThread
  <2> QED BY <2>2, <2>3 DEF OwnThreads
<1>4. Inv /\ Exclusive /\ [Next]_vars => \A s, r \in Session : KeptOut(s, r)
  BY <1>3
<1> HIDE DEF KeptOut
<1>5. Spec => [][\A s, r \in Session : KeptOut(s, r)]_vars
  BY <1>1, <1>2, <1>4, SpecInv, PTL DEF Spec
<1> QED BY <1>5 DEF SerializableKeepsOthersOut, KeptOut

----------------------------------------------------------------------------
(* The lock table below.                                                   *)

(* The version manager uses the lock table as LockTable says it may be     *)
(* used: requests of transactions that gave nothing back yet, one call at  *)
(* a time, each left by the thread that entered it.  So what               *)
(* LockTableProofs shows of any run of LockTable holds of the table below  *)
(* the version manager (VersionManagerImpl.java:129, 229).                  *)
THEOREM UsesLockTable == Spec => LT!Spec
<1>1. Init => LT!Init
  BY DEF Init
<1>2. ASSUME Inv, [Next]_vars
      PROVE  [LT!Next]_ltVars
  <2>1. ASSUME NEW s \in Session, Statement(s)
        PROVE  [LT!Next]_ltVars
    <3>1. ASSUME NEW t, NEW level, NEW tmp, Begin(s, t, level, tmp)
          PROVE  UNCHANGED ltVars
      BY <3>1 DEF Begin
    <3>2. ASSUME NEW t, NEW u, Insert(s, t, u) \/ DeleteLook(s, t, u)
          PROVE  UNCHANGED ltVars
      BY <3>2 DEF Insert, DeleteLook
    <3>3. ASSUME NEW threw, OtherStatement(s, threw)
          PROVE  UNCHANGED ltVars
      BY <3>3 DEF OtherStatement
    <3>4. CASE DeleteLock(s) \/ DeleteDeadlock(s)
      <4>1. pc[s] = "lock" /\ LT!Add(on[s], xid[s], cmd[s].row)
        BY <3>4 DEF DeleteLock, DeleteDeadlock, LT!Add
      <4>2. on[s] \in Thread /\ xid[s] \in Xid
        BY <1>2, <4>1, BusyKnown
      <4>3. cmd[s].row \in Uid
        BY <1>2, <4>1 DEF Inv, Control, Locals, Deleting, Types, EntriesTyped
      <4> QED BY <4>1, <4>2, <4>3 DEF LT!Next
    <3>5. CASE DeleteSkip(s) \/ DeleteCheck(s) \/ DeleteWrite(s)
      BY <3>5 DEF DeleteSkip, DeleteCheck, DeleteWrite
    <3> QED BY <2>1, <3>1, <3>2, <3>3, <3>4, <3>5 DEF Statement
  <2>2. ASSUME NEW s \in Session, EndOfTransaction(s)
        PROVE  [LT!Next]_ltVars
    <3>1. ASSUME NEW t, NEW close,
                 \/ CommitRefused(s, t) \/ Commit(s, t)
                 \/ AbortLost(s, t, close) \/ AbortAutoAborted(s, t, close) \/ Abort(s, t, close)
          PROVE  UNCHANGED ltVars
      BY <3>1 DEF CommitRefused, Commit, AbortLost, AbortAutoAborted, Abort
    <3>2. CASE RemoveCall(s) \/ RemoveNext(s) \/ RemoveReturn(s)
      <4>1. pc[s] \in {"remove", "removing"}
        BY <3>2 DEF RemoveCall, RemoveNext, RemoveReturn
      <4>2. on[s] \in Thread /\ xid[s] \in Xid
        BY <1>2, <4>1, BusyKnown
      <4>3. LT!RemoveCall(on[s], xid[s]) \/ LT!RemoveNext(on[s]) \/ LT!RemoveReturn(on[s])
        BY <3>2 DEF RemoveCall, RemoveNext, RemoveReturn
      <4> QED BY <4>2, <4>3 DEF LT!Next, LT!InCall
    <3>3. CASE FinishCommit(s) \/ FinishAbort(s) \/ FinishAuto(s)
      BY <3>3 DEF FinishCommit, FinishAbort, FinishAuto
    <3> QED BY <2>2, <3>1, <3>2, <3>3 DEF EndOfTransaction
  <2>3. CASE Timeouts
    BY <2>3, BoundsAreNat DEF Timeouts, LT!Next, LT!InCall
  <2>4. CASE UNCHANGED vars
    BY <2>4 DEF vars
  <2> QED BY <1>2, <2>1, <2>2, <2>3, <2>4 DEF Next
<1>3. Inv /\ [Next]_vars => [LT!Next]_ltVars
  BY <1>2
<1>4. UNCHANGED ltVars => UNCHANGED LT!vars
  BY DEF ltVars, LT!vars
<1>5. Inv /\ [Next]_vars => [LT!Next]_(LT!vars)
  BY <1>3, <1>4
<1> QED BY <1>1, <1>5, SpecInv, PTL DEF Spec, LT!Spec

(* What is shown of the lock table therefore holds below the version       *)
(* manager, the module of those proofs being about the same table.         *)
LTP == INSTANCE LockTableProofs WITH Xid <- Xid

LEMMA SameTable ==
  /\ LT!Init <=> LTP!Init
  /\ LT!Next <=> LTP!Next
<1> USE DEF LT!vars, LTP!vars, LT!Listed, LTP!Listed, LT!PutIntoList, LTP!PutIntoList, LT!RemoveFromList,
            LTP!RemoveFromList, LT!IsInList, LTP!IsInList, LT!Idle, LTP!Idle, LT!HasDeadLock, LTP!HasDeadLock,
            LT!CanAdd, LTP!CanAdd, LT!MustWait, LTP!MustWait, LT!WithLock, LTP!WithLock, LT!ReleaseUnclaimed,
            LTP!ReleaseUnclaimed, LT!HandOver, LTP!HandOver, LT!SelectNewXID, LTP!SelectNewXID, LT!Removing,
            LTP!Removing, LT!Put, LTP!Put, LT!Without, LTP!Without, LT!Contains, LTP!Contains, LT!RemoveFirst,
            LTP!RemoveFirst, LT!RemoveAt, LTP!RemoveAt, LT!SelectInSeq, LTP!SelectInSeq, LT!Min, LTP!Min
<1>1. ASSUME NEW t, NEW x, NEW u
      PROVE  LT!Add(t, x, u) <=> LTP!Add(t, x, u)
  <2>1. LT!AddOwned(t, x, u) <=> LTP!AddOwned(t, x, u)
    BY DEF LT!AddOwned, LTP!AddOwned
  <2>2. LT!AddFree(t, x, u) <=> LTP!AddFree(t, x, u)
    BY DEF LT!AddFree, LTP!AddFree
  <2>3. LT!AddWait(t, x, u) <=> LTP!AddWait(t, x, u)
    BY DEF LT!AddWait, LTP!AddWait
  <2>4. LT!AddDeadlock(t, x, u) <=> LTP!AddDeadlock(t, x, u)
    BY DEF LT!AddDeadlock, LTP!AddDeadlock
  <2> QED BY ONLY <2>1, <2>2, <2>3, <2>4 DEF LT!Add, LTP!Add
<1>2. ASSUME NEW t
      PROVE  /\ LT!RemoveNext(t) <=> LTP!RemoveNext(t)
             /\ LT!RemoveReturn(t) <=> LTP!RemoveReturn(t)
  BY DEF LT!RemoveNext, LTP!RemoveNext, LT!RemoveReturn, LTP!RemoveReturn
<1>3. ASSUME NEW t, NEW x
      PROVE  LT!RemoveCall(t, x) <=> LTP!RemoveCall(t, x)
  BY DEF LT!RemoveCall, LTP!RemoveCall
<1>4. ASSUME NEW late
      PROVE  LT!CheckTimeouts(late) <=> LTP!CheckTimeouts(late)
  BY DEF LT!CheckTimeouts, LTP!CheckTimeouts
<1>5. ASSUME NEW x
      PROVE  LT!TimeoutNext(x) <=> LTP!TimeoutNext(x)
  BY DEF LT!TimeoutNext, LTP!TimeoutNext
<1>6. /\ LT!TimeoutRelease <=> LTP!TimeoutRelease
      /\ LT!TimeoutForget <=> LTP!TimeoutForget
      /\ LT!TimeoutReturn <=> LTP!TimeoutReturn
  BY DEF LT!TimeoutRelease, LTP!TimeoutRelease, LT!TimeoutForget, LTP!TimeoutForget, LT!TimeoutReturn,
         LTP!TimeoutReturn
<1>7. LT!Next <=> LTP!Next
  BY ONLY <1>1, <1>2, <1>3, <1>4, <1>5, <1>6, Zenon DEF LT!Next, LTP!Next, LT!InCall, LTP!InCall
<1>8. LT!Init <=> LTP!Init
  BY DEF LT!Init, LTP!Init
<1> QED BY <1>7, <1>8

(* So rows have one owner, every recorded waiter can still be reached, and *)
(* no set of transactions waits only for rows its members acquired, in any *)
(* run of the version manager (LockTable.java:85, 111).                    *)
THEOREM LocksStaySound ==
  Spec => [](LTP!HoldingsExclusive /\ LTP!NoLostWakeup /\ LTP!NoDeadlockAmongHolders)
<1>1. LT!Spec => LTP!Spec
  <2>1. [LT!Next]_(LT!vars) => [LTP!Next]_(LTP!vars)
    BY SameTable DEF LT!vars, LTP!vars
  <2> QED BY <2>1, SameTable, PTL DEF LT!Spec, LTP!Spec
<1>2. LTP!Spec => []LTP!HoldingsExclusive
  BY LTP!HoldingsAlwaysExclusive, ThreadsAreDistinct, LockTableConstants
     DEF LTP!ThreadsAreDistinct, LTP!NoXidIsNoXid, LTP!MaxWaitersIsNat
<1>3. LTP!Spec => []LTP!NoLostWakeup
  BY LTP!WakeupNeverLost, ThreadsAreDistinct, LockTableConstants
     DEF LTP!ThreadsAreDistinct, LTP!NoXidIsNoXid, LTP!MaxWaitersIsNat
<1>4. LTP!Spec => []LTP!NoDeadlockAmongHolders
  BY LTP!HoldersNeverDeadlock, ThreadsAreDistinct, LockTableConstants
     DEF LTP!ThreadsAreDistinct, LTP!NoXidIsNoXid, LTP!MaxWaitersIsNat
<1> QED BY <1>1, <1>2, <1>3, <1>4, UsesLockTable, PTL
=============================================================================
