----------------------------- MODULE WebConsole -----------------------------
(***************************************************************************)
(* Terminal pages and other clients over WebSockets to the front end: what *)
(* the pages send is what the server hears, in order, and its answers come *)
(* back in order.  A page is one connection for life: it opens its socket  *)
(* once and never again.                                                   *)
(***************************************************************************)
EXTENDS Terminal, WebSessions

ASSUME PagesAreSessions == Page \subseteq Session

VARIABLE
  shown   \* connection -> the last command whose answer it was shown

vars == <<pageVars, serverVars, shown>>

Init == PageInit /\ ServerInit /\ shown = [s \in Session |-> 0]

(* initializeWebSocket, once the server has accepted.                      *)
OpensConnection(s) ==
  /\ Connect(s)
  /\ IF s \in Page THEN SocketOpens(s) ELSE UNCHANGED pageVars
  /\ UNCHANGED shown

(* runCommand hands a statement to the socket; any other client sends.     *)
Sends(s, c) ==
  /\ Send(s, c)
  /\ IF s \in Page THEN EnterStatement(s) ELSE UNCHANGED pageVars
  /\ UNCHANGED shown

(* socket.onmessage prints the answer.                                     *)
Shows(s) ==
  /\ down[s] # <<>>
  /\ s \in Page => socket[s] = "open"
  /\ shown' = [shown EXCEPT ![s] = Head(down[s])]
  /\ down' = [down EXCEPT ![s] = Tail(@)]
  /\ UNCHANGED <<pageVars, connection, sent, up, executors, tasks, work, database,
                 expiry, expiries, overlapped>>

(* The connection breaks or is closed, and both ends come to know.         *)
Closes(s) ==
  /\ AfterConnectionClosed(s)
  /\ IF s \in Page THEN SocketCloses(s) ELSE UNCHANGED pageVars
  /\ UNCHANGED shown

(* No connection comes about.                                              *)
Refused(p) == connection[p] = "none" /\ SocketCloses(p) /\ UNCHANGED <<serverVars, shown>>

Pages == \E p \in Page : PageStep(p)

Next ==
  \/ Pages /\ UNCHANGED <<serverVars, shown>>
  \/ ServerStep /\ UNCHANGED <<pageVars, shown>>
  \/ \E p \in Page : Refused(p)
  \/ \E s \in Session :
       \/ OpensConnection(s) \/ Closes(s) \/ Shows(s)
       \/ \E c \in {InitCmd, SqlCmd} : Sends(s, c)

Spec == Init /\ [][Next]_vars

----------------------------------------------------------------------------
(* TypeOK: the page and the server have their types; a thread works only   *)
(* for a connection that was open.                                         *)
TypeOK ==
  /\ PageTypeOK
  /\ connection \in [Session -> {"none", "open", "closed"}]
  /\ executors \subseteq Session
  /\ IsMap(activeUsers, User, DOMAIN userSessions)
  /\ \A o \in DOMAIN userSessions :
       /\ userSessions[o].tables \in 0..Len(handles)
       /\ IsMap(userSessions[o].executorMap, Session, DOMAIN handles)
  /\ \A s \in Session : tasks[s] # <<>> \/ work[s] # Idle => connection[s] # "none"

(* AnswersInOrder: the answers of a connection, shown, under way and still *)
(* to come, are in the order of its commands; some may be missing, none    *)
(* comes twice (the executor service of one thread, handleTextMessage).    *)
Commands(s) ==
  <<shown[s]>> \o down[s] \o (IF work[s] = Idle THEN <<>> ELSE <<work[s].id>>)
    \o [i \in DOMAIN tasks[s] |-> tasks[s][i].id] \o [i \in DOMAIN up[s] |-> up[s][i].id]

AnswersInOrder ==
  \A s \in Session :
    LET c == Commands(s)
    IN  /\ \A i \in 1..(Len(c) - 1) : c[i] < c[i + 1]
        /\ c[Len(c)] <= sent[s]

(* InitsShareDatabase: as long as no init of a user meets another one or    *)
(* an expiry, the user has one open database, on the files that are there,  *)
(* and every Executor of the user's session works on it.                    *)
InitsShareDatabase ==
  \A u \in User \ overlapped :
    LET open == {h \in DOMAIN handles : handles[h].user = u /\ handles[h].open}
    IN  /\ Cardinality(open) <= 1
        /\ \A h \in open : ~Expires(u) => files[u] = [there |-> TRUE, made |-> handles[h].made]
        /\ u \in DOMAIN activeUsers =>
             LET o == userSessions[activeUsers[u]]
             IN  \A s \in DOMAIN o.executorMap : o.executorMap[s] = o.tables /\ o.tables # 0
=============================================================================
