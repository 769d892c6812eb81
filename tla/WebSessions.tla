---------------------------- MODULE WebSessions ----------------------------
(***************************************************************************)
(* The WebSocket front end: websocket/TerminalWebSocketHandler, UserManager*)
(* and UserSession.  A user is an address and has one UserSession, one     *)
(* database directory and any number of connections.  A connection has an  *)
(* executor service of one thread, so its commands run one after the       *)
(* other; those of two connections, and the expiry check, run at once.     *)
(***************************************************************************)
EXTENDS Naturals, Sequences, FiniteSets, Maps

CONSTANTS
  Session,     \* connections
  User,        \* addresses they may come from
  UserOf,      \* connection -> its address
  InitCmd,     \* the command init; every other statement is SqlCmd
  SqlCmd,
  MaxSends,    \* bound: connection -> commands it sends
  MaxExpiries  \* bound: runs of the expiry check that find a user

ASSUME UsersKnown == UserOf \in [Session -> User]

VARIABLES
  connection,   \* connection -> "none", "open", "closed", as the server sees it
  sent,         \* connection -> number of commands sent
  up,           \* connection -> commands on their way to the server
  down,         \* connection -> answers on their way back
  executors,    \* sessionExecutorMap: connection -> has a thread
  tasks,        \* connection -> tasks its thread has still to run
  work,         \* connection -> the task in progress
  userSessions, \* the UserSession objects made so far
  activeUsers,  \* user -> its UserSession
  handles,      \* the databases opened so far
  files,        \* user -> its database files: are they there, and which ones
  expiry,       \* checkSessions in progress
  expiries,     \* counted for the bound only
  overlapped    \* history: users for whom an init met another one or an expiry

channels == <<sent, up, down>>
database == <<userSessions, activeUsers, handles, files>>
serverVars == <<connection, channels, executors, tasks, work, database, expiry, expiries, overlapped>>

Idle == [pc |-> "idle"]

ServerInit ==
  /\ connection = [s \in Session |-> "none"]
  /\ sent = [s \in Session |-> 0]
  /\ up = [s \in Session |-> <<>>] /\ down = [s \in Session |-> <<>>]
  /\ executors = {} /\ tasks = [s \in Session |-> <<>>] /\ work = [s \in Session |-> Idle]
  /\ userSessions = <<>> /\ activeUsers = <<>> /\ handles = <<>>
  /\ files = [u \in User |-> [there |-> FALSE, made |-> 0]]
  /\ expiry = Idle /\ expiries = 0 /\ overlapped = {}

(* A UserSession: the database it has open (0: none), and the Executor of  *)
(* each connection with the database that Executor works on.               *)
NewSession == [tables |-> 0, executorMap |-> <<>>]

At(s, pc) == work[s].pc = pc
Goes(s, w) == work' = [work EXCEPT ![s] = w]
Executor(o, s) == s \in DOMAIN userSessions[o].executorMap
Registered(s) == UserOf[s] \in DOMAIN activeUsers /\ Executor(activeUsers[UserOf[s]], s)

(* sendMessage: on a closed connection it throws, which ends the task.     *)
Answers(s) ==
  /\ Goes(s, Idle)
  /\ down' = IF connection[s] = "open" THEN [down EXCEPT ![s] = Append(@, work[s].id)] ELSE down
  /\ UNCHANGED <<sent, up>>

----------------------------------------------------------------------------
(* A connection opens, sends, is heard, closes.                            *)

Connect(s) ==
  /\ connection[s] = "none"
  /\ connection' = [connection EXCEPT ![s] = "open"]
  /\ UNCHANGED <<channels, executors, tasks, work, database, expiry, expiries, overlapped>>

Send(s, c) ==
  /\ connection[s] = "open" /\ sent[s] < MaxSends[s]
  /\ sent' = [sent EXCEPT ![s] = @ + 1]
  /\ up' = [up EXCEPT ![s] = Append(@, [id |-> sent[s] + 1, command |-> c])]
  /\ UNCHANGED <<connection, down, executors, tasks, work, database, expiry, expiries, overlapped>>

(* handleTextMessage: the thread of this connection gets one more task.    *)
HandleTextMessage(s) ==
  /\ connection[s] = "open" /\ up[s] # <<>>
  /\ executors' = executors \cup {s}
  /\ tasks' = [tasks EXCEPT ![s] = Append(@, Head(up[s]))]
  /\ up' = [up EXCEPT ![s] = Tail(@)]
  /\ UNCHANGED <<connection, sent, down, work, database, expiry, expiries, overlapped>>

(* afterConnectionClosed: what is under way is lost.  The thread still runs *)
(* what it was given; the Executor is dropped with whatever transaction it  *)
(* is in.                                                                   *)
AfterConnectionClosed(s) ==
  LET u == UserOf[s] IN
  /\ connection[s] = "open"
  /\ connection' = [connection EXCEPT ![s] = "closed"]
  /\ up' = [up EXCEPT ![s] = <<>>] /\ down' = [down EXCEPT ![s] = <<>>]
  /\ userSessions' = IF Registered(s)
       THEN [userSessions EXCEPT ![activeUsers[u]].executorMap = Without(@, s)]
       ELSE userSessions
  /\ executors' = IF u \in DOMAIN activeUsers THEN executors \ {s} ELSE executors
  /\ UNCHANGED <<sent, tasks, work, activeUsers, handles, files, expiry, expiries, overlapped>>

----------------------------------------------------------------------------
(* A task: init, or a statement.                                           *)

InitSteps == {"new session", "files", "create", "check", "open", "set", "executor"}
Initialising(u) == {s \in Session : UserOf[s] = u /\ work[s].pc \in InitSteps}
Expires(u) == expiry.pc # "idle" /\ expiry.user = u

(* newSingleThreadExecutor: one task at a time, in the order they came.    *)
(* NextTaskOfAny, a mutant of NextTask, takes the last one.                *)
NextTaskOfAny(s) == Len(tasks[s])

NextTask(s) == 1

Take(s) ==
  /\ work[s] = Idle /\ tasks[s] # <<>>
  /\ LET i == NextTask(s)
         t == tasks[s][i]
     IN  /\ Goes(s, [pc |-> IF t.command = InitCmd THEN "init" ELSE "sql", id |-> t.id])
         /\ tasks' = [tasks EXCEPT ![s] =
              [j \in 1..(Len(@) - 1) |-> IF j < i THEN @[j] ELSE @[j + 1]]]
  /\ UNCHANGED <<connection, channels, executors, database, expiry, expiries, overlapped>>

(* handleInitCommand                                                       *)
InitKnown(s) ==
  /\ At(s, "init") /\ Registered(s)
  /\ Answers(s)
  /\ UNCHANGED <<connection, executors, tasks, database, expiry, expiries, overlapped>>

InitLook(s) ==
  LET u == UserOf[s] IN
  /\ At(s, "init") /\ ~Registered(s)
  /\ Goes(s, IF u \in DOMAIN activeUsers
               THEN [pc |-> "files", id |-> work[s].id, session |-> activeUsers[u]]
               ELSE [pc |-> "new session", id |-> work[s].id])
  /\ overlapped' = IF Initialising(u) # {} \/ Expires(u) THEN overlapped \cup {u} ELSE overlapped
  /\ UNCHANGED <<connection, channels, executors, tasks, database, expiry, expiries>>

InitNewSession(s) ==
  /\ At(s, "new session")
  /\ userSessions' = Append(userSessions, NewSession)
  /\ activeUsers' = Put(activeUsers, UserOf[s], Len(userSessions) + 1)
  /\ Goes(s, [pc |-> "files", id |-> work[s].id, session |-> Len(userSessions) + 1])
  /\ UNCHANGED <<connection, channels, executors, tasks, handles, files, expiry, expiries, overlapped>>

InitFiles(s) ==
  /\ At(s, "files")
  /\ Goes(s, [work[s] EXCEPT !.pc = IF ~files[UserOf[s]].there THEN "create" ELSE "check"])
  /\ UNCHANGED <<connection, channels, executors, tasks, database, expiry, expiries, overlapped>>

(* The directory is not there and cannot be made.                          *)
InitNoDirectory(s) ==
  /\ At(s, "files") /\ ~files[UserOf[s]].there
  /\ Answers(s)
  /\ UNCHANGED <<connection, executors, tasks, database, expiry, expiries, overlapped>>

(* createDatabase writes over files that appeared in the meantime: that     *)
(* they exist is only printed (Panic).                                      *)
InitCreate(s) ==
  /\ At(s, "create")
  /\ files' = [files EXCEPT ![UserOf[s]] = [there |-> TRUE, made |-> @.made + 1]]
  /\ Goes(s, [work[s] EXCEPT !.pc = "check"])
  /\ UNCHANGED <<connection, channels, executors, tasks, userSessions, activeUsers, handles,
                 expiry, expiries, overlapped>>

(* initializeDatabase; OpensAlways is a mutant that does not look whether   *)
(* the user has a database open.                                           *)
OpensAlways(s) == TRUE
Opens(s) == userSessions[work[s].session].tables = 0

InitCheck(s) ==
  /\ At(s, "check")
  /\ Goes(s, [work[s] EXCEPT !.pc = IF Opens(s) THEN "open" ELSE "executor"])
  /\ UNCHANGED <<connection, channels, executors, tasks, database, expiry, expiries, overlapped>>

InitOpen(s) ==
  /\ At(s, "open") /\ files[UserOf[s]].there
  /\ handles' = Append(handles, [user |-> UserOf[s], made |-> files[UserOf[s]].made, open |-> TRUE])
  /\ Goes(s, [pc |-> "set", id |-> work[s].id, session |-> work[s].session, handle |-> Len(handles) + 1])
  /\ UNCHANGED <<connection, channels, executors, tasks, userSessions, activeUsers, files,
                 expiry, expiries, overlapped>>

(* The files are gone again: a null pointer, which the Future of the task   *)
(* keeps to itself.  Nobody gets an answer.                                 *)
InitOpenThrows(s) ==
  /\ At(s, "open") /\ ~files[UserOf[s]].there
  /\ Goes(s, Idle)
  /\ UNCHANGED <<connection, channels, executors, tasks, database, expiry, expiries, overlapped>>

InitSet(s) ==
  /\ At(s, "set")
  /\ userSessions' = [userSessions EXCEPT ![work[s].session].tables = work[s].handle]
  /\ Goes(s, [pc |-> "executor", id |-> work[s].id, session |-> work[s].session])
  /\ UNCHANGED <<connection, channels, executors, tasks, activeUsers, handles, files,
                 expiry, expiries, overlapped>>

InitExecutor(s) ==
  LET o == work[s].session IN
  /\ At(s, "executor")
  /\ userSessions' =
       [userSessions EXCEPT ![o].executorMap = Put(@, s, userSessions[o].tables)]
  /\ Answers(s)
  /\ UNCHANGED <<connection, executors, tasks, activeUsers, handles, files,
                 expiry, expiries, overlapped>>

(* executorMap is a plain HashMap: of two first puts at once one is lost.   *)
InitExecutorLost(s) ==
  /\ At(s, "executor")
  /\ \E t \in Session \ {s} : At(t, "executor") /\ work[t].session = work[s].session
  /\ Answers(s)
  /\ UNCHANGED <<connection, executors, tasks, database, expiry, expiries, overlapped>>

(* A statement: without an Executor the answer is "Please init database".   *)
SqlRefused(s) ==
  /\ At(s, "sql") /\ ~Registered(s)
  /\ Answers(s)
  /\ UNCHANGED <<connection, executors, tasks, database, expiry, expiries, overlapped>>

SqlBegins(s) ==
  LET o == activeUsers[UserOf[s]] IN
  /\ At(s, "sql") /\ Registered(s)
  /\ Goes(s, [pc |-> "execute", id |-> work[s].id, handle |-> userSessions[o].executorMap[s]])
  /\ UNCHANGED <<connection, channels, executors, tasks, database, expiry, expiries, overlapped>>

(* Its result, or the message of its exception.                            *)
SqlEnds(s) ==
  /\ At(s, "execute")
  /\ Answers(s)
  /\ UNCHANGED <<connection, executors, tasks, database, expiry, expiries, overlapped>>

----------------------------------------------------------------------------
(* checkSessions finds a user late, at any time: removeUserSession closes  *)
(* its database and forgets it, destroyDatabase deletes the files.         *)

ExpiryFinds(u) ==
  /\ expiry = Idle /\ u \in DOMAIN activeUsers /\ expiries < MaxExpiries
  /\ expiry' = [pc |-> "close", user |-> u] /\ expiries' = expiries + 1
  /\ overlapped' = IF Initialising(u) # {} THEN overlapped \cup {u} ELSE overlapped
  /\ UNCHANGED <<connection, channels, executors, tasks, work, database>>

(* The handle the UserSession has, closed; the state of others stays.      *)
Closed(u) ==
  LET h == userSessions[activeUsers[u]].tables
  IN  IF h = 0 THEN handles ELSE [handles EXCEPT ![h].open = FALSE]

ExpiryCloses ==
  /\ expiry.pc = "close"
  /\ handles' = Closed(expiry.user)
  /\ expiry' = [expiry EXCEPT !.pc = "forget"]
  /\ UNCHANGED <<connection, channels, executors, tasks, work, userSessions, activeUsers, files,
                 expiries, overlapped>>

(* DataManager.close throws while two items or pages are in use (Cache):    *)
(* the user keeps a database that is half closed until the next check.      *)
ExpiryThrows ==
  /\ expiry.pc = "close" /\ userSessions[activeUsers[expiry.user]].tables # 0
  /\ handles' = Closed(expiry.user)
  /\ expiry' = Idle
  /\ UNCHANGED <<connection, channels, executors, tasks, work, userSessions, activeUsers, files,
                 expiries, overlapped>>

ExpiryForgets ==
  /\ expiry.pc = "forget"
  /\ activeUsers' = Without(activeUsers, expiry.user)
  /\ expiry' = [expiry EXCEPT !.pc = "destroy"]
  /\ UNCHANGED <<connection, channels, executors, tasks, work, userSessions, handles, files,
                 expiries, overlapped>>

ExpiryDestroys ==
  /\ expiry.pc = "destroy"
  /\ files' = [files EXCEPT ![expiry.user].there = FALSE]
  /\ expiry' = Idle
  /\ UNCHANGED <<connection, channels, executors, tasks, work, userSessions, activeUsers, handles,
                 expiries, overlapped>>

----------------------------------------------------------------------------
Working(s) ==
  \/ Take(s)
  \/ InitKnown(s) \/ InitLook(s) \/ InitNewSession(s) \/ InitFiles(s) \/ InitNoDirectory(s)
  \/ InitCreate(s) \/ InitCheck(s) \/ InitOpen(s) \/ InitOpenThrows(s) \/ InitSet(s)
  \/ InitExecutor(s) \/ InitExecutorLost(s)
  \/ SqlRefused(s) \/ SqlBegins(s) \/ SqlEnds(s)

Expiring == ExpiryCloses \/ ExpiryThrows \/ ExpiryForgets \/ ExpiryDestroys

ServerStep ==
  \/ \E s \in Session : HandleTextMessage(s) \/ Working(s)
  \/ \E u \in User : ExpiryFinds(u)
  \/ Expiring
=============================================================================
