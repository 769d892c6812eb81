------------------------------ MODULE Terminal ------------------------------
(***************************************************************************)
(* The terminal page (static/demo.3ddb9e72.js, the class Terminal and its  *)
(* commands, from line 11300 on): the input line, the history, commands    *)
(* that print by themselves line after line, and the WebSocket.  All of it *)
(* runs on the one thread of a page.  What stands on the input line and    *)
(* what is printed is left out, but for the answers of the server, which    *)
(* WebConsole follows.                                                      *)
(***************************************************************************)
EXTENDS Integers, Sequences, Maps

CONSTANTS
  Page,     \* terminal pages that are open
  Lines,    \* lines a dynamic command prints before it is done
  MaxTyped  \* bound: commands a page takes

ASSUME LinesAreCounted == Lines \in Nat /\ MaxTyped \in Nat

VARIABLES
  mounted,          \* pages whose component is mounted
  entered,          \* page -> length of historyCmdList
  historyCmdIndex,  \* page -> place in it
  runs,             \* page -> run in progress -> lines it still prints
  isPrinting,       \* pages that show no prompt
  socket            \* page -> "none", "connecting", "open" or "closed"

historyVars == <<entered, historyCmdIndex>>
pageVars == <<mounted, historyVars, runs, isPrinting, socket>>

Boot == 0   \* the run of config.bootCmd; a typed run has its place in the history

(* componentDidMount runs the boot command; the socket comes after it.     *)
PageInit ==
  /\ mounted = Page
  /\ entered = [p \in Page |-> 0] /\ historyCmdIndex = [p \in Page |-> -1]
  /\ runs = [p \in Page |-> Put(<<>>, Boot, Lines)] /\ isPrinting = Page
  /\ socket = [p \in Page |-> "none"]

(* run: an interval prints, then the promise is kept.  The end of any run  *)
(* brings the prompt back, also while another one prints.                  *)
RunPrints(p, r) ==
  /\ r \in DOMAIN runs[p] /\ runs[p][r] > 0
  /\ runs' = [runs EXCEPT ![p][r] = @ - 1]
  /\ UNCHANGED <<mounted, historyVars, isPrinting, socket>>

(* A mutant of RunEnds that leaves the prompt away.                        *)
RunEndsSilently(p, r) ==
  /\ r \in DOMAIN runs[p] /\ runs[p][r] = 0
  /\ runs' = [runs EXCEPT ![p] = Without(@, r)]
  /\ socket' = IF r = Boot THEN [socket EXCEPT ![p] = "connecting"] ELSE socket
  /\ UNCHANGED <<mounted, historyVars, isPrinting>>

RunEnds(p, r) ==
  /\ r \in DOMAIN runs[p] /\ runs[p][r] = 0
  /\ runs' = [runs EXCEPT ![p] = Without(@, r)]
  /\ isPrinting' = isPrinting \ {p}
  /\ socket' = IF r = Boot THEN [socket EXCEPT ![p] = "connecting"] ELSE socket
  /\ UNCHANGED <<mounted, historyVars>>

(* handleKeyCommand: the arrows walk through the history; one step below    *)
(* the last command the line is empty.                                      *)
Recalls(p, i) ==
  /\ p \in mounted
  /\ historyCmdIndex' = [historyCmdIndex EXCEPT ![p] = i]
  /\ UNCHANGED <<mounted, entered, runs, isPrinting, socket>>

ArrowUp(p) == historyCmdIndex[p] > 0 /\ Recalls(p, historyCmdIndex[p] - 1)

(* A mutant of ArrowDown that walks past the end.                          *)
ArrowDownUnbounded(p) == Recalls(p, historyCmdIndex[p] + 1)

ArrowDown(p) ==
  Recalls(p, IF historyCmdIndex[p] < entered[p] - 1 THEN historyCmdIndex[p] + 1
                                                    ELSE entered[p])

(* handleCommand: Enter keeps the command, typed or recalled, and hands it  *)
(* to runCommand.                                                           *)
Enters(p) ==
  /\ p \in mounted /\ entered[p] < MaxTyped
  /\ entered' = [entered EXCEPT ![p] = @ + 1]
  /\ historyCmdIndex' = [historyCmdIndex EXCEPT ![p] = entered[p] + 1]

(* help, clear, version and the commands of staticList only print.         *)
EnterBuiltin(p) ==
  /\ Enters(p)
  /\ UNCHANGED <<mounted, runs, isPrinting, socket>>

(* The commands of dynamicList: welcome, intro, echo...                    *)
EnterDynamic(p) ==
  /\ Enters(p)
  /\ runs' = [runs EXCEPT ![p] = Put(@, entered[p] + 1, Lines)]
  /\ isPrinting' = isPrinting \cup {p}
  /\ UNCHANGED <<mounted, socket>>

(* Everything else goes to the server.  Without an open socket its send     *)
(* throws out of a callback of setState, and React takes the page down.     *)
EnterTooEarly(p) ==
  /\ Enters(p) /\ socket[p] \in {"none", "connecting"}
  /\ mounted' = mounted \ {p}
  /\ UNCHANGED <<runs, isPrinting, socket>>

(* A closed socket drops what it is given; nothing opens another one.      *)
EnterUnsent(p) ==
  /\ Enters(p) /\ socket[p] = "closed"
  /\ UNCHANGED <<mounted, runs, isPrinting, socket>>

EnterStatement(p) ==
  /\ Enters(p) /\ socket[p] = "open"
  /\ UNCHANGED <<mounted, runs, isPrinting, socket>>

SocketOpens(p) ==
  /\ socket[p] = "connecting"
  /\ socket' = [socket EXCEPT ![p] = "open"]
  /\ UNCHANGED <<mounted, historyVars, runs, isPrinting>>

SocketCloses(p) ==
  /\ socket[p] \in {"connecting", "open"}
  /\ socket' = [socket EXCEPT ![p] = "closed"]
  /\ UNCHANGED <<mounted, historyVars, runs, isPrinting>>

(* What a page does without the server.                                    *)
Printing(p) == \E r \in DOMAIN runs[p] : RunPrints(p, r) \/ RunEnds(p, r)

PageStep(p) ==
  \/ Printing(p)
  \/ ArrowUp(p) \/ ArrowDown(p)
  \/ EnterBuiltin(p) \/ EnterDynamic(p) \/ EnterTooEarly(p) \/ EnterUnsent(p)

PageTypeOK ==
  /\ mounted \subseteq Page /\ isPrinting \subseteq Page
  /\ entered \in [Page -> 0..MaxTyped]
  /\ \A p \in Page : \/ historyCmdIndex[p] \in 0..entered[p]
                     \/ historyCmdIndex[p] = -1 /\ entered[p] = 0
  /\ \A p \in Page : IsMap(runs[p], 0..MaxTyped, 0..Lines)
  /\ socket \in [Page -> {"none", "connecting", "open", "closed"}]

(* PromptReturns: a page without a prompt has a command that is printing,  *)
(* so the prompt comes back (finally of Terminal.run).                     *)
PromptReturns == \A p \in isPrinting : runs[p] # <<>>
=============================================================================
