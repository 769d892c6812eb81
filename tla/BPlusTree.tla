------------------------------ MODULE BPlusTree ------------------------------
(***************************************************************************)
(* backend/im/BPlusTree.java and Node.java: inserts and range searches of  *)
(* several threads in one tree.                                            *)
(*                                                                         *)
(* A node is a data item, read or changed under its own latch; nothing is  *)
(* held from one node to the next.  So a step is the visit of one node, or *)
(* one use of the root's uid under bootLock.  A node that is split keeps   *)
(* its lower half and gets a new right sibling, and only later does the    *)
(* inserter tell the parent: whoever comes to a node that has lost the key *)
(* goes on to the sibling.                                                 *)
(*                                                                         *)
(* An insert is named by the row it inserts.  No node is ever taken away:  *)
(* nobody calls delete, update or insertUnique of this class.              *)
(***************************************************************************)
EXTENDS Integers, Sequences, FiniteSets, SequencesExt, Maps

CONSTANTS
  Row,            \* rows to insert
  KeyOf(_),       \* the key of a row
  Search,         \* range searches
  Before(_),      \* the rows whose inserts end before a call begins
  Bounds,         \* what is searched for: pairs of a left and a right key
  BalanceNumber,  \* BALANCE_NUMBER
  MaxKey          \* Long.MAX_VALUE, the last key of the rightmost inner nodes

ASSUME BalanceAssumption == BalanceNumber \in Nat \ {0, 1}

(* A key or the left end of a range that is Long.MAX_VALUE is below no     *)
(* separator: searchNext would find neither a son nor a sibling for it.    *)
ASSUME KeysAssumption == MaxKey \in Int /\ \A r \in Row : KeyOf(r) \in Int /\ KeyOf(r) < MaxKey
ASSUME BoundsAssumption == \A b \in Bounds : b[1] \in Int /\ b[2] \in Int /\ b[1] < MaxKey

VARIABLES
  nodes,  \* uid -> [leaf, keys, sons, sibling]; sibling 0: none
  root,   \* the uid in bootDataItem
  ins,    \* insert in progress -> its place and locals
  done,   \* rows whose insert returned
  find,   \* search in progress -> its place and what it has found
  found   \* search -> its result, with the rows inserted before it began

vars == <<nodes, root, ins, done, find, found>>

Node(leaf, keys, sons, sibling) == [leaf |-> leaf, keys |-> keys, sons |-> sons, sibling |-> sibling]

(* newNilRootRaw; the tree as create leaves it.                            *)
Init ==
  /\ nodes = [u \in {1} |-> Node(TRUE, <<>>, <<>>, 0)] /\ root = 1
  /\ ins = <<>> /\ done = {} /\ find = <<>> /\ found = <<>>

NewUid == Cardinality(DOMAIN nodes) + 1

----------------------------------------------------------------------------
(* Node.java: what is done with one node.                                  *)

FirstIndex(s, Test(_)) ==
  LET I == {i \in 1 .. Len(s) : Test(s[i])} IN IF I = {} THEN Len(s) + 1 ELSE Min(I)

(* searchNext: the son to go on with, if there is one in this node.        *)
NextSon(n, key) == FirstIndex(n.keys, LAMBDA k : key < k)

Place(n, key) == FirstIndex(n.keys, LAMBDA k : key <= k)

(* A mutant of GoesRight that never looks for the sibling.                 *)
GoesRightNever(n, key) == FALSE
(* insert refuses: the key belongs further right.                          *)
GoesRight(n, key) == Place(n, key) > Len(n.keys) /\ n.sibling # 0

(* A mutant of Inserted that puts the new son in front of the split one.   *)
InsertedLeft(n, key, son) ==
  LET i == Place(n, key)
  IN  [n EXCEPT !.keys = InsertAt(@, i, key), !.sons = InsertAt(@, i, son)]

(* insert of a node: in an inner node the new son takes the upper part of  *)
(* the son it was split from, and the key parts them.                      *)
Inserted(n, key, son) ==
  LET i == Place(n, key)
  IN  [n EXCEPT !.keys = InsertAt(@, i, key),
                !.sons = InsertAt(@, IF n.leaf THEN i ELSE i + 1, son)]

(* A mutant of NeedSplit that comes one key late.                          *)
NeedSplitLate(n) == Len(n.keys) = 2 * BalanceNumber + 1
(* needSplit.                                                              *)
NeedSplit(n) == Len(n.keys) = 2 * BalanceNumber

(* split: the upper half becomes the node uid ...                          *)
UpperHalf(n) ==
  Node(n.leaf, SubSeq(n.keys, BalanceNumber + 1, Len(n.keys)),
       SubSeq(n.sons, BalanceNumber + 1, Len(n.sons)), n.sibling)
(* ... and the sibling of the lower half, which stays where it was.        *)
LowerHalf(n, uid) ==
  Node(n.leaf, SubSeq(n.keys, 1, BalanceNumber), SubSeq(n.sons, 1, BalanceNumber), uid)

----------------------------------------------------------------------------
(* insert                                                                  *)

(* path: the nodes the recursion passed through; at: the node to visit     *)
(* next, at the end of path or right of it; key and son: what to insert    *)
(* there.                                                                  *)
InsertBegin(r) ==
  /\ r \notin done \cup DOMAIN ins
  /\ Before(r) \subseteq done
  /\ ins' = Put(ins, r, [pc |-> "down", path |-> <<root>>, at |-> root, key |-> KeyOf(r), son |-> r])
  /\ UNCHANGED <<nodes, root, done, find, found>>

(* One visit on the way down: to a son, to the sibling, or at a leaf.      *)
InsertDown(r) ==
  /\ r \in DOMAIN ins /\ ins[r].pc = "down"
  /\ LET n == nodes[ins[r].at]
         i == NextSon(n, ins[r].key)
     IN  ins' = CASE n.leaf -> [ins EXCEPT ![r].pc = "put"]
                  [] ~n.leaf /\ i <= Len(n.keys) ->
                       [ins EXCEPT ![r].path = Append(@, n.sons[i]), ![r].at = n.sons[i]]
                  [] OTHER -> [ins EXCEPT ![r].at = n.sibling]
  /\ UNCHANGED <<nodes, root, done, find, found>>

AtPut(r) == r \in DOMAIN ins /\ ins[r].pc = "put"

(* A mutant of InsertRight that looks at the same node again.              *)
InsertRightStays(r) ==
  /\ AtPut(r)
  /\ GoesRight(nodes[ins[r].at], ins[r].key)
  /\ ins' = [ins EXCEPT ![r].son = @]
  /\ UNCHANGED <<nodes, root, done, find, found>>

(* insertAndSplit goes on to the sibling,                                  *)
InsertRight(r) ==
  /\ AtPut(r)
  /\ GoesRight(nodes[ins[r].at], ins[r].key)
  /\ ins' = [ins EXCEPT ![r].at = nodes[@].sibling]
  /\ UNCHANGED <<nodes, root, done, find, found>>

(* or inserts, and the recursion returns with nothing left to do,          *)
InsertPut(r) ==
  /\ AtPut(r)
  /\ LET at == ins[r].at
         n == Inserted(nodes[at], ins[r].key, ins[r].son)
     IN  /\ ~GoesRight(nodes[at], ins[r].key)
         /\ ~NeedSplit(n)
         /\ nodes' = [nodes EXCEPT ![at] = n]
  /\ ins' = Without(ins, r) /\ done' = done \cup {r}
  /\ UNCHANGED <<root, find, found>>

(* or splits the node; the parent, if the path has one, is next.           *)
InsertSplit(r) ==
  /\ AtPut(r)
  /\ LET at == ins[r].at
         n == Inserted(nodes[at], ins[r].key, ins[r].son)
         up == Front(ins[r].path)
         told == [ins[r] EXCEPT !.key = UpperHalf(n).keys[1], !.son = NewUid]
     IN  /\ ~GoesRight(nodes[at], ins[r].key)
         /\ NeedSplit(n)
         /\ nodes' = Put([nodes EXCEPT ![at] = LowerHalf(n, NewUid)], NewUid, UpperHalf(n))
         /\ ins' = [ins EXCEPT ![r] = IF up = <<>> THEN [told EXCEPT !.pc = "root"]
                                      ELSE [told EXCEPT !.path = up, !.at = Last(up)]]
  /\ UNCHANGED <<root, done, find, found>>

(* updateRootUid, over the root this insert began at.                      *)
UpdateRoot(r) ==
  /\ r \in DOMAIN ins /\ ins[r].pc = "root"
  /\ nodes' = Put(nodes, NewUid,
                  Node(FALSE, <<ins[r].key, MaxKey>>, <<ins[r].path[1], ins[r].son>>, 0))
  /\ root' = NewUid
  /\ ins' = Without(ins, r) /\ done' = done \cup {r}
  /\ UNCHANGED <<find, found>>

----------------------------------------------------------------------------
(* searchRange                                                             *)

SearchBegin(s, left, right) ==
  /\ s \notin DOMAIN find \cup DOMAIN found
  /\ Before(s) \subseteq done
  /\ find' = Put(find, s, [at |-> root, left |-> left, right |-> right, rows |-> <<>>, before |-> done])
  /\ UNCHANGED <<nodes, root, ins, done, found>>

SearchDown(s) ==
  /\ s \in DOMAIN find
  /\ LET n == nodes[find[s].at]
         i == NextSon(n, find[s].left)
     IN  /\ ~n.leaf
         /\ find' = [find EXCEPT ![s].at = IF i <= Len(n.keys) THEN n.sons[i] ELSE n.sibling]
  /\ UNCHANGED <<nodes, root, ins, done, found>>

(* A mutant of ReadsOn that stops at a leaf that had nothing.              *)
ReadsOnIfFound(n, first, end) == end > Len(n.keys) /\ n.sibling # 0 /\ first < end
(* The leaf was used up to its end: there may be more in the next one.     *)
ReadsOn(n, first, end) == end > Len(n.keys) /\ n.sibling # 0

(* leafSearchRange, and what searchRange does with it.                      *)
SearchLeaf(s) ==
  /\ s \in DOMAIN find
  /\ LET n == nodes[find[s].at]
         first == Place(n, find[s].left)
         end == Max({first, NextSon(n, find[s].right)})
         read == [find[s] EXCEPT !.rows = @ \o SubSeq(n.sons, first, end - 1)]
     IN  /\ n.leaf
         /\ IF ReadsOn(n, first, end)
            THEN find' = [find EXCEPT ![s] = [read EXCEPT !.at = n.sibling]] /\ UNCHANGED found
            ELSE find' = Without(find, s) /\ found' = Put(found, s, read)
  /\ UNCHANGED <<nodes, root, ins, done>>

----------------------------------------------------------------------------
Inserting(r) == InsertDown(r) \/ InsertRight(r) \/ InsertPut(r) \/ InsertSplit(r) \/ UpdateRoot(r)
Searching(s) == SearchDown(s) \/ SearchLeaf(s)
Going == (\E r \in Row : Inserting(r)) \/ (\E s \in Search : Searching(s))

Next ==
  \/ \E r \in Row : InsertBegin(r)
  \/ \E s \in Search, b \in Bounds : SearchBegin(s, b[1], b[2])
  \/ Going

Spec == Init /\ [][Next]_vars

(* As long as a call is going on, some call goes on: nobody waits for more *)
(* than the latch of a node.                                               *)
FairSpec == Spec /\ WF_vars(Going)

----------------------------------------------------------------------------
Uid == DOMAIN nodes
IsNode(n) ==
  /\ Len(n.keys) = Len(n.sons) /\ Len(n.keys) < 2 * BalanceNumber
  /\ n.sibling \in Uid \cup {0}
  /\ \A i \in 1 .. Len(n.sons) : n.sons[i] \in IF n.leaf THEN Row ELSE Uid

TypeOK ==
  /\ \A u \in Uid : IsNode(nodes[u])
  /\ root \in Uid
  /\ DOMAIN ins \subseteq Row \ done
  /\ \A r \in DOMAIN ins : ins[r].at \in Uid /\ Range(ins[r].path) \subseteq Uid
  /\ DOMAIN find \subseteq Search /\ \A s \in DOMAIN find : find[s].at \in Uid
  /\ DOMAIN found \subseteq Search

Leaf == {u \in Uid : nodes[u].leaf}
FirstLeaf == 1

(* A leaf and the leaves to its right: what no set misses that holds u     *)
(* and, with a leaf, its sibling.                                          *)
Onward(u) ==
  LET closed == {S \in SUBSET Leaf : u \in S /\ \A v \in S : nodes[v].sibling \in S \cup {0}}
  IN  {v \in Leaf : \A S \in closed : v \in S}

(* Who goes right on the leaves comes to all of them and never back, to    *)
(* larger keys only, and passes every row whose insert returned once,      *)
(* whatever is going on.                                                   *)
LeavesAreSorted ==
  LET onward == [u \in Leaf |-> Onward(u)]
      Keys(u) == Range(nodes[u].keys)
      Rows(u) == Range(nodes[u].sons)
  IN  /\ onward[FirstLeaf] = Leaf
      /\ done \subseteq UNION {Rows(u) : u \in Leaf}
      /\ \A u \in Leaf : LET n == nodes[u] IN
           /\ IsInjective(n.sons)
           /\ \A i \in 1 .. Len(n.keys) : n.keys[i] = KeyOf(n.sons[i])
           /\ \A i \in 1 .. Len(n.keys) - 1 : n.keys[i] <= n.keys[i + 1]
           /\ \A v \in onward[u] \ {u} :
                /\ u \notin onward[v]
                /\ Rows(u) \cap Rows(v) = {}
                /\ \A k \in Keys(u), m \in Keys(v) : k <= m

(* A separator never sends anybody past what he looks for: the leaves to   *)
(* the left of a son begin no key beyond the separator before it, so what  *)
(* is missing is found by going right.  Also right after a split the       *)
(* parent has not heard of (BPlusTree.java:134), and under a root written  *)
(* over with a stale one (BPlusTree.java:115).                             *)
LeftmostLeaf[u \in Uid] == IF nodes[u].leaf THEN u ELSE LeftmostLeaf[nodes[u].sons[1]]
NeverTooFarRight ==
  LET onward == [u \in Leaf |-> Onward(u)]
      LeftOf(v) == {u \in Leaf \ {v} : v \in onward[u]}
  IN  \A u \in Uid : LET n == nodes[u] IN
        ~n.leaf => \A i \in 1 .. Len(n.keys) - 1 :
          /\ n.keys[i] <= n.keys[i + 1]
          /\ \A v \in LeftOf(LeftmostLeaf[n.sons[i + 1]]) :
               \A k \in Range(nodes[v].keys) : k <= n.keys[i]

(* A search finds every row whose insert returned before it began and      *)
(* whose key is in its range, once, and nothing outside the range.  Rows   *)
(* that share the left end of the range with others may be missed: the     *)
(* search begins right of a separator equal to it (BPlusTree.java:94).     *)
SearchComplete ==
  \A s \in DOMAIN found :
    LET f == found[s]
        InRange(r) == f.left <= KeyOf(r) /\ KeyOf(r) <= f.right
        Shared(r) == KeyOf(r) = f.left /\ \E q \in Row \ {r} : KeyOf(q) = KeyOf(r)
    IN  /\ IsInjective(f.rows)
        /\ \A i \in 1 .. Len(f.rows) : InRange(f.rows[i])
        /\ \A r \in f.before : InRange(r) /\ ~Shared(r) => r \in Range(f.rows)

(* What is begun ends: nobody walks the siblings for ever, however many    *)
(* nodes are split in front of him (BPlusTree.java:79, 144).               *)
EveryCallReturns == <>[](ins = <<>> /\ find = <<>>)
=============================================================================
