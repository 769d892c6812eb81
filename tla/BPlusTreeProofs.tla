--------------------------- MODULE BPlusTreeProofs ---------------------------
(***************************************************************************)
(* Whoever goes through the tree goes right of nothing he looks for.  The  *)
(* nodes form a tree (IsTree) after every step, and what the calls that    *)
(* are in progress know of it, of a node and a key mostly, stays true      *)
(* while others insert and split.                                          *)
(*                                                                         *)
(* The operators have the nodes as an argument, ns, so that the same lemma *)
(* serves the nodes before a step, after it, and between the insertion     *)
(* into a node and its split.                                              *)
(***************************************************************************)
EXTENDS BPlusTree, FiniteSetTheorems, WellFoundedInduction, TLAPS

(* A node of its kind, in order; U: the uids in use.                       *)
IsNodeOf(n, U) ==
  /\ n \in [leaf : BOOLEAN, keys : Seq(Int), sons : Seq(Row \cup U), sibling : U \cup {0}]
  /\ Len(n.keys) = Len(n.sons)
  /\ \A i, j \in 1 .. Len(n.keys) : i <= j => n.keys[i] <= n.keys[j]
IsLeafNode(n) ==
  \A i \in 1 .. Len(n.keys) : n.sons[i] \in Row /\ n.keys[i] = KeyOf(n.sons[i])
IsInnerNode(n, U) ==
  /\ n.keys # <<>>
  /\ \A i \in 1 .. Len(n.keys) : n.sons[i] \in U /\ n.keys[i] <= MaxKey
  /\ n.sibling = 0 => n.keys[Len(n.keys)] = MaxKey
IsKind(n, U) == IF n.leaf THEN IsLeafNode(n) ELSE IsInnerNode(n, U)

LeafOf(ns) == {u \in DOMAIN ns : ns[u].leaf}

(* Levels: a sibling is of the same kind.                                  *)
NodesRight(ns) ==
  /\ \A u \in DOMAIN ns :
       /\ IsNodeOf(ns[u], DOMAIN ns)
       /\ IsKind(ns[u], DOMAIN ns)
       /\ ns[u].sibling # 0 => ns[ns[u].sibling].leaf = ns[u].leaf
  /\ 1 \in LeafOf(ns)
  /\ 0 \notin DOMAIN ns

(* Onward(u) of the model, and the leaves on the way to v.                 *)
Reach(ns, u) ==
  LET closed == {S \in SUBSET LeafOf(ns) : u \in S /\ \A v \in S : ns[v].sibling \in S \cup {0}}
  IN  {v \in LeafOf(ns) : \A S \in closed : v \in S}
LeftOf(ns, v) == {u \in LeafOf(ns) \ {v} : v \in Reach(ns, u)}

(* The rows on the leaves left of the leaf v, and on any leaf.             *)
RowsLeft(ns, v) == UNION {Range(ns[u].sons) : u \in LeftOf(ns, v)}
RowsOf(ns) == UNION {Range(ns[u].sons) : u \in LeafOf(ns)}

(* One line of leaves, each row on it once.                                *)
Line(ns) ==
  /\ LeafOf(ns) \subseteq Reach(ns, 1)
  /\ \A u \in LeafOf(ns) : ns[u].sibling # u
  /\ \A u, v \in LeafOf(ns) : v \in Reach(ns, u) /\ u \in Reach(ns, v) => u = v
LineSorted(ns) ==
  /\ \A u \in LeafOf(ns) : IsInjective(ns[u].sons)
  /\ \A u, v \in LeafOf(ns) : v \in Reach(ns, u) /\ u # v =>
       /\ Range(ns[u].sons) \cap Range(ns[v].sons) = {}
       /\ \A p \in Range(ns[u].sons), q \in Range(ns[v].sons) : KeyOf(p) <= KeyOf(q)

(* The leaf at the left end of what is below a node.                       *)
LeftEnd(ns) == LET f[u \in DOMAIN ns] == IF ns[u].leaf THEN u ELSE f[ns[u].sons[1]] IN f

IsEnds(ns, f) == f = [u \in DOMAIN ns |-> IF ns[u].leaf THEN u ELSE f[ns[u].sons[1]]]
Founded(ns) ==
  /\ IsEnds(ns, LeftEnd(ns))
  /\ \A f, g : IsEnds(ns, f) /\ IsEnds(ns, g) => f = g
  /\ \A u \in DOMAIN ns : LeftEnd(ns)[u] \in LeafOf(ns)

(* A row below a key, or one that shares it.                               *)
Under(q, k) == KeyOf(q) < k \/ (KeyOf(q) = k /\ \E p \in Row \ {q} : KeyOf(p) = k)
(* Nothing from k on is left of v, but for rows that share the key k.      *)
Bounded(ns, v, k) == \A q \in RowsLeft(ns, LeftEnd(ns)[v]) : Under(q, k)

Separated(ns) ==
  \A u \in DOMAIN ns : LET n == ns[u] IN ~n.leaf =>
    /\ \A i \in 1 .. Len(n.keys) - 1 : Bounded(ns, n.sons[i + 1], n.keys[i])
    /\ n.sibling # 0 => Bounded(ns, n.sibling, n.keys[Len(n.keys)])

IsTree(ns) == NodesRight(ns) /\ Line(ns) /\ LineSorted(ns) /\ Founded(ns) /\ Separated(ns)

(* What the insert of r knows: it need not go left of where it is, and the *)
(* parent of what it split need not go left of the place of the new son.   *)
InsertKnows(r) ==
  LET c == ins[r]
      leaf == nodes[c.at].leaf
  IN  /\ c \in [pc : {"down", "put", "root"}, path : Seq(Uid), at : Uid, key : Int, son : Row \cup Uid]
      /\ c.key <= MaxKey
      /\ c.path # <<>> /\ LeftEnd(nodes)[c.path[1]] = FirstLeaf
      /\ \A i \in 1 .. Len(c.path) - 1 : ~nodes[c.path[i]].leaf
      /\ nodes[c.path[Len(c.path)]].leaf = leaf
      /\ IF c.pc = "down" \/ (c.pc = "put" /\ leaf)
         THEN c.key = KeyOf(r) /\ c.son = r /\ Bounded(nodes, c.at, c.key)
         ELSE c.son \in Uid /\ Bounded(nodes, c.son, c.key)

(* A row is on a leaf from the moment it was put there.                    *)
Placed(r) ==
  r \in done \/ (r \in DOMAIN ins /\ (ins[r].pc = "root" \/ (ins[r].pc = "put" /\ ~nodes[ins[r].at].leaf)))
RowsPlaced == \A r \in Row : r \in RowsOf(nodes) <=> Placed(r)

(* What a search has to find, when it was inserted before.                 *)
Sought(f, r) ==
  /\ f.left <= KeyOf(r) /\ KeyOf(r) <= f.right
  /\ ~(KeyOf(r) = f.left /\ \E q \in Row \ {r} : KeyOf(q) = KeyOf(r))

(* What the search s knows: on the way down that it need not go left; on   *)
(* a leaf that it has found what is left of it.                            *)
SearchKnows(s) ==
  LET f == find[s]
  IN  /\ f \in [at : Uid, left : Int, right : Int, rows : Seq(Row), before : SUBSET done]
      /\ f.left < MaxKey
      /\ IsInjective(f.rows)
      /\ \A r \in Range(f.rows) : f.left <= KeyOf(r) /\ KeyOf(r) <= f.right
      /\ IF nodes[f.at].leaf
         THEN /\ Range(f.rows) \subseteq RowsLeft(nodes, f.at)
              /\ \A r \in RowsLeft(nodes, f.at) \cap f.before : Sought(f, r) => r \in Range(f.rows)
         ELSE f.rows = <<>> /\ Bounded(nodes, f.at, f.left)

Sizes ==
  /\ \E n \in Nat : Uid = 1 .. n
  /\ \A u \in Uid : Len(nodes[u].keys) < 2 * BalanceNumber

CallsTyped ==
  /\ root \in Uid /\ LeftEnd(nodes)[root] = FirstLeaf
  /\ done \subseteq Row /\ DOMAIN ins \subseteq Row \ done
  /\ DOMAIN find \subseteq Search /\ DOMAIN found \subseteq Search

TreeInv ==
  /\ IsTree(nodes) /\ Sizes /\ CallsTyped /\ RowsPlaced
  /\ \A r \in DOMAIN ins : InsertKnows(r)
  /\ \A s \in DOMAIN find : SearchKnows(s)
  /\ SearchComplete
----------------------------------------------------------------------------
(* The line of leaves.                                                     *)

IsClosed(ns, S) == S \subseteq LeafOf(ns) /\ \A v \in S : ns[v].sibling \in S \cup {0}

LEMMA ReachDef ==
  ASSUME NEW ns, NEW u, NEW v
  PROVE  v \in Reach(ns, u) <=> v \in LeafOf(ns) /\ \A S : IsClosed(ns, S) /\ u \in S => v \in S
BY DEF Reach, IsClosed

LEMMA ReachUse ==
  ASSUME NEW ns, NEW u, NEW v \in Reach(ns, u), NEW S, IsClosed(ns, S), u \in S
  PROVE  v \in S
BY ReachDef

LEMMA ReachLeaves == ASSUME NEW ns, NEW u, NEW v \in Reach(ns, u) PROVE v \in LeafOf(ns)
BY ReachDef

LEMMA ReachSelf == ASSUME NEW ns, NEW u \in LeafOf(ns) PROVE u \in Reach(ns, u)
BY ReachDef

LEMMA LeavesClosed ==
  ASSUME NEW ns, NodesRight(ns)
  PROVE  IsClosed(ns, LeafOf(ns))
<1> SUFFICES ASSUME NEW v \in LeafOf(ns), ns[v].sibling # 0 PROVE ns[v].sibling \in LeafOf(ns)
  BY DEF IsClosed
<1>1. ns[v].sibling \in DOMAIN ns
  BY DEF NodesRight, IsNodeOf, LeafOf
<1> QED BY <1>1 DEF NodesRight, LeafOf

LEMMA ReachStep ==
  ASSUME NEW ns, NodesRight(ns), NEW u, NEW v \in Reach(ns, u), ns[v].sibling # 0
  PROVE  ns[v].sibling \in Reach(ns, u)
<1>1. ns[v].sibling \in LeafOf(ns)
  BY LeavesClosed, ReachLeaves DEF IsClosed
<1>2. ASSUME NEW S, IsClosed(ns, S), u \in S PROVE ns[v].sibling \in S
  BY <1>2, ReachUse DEF IsClosed
<1> QED BY <1>1, <1>2, ReachDef

LEMMA ReachTrans ==
  ASSUME NEW ns, NEW u, NEW v \in Reach(ns, u), NEW w \in Reach(ns, v)
  PROVE  w \in Reach(ns, u)
BY ReachDef

LEMMA ReachClosed ==
  ASSUME NEW ns, NodesRight(ns), NEW u
  PROVE  IsClosed(ns, Reach(ns, u))
BY ReachStep, ReachLeaves DEF IsClosed

(* Right of a leaf is what is right of its sibling.                        *)
LEMMA ReachFirst ==
  ASSUME NEW ns, NodesRight(ns), NEW u \in LeafOf(ns), NEW w \in Reach(ns, u), w # u
  PROVE  ns[u].sibling # 0 /\ w \in Reach(ns, ns[u].sibling)
<1> DEFINE x == ns[u].sibling
           S == {u} \cup IF x = 0 THEN {} ELSE Reach(ns, x)
<1>1. x # 0 => x \in LeafOf(ns)
  BY LeavesClosed DEF IsClosed
<1>2. x # 0 => x \in S
  BY <1>1, ReachSelf
<1>3. IsClosed(ns, S)
  <2>1. S \subseteq LeafOf(ns)
    BY ReachLeaves
  <2>2. ASSUME NEW v \in S PROVE ns[v].sibling \in S \cup {0}
    BY <1>2, ReachStep
  <2> QED BY <2>1, <2>2 DEF IsClosed
<1>4. w \in S
  BY <1>3, ReachUse
<1> QED BY <1>4

LEMMA LineTotal ==
  ASSUME NEW ns, NodesRight(ns), Line(ns), NEW u \in LeafOf(ns), NEW v \in LeafOf(ns)
  PROVE  v \in Reach(ns, u) \/ u \in Reach(ns, v)
<1> DEFINE S == {x \in LeafOf(ns) : x \in Reach(ns, u) \/ u \in Reach(ns, x)}
<1>1. IsClosed(ns, S)
  <2> SUFFICES ASSUME NEW x \in S, ns[x].sibling # 0 PROVE ns[x].sibling \in S
    BY DEF IsClosed
  <2>1. ns[x].sibling \in LeafOf(ns)
    BY LeavesClosed DEF IsClosed
  <2>2. CASE x \in Reach(ns, u)
    BY <2>1, <2>2, ReachStep
  <2>3. CASE u \in Reach(ns, x) /\ u # x
    BY <2>1, <2>3, ReachFirst
  <2>4. CASE u = x
    BY <2>1, <2>4, ReachSelf, ReachStep
  <2> QED BY <2>2, <2>3, <2>4
<1>2. u \in Reach(ns, 1) /\ v \in Reach(ns, 1)
  BY DEF Line
<1>3. 1 \in S
  BY <1>2 DEF NodesRight
<1>4. v \in S
  BY <1>1, <1>2, <1>3, ReachUse
<1> QED BY <1>4

(* The line only depends on the leaves and their siblings.                 *)
LEMMA SameLine ==
  ASSUME NEW ns, NEW ms, LeafOf(ms) = LeafOf(ns),
         \A v \in LeafOf(ns) : ms[v].sibling = ns[v].sibling
  PROVE  /\ \A u : Reach(ms, u) = Reach(ns, u)
         /\ \A u : LeftOf(ms, u) = LeftOf(ns, u)
         /\ Line(ns) => Line(ms)
<1>1. \A S : IsClosed(ms, S) <=> IsClosed(ns, S)
  BY DEF IsClosed
<1>2. ASSUME NEW u, NEW v PROVE v \in Reach(ms, u) <=> v \in Reach(ns, u)
  BY <1>1, ReachDef
<1>3. ASSUME NEW u PROVE Reach(ms, u) = Reach(ns, u)
  BY <1>2
<1> QED BY <1>3 DEF LeftOf, Line

(* The leaf p keeps its lower half; w is the new one.                      *)
LeafSplits(ns, ms, p, w) ==
  /\ p \in LeafOf(ns) /\ w \notin LeafOf(ns) /\ w # 0
  /\ LeafOf(ms) = LeafOf(ns) \cup {w}
  /\ ms[p].sibling = w /\ ms[w].sibling = ns[p].sibling
  /\ \A v \in LeafOf(ns) \ {p} : ms[v].sibling = ns[v].sibling

LEMMA SplitReachOld ==
  ASSUME NEW ns, NodesRight(ns), NEW ms, NEW p, NEW w, LeafSplits(ns, ms, p, w),
         NEW a \in LeafOf(ns)
  PROVE  /\ \A b \in LeafOf(ns) : b \in Reach(ms, a) <=> b \in Reach(ns, a)
         /\ w \in Reach(ms, a) <=> p \in Reach(ns, a)
<1>1. ASSUME NEW S, IsClosed(ns, S), p \in S PROVE IsClosed(ms, S \cup {w})
  BY <1>1 DEF IsClosed, LeafSplits
<1>2. ASSUME NEW S, IsClosed(ns, S), p \notin S PROVE IsClosed(ms, S)
  BY <1>2 DEF IsClosed, LeafSplits
<1>3. ASSUME NEW S, IsClosed(ms, S) PROVE IsClosed(ns, S \ {w})
  <2> SUFFICES ASSUME NEW v \in S \ {w}, ns[v].sibling # 0 PROVE ns[v].sibling \in S \ {w}
    BY <1>3 DEF IsClosed, LeafSplits
  <2>1. v \in LeafOf(ns)
    BY <1>3 DEF IsClosed, LeafSplits
  <2>2. ns[v].sibling # w
    BY <2>1, LeavesClosed DEF IsClosed, LeafSplits
  <2>3. CASE v # p
    BY <1>3, <2>1, <2>2, <2>3 DEF IsClosed, LeafSplits
  <2>4. CASE v = p
    <3>1. w \in S
      BY <1>3, <2>4 DEF IsClosed, LeafSplits
    <3> QED BY <1>3, <3>1, <2>2, <2>4 DEF IsClosed, LeafSplits
  <2> QED BY <2>3, <2>4
<1>4. ASSUME NEW b \in LeafOf(ns), b \in Reach(ms, a) PROVE b \in Reach(ns, a)
  <2> SUFFICES ASSUME NEW S, IsClosed(ns, S), a \in S PROVE b \in S
    BY ReachDef
  <2>1. CASE p \in S
    <3>1. b \in S \cup {w}
      BY <1>1, <1>4, <2>1, ReachUse
    <3> QED BY <3>1 DEF LeafSplits
  <2>2. CASE p \notin S
    BY <1>2, <1>4, <2>2, ReachUse
  <2> QED BY <2>1, <2>2
<1>5. ASSUME NEW b \in LeafOf(ns), b \in Reach(ns, a) PROVE b \in Reach(ms, a)
  <2> SUFFICES ASSUME NEW S, IsClosed(ms, S), a \in S PROVE b \in S
    BY ReachDef DEF LeafSplits
  <2>1. b \in S \ {w}
    <3>1. a \in S \ {w}
      BY DEF LeafSplits
    <3> QED BY <1>3, <1>5, <3>1, ReachUse
  <2> QED BY <2>1
<1>6. ASSUME w \in Reach(ms, a) PROVE p \in Reach(ns, a)
  <2> SUFFICES ASSUME NEW S, IsClosed(ns, S), a \in S, p \notin S PROVE FALSE
    BY ReachDef DEF LeafSplits
  <2>1. w \in S
    BY <1>2, <1>6, ReachUse
  <2> QED BY <2>1 DEF IsClosed, LeafSplits
<1>7. ASSUME p \in Reach(ns, a) PROVE w \in Reach(ms, a)
  <2> SUFFICES ASSUME NEW S, IsClosed(ms, S), a \in S PROVE w \in S
    BY ReachDef DEF LeafSplits
  <2>1. p \in S
    <3>1. a \in S \ {w}
      BY DEF LeafSplits
    <3> QED BY <1>3, <1>7, <3>1, ReachUse
  <2> QED BY <2>1 DEF IsClosed, LeafSplits
<1> QED BY <1>4, <1>5, <1>6, <1>7

LEMMA SplitReachNew ==
  ASSUME NEW ns, NodesRight(ns), Line(ns), NEW ms, NEW p, NEW w, LeafSplits(ns, ms, p, w)
  PROVE  /\ \A b \in LeafOf(ns) : b \in Reach(ms, w) <=> b \in Reach(ns, p) /\ b # p
         /\ w \in Reach(ms, w)
<1> DEFINE x == ns[p].sibling
<1>1. x # 0 => x \in LeafOf(ns) /\ x # w
  BY LeavesClosed DEF IsClosed, LeafSplits
<1>2. ASSUME NEW b \in LeafOf(ns), b \in Reach(ns, p), b # p PROVE b \in Reach(ms, w)
  <2> SUFFICES ASSUME NEW S, IsClosed(ms, S), w \in S PROVE b \in S
    BY ReachDef DEF LeafSplits
  <2>1. IsClosed(ms, S \cup {p})
    BY DEF IsClosed, LeafSplits
  <2>2. b \in Reach(ms, p)
    BY <1>2, SplitReachOld DEF LeafSplits
  <2>3. b \in S \cup {p}
    BY <2>1, <2>2, ReachUse
  <2> QED BY <2>3, <1>2
<1>3. ASSUME NEW b \in LeafOf(ns), b \in Reach(ms, w) PROVE b \in Reach(ns, p) /\ b # p
  <2> DEFINE S == {w} \cup IF x = 0 THEN {} ELSE Reach(ns, x)
  <2>1. p \notin S
    <3>1. x # 0 => x \in Reach(ns, p)
      BY ReachSelf, ReachStep DEF LeafSplits
    <3>2. x # 0 /\ p \in Reach(ns, x) => x = p
      BY <1>1, <3>1 DEF Line, LeafSplits
    <3>3. x # p
      BY DEF Line, LeafSplits
    <3> QED BY <3>2, <3>3 DEF LeafSplits
  <2>2. x # 0 => x \in Reach(ns, x)
    BY <1>1, ReachSelf
  <2>3. IsClosed(ms, S)
    <3>1. x # 0 => IsClosed(ns, Reach(ns, x))
      BY ReachClosed
    <3> QED BY <2>1, <2>2, <3>1 DEF IsClosed, LeafSplits
  <2>4. b \in S
    BY <1>3, <2>3, ReachUse
  <2>5. x # 0 /\ b \in Reach(ns, x)
    BY <2>4 DEF LeafSplits
  <2>6. x \in Reach(ns, p)
    BY <2>5, ReachSelf, ReachStep DEF LeafSplits
  <2> QED BY <2>1, <2>5, <2>6, ReachTrans
<1> QED BY <1>2, <1>3, ReachSelf DEF LeafSplits

(* After the split of a leaf the line has one leaf more.                   *)
LEMMA SplitLine ==
  ASSUME NEW ns, NodesRight(ns), Line(ns), NEW ms, NEW p, NEW w, LeafSplits(ns, ms, p, w)
  PROVE  Line(ms)
<1>1. LeafOf(ms) \subseteq Reach(ms, 1)
  <2>1. 1 \in LeafOf(ns) /\ p \in Reach(ns, 1)
    BY DEF NodesRight, Line, LeafSplits
  <2>2. LeafOf(ns) \subseteq Reach(ms, 1)
    BY <2>1, SplitReachOld DEF Line
  <2> QED BY <2>1, <2>2, SplitReachOld DEF LeafSplits
<1>2. \A u \in LeafOf(ms) : ms[u].sibling # u
  <2>1. ns[p].sibling # w
    BY LeavesClosed DEF IsClosed, LeafSplits
  <2> QED BY <2>1 DEF Line, LeafSplits
<1>3. ASSUME NEW u \in LeafOf(ms), NEW v \in LeafOf(ms), v \in Reach(ms, u), u \in Reach(ms, v)
      PROVE  u = v
  <2>1. ASSUME NEW a \in LeafOf(ns), a \in Reach(ms, w), w \in Reach(ms, a) PROVE FALSE
    <3>1. a \in Reach(ns, p) /\ a # p
      BY <2>1, SplitReachNew
    <3>2. p \in Reach(ns, a)
      BY <2>1, SplitReachOld
    <3> QED BY <3>1, <3>2 DEF Line, LeafSplits
  <2>2. CASE u \in LeafOf(ns) /\ v \in LeafOf(ns)
    <3>1. v \in Reach(ns, u) /\ u \in Reach(ns, v)
      BY <1>3, <2>2, SplitReachOld
    <3> QED BY <2>2, <3>1 DEF Line
  <2> QED BY <1>3, <2>1, <2>2 DEF LeafSplits
<1> QED BY <1>1, <1>2, <1>3 DEF Line

LEMMA SplitLeftOf ==
  ASSUME NEW ns, NodesRight(ns), Line(ns), NEW ms, NEW p, NEW w, LeafSplits(ns, ms, p, w)
  PROVE  /\ \A v \in LeafOf(ns) : LeftOf(ms, v) = LeftOf(ns, v) \cup {x \in {w} : p \in LeftOf(ns, v)}
         /\ LeftOf(ms, w) = LeftOf(ns, p) \cup {p}
<1>1. p \in LeafOf(ns) /\ w \notin LeafOf(ns) /\ LeafOf(ms) = LeafOf(ns) \cup {w}
  BY DEF LeafSplits
<1>2. ASSUME NEW v \in LeafOf(ns), NEW u PROVE u \in LeftOf(ms, v) <=> u \in LeftOf(ns, v) \/ (u = w /\ p \in LeftOf(ns, v))
  <2>1. CASE u = w
    BY <1>1, <2>1, SplitReachNew DEF LeftOf
  <2>2. CASE u \in LeafOf(ns)
    BY <1>1, <2>2, SplitReachOld DEF LeftOf
  <2> QED BY <1>1, <2>1, <2>2 DEF LeftOf
<1>3. ASSUME NEW u PROVE u \in LeftOf(ms, w) <=> u \in LeftOf(ns, p) \/ u = p
  <2>1. CASE u \in LeafOf(ns)
    BY <1>1, <2>1, SplitReachOld, ReachSelf DEF LeftOf
  <2> QED BY <1>1, <2>1 DEF LeftOf
<1>4. ASSUME NEW v \in LeafOf(ns) PROVE LeftOf(ms, v) = LeftOf(ns, v) \cup {x \in {w} : p \in LeftOf(ns, v)}
  BY <1>2
<1>5. LeftOf(ms, w) = LeftOf(ns, p) \cup {p}
  BY <1>3
<1> QED BY <1>4, <1>5

(* The rows of the split leaf are shared out between the two.              *)
RowsSplit(ns, ms, p, w) ==
  /\ Range(ns[p].sons) = Range(ms[p].sons) \cup Range(ms[w].sons)
  /\ \A v \in LeafOf(ns) \ {p} : ms[v].sons = ns[v].sons

LEMMA RowsLeftDef ==
  ASSUME NEW ns, NEW v, NEW q
  PROVE  /\ q \in RowsLeft(ns, v) <=> \E u \in LeftOf(ns, v) : q \in Range(ns[u].sons)
         /\ q \in RowsOf(ns) <=> \E u \in LeafOf(ns) : q \in Range(ns[u].sons)
BY DEF RowsLeft, RowsOf

LEMMA SplitRows ==
  ASSUME NEW ns, NodesRight(ns), Line(ns), NEW ms, NEW p, NEW w,
         LeafSplits(ns, ms, p, w), RowsSplit(ns, ms, p, w)
  PROVE  /\ \A v \in LeafOf(ns) : RowsLeft(ms, v) = RowsLeft(ns, v)
         /\ RowsLeft(ms, w) = RowsLeft(ns, p) \cup Range(ms[p].sons)
         /\ RowsOf(ms) = RowsOf(ns)
<1>1. p \in LeafOf(ns) /\ w \notin LeafOf(ns) /\ LeafOf(ms) = LeafOf(ns) \cup {w}
  BY DEF LeafSplits
<1>2. ASSUME NEW v \in LeafOf(ns), NEW q PROVE q \in RowsLeft(ms, v) <=> q \in RowsLeft(ns, v)
  <2>1. \A u : u \in LeftOf(ms, v) <=> u \in LeftOf(ns, v) \/ (u = w /\ p \in LeftOf(ns, v))
    BY SplitLeftOf
  <2>2. LeftOf(ns, v) \subseteq LeafOf(ns)
    BY DEF LeftOf
  <2>3. (\E u \in LeftOf(ms, v) : q \in Range(ms[u].sons)) <=> \E u \in LeftOf(ns, v) : q \in Range(ns[u].sons)
    BY <1>1, <2>1, <2>2 DEF RowsSplit
  <2> QED BY <2>3, RowsLeftDef
<1>3. ASSUME NEW q PROVE q \in RowsLeft(ms, w) <=> q \in RowsLeft(ns, p) \cup Range(ms[p].sons)
  <2>1. \A u : u \in LeftOf(ms, w) <=> u \in LeftOf(ns, p) \/ u = p
    BY SplitLeftOf
  <2>2. LeftOf(ns, p) \subseteq LeafOf(ns) \ {p}
    BY DEF LeftOf
  <2>3. (\E u \in LeftOf(ms, w) : q \in Range(ms[u].sons))
          <=> (\E u \in LeftOf(ns, p) : q \in Range(ns[u].sons)) \/ q \in Range(ms[p].sons)
    BY <2>1, <2>2 DEF RowsSplit
  <2> QED BY <2>3, RowsLeftDef
<1>4. ASSUME NEW q PROVE q \in RowsOf(ms) <=> q \in RowsOf(ns)
  BY <1>1, RowsLeftDef DEF RowsSplit
<1>5. ASSUME NEW v \in LeafOf(ns) PROVE RowsLeft(ms, v) = RowsLeft(ns, v)
  BY <1>2
<1> QED BY <1>3, <1>4, <1>5

LEMMA SplitSorted ==
  ASSUME NEW ns, NodesRight(ns), Line(ns), LineSorted(ns), NEW ms, NEW p, NEW w,
         LeafSplits(ns, ms, p, w), RowsSplit(ns, ms, p, w),
         IsInjective(ms[p].sons), IsInjective(ms[w].sons),
         Range(ms[p].sons) \cap Range(ms[w].sons) = {},
         \A a \in Range(ms[p].sons), b \in Range(ms[w].sons) : KeyOf(a) <= KeyOf(b)
  PROVE  LineSorted(ms)
<1>1. p \in LeafOf(ns) /\ w \notin LeafOf(ns) /\ LeafOf(ms) = LeafOf(ns) \cup {w}
  BY DEF LeafSplits
<1>2. \A u \in LeafOf(ms) : IsInjective(ms[u].sons)
  BY <1>1 DEF RowsSplit, LineSorted
<1>3. ASSUME NEW u \in LeafOf(ms), NEW v \in LeafOf(ms), v \in Reach(ms, u), u # v
      PROVE  /\ Range(ms[u].sons) \cap Range(ms[v].sons) = {}
             /\ \A a \in Range(ms[u].sons), b \in Range(ms[v].sons) : KeyOf(a) <= KeyOf(b)
  <2>1. \A x \in LeafOf(ns) : Range(ms[x].sons) \subseteq Range(ns[x].sons)
    BY DEF RowsSplit
  <2>2. Range(ms[w].sons) \subseteq Range(ns[p].sons)
    BY DEF RowsSplit
  <2>3. CASE u \in LeafOf(ns) /\ v \in LeafOf(ns)
    <3>1. v \in Reach(ns, u)
      BY <1>3, <2>3, SplitReachOld
    <3>2. /\ Range(ns[u].sons) \cap Range(ns[v].sons) = {}
          /\ \A a \in Range(ns[u].sons), b \in Range(ns[v].sons) : KeyOf(a) <= KeyOf(b)
      BY <1>3, <2>3, <3>1 DEF LineSorted
    <3> QED BY <2>1, <2>3, <3>2
  <2>4. CASE u = w
    <3>1. v \in LeafOf(ns) /\ v \in Reach(ns, p) /\ v # p
      BY <1>1, <1>3, <2>4, SplitReachNew
    <3>2. /\ Range(ns[p].sons) \cap Range(ns[v].sons) = {}
          /\ \A a \in Range(ns[p].sons), b \in Range(ns[v].sons) : KeyOf(a) <= KeyOf(b)
      BY <1>1, <3>1 DEF LineSorted
    <3> QED BY <2>1, <2>2, <2>4, <3>1, <3>2
  <2>5. CASE v = w /\ u # p
    <3>1. u \in LeafOf(ns) /\ p \in Reach(ns, u)
      BY <1>1, <1>3, <2>5, SplitReachOld
    <3>2. /\ Range(ns[u].sons) \cap Range(ns[p].sons) = {}
          /\ \A a \in Range(ns[u].sons), b \in Range(ns[p].sons) : KeyOf(a) <= KeyOf(b)
      BY <1>1, <2>5, <3>1 DEF LineSorted
    <3> QED BY <2>1, <2>2, <2>5, <3>1, <3>2
  <2>6. CASE v = w /\ u = p
    BY <2>6
  <2> QED BY <1>1, <2>3, <2>4, <2>5, <2>6
<1> QED BY <1>2, <1>3 DEF LineSorted

----------------------------------------------------------------------------
(* One node.                                                               *)

LEMMA FirstOf ==
  ASSUME NEW S \in SUBSET Nat, S # {}
  PROVE  Min(S) \in S /\ \A y \in S : Min(S) <= y
<1> DEFINE less == OpToRel(<, Nat)
<1>1. IsWellFoundedOn(less, Nat)
  BY NatLessThanWellFounded
<1>2. ASSUME NEW x \in Nat, NEW y \in Nat, y < x PROVE <<y, x>> \in less
  BY <1>2 DEF OpToRel
<1> HIDE DEF less
<1>3. PICK x \in S : \A y \in S : ~(<<y, x>> \in less)
  BY <1>1, WFMin
<1>4. \A y \in S : ~(y < x)
  BY <1>2, <1>3
<1>5. \E z \in S : \A y \in S : z <= y
  BY <1>4
<1> QED BY <1>5 DEF Min

LEMMA PlaceIs ==
  ASSUME NEW n, n.keys \in Seq(Int), NEW key \in Int
  PROVE  /\ Place(n, key) \in 1 .. Len(n.keys) + 1
         /\ \A j \in 1 .. Len(n.keys) : j < Place(n, key) => n.keys[j] < key
         /\ Place(n, key) <= Len(n.keys) => key <= n.keys[Place(n, key)]
<1> DEFINE I == {j \in 1 .. Len(n.keys) : key <= n.keys[j]}
<1>1. Place(n, key) = IF I = {} THEN Len(n.keys) + 1 ELSE Min(I)
  BY DEF Place, FirstIndex
<1>2. \A j \in 1 .. Len(n.keys) : n.keys[j] \in Int
  OBVIOUS
<1>3. I # {} => Min(I) \in I /\ \A y \in I : Min(I) <= y
  <2>1. I \in SUBSET Nat
    OBVIOUS
  <2> HIDE DEF I
  <2> QED BY <2>1, FirstOf
<1> HIDE DEF Place
<1>4. CASE I = {}
  BY <1>1, <1>2, <1>4
<1>5. CASE I # {}
  <2>1. Place(n, key) \in I /\ \A y \in I : Place(n, key) <= y
    BY <1>1, <1>3, <1>5
  <2> QED BY <1>2, <2>1
<1> QED BY <1>4, <1>5

LEMMA NextSonIs ==
  ASSUME NEW n, n.keys \in Seq(Int), NEW key \in Int
  PROVE  /\ NextSon(n, key) \in 1 .. Len(n.keys) + 1
         /\ \A j \in 1 .. Len(n.keys) : j < NextSon(n, key) => n.keys[j] <= key
         /\ NextSon(n, key) <= Len(n.keys) => key < n.keys[NextSon(n, key)]
<1> DEFINE I == {j \in 1 .. Len(n.keys) : key < n.keys[j]}
<1>1. NextSon(n, key) = IF I = {} THEN Len(n.keys) + 1 ELSE Min(I)
  BY DEF NextSon, FirstIndex
<1>2. \A j \in 1 .. Len(n.keys) : n.keys[j] \in Int
  OBVIOUS
<1>3. I # {} => Min(I) \in I /\ \A y \in I : Min(I) <= y
  <2>1. I \in SUBSET Nat
    OBVIOUS
  <2> HIDE DEF I
  <2> QED BY <2>1, FirstOf
<1> HIDE DEF NextSon
<1>4. CASE I = {}
  BY <1>1, <1>2, <1>4
<1>5. CASE I # {}
  <2>1. NextSon(n, key) \in I /\ \A y \in I : NextSon(n, key) <= y
    BY <1>1, <1>3, <1>5
  <2> QED BY <1>2, <2>1
<1> QED BY <1>4, <1>5

(* t is s with e at the place i.                                           *)
IsWith(t, s, i, e) ==
  /\ Len(t) = Len(s) + 1
  /\ \A j \in 1 .. Len(s) + 1 : t[j] = IF j < i THEN s[j] ELSE IF j = i THEN e ELSE s[j - 1]

LEMMA InsertAtIs ==
  ASSUME NEW S, NEW s \in Seq(S), NEW e \in S, NEW i \in 1 .. Len(s) + 1
  PROVE  InsertAt(s, i, e) \in Seq(S) /\ IsWith(InsertAt(s, i, e), s, i, e)
<1> DEFINE a == SubSeq(s, 1, i - 1)
           b == SubSeq(s, i, Len(s))
<1>1. a \in Seq(S) /\ Len(a) = i - 1 /\ \A j \in 1 .. i - 1 : a[j] = s[j]
  OBVIOUS
<1>2. b \in Seq(S) /\ Len(b) = Len(s) - i + 1 /\ \A j \in 1 .. Len(s) - i + 1 : b[j] = s[j + i - 1]
  OBVIOUS
<1>3. InsertAt(s, i, e) = (a \o <<e>>) \o b
  BY DEF InsertAt
<1> HIDE DEF a, b
<1> DEFINE c == a \o <<e>>
<1>4. /\ c \in Seq(S) /\ Len(c) = i
      /\ \A j \in 1 .. i : c[j] = IF j < i THEN s[j] ELSE e
  BY <1>1
<1>5. InsertAt(s, i, e) = c \o b
  BY <1>3
<1> HIDE DEF c
<1> DEFINE d == c \o b
<1>6. d \in Seq(S) /\ Len(d) = Len(c) + Len(b)
  <2>1. c \in Seq(S) /\ b \in Seq(S)
    BY <1>2, <1>4
  <2> QED BY <2>1
<1>7. \A j \in 1 .. Len(c) + Len(b) : d[j] = IF j <= Len(c) THEN c[j] ELSE b[j - Len(c)]
  BY <1>2, <1>4
<1> HIDE DEF d
<1>8. ASSUME NEW j \in 1 .. Len(s) + 1
      PROVE  d[j] = IF j < i THEN s[j] ELSE IF j = i THEN e ELSE s[j - 1]
  <2>1. Len(c) + Len(b) = Len(s) + 1
    BY <1>2, <1>4
  <2>2. d[j] = IF j <= i THEN c[j] ELSE b[j - i]
    BY <1>4, <1>7, <2>1
  <2>3. CASE j <= i
    BY <1>4, <2>2, <2>3
  <2>4. CASE j > i
    <3>1. j - i \in 1 .. Len(s) - i + 1 /\ (j - i) + i - 1 = j - 1
      BY <2>4
    <3>2. b[j - i] = s[(j - i) + i - 1]
      BY <1>2, <3>1
    <3> QED BY <2>2, <2>4, <3>1, <3>2
  <2> QED BY <2>3, <2>4
<1>9. Len(d) = Len(s) + 1
  BY <1>2, <1>4, <1>6
<1>10. InsertAt(s, i, e) = d
  BY <1>5 DEF d
<1> QED BY <1>6, <1>8, <1>9, <1>10 DEF IsWith

LEMMA InsertAtRange ==
  ASSUME NEW S, NEW s \in Seq(S), NEW e \in S, NEW i \in 1 .. Len(s) + 1
  PROVE  /\ Range(InsertAt(s, i, e)) = Range(s) \cup {e}
         /\ IsInjective(s) /\ e \notin Range(s) => IsInjective(InsertAt(s, i, e))
<1>1. PICK t : /\ t = InsertAt(s, i, e) /\ t \in Seq(S) /\ Len(t) = Len(s) + 1
               /\ \A j \in 1 .. Len(s) + 1 : t[j] = IF j < i THEN s[j] ELSE IF j = i THEN e ELSE s[j - 1]
  BY InsertAtIs DEF IsWith
<1>2. DOMAIN t = 1 .. Len(s) + 1 /\ DOMAIN s = 1 .. Len(s) /\ Len(s) \in Nat
  BY <1>1
<1>3. ASSUME NEW x PROVE x \in Range(t) <=> x \in Range(s) \/ x = e
  <2>1. ASSUME x \in Range(t) PROVE x \in Range(s) \/ x = e
    <3>1. PICK j \in 1 .. Len(s) + 1 : x = t[j]
      BY <1>2, <2>1 DEF Range
    <3>2. j < i => j \in 1 .. Len(s)
      OBVIOUS
    <3>3. j > i => j - 1 \in 1 .. Len(s)
      OBVIOUS
    <3>4. CASE j < i
      BY <1>1, <1>2, <3>1, <3>2, <3>4 DEF Range
    <3>5. CASE j > i
      BY <1>1, <1>2, <3>1, <3>3, <3>5 DEF Range
    <3> QED BY <1>1, <3>1, <3>4, <3>5
  <2>2. ASSUME x \in Range(s) PROVE x \in Range(t)
    <3>1. PICK j \in 1 .. Len(s) : x = s[j]
      BY <1>2, <2>2 DEF Range
    <3>2. CASE j < i
      BY <1>1, <1>2, <3>1, <3>2 DEF Range
    <3>3. CASE j >= i
      <4>1. j + 1 \in 1 .. Len(s) + 1 /\ t[j + 1] = s[j]
        BY <1>1, <3>3
      <4> QED BY <1>2, <3>1, <4>1 DEF Range
    <3> QED BY <3>2, <3>3
  <2>3. e \in Range(t)
    BY <1>1, <1>2 DEF Range
  <2> QED BY <2>1, <2>2, <2>3
<1>4. ASSUME IsInjective(s), e \notin Range(s), NEW j \in 1 .. Len(s) + 1, NEW k \in 1 .. Len(s) + 1, t[j] = t[k]
      PROVE  j = k
  <2>1. \A m \in 1 .. Len(s) : s[m] # e
    BY <1>2, <1>4 DEF Range
  <2>2. \A l, m \in 1 .. Len(s) : s[l] = s[m] => l = m
    BY <1>2, <1>4 DEF IsInjective
  <2> DEFINE old(m) == IF m < i THEN m ELSE m - 1
  <2>3. \A m \in 1 .. Len(s) + 1 : m # i => t[m] = s[old(m)] /\ old(m) \in 1 .. Len(s)
    BY <1>1
  <2>4. \A l, m \in 1 .. Len(s) + 1 : l # i /\ m # i /\ old(l) = old(m) => l = m
    OBVIOUS
  <2>5. t[i] = e
    BY <1>1
  <2> HIDE DEF old
  <2>6. CASE j # i /\ k # i
    <3>1. s[old(j)] = s[old(k)] /\ old(j) \in 1 .. Len(s) /\ old(k) \in 1 .. Len(s)
      BY <1>4, <2>3, <2>6
    <3> QED BY <2>2, <2>4, <2>6, <3>1
  <2>7. CASE j = i /\ k # i
    BY <1>4, <2>1, <2>3, <2>5, <2>7
  <2>8. CASE j # i /\ k = i
    BY <1>4, <2>1, <2>3, <2>5, <2>8
  <2> QED BY <2>6, <2>7, <2>8
<1> QED BY <1>1, <1>2, <1>3, <1>4 DEF IsInjective

(* What may be inserted into a node.                                       *)
Fits(n, U, key, son) ==
  /\ key \in Int
  /\ IF n.leaf THEN son \in Row /\ key = KeyOf(son) ELSE son \in U /\ key <= MaxKey

(* In an inner node there is a separator at the place, and behind it.      *)
LEMMA PlaceInside ==
  ASSUME NEW U, 0 \notin U, NEW n, IsNodeOf(n, U), IsKind(n, U), NEW key \in Int, ~GoesRight(n, key),
         n.sibling = 0 /\ ~n.leaf => key <= MaxKey
  PROVE  n.sibling # 0 \/ ~n.leaf => Place(n, key) \in 1 .. Len(n.keys) /\ key <= n.keys[Place(n, key)]
<1>1. n.keys \in Seq(Int) /\ Len(n.keys) \in Nat
  BY DEF IsNodeOf
<1>2. Place(n, key) \in 1 .. Len(n.keys) + 1
  BY <1>1, PlaceIs
<1>3. ASSUME n.sibling # 0 \/ ~n.leaf PROVE Place(n, key) <= Len(n.keys)
  <2>1. CASE n.sibling # 0
    BY <1>1, <1>2, <2>1 DEF GoesRight
  <2>2. CASE n.sibling = 0 /\ ~n.leaf
    <3>1. Len(n.keys) \in 1 .. Len(n.keys) /\ key <= n.keys[Len(n.keys)]
      BY <1>1, <2>2 DEF IsKind, IsInnerNode
    <3>2. ~(n.keys[Len(n.keys)] < key)
      BY <1>1, <3>1
    <3>3. ~(Len(n.keys) < Place(n, key))
      BY <1>1, <3>1, <3>2, PlaceIs
    <3> QED BY <1>1, <1>2, <3>3
  <2> QED BY <1>3, <2>1, <2>2
<1> QED BY <1>1, <1>2, <1>3, PlaceIs

(* A node after an insertion.                                              *)
IsNodeWith(m, n, i, k, key, son) ==
  /\ m = [leaf |-> n.leaf, keys |-> m.keys, sons |-> m.sons, sibling |-> n.sibling]
  /\ IsWith(m.keys, n.keys, i, key)
  /\ IsWith(m.sons, n.sons, k, son)
SonPlace(n, key) == IF n.leaf THEN Place(n, key) ELSE Place(n, key) + 1

LEMMA InsertedKeys ==
  ASSUME NEW U, 0 \notin U, NEW n, IsNodeOf(n, U), IsKind(n, U), NEW key, NEW son,
         Fits(n, U, key, son), ~GoesRight(n, key)
  PROVE  /\ Inserted(n, key, son).keys \in Seq(Int)
         /\ Inserted(n, key, son).sons \in Seq(Row \cup U)
         /\ IsNodeWith(Inserted(n, key, son), n, Place(n, key), SonPlace(n, key), key, son)
         /\ Place(n, key) \in 1 .. Len(n.keys) + 1
         /\ ~n.leaf => Place(n, key) \in 1 .. Len(n.keys)
<1> DEFINE i == Place(n, key)
           k == SonPlace(n, key)
           m == Inserted(n, key, son)
<1>1. /\ n \in [leaf : BOOLEAN, keys : Seq(Int), sons : Seq(Row \cup U), sibling : U \cup {0}]
      /\ Len(n.keys) = Len(n.sons) /\ Len(n.keys) \in Nat /\ key \in Int /\ son \in Row \cup U
  BY DEF IsNodeOf, Fits
<1>2. n.keys \in Seq(Int) /\ n.sons \in Seq(Row \cup U)
  BY <1>1
<1>3. i \in 1 .. Len(n.keys) + 1
  BY <1>1, <1>2, PlaceIs
<1>4. ~n.leaf => i \in 1 .. Len(n.keys)
  BY <1>1, PlaceInside DEF Fits
<1>5. k \in 1 .. Len(n.sons) + 1
  BY <1>1, <1>3, <1>4 DEF SonPlace
<1>6. m = [leaf |-> n.leaf, keys |-> InsertAt(n.keys, i, key), sons |-> InsertAt(n.sons, k, son), sibling |-> n.sibling]
  <2>1. m = [n EXCEPT !.keys = InsertAt(@, i, key), !.sons = InsertAt(@, k, son)]
    BY DEF Inserted, SonPlace
  <2> HIDE DEF m, i, k
  <2> QED BY <1>1, <2>1
<1>7. Len(n.sons) = Len(n.keys) /\ key \in Int /\ son \in Row \cup U
  BY <1>1
<1> HIDE DEF m, i, k
<1>8. InsertAt(n.keys, i, key) \in Seq(Int) /\ IsWith(InsertAt(n.keys, i, key), n.keys, i, key)
  BY <1>2, <1>3, <1>7, InsertAtIs
<1>9. /\ InsertAt(n.sons, k, son) \in Seq(Row \cup U)
      /\ IsWith(InsertAt(n.sons, k, son), n.sons, k, son)
  BY <1>2, <1>5, <1>7, InsertAtIs
<1>10. m.keys = InsertAt(n.keys, i, key) /\ m.sons = InsertAt(n.sons, k, son)
  BY <1>6
<1> QED BY <1>3, <1>4, <1>6, <1>8, <1>9, <1>10 DEF m, i, k, IsNodeWith

(* Rows of a leaf after an insertion.                                      *)
AddsRow(m, n, son) ==
  /\ Range(m.sons) = Range(n.sons) \cup {son}
  /\ IsInjective(n.sons) /\ son \notin Range(n.sons) => IsInjective(m.sons)
LEMMA InsertedRows ==
  ASSUME NEW U, 0 \notin U, NEW n, IsNodeOf(n, U), IsKind(n, U), NEW key, NEW son,
         Fits(n, U, key, son), ~GoesRight(n, key), n.leaf
  PROVE  AddsRow(Inserted(n, key, son), n, son)
<1>1. /\ n \in [leaf : BOOLEAN, keys : Seq(Int), sons : Seq(Row \cup U), sibling : U \cup {0}]
      /\ Len(n.keys) = Len(n.sons)
  BY DEF IsNodeOf
<1>2. Inserted(n, key, son).sons = InsertAt(n.sons, Place(n, key), son)
  BY <1>1 DEF Inserted
<1>3. n.keys \in Seq(Int) /\ n.sons \in Seq(Row \cup U) /\ son \in Row \cup U /\ key \in Int
  BY <1>1 DEF Fits
<1>4. Place(n, key) \in 1 .. Len(n.sons) + 1
  BY <1>1, <1>3, PlaceIs
<1> DEFINE i == Place(n, key)
           r == n.sons
<1>5. /\ Range(InsertAt(r, i, son)) = Range(r) \cup {son}
      /\ IsInjective(r) /\ son \notin Range(r) => IsInjective(InsertAt(r, i, son))
  <2>1. r \in Seq(Row \cup U) /\ son \in Row \cup U /\ i \in 1 .. Len(r) + 1
    BY <1>3, <1>4
  <2> HIDE DEF r, i
  <2> QED BY <2>1, InsertAtRange, Zenon
<1> QED BY <1>2, <1>5 DEF AddsRow

LEMMA InsertedIsNode ==
  ASSUME NEW U, 0 \notin U, NEW n, IsNodeOf(n, U), IsKind(n, U), NEW key, NEW son,
         Fits(n, U, key, son), ~GoesRight(n, key)
  PROVE  /\ IsNodeOf(Inserted(n, key, son), U) /\ IsKind(Inserted(n, key, son), U)
         /\ Len(Inserted(n, key, son).keys) = Len(n.keys) + 1
<1> DEFINE i == Place(n, key)
           k == SonPlace(n, key)
           L == Len(n.keys)
<1>1. PICK m : m = Inserted(n, key, son)
  OBVIOUS
<1>2. m.keys \in Seq(Int) /\ m.sons \in Seq(Row \cup U) /\ IsNodeWith(m, n, i, k, key, son)
  BY <1>1, InsertedKeys
<1>3. /\ m.leaf = n.leaf /\ m.sibling = n.sibling
      /\ m.keys \in Seq(Int) /\ Len(m.keys) = L + 1
      /\ m.sons \in Seq(Row \cup U) /\ Len(m.sons) = L + 1
      /\ m = [leaf |-> n.leaf, keys |-> m.keys, sons |-> m.sons, sibling |-> n.sibling]
  BY <1>2 DEF IsNodeWith, IsWith, IsNodeOf
<1>4. /\ \A j \in 1 .. L + 1 : m.keys[j] = IF j < i THEN n.keys[j] ELSE IF j = i THEN key ELSE n.keys[j - 1]
      /\ \A j \in 1 .. L + 1 : m.sons[j] = IF j < k THEN n.sons[j] ELSE IF j = k THEN son ELSE n.sons[j - 1]
  BY <1>2 DEF IsNodeWith, IsWith, IsNodeOf
<1>5. i \in 1 .. L + 1 /\ (~n.leaf => i \in 1 .. L) /\ L \in Nat
  <2>1. L \in Nat
    BY DEF IsNodeOf
  <2> QED BY <2>1, InsertedKeys, Zenon
<1>6. /\ \A a, b \in 1 .. L : a <= b => n.keys[a] <= n.keys[b]
      /\ \A a \in 1 .. L : n.keys[a] \in Int
      /\ n.leaf \in BOOLEAN /\ n.sibling \in U \cup {0} /\ n.keys \in Seq(Int)
  BY DEF IsNodeOf
<1>7. /\ key \in Int
      /\ \A j \in 1 .. L : j < i => n.keys[j] <= key
      /\ \A j \in 1 .. L : i <= j => key <= n.keys[j]
  <2>1. key \in Int
    BY DEF Fits
  <2>2. /\ \A j \in 1 .. L : j < i => n.keys[j] < key
        /\ i <= L => key <= n.keys[i]
    BY <1>6, <2>1, PlaceIs
  <2>3. ASSUME NEW j \in 1 .. L, i <= j PROVE key <= n.keys[j]
    <3>1. i \in 1 .. L
      BY <1>5, <2>3
    <3>2. key <= n.keys[i] /\ n.keys[i] <= n.keys[j] /\ n.keys[i] \in Int /\ n.keys[j] \in Int
      BY <1>6, <2>2, <2>3, <3>1
    <3> QED BY <2>1, <3>2
  <2>4. ASSUME NEW j \in 1 .. L, j < i PROVE n.keys[j] <= key
    BY <1>6, <2>1, <2>2, <2>4
  <2> QED BY <2>1, <2>3, <2>4
<1> HIDE DEF i, k, L
<1>8. ASSUME NEW a \in 1 .. L + 1, NEW b \in 1 .. L + 1, a <= b PROVE m.keys[a] <= m.keys[b]
  <2>1. a < i => a \in 1 .. L BY <1>5
  <2>2. a > i => a - 1 \in 1 .. L BY <1>5
  <2>3. b < i => b \in 1 .. L BY <1>5
  <2>4. b > i => b - 1 \in 1 .. L BY <1>5
  <2>5. CASE a < i /\ b < i
    BY <1>4, <1>6, <1>8, <2>1, <2>3, <2>5
  <2>6. CASE a < i /\ b = i
    BY <1>4, <1>7, <2>1, <2>6
  <2>7. CASE a < i /\ b > i
    <3>1. a <= b - 1
      BY <2>7, <1>5
    <3> QED BY <1>4, <1>6, <2>1, <2>4, <2>7, <3>1, <1>5
  <2>8. CASE a = i /\ b = i
    BY <1>4, <1>7, <2>8
  <2>9. CASE a = i /\ b > i
    <3>1. i <= b - 1
      BY <2>9, <1>5
    <3> QED BY <1>4, <1>7, <2>4, <2>9, <3>1, <1>5
  <2>10. CASE a > i /\ b > i
    <3>1. a - 1 <= b - 1
      BY <1>8
    <3> QED BY <1>4, <1>6, <2>2, <2>4, <2>10, <3>1, <1>5
  <2> QED BY <1>5, <1>8, <2>5, <2>6, <2>7, <2>8, <2>9, <2>10
<1>9. IsNodeOf(m, U)
  <2>1. m \in [leaf : BOOLEAN, keys : Seq(Int), sons : Seq(Row \cup U), sibling : U \cup {0}]
    BY <1>3, <1>6
  <2> QED BY <1>3, <1>8, <2>1 DEF IsNodeOf
<1>10. CASE n.leaf
  <2>1. \A j \in 1 .. L : n.sons[j] \in Row /\ n.keys[j] = KeyOf(n.sons[j])
    BY <1>10 DEF IsKind, IsLeafNode, L
  <2>2. son \in Row /\ key = KeyOf(son) /\ k = i
    BY <1>10 DEF Fits, k, i, SonPlace
  <2>3. ASSUME NEW j \in 1 .. L + 1 PROVE m.sons[j] \in Row /\ m.keys[j] = KeyOf(m.sons[j])
    <3>1. CASE j < i
      <4>1. j \in 1 .. L BY <1>5, <3>1
      <4> QED BY <1>4, <2>1, <2>2, <3>1, <4>1
    <3>2. CASE j = i
      BY <1>4, <2>2, <3>2
    <3>3. CASE j > i
      <4>1. j - 1 \in 1 .. L BY <1>5, <3>3
      <4> QED BY <1>4, <1>5, <2>1, <2>2, <3>3, <4>1
    <3> QED BY <1>5, <3>1, <3>2, <3>3
  <2> QED BY <1>1, <1>3, <1>9, <1>10, <2>3 DEF IsKind, IsLeafNode, L
<1>11. CASE ~n.leaf
  <2>1. /\ \A j \in 1 .. L : n.sons[j] \in U /\ n.keys[j] <= MaxKey
        /\ n.sibling = 0 => n.keys[L] = MaxKey
    BY <1>11 DEF IsKind, IsInnerNode, L
  <2>2. son \in U /\ key <= MaxKey /\ k = i + 1 /\ i \in 1 .. L
    BY <1>5, <1>11 DEF Fits, k, i, SonPlace
  <2>3. ASSUME NEW j \in 1 .. L + 1 PROVE m.sons[j] \in U
    <3>1. CASE j < k
      <4>1. j \in 1 .. L BY <1>5, <2>2, <3>1
      <4> QED BY <1>4, <2>1, <3>1, <4>1
    <3>2. CASE j = k
      BY <1>4, <2>2, <3>2
    <3>3. CASE j > k
      <4>1. j - 1 \in 1 .. L BY <1>5, <2>2, <3>3
      <4> QED BY <1>4, <1>5, <2>1, <2>2, <3>3, <4>1
    <3> QED BY <1>5, <2>2, <3>1, <3>2, <3>3
  <2>4. ASSUME NEW j \in 1 .. L + 1 PROVE m.keys[j] <= MaxKey
    <3>1. CASE j < i
      <4>1. j \in 1 .. L BY <1>5, <3>1
      <4> QED BY <1>4, <2>1, <3>1, <4>1
    <3>2. CASE j = i
      BY <1>4, <2>2, <3>2
    <3>3. CASE j > i
      <4>1. j - 1 \in 1 .. L BY <1>5, <3>3
      <4> QED BY <1>4, <1>5, <2>1, <3>3, <4>1
    <3> QED BY <1>5, <3>1, <3>2, <3>3
  <2>5. m.keys[L + 1] = n.keys[L]
    <3>1. L + 1 \in 1 .. L + 1 /\ ~(L + 1 < i) /\ L + 1 # i /\ (L + 1) - 1 = L
      BY <1>5, <2>2
    <3>2. m.keys[L + 1] = n.keys[(L + 1) - 1]
      BY <1>4, <3>1
    <3> QED BY <3>1, <3>2
  <2>6. m.keys # <<>>
    BY <1>3, <1>5
  <2> QED BY <1>1, <1>3, <1>9, <1>11, <2>1, <2>3, <2>4, <2>5, <2>6 DEF IsKind, IsInnerNode, L
<1> QED BY <1>1, <1>3, <1>6, <1>9, <1>10, <1>11 DEF L

LEMMA SubSeqIs ==
  ASSUME NEW S, NEW s \in Seq(S), NEW a \in 1 .. Len(s) + 1, NEW b \in a - 1 .. Len(s)
  PROVE  /\ SubSeq(s, a, b) \in Seq(S) /\ Len(SubSeq(s, a, b)) = b - a + 1
         /\ \A j \in 1 .. b - a + 1 : SubSeq(s, a, b)[j] = s[a + j - 1]
OBVIOUS

(* s is split into t and the rest, u.                                      *)
AreHalves(t, u, s) ==
  /\ Len(t) = BalanceNumber /\ Len(u) = BalanceNumber
  /\ \A j \in 1 .. BalanceNumber : t[j] = s[j] /\ u[j] = s[BalanceNumber + j]

LEMMA HalvesOf ==
  ASSUME NEW S, NEW s \in Seq(S), Len(s) = 2 * BalanceNumber
  PROVE  /\ SubSeq(s, 1, BalanceNumber) \in Seq(S)
         /\ SubSeq(s, BalanceNumber + 1, Len(s)) \in Seq(S)
         /\ AreHalves(SubSeq(s, 1, BalanceNumber), SubSeq(s, BalanceNumber + 1, Len(s)), s)
<1>1. BalanceNumber \in Nat \ {0, 1}
  BY BalanceAssumption
<1> DEFINE B == BalanceNumber
<1>2. /\ SubSeq(s, 1, B) \in Seq(S) /\ Len(SubSeq(s, 1, B)) = B
      /\ \A j \in 1 .. B : SubSeq(s, 1, B)[j] = s[j]
  BY <1>1, SubSeqIs
<1>3. /\ SubSeq(s, B + 1, Len(s)) \in Seq(S) /\ Len(SubSeq(s, B + 1, Len(s))) = B
      /\ \A j \in 1 .. B : SubSeq(s, B + 1, Len(s))[j] = s[B + j]
  BY <1>1, SubSeqIs
<1> QED BY <1>2, <1>3 DEF AreHalves

LEMMA HalvesShare ==
  ASSUME NEW s, DOMAIN s = 1 .. 2 * BalanceNumber, NEW t, NEW u, AreHalves(t, u, s),
         DOMAIN t = 1 .. BalanceNumber, DOMAIN u = 1 .. BalanceNumber
  PROVE  /\ Range(s) = Range(t) \cup Range(u)
         /\ IsInjective(s) => IsInjective(t) /\ IsInjective(u) /\ Range(t) \cap Range(u) = {}
<1>1. BalanceNumber \in Nat
  BY BalanceAssumption
<1> DEFINE B == BalanceNumber
<1>2. \A j \in 1 .. B : j \in 1 .. 2 * B /\ B + j \in 1 .. 2 * B /\ t[j] = s[j] /\ u[j] = s[B + j]
  BY <1>1 DEF AreHalves
<1>3. ASSUME NEW x PROVE x \in Range(s) <=> x \in Range(t) \/ x \in Range(u)
  <2>1. ASSUME x \in Range(s) PROVE x \in Range(t) \/ x \in Range(u)
    <3>1. PICK j \in 1 .. 2 * B : x = s[j]
      BY <2>1 DEF Range
    <3>2. CASE j <= B
      BY <1>2, <3>1, <3>2, <1>1 DEF Range
    <3>3. CASE j > B
      <4>1. j - B \in 1 .. B /\ B + (j - B) = j
        BY <1>1, <3>3
      <4>2. u[j - B] = x
        BY <1>2, <3>1, <4>1
      <4> QED BY <4>1, <4>2 DEF Range
    <3> QED BY <1>1, <3>2, <3>3
  <2>2. ASSUME x \in Range(t) \/ x \in Range(u) PROVE x \in Range(s)
    BY <1>2, <2>2 DEF Range
  <2> QED BY <2>1, <2>2
<1>4. ASSUME IsInjective(s) PROVE IsInjective(t) /\ IsInjective(u) /\ Range(t) \cap Range(u) = {}
  <2>1. \A a, b \in 1 .. 2 * B : s[a] = s[b] => a = b
    BY <1>4 DEF IsInjective
  <2>2. \A a, b \in 1 .. B : B + a = B + b => a = b
    BY <1>1
  <2>3. \A a, b \in 1 .. B : a # B + b
    BY <1>1
  <2>4. IsInjective(t)
    BY <1>2, <2>1 DEF IsInjective
  <2>5. IsInjective(u)
    <3>1. ASSUME NEW a \in 1 .. B, NEW b \in 1 .. B, u[a] = u[b] PROVE a = b
      <4>1. B + a = B + b
        BY <1>2, <2>1, <3>1
      <4> QED BY <2>2, <4>1
    <3> QED BY <3>1 DEF IsInjective
  <2>6. Range(t) \cap Range(u) = {}
    <3>1. ASSUME NEW a \in 1 .. B, NEW b \in 1 .. B, t[a] = u[b] PROVE FALSE
      <4>1. a = B + b
        BY <1>2, <2>1, <3>1
      <4> QED BY <2>3, <4>1
    <3> QED BY <3>1 DEF Range
  <2> QED BY <2>4, <2>5, <2>6
<1> QED BY <1>3, <1>4

(* The node n is split into lo and up, the uid of up is w.                 *)
IsSplit(n, lo, up, U, w) ==
  /\ up = [leaf |-> n.leaf, keys |-> up.keys, sons |-> up.sons, sibling |-> n.sibling]
  /\ lo = [leaf |-> n.leaf, keys |-> lo.keys, sons |-> lo.sons, sibling |-> w]
  /\ up.keys \in Seq(Int) /\ up.sons \in Seq(Row \cup U)
  /\ lo.keys \in Seq(Int) /\ lo.sons \in Seq(Row \cup U)
  /\ AreHalves(lo.keys, up.keys, n.keys)
  /\ AreHalves(lo.sons, up.sons, n.sons)

LEMMA HalvesAre ==
  ASSUME NEW U, NEW n, IsNodeOf(n, U), Len(n.keys) = 2 * BalanceNumber, NEW w
  PROVE  IsSplit(n, LowerHalf(n, w), UpperHalf(n), U, w)
<1>1. /\ n.keys \in Seq(Int) /\ n.sons \in Seq(Row \cup U) /\ Len(n.sons) = Len(n.keys)
  BY DEF IsNodeOf
<1>2. /\ SubSeq(n.keys, 1, BalanceNumber) \in Seq(Int)
      /\ SubSeq(n.keys, BalanceNumber + 1, Len(n.keys)) \in Seq(Int)
      /\ AreHalves(SubSeq(n.keys, 1, BalanceNumber), SubSeq(n.keys, BalanceNumber + 1, Len(n.keys)), n.keys)
  BY <1>1, HalvesOf
<1>3. /\ SubSeq(n.sons, 1, BalanceNumber) \in Seq(Row \cup U)
      /\ SubSeq(n.sons, BalanceNumber + 1, Len(n.sons)) \in Seq(Row \cup U)
      /\ AreHalves(SubSeq(n.sons, 1, BalanceNumber), SubSeq(n.sons, BalanceNumber + 1, Len(n.sons)), n.sons)
  BY <1>1, HalvesOf
<1> QED BY <1>2, <1>3 DEF UpperHalf, LowerHalf, Node, IsSplit

LEMMA HalvesAreNodes ==
  ASSUME NEW U, NEW n, IsNodeOf(n, U), IsKind(n, U), Len(n.keys) = 2 * BalanceNumber, NEW w, w # 0
  PROVE  /\ IsNodeOf(LowerHalf(n, w), U \cup {w}) /\ IsKind(LowerHalf(n, w), U \cup {w})
         /\ IsNodeOf(UpperHalf(n), U \cup {w}) /\ IsKind(UpperHalf(n), U \cup {w})
<1> DEFINE B == BalanceNumber
<1>1. B \in Nat \ {0, 1}
  BY BalanceAssumption
<1>2. PICK lo, up : lo = LowerHalf(n, w) /\ up = UpperHalf(n)
  OBVIOUS
<1>3. /\ up = [leaf |-> n.leaf, keys |-> up.keys, sons |-> up.sons, sibling |-> n.sibling]
      /\ lo = [leaf |-> n.leaf, keys |-> lo.keys, sons |-> lo.sons, sibling |-> w]
      /\ up.keys \in Seq(Int) /\ up.sons \in Seq(Row \cup U)
      /\ lo.keys \in Seq(Int) /\ lo.sons \in Seq(Row \cup U)
      /\ AreHalves(lo.keys, up.keys, n.keys)
      /\ AreHalves(lo.sons, up.sons, n.sons)
  <2>1. IsSplit(n, lo, up, U, w)
    BY <1>2, HalvesAre
  <2> QED BY <2>1 DEF IsSplit
<1>4. /\ Len(lo.keys) = B /\ Len(up.keys) = B /\ Len(lo.sons) = B /\ Len(up.sons) = B
      /\ \A j \in 1 .. B : lo.keys[j] = n.keys[j] /\ up.keys[j] = n.keys[B + j]
      /\ \A j \in 1 .. B : lo.sons[j] = n.sons[j] /\ up.sons[j] = n.sons[B + j]
  BY <1>3 DEF AreHalves
<1>5. /\ n.leaf \in BOOLEAN /\ n.sibling \in U \cup {0}
      /\ \A a, b \in 1 .. 2 * B : a <= b => n.keys[a] <= n.keys[b]
  BY DEF IsNodeOf
<1>6. up.leaf = n.leaf /\ lo.leaf = n.leaf /\ up.sibling = n.sibling /\ lo.sibling = w
  BY <1>3
<1>7. /\ lo.sons \in Seq(Row \cup (U \cup {w})) /\ up.sons \in Seq(Row \cup (U \cup {w}))
  BY <1>3
<1>8. \A j \in 1 .. B : j \in 1 .. 2 * B /\ B + j \in 1 .. 2 * B
  BY <1>1
<1>9. IsNodeOf(lo, U \cup {w})
  <2>1. lo \in [leaf : BOOLEAN, keys : Seq(Int), sons : Seq(Row \cup (U \cup {w})), sibling : (U \cup {w}) \cup {0}]
    BY <1>3, <1>5, <1>7
  <2>2. \A a, b \in 1 .. B : a <= b => lo.keys[a] <= lo.keys[b]
    BY <1>4, <1>5, <1>8
  <2> QED BY <1>4, <2>1, <2>2 DEF IsNodeOf
<1>10. IsNodeOf(up, U \cup {w})
  <2>1. up \in [leaf : BOOLEAN, keys : Seq(Int), sons : Seq(Row \cup (U \cup {w})), sibling : (U \cup {w}) \cup {0}]
    BY <1>3, <1>5, <1>7
  <2>2. ASSUME NEW a \in 1 .. B, NEW b \in 1 .. B, a <= b PROVE up.keys[a] <= up.keys[b]
    <3>1. B + a <= B + b
      BY <1>1, <2>2
    <3>2. n.keys[B + a] <= n.keys[B + b]
      BY <1>5, <1>8, <3>1
    <3> QED BY <1>4, <3>2
  <2> QED BY <1>4, <2>1, <2>2 DEF IsNodeOf
<1>11. CASE n.leaf
  <2>1. \A j \in 1 .. 2 * B : n.sons[j] \in Row /\ n.keys[j] = KeyOf(n.sons[j])
    BY <1>11 DEF IsKind, IsLeafNode
  <2>2. IsLeafNode(lo) /\ IsLeafNode(up)
    BY <1>4, <1>8, <2>1 DEF IsLeafNode
  <2> QED BY <1>2, <1>6, <1>9, <1>10, <1>11, <2>2 DEF IsKind
<1>12. CASE ~n.leaf
  <2>1. /\ \A j \in 1 .. 2 * B : n.sons[j] \in U /\ n.keys[j] <= MaxKey
        /\ n.sibling = 0 => n.keys[2 * B] = MaxKey
    BY <1>12 DEF IsKind, IsInnerNode
  <2>2. lo.keys # <<>> /\ up.keys # <<>>
    BY <1>1, <1>4
  <2>3. up.keys[B] = n.keys[2 * B]
    BY <1>1, <1>4
  <2>4. IsInnerNode(lo, U \cup {w})
    BY <1>4, <1>6, <1>8, <2>1, <2>2 DEF IsInnerNode
  <2>5. IsInnerNode(up, U \cup {w})
    BY <1>4, <1>6, <1>8, <2>1, <2>2, <2>3 DEF IsInnerNode
  <2> QED BY <1>2, <1>6, <1>9, <1>10, <1>12, <2>4, <2>5 DEF IsKind
<1> QED BY <1>11, <1>12

----------------------------------------------------------------------------
(* The leaf at the left end below a node never changes.                    *)

LEMMA EndsExist ==
  ASSUME NEW ns, NEW f, IsEnds(ns, f)
  PROVE  IsEnds(ns, LeftEnd(ns))
BY DEF IsEnds, LeftEnd

(* New nodes are leaves or stand over a node that was there.               *)
GrowsAbove(ns, ms) ==
  /\ DOMAIN ns \subseteq DOMAIN ms
  /\ \A u \in DOMAIN ns : ms[u].leaf = ns[u].leaf
  /\ \A u \in DOMAIN ns : ~ns[u].leaf => ms[u].sons[1] = ns[u].sons[1] /\ ns[u].sons[1] \in DOMAIN ns
  /\ \A w \in DOMAIN ms \ DOMAIN ns : ~ms[w].leaf => ms[w].sons[1] \in DOMAIN ns

LEMMA EndsGrow ==
  ASSUME NEW ns, Founded(ns), NEW ms, GrowsAbove(ns, ms)
  PROVE  /\ Founded(ms)
         /\ \A u \in DOMAIN ns : LeftEnd(ms)[u] = LeftEnd(ns)[u]
         /\ \A w \in DOMAIN ms \ DOMAIN ns :
              LeftEnd(ms)[w] = IF ms[w].leaf THEN w ELSE LeftEnd(ns)[ms[w].sons[1]]
<1> DEFINE e == LeftEnd(ns)
           ext == [u \in DOMAIN ms |-> IF u \in DOMAIN ns THEN e[u]
                                       ELSE IF ms[u].leaf THEN u ELSE e[ms[u].sons[1]]]
<1>1. /\ \A u \in DOMAIN ns : e[u] = IF ns[u].leaf THEN u ELSE e[ns[u].sons[1]]
      /\ \A u \in DOMAIN ns : e[u] \in LeafOf(ns)
  <2>1. e = [u \in DOMAIN ns |-> IF ns[u].leaf THEN u ELSE e[ns[u].sons[1]]]
    BY Zenon DEF Founded, IsEnds
  <2> HIDE DEF e
  <2>2. \A u \in DOMAIN ns : e[u] = IF ns[u].leaf THEN u ELSE e[ns[u].sons[1]]
    BY <2>1, Zenon
  <2>3. \A u \in DOMAIN ns : e[u] \in LeafOf(ns)
    BY DEF Founded, e
  <2> QED BY <2>2, <2>3
<1>2. IsEnds(ms, ext)
  <2> HIDE DEF e
  <2>1. ASSUME NEW u \in DOMAIN ms PROVE ext[u] = IF ms[u].leaf THEN u ELSE ext[ms[u].sons[1]]
    <3>1. CASE u \in DOMAIN ns
      BY <1>1, <3>1 DEF GrowsAbove
    <3>2. CASE u \notin DOMAIN ns
      BY <3>2 DEF GrowsAbove
    <3> QED BY <3>1, <3>2
  <2>2. ext = [u \in DOMAIN ms |-> ext[u]]
    OBVIOUS
  <2> HIDE DEF ext
  <2> QED BY <2>1, <2>2 DEF IsEnds
<1>3. ASSUME NEW f, IsEnds(ms, f)
      PROVE  /\ \A u \in DOMAIN ns : f[u] = e[u]
             /\ \A w \in DOMAIN ms \ DOMAIN ns : f[w] = IF ms[w].leaf THEN w ELSE e[ms[w].sons[1]]
             /\ f = [u \in DOMAIN ms |-> f[u]]
  <2> HIDE DEF e, ext
  <2>1. f = [u \in DOMAIN ms |-> IF ms[u].leaf THEN u ELSE f[ms[u].sons[1]]]
    BY <1>3, Zenon DEF IsEnds
  <2>2. \A u \in DOMAIN ms : f[u] = IF ms[u].leaf THEN u ELSE f[ms[u].sons[1]]
    BY <2>1, Zenon
  <2> DEFINE g == [u \in DOMAIN ns |-> f[u]]
  <2>3. ASSUME NEW u \in DOMAIN ns PROVE g[u] = IF ns[u].leaf THEN u ELSE g[ns[u].sons[1]]
    BY <2>2 DEF GrowsAbove
  <2>4. g = [u \in DOMAIN ns |-> g[u]]
    OBVIOUS
  <2>5. \A u \in DOMAIN ns : g[u] = f[u]
    OBVIOUS
  <2> HIDE DEF g
  <2>6. IsEnds(ns, g)
    BY <2>3, <2>4 DEF IsEnds
  <2>7. g = e
    BY <2>6 DEF Founded, e
  <2>8. \A u \in DOMAIN ns : f[u] = e[u]
    BY <2>5, <2>7
  <2>9. \A w \in DOMAIN ms \ DOMAIN ns : f[w] = IF ms[w].leaf THEN w ELSE e[ms[w].sons[1]]
    BY <2>2, <2>8 DEF GrowsAbove
  <2>10. DOMAIN f = DOMAIN ms /\ f = [u \in DOMAIN f |-> f[u]]
    BY <2>1
  <2> QED BY <2>8, <2>9, <2>10
<1>4. IsEnds(ms, LeftEnd(ms))
  BY <1>2, EndsExist
<1>5. ASSUME NEW f, NEW g, IsEnds(ms, f), IsEnds(ms, g) PROVE f = g
  <2> HIDE DEF e, ext
  <2>1. \A u \in DOMAIN ms : f[u] = g[u]
    BY <1>3, <1>5
  <2>2. f = [u \in DOMAIN ms |-> f[u]] /\ g = [u \in DOMAIN ms |-> g[u]]
    BY <1>3, <1>5
  <2> QED BY <2>1, <2>2
<1>6. \A u \in DOMAIN ms : LeftEnd(ms)[u] \in LeafOf(ms)
  <2> HIDE DEF e, ext
  <2>1. LeafOf(ns) \subseteq LeafOf(ms)
    BY DEF GrowsAbove, LeafOf
  <2>2. ASSUME NEW u \in DOMAIN ns PROVE LeftEnd(ms)[u] \in LeafOf(ms)
    BY <1>1, <1>3, <1>4, <2>1
  <2>3. ASSUME NEW u \in DOMAIN ms \ DOMAIN ns PROVE LeftEnd(ms)[u] \in LeafOf(ms)
    <3>1. LeftEnd(ms)[u] = IF ms[u].leaf THEN u ELSE e[ms[u].sons[1]]
      BY <1>3, <1>4
    <3>2. CASE ms[u].leaf
      BY <3>1, <3>2 DEF LeafOf
    <3>3. CASE ~ms[u].leaf
      <4>1. ms[u].sons[1] \in DOMAIN ns
        BY <3>3 DEF GrowsAbove
      <4> QED BY <1>1, <2>1, <3>1, <3>3, <4>1
    <3> QED BY <3>2, <3>3
  <2> QED BY <2>2, <2>3
<1> QED BY <1>3, <1>4, <1>5, <1>6 DEF Founded

----------------------------------------------------------------------------
(* The tree through an insertion into a node, a split and a new root.      *)

(* What a call knows of ns it knows of ms, where the rows in X are new.    *)
Carries(ns, ms, X) ==
  /\ DOMAIN ns \subseteq DOMAIN ms
  /\ \A u \in DOMAIN ns : ms[u].leaf = ns[u].leaf /\ LeftEnd(ms)[u] = LeftEnd(ns)[u]
  /\ \A v \in LeafOf(ns) : RowsLeft(ns, v) \subseteq RowsLeft(ms, v) /\ RowsLeft(ms, v) \subseteq RowsLeft(ns, v) \cup X
  /\ RowsOf(ms) = RowsOf(ns) \cup X
  /\ \A v \in DOMAIN ns, k \in Int : Bounded(ns, v, k) => Bounded(ms, v, k)

LEMMA CarriesOn ==
  ASSUME NEW a, NEW b, NEW c, NEW X, Carries(a, b, X), Carries(b, c, {})
  PROVE  Carries(a, c, X)
<1>1. LeafOf(a) \subseteq LeafOf(b)
  BY DEF Carries, LeafOf
<1>2. \A u \in DOMAIN a : c[u].leaf = a[u].leaf /\ LeftEnd(c)[u] = LeftEnd(a)[u]
  BY DEF Carries
<1>3. \A v \in LeafOf(a) : RowsLeft(a, v) \subseteq RowsLeft(c, v) /\ RowsLeft(c, v) \subseteq RowsLeft(a, v) \cup X
  BY <1>1 DEF Carries
<1>4. RowsOf(c) = RowsOf(a) \cup X
  BY DEF Carries
<1>5. \A v \in DOMAIN a, k \in Int : Bounded(a, v, k) => Bounded(c, v, k)
  BY DEF Carries
<1>6. DOMAIN a \subseteq DOMAIN c
  BY DEF Carries
<1> QED BY <1>2, <1>3, <1>4, <1>5, <1>6 DEF Carries

LEMMA LeafRows ==
  ASSUME NEW ns, NodesRight(ns), NEW u \in LeafOf(ns)
  PROVE  /\ Range(ns[u].sons) \subseteq Row
         /\ DOMAIN ns[u].sons = 1 .. Len(ns[u].keys) /\ Len(ns[u].keys) \in Nat
         /\ \A i \in 1 .. Len(ns[u].keys) : ns[u].sons[i] \in Range(ns[u].sons) /\ ns[u].keys[i] = KeyOf(ns[u].sons[i])
         /\ \A q \in Range(ns[u].sons) : \E i \in 1 .. Len(ns[u].keys) : q = ns[u].sons[i]
<1>1. IsNodeOf(ns[u], DOMAIN ns) /\ IsLeafNode(ns[u])
  BY DEF NodesRight, LeafOf, IsKind
<1>2. DOMAIN ns[u].sons = 1 .. Len(ns[u].keys) /\ Len(ns[u].keys) \in Nat
  BY <1>1 DEF IsNodeOf
<1> QED BY <1>1, <1>2 DEF IsLeafNode, Range

LEMMA RowsAreRows ==
  ASSUME NEW ns, NodesRight(ns)
  PROVE  RowsOf(ns) \subseteq Row /\ \A v : RowsLeft(ns, v) \subseteq RowsOf(ns)
BY LeafRows, RowsLeftDef DEF LeftOf

LEMMA BoundedMore ==
  ASSUME NEW ns, NodesRight(ns), NEW v, NEW k \in Int, NEW m \in Int, Bounded(ns, v, k), k <= m
  PROVE  Bounded(ns, v, m)
<1> SUFFICES ASSUME NEW q \in RowsLeft(ns, LeftEnd(ns)[v]) PROVE Under(q, m)
  BY DEF Bounded
<1>1. q \in Row /\ KeyOf(q) \in Int
  BY RowsAreRows, KeysAssumption
<1>2. Under(q, k)
  BY DEF Bounded
<1> QED BY <1>1, <1>2 DEF Under

(* Nothing happens to the leaves.                                          *)
LEMMA LeavesAlone ==
  ASSUME NEW ns, NEW ms, LeafOf(ms) = LeafOf(ns),
         \A v \in LeafOf(ns) : ms[v].sibling = ns[v].sibling /\ ms[v].sons = ns[v].sons
  PROVE  /\ \A v : RowsLeft(ms, v) = RowsLeft(ns, v)
         /\ RowsOf(ms) = RowsOf(ns)
         /\ Line(ns) => Line(ms)
         /\ LineSorted(ns) => LineSorted(ms)
<1>1. (\A u : Reach(ms, u) = Reach(ns, u)) /\ (\A u : LeftOf(ms, u) = LeftOf(ns, u)) /\ (Line(ns) => Line(ms))
  BY SameLine
<1>2. ASSUME NEW v PROVE RowsLeft(ms, v) = RowsLeft(ns, v)
  <2>1. \A u \in LeftOf(ns, v) : ms[u].sons = ns[u].sons
    BY DEF LeftOf
  <2>2. \A q : q \in RowsLeft(ms, v) <=> q \in RowsLeft(ns, v)
    BY <1>1, <2>1, RowsLeftDef
  <2> QED BY <2>2
<1>3. ASSUME NEW q PROVE q \in RowsOf(ms) <=> q \in RowsOf(ns)
  <2>1. (\E u \in LeafOf(ms) : q \in Range(ms[u].sons)) <=> \E u \in LeafOf(ns) : q \in Range(ns[u].sons)
    OBVIOUS
  <2>2. q \in RowsOf(ns) <=> \E u \in LeafOf(ns) : q \in Range(ns[u].sons)
    BY RowsLeftDef
  <2>3. q \in RowsOf(ms) <=> \E u \in LeafOf(ms) : q \in Range(ms[u].sons)
    BY RowsLeftDef
  <2> QED BY <2>1, <2>2, <2>3
<1>4. LineSorted(ns) => LineSorted(ms)
  BY <1>1 DEF LineSorted
<1> QED BY <1>1, <1>2, <1>3, <1>4

LEMMA SameBounds ==
  ASSUME NEW ns, Founded(ns), NEW ms,
         \A u \in DOMAIN ns : LeftEnd(ms)[u] = LeftEnd(ns)[u],
         \A v \in LeafOf(ns) : RowsLeft(ms, v) = RowsLeft(ns, v),
         NEW v \in DOMAIN ns, NEW k
  PROVE  Bounded(ms, v, k) <=> Bounded(ns, v, k)
BY DEF Bounded, Founded

LEMMA IsNodeGrows ==
  ASSUME NEW n, NEW U, NEW V, IsNodeOf(n, U), IsKind(n, U), U \subseteq V
  PROVE  IsNodeOf(n, V) /\ IsKind(n, V)
<1>1. n.sons \in Seq(Row \cup U) => n.sons \in Seq(Row \cup V)
  OBVIOUS
<1> QED BY <1>1 DEF IsNodeOf, IsKind, IsInnerNode

----------------------------------------------------------------------------
(* An insertion into the node p.                                           *)

With(ns, p, key, son) == [ns EXCEPT ![p] = Inserted(@, key, son)]
MayInsert(ns, p, key, son) ==
  /\ p \in DOMAIN ns /\ Fits(ns[p], DOMAIN ns, key, son) /\ ~GoesRight(ns[p], key)
  /\ IF ns[p].leaf THEN son \notin RowsOf(ns) /\ Bounded(ns, p, key) ELSE Bounded(ns, son, key)

LEMMA WithIs ==
  ASSUME NEW ns, NodesRight(ns), NEW p, NEW key, NEW son, MayInsert(ns, p, key, son)
  PROVE  LET ms == With(ns, p, key, son)
         IN  /\ DOMAIN ms = DOMAIN ns /\ LeafOf(ms) = LeafOf(ns)
             /\ ms[p] = Inserted(ns[p], key, son)
             /\ \A u \in DOMAIN ns \ {p} : ms[u] = ns[u]
             /\ \A u \in DOMAIN ns : ms[u].leaf = ns[u].leaf /\ ms[u].sibling = ns[u].sibling
             /\ NodesRight(ms)
             /\ GrowsAbove(ns, ms)
<1> DEFINE ms == With(ns, p, key, son)
<1>1. p \in DOMAIN ns /\ IsNodeOf(ns[p], DOMAIN ns) /\ IsKind(ns[p], DOMAIN ns) /\ 0 \notin DOMAIN ns
      /\ Fits(ns[p], DOMAIN ns, key, son) /\ ~GoesRight(ns[p], key)
  BY DEF MayInsert, NodesRight
<1>2. /\ DOMAIN ms = DOMAIN ns /\ ms[p] = Inserted(ns[p], key, son)
      /\ \A u \in DOMAIN ns \ {p} : ms[u] = ns[u]
  BY <1>1 DEF With
<1> HIDE DEF ms
<1>3. /\ IsNodeOf(ms[p], DOMAIN ns) /\ IsKind(ms[p], DOMAIN ns)
  BY <1>1, <1>2, InsertedIsNode
<1>4. IsNodeWith(ms[p], ns[p], Place(ns[p], key), SonPlace(ns[p], key), key, son)
      /\ (~ns[p].leaf => Place(ns[p], key) \in 1 .. Len(ns[p].keys))
  <2>1. PICK n, U : n = ns[p] /\ U = DOMAIN ns
    OBVIOUS
  <2>2. 0 \notin U /\ IsNodeOf(n, U) /\ IsKind(n, U) /\ Fits(n, U, key, son) /\ ~GoesRight(n, key)
    BY <1>1, <2>1
  <2>3. IsNodeWith(Inserted(n, key, son), n, Place(n, key), SonPlace(n, key), key, son)
    BY <2>2, InsertedKeys, Zenon
  <2>4. ~n.leaf => Place(n, key) \in 1 .. Len(n.keys)
    BY <2>2, InsertedKeys, Zenon
  <2> QED BY <1>2, <2>1, <2>3, <2>4
<1>5. ms[p].leaf = ns[p].leaf /\ ms[p].sibling = ns[p].sibling
  BY <1>4 DEF IsNodeWith
<1>6. \A u \in DOMAIN ns : ms[u].leaf = ns[u].leaf /\ ms[u].sibling = ns[u].sibling
  BY <1>2, <1>5
<1>7. LeafOf(ms) = LeafOf(ns)
  BY <1>2, <1>6 DEF LeafOf
<1>8. NodesRight(ms)
  <2>1. ASSUME NEW u \in DOMAIN ns PROVE IsNodeOf(ms[u], DOMAIN ns) /\ IsKind(ms[u], DOMAIN ns)
    BY <1>2, <1>3 DEF NodesRight
  <2>2. ASSUME NEW u \in DOMAIN ns, ms[u].sibling # 0 PROVE ms[ms[u].sibling].leaf = ms[u].leaf
    <3>1. ns[u].sibling \in DOMAIN ns
      BY <1>6, <2>2 DEF NodesRight, IsNodeOf
    <3> QED BY <1>6, <2>2, <3>1 DEF NodesRight
  <2> QED BY <1>2, <1>7, <2>1, <2>2 DEF NodesRight
<1>9. GrowsAbove(ns, ms)
  <2>1. ASSUME NEW u \in DOMAIN ns, ~ns[u].leaf PROVE ms[u].sons[1] = ns[u].sons[1] /\ ns[u].sons[1] \in DOMAIN ns
    <3>1. IsNodeOf(ns[u], DOMAIN ns) /\ IsInnerNode(ns[u], DOMAIN ns)
      BY <2>1 DEF NodesRight, IsKind
    <3>2. Len(ns[u].keys) \in Nat /\ Len(ns[u].keys) # 0 /\ Len(ns[u].sons) = Len(ns[u].keys)
      BY <3>1 DEF IsInnerNode, IsNodeOf
    <3>3. ns[u].sons[1] \in DOMAIN ns
      BY <3>1, <3>2 DEF IsInnerNode
    <3>4. CASE u = p
      <4>1. SonPlace(ns[p], key) > 1 /\ SonPlace(ns[p], key) \in Int
        BY <1>4, <2>1, <3>4 DEF SonPlace
      <4>2. ms[p].sons[1] = ns[p].sons[1]
        BY <1>4, <3>2, <3>4, <4>1 DEF IsNodeWith, IsWith
      <4> QED BY <3>3, <3>4, <4>2
    <3> QED BY <1>2, <3>3, <3>4
  <2> QED BY <1>2, <1>6, <2>1 DEF GrowsAbove
<1> QED BY <1>2, <1>6, <1>7, <1>8, <1>9 DEF ms

(* What the tree is after the insertion.                                   *)
IsInserted(ns, ms, p, key, son) ==
  /\ DOMAIN ms = DOMAIN ns /\ LeafOf(ms) = LeafOf(ns)
  /\ ms[p] = Inserted(ns[p], key, son)
  /\ \A u \in DOMAIN ns \ {p} : ms[u] = ns[u]
  /\ \A u \in DOMAIN ns : ms[u].leaf = ns[u].leaf /\ ms[u].sibling = ns[u].sibling
  /\ NodesRight(ms)
  /\ GrowsAbove(ns, ms)

LEMMA InsertKeepsLine ==
  ASSUME NEW ns, IsTree(ns), NEW ms, NEW p, NEW key, NEW son, MayInsert(ns, p, key, son),
         IsInserted(ns, ms, p, key, son)
  PROVE  /\ \A u : Reach(ms, u) = Reach(ns, u)
         /\ \A u : LeftOf(ms, u) = LeftOf(ns, u)
         /\ Line(ms)
         /\ Founded(ms)
         /\ \A u \in DOMAIN ns : LeftEnd(ms)[u] = LeftEnd(ns)[u]
<1>1. LeafOf(ms) = LeafOf(ns) /\ \A v \in LeafOf(ns) : ms[v].sibling = ns[v].sibling
  BY DEF IsInserted, LeafOf
<1>2. Line(ns) /\ Founded(ns) /\ GrowsAbove(ns, ms)
  BY DEF IsTree, IsInserted
<1> QED BY <1>1, <1>2, SameLine, EndsGrow

(* The new row of a leaf with others to its right is below one of its old. *)
LEMMA RowBelow ==
  ASSUME NEW ns, IsTree(ns), NEW p, NEW key, NEW son, MayInsert(ns, p, key, son),
         ns[p].leaf, NEW v \in LeafOf(ns), v \in Reach(ns, p), v # p
  PROVE  \E q \in Range(ns[p].sons) : KeyOf(son) <= KeyOf(q)
<1>1. NodesRight(ns)
  BY DEF IsTree
<1>2. p \in DOMAIN ns /\ Fits(ns[p], DOMAIN ns, key, son) /\ ~GoesRight(ns[p], key)
  BY DEF MayInsert
<1>3. p \in LeafOf(ns)
  BY <1>2 DEF LeafOf
<1>4. ns[p].sibling # 0
  BY <1>1, <1>3, ReachFirst
<1>5. PICK n, U : n = ns[p] /\ U = DOMAIN ns
  OBVIOUS
<1>6. 0 \notin U /\ IsNodeOf(n, U) /\ IsKind(n, U) /\ ~GoesRight(n, key) /\ n.sibling # 0
  BY <1>1, <1>2, <1>4, <1>5 DEF NodesRight
<1>7. key \in Int /\ key = KeyOf(son) /\ n.leaf
  BY <1>2, <1>5 DEF Fits
<1>8. Place(n, key) \in 1 .. Len(n.keys) /\ key <= n.keys[Place(n, key)]
  BY <1>6, <1>7, PlaceInside
<1>9. /\ n.sons[Place(n, key)] \in Range(n.sons)
      /\ n.keys[Place(n, key)] = KeyOf(n.sons[Place(n, key)])
  BY <1>1, <1>3, <1>5, <1>8, LeafRows
<1> QED BY <1>5, <1>7, <1>8, <1>9

LEMMA InsertLeafRows ==
  ASSUME NEW ns, IsTree(ns), NEW ms, NEW p, NEW key, NEW son, MayInsert(ns, p, key, son),
         IsInserted(ns, ms, p, key, son), ns[p].leaf
  PROVE  /\ Range(ms[p].sons) = Range(ns[p].sons) \cup {son}
         /\ IsInjective(ms[p].sons)
         /\ RowsOf(ms) = RowsOf(ns) \cup {son}
         /\ \A v : RowsLeft(ms, v) = RowsLeft(ns, v) \cup {x \in {son} : p \in LeftOf(ns, v)}
<1>1. /\ p \in DOMAIN ns /\ p \in LeafOf(ns) /\ Fits(ns[p], DOMAIN ns, key, son)
      /\ ~GoesRight(ns[p], key)
  BY DEF MayInsert, LeafOf
<1>2. son \notin Range(ns[p].sons) /\ IsInjective(ns[p].sons)
  BY <1>1 DEF MayInsert, RowsOf, IsTree, LineSorted
<1>3. Range(ms[p].sons) = Range(ns[p].sons) \cup {son} /\ IsInjective(ms[p].sons)
  <2>1. PICK n, U : n = ns[p] /\ U = DOMAIN ns
    OBVIOUS
  <2>2. /\ 0 \notin U /\ IsNodeOf(n, U) /\ IsKind(n, U) /\ Fits(n, U, key, son)
        /\ ~GoesRight(n, key) /\ n.leaf
    BY <1>1, <2>1 DEF NodesRight, IsTree
  <2>3. AddsRow(Inserted(n, key, son), n, son)
    BY <2>2, InsertedRows, Zenon
  <2>4. ms[p] = Inserted(n, key, son)
    BY <2>1 DEF IsInserted
  <2> QED BY <1>2, <2>1, <2>3, <2>4 DEF AddsRow
<1>4. \A u \in LeafOf(ns) \ {p} : ms[u].sons = ns[u].sons
  BY DEF IsInserted, LeafOf
<1>5. LeafOf(ms) = LeafOf(ns) /\ \A v : LeftOf(ms, v) = LeftOf(ns, v)
  BY InsertKeepsLine DEF IsInserted
<1>6. ASSUME NEW q PROVE q \in RowsOf(ms) <=> q \in RowsOf(ns) \/ q = son
  <2>1. (\E u \in LeafOf(ns) : q \in Range(ms[u].sons))
          <=> (\E u \in LeafOf(ns) : q \in Range(ns[u].sons)) \/ q = son
    BY <1>1, <1>3, <1>4
  <2> QED BY <1>5, <2>1, RowsLeftDef
<1>7. ASSUME NEW v PROVE RowsLeft(ms, v) = RowsLeft(ns, v) \cup {x \in {son} : p \in LeftOf(ns, v)}
  <2>1. ASSUME NEW q PROVE q \in RowsLeft(ms, v) <=> q \in RowsLeft(ns, v) \/ (q = son /\ p \in LeftOf(ns, v))
    <3>1. LeftOf(ns, v) \subseteq LeafOf(ns)
      BY DEF LeftOf
    <3>2. (\E u \in LeftOf(ns, v) : q \in Range(ms[u].sons))
            <=> (\E u \in LeftOf(ns, v) : q \in Range(ns[u].sons)) \/ (q = son /\ p \in LeftOf(ns, v))
      BY <1>3, <1>4, <3>1
    <3> QED BY <1>5, <3>2, RowsLeftDef
  <2> QED BY <2>1
<1> QED BY <1>3, <1>6, <1>7

LEMMA InsertLeafSorted ==
  ASSUME NEW ns, IsTree(ns), NEW ms, NEW p, NEW key, NEW son, MayInsert(ns, p, key, son),
         IsInserted(ns, ms, p, key, son), ns[p].leaf
  PROVE  LineSorted(ms)
<1>1. NodesRight(ns) /\ LineSorted(ns) /\ Founded(ns)
  BY DEF IsTree
<1>2. p \in LeafOf(ns) /\ son \in Row /\ key = KeyOf(son) /\ son \notin RowsOf(ns)
  BY DEF MayInsert, LeafOf, Fits
<1>3. LeafOf(ms) = LeafOf(ns) /\ \A u \in LeafOf(ns) \ {p} : ms[u].sons = ns[u].sons
  BY DEF IsInserted, LeafOf
<1>4. Range(ms[p].sons) = Range(ns[p].sons) \cup {son} /\ IsInjective(ms[p].sons)
  BY InsertLeafRows
<1>5. \A u \in LeafOf(ns) : son \notin Range(ns[u].sons) /\ Range(ns[u].sons) \subseteq Row
  BY <1>1, <1>2, LeafRows, RowsLeftDef
<1>6. ASSUME NEW u \in LeafOf(ns), NEW v \in LeafOf(ns), v \in Reach(ns, u), u # v
      PROVE  /\ Range(ms[u].sons) \cap Range(ms[v].sons) = {}
             /\ \A a \in Range(ms[u].sons), b \in Range(ms[v].sons) : KeyOf(a) <= KeyOf(b)
  <2>1. /\ Range(ns[u].sons) \cap Range(ns[v].sons) = {}
        /\ \A a \in Range(ns[u].sons), b \in Range(ns[v].sons) : KeyOf(a) <= KeyOf(b)
    BY <1>1, <1>6 DEF LineSorted
  <2>2. CASE u = p
    <3>1. PICK q \in Range(ns[p].sons) : KeyOf(son) <= KeyOf(q)
      BY <1>6, <2>2, RowBelow
    <3>2. ASSUME NEW b \in Range(ns[v].sons) PROVE KeyOf(son) <= KeyOf(b)
      <4>1. KeyOf(q) <= KeyOf(b) /\ q \in Row /\ b \in Row
        BY <1>5, <2>1, <2>2, <3>1
      <4> QED BY <1>2, <3>1, <4>1, KeysAssumption
    <3> QED BY <1>3, <1>4, <1>5, <1>6, <2>1, <2>2, <3>2
  <2>3. CASE v = p
    <3>1. ASSUME NEW a \in Range(ns[u].sons) PROVE KeyOf(a) <= KeyOf(son)
      <4>1. a \in RowsLeft(ns, p)
        BY <1>6, <2>3, RowsLeftDef DEF LeftOf
      <4>2. LeftEnd(ns)[p] = p
        BY <1>1, <1>2 DEF Founded, IsEnds, LeafOf
      <4>3. Under(a, key)
        BY <4>1, <4>2 DEF MayInsert, Bounded
      <4> QED BY <1>2, <1>5, <4>3, KeysAssumption DEF Under
    <3> QED BY <1>3, <1>4, <1>5, <1>6, <2>1, <2>3, <3>1
  <2>4. CASE u # p /\ v # p
    BY <1>3, <2>1, <2>4
  <2> QED BY <2>2, <2>3, <2>4
<1>7. \A u \in LeafOf(ms) : IsInjective(ms[u].sons)
  BY <1>1, <1>3, <1>4 DEF LineSorted
<1> QED BY <1>3, <1>6, <1>7, InsertKeepsLine DEF LineSorted

LEMMA InsertLeafCarries ==
  ASSUME NEW ns, IsTree(ns), NEW ms, NEW p, NEW key, NEW son, MayInsert(ns, p, key, son),
         IsInserted(ns, ms, p, key, son), ns[p].leaf
  PROVE  Carries(ns, ms, {son})
<1>1. NodesRight(ns) /\ Founded(ns)
  BY DEF IsTree
<1>2. p \in LeafOf(ns) /\ son \in Row /\ son \notin RowsOf(ns)
  BY DEF MayInsert, LeafOf, Fits
<1>3. ASSUME NEW v \in DOMAIN ns, NEW k \in Int, Bounded(ns, v, k) PROVE Bounded(ms, v, k)
  <2>1. PICK x : x = LeftEnd(ns)[v] /\ x \in LeafOf(ns) /\ LeftEnd(ms)[v] = x
    BY <1>1, InsertKeepsLine DEF Founded
  <2>2. \A q \in RowsLeft(ns, x) : Under(q, k)
    BY <1>3, <2>1 DEF Bounded
  <2>3. ASSUME p \in LeftOf(ns, x) PROVE Under(son, k)
    <3>1. PICK q \in Range(ns[p].sons) : KeyOf(son) <= KeyOf(q)
      BY <1>2, <2>1, <2>3, RowBelow DEF LeftOf, LeafOf
    <3>2. q \in RowsLeft(ns, x)
      BY <2>3, <3>1, RowsLeftDef
    <3>3. q \in Row /\ q # son
      BY <1>1, <1>2, <3>1, LeafRows, RowsLeftDef
    <3>4. Under(q, k)
      BY <2>2, <3>2
    <3>5. KeyOf(q) \in Int /\ KeyOf(son) \in Int
      BY <1>2, <3>3, KeysAssumption
    <3> QED BY <3>1, <3>3, <3>4, <3>5 DEF Under
  <2>4. \A q \in RowsLeft(ms, x) : Under(q, k)
    BY <2>2, <2>3, InsertLeafRows
  <2> QED BY <2>1, <2>4 DEF Bounded
<1>4. \A v \in LeafOf(ns) : RowsLeft(ns, v) \subseteq RowsLeft(ms, v) /\ RowsLeft(ms, v) \subseteq RowsLeft(ns, v) \cup {son}
  BY InsertLeafRows
<1>5. /\ DOMAIN ns \subseteq DOMAIN ms
      /\ \A u \in DOMAIN ns : ms[u].leaf = ns[u].leaf /\ LeftEnd(ms)[u] = LeftEnd(ns)[u]
  BY InsertKeepsLine DEF IsInserted
<1>6. RowsOf(ms) = RowsOf(ns) \cup {son}
  BY InsertLeafRows
<1> QED BY <1>3, <1>4, <1>5, <1>6 DEF Carries

LEMMA InsertLeafKeeps ==
  ASSUME NEW ns, IsTree(ns), NEW ms, NEW p, NEW key, NEW son, MayInsert(ns, p, key, son),
         IsInserted(ns, ms, p, key, son), ns[p].leaf
  PROVE  IsTree(ms)
<1>1. Separated(ms)
  <2> SUFFICES ASSUME NEW u \in DOMAIN ms, ~ms[u].leaf
               PROVE  /\ \A i \in 1 .. Len(ms[u].keys) - 1 : Bounded(ms, ms[u].sons[i + 1], ms[u].keys[i])
                      /\ ms[u].sibling # 0 => Bounded(ms, ms[u].sibling, ms[u].keys[Len(ms[u].keys)])
    BY DEF Separated
  <2>1. u \in DOMAIN ns /\ u # p /\ ms[u] = ns[u] /\ ~ns[u].leaf
    BY DEF IsInserted
  <2>2. PICK n : n = ns[u]
    OBVIOUS
  <2>3. /\ n.keys \in Seq(Int) /\ Len(n.keys) \in Nat /\ n.sibling \in DOMAIN ns \cup {0}
        /\ \A i \in 1 .. Len(n.keys) : n.sons[i] \in DOMAIN ns
        /\ n.keys # <<>>
    BY <2>1, <2>2 DEF IsTree, NodesRight, IsNodeOf, IsKind, IsInnerNode
  <2>4. \A i \in 1 .. Len(n.keys) : n.keys[i] \in Int
    BY <2>3
  <2>5. Len(n.keys) \in 1 .. Len(n.keys)
    BY <2>3
  <2>6. /\ \A i \in 1 .. Len(n.keys) - 1 : Bounded(ns, n.sons[i + 1], n.keys[i])
        /\ n.sibling # 0 => Bounded(ns, n.sibling, n.keys[Len(n.keys)])
    BY <2>1, <2>2 DEF IsTree, Separated
  <2>7. \A v \in DOMAIN ns, k \in Int : Bounded(ns, v, k) => Bounded(ms, v, k)
    BY InsertLeafCarries DEF Carries
  <2>8. ASSUME NEW i \in 1 .. Len(n.keys) - 1 PROVE Bounded(ms, n.sons[i + 1], n.keys[i])
    <3>1. i \in 1 .. Len(n.keys) /\ i + 1 \in 1 .. Len(n.keys)
      BY <2>3
    <3> QED BY <2>3, <2>4, <2>6, <2>7, <3>1
  <2>9. n.sibling # 0 => Bounded(ms, n.sibling, n.keys[Len(n.keys)])
    BY <2>3, <2>4, <2>5, <2>6, <2>7
  <2> QED BY <2>1, <2>2, <2>8, <2>9
<1> QED BY <1>1, InsertKeepsLine, InsertLeafSorted DEF IsTree, IsInserted

(* In an inner node the new son gets its separator, the others keep theirs. *)
SeparatedNode(ns, n) ==
  /\ \A i \in 1 .. Len(n.keys) - 1 : Bounded(ns, n.sons[i + 1], n.keys[i])
  /\ n.sibling # 0 => Bounded(ns, n.sibling, n.keys[Len(n.keys)])

LEMMA InsertedSeparated ==
  ASSUME NEW ns, NEW U, 0 \notin U, NEW n, IsNodeOf(n, U), IsKind(n, U), ~n.leaf, SeparatedNode(ns, n),
         NEW key, NEW son, Fits(n, U, key, son), ~GoesRight(n, key), Bounded(ns, son, key)
  PROVE  SeparatedNode(ns, Inserted(n, key, son))
<1> DEFINE i == Place(n, key)
           L == Len(n.keys)
<1>1. PICK m : m = Inserted(n, key, son)
  OBVIOUS
<1>2. IsNodeWith(m, n, i, i + 1, key, son)
  BY <1>1, InsertedKeys DEF SonPlace
<1>3. i \in 1 .. L /\ L \in Nat
  <2>1. L \in Nat
    BY DEF IsNodeOf
  <2> QED BY <2>1, InsertedKeys, Zenon
<1>4. /\ \A j \in 1 .. L + 1 : m.keys[j] = IF j < i THEN n.keys[j] ELSE IF j = i THEN key ELSE n.keys[j - 1]
      /\ \A j \in 1 .. L + 1 : m.sons[j] = IF j < i + 1 THEN n.sons[j] ELSE IF j = i + 1 THEN son ELSE n.sons[j - 1]
      /\ Len(m.keys) = L + 1 /\ m.sibling = n.sibling
  BY <1>2 DEF IsNodeWith, IsWith, IsNodeOf
<1>5. /\ \A j \in 1 .. L - 1 : Bounded(ns, n.sons[j + 1], n.keys[j])
      /\ n.sibling # 0 => Bounded(ns, n.sibling, n.keys[L])
  BY DEF SeparatedNode
<1> HIDE DEF i, L
<1>6. ASSUME NEW j \in 1 .. L PROVE Bounded(ns, m.sons[j + 1], m.keys[j])
  <2>1. j \in 1 .. L + 1 /\ j + 1 \in 1 .. L + 1
    BY <1>3
  <2>2. CASE j < i
    <3>1. j \in 1 .. L - 1 /\ j + 1 < i + 1
      BY <1>3, <2>2
    <3>2. m.sons[j + 1] = n.sons[j + 1] /\ m.keys[j] = n.keys[j]
      BY <1>4, <2>1, <2>2, <3>1
    <3> QED BY <1>5, <3>1, <3>2
  <2>3. CASE j = i
    <3>1. ~(j + 1 < i + 1) /\ j + 1 = i + 1 /\ ~(j < i)
      BY <1>3, <2>3
    <3>2. m.sons[j + 1] = son /\ m.keys[j] = key
      BY <1>4, <2>1, <2>3, <3>1
    <3> QED BY <3>2
  <2>4. CASE j > i
    <3>1. /\ ~(j + 1 < i + 1) /\ j + 1 # i + 1 /\ ~(j < i) /\ j # i /\ (j + 1) - 1 = j
          /\ (j - 1) + 1 = j /\ j - 1 \in 1 .. L - 1
      BY <1>3, <2>4
    <3>2. m.sons[j + 1] = n.sons[j] /\ m.keys[j] = n.keys[j - 1]
      BY <1>4, <2>1, <3>1
    <3>3. Bounded(ns, n.sons[(j - 1) + 1], n.keys[j - 1])
      BY <1>5, <3>1
    <3> QED BY <3>1, <3>2, <3>3
  <2> QED BY <1>3, <2>2, <2>3, <2>4
<1>7. m.keys[L + 1] = n.keys[L]
  <2>1. L + 1 \in 1 .. L + 1 /\ ~(L + 1 < i) /\ L + 1 # i /\ (L + 1) - 1 = L
    BY <1>3
  <2>2. m.keys[L + 1] = n.keys[(L + 1) - 1]
    BY <1>4, <2>1
  <2> QED BY <2>1, <2>2
<1>8. (L + 1) - 1 = L
  BY <1>3
<1>9. SeparatedNode(ns, m)
  BY <1>4, <1>5, <1>6, <1>7, <1>8 DEF SeparatedNode
<1> QED BY <1>1, <1>9

LEMMA SeparatedIs ==
  ASSUME NEW ns
  PROVE  Separated(ns) <=> \A u \in DOMAIN ns : ~ns[u].leaf => SeparatedNode(ns, ns[u])
BY DEF Separated, SeparatedNode

(* A node stays separated when what is known of its sons is known on.      *)
LEMMA SeparatedOn ==
  ASSUME NEW ns, NEW ms, NEW U, NEW n, IsNodeOf(n, U), IsKind(n, U), ~n.leaf,
         \A v \in U, k \in Int : Bounded(ns, v, k) => Bounded(ms, v, k),
         SeparatedNode(ns, n)
  PROVE  SeparatedNode(ms, n)
<1>1. /\ n.keys \in Seq(Int) /\ Len(n.keys) \in Nat /\ n.sibling \in U \cup {0}
      /\ \A i \in 1 .. Len(n.keys) : n.sons[i] \in U
      /\ n.keys # <<>>
  BY DEF IsNodeOf, IsKind, IsInnerNode
<1>2. \A i \in 1 .. Len(n.keys) : n.keys[i] \in Int
  BY <1>1
<1>3. Len(n.keys) \in 1 .. Len(n.keys)
  BY <1>1
<1>4. ASSUME NEW i \in 1 .. Len(n.keys) - 1 PROVE Bounded(ms, n.sons[i + 1], n.keys[i])
  <2>1. i \in 1 .. Len(n.keys) /\ i + 1 \in 1 .. Len(n.keys)
    BY <1>1
  <2> QED BY <1>1, <1>2, <2>1 DEF SeparatedNode
<1>5. n.sibling # 0 => Bounded(ms, n.sibling, n.keys[Len(n.keys)])
  BY <1>1, <1>2, <1>3 DEF SeparatedNode
<1> QED BY <1>4, <1>5 DEF SeparatedNode

LEMMA InsertInnerKeeps ==
  ASSUME NEW ns, IsTree(ns), NEW ms, NEW p, NEW key, NEW son, MayInsert(ns, p, key, son),
         IsInserted(ns, ms, p, key, son), ~ns[p].leaf
  PROVE  IsTree(ms) /\ Carries(ns, ms, {})
<1>1. NodesRight(ns) /\ Line(ns) /\ LineSorted(ns) /\ Founded(ns) /\ Separated(ns)
  BY DEF IsTree
<1>2. /\ LeafOf(ms) = LeafOf(ns)
      /\ \A v \in LeafOf(ns) : ms[v].sibling = ns[v].sibling /\ ms[v].sons = ns[v].sons
  BY DEF IsInserted, LeafOf
<1>3. /\ \A v : RowsLeft(ms, v) = RowsLeft(ns, v)
      /\ RowsOf(ms) = RowsOf(ns)
      /\ Line(ms) /\ LineSorted(ms)
  BY <1>1, <1>2, LeavesAlone
<1>4. Founded(ms) /\ \A u \in DOMAIN ns : LeftEnd(ms)[u] = LeftEnd(ns)[u]
  BY InsertKeepsLine
<1>5. \A v \in DOMAIN ns, k \in Int : Bounded(ns, v, k) => Bounded(ms, v, k)
  BY <1>1, <1>3, <1>4, SameBounds
<1>6. Separated(ms)
  <2>1. ASSUME NEW u \in DOMAIN ns, ~ns[u].leaf PROVE SeparatedNode(ms, ms[u])
    <3>1. SeparatedNode(ns, ns[u])
      BY <1>1, <2>1, SeparatedIs
    <3>2. SeparatedNode(ns, ms[u])
      <4>1. CASE u # p
        BY <3>1, <4>1 DEF IsInserted
      <4>2. CASE u = p
        <5>1. PICK n, U : n = ns[p] /\ U = DOMAIN ns
          OBVIOUS
        <5>2. /\ 0 \notin U /\ IsNodeOf(n, U) /\ IsKind(n, U) /\ ~n.leaf /\ SeparatedNode(ns, n)
              /\ Fits(n, U, key, son) /\ ~GoesRight(n, key) /\ Bounded(ns, son, key)
          BY <1>1, <2>1, <3>1, <4>2, <5>1 DEF MayInsert, NodesRight
        <5>3. SeparatedNode(ns, Inserted(n, key, son))
          BY <5>2, InsertedSeparated, Zenon
        <5> QED BY <4>2, <5>1, <5>3 DEF IsInserted
      <4> QED BY <4>1, <4>2
    <3>3. IsNodeOf(ms[u], DOMAIN ns) /\ IsKind(ms[u], DOMAIN ns) /\ ~ms[u].leaf
      BY <2>1 DEF IsInserted, NodesRight
    <3> QED BY <1>5, <3>2, <3>3, SeparatedOn
  <2> QED BY <2>1, SeparatedIs DEF IsInserted
<1>7. Carries(ns, ms, {})
  <2>1. /\ RowsOf(ms) = RowsOf(ns) \cup {}
        /\ \A v : RowsLeft(ms, v) \subseteq RowsLeft(ns, v) \cup {} /\ RowsLeft(ns, v) \subseteq RowsLeft(ms, v)
    BY <1>3
  <2>2. DOMAIN ns \subseteq DOMAIN ms /\ \A u \in DOMAIN ns : ms[u].leaf = ns[u].leaf
    BY DEF IsInserted
  <2> QED BY <1>4, <1>5, <2>1, <2>2 DEF Carries
<1> QED BY <1>3, <1>4, <1>6, <1>7 DEF IsTree, IsInserted

LEMMA WithKeeps ==
  ASSUME NEW ns, IsTree(ns), NEW p, NEW key, NEW son, MayInsert(ns, p, key, son)
  PROVE  /\ IsTree(With(ns, p, key, son))
         /\ Carries(ns, With(ns, p, key, son), IF ns[p].leaf THEN {son} ELSE {})
         /\ IsInserted(ns, With(ns, p, key, son), p, key, son)
<1>1. NodesRight(ns)
  BY DEF IsTree
<1>2. IsInserted(ns, With(ns, p, key, son), p, key, son)
  BY <1>1, WithIs DEF IsInserted
<1>3. PICK ms : ms = With(ns, p, key, son)
  OBVIOUS
<1>4. IsInserted(ns, ms, p, key, son)
  BY <1>2, <1>3
<1>5. IsTree(ms) /\ Carries(ns, ms, IF ns[p].leaf THEN {son} ELSE {})
  <2>1. CASE ns[p].leaf
    BY <1>4, <2>1, InsertLeafKeeps, InsertLeafCarries
  <2>2. CASE ~ns[p].leaf
    BY <1>4, <2>2, InsertInnerKeeps
  <2> QED BY <2>1, <2>2
<1> QED BY <1>2, <1>3, <1>5

----------------------------------------------------------------------------
(* The split of the node p; w is the uid of its upper half.                *)

Halved(ns, p, w) == Put([ns EXCEPT ![p] = LowerHalf(ns[p], w)], w, UpperHalf(ns[p]))
MaySplit(ns, p, w) ==
  p \in DOMAIN ns /\ Len(ns[p].keys) = 2 * BalanceNumber /\ w \notin DOMAIN ns /\ w # 0

IsHalved(ns, ms, p, w) ==
  /\ DOMAIN ms = DOMAIN ns \cup {w}
  /\ IsSplit(ns[p], ms[p], ms[w], DOMAIN ns, w)
  /\ \A u \in DOMAIN ns \ {p} : ms[u] = ns[u]
  /\ NodesRight(ms)
  /\ GrowsAbove(ns, ms)

LEMMA HalvedIs ==
  ASSUME NEW ns, NodesRight(ns), NEW p, NEW w, MaySplit(ns, p, w)
  PROVE  IsHalved(ns, Halved(ns, p, w), p, w)
<1> DEFINE B == BalanceNumber
<1>1. B \in Nat \ {0, 1}
  BY BalanceAssumption
<1>2. PICK ms : ms = Halved(ns, p, w)
  OBVIOUS
<1>3. PICK n : n = ns[p]
  OBVIOUS
<1>4. /\ p \in DOMAIN ns /\ IsNodeOf(n, DOMAIN ns) /\ IsKind(n, DOMAIN ns) /\ Len(n.keys) = 2 * B
      /\ w \notin DOMAIN ns /\ w # 0
  BY <1>3 DEF NodesRight, MaySplit
<1>5. /\ DOMAIN ms = DOMAIN ns \cup {w} /\ ms[p] = LowerHalf(n, w) /\ ms[w] = UpperHalf(n)
      /\ \A u \in DOMAIN ns \ {p} : ms[u] = ns[u]
  BY <1>2, <1>3, <1>4 DEF Halved, Put
<1>6. IsSplit(n, ms[p], ms[w], DOMAIN ns, w)
  BY <1>4, <1>5, HalvesAre
<1>7. ms[p].leaf = n.leaf /\ ms[w].leaf = n.leaf /\ ms[p].sibling = w /\ ms[w].sibling = n.sibling
  BY <1>6 DEF IsSplit
<1>8. \A u \in DOMAIN ns : ms[u].leaf = ns[u].leaf
  BY <1>3, <1>5, <1>7
<1>9. NodesRight(ms)
  <2>1. ASSUME NEW u \in DOMAIN ms PROVE IsNodeOf(ms[u], DOMAIN ms) /\ IsKind(ms[u], DOMAIN ms)
    <3>1. CASE u = p \/ u = w
      <4>1. PICK U : U = DOMAIN ns
        OBVIOUS
      <4>2. IsNodeOf(n, U) /\ IsKind(n, U) /\ Len(n.keys) = 2 * BalanceNumber /\ w # 0
        BY <1>4, <4>1
      <4>3. /\ IsNodeOf(LowerHalf(n, w), U \cup {w}) /\ IsKind(LowerHalf(n, w), U \cup {w})
            /\ IsNodeOf(UpperHalf(n), U \cup {w}) /\ IsKind(UpperHalf(n), U \cup {w})
        BY <4>2, HalvesAreNodes, Zenon
      <4> QED BY <1>5, <3>1, <4>1, <4>3
    <3>2. CASE u # p /\ u # w
      BY <1>5, <3>2, IsNodeGrows DEF NodesRight
    <3> QED BY <3>1, <3>2
  <2>2. ASSUME NEW u \in DOMAIN ns, ns[u].sibling # 0
        PROVE  ns[u].sibling \in DOMAIN ns /\ ns[ns[u].sibling].leaf = ns[u].leaf
    BY <2>2 DEF NodesRight, IsNodeOf
  <2>3. ASSUME NEW u \in DOMAIN ms, ms[u].sibling # 0 PROVE ms[ms[u].sibling].leaf = ms[u].leaf
    <3>1. CASE u = p
      BY <1>7, <3>1
    <3>2. CASE u = w
      BY <1>3, <1>4, <1>7, <1>8, <2>2, <2>3, <3>2
    <3>3. CASE u # p /\ u # w
      BY <1>5, <1>8, <2>2, <2>3, <3>3
    <3> QED BY <3>1, <3>2, <3>3
  <2>4. 1 \in LeafOf(ms) /\ 0 \notin DOMAIN ms
    BY <1>4, <1>5, <1>8 DEF NodesRight, LeafOf
  <2> QED BY <2>1, <2>3, <2>4 DEF NodesRight
<1>10. GrowsAbove(ns, ms)
  <2>1. \A u \in DOMAIN ns : ~ns[u].leaf => ns[u].sons[1] \in DOMAIN ns
    <3> SUFFICES ASSUME NEW u \in DOMAIN ns, ~ns[u].leaf PROVE ns[u].sons[1] \in DOMAIN ns
      OBVIOUS
    <3>1. IsNodeOf(ns[u], DOMAIN ns) /\ IsInnerNode(ns[u], DOMAIN ns)
      BY DEF NodesRight, IsKind
    <3>2. 1 \in 1 .. Len(ns[u].keys)
      BY <3>1 DEF IsInnerNode, IsNodeOf
    <3> QED BY <3>1, <3>2 DEF IsInnerNode
  <2>2. 1 \in 1 .. B /\ B + 1 \in 1 .. 2 * B
    BY <1>1
  <2>3. ms[p].sons[1] = n.sons[1] /\ ms[w].sons[1] = n.sons[B + 1]
    BY <1>6, <2>2 DEF IsSplit, AreHalves
  <2>4. ~n.leaf => n.sons[B + 1] \in DOMAIN ns
    BY <1>4, <2>2 DEF IsKind, IsInnerNode
  <2>5. \A u \in DOMAIN ns : ~ns[u].leaf => ms[u].sons[1] = ns[u].sons[1]
    BY <1>3, <1>5, <2>3
  <2> QED BY <1>5, <1>7, <1>8, <2>1, <2>3, <2>4, <2>5 DEF GrowsAbove
<1>11. IsHalved(ns, ms, p, w)
  BY <1>3, <1>5, <1>6, <1>9, <1>10 DEF IsHalved
<1> QED BY <1>2, <1>11


LEMMA SplitLeafKeeps ==
  ASSUME NEW ns, IsTree(ns), NEW ms, NEW p, NEW w, MaySplit(ns, p, w), IsHalved(ns, ms, p, w), ns[p].leaf
  PROVE  /\ IsTree(ms) /\ Carries(ns, ms, {})
         /\ ms[w].keys[1] \in Int /\ ms[w].keys[1] <= MaxKey /\ Bounded(ms, w, ms[w].keys[1])
<1> DEFINE B == BalanceNumber
<1>1. B \in Nat \ {0, 1}
  BY BalanceAssumption
<1>2. NodesRight(ns) /\ Line(ns) /\ LineSorted(ns) /\ Founded(ns) /\ Separated(ns)
  BY DEF IsTree
<1>3. /\ p \in LeafOf(ns) /\ w \notin LeafOf(ns) /\ w # 0 /\ w \notin DOMAIN ns
      /\ LeafOf(ms) = LeafOf(ns) \cup {w}
      /\ ms[p].sibling = w /\ ms[w].sibling = ns[p].sibling
      /\ \A v \in DOMAIN ns \ {p} : ms[v] = ns[v]
  <2>1. ms[p].leaf /\ ms[w].leaf /\ ms[p].sibling = w /\ ms[w].sibling = ns[p].sibling
    BY DEF IsHalved, IsSplit
  <2> QED BY <2>1 DEF MaySplit, IsHalved, LeafOf
<1>4. LeafSplits(ns, ms, p, w)
  BY <1>3 DEF LeafSplits, LeafOf
<1>5. /\ NodesRight(ms) /\ DOMAIN ns \subseteq DOMAIN ms /\ DOMAIN ms = DOMAIN ns \cup {w}
      /\ GrowsAbove(ns, ms)
  BY DEF IsHalved
<1>6. Founded(ms) /\ (\A u \in DOMAIN ns : LeftEnd(ms)[u] = LeftEnd(ns)[u]) /\ LeftEnd(ms)[w] = w
  BY <1>2, <1>3, <1>5, EndsGrow DEF LeafOf
<1>7. PICK s, t, u : s = ns[p].sons /\ t = ms[p].sons /\ u = ms[w].sons
  OBVIOUS
<1>8. DOMAIN s = 1 .. 2 * B /\ DOMAIN t = 1 .. B /\ DOMAIN u = 1 .. B /\ AreHalves(t, u, s)
  <2>1. AreHalves(t, u, s) /\ t \in Seq(Row \cup DOMAIN ns) /\ u \in Seq(Row \cup DOMAIN ns)
    BY <1>7 DEF IsHalved, IsSplit
  <2>2. DOMAIN s = 1 .. 2 * B
    BY <1>2, <1>3, <1>7, LeafRows DEF MaySplit
  <2>3. DOMAIN t = 1 .. Len(t) /\ DOMAIN u = 1 .. Len(u)
    BY <2>1
  <2> QED BY <2>1, <2>2, <2>3 DEF AreHalves
<1>9. IsInjective(s)
  BY <1>2, <1>3, <1>7 DEF LineSorted
<1>10. /\ Range(s) = Range(t) \cup Range(u) /\ IsInjective(t) /\ IsInjective(u)
       /\ Range(t) \cap Range(u) = {}
  BY <1>8, <1>9, HalvesShare
<1>11. RowsSplit(ns, ms, p, w)
  BY <1>3, <1>7, <1>10 DEF RowsSplit, LeafOf
<1>12. ASSUME NEW a \in Range(t), NEW b \in Range(u) PROVE KeyOf(a) <= KeyOf(b)
  <2>1. PICK i \in 1 .. B, j \in 1 .. B : a = t[i] /\ b = u[j]
    BY <1>8 DEF Range
  <2>2. i \in 1 .. 2 * B /\ B + j \in 1 .. 2 * B /\ i <= B + j
    BY <1>1
  <2>3. a = s[i] /\ b = s[B + j]
    BY <1>8, <2>1 DEF AreHalves
  <2>4. ns[p].keys[i] = KeyOf(a) /\ ns[p].keys[B + j] = KeyOf(b)
    BY <1>2, <1>3, <1>7, <2>2, <2>3, LeafRows DEF MaySplit
  <2>5. ns[p].keys[i] <= ns[p].keys[B + j]
    BY <1>2, <2>2 DEF NodesRight, IsNodeOf, MaySplit
  <2> QED BY <2>4, <2>5
<1>13. Line(ms) /\ LineSorted(ms)
  BY <1>2, <1>4, <1>7, <1>10, <1>11, <1>12, SplitLine, SplitSorted
<1>14. /\ \A v \in LeafOf(ns) : RowsLeft(ms, v) = RowsLeft(ns, v)
       /\ RowsLeft(ms, w) = RowsLeft(ns, p) \cup Range(t)
       /\ RowsOf(ms) = RowsOf(ns)
  BY <1>2, <1>4, <1>7, <1>11, SplitRows
<1>15. \A v \in DOMAIN ns, k \in Int : Bounded(ns, v, k) => Bounded(ms, v, k)
  BY <1>2, <1>6, <1>14, SameBounds
<1>16. Separated(ms)
  <2>1. ASSUME NEW x \in DOMAIN ms, ~ms[x].leaf PROVE SeparatedNode(ms, ms[x])
    <3>1. x \in DOMAIN ns /\ ms[x] = ns[x]
      BY <1>3, <1>5, <2>1 DEF LeafOf
    <3>2. /\ IsNodeOf(ns[x], DOMAIN ns) /\ IsKind(ns[x], DOMAIN ns) /\ ~ns[x].leaf
          /\ SeparatedNode(ns, ns[x])
      BY <1>2, <2>1, <3>1, SeparatedIs DEF NodesRight
    <3> QED BY <1>15, <3>1, <3>2, SeparatedOn
  <2> QED BY <2>1, SeparatedIs
<1>17. Carries(ns, ms, {})
  <2>1. \A v \in DOMAIN ns : ms[v].leaf = ns[v].leaf /\ LeftEnd(ms)[v] = LeftEnd(ns)[v]
    BY <1>5, <1>6 DEF GrowsAbove
  <2>2. /\ RowsOf(ms) = RowsOf(ns) \cup {}
        /\ \A v \in LeafOf(ns) : RowsLeft(ns, v) \subseteq RowsLeft(ms, v) /\ RowsLeft(ms, v) \subseteq RowsLeft(ns, v) \cup {}
    BY <1>14
  <2> QED BY <1>5, <1>15, <2>1, <2>2 DEF Carries
<1>18. /\ u[1] \in Range(u) /\ u[1] \in Row /\ ms[w].keys[1] = KeyOf(u[1])
  <2>1. w \in LeafOf(ms) /\ Len(ms[w].keys) = B
    BY <1>3 DEF IsHalved, IsSplit, AreHalves
  <2>2. 1 \in 1 .. B
    BY <1>1
  <2> QED BY <1>5, <1>7, <2>1, <2>2, LeafRows
<1>19. ASSUME NEW q \in RowsLeft(ms, w) PROVE Under(q, KeyOf(u[1]))
  <2>1. KeyOf(q) <= KeyOf(u[1]) /\ q # u[1]
    <3>1. CASE q \in Range(t)
      BY <1>10, <1>12, <1>18, <3>1
    <3>2. CASE q \in RowsLeft(ns, p)
      <4>1. PICK x \in LeftOf(ns, p) : q \in Range(ns[x].sons)
        BY <3>2, RowsLeftDef
      <4>2. x \in LeafOf(ns) /\ p \in Reach(ns, x) /\ x # p
        BY <4>1 DEF LeftOf
      <4>3. u[1] \in Range(ns[p].sons)
        BY <1>7, <1>10, <1>18
      <4> QED BY <1>2, <1>3, <4>1, <4>2, <4>3 DEF LineSorted
    <3> QED BY <1>14, <3>1, <3>2
  <2>2. q \in Row
    BY <1>5, RowsAreRows
  <2> QED BY <1>18, <2>1, <2>2, KeysAssumption DEF Under
<1>20. Bounded(ms, w, ms[w].keys[1])
  BY <1>6, <1>18, <1>19 DEF Bounded
<1>21. ms[w].keys[1] \in Int /\ ms[w].keys[1] <= MaxKey
  BY <1>18, KeysAssumption
<1> QED BY <1>5, <1>6, <1>13, <1>16, <1>17, <1>20, <1>21 DEF IsTree

LEMMA SplitInnerKeeps ==
  ASSUME NEW ns, IsTree(ns), NEW ms, NEW p, NEW w, MaySplit(ns, p, w), IsHalved(ns, ms, p, w), ~ns[p].leaf
  PROVE  /\ IsTree(ms) /\ Carries(ns, ms, {})
         /\ ms[w].keys[1] \in Int /\ ms[w].keys[1] <= MaxKey /\ Bounded(ms, w, ms[w].keys[1])
<1> DEFINE B == BalanceNumber
<1>1. B \in Nat \ {0, 1}
  BY BalanceAssumption
<1>2. NodesRight(ns) /\ Line(ns) /\ LineSorted(ns) /\ Founded(ns) /\ Separated(ns)
  BY DEF IsTree
<1>3. PICK n, lo, up : n = ns[p] /\ lo = ms[p] /\ up = ms[w]
  OBVIOUS
<1>4. /\ lo.leaf = n.leaf /\ up.leaf = n.leaf /\ lo.sibling = w /\ up.sibling = n.sibling
      /\ Len(lo.keys) = B /\ Len(up.keys) = B
      /\ \A j \in 1 .. B : /\ lo.keys[j] = n.keys[j] /\ up.keys[j] = n.keys[B + j]
                           /\ lo.sons[j] = n.sons[j] /\ up.sons[j] = n.sons[B + j]
  <2>1. IsSplit(n, lo, up, DOMAIN ns, w)
    BY <1>3 DEF IsHalved
  <2> QED BY <2>1 DEF IsSplit, AreHalves
<1>5. /\ p \in DOMAIN ns /\ ~n.leaf /\ Len(n.keys) = 2 * B /\ w \notin DOMAIN ns /\ w # 0
      /\ IsNodeOf(n, DOMAIN ns) /\ IsKind(n, DOMAIN ns)
  BY <1>2, <1>3 DEF MaySplit, NodesRight
<1>6. /\ NodesRight(ms) /\ DOMAIN ms = DOMAIN ns \cup {w} /\ GrowsAbove(ns, ms)
      /\ \A v \in DOMAIN ns \ {p} : ms[v] = ns[v]
  BY DEF IsHalved
<1>7. LeafOf(ms) = LeafOf(ns) /\ p \notin LeafOf(ns)
  BY <1>3, <1>4, <1>5, <1>6 DEF LeafOf, GrowsAbove
<1>8. \A v \in LeafOf(ns) : ms[v].sibling = ns[v].sibling /\ ms[v].sons = ns[v].sons
  BY <1>6, <1>7 DEF LeafOf
<1>9. /\ \A v : RowsLeft(ms, v) = RowsLeft(ns, v)
      /\ RowsOf(ms) = RowsOf(ns)
      /\ Line(ms) /\ LineSorted(ms)
  BY <1>2, <1>7, <1>8, LeavesAlone
<1>10. /\ Founded(ms) /\ \A u \in DOMAIN ns : LeftEnd(ms)[u] = LeftEnd(ns)[u]
       /\ LeftEnd(ms)[w] = LeftEnd(ns)[n.sons[B + 1]]
  <2>1. 1 \in 1 .. B
    BY <1>1
  <2>2. w \in DOMAIN ms \ DOMAIN ns /\ ~ms[w].leaf /\ ms[w].sons[1] = n.sons[B + 1]
    BY <1>3, <1>4, <1>5, <1>6, <2>1
  <2> QED BY <1>2, <1>6, <2>2, EndsGrow
<1>11. \A v \in DOMAIN ns, k \in Int : Bounded(ns, v, k) => Bounded(ms, v, k)
  BY <1>2, <1>9, <1>10, SameBounds
<1>12. SeparatedNode(ms, n)
  BY <1>2, <1>3, <1>5, <1>11, SeparatedIs, SeparatedOn
<1>13. /\ \A j \in 1 .. 2 * B - 1 : Bounded(ms, n.sons[j + 1], n.keys[j])
       /\ n.sibling # 0 => Bounded(ms, n.sibling, n.keys[2 * B])
  BY <1>5, <1>12 DEF SeparatedNode
<1>14. Bounded(ms, w, n.keys[B])
  <2>1. B \in 1 .. 2 * B - 1 /\ B + 1 \in 1 .. 2 * B
    BY <1>1
  <2>2. Bounded(ms, n.sons[B + 1], n.keys[B])
    BY <1>13, <2>1
  <2>3. n.sons[B + 1] \in DOMAIN ns
    BY <1>5, <2>1 DEF IsKind, IsInnerNode
  <2> QED BY <1>10, <2>2, <2>3 DEF Bounded
<1>15. SeparatedNode(ms, lo)
  <2>1. ASSUME NEW j \in 1 .. B - 1 PROVE Bounded(ms, lo.sons[j + 1], lo.keys[j])
    <3>1. j \in 1 .. B /\ j + 1 \in 1 .. B /\ j \in 1 .. 2 * B - 1
      BY <1>1
    <3> QED BY <1>4, <1>13, <3>1
  <2>2. lo.keys[B] = n.keys[B]
    BY <1>1, <1>4
  <2> QED BY <1>4, <1>14, <2>1, <2>2 DEF SeparatedNode
<1>16. SeparatedNode(ms, up)
  <2>1. ASSUME NEW j \in 1 .. B - 1 PROVE Bounded(ms, up.sons[j + 1], up.keys[j])
    <3>1. j \in 1 .. B /\ j + 1 \in 1 .. B /\ B + j \in 1 .. 2 * B - 1 /\ B + (j + 1) = (B + j) + 1
      BY <1>1
    <3>2. Bounded(ms, n.sons[(B + j) + 1], n.keys[B + j])
      BY <1>13, <3>1
    <3> QED BY <1>4, <3>1, <3>2
  <2>2. up.keys[B] = n.keys[2 * B]
    BY <1>1, <1>4
  <2> QED BY <1>4, <1>13, <2>1, <2>2 DEF SeparatedNode
<1>17. Separated(ms)
  <2>1. ASSUME NEW u \in DOMAIN ms, ~ms[u].leaf PROVE SeparatedNode(ms, ms[u])
    <3>1. CASE u = p \/ u = w
      BY <1>3, <1>15, <1>16, <3>1
    <3>2. CASE u # p /\ u # w
      <4>1. u \in DOMAIN ns /\ ms[u] = ns[u]
        BY <1>6, <3>2
      <4>2. /\ IsNodeOf(ns[u], DOMAIN ns) /\ IsKind(ns[u], DOMAIN ns) /\ ~ns[u].leaf
            /\ SeparatedNode(ns, ns[u])
        BY <1>2, <2>1, <4>1, SeparatedIs DEF NodesRight
      <4> QED BY <1>11, <4>1, <4>2, SeparatedOn
    <3> QED BY <3>1, <3>2
  <2> QED BY <2>1, SeparatedIs
<1>18. Carries(ns, ms, {})
  <2>1. \A v \in DOMAIN ns : ms[v].leaf = ns[v].leaf /\ LeftEnd(ms)[v] = LeftEnd(ns)[v]
    BY <1>6, <1>10 DEF GrowsAbove
  <2>2. /\ RowsOf(ms) = RowsOf(ns) \cup {}
        /\ \A v \in LeafOf(ns) : RowsLeft(ns, v) \subseteq RowsLeft(ms, v) /\ RowsLeft(ms, v) \subseteq RowsLeft(ns, v) \cup {}
    BY <1>9
  <2> QED BY <1>6, <1>11, <2>1, <2>2 DEF Carries
<1>19. /\ up.keys[1] = n.keys[B + 1] /\ n.keys[B + 1] \in Int /\ n.keys[B + 1] <= MaxKey
       /\ n.keys[B] \in Int /\ n.keys[B] <= n.keys[B + 1]
  <2>1. 1 \in 1 .. B /\ B \in 1 .. 2 * B /\ B + 1 \in 1 .. 2 * B /\ B <= B + 1
    BY <1>1
  <2>2. n.keys \in Seq(Int)
    BY <1>5 DEF IsNodeOf
  <2>3. n.keys[B] \in Int /\ n.keys[B + 1] \in Int
    BY <1>5, <2>1, <2>2
  <2>4. n.keys[B] <= n.keys[B + 1] /\ n.keys[B + 1] <= MaxKey
    BY <1>5, <2>1 DEF IsNodeOf, IsKind, IsInnerNode
  <2> QED BY <1>4, <2>1, <2>3, <2>4
<1>20. Bounded(ms, w, n.keys[B + 1])
  BY <1>6, <1>14, <1>19, BoundedMore
<1> QED BY <1>3, <1>6, <1>9, <1>10, <1>17, <1>18, <1>19, <1>20 DEF IsTree

LEMMA HalvedKeeps ==
  ASSUME NEW ns, IsTree(ns), NEW p, NEW w, MaySplit(ns, p, w)
  PROVE  LET ms == Halved(ns, p, w)
         IN  /\ IsTree(ms) /\ Carries(ns, ms, {}) /\ IsHalved(ns, ms, p, w)
             /\ ms[w].keys[1] \in Int /\ ms[w].keys[1] <= MaxKey /\ Bounded(ms, w, ms[w].keys[1])
<1>1. PICK ms : ms = Halved(ns, p, w)
  OBVIOUS
<1>2. IsHalved(ns, ms, p, w)
  BY <1>1, HalvedIs DEF IsTree
<1>3. /\ IsTree(ms) /\ Carries(ns, ms, {})
      /\ ms[w].keys[1] \in Int /\ ms[w].keys[1] <= MaxKey /\ Bounded(ms, w, ms[w].keys[1])
  BY <1>2, SplitLeafKeeps, SplitInnerKeeps
<1> QED BY <1>1, <1>2, <1>3

----------------------------------------------------------------------------
(* A new root w over the node a and the son that was split from it.        *)

Raised(ns, w, key, a, son) == Put(ns, w, Node(FALSE, <<key, MaxKey>>, <<a, son>>, 0))

IsRaised(ns, ms, w, key, a, son) ==
  /\ IsTree(ms) /\ Carries(ns, ms, {})
  /\ DOMAIN ms = DOMAIN ns \cup {w}
  /\ ms[w] = Node(FALSE, <<key, MaxKey>>, <<a, son>>, 0)
  /\ \A u \in DOMAIN ns : ms[u] = ns[u]
  /\ LeftEnd(ms)[w] = LeftEnd(ns)[a]

LEMMA RaisedKeeps ==
  ASSUME NEW ns, IsTree(ns), NEW w, w \notin DOMAIN ns, w # 0, NEW key \in Int, key <= MaxKey,
         NEW a \in DOMAIN ns, NEW son \in DOMAIN ns, Bounded(ns, son, key)
  PROVE  IsRaised(ns, Raised(ns, w, key, a, son), w, key, a, son)
<1>1. PICK ms, n : ms = Raised(ns, w, key, a, son) /\ n = Node(FALSE, <<key, MaxKey>>, <<a, son>>, 0)
  OBVIOUS
<1>2. DOMAIN ms = DOMAIN ns \cup {w} /\ ms[w] = n /\ \A u \in DOMAIN ns : ms[u] = ns[u]
  BY <1>1 DEF Raised, Put
<1>3. /\ n = [leaf |-> FALSE, keys |-> <<key, MaxKey>>, sons |-> <<a, son>>, sibling |-> 0]
      /\ n.leaf = FALSE /\ n.sibling = 0 /\ n.keys = <<key, MaxKey>> /\ n.sons = <<a, son>>
  BY <1>1 DEF Node
<1>4. NodesRight(ns) /\ Line(ns) /\ LineSorted(ns) /\ Founded(ns) /\ Separated(ns)
  BY DEF IsTree
<1>5. MaxKey \in Int
  BY KeysAssumption
<1>6. /\ Len(n.keys) = 2 /\ Len(n.sons) = 2
      /\ n.keys[1] = key /\ n.keys[2] = MaxKey /\ n.sons[1] = a /\ n.sons[2] = son
      /\ n.keys # <<>>
  BY <1>3
<1>7. IsNodeOf(n, DOMAIN ms) /\ IsKind(n, DOMAIN ms)
  <2>1. <<key, MaxKey>> \in Seq(Int)
    BY <1>5
  <2>2. <<a, son>> \in Seq(Row \cup DOMAIN ms)
    BY <1>2
  <2>3. n \in [leaf : BOOLEAN, keys : Seq(Int), sons : Seq(Row \cup DOMAIN ms), sibling : DOMAIN ms \cup {0}]
    BY <1>3, <2>1, <2>2
  <2>4. \A i \in 1 .. 2 : i = 1 \/ i = 2
    OBVIOUS
  <2>5. \A i, j \in 1 .. 2 : i <= j => n.keys[i] <= n.keys[j]
    BY <1>5, <1>6, <2>4
  <2>6. \A i \in 1 .. 2 : n.sons[i] \in DOMAIN ms /\ n.keys[i] <= MaxKey
    BY <1>2, <1>5, <1>6, <2>4
  <2>7. IsNodeOf(n, DOMAIN ms)
    BY <1>6, <2>3, <2>5 DEF IsNodeOf
  <2>8. IsInnerNode(n, DOMAIN ms)
    BY <1>6, <2>6 DEF IsInnerNode
  <2> QED BY <1>3, <2>7, <2>8 DEF IsKind
<1>8. LeafOf(ms) = LeafOf(ns) /\ \A v \in LeafOf(ns) : ms[v] = ns[v]
  BY <1>2, <1>3 DEF LeafOf
<1>9. NodesRight(ms)
  <2>1. ASSUME NEW u \in DOMAIN ms PROVE IsNodeOf(ms[u], DOMAIN ms) /\ IsKind(ms[u], DOMAIN ms)
    <3>1. CASE u = w
      BY <1>2, <1>7, <3>1
    <3>2. CASE u # w
      BY <1>2, <1>4, <3>2, IsNodeGrows DEF NodesRight
    <3> QED BY <3>1, <3>2
  <2>2. ASSUME NEW u \in DOMAIN ms, ms[u].sibling # 0 PROVE ms[ms[u].sibling].leaf = ms[u].leaf
    <3>1. u \in DOMAIN ns /\ ms[u] = ns[u]
      BY <1>2, <1>3, <2>2
    <3>2. ns[u].sibling \in DOMAIN ns /\ ns[ns[u].sibling].leaf = ns[u].leaf
      BY <1>4, <2>2, <3>1 DEF NodesRight, IsNodeOf
    <3> QED BY <1>2, <3>1, <3>2
  <2> QED BY <1>2, <1>4, <1>8, <2>1, <2>2 DEF NodesRight
<1>10. GrowsAbove(ns, ms)
  <2> SUFFICES ASSUME NEW u \in DOMAIN ns, ~ns[u].leaf PROVE ns[u].sons[1] \in DOMAIN ns
    BY <1>2, <1>6 DEF GrowsAbove
  <2>1. IsNodeOf(ns[u], DOMAIN ns) /\ IsInnerNode(ns[u], DOMAIN ns)
    BY <1>4 DEF NodesRight, IsKind
  <2>2. 1 \in 1 .. Len(ns[u].keys)
    BY <2>1 DEF IsInnerNode, IsNodeOf
  <2> QED BY <2>1, <2>2 DEF IsInnerNode
<1>11. /\ Founded(ms) /\ \A u \in DOMAIN ns : LeftEnd(ms)[u] = LeftEnd(ns)[u]
       /\ LeftEnd(ms)[w] = LeftEnd(ns)[a]
  <2>1. w \in DOMAIN ms \ DOMAIN ns /\ ~ms[w].leaf /\ ms[w].sons[1] = a
    BY <1>2, <1>3, <1>6
  <2> QED BY <1>4, <1>10, <2>1, EndsGrow
<1>12. /\ \A v : RowsLeft(ms, v) = RowsLeft(ns, v)
       /\ RowsOf(ms) = RowsOf(ns)
       /\ Line(ms) /\ LineSorted(ms)
  BY <1>4, <1>8, LeavesAlone
<1>13. \A v \in DOMAIN ns, k \in Int : Bounded(ns, v, k) => Bounded(ms, v, k)
  BY <1>4, <1>11, <1>12, SameBounds
<1>14. Separated(ms)
  <2>1. ASSUME NEW u \in DOMAIN ms, ~ms[u].leaf PROVE SeparatedNode(ms, ms[u])
    <3>1. CASE u = w
      <4>1. \A i \in 1 .. 1 : i = 1
        OBVIOUS
      <4>2. Bounded(ms, son, key)
        BY <1>13
      <4>3. SeparatedNode(ms, n)
        BY <1>3, <1>6, <4>1, <4>2 DEF SeparatedNode
      <4> QED BY <1>2, <3>1, <4>3
    <3>2. CASE u # w
      <4>1. u \in DOMAIN ns /\ ms[u] = ns[u]
        BY <1>2, <3>2
      <4>2. /\ IsNodeOf(ns[u], DOMAIN ns) /\ IsKind(ns[u], DOMAIN ns) /\ ~ns[u].leaf
            /\ SeparatedNode(ns, ns[u])
        BY <1>4, <2>1, <4>1, SeparatedIs DEF NodesRight
      <4> QED BY <1>13, <4>1, <4>2, SeparatedOn
    <3> QED BY <3>1, <3>2
  <2> QED BY <2>1, SeparatedIs
<1>15. Carries(ns, ms, {})
  <2>1. /\ RowsOf(ms) = RowsOf(ns) \cup {}
        /\ \A v : RowsLeft(ns, v) \subseteq RowsLeft(ms, v) /\ RowsLeft(ms, v) \subseteq RowsLeft(ns, v) \cup {}
    BY <1>12
  <2>2. DOMAIN ns \subseteq DOMAIN ms /\ \A u \in DOMAIN ns : ms[u].leaf = ns[u].leaf
    BY <1>2
  <2> QED BY <1>11, <1>13, <2>1, <2>2 DEF Carries
<1> QED BY <1>1, <1>2, <1>9, <1>11, <1>12, <1>14, <1>15 DEF IsTree, IsRaised

----------------------------------------------------------------------------
(* Going down and right.                                                   *)

(* Left of a leaf's sibling is the leaf and what is left of it.            *)
LEMMA RowsLeftOfSibling ==
  ASSUME NEW ns, NodesRight(ns), Line(ns), NEW u \in LeafOf(ns), ns[u].sibling # 0
  PROVE  /\ ns[u].sibling \in LeafOf(ns)
         /\ RowsLeft(ns, ns[u].sibling) = RowsLeft(ns, u) \cup Range(ns[u].sons)
<1>1. PICK v : v = ns[u].sibling
  OBVIOUS
<1>2. v \in LeafOf(ns) /\ v # 0 /\ v # u
  BY <1>1, LeavesClosed DEF IsClosed, Line
<1>3. v \in Reach(ns, u)
  BY <1>1, <1>2, ReachSelf, ReachStep
<1>4. ASSUME NEW x \in LeafOf(ns) PROVE x \in LeftOf(ns, v) <=> x \in LeftOf(ns, u) \/ x = u
  <2>1. ASSUME x \in LeftOf(ns, v) PROVE x \in LeftOf(ns, u) \/ x = u
    <3>1. x # v /\ v \in Reach(ns, x)
      BY <2>1 DEF LeftOf
    <3>2. CASE u \in Reach(ns, x)
      BY <3>2 DEF LeftOf
    <3>3. CASE x \in Reach(ns, u) /\ x # u
      <4>1. x \in Reach(ns, v)
        BY <1>1, <3>3, ReachFirst
      <4> QED BY <1>2, <3>1, <4>1 DEF Line
    <3> QED BY <3>2, <3>3, LineTotal
  <2>2. ASSUME x \in LeftOf(ns, u) PROVE x \in LeftOf(ns, v)
    <3>1. x # u /\ u \in Reach(ns, x)
      BY <2>2 DEF LeftOf
    <3>2. v \in Reach(ns, x)
      BY <1>3, <3>1, ReachTrans
    <3>3. x # v
      BY <1>2, <1>3, <3>1 DEF Line
    <3> QED BY <3>2, <3>3 DEF LeftOf
  <2>3. x = u => x \in LeftOf(ns, v)
    BY <1>2, <1>3 DEF LeftOf
  <2> QED BY <2>1, <2>2, <2>3
<1>5. LeftOf(ns, v) \subseteq LeafOf(ns) /\ LeftOf(ns, u) \subseteq LeafOf(ns)
  BY DEF LeftOf
<1>6. ASSUME NEW q PROVE q \in RowsLeft(ns, v) <=> q \in RowsLeft(ns, u) \/ q \in Range(ns[u].sons)
  <2>1. (\E x \in LeftOf(ns, v) : q \in Range(ns[x].sons))
          <=> (\E x \in LeftOf(ns, u) : q \in Range(ns[x].sons)) \/ q \in Range(ns[u].sons)
    BY <1>4, <1>5
  <2> QED BY <2>1, RowsLeftDef
<1> QED BY <1>1, <1>2, <1>6

(* Down, to a son or to the sibling.                                       *)
LEMMA GoesDown ==
  ASSUME NEW ns, IsTree(ns), NEW u \in DOMAIN ns, ~ns[u].leaf,
         NEW key \in Int, key < MaxKey, Bounded(ns, u, key)
  PROVE  LET n == ns[u]
             i == NextSon(n, key)
         IN  /\ i <= Len(n.keys) => n.sons[i] \in DOMAIN ns /\ Bounded(ns, n.sons[i], key)
             /\ ~(i <= Len(n.keys)) => /\ n.sibling \in DOMAIN ns /\ ~ns[n.sibling].leaf
                                       /\ Bounded(ns, n.sibling, key)
<1>1. PICK n, i : n = ns[u] /\ i = NextSon(n, key)
  OBVIOUS
<1>2. /\ NodesRight(ns) /\ Founded(ns) /\ IsNodeOf(n, DOMAIN ns) /\ ~n.leaf
      /\ IsInnerNode(n, DOMAIN ns)
  BY <1>1 DEF IsTree, NodesRight, IsKind
<1>3. SeparatedNode(ns, n)
  BY <1>1, SeparatedIs DEF IsTree
<1>4. /\ n.keys \in Seq(Int) /\ Len(n.keys) \in Nat /\ Len(n.keys) # 0
      /\ \A j \in 1 .. Len(n.keys) : n.keys[j] \in Int
  <2>1. n.keys \in Seq(Int)
    BY <1>2 DEF IsNodeOf
  <2>2. n.keys # <<>>
    BY <1>2 DEF IsInnerNode
  <2> QED BY <2>1, <2>2
<1>5. /\ i \in 1 .. Len(n.keys) + 1
      /\ \A j \in 1 .. Len(n.keys) : j < i => n.keys[j] <= key
  BY <1>1, <1>4, NextSonIs
<1>6. ASSUME i <= Len(n.keys) PROVE n.sons[i] \in DOMAIN ns /\ Bounded(ns, n.sons[i], key)
  <2>1. i \in 1 .. Len(n.keys)
    BY <1>5, <1>6
  <2>2. n.sons[i] \in DOMAIN ns
    BY <1>2, <2>1 DEF IsInnerNode
  <2>3. CASE i = 1
    <3>1. LeftEnd(ns)[u] = LeftEnd(ns)[n.sons[1]]
      BY <1>1, <1>2 DEF Founded, IsEnds
    <3> QED BY <2>2, <2>3, <3>1 DEF Bounded
  <2>4. CASE i # 1
    <3>1. /\ i - 1 \in 1 .. Len(n.keys) - 1 /\ i - 1 \in 1 .. Len(n.keys) /\ (i - 1) + 1 = i
          /\ i - 1 < i
      BY <1>4, <2>1, <2>4
    <3>2. Bounded(ns, n.sons[(i - 1) + 1], n.keys[i - 1])
      BY <1>3, <3>1 DEF SeparatedNode
    <3>3. n.keys[i - 1] <= key /\ n.keys[i - 1] \in Int
      BY <1>4, <1>5, <3>1
    <3> QED BY <1>2, <2>2, <3>1, <3>2, <3>3, BoundedMore
  <2> QED BY <2>3, <2>4
<1>7. ASSUME ~(i <= Len(n.keys)) PROVE n.sibling \in DOMAIN ns /\ ~ns[n.sibling].leaf /\ Bounded(ns, n.sibling, key)
  <2>1. Len(n.keys) \in 1 .. Len(n.keys) /\ Len(n.keys) < i
    BY <1>4, <1>5, <1>7
  <2>2. n.keys[Len(n.keys)] <= key /\ n.keys[Len(n.keys)] \in Int
    BY <1>4, <1>5, <2>1
  <2>3. n.sibling # 0
    BY <1>2, <2>2, KeysAssumption DEF IsInnerNode
  <2>4. n.sibling \in DOMAIN ns /\ ~ns[n.sibling].leaf
    BY <1>1, <1>2, <2>3 DEF IsNodeOf, NodesRight
  <2>5. Bounded(ns, n.sibling, n.keys[Len(n.keys)])
    BY <1>3, <2>3 DEF SeparatedNode
  <2> QED BY <1>2, <2>2, <2>4, <2>5, BoundedMore
<1> QED BY <1>1, <1>6, <1>7

(* Right, with a key that does not belong into this node.                  *)
LEMMA GoesOn ==
  ASSUME NEW ns, IsTree(ns), NEW u \in DOMAIN ns, NEW key \in Int, GoesRight(ns[u], key)
  PROVE  /\ ns[u].sibling \in DOMAIN ns /\ ns[ns[u].sibling].leaf = ns[u].leaf
         /\ ns[u].leaf /\ Bounded(ns, u, key) => Bounded(ns, ns[u].sibling, key)
<1>1. NodesRight(ns) /\ Line(ns) /\ Founded(ns)
  BY DEF IsTree
<1>2. ns[u].sibling # 0 /\ Place(ns[u], key) > Len(ns[u].keys)
  BY DEF GoesRight
<1>3. ns[u].sibling \in DOMAIN ns /\ ns[ns[u].sibling].leaf = ns[u].leaf
  BY <1>1, <1>2 DEF NodesRight, IsNodeOf
<1>4. ASSUME ns[u].leaf, Bounded(ns, u, key) PROVE Bounded(ns, ns[u].sibling, key)
  <2>1. PICK v : v = ns[u].sibling
    OBVIOUS
  <2>2. /\ u \in LeafOf(ns) /\ v \in LeafOf(ns)
        /\ RowsLeft(ns, v) = RowsLeft(ns, u) \cup Range(ns[u].sons)
    BY <1>1, <1>2, <1>4, <2>1, RowsLeftOfSibling DEF LeafOf
  <2>3. LeftEnd(ns)[u] = u /\ LeftEnd(ns)[v] = v
    BY <1>1, <2>2 DEF Founded, IsEnds, LeafOf
  <2>4. ns[u].keys \in Seq(Int)
    BY <1>1 DEF NodesRight, IsNodeOf
  <2>5. ASSUME NEW q \in Range(ns[u].sons) PROVE KeyOf(q) < key
    <3>1. PICK j \in 1 .. Len(ns[u].keys) : q = ns[u].sons[j] /\ ns[u].keys[j] = KeyOf(q)
      <4>1. PICK j \in 1 .. Len(ns[u].keys) : q = ns[u].sons[j]
        BY <1>1, <2>2, LeafRows
      <4>2. ns[u].keys[j] = KeyOf(q)
        BY <1>1, <2>2, <4>1, LeafRows
      <4> QED BY <4>1, <4>2
    <3>2. j < Place(ns[u], key)
      <4>1. Place(ns[u], key) \in 1 .. Len(ns[u].keys) + 1 /\ Len(ns[u].keys) \in Nat
        BY <2>4, PlaceIs
      <4> QED BY <1>2, <4>1
    <3> QED BY <2>4, <3>1, <3>2, PlaceIs
  <2>6. \A q \in RowsLeft(ns, u) : Under(q, key)
    BY <1>4, <2>3 DEF Bounded
  <2>7. \A q \in RowsLeft(ns, v) : Under(q, key)
    BY <2>2, <2>5, <2>6 DEF Under
  <2> QED BY <2>1, <2>3, <2>7 DEF Bounded
<1> QED BY <1>3, <1>4

(* At the first leaf there is nothing left behind.                         *)
LEMMA NothingLeft ==
  ASSUME NEW ns, IsTree(ns), NEW u, LeftEnd(ns)[u] = FirstLeaf, NEW key
  PROVE  Bounded(ns, u, key) /\ RowsLeft(ns, FirstLeaf) = {}
<1>1. LeftOf(ns, 1) = {}
  <2>1. 1 \in LeafOf(ns)
    BY DEF IsTree, NodesRight
  <2> QED BY <2>1 DEF IsTree, Line, LeftOf
<1>2. RowsLeft(ns, 1) = {}
  BY <1>1 DEF RowsLeft
<1> QED BY <1>2 DEF Bounded, FirstLeaf

----------------------------------------------------------------------------
(* What the calls in progress know they know after a step of another.      *)

LEMMA InsertKnowsOn ==
  ASSUME NodesRight(nodes), NEW X, Carries(nodes, nodes', X),
         NEW q \in DOMAIN ins, InsertKnows(q), q \in DOMAIN ins', ins'[q] = ins[q]
  PROVE  InsertKnows(q)'
<1>1. PICK c : c = ins[q] /\ c = ins'[q]
  OBVIOUS
<1>2. /\ Uid \subseteq Uid'
      /\ \A u \in Uid : nodes'[u].leaf = nodes[u].leaf /\ LeftEnd(nodes')[u] = LeftEnd(nodes)[u]
      /\ \A v \in Uid, k \in Int : Bounded(nodes, v, k) => Bounded(nodes', v, k)
  BY DEF Carries, Uid
<1>3. /\ c \in [pc : {"down", "put", "root"}, path : Seq(Uid), at : Uid, key : Int, son : Row \cup Uid]
      /\ c.key <= MaxKey
      /\ c.path # <<>> /\ LeftEnd(nodes)[c.path[1]] = FirstLeaf
      /\ \A i \in 1 .. Len(c.path) - 1 : ~nodes[c.path[i]].leaf
      /\ nodes[c.path[Len(c.path)]].leaf = nodes[c.at].leaf
      /\ IF c.pc = "down" \/ (c.pc = "put" /\ nodes[c.at].leaf)
         THEN c.key = KeyOf(q) /\ c.son = q /\ Bounded(nodes, c.at, c.key)
         ELSE c.son \in Uid /\ Bounded(nodes, c.son, c.key)
  BY <1>1 DEF InsertKnows
<1>4. c.at \in Uid /\ c.key \in Int /\ c.path \in Seq(Uid)
  BY <1>3
<1>5. \A i \in 1 .. Len(c.path) : c.path[i] \in Uid
  BY <1>4
<1>6. /\ 1 \in 1 .. Len(c.path) /\ Len(c.path) \in 1 .. Len(c.path)
      /\ \A i \in 1 .. Len(c.path) - 1 : i \in 1 .. Len(c.path)
  BY <1>3, <1>4
<1>7. c \in [pc : {"down", "put", "root"}, path : Seq(Uid'), at : Uid', key : Int, son : Row \cup Uid']
  <2>1. c.path \in Seq(Uid')
    BY <1>2, <1>4
  <2> QED BY <1>2, <1>3, <2>1
<1>8. LeftEnd(nodes')[c.path[1]] = FirstLeaf
  BY <1>2, <1>3, <1>5, <1>6
<1>9. /\ \A i \in 1 .. Len(c.path) - 1 : ~nodes'[c.path[i]].leaf
      /\ nodes'[c.path[Len(c.path)]].leaf = nodes'[c.at].leaf
  BY <1>2, <1>3, <1>4, <1>5, <1>6
<1>10. IF c.pc = "down" \/ (c.pc = "put" /\ nodes'[c.at].leaf)
       THEN c.key = KeyOf(q) /\ c.son = q /\ Bounded(nodes', c.at, c.key)
       ELSE c.son \in Uid' /\ Bounded(nodes', c.son, c.key)
  BY <1>2, <1>3, <1>4
<1> QED BY <1>1, <1>3, <1>7, <1>8, <1>9, <1>10 DEF InsertKnows

LEMMA SearchKnowsOn ==
  ASSUME NodesRight(nodes), NEW X, Carries(nodes, nodes', X), X \cap done = {}, done \subseteq done',
         NEW s \in DOMAIN find, SearchKnows(s), find'[s] = find[s]
  PROVE  SearchKnows(s)'
<1>1. PICK f : f = find[s] /\ f = find'[s]
  OBVIOUS
<1>2. /\ Uid \subseteq Uid'
      /\ \A u \in Uid : nodes'[u].leaf = nodes[u].leaf
      /\ \A v \in LeafOf(nodes) : RowsLeft(nodes, v) \subseteq RowsLeft(nodes', v) /\ RowsLeft(nodes', v) \subseteq RowsLeft(nodes, v) \cup X
      /\ \A v \in Uid, k \in Int : Bounded(nodes, v, k) => Bounded(nodes', v, k)
  BY DEF Carries, Uid
<1>3. /\ f \in [at : Uid, left : Int, right : Int, rows : Seq(Row), before : SUBSET done]
      /\ f.left < MaxKey
      /\ IsInjective(f.rows)
      /\ \A r \in Range(f.rows) : f.left <= KeyOf(r) /\ KeyOf(r) <= f.right
      /\ IF nodes[f.at].leaf
         THEN /\ Range(f.rows) \subseteq RowsLeft(nodes, f.at)
              /\ \A r \in RowsLeft(nodes, f.at) \cap f.before : Sought(f, r) => r \in Range(f.rows)
         ELSE f.rows = <<>> /\ Bounded(nodes, f.at, f.left)
  BY <1>1 DEF SearchKnows
<1>4. f.at \in Uid /\ f.left \in Int /\ f.before \subseteq done
  BY <1>3
<1>5. f \in [at : Uid', left : Int, right : Int, rows : Seq(Row), before : SUBSET done']
  BY <1>2, <1>3
<1>6. nodes[f.at].leaf => f.at \in LeafOf(nodes)
  BY <1>4 DEF LeafOf, Uid
<1>7. IF nodes'[f.at].leaf
      THEN /\ Range(f.rows) \subseteq RowsLeft(nodes', f.at)
           /\ \A r \in RowsLeft(nodes', f.at) \cap f.before : Sought(f, r) => r \in Range(f.rows)
      ELSE f.rows = <<>> /\ Bounded(nodes', f.at, f.left)
  BY <1>2, <1>3, <1>4, <1>6
<1> QED BY <1>1, <1>3, <1>5, <1>7 DEF SearchKnows

LEMMA NothingHappens ==
  ASSUME NEW ns, NodesRight(ns)
  PROVE  Carries(ns, ns, {})
BY DEF Carries

(* A step of the insert of r.                                              *)
OnlyInsert(r, X) ==
  /\ IsTree(nodes') /\ Carries(nodes, nodes', X) /\ X \subseteq {r}
  /\ DOMAIN ins' \subseteq DOMAIN ins \cup {r} /\ DOMAIN ins \subseteq DOMAIN ins' \cup {r}
  /\ \A q \in DOMAIN ins \ {r} : ins'[q] = ins[q]
  /\ done \subseteq done' /\ done' \subseteq done \cup {r}
  /\ UNCHANGED <<find, found>>

LEMMA InsertStep ==
  ASSUME TreeInv, NEW r \in Row \ done, NEW X, OnlyInsert(r, X),
         (r \in RowsOf(nodes))' <=> Placed(r)',
         r \in DOMAIN ins' => InsertKnows(r)' /\ r \notin done',
         Sizes', (root \in Uid)', (LeftEnd(nodes)[root] = FirstLeaf)'
  PROVE  TreeInv'
<1>1. NodesRight(nodes)
  BY DEF TreeInv, IsTree
<1>2. CallsTyped'
  BY DEF CallsTyped, TreeInv, OnlyInsert
<1>3. ASSUME NEW q \in DOMAIN ins' PROVE InsertKnows(q)'
  <2>1. CASE q = r
    BY <1>3, <2>1
  <2>2. CASE q # r
    <3>1. q \in DOMAIN ins /\ ins'[q] = ins[q] /\ InsertKnows(q) /\ Carries(nodes, nodes', X)
      BY <1>3, <2>2 DEF OnlyInsert, TreeInv
    <3> QED BY <1>1, <1>3, <3>1, InsertKnowsOn
  <2> QED BY <2>1, <2>2
<1>4. ASSUME NEW s \in DOMAIN find' PROVE SearchKnows(s)'
  <2>1. /\ s \in DOMAIN find /\ find'[s] = find[s] /\ SearchKnows(s)
        /\ Carries(nodes, nodes', X) /\ done \subseteq done' /\ X \cap done = {}
    BY <1>4 DEF OnlyInsert, TreeInv
  <2> QED BY <1>1, <2>1, SearchKnowsOn
<1>5. ASSUME NEW q \in Row PROVE (q \in RowsOf(nodes))' <=> Placed(q)'
  <2>1. CASE q = r
    BY <2>1
  <2>2. CASE q # r
    <3>1. (q \in RowsOf(nodes))' <=> q \in RowsOf(nodes)
      BY <2>2 DEF OnlyInsert, Carries
    <3>2. q \in RowsOf(nodes) <=> Placed(q)
      BY DEF TreeInv, RowsPlaced
    <3>3. q \in done' <=> q \in done
      BY <2>2 DEF OnlyInsert
    <3>4. q \in DOMAIN ins' <=> q \in DOMAIN ins
      BY <2>2 DEF OnlyInsert
    <3>5. q \in DOMAIN ins => ins'[q] = ins[q]
      BY <2>2 DEF OnlyInsert
    <3>6. q \in DOMAIN ins => nodes'[ins[q].at].leaf = nodes[ins[q].at].leaf
      <4>1. q \in DOMAIN ins => ins[q].at \in Uid
        BY DEF TreeInv, InsertKnows
      <4> QED BY <4>1 DEF OnlyInsert, Carries, Uid
    <3>7. Placed(q)' <=> Placed(q)
      BY <3>3, <3>4, <3>5, <3>6 DEF Placed
    <3> QED BY <3>1, <3>2, <3>7
  <2> QED BY <2>1, <2>2
<1>6. RowsPlaced'
  BY <1>5 DEF RowsPlaced
<1>7. SearchComplete'
  BY DEF SearchComplete, TreeInv, OnlyInsert
<1> QED BY <1>2, <1>3, <1>4, <1>6, <1>7 DEF TreeInv, OnlyInsert

----------------------------------------------------------------------------
(* The steps of an insert.                                                 *)

LEMMA InsertBeginKeeps ==
  ASSUME TreeInv, NEW r \in Row, InsertBegin(r)
  PROVE  TreeInv'
<1> DEFINE c == [pc |-> "down", path |-> <<root>>, at |-> root, key |-> KeyOf(r), son |-> r]
<1>1. /\ r \notin done /\ r \notin DOMAIN ins /\ DOMAIN ins' = DOMAIN ins \cup {r}
      /\ ins'[r] = c /\ \A q \in DOMAIN ins : ins'[q] = ins[q]
      /\ nodes' = nodes /\ root' = root /\ done' = done /\ find' = find /\ found' = found
  BY DEF InsertBegin, Put
<1>2. IsTree(nodes) /\ NodesRight(nodes) /\ root \in Uid /\ LeftEnd(nodes)[root] = FirstLeaf
  BY DEF TreeInv, CallsTyped, IsTree
<1>3. KeyOf(r) \in Int /\ KeyOf(r) <= MaxKey
  BY KeysAssumption
<1>4. Bounded(nodes, root, KeyOf(r))
  BY <1>2, NothingLeft
<1>5. InsertKnows(r)'
  <2>1. <<root>> \in Seq(Uid) /\ <<root>> # <<>> /\ <<root>>[1] = root /\ Len(<<root>>) = 1
    BY <1>2
  <2>2. c \in [pc : {"down", "put", "root"}, path : Seq(Uid), at : Uid, key : Int, son : Row \cup Uid]
    BY <1>2, <1>3, <2>1
  <2>3. \A i \in 1 .. Len(c.path) - 1 : ~nodes[c.path[i]].leaf
    BY <2>1
  <2> QED BY <1>1, <1>2, <1>3, <1>4, <2>1, <2>2, <2>3 DEF InsertKnows, Uid
<1>6. OnlyInsert(r, {})
  BY <1>1, <1>2, NothingHappens DEF OnlyInsert
<1>7. (r \in RowsOf(nodes))' <=> Placed(r)'
  BY <1>1 DEF TreeInv, RowsPlaced, Placed
<1>8. Sizes' /\ (root \in Uid)' /\ (LeftEnd(nodes)[root] = FirstLeaf)'
  BY <1>1, <1>2 DEF TreeInv, Sizes, Uid
<1> QED BY <1>1, <1>5, <1>6, <1>7, <1>8, InsertStep

(* A step of r that changes no node.                                       *)
LEMMA Moves ==
  ASSUME TreeInv, NEW r \in DOMAIN ins, DOMAIN ins' = DOMAIN ins,
         \A q \in DOMAIN ins \ {r} : ins'[q] = ins[q], UNCHANGED <<nodes, root, done, find, found>>,
         InsertKnows(r)', Placed(r)' <=> Placed(r)
  PROVE  TreeInv'
<1>1. /\ IsTree(nodes) /\ NodesRight(nodes) /\ root \in Uid
      /\ LeftEnd(nodes)[root] = FirstLeaf /\ r \in Row \ done
  BY DEF TreeInv, CallsTyped, IsTree
<1>2. OnlyInsert(r, {})
  BY <1>1, NothingHappens DEF OnlyInsert
<1>3. (r \in RowsOf(nodes))' <=> Placed(r)'
  BY <1>1 DEF TreeInv, RowsPlaced
<1>4. Sizes' /\ (root \in Uid)' /\ (LeftEnd(nodes)[root] = FirstLeaf)'
  BY <1>1 DEF TreeInv, Sizes, Uid
<1> QED BY <1>1, <1>2, <1>3, <1>4, InsertStep

LEMMA InsertDownKeeps ==
  ASSUME TreeInv, NEW r \in Row, InsertDown(r)
  PROVE  TreeInv'
<1>1. r \in DOMAIN ins /\ ins[r].pc = "down" /\ InsertKnows(r) /\ IsTree(nodes)
  BY DEF InsertDown, TreeInv
<1>2. PICK c, n, i : c = ins[r] /\ n = nodes[c.at] /\ i = NextSon(n, c.key)
  OBVIOUS
<1>3. /\ c \in [pc : {"down", "put", "root"}, path : Seq(Uid), at : Uid, key : Int, son : Row \cup Uid]
      /\ c.path # <<>> /\ LeftEnd(nodes)[c.path[1]] = FirstLeaf
      /\ \A j \in 1 .. Len(c.path) - 1 : ~nodes[c.path[j]].leaf
      /\ nodes[c.path[Len(c.path)]].leaf = n.leaf
      /\ c.pc = "down" /\ c.key = KeyOf(r) /\ c.son = r /\ Bounded(nodes, c.at, c.key)
  BY <1>1, <1>2 DEF InsertKnows
<1>4. /\ c.at \in Uid /\ c.key \in Int /\ c.key < MaxKey /\ c.key <= MaxKey
      /\ c.path \in Seq(Uid) /\ c.son \in Row \cup Uid
  BY <1>3, KeysAssumption
<1>5. PICK d : d = ins'[r]
  OBVIOUS
<1>6. /\ DOMAIN ins' = DOMAIN ins /\ \A q \in DOMAIN ins \ {r} : ins'[q] = ins[q]
      /\ UNCHANGED <<nodes, root, done, find, found>>
      /\ d = CASE n.leaf -> [c EXCEPT !.pc = "put"]
               [] ~n.leaf /\ i <= Len(n.keys) -> [c EXCEPT !.path = Append(@, n.sons[i]), !.at = n.sons[i]]
               [] OTHER -> [c EXCEPT !.at = n.sibling]
  BY <1>1, <1>2, <1>5 DEF InsertDown
<1>7. CASE n.leaf
  <2>1. d = [c EXCEPT !.pc = "put"]
    BY <1>6, <1>7
  <2>2. /\ d \in [pc : {"down", "put", "root"}, path : Seq(Uid), at : Uid, key : Int, son : Row \cup Uid]
        /\ d.pc = "put" /\ d.path = c.path /\ d.at = c.at /\ d.key = c.key /\ d.son = c.son
    BY <1>3, <2>1
  <2>3. InsertKnows(r)'
    <3>1. nodes[d.at] = n
      BY <1>2, <2>2
    <3>2. /\ LeftEnd(nodes)[d.path[1]] = FirstLeaf
          /\ nodes[d.path[Len(d.path)]].leaf = nodes[d.at].leaf
      BY <1>3, <2>2, <3>1
    <3>3. /\ d.key = KeyOf(r) /\ d.son = r /\ Bounded(nodes, d.at, d.key) /\ d.key <= MaxKey
          /\ d.path # <<>>
      BY <1>3, <1>4, <2>2
    <3>4. \A j \in 1 .. Len(d.path) - 1 : ~nodes[d.path[j]].leaf
      BY <1>3, <2>2
    <3> QED BY <1>5, <1>6, <1>7, <2>2, <3>1, <3>2, <3>3, <3>4 DEF InsertKnows, Uid
  <2>4. Placed(r)' <=> Placed(r)
    BY <1>1, <1>2, <1>5, <1>6, <1>7, <2>2 DEF Placed
  <2> QED BY <1>1, <1>6, <2>3, <2>4, Moves
<1>8. CASE ~n.leaf
  <2>1. /\ i <= Len(n.keys) => n.sons[i] \in Uid /\ Bounded(nodes, n.sons[i], c.key)
        /\ ~(i <= Len(n.keys)) => n.sibling \in Uid /\ ~nodes[n.sibling].leaf /\ Bounded(nodes, n.sibling, c.key)
    BY <1>1, <1>2, <1>3, <1>4, <1>8, GoesDown DEF Uid
  <2>2. CASE i <= Len(n.keys)
    <3>1. PICK v : v = n.sons[i] /\ v \in Uid /\ Bounded(nodes, v, c.key)
      BY <2>1, <2>2
    <3>2. PICK path : path = Append(c.path, v)
      OBVIOUS
    <3>3. /\ path \in Seq(Uid) /\ path # <<>> /\ Len(path) = Len(c.path) + 1
          /\ path[Len(c.path) + 1] = v
          /\ \A j \in 1 .. Len(c.path) : path[j] = c.path[j]
      BY <1>4, <3>1, <3>2
    <3>4. 1 \in 1 .. Len(c.path) /\ Len(c.path) \in Nat
      BY <1>3, <1>4
    <3>5. d = [c EXCEPT !.path = path, !.at = v]
      BY <1>6, <1>8, <2>2, <3>1, <3>2
    <3>6. /\ d \in [pc : {"down", "put", "root"}, path : Seq(Uid), at : Uid, key : Int, son : Row \cup Uid]
          /\ d.pc = "down" /\ d.path = path /\ d.at = v /\ d.key = c.key /\ d.son = c.son
      BY <1>3, <3>1, <3>3, <3>5
    <3>7. ASSUME NEW j \in 1 .. Len(path) - 1 PROVE ~nodes[path[j]].leaf
      <4>1. j \in 1 .. Len(c.path)
        BY <3>3, <3>4
      <4>2. j = Len(c.path) \/ j \in 1 .. Len(c.path) - 1
        BY <3>4, <4>1
      <4> QED BY <1>3, <1>8, <3>3, <4>1, <4>2
    <3>8. InsertKnows(r)'
      <4>1. LeftEnd(nodes)[path[1]] = FirstLeaf /\ nodes[path[Len(path)]].leaf = nodes[v].leaf
        BY <1>3, <3>3, <3>4
      <4> QED BY <1>3, <1>4, <1>5, <1>6, <3>1, <3>3, <3>6, <3>7, <4>1 DEF InsertKnows, Uid
    <3>9. Placed(r)' <=> Placed(r)
      BY <1>1, <1>5, <1>6, <3>6 DEF Placed
    <3> QED BY <1>1, <1>6, <3>8, <3>9, Moves
  <2>3. CASE ~(i <= Len(n.keys))
    <3>1. d = [c EXCEPT !.at = n.sibling]
      BY <1>6, <1>8, <2>3
    <3>2. /\ d \in [pc : {"down", "put", "root"}, path : Seq(Uid), at : Uid, key : Int, son : Row \cup Uid]
          /\ d.pc = "down" /\ d.path = c.path /\ d.at = n.sibling /\ d.key = c.key /\ d.son = c.son
      BY <1>3, <2>1, <2>3, <3>1
    <3>3. n.leaf \in BOOLEAN /\ nodes[n.sibling].leaf \in BOOLEAN
      BY <1>1, <1>2, <1>4, <2>1, <2>3 DEF IsTree, NodesRight, IsNodeOf, Uid
    <3>4. InsertKnows(r)'
      BY <1>3, <1>4, <1>5, <1>6, <1>8, <2>1, <2>3, <3>2, <3>3 DEF InsertKnows, Uid
    <3>5. Placed(r)' <=> Placed(r)
      BY <1>1, <1>5, <1>6, <3>2 DEF Placed
    <3> QED BY <1>1, <1>6, <3>4, <3>5, Moves
  <2> QED BY <2>2, <2>3
<1> QED BY <1>7, <1>8

LEMMA InsertRightKeeps ==
  ASSUME TreeInv, NEW r \in Row, InsertRight(r)
  PROVE  TreeInv'
<1>1. /\ r \in DOMAIN ins /\ ins[r].pc = "put" /\ InsertKnows(r) /\ IsTree(nodes)
      /\ GoesRight(nodes[ins[r].at], ins[r].key)
  BY DEF InsertRight, AtPut, TreeInv
<1>2. PICK c, v : c = ins[r] /\ v = nodes[c.at].sibling
  OBVIOUS
<1>3. /\ c \in [pc : {"down", "put", "root"}, path : Seq(Uid), at : Uid, key : Int, son : Row \cup Uid]
      /\ c.key <= MaxKey
      /\ c.path # <<>> /\ LeftEnd(nodes)[c.path[1]] = FirstLeaf
      /\ \A j \in 1 .. Len(c.path) - 1 : ~nodes[c.path[j]].leaf
      /\ nodes[c.path[Len(c.path)]].leaf = nodes[c.at].leaf
      /\ c.pc = "put"
      /\ IF nodes[c.at].leaf
         THEN c.key = KeyOf(r) /\ c.son = r /\ Bounded(nodes, c.at, c.key)
         ELSE c.son \in Uid /\ Bounded(nodes, c.son, c.key)
  BY <1>1, <1>2 DEF InsertKnows
<1>4. c.at \in Uid /\ c.key \in Int
  BY <1>3
<1>5. /\ v \in Uid /\ nodes[v].leaf = nodes[c.at].leaf
      /\ nodes[c.at].leaf => Bounded(nodes, v, c.key)
  BY <1>1, <1>2, <1>3, <1>4, GoesOn DEF Uid
<1>6. PICK d : d = ins'[r]
  OBVIOUS
<1>7. /\ DOMAIN ins' = DOMAIN ins /\ \A q \in DOMAIN ins \ {r} : ins'[q] = ins[q]
      /\ UNCHANGED <<nodes, root, done, find, found>>
      /\ d = [c EXCEPT !.at = v]
  BY <1>1, <1>2, <1>6 DEF InsertRight
<1>8. /\ d \in [pc : {"down", "put", "root"}, path : Seq(Uid), at : Uid, key : Int, son : Row \cup Uid]
      /\ d.pc = "put" /\ d.path = c.path /\ d.at = v /\ d.key = c.key /\ d.son = c.son
  BY <1>3, <1>5, <1>7
<1>9. InsertKnows(r)'
  BY <1>3, <1>5, <1>6, <1>7, <1>8 DEF InsertKnows, Uid
<1>10. Placed(r)' <=> Placed(r)
  BY <1>1, <1>2, <1>5, <1>6, <1>7, <1>8 DEF Placed
<1> QED BY <1>1, <1>7, <1>9, <1>10, Moves

LEMMA NewUidIs ==
  ASSUME NEW n \in Nat, Uid = 1 .. n
  PROVE  NewUid = n + 1 /\ NewUid \notin Uid /\ NewUid # 0 /\ Uid \cup {NewUid} = 1 .. n + 1
<1>1. Cardinality(1 .. n) = n
  <2>1. Cardinality(1 .. n) = IF 1 > n THEN 0 ELSE n - 1 + 1
    BY FS_Interval
  <2> QED BY <2>1
<1>2. NewUid = n + 1
  BY <1>1 DEF NewUid, Uid
<1> QED BY <1>2

NewRows(r) == IF nodes[ins[r].at].leaf THEN {r} ELSE {}

LEMMA PutFits ==
  ASSUME TreeInv, NEW r \in DOMAIN ins, ins[r].pc = "put", ~GoesRight(nodes[ins[r].at], ins[r].key)
  PROVE  LET c == ins[r]
             ms == With(nodes, c.at, c.key, c.son)
         IN  /\ c.at \in Uid
             /\ IsTree(ms) /\ Carries(nodes, ms, NewRows(r))
             /\ IsInserted(nodes, ms, c.at, c.key, c.son)
             /\ Len(ms[c.at].keys) = Len(nodes[c.at].keys) + 1
             /\ r \in RowsOf(ms)
<1>1. IsTree(nodes) /\ NodesRight(nodes) /\ InsertKnows(r) /\ r \in Row \ done
  BY DEF TreeInv, IsTree, CallsTyped
<1>2. PICK c : c = ins[r]
  OBVIOUS
<1>3. /\ c \in [pc : {"down", "put", "root"}, path : Seq(Uid), at : Uid, key : Int, son : Row \cup Uid]
      /\ c.key <= MaxKey /\ c.pc = "put"
      /\ IF nodes[c.at].leaf
         THEN c.key = KeyOf(r) /\ c.son = r /\ Bounded(nodes, c.at, c.key)
         ELSE c.son \in Uid /\ Bounded(nodes, c.son, c.key)
  BY <1>1, <1>2 DEF InsertKnows
<1>4. c.at \in DOMAIN nodes /\ c.key \in Int
  BY <1>3 DEF Uid
<1>5. r \in RowsOf(nodes) <=> ~nodes[c.at].leaf
  BY <1>1, <1>2, <1>3 DEF TreeInv, RowsPlaced, Placed
<1>6. MayInsert(nodes, c.at, c.key, c.son)
  BY <1>1, <1>2, <1>3, <1>4, <1>5 DEF MayInsert, Fits, Uid
<1>7. PICK ms : ms = With(nodes, c.at, c.key, c.son)
  OBVIOUS
<1>8. /\ IsTree(ms) /\ Carries(nodes, ms, IF nodes[c.at].leaf THEN {c.son} ELSE {})
      /\ IsInserted(nodes, ms, c.at, c.key, c.son)
  BY <1>1, <1>6, <1>7, WithKeeps
<1>9. Carries(nodes, ms, NewRows(r))
  BY <1>2, <1>3, <1>8 DEF NewRows
<1>10. Len(ms[c.at].keys) = Len(nodes[c.at].keys) + 1
  <2>1. PICK n, U, k, s : n = nodes[c.at] /\ U = DOMAIN nodes /\ k = c.key /\ s = c.son
    OBVIOUS
  <2>2. 0 \notin U /\ IsNodeOf(n, U) /\ IsKind(n, U) /\ Fits(n, U, k, s) /\ ~GoesRight(n, k)
    BY <1>1, <1>6, <2>1 DEF NodesRight, MayInsert
  <2>3. Len(Inserted(n, k, s).keys) = Len(n.keys) + 1
    BY <2>2, InsertedIsNode
  <2> QED BY <1>8, <2>1, <2>3 DEF IsInserted
<1>11. r \in RowsOf(ms)
  BY <1>2, <1>5, <1>9 DEF NewRows, Carries
<1> QED BY <1>2, <1>3, <1>7, <1>8, <1>9, <1>10, <1>11

LEMMA InsertPutKeeps ==
  ASSUME TreeInv, NEW r \in Row, InsertPut(r)
  PROVE  TreeInv'
<1>1. /\ r \in DOMAIN ins /\ ins[r].pc = "put" /\ r \in Row \ done
      /\ ~GoesRight(nodes[ins[r].at], ins[r].key)
  BY DEF InsertPut, AtPut, TreeInv, CallsTyped
<1>2. PICK c : c = ins[r]
  OBVIOUS
<1>3. /\ nodes' = With(nodes, c.at, c.key, c.son) /\ ~NeedSplit(Inserted(nodes[c.at], c.key, c.son))
      /\ DOMAIN ins' = DOMAIN ins \ {r} /\ (\A q \in DOMAIN ins \ {r} : ins'[q] = ins[q])
      /\ done' = done \cup {r} /\ UNCHANGED <<root, find, found>>
  <2>1. With(nodes, c.at, c.key, c.son) = [nodes EXCEPT ![c.at] = Inserted(nodes[c.at], c.key, c.son)]
    BY DEF With
  <2> QED BY <1>2, <2>1 DEF InsertPut, Without
<1>4. /\ c.at \in Uid /\ IsTree(nodes') /\ Carries(nodes, nodes', NewRows(r))
      /\ IsInserted(nodes, nodes', c.at, c.key, c.son)
      /\ Len(nodes'[c.at].keys) = Len(nodes[c.at].keys) + 1
      /\ r \in RowsOf(nodes')
  BY <1>1, <1>2, <1>3, PutFits
<1>5. OnlyInsert(r, NewRows(r))
  <2>1. NewRows(r) \subseteq {r}
    BY DEF NewRows
  <2> QED BY <1>3, <1>4, <2>1 DEF OnlyInsert
<1>6. Sizes'
  <2>1. \A u \in Uid : Len(nodes[u].keys) < 2 * BalanceNumber /\ Len(nodes[u].keys) \in Nat
    BY DEF TreeInv, Sizes, IsTree, NodesRight, IsNodeOf, Uid
  <2>2. Len(nodes'[c.at].keys) # 2 * BalanceNumber
    BY <1>3, <1>4 DEF NeedSplit, IsInserted
  <2>3. Len(nodes'[c.at].keys) < 2 * BalanceNumber
    BY <1>4, <2>1, <2>2, BalanceAssumption
  <2>4. Uid' = Uid /\ \A u \in Uid \ {c.at} : nodes'[u] = nodes[u]
    BY <1>4 DEF IsInserted, Uid
  <2>5. \E n \in Nat : Uid = 1 .. n
    BY DEF TreeInv, Sizes
  <2> QED BY <2>1, <2>3, <2>4, <2>5 DEF Sizes
<1>7. (root \in Uid)' /\ (LeftEnd(nodes)[root] = FirstLeaf)'
  BY <1>3, <1>4 DEF TreeInv, CallsTyped, Carries, Uid
<1>8. (r \in RowsOf(nodes))' <=> Placed(r)'
  BY <1>3, <1>4 DEF Placed
<1> QED BY <1>1, <1>3, <1>5, <1>6, <1>7, <1>8, InsertStep

LEMMA InsertSplitKeeps ==
  ASSUME TreeInv, NEW r \in Row, InsertSplit(r)
  PROVE  TreeInv'
<1> DEFINE B == BalanceNumber
<1>1. B \in Nat \ {0, 1}
  BY BalanceAssumption
<1>2. /\ r \in DOMAIN ins /\ ins[r].pc = "put" /\ r \in Row \ done /\ InsertKnows(r)
      /\ ~GoesRight(nodes[ins[r].at], ins[r].key)
  BY DEF InsertSplit, AtPut, TreeInv, CallsTyped
<1>3. PICK c : c = ins[r]
  OBVIOUS
<1>4. PICK ms, n : ms = With(nodes, c.at, c.key, c.son) /\ n = Inserted(nodes[c.at], c.key, c.son)
  OBVIOUS
<1>5. /\ c.at \in Uid /\ IsTree(ms) /\ Carries(nodes, ms, NewRows(r))
      /\ IsInserted(nodes, ms, c.at, c.key, c.son)
      /\ r \in RowsOf(ms)
  BY <1>2, <1>3, <1>4, PutFits
<1>6. PICK m \in Nat : Uid = 1 .. m
  BY DEF TreeInv, Sizes
<1>7. PICK w : w = NewUid
  OBVIOUS
<1>8. w \notin Uid /\ w # 0 /\ Uid \cup {w} = 1 .. m + 1
  BY <1>6, <1>7, NewUidIs
<1>9. DOMAIN ms = Uid /\ ms[c.at] = n /\ Len(n.keys) = 2 * B
  <2>1. NeedSplit(n)
    BY <1>3, <1>4 DEF InsertSplit
  <2> QED BY <1>4, <1>5, <2>1 DEF IsInserted, NeedSplit, Uid
<1>10. nodes' = Halved(ms, c.at, w)
  <2>1. nodes' = Put([nodes EXCEPT ![c.at] = LowerHalf(n, w)], w, UpperHalf(n))
    BY <1>3, <1>4, <1>7 DEF InsertSplit
  <2>2. [nodes EXCEPT ![c.at] = LowerHalf(n, w)] = [ms EXCEPT ![c.at] = LowerHalf(n, w)]
    BY <1>4 DEF With
  <2> QED BY <1>9, <2>1, <2>2 DEF Halved
<1>11. /\ IsTree(nodes') /\ Carries(ms, nodes', {}) /\ IsHalved(ms, nodes', c.at, w)
       /\ nodes'[w].keys[1] \in Int /\ nodes'[w].keys[1] <= MaxKey /\ Bounded(nodes', w, nodes'[w].keys[1])
  BY <1>5, <1>8, <1>9, <1>10, HalvedKeeps DEF MaySplit
<1>12. Carries(nodes, nodes', NewRows(r))
  BY <1>5, <1>11, CarriesOn
<1>13. Uid' = Uid \cup {w} /\ nodes'[w] = UpperHalf(n)
  BY <1>8, <1>9, <1>10, <1>11 DEF IsHalved, Halved, Put, Uid
<1>14. PICK d, up : d = ins'[r] /\ up = Front(c.path)
  OBVIOUS
<1>15. /\ DOMAIN ins' = DOMAIN ins /\ (\A q \in DOMAIN ins \ {r} : ins'[q] = ins[q])
       /\ UNCHANGED <<root, done, find, found>>
       /\ d = IF up = <<>> THEN [[c EXCEPT !.key = nodes'[w].keys[1], !.son = w] EXCEPT !.pc = "root"]
              ELSE [[c EXCEPT !.key = nodes'[w].keys[1], !.son = w] EXCEPT !.path = up, !.at = Last(up)]
  <2>1. PICK told : told = [c EXCEPT !.key = UpperHalf(n).keys[1], !.son = w]
    OBVIOUS
  <2>2. PICK e : e = IF up = <<>> THEN [told EXCEPT !.pc = "root"] ELSE [told EXCEPT !.path = up, !.at = Last(up)]
    OBVIOUS
  <2>3. ins' = [ins EXCEPT ![r] = e]
    BY <1>3, <1>4, <1>7, <1>14, <2>1, <2>2, Zenon DEF InsertSplit
  <2>4. UNCHANGED <<root, done, find, found>>
    BY DEF InsertSplit
  <2>5. DOMAIN ins' = DOMAIN ins /\ (\A q \in DOMAIN ins \ {r} : ins'[q] = ins[q]) /\ d = e
    BY <1>2, <1>14, <2>3
  <2> QED BY <1>13, <2>1, <2>2, <2>4, <2>5
<1>16. OnlyInsert(r, NewRows(r))
  <2>1. NewRows(r) \subseteq {r}
    BY DEF NewRows
  <2> QED BY <1>11, <1>12, <1>15, <2>1 DEF OnlyInsert
<1>17. Sizes'
  <2>1. \A u \in Uid : Len(nodes[u].keys) < 2 * B
    BY DEF TreeInv, Sizes
  <2>2. Len(nodes'[c.at].keys) = B /\ Len(nodes'[w].keys) = B
    BY <1>11 DEF IsHalved, IsSplit, AreHalves
  <2>3. \A u \in Uid \ {c.at} : nodes'[u] = nodes[u]
    BY <1>5, <1>9, <1>11 DEF IsInserted, IsHalved, Uid
  <2>4. ASSUME NEW u \in Uid' PROVE Len(nodes'[u].keys) < 2 * B
    BY <1>1, <1>13, <2>1, <2>2, <2>3
  <2>5. m + 1 \in Nat
    OBVIOUS
  <2> QED BY <1>8, <1>13, <2>4, <2>5 DEF Sizes
<1>18. (root \in Uid)' /\ (LeftEnd(nodes)[root] = FirstLeaf)'
  BY <1>12, <1>15 DEF TreeInv, CallsTyped, Carries, Uid
<1>19. /\ c \in [pc : {"down", "put", "root"}, path : Seq(Uid), at : Uid, key : Int, son : Row \cup Uid]
       /\ c.path # <<>> /\ LeftEnd(nodes)[c.path[1]] = FirstLeaf
       /\ \A j \in 1 .. Len(c.path) - 1 : ~nodes[c.path[j]].leaf
       /\ nodes[c.path[Len(c.path)]].leaf = nodes[c.at].leaf
  BY <1>2, <1>3 DEF InsertKnows
<1>20. /\ c.path \in Seq(Uid) /\ Len(c.path) \in Nat /\ Len(c.path) # 0
       /\ \A j \in 1 .. Len(c.path) : c.path[j] \in Uid
  <2>1. c.path \in Seq(Uid)
    BY <1>19
  <2> QED BY <1>19, <2>1
<1>21. /\ \A u \in Uid : nodes'[u].leaf = nodes[u].leaf /\ LeftEnd(nodes')[u] = LeftEnd(nodes)[u]
  BY <1>12 DEF Carries, Uid
<1>22. /\ up \in Seq(Uid) /\ Len(up) = Len(c.path) - 1
       /\ \A j \in 1 .. Len(c.path) - 1 : up[j] = c.path[j]
  BY <1>14, <1>20 DEF Front
<1>23. InsertKnows(r)' /\ Placed(r)'
  <2>1. CASE up = <<>>
    <3>1. d = [[c EXCEPT !.key = nodes'[w].keys[1], !.son = w] EXCEPT !.pc = "root"]
      BY <1>15, <2>1
    <3>2. c.path \in Seq(Uid') /\ c.at \in Uid'
      BY <1>5, <1>13, <1>20
    <3>3. /\ d \in [pc : {"down", "put", "root"}, path : Seq(Uid'), at : Uid', key : Int, son : Row \cup Uid']
          /\ d.pc = "root" /\ d.path = c.path /\ d.at = c.at /\ d.key = nodes'[w].keys[1] /\ d.son = w
      BY <1>11, <1>13, <1>19, <3>1, <3>2
    <3>4. \A j \in 1 .. Len(c.path) - 1 : ~nodes'[c.path[j]].leaf
      BY <1>19, <1>20, <1>21
    <3>5. /\ LeftEnd(nodes')[c.path[1]] = FirstLeaf
          /\ nodes'[c.path[Len(c.path)]].leaf = nodes'[c.at].leaf
      BY <1>5, <1>19, <1>20, <1>21
    <3>6. InsertKnows(r)'
      BY <1>11, <1>13, <1>14, <1>19, <3>3, <3>4, <3>5 DEF InsertKnows
    <3> QED BY <1>2, <1>14, <1>15, <3>3, <3>6 DEF Placed
  <2>2. CASE up # <<>>
    <3>1. Len(up) \in Nat /\ Len(up) # 0
      <4>1. up \in Seq(Uid)
        BY <1>22
      <4> QED BY <2>2, <4>1
    <3>2. PICK v : v = Last(up)
      OBVIOUS
    <3>3. /\ Len(up) \in 1 .. Len(c.path) - 1 /\ Len(up) \in 1 .. Len(c.path)
          /\ 1 \in 1 .. Len(c.path) - 1
      <4>1. PICK L, M : L = Len(c.path) /\ M = Len(up)
        OBVIOUS
      <4>2. L \in Nat /\ M = L - 1 /\ M \in Nat /\ M # 0
        BY <1>20, <1>22, <3>1, <4>1
      <4>3. M \in 1 .. L - 1 /\ M \in 1 .. L /\ 1 \in 1 .. L - 1
        BY <4>2
      <4> QED BY <4>1, <4>3
    <3>4. v = up[Len(up)] /\ v = c.path[Len(up)] /\ v \in Uid /\ ~nodes[v].leaf
      BY <1>19, <1>20, <1>22, <3>2, <3>3 DEF Last
    <3>5. d = [[c EXCEPT !.key = nodes'[w].keys[1], !.son = w] EXCEPT !.path = up, !.at = v]
      BY <1>15, <2>2, <3>2
    <3>6. up \in Seq(Uid') /\ v \in Uid'
      BY <1>13, <1>22, <3>4
    <3>7. /\ d \in [pc : {"down", "put", "root"}, path : Seq(Uid'), at : Uid', key : Int, son : Row \cup Uid']
          /\ d.pc = "put" /\ d.path = up /\ d.at = v /\ d.key = nodes'[w].keys[1] /\ d.son = w
      BY <1>2, <1>3, <1>11, <1>13, <1>19, <3>5, <3>6
    <3>8. ~nodes'[v].leaf
      BY <1>21, <3>4
    <3>9. \A j \in 1 .. Len(up) - 1 : ~nodes'[up[j]].leaf
      <4> SUFFICES ASSUME NEW j \in 1 .. Len(up) - 1 PROVE ~nodes'[up[j]].leaf
        OBVIOUS
      <4>1. j \in 1 .. Len(c.path) - 1 /\ j \in 1 .. Len(c.path)
        BY <1>20, <1>22
      <4> QED BY <1>19, <1>20, <1>21, <1>22, <4>1
    <3>10. LeftEnd(nodes')[up[1]] = FirstLeaf
      BY <1>19, <1>20, <1>21, <1>22, <3>3
    <3>11. InsertKnows(r)'
      BY <1>11, <1>13, <1>14, <2>2, <3>4, <3>7, <3>8, <3>9, <3>10 DEF InsertKnows
    <3> QED BY <1>2, <1>14, <1>15, <3>7, <3>8, <3>11 DEF Placed
  <2> QED BY <2>1, <2>2
<1>24. r \in RowsOf(nodes')
  BY <1>5, <1>11 DEF Carries
<1> QED BY <1>2, <1>15, <1>16, <1>17, <1>18, <1>23, <1>24, InsertStep

LEMMA UpdateRootKeeps ==
  ASSUME TreeInv, NEW r \in Row, UpdateRoot(r)
  PROVE  TreeInv'
<1>1. r \in DOMAIN ins /\ ins[r].pc = "root" /\ r \in Row \ done /\ InsertKnows(r) /\ IsTree(nodes)
  BY DEF UpdateRoot, TreeInv, CallsTyped
<1>2. PICK c, w : c = ins[r] /\ w = NewUid
  OBVIOUS
<1>3. /\ c \in [pc : {"down", "put", "root"}, path : Seq(Uid), at : Uid, key : Int, son : Row \cup Uid]
      /\ c.key <= MaxKey /\ c.path # <<>> /\ LeftEnd(nodes)[c.path[1]] = FirstLeaf
      /\ c.son \in Uid /\ Bounded(nodes, c.son, c.key)
  BY <1>1, <1>2 DEF InsertKnows
<1>4. c.path[1] \in Uid /\ c.key \in Int
  <2>1. c.path \in Seq(Uid) /\ c.key \in Int
    BY <1>3
  <2> QED BY <1>3, <2>1
<1>5. PICK m \in Nat : Uid = 1 .. m
  BY DEF TreeInv, Sizes
<1>6. w \notin Uid /\ w # 0 /\ Uid \cup {w} = 1 .. m + 1
  BY <1>2, <1>5, NewUidIs
<1>7. /\ nodes' = Raised(nodes, w, c.key, c.path[1], c.son)
      /\ root' = w /\ DOMAIN ins' = DOMAIN ins \ {r} /\ (\A q \in DOMAIN ins \ {r} : ins'[q] = ins[q])
      /\ done' = done \cup {r} /\ UNCHANGED <<find, found>>
  BY <1>2 DEF UpdateRoot, Without, Raised
<1>8. /\ IsTree(nodes') /\ Carries(nodes, nodes', {})
      /\ DOMAIN nodes' = DOMAIN nodes \cup {w}
      /\ nodes'[w] = Node(FALSE, <<c.key, MaxKey>>, <<c.path[1], c.son>>, 0)
      /\ \A u \in DOMAIN nodes : nodes'[u] = nodes[u]
      /\ LeftEnd(nodes')[w] = LeftEnd(nodes)[c.path[1]]
  <2>1. PICK a, k, s : a = c.path[1] /\ k = c.key /\ s = c.son
    OBVIOUS
  <2>2. /\ a \in DOMAIN nodes /\ k \in Int /\ s \in DOMAIN nodes /\ k <= MaxKey /\ Bounded(nodes, s, k)
        /\ w \notin DOMAIN nodes /\ w # 0
    BY <1>3, <1>4, <1>6, <2>1 DEF Uid
  <2>3. nodes' = Raised(nodes, w, k, a, s)
    BY <1>7, <2>1
  <2>4. IsRaised(nodes, Raised(nodes, w, k, a, s), w, k, a, s)
    BY <1>1, <2>2, RaisedKeeps, Zenon
  <2> QED BY <2>1, <2>3, <2>4 DEF IsRaised
<1>9. OnlyInsert(r, {})
  BY <1>7, <1>8 DEF OnlyInsert
<1>10. Sizes'
  <2>1. \A u \in Uid : Len(nodes[u].keys) < 2 * BalanceNumber
    BY DEF TreeInv, Sizes
  <2>2. Len(nodes'[w].keys) = 2
    BY <1>8 DEF Node
  <2>3. 2 < 2 * BalanceNumber
    BY BalanceAssumption
  <2>4. m + 1 \in Nat
    OBVIOUS
  <2>5. Uid' = 1 .. m + 1
    BY <1>6, <1>8 DEF Uid
  <2>6. ASSUME NEW u \in Uid' PROVE Len(nodes'[u].keys) < 2 * BalanceNumber
    BY <1>8, <2>1, <2>2, <2>3 DEF Uid
  <2> QED BY <2>4, <2>5, <2>6 DEF Sizes
<1>11. (root \in Uid)' /\ (LeftEnd(nodes)[root] = FirstLeaf)'
  BY <1>3, <1>7, <1>8 DEF Uid
<1>12. (r \in RowsOf(nodes))' <=> Placed(r)'
  <2>1. r \in RowsOf(nodes)
    BY <1>1 DEF TreeInv, RowsPlaced, Placed
  <2>2. r \in RowsOf(nodes')
    BY <1>8, <2>1 DEF Carries
  <2> QED BY <1>7, <2>2 DEF Placed
<1> QED BY <1>1, <1>7, <1>9, <1>10, <1>11, <1>12, InsertStep

----------------------------------------------------------------------------
(* The steps of a search.                                                  *)

LEMMA ConcatIs ==
  ASSUME NEW S, NEW a \in Seq(S), NEW b \in Seq(S)
  PROVE  /\ Range(a \o b) = Range(a) \cup Range(b)
         /\ IsInjective(a) /\ IsInjective(b) /\ Range(a) \cap Range(b) = {} => IsInjective(a \o b)
<1>1. PICK c, l, m : c = a \o b /\ l = Len(a) /\ m = Len(b)
  OBVIOUS
<1>2. l \in Nat /\ m \in Nat /\ DOMAIN a = 1 .. l /\ DOMAIN b = 1 .. m
  BY <1>1
<1>3. c \in Seq(S) /\ Len(c) = l + m
  BY <1>1
<1>4. \A j \in 1 .. l + m : c[j] = IF j <= l THEN a[j] ELSE b[j - l]
  BY <1>1
<1>5. DOMAIN c = 1 .. l + m
  BY <1>3
<1>6. \A j \in 1 .. l + m : (j <= l => j \in 1 .. l) /\ (~(j <= l) => j - l \in 1 .. m)
  BY <1>2
<1>7. \A j \in 1 .. m : j + l \in 1 .. l + m /\ ~(j + l <= l) /\ (j + l) - l = j
  BY <1>2
<1>8. \A j \in 1 .. l : j \in 1 .. l + m /\ j <= l
  BY <1>2
<1>9. \A j \in 1 .. m : c[j + l] = b[j]
  <2> SUFFICES ASSUME NEW j \in 1 .. m PROVE c[j + l] = b[j]
    OBVIOUS
  <2>1. c[j + l] = b[(j + l) - l]
    BY <1>4, <1>7
  <2> QED BY <1>7, <2>1
<1>10. ASSUME NEW x PROVE x \in Range(c) <=> x \in Range(a) \/ x \in Range(b)
  <2>1. ASSUME x \in Range(c) PROVE x \in Range(a) \/ x \in Range(b)
    <3>1. PICK j \in 1 .. l + m : x = c[j]
      BY <1>5, <2>1 DEF Range
    <3> QED BY <1>2, <1>4, <1>6, <3>1 DEF Range
  <2>2. ASSUME x \in Range(a) PROVE x \in Range(c)
    <3>1. PICK j \in 1 .. l : x = a[j]
      BY <1>2, <2>2 DEF Range
    <3> QED BY <1>4, <1>5, <1>8, <3>1 DEF Range
  <2>3. ASSUME x \in Range(b) PROVE x \in Range(c)
    <3>1. PICK j \in 1 .. m : x = b[j]
      BY <1>2, <2>3 DEF Range
    <3> QED BY <1>5, <1>7, <1>9, <3>1 DEF Range
  <2> QED BY <2>1, <2>2, <2>3
<1>11. ASSUME IsInjective(a), IsInjective(b), Range(a) \cap Range(b) = {},
              NEW j \in 1 .. l + m, NEW k \in 1 .. l + m, c[j] = c[k]
       PROVE  j = k
  <2>1. \A x, y \in 1 .. l : a[x] = a[y] => x = y
    BY <1>2, <1>11 DEF IsInjective
  <2>2. \A x, y \in 1 .. m : b[x] = b[y] => x = y
    BY <1>2, <1>11 DEF IsInjective
  <2>3. \A x \in 1 .. l, y \in 1 .. m : a[x] # b[y]
    BY <1>2, <1>11 DEF Range
  <2>4. CASE j <= l /\ k <= l
    BY <1>4, <1>6, <1>11, <2>1, <2>4
  <2>5. CASE j <= l /\ ~(k <= l)
    BY <1>4, <1>6, <1>11, <2>3, <2>5
  <2>6. CASE ~(j <= l) /\ k <= l
    BY <1>4, <1>6, <1>11, <2>3, <2>6
  <2>7. CASE ~(j <= l) /\ ~(k <= l)
    <3>1. j - l = k - l
      BY <1>4, <1>6, <1>11, <2>2, <2>7
    <3> QED BY <1>2, <3>1
  <2> QED BY <2>4, <2>5, <2>6, <2>7
<1>12. Range(c) = Range(a) \cup Range(b)
  BY <1>10
<1>13. IsInjective(a) /\ IsInjective(b) /\ Range(a) \cap Range(b) = {} => IsInjective(c)
  BY <1>5, <1>11 DEF IsInjective
<1> QED BY <1>1, <1>12, <1>13

(* What leafSearchRange reads of a leaf.                                   *)
IsRead(n, left, right, got, end) ==
  /\ got \in Seq(Row) /\ IsInjective(got) /\ Range(got) \subseteq Range(n.sons)
  /\ \A q \in Range(got) : left <= KeyOf(q) /\ KeyOf(q) <= right
  /\ \A q \in Range(n.sons) : left <= KeyOf(q) /\ KeyOf(q) <= right => q \in Range(got)
  /\ end \in Int
  /\ end <= Len(n.keys) => \E q \in Range(n.sons) : right < KeyOf(q)
ReadEnd(n, left, right) == Max({Place(n, left), NextSon(n, right)})

LEMMA ReadIs ==
  ASSUME NEW ns, NodesRight(ns), LineSorted(ns), NEW u \in LeafOf(ns), NEW left \in Int, NEW right \in Int
  PROVE  LET n == ns[u]
             end == ReadEnd(n, left, right)
         IN  IsRead(n, left, right, SubSeq(n.sons, Place(n, left), end - 1), end)
<1>1. PICK n, first, over, end : n = ns[u] /\ first = Place(n, left) /\ over = NextSon(n, right) /\ end = ReadEnd(n, left, right)
  OBVIOUS
<1>2. IsNodeOf(n, DOMAIN ns) /\ IsLeafNode(n) /\ IsInjective(n.sons)
  BY <1>1 DEF NodesRight, IsKind, LeafOf, LineSorted
<1>3. n.keys \in Seq(Int) /\ Len(n.keys) = Len(n.sons)
  BY <1>2 DEF IsNodeOf
<1>4. PICK L : L = Len(n.keys) /\ L \in Nat
  BY <1>3
<1>5. n.sons \in Seq(Row)
  <2>1. n.sons \in Seq(Row \cup DOMAIN ns)
    BY <1>2 DEF IsNodeOf
  <2>2. \A i \in 1 .. Len(n.sons) : n.sons[i] \in Row
    BY <1>2, <1>3 DEF IsLeafNode
  <2> QED BY <2>1, <2>2
<1>6. /\ \A i \in 1 .. L : n.keys[i] = KeyOf(n.sons[i]) /\ n.keys[i] \in Int
      /\ \A i, j \in 1 .. L : i <= j => n.keys[i] <= n.keys[j]
      /\ DOMAIN n.sons = 1 .. L
  <2>1. \A i \in 1 .. L : n.keys[i] \in Int
    BY <1>3, <1>4
  <2>2. DOMAIN n.sons = 1 .. L
    BY <1>3, <1>4, <1>5
  <2> QED BY <1>2, <1>4, <2>1, <2>2 DEF IsNodeOf, IsLeafNode
<1>7. /\ first \in 1 .. L + 1
      /\ \A j \in 1 .. L : j < first => n.keys[j] < left
      /\ first <= L => left <= n.keys[first]
  BY <1>1, <1>3, <1>4, PlaceIs
<1>8. /\ over \in 1 .. L + 1
      /\ \A j \in 1 .. L : j < over => n.keys[j] <= right
      /\ over <= L => right < n.keys[over]
  BY <1>1, <1>3, <1>4, NextSonIs
<1>9. end = IF first < over THEN over ELSE first
  <2>1. end = CHOOSE x \in {first, over} : \A y \in {first, over} : x >= y
    BY <1>1 DEF ReadEnd, Max
  <2>2. PICK m : m = IF first < over THEN over ELSE first
    OBVIOUS
  <2>3. m \in {first, over} /\ \A y \in {first, over} : m >= y
    BY <1>7, <1>8, <2>2
  <2>4. \A x \in {first, over} : (\A y \in {first, over} : x >= y) => x = m
    BY <1>7, <1>8, <2>2
  <2> QED BY <2>1, <2>2, <2>3, <2>4
<1>10. end \in Int /\ first <= end /\ end <= L + 1 /\ end - 1 \in first - 1 .. L /\ over <= end
  BY <1>4, <1>7, <1>8, <1>9
<1>11. PICK got : got = SubSeq(n.sons, first, end - 1)
  OBVIOUS
<1>12. /\ got \in Seq(Row) /\ Len(got) = (end - 1) - first + 1
       /\ \A j \in 1 .. (end - 1) - first + 1 : got[j] = n.sons[first + j - 1]
  BY <1>3, <1>4, <1>5, <1>7, <1>10, <1>11, SubSeqIs
<1>13. DOMAIN got = 1 .. (end - 1) - first + 1
  <2>1. got \in Seq(Row) /\ Len(got) = (end - 1) - first + 1
    BY <1>12
  <2> QED BY <2>1
<1>14. \A j \in 1 .. (end - 1) - first + 1 : first + j - 1 \in 1 .. L /\ first <= first + j - 1 /\ first + j - 1 < end /\ end = over
  BY <1>4, <1>7, <1>8, <1>9, <1>10
<1>15. IsInjective(got)
  <2> SUFFICES ASSUME NEW j \in 1 .. (end - 1) - first + 1, NEW k \in 1 .. (end - 1) - first + 1, got[j] = got[k]
               PROVE  j = k
    BY <1>13 DEF IsInjective
  <2>1. PICK x, y : x = first + j - 1 /\ y = first + k - 1
    OBVIOUS
  <2>2. x \in 1 .. L /\ y \in 1 .. L /\ n.sons[x] = n.sons[y]
    BY <1>12, <1>14, <2>1
  <2>3. x = y
    BY <1>2, <1>6, <2>2 DEF IsInjective
  <2> QED BY <1>7, <2>1, <2>3
<1>16. ASSUME NEW q \in Range(got)
       PROVE  q \in Range(n.sons) /\ left <= KeyOf(q) /\ KeyOf(q) <= right
  <2>1. PICK j \in 1 .. (end - 1) - first + 1 : q = got[j]
    BY <1>13 DEF Range
  <2>2. PICK i : i = first + j - 1
    OBVIOUS
  <2>3. i \in 1 .. L /\ first <= i /\ i < over /\ q = n.sons[i]
    BY <1>12, <1>14, <2>1, <2>2
  <2>4. first \in 1 .. L /\ first <= L
    BY <1>4, <1>7, <2>3
  <2>5. /\ left <= n.keys[first] /\ n.keys[first] <= n.keys[i] /\ n.keys[first] \in Int
        /\ n.keys[i] \in Int
    BY <1>6, <1>7, <2>3, <2>4
  <2>6. n.keys[i] <= right
    BY <1>8, <2>3
  <2> QED BY <1>6, <2>3, <2>5, <2>6 DEF Range
<1>17. ASSUME NEW q \in Range(n.sons), left <= KeyOf(q), KeyOf(q) <= right
       PROVE  q \in Range(got)
  <2>1. PICK i \in 1 .. L : q = n.sons[i]
    BY <1>6 DEF Range
  <2>2. n.keys[i] = KeyOf(q) /\ n.keys[i] \in Int
    BY <1>6, <2>1
  <2>3. first <= i
    BY <1>7, <1>17, <2>1, <2>2
  <2>4. i < over
    <3>1. ASSUME over <= i PROVE FALSE
      <4>1. over \in 1 .. L /\ over <= L
        BY <1>4, <1>8, <3>1
      <4>2. right < n.keys[over] /\ n.keys[over] <= n.keys[i] /\ n.keys[over] \in Int
        BY <1>6, <1>8, <3>1, <4>1
      <4> QED BY <1>17, <2>2, <4>2
    <3> QED BY <1>8, <3>1
  <2>5. PICK j : j = i - first + 1
    OBVIOUS
  <2>6. j \in 1 .. (end - 1) - first + 1 /\ first + j - 1 = i
    BY <1>7, <1>8, <1>9, <2>3, <2>4, <2>5
  <2>7. got[j] = q
    BY <1>12, <2>1, <2>6
  <2> QED BY <1>13, <2>6, <2>7 DEF Range
<1>18. ASSUME end <= L PROVE \E q \in Range(n.sons) : right < KeyOf(q)
  <2>1. over \in 1 .. L /\ over <= L
    BY <1>4, <1>8, <1>10, <1>18
  <2>2. right < KeyOf(n.sons[over]) /\ n.sons[over] \in Range(n.sons)
    BY <1>6, <1>8, <2>1 DEF Range
  <2> QED BY <2>2
<1>19. IsRead(n, left, right, got, end)
  BY <1>4, <1>10, <1>12, <1>15, <1>16, <1>17, <1>18 DEF IsRead
<1> QED BY <1>1, <1>11, <1>19

(* The rows left of a leaf are not on it.                                  *)
LEMMA RowsLeftApart ==
  ASSUME NEW ns, LineSorted(ns), NEW u \in LeafOf(ns)
  PROVE  RowsLeft(ns, u) \cap Range(ns[u].sons) = {}
<1> SUFFICES ASSUME NEW q \in RowsLeft(ns, u), q \in Range(ns[u].sons) PROVE FALSE
  OBVIOUS
<1>1. PICK x \in LeftOf(ns, u) : q \in Range(ns[x].sons)
  BY RowsLeftDef
<1>2. x \in LeafOf(ns) /\ u \in Reach(ns, x) /\ x # u
  BY <1>1 DEF LeftOf
<1> QED BY <1>1, <1>2 DEF LineSorted

(* What is right of a leaf that has a key beyond the range is beyond it.   *)
LEMMA NoneBeyond ==
  ASSUME NEW ns, IsTree(ns), NEW u \in LeafOf(ns), NEW right \in Int,
         ns[u].sibling = 0 \/ \E p \in Range(ns[u].sons) : right < KeyOf(p),
         NEW q \in RowsOf(ns), KeyOf(q) <= right
  PROVE  q \in RowsLeft(ns, u) \/ q \in Range(ns[u].sons)
<1>1. PICK x \in LeafOf(ns) : q \in Range(ns[x].sons)
  BY RowsLeftDef
<1>2. NodesRight(ns) /\ Line(ns) /\ LineSorted(ns)
  BY DEF IsTree
<1>3. CASE x = u
  BY <1>1, <1>3
<1>4. CASE x # u /\ u \in Reach(ns, x)
  <2>1. x \in LeftOf(ns, u)
    BY <1>4 DEF LeftOf
  <2> QED BY <1>1, <2>1, RowsLeftDef
<1>5. CASE x # u /\ x \in Reach(ns, u)
  <2>1. ns[u].sibling # 0
    BY <1>2, <1>5, ReachFirst
  <2>2. PICK p \in Range(ns[u].sons) : right < KeyOf(p)
    BY <2>1
  <2>3. KeyOf(p) <= KeyOf(q)
    BY <1>1, <1>2, <1>5, <2>2 DEF LineSorted
  <2>4. p \in Row /\ q \in Row
    BY <1>1, <1>2, <2>2, LeafRows
  <2> QED BY <2>2, <2>3, <2>4, KeysAssumption
<1> QED BY <1>2, <1>3, <1>4, <1>5, LineTotal

(* What SearchComplete says of one search.                                 *)
Complete(f) ==
  /\ IsInjective(f.rows)
  /\ \A i \in 1 .. Len(f.rows) : f.left <= KeyOf(f.rows[i]) /\ KeyOf(f.rows[i]) <= f.right
  /\ \A r \in f.before : Sought(f, r) => r \in Range(f.rows)

LEMMA SearchCompleteIs == SearchComplete <=> \A s \in DOMAIN found : Complete(found[s])
BY DEF SearchComplete, Complete, Sought

(* A step of a search.                                                     *)
LEMMA SearchStep ==
  ASSUME TreeInv, NEW s \in Search, UNCHANGED <<nodes, root, ins, done>>,
         DOMAIN find' \subseteq DOMAIN find \cup {s}, \A q \in DOMAIN find' \ {s} : find'[q] = find[q],
         s \in DOMAIN find' => SearchKnows(s)',
         DOMAIN found' \subseteq DOMAIN found \cup {s}, \A q \in DOMAIN found' \ {s} : found'[q] = found[q],
         s \in DOMAIN found' => Complete(found'[s])
  PROVE  TreeInv'
<1>1. NodesRight(nodes) /\ Carries(nodes, nodes', {})
  BY NothingHappens DEF TreeInv, IsTree
<1>2. ASSUME NEW q \in DOMAIN find' PROVE SearchKnows(q)'
  <2>1. CASE q = s
    BY <1>2, <2>1
  <2>2. CASE q # s
    <3>1. q \in DOMAIN find /\ SearchKnows(q) /\ find'[q] = find[q]
      BY <1>2, <2>2 DEF TreeInv
    <3> QED BY <1>1, <3>1, SearchKnowsOn
  <2> QED BY <2>1, <2>2
<1>3. ASSUME NEW q \in DOMAIN ins' PROVE InsertKnows(q)'
  BY <1>1, <1>3, InsertKnowsOn DEF TreeInv
<1>4. SearchComplete'
  <2>1. \A q \in DOMAIN found : Complete(found[q])
    BY SearchCompleteIs DEF TreeInv
  <2>2. \A q \in DOMAIN found' : Complete(found'[q])
    BY <2>1
  <2>3. SearchComplete' <=> \A q \in DOMAIN found' : Complete(found[q])'
    BY SearchCompleteIs DEF Complete, Sought, SearchComplete
  <2> QED BY <2>2, <2>3 DEF Complete, Sought
<1>5. CallsTyped'
  BY DEF TreeInv, CallsTyped, Uid
<1>6. RowsPlaced' /\ Sizes' /\ IsTree(nodes')
  BY DEF TreeInv, RowsPlaced, Placed, Sizes, Uid
<1> QED BY <1>2, <1>3, <1>4, <1>5, <1>6 DEF TreeInv

LEMMA SearchBeginKeeps ==
  ASSUME TreeInv, NEW s \in Search, NEW b \in Bounds, SearchBegin(s, b[1], b[2])
  PROVE  TreeInv'
<1> DEFINE f == [at |-> root, left |-> b[1], right |-> b[2], rows |-> <<>>, before |-> done]
<1>1. /\ s \notin DOMAIN found /\ DOMAIN find' = DOMAIN find \cup {s} /\ find'[s] = f
      /\ \A q \in DOMAIN find' \ {s} : find'[q] = find[q]
      /\ UNCHANGED <<nodes, root, ins, done>> /\ found' = found
  BY DEF SearchBegin, Put
<1>2. IsTree(nodes) /\ root \in Uid /\ LeftEnd(nodes)[root] = FirstLeaf
  BY DEF TreeInv, CallsTyped
<1>3. Bounded(nodes, root, b[1]) /\ RowsLeft(nodes, FirstLeaf) = {}
  BY <1>2, NothingLeft
<1>4. b[1] \in Int /\ b[2] \in Int /\ b[1] < MaxKey
  BY BoundsAssumption
<1>5. nodes[root].leaf => root = FirstLeaf
  BY <1>2 DEF IsTree, Founded, IsEnds, Uid
<1>6. <<>> \in Seq(Row) /\ Range(<<>>) = {} /\ IsInjective(<<>>)
  BY DEF Range, IsInjective
<1>7. SearchKnows(s)'
  <2>1. f \in [at : Uid, left : Int, right : Int, rows : Seq(Row), before : SUBSET done]
    BY <1>2, <1>4, <1>6
  <2> QED BY <1>1, <1>3, <1>4, <1>5, <1>6, <2>1 DEF SearchKnows, Uid
<1> QED BY <1>1, <1>7, SearchStep

LEMMA SearchDownKeeps ==
  ASSUME TreeInv, NEW s \in Search, SearchDown(s)
  PROVE  TreeInv'
<1>1. s \in DOMAIN find /\ SearchKnows(s) /\ IsTree(nodes) /\ ~nodes[find[s].at].leaf
  BY DEF SearchDown, TreeInv
<1>2. PICK f, n, i : f = find[s] /\ n = nodes[f.at] /\ i = NextSon(n, f.left)
  OBVIOUS
<1>3. PICK v : v = IF i <= Len(n.keys) THEN n.sons[i] ELSE n.sibling
  OBVIOUS
<1>4. PICK g : g = find'[s]
  OBVIOUS
<1>5. /\ DOMAIN find' = DOMAIN find /\ (\A q \in DOMAIN find \ {s} : find'[q] = find[q])
      /\ UNCHANGED <<nodes, root, ins, done>> /\ found' = found
      /\ g = [f EXCEPT !.at = v]
  <2>1. find' = [find EXCEPT ![s].at = v]
    BY <1>2, <1>3 DEF SearchDown
  <2> QED BY <1>1, <1>2, <1>4, <2>1 DEF SearchDown
<1>6. /\ f \in [at : Uid, left : Int, right : Int, rows : Seq(Row), before : SUBSET done]
      /\ f.left < MaxKey /\ IsInjective(f.rows)
      /\ f.rows = <<>> /\ Bounded(nodes, f.at, f.left)
  BY <1>1, <1>2 DEF SearchKnows
<1>7. f.at \in DOMAIN nodes /\ f.left \in Int
  BY <1>6 DEF Uid
<1>8. v \in Uid /\ Bounded(nodes, v, f.left)
  BY <1>1, <1>2, <1>3, <1>6, <1>7, GoesDown DEF Uid
<1>9. /\ g \in [at : Uid, left : Int, right : Int, rows : Seq(Row), before : SUBSET done]
      /\ g.at = v /\ g.left = f.left /\ g.right = f.right /\ g.rows = f.rows /\ g.before = f.before
  BY <1>5, <1>6, <1>8
<1>10. Range(f.rows) = {}
  BY <1>6 DEF Range
<1>11. nodes[v].leaf => \A r \in RowsLeft(nodes, v) : Under(r, f.left)
  BY <1>1, <1>8 DEF IsTree, Founded, IsEnds, Uid, Bounded
<1>12. nodes[v].leaf => \A r \in RowsLeft(nodes, v) : ~Sought(g, r)
  <2> SUFFICES ASSUME nodes[v].leaf, NEW r \in RowsLeft(nodes, v) PROVE ~Sought(g, r)
    OBVIOUS
  <2>1. r \in Row /\ KeyOf(r) \in Int
    BY <1>1, RowsAreRows, KeysAssumption DEF IsTree
  <2>2. Under(r, f.left)
    BY <1>11
  <2> QED BY <1>7, <1>9, <2>1, <2>2 DEF Under, Sought
<1>13. SearchKnows(s)'
  BY <1>4, <1>5, <1>6, <1>8, <1>9, <1>10, <1>12 DEF SearchKnows, Uid, Sought
<1>14. s \in DOMAIN found' => Complete(found'[s])
  BY <1>5, SearchCompleteIs DEF TreeInv
<1> QED BY <1>5, <1>13, <1>14, SearchStep

LEMMA SearchLeafKeeps ==
  ASSUME TreeInv, NEW s \in Search, SearchLeaf(s)
  PROVE  TreeInv'
<1>1. /\ s \in DOMAIN find /\ SearchKnows(s) /\ IsTree(nodes) /\ NodesRight(nodes)
      /\ Line(nodes) /\ LineSorted(nodes)
  BY DEF SearchLeaf, TreeInv, IsTree
<1>2. PICK f, n : f = find[s] /\ n = nodes[f.at]
  OBVIOUS
<1>3. /\ f \in [at : Uid, left : Int, right : Int, rows : Seq(Row), before : SUBSET done]
      /\ f.left < MaxKey /\ IsInjective(f.rows)
      /\ \A r \in Range(f.rows) : f.left <= KeyOf(r) /\ KeyOf(r) <= f.right
      /\ n.leaf
      /\ Range(f.rows) \subseteq RowsLeft(nodes, f.at)
      /\ \A r \in RowsLeft(nodes, f.at) \cap f.before : Sought(f, r) => r \in Range(f.rows)
  BY <1>1, <1>2 DEF SearchKnows, SearchLeaf
<1>4. /\ f.at \in LeafOf(nodes) /\ f.left \in Int /\ f.right \in Int /\ f.rows \in Seq(Row)
      /\ f.before \subseteq done
  BY <1>2, <1>3 DEF LeafOf, Uid
<1>5. PICK first, end, got, rows, read :
        /\ first = Place(n, f.left) /\ end = ReadEnd(n, f.left, f.right)
        /\ got = SubSeq(n.sons, first, end - 1)
        /\ rows = f.rows \o got /\ read = [f EXCEPT !.rows = rows]
  OBVIOUS
<1>6. IsRead(n, f.left, f.right, got, end)
  BY <1>1, <1>2, <1>4, <1>5, ReadIs
<1>7. IF ReadsOn(n, first, end)
      THEN find' = [find EXCEPT ![s] = [read EXCEPT !.at = n.sibling]] /\ UNCHANGED found
      ELSE find' = Without(find, s) /\ found' = Put(found, s, read)
  <2>1. /\ first = Place(nodes[find[s].at], find[s].left)
        /\ end = Max({Place(nodes[find[s].at], find[s].left), NextSon(nodes[find[s].at], find[s].right)})
        /\ read = [find[s] EXCEPT !.rows = @ \o SubSeq(nodes[find[s].at].sons, first, end - 1)]
    BY <1>2, <1>5 DEF ReadEnd
  <2> QED BY <1>2, <2>1 DEF SearchLeaf
<1>8. UNCHANGED <<nodes, root, ins, done>>
  BY DEF SearchLeaf
<1>9. /\ got \in Seq(Row) /\ IsInjective(got) /\ Range(got) \subseteq Range(n.sons)
      /\ \A q \in Range(got) : f.left <= KeyOf(q) /\ KeyOf(q) <= f.right
      /\ \A q \in Range(n.sons) : f.left <= KeyOf(q) /\ KeyOf(q) <= f.right => q \in Range(got)
      /\ end \in Int
      /\ end <= Len(n.keys) => \E q \in Range(n.sons) : f.right < KeyOf(q)
  BY <1>6 DEF IsRead
<1>10. RowsLeft(nodes, f.at) \cap Range(n.sons) = {}
  BY <1>1, <1>2, <1>4, RowsLeftApart
<1>11. rows \in Seq(Row) /\ Range(rows) = Range(f.rows) \cup Range(got) /\ IsInjective(rows)
  <2>1. Range(f.rows) \cap Range(got) = {}
    BY <1>3, <1>9, <1>10
  <2>2. PICK had : had = f.rows
    OBVIOUS
  <2>3. had \in Seq(Row) /\ got \in Seq(Row) /\ rows = had \o got
    BY <1>4, <1>5, <1>9, <2>2
  <2>4. rows \in Seq(Row)
    BY <2>3
  <2>5. /\ Range(had \o got) = Range(had) \cup Range(got)
        /\ IsInjective(had) /\ IsInjective(got) /\ Range(had) \cap Range(got) = {} => IsInjective(had \o got)
    BY <2>3, ConcatIs
  <2> QED BY <1>3, <1>9, <2>1, <2>2, <2>3, <2>4, <2>5
<1>12. \A r \in Range(rows) : f.left <= KeyOf(r) /\ KeyOf(r) <= f.right
  BY <1>3, <1>9, <1>11
<1>13. \A r \in RowsLeft(nodes, f.at) \cup Range(n.sons) : r \in f.before /\ Sought(f, r) => r \in Range(rows)
  BY <1>3, <1>9, <1>11 DEF Sought
<1>14. /\ read \in [at : Uid, left : Int, right : Int, rows : Seq(Row), before : SUBSET done]
       /\ read.at = f.at /\ read.left = f.left /\ read.right = f.right /\ read.rows = rows /\ read.before = f.before
  BY <1>3, <1>5, <1>11
<1>15. CASE ReadsOn(n, first, end)
  <2>1. PICK v, g : v = n.sibling /\ g = [read EXCEPT !.at = v]
    OBVIOUS
  <2>2. /\ DOMAIN find' = DOMAIN find /\ find'[s] = g
        /\ (\A q \in DOMAIN find \ {s} : find'[q] = find[q]) /\ found' = found
    BY <1>1, <1>7, <1>15, <2>1
  <2>3. v # 0
    BY <1>15, <2>1 DEF ReadsOn
  <2>4. v \in LeafOf(nodes) /\ RowsLeft(nodes, v) = RowsLeft(nodes, f.at) \cup Range(n.sons)
    BY <1>1, <1>2, <1>4, <2>1, <2>3, RowsLeftOfSibling
  <2>5. v \in Uid /\ nodes[v].leaf
    BY <2>4 DEF LeafOf, Uid
  <2>6. /\ g \in [at : Uid, left : Int, right : Int, rows : Seq(Row), before : SUBSET done]
        /\ g.at = v /\ g.left = f.left /\ g.right = f.right /\ g.rows = rows /\ g.before = f.before
    BY <1>14, <2>1, <2>5
  <2>7. Range(rows) \subseteq RowsLeft(nodes, v)
    BY <1>3, <1>9, <1>11, <2>4
  <2>8. \A r \in RowsLeft(nodes, v) \cap f.before : Sought(g, r) => r \in Range(rows)
    BY <1>13, <2>4, <2>6 DEF Sought
  <2>9. SearchKnows(s)'
    BY <1>3, <1>8, <1>11, <1>12, <2>2, <2>5, <2>6, <2>7, <2>8 DEF SearchKnows, Uid, Sought
  <2>10. s \in DOMAIN found' => Complete(found'[s])
    BY <2>2, SearchCompleteIs DEF TreeInv
  <2> QED BY <1>8, <2>2, <2>9, <2>10, SearchStep
<1>16. CASE ~ReadsOn(n, first, end)
  <2>1. /\ DOMAIN find' = DOMAIN find \ {s} /\ (\A q \in DOMAIN find \ {s} : find'[q] = find[q])
        /\ DOMAIN found' = DOMAIN found \cup {s} /\ found'[s] = read
        /\ \A q \in DOMAIN found' \ {s} : found'[q] = found[q]
    BY <1>7, <1>16 DEF Put, Without
  <2>2. n.sibling = 0 \/ \E q \in Range(n.sons) : f.right < KeyOf(q)
    <3>1. Len(n.keys) \in Nat
      BY <1>1, <1>2, <1>4, LeafRows
    <3> QED BY <1>9, <1>16, <3>1 DEF ReadsOn
  <2>3. ASSUME NEW r \in f.before, Sought(f, r) PROVE r \in Range(rows)
    <3>1. r \in RowsOf(nodes)
      BY <1>4, <2>3 DEF TreeInv, CallsTyped, RowsPlaced, Placed
    <3>2. KeyOf(r) <= f.right
      BY <2>3 DEF Sought
    <3>3. r \in RowsLeft(nodes, f.at) \/ r \in Range(n.sons)
      BY <1>1, <1>2, <1>4, <2>2, <3>1, <3>2, NoneBeyond
    <3> QED BY <1>13, <2>3, <3>3
  <2>4. \A i \in 1 .. Len(rows) : rows[i] \in Range(rows)
    <3>1. DOMAIN rows = 1 .. Len(rows)
      <4>1. rows \in Seq(Row)
        BY <1>11
      <4> QED BY <4>1
    <3> QED BY <3>1 DEF Range
  <2>5. Complete(read)
    BY <1>11, <1>12, <1>14, <2>3, <2>4 DEF Complete, Sought
  <2>6. s \in DOMAIN found' => Complete(found'[s])
    BY <2>1, <2>5 DEF Complete, Sought
  <2> QED BY <1>8, <2>1, <2>6, SearchStep
<1> QED BY <1>15, <1>16

----------------------------------------------------------------------------
LEMMA InitTree == Init => TreeInv
<1> SUFFICES ASSUME Init PROVE TreeInv
  OBVIOUS
<1>1. PICK n : n = Node(TRUE, <<>>, <<>>, 0)
  OBVIOUS
<1>2. /\ n = [leaf |-> TRUE, keys |-> <<>>, sons |-> <<>>, sibling |-> 0]
      /\ n.leaf /\ n.keys = <<>> /\ n.sons = <<>> /\ n.sibling = 0 /\ Len(n.keys) = 0
  BY <1>1 DEF Node
<1>3. /\ DOMAIN nodes = {1} /\ nodes[1] = n /\ root = 1 /\ ins = <<>> /\ done = {}
      /\ find = <<>> /\ found = <<>>
  BY <1>1 DEF Init
<1>4. LeafOf(nodes) = {1}
  BY <1>2, <1>3 DEF LeafOf
<1>5. 1 .. 0 = {} /\ Range(<<>>) = {} /\ IsInjective(<<>>)
  BY DEF Range, IsInjective
<1>6. NodesRight(nodes)
  <2>1. n \in [leaf : BOOLEAN, keys : Seq(Int), sons : Seq(Row \cup {1}), sibling : {1} \cup {0}]
    BY <1>2
  <2>2. IsNodeOf(n, {1}) /\ IsKind(n, {1})
    BY <1>2, <2>1 DEF IsNodeOf, IsKind, IsLeafNode
  <2>3. ASSUME NEW u \in DOMAIN nodes
        PROVE  IsNodeOf(nodes[u], DOMAIN nodes) /\ IsKind(nodes[u], DOMAIN nodes) /\ nodes[u].sibling = 0
    BY <1>2, <1>3, <2>2
  <2>4. 1 \in LeafOf(nodes) /\ 0 \notin DOMAIN nodes
    BY <1>3, <1>4
  <2> QED BY <2>3, <2>4 DEF NodesRight
<1>7. Line(nodes)
  BY <1>2, <1>3, <1>4, ReachSelf DEF Line
<1>8. RowsOf(nodes) = {} /\ LineSorted(nodes)
  BY <1>2, <1>3, <1>4, <1>5 DEF LineSorted, RowsOf
<1>9. Founded(nodes) /\ LeftEnd(nodes)[1] = 1
  <2> DEFINE e == [u \in {1} |-> 1]
  <2>1. ASSUME NEW f, IsEnds(nodes, f) PROVE f = e
    <3>1. f = [u \in {1} |-> IF nodes[u].leaf THEN u ELSE f[nodes[u].sons[1]]]
      BY <1>3, <2>1 DEF IsEnds
    <3>2. DOMAIN f = {1} /\ f[1] = 1 /\ f = [u \in DOMAIN f |-> f[u]]
      BY <1>2, <1>3, <3>1
    <3> QED BY <3>2
  <2>2. IsEnds(nodes, e)
    BY <1>2, <1>3 DEF IsEnds
  <2>3. IsEnds(nodes, LeftEnd(nodes))
    BY <2>2, EndsExist
  <2>4. LeftEnd(nodes) = e
    BY <2>1, <2>3
  <2>5. LeftEnd(nodes)[1] = 1
    BY <2>4
  <2> QED BY <1>3, <1>4, <2>1, <2>3, <2>5 DEF Founded
<1>10. Separated(nodes)
  BY <1>2, <1>3 DEF Separated
<1>11. IsTree(nodes)
  BY <1>6, <1>7, <1>8, <1>9, <1>10 DEF IsTree
<1>12. DOMAIN ins = {} /\ DOMAIN find = {} /\ DOMAIN found = {}
  BY <1>3
<1>13. Sizes
  <2>1. 1 \in Nat /\ Uid = 1 .. 1
    BY <1>3 DEF Uid
  <2>2. \A u \in Uid : Len(nodes[u].keys) < 2 * BalanceNumber
    BY <1>2, <1>3, BalanceAssumption DEF Uid
  <2> QED BY <2>1, <2>2 DEF Sizes
<1>14. CallsTyped /\ RowsPlaced /\ SearchComplete
  BY <1>3, <1>8, <1>9, <1>12 DEF CallsTyped, RowsPlaced, Placed, SearchComplete, FirstLeaf, Uid
<1> QED BY <1>11, <1>12, <1>13, <1>14 DEF TreeInv

LEMMA NextKeeps ==
  ASSUME TreeInv, [Next]_vars
  PROVE  TreeInv'
<1>1. CASE UNCHANGED vars
  BY <1>1 DEF vars, TreeInv, Sizes, CallsTyped, RowsPlaced, Placed, InsertKnows, SearchKnows, SearchComplete, Uid, Sought
<1>2. CASE Next
  <2>1. ASSUME NEW r \in Row, InsertBegin(r) PROVE TreeInv'
    BY <2>1, InsertBeginKeeps
  <2>2. ASSUME NEW s \in Search, NEW b \in Bounds, SearchBegin(s, b[1], b[2]) PROVE TreeInv'
    BY <2>2, SearchBeginKeeps
  <2>3. ASSUME NEW r \in Row, Inserting(r) PROVE TreeInv'
    BY <2>3, InsertDownKeeps, InsertRightKeeps, InsertPutKeeps, InsertSplitKeeps, UpdateRootKeeps DEF Inserting
  <2>4. ASSUME NEW s \in Search, Searching(s) PROVE TreeInv'
    BY <2>4, SearchDownKeeps, SearchLeafKeeps DEF Searching
  <2> QED BY <1>2, <2>1, <2>2, <2>3, <2>4 DEF Next, Going
<1> QED BY <1>1, <1>2

(* The nodes form a tree, on whose leaves is every row that was put there, *)
(* and what each call knows is so, after every step of any of them: also   *)
(* when the root was written over with a stale one (BPlusTree.java:115).   *)
THEOREM TreeInvariant == Spec => []TreeInv
<1>1. TreeInv /\ [Next]_vars => TreeInv'
  BY NextKeeps
<1> QED BY <1>1, InitTree, PTL DEF Spec

----------------------------------------------------------------------------
(* The properties.                                                         *)

LEMMA TreeTyped == TreeInv => TypeOK
<1> SUFFICES ASSUME TreeInv PROVE TypeOK
  OBVIOUS
<1>1. NodesRight(nodes)
  BY DEF TreeInv, IsTree
<1>2. ASSUME NEW u \in Uid PROVE IsNode(nodes[u])
  <2>1. PICK n : n = nodes[u]
    OBVIOUS
  <2>2. IsNodeOf(n, Uid) /\ IsKind(n, Uid) /\ Len(n.keys) < 2 * BalanceNumber
    BY <1>1, <2>1 DEF NodesRight, TreeInv, Sizes, Uid
  <2>3. Len(n.keys) = Len(n.sons) /\ n.sibling \in Uid \cup {0}
    BY <2>2 DEF IsNodeOf
  <2>4. \A i \in 1 .. Len(n.sons) : n.sons[i] \in IF n.leaf THEN Row ELSE Uid
    BY <2>2, <2>3 DEF IsKind, IsLeafNode, IsInnerNode
  <2> QED BY <2>1, <2>2, <2>3, <2>4 DEF IsNode
<1>3. ASSUME NEW r \in DOMAIN ins PROVE ins[r].at \in Uid /\ Range(ins[r].path) \subseteq Uid
  <2>1. PICK c : c = ins[r]
    OBVIOUS
  <2>2. c \in [pc : {"down", "put", "root"}, path : Seq(Uid), at : Uid, key : Int, son : Row \cup Uid]
    BY <2>1 DEF TreeInv, InsertKnows
  <2>3. c.at \in Uid /\ c.path \in Seq(Uid)
    BY <2>2
  <2>4. Range(c.path) \subseteq Uid
    BY <2>3 DEF Range
  <2> QED BY <2>1, <2>3, <2>4
<1>4. \A s \in DOMAIN find : find[s].at \in Uid
  BY DEF TreeInv, SearchKnows
<1> QED BY <1>2, <1>3, <1>4 DEF TypeOK, TreeInv, CallsTyped

LEMMA OnwardIs == (\A u : Onward(u) = Reach(nodes, u)) /\ Leaf = LeafOf(nodes)
BY DEF Onward, Reach, Leaf, LeafOf, Uid

LEMMA TreeSorted == TreeInv => LeavesAreSorted
<1> SUFFICES ASSUME TreeInv PROVE LeavesAreSorted
  OBVIOUS
<1> DEFINE onward == [u \in Leaf |-> Onward(u)]
<1>1. NodesRight(nodes) /\ Line(nodes) /\ LineSorted(nodes)
  BY DEF TreeInv, IsTree
<1>2. Leaf = LeafOf(nodes) /\ FirstLeaf \in Leaf /\ \A u \in Leaf : onward[u] = Reach(nodes, u)
  BY <1>1, OnwardIs DEF NodesRight, FirstLeaf
<1> HIDE DEF onward
<1>3. onward[FirstLeaf] = Leaf
  <2>1. FirstLeaf = 1 /\ onward[FirstLeaf] = Reach(nodes, FirstLeaf)
    BY <1>2 DEF FirstLeaf
  <2>2. onward[FirstLeaf] = Reach(nodes, 1)
    BY <2>1
  <2>3. Reach(nodes, 1) \subseteq LeafOf(nodes)
    BY ReachLeaves
  <2>4. LeafOf(nodes) \subseteq Reach(nodes, 1)
    BY <1>1 DEF Line
  <2>5. Reach(nodes, 1) = LeafOf(nodes)
    BY <2>3, <2>4
  <2> QED BY <1>2, <2>2, <2>5
<1>4. done \subseteq UNION {Range(nodes[u].sons) : u \in Leaf}
  BY <1>2 DEF TreeInv, RowsPlaced, Placed, RowsOf, CallsTyped
<1>5. ASSUME NEW u \in Leaf
      PROVE  /\ IsInjective(nodes[u].sons)
             /\ \A i \in 1 .. Len(nodes[u].keys) : nodes[u].keys[i] = KeyOf(nodes[u].sons[i])
             /\ \A i \in 1 .. Len(nodes[u].keys) - 1 : nodes[u].keys[i] <= nodes[u].keys[i + 1]
  <2>1. PICK n : n = nodes[u] /\ IsNodeOf(n, Uid) /\ IsLeafNode(n)
    BY <1>1, <1>2 DEF NodesRight, LeafOf, IsKind, Uid
  <2>2. Len(n.keys) \in Nat /\ \A i, j \in 1 .. Len(n.keys) : i <= j => n.keys[i] <= n.keys[j]
    BY <2>1 DEF IsNodeOf
  <2>3. ASSUME NEW i \in 1 .. Len(n.keys) - 1 PROVE n.keys[i] <= n.keys[i + 1]
    <3>1. i \in 1 .. Len(n.keys) /\ i + 1 \in 1 .. Len(n.keys) /\ i <= i + 1
      BY <2>2
    <3> QED BY <2>2, <3>1
  <2> QED BY <1>1, <1>2, <2>1, <2>3 DEF LineSorted, IsLeafNode
<1>6. ASSUME NEW u \in Leaf, NEW v \in onward[u] \ {u}
      PROVE  /\ u \notin onward[v]
             /\ Range(nodes[u].sons) \cap Range(nodes[v].sons) = {}
             /\ \A k \in Range(nodes[u].keys), m \in Range(nodes[v].keys) : k <= m
  <2>1. v \in LeafOf(nodes) /\ v \in Reach(nodes, u) /\ v # u
    BY <1>2, ReachLeaves
  <2>2. u \notin onward[v]
    BY <1>1, <1>2, <2>1 DEF Line
  <2>3. /\ Range(nodes[u].sons) \cap Range(nodes[v].sons) = {}
        /\ \A p \in Range(nodes[u].sons), q \in Range(nodes[v].sons) : KeyOf(p) <= KeyOf(q)
    BY <1>1, <1>2, <2>1 DEF LineSorted
  <2>4. ASSUME NEW x \in Leaf, NEW k \in Range(nodes[x].keys) PROVE \E p \in Range(nodes[x].sons) : k = KeyOf(p)
    <3>1. nodes[x].keys \in Seq(Int)
      BY <1>1, <1>2 DEF NodesRight, IsNodeOf, LeafOf
    <3>2. PICK i \in 1 .. Len(nodes[x].keys) : k = nodes[x].keys[i]
      BY <3>1 DEF Range
    <3>3. nodes[x].sons[i] \in Range(nodes[x].sons) /\ nodes[x].keys[i] = KeyOf(nodes[x].sons[i])
      BY <1>1, <1>2, LeafRows
    <3> QED BY <3>2, <3>3
  <2> QED BY <1>2, <2>1, <2>2, <2>3, <2>4
<1> QED BY <1>3, <1>4, <1>5, <1>6 DEF LeavesAreSorted, onward

LEMMA LeftmostIs == TreeInv => LeftmostLeaf = LeftEnd(nodes)
<1> SUFFICES ASSUME TreeInv PROVE LeftmostLeaf = LeftEnd(nodes)
  OBVIOUS
<1>1. Founded(nodes)
  BY DEF TreeInv, IsTree
<1>2. PICK f : IsEnds(nodes, f)
  BY <1>1 DEF Founded
<1>3. IsEnds(nodes, LeftmostLeaf)
  BY <1>2 DEF IsEnds, LeftmostLeaf, Uid
<1> QED BY <1>1, <1>3 DEF Founded

LEMMA TreeNeverTooFar == TreeInv => NeverTooFarRight
<1> SUFFICES ASSUME TreeInv PROVE NeverTooFarRight
  OBVIOUS
<1> DEFINE onward == [u \in Leaf |-> Onward(u)]
           Lefter(v) == {u \in Leaf \ {v} : v \in onward[u]}
<1>1. NodesRight(nodes) /\ Founded(nodes) /\ Separated(nodes)
  BY DEF TreeInv, IsTree
<1>2. \A v : Lefter(v) = LeftOf(nodes, v)
  BY OnwardIs DEF LeftOf
<1>3. LeftmostLeaf = LeftEnd(nodes)
  BY LeftmostIs
<1> HIDE DEF onward
<1>4. ASSUME NEW u \in Uid, ~nodes[u].leaf, NEW i \in 1 .. Len(nodes[u].keys) - 1
      PROVE  /\ nodes[u].keys[i] <= nodes[u].keys[i + 1]
             /\ \A v \in Lefter(LeftmostLeaf[nodes[u].sons[i + 1]]) :
                  \A k \in Range(nodes[v].keys) : k <= nodes[u].keys[i]
  <2>1. PICK n : n = nodes[u] /\ IsNodeOf(n, Uid) /\ IsInnerNode(n, Uid) /\ SeparatedNode(nodes, n)
    BY <1>1, <1>4, SeparatedIs DEF NodesRight, IsKind, Uid
  <2>2. n.keys \in Seq(Int) /\ \A a, b \in 1 .. Len(n.keys) : a <= b => n.keys[a] <= n.keys[b]
    BY <2>1 DEF IsNodeOf
  <2>3. i \in 1 .. Len(n.keys) /\ i + 1 \in 1 .. Len(n.keys) /\ i <= i + 1
    <3>1. Len(n.keys) \in Nat
      BY <2>2
    <3> QED BY <1>4, <2>1, <3>1
  <2>4. n.keys[i] <= n.keys[i + 1] /\ n.keys[i] \in Int
    <3>1. n.keys[i] \in Int
      BY <2>2, <2>3
    <3> QED BY <2>2, <2>3, <3>1
  <2>5. PICK x : x = LeftmostLeaf[n.sons[i + 1]]
    OBVIOUS
  <2>6. \A q \in RowsLeft(nodes, x) : Under(q, n.keys[i])
    <3>1. Bounded(nodes, n.sons[i + 1], n.keys[i])
      BY <1>4, <2>1 DEF SeparatedNode
    <3> QED BY <1>3, <2>5, <3>1 DEF Bounded
  <2>7. ASSUME NEW v \in LeftOf(nodes, x), NEW k \in Range(nodes[v].keys) PROVE k <= n.keys[i]
    <3>1. v \in LeafOf(nodes)
      BY DEF LeftOf
    <3>2. nodes[v].keys \in Seq(Int)
      BY <1>1, <3>1 DEF NodesRight, IsNodeOf, LeafOf
    <3>3. PICK j \in 1 .. Len(nodes[v].keys) : k = nodes[v].keys[j]
      BY <3>2 DEF Range
    <3>4. PICK q : q = nodes[v].sons[j] /\ q \in Range(nodes[v].sons) /\ k = KeyOf(q)
      BY <1>1, <3>1, <3>3, LeafRows
    <3>5. q \in RowsLeft(nodes, x) /\ q \in Row
      BY <1>1, <3>1, <3>4, LeafRows, RowsLeftDef
    <3>6. Under(q, n.keys[i])
      BY <2>6, <3>5
    <3> QED BY <2>4, <3>4, <3>5, <3>6, KeysAssumption DEF Under
  <2> QED BY <1>2, <2>1, <2>4, <2>5, <2>7
<1> QED BY <1>4 DEF NeverTooFarRight, onward

(* Every node stays a node of its kind, and every call stays at a node.    *)
THEOREM TypeCorrect == Spec => []TypeOK
BY TreeInvariant, TreeTyped, PTL

(* The leaves form one line on which every row whose insert returned comes *)
(* once, in the order of the keys, whoever splits nodes meanwhile.         *)
THEOREM LeavesStaySorted == Spec => []LeavesAreSorted
BY TreeInvariant, TreeSorted, PTL

(* No separator ever sends a call past what it looks for: not before the   *)
(* parent has heard of a split (BPlusTree.java:134), nor under a root that *)
(* was written over with a stale one (BPlusTree.java:115).                 *)
THEOREM NobodyGoesTooFarRight == Spec => []NeverTooFarRight
BY TreeInvariant, TreeNeverTooFar, PTL

(* A search finds every row inserted before it began whose key is in its   *)
(* range, once, and no other, while others insert and split in front of    *)
(* it; all but the rows that share the left end (BPlusTree.java:94).       *)
THEOREM SearchesAreComplete == Spec => []SearchComplete
<1>1. TreeInv => SearchComplete
  BY DEF TreeInv
<1> QED BY <1>1, TreeInvariant, PTL
=============================================================================
