--------------------------- MODULE DataCacheProofs ---------------------------
(***************************************************************************)
(* Both caches of the data manager keep their promises, one on top of the  *)
(* other: each step of the data manager is a step of the cache of items,   *)
(* or none, and a step of the cache of pages, or none.  What CacheProofs   *)
(* proves of a cache alone then holds of the two.                          *)
(***************************************************************************)
EXTENDS DataCache, TLAPS

ItemCache == INSTANCE CacheProofs WITH
  User <- Reader, Key <- Item, Obj <- ItemObj, MaxResource <- 0,
  cache <- icache, references <- ireferences, getting <- igetting,
  count <- icount, fetch <- ifetch, hold <- ihold, closed <- iclosed

PageCache == INSTANCE CacheProofs WITH
  User <- PageUser, Key <- Page, Obj <- PageObj, MaxResource <- MaxPages,
  cache <- pcache, references <- preferences, getting <- pgetting,
  count <- pcount, fetch <- pfetch, hold <- phold, closed <- pclosed

(* The rest of the variables, behind the two caches.                       *)
USE DEF dvars

----------------------------------------------------------------------------
(* The steps of the cache of items.                                        *)

LEMMA ItemSteps ==
  ASSUME ItemCache!TypeOK, Next
  PROVE  ItemCache!Next \/ UNCHANGED ivars
<1> USE DEF ivars, pvars, Items!Put, Items!Without, ItemCache!Put, ItemCache!Without
<1>1. ASSUME NEW r \in Reader, NEW i \in Item, ReadHit(r, i) \/ ReadMiss(r, i)
      PROVE  ItemCache!Next
  <2>1. ItemCache!GetHit(r, i) \/ ItemCache!GetMiss(r, i)
    BY <1>1 DEF ReadHit, ReadMiss, Items!GetHit, Items!GetMiss, Items!MayGet, Items!IsFull,
                ItemCache!GetHit, ItemCache!GetMiss, ItemCache!MayGet, ItemCache!IsFull
  <2> QED BY <2>1 DEF ItemCache!Next
<1>2. ASSUME NEW r \in Reader, ReadFails(r)
      PROVE  ItemCache!Next
  <2>1. ItemCache!FetchFails(r)
    BY <1>2 DEF ReadFails, Items!FetchFails, ItemCache!FetchFails
  <2> QED BY <2>1 DEF ItemCache!Next
<1>3. ASSUME NEW r \in Reader, ItemFetched(r)
      PROVE  ItemCache!Next
  <2>1. PICK o \in ItemObj : ItemCache!Fetched(r, o)
    BY <1>3 DEF ItemFetched, Items!Fetched, ItemCache!Fetched
  <2> QED BY <2>1 DEF ItemCache!Next
<1>4. ASSUME NEW r \in Reader, Release(r)
      PROVE  ItemCache!Next
  <2>1. ItemCache!ReleaseShared(r) \/ ItemCache!ReleaseGone(r) \/ ItemCache!ReleaseLast(r)
    BY <1>4 DEF Release, Items!ReleaseShared, Items!ReleaseGone, Items!ReleaseLast, Items!IsLastUser,
                ItemCache!ReleaseShared, ItemCache!ReleaseGone, ItemCache!ReleaseLast, ItemCache!IsLastUser
  <2> QED BY <2>1 DEF ItemCache!Next
<1>5. ASSUME CloseItems
      PROVE  ItemCache!Next
  <2>1. CASE Items!CloseEmpty
    <3>1. ItemCache!CloseEmpty
      BY <2>1 DEF Items!CloseEmpty, ItemCache!CloseEmpty
    <3> QED BY <3>1 DEF ItemCache!Next
  <2>2. ASSUME NEW i \in DOMAIN icache, Items!CloseLetsGo(i)
        PROVE  ItemCache!Next
    <3>1. ItemCache!CloseLetsGo(i)
      BY <2>2 DEF Items!CloseLetsGo, ItemCache!CloseLetsGo
    <3>2. i \in Item
      BY DEF ItemCache!TypeOK, IsMap, ItemCache!IsMap
    <3> QED BY <3>1, <3>2 DEF ItemCache!Next
  <2> QED BY <1>5, <2>1, <2>2 DEF CloseItems
<1>6. ASSUME \/ \E r \in Reader : ItemPage(r) \/ \E v \in Value : Write(r, v)
             \/ \E n \in Inserter :
                  \/ \E p \in Page : InsertPage(n, p)
                  \/ \E i \in Item, v \in Value : Insert(n, i, v)
                  \/ InsertReleases(n)
             \/ \E x \in PageUser : PageRead(x) \/ PageFetched(x)
             \/ ClosePages
      PROVE  UNCHANGED ivars
  BY <1>6 DEF ItemPage, Write, InsertPage, Insert, InsertReleases, PageRead, PageFetched, ClosePages,
              PageHit, PageMiss, vars
<1> QED BY <1>1, <1>2, <1>3, <1>4, <1>5, <1>6 DEF Next

LEMMA ItemInvInductive ==
  ASSUME ItemCache!Inv, [Next]_vars
  PROVE  ItemCache!Inv'
<1>1. [ItemCache!Next]_(ItemCache!vars)
  BY ItemSteps DEF ItemCache!Inv, ItemCache!vars, ivars, vars
<1> QED BY <1>1, ItemCache!NextInv

LEMMA ItemTypes ==
  ASSUME ItemCache!Inv
  PROVE  /\ \A r \in DOMAIN ifetch : r \in Reader /\ ifetch[r] \in Item
         /\ \A r \in DOMAIN ihold : r \in Reader /\ ihold[r][1] \in Item
         /\ DOMAIN icache \subseteq Item
BY DEF ItemCache!Inv, ItemCache!TypeOK, ItemCache!IsMap

----------------------------------------------------------------------------
(* The steps of the cache of pages.                                        *)

(* PageImpl.release is a step of that cache.                               *)
LEMMA LettingGo ==
  ASSUME NEW x \in PageUser, LetPageGo(x)
  PROVE  PageCache!Next
<1>1. PageCache!ReleaseShared(x) \/ PageCache!ReleaseGone(x) \/ PageCache!ReleaseLast(x)
  BY DEF LetPageGo, Pages!ReleaseShared, Pages!ReleaseGone, Pages!ReleaseLast, Pages!IsLastUser,
         PageCache!ReleaseShared, PageCache!ReleaseGone, PageCache!ReleaseLast, PageCache!IsLastUser,
         Pages!Put, Pages!Without, PageCache!Put, PageCache!Without
<1> QED BY <1>1 DEF PageCache!Next

(* So is asking for a page.                                                *)
LEMMA Asking ==
  ASSUME NEW x \in PageUser, NEW p \in Page, PageHit(x, p) \/ PageMiss(x, p)
  PROVE  PageCache!Next
<1>1. PageCache!GetHit(x, p) \/ PageCache!GetMiss(x, p)
  BY DEF PageHit, PageMiss, Pages!GetHit, Pages!GetMiss, Pages!MayGet, Pages!IsFull,
         PageCache!GetHit, PageCache!GetMiss, PageCache!MayGet, PageCache!IsFull,
         Pages!Put, PageCache!Put
<1> QED BY <1>1 DEF PageCache!Next

(* What is read of the file belongs to a fetch in progress.                *)
Reading == IsMap(read, PageUser, PageObj) /\ DOMAIN read \subseteq DOMAIN pfetch

LEMMA PageSteps ==
  ASSUME ItemCache!Inv, PageCache!TypeOK, Reading, Next
  PROVE  PageCache!Next \/ UNCHANGED pvars
<1> USE DEF ivars, pvars
<1>1. ASSUME NEW r \in Reader, ItemPage(r)
      PROVE  PageCache!Next
  <2>1. ifetch[r] \in Item /\ PageOf(ifetch[r]) \in Page
    BY <1>1, ItemTypes, ItemsLieOnPages DEF ItemPage
  <2> QED BY <1>1, <2>1, Asking DEF ItemPage, PageUser
<1>2. ASSUME NEW r \in Reader, ReadFails(r)
      PROVE  UNCHANGED pvars
  BY <1>2 DEF ReadFails, Pages!GetFull, Pages!vars
<1>3. ASSUME NEW r \in Reader, Release(r)
      PROVE  PageCache!Next \/ UNCHANGED pvars
  <2>1. CASE LetPageGo(ihold[r][1]) /\ Items!ReleaseLast(r)
    <3>1. ihold[r][1] \in Item
      BY <2>1, ItemTypes DEF Items!ReleaseLast, Items!IsLastUser
    <3> QED BY <2>1, <3>1, LettingGo DEF PageUser
  <2> QED BY <1>3, <2>1 DEF Release
<1>4. ASSUME NEW n \in Inserter, NEW p \in Page, InsertPage(n, p)
      PROVE  PageCache!Next \/ UNCHANGED pvars
  BY <1>4, Asking DEF InsertPage, PageUser, vars
<1>5. ASSUME NEW n \in Inserter, InsertReleases(n)
      PROVE  PageCache!Next
  BY <1>5, LettingGo DEF InsertReleases, PageUser
<1>6. ASSUME NEW x \in PageUser, PageFetched(x)
      PROVE  PageCache!Next
  <2>1. PageCache!Fetched(x, read[x])
    BY <1>6 DEF PageFetched, Pages!Fetched, PageCache!Fetched,
                Pages!Put, Pages!Without, PageCache!Put, PageCache!Without
  <2>2. read[x] \in PageObj
    BY <1>6 DEF PageFetched, Reading, IsMap
  <2> QED BY <2>1, <2>2 DEF PageCache!Next
<1>7. CASE CloseItems
  <2>1. ASSUME NEW i \in DOMAIN icache, LetPageGo(i)
        PROVE  PageCache!Next
    BY <2>1, ItemTypes, LettingGo DEF PageUser
  <2> QED BY <1>7, <2>1 DEF CloseItems
<1>8. CASE ClosePages
  <2>1. CASE Pages!CloseEmpty
    <3>1. PageCache!CloseEmpty
      BY <2>1 DEF Pages!CloseEmpty, PageCache!CloseEmpty
    <3> QED BY <3>1 DEF PageCache!Next
  <2>2. ASSUME NEW p \in DOMAIN pcache, Pages!CloseLetsGo(p)
        PROVE  PageCache!Next
    <3>1. PageCache!CloseLetsGo(p)
      BY <2>2 DEF Pages!CloseLetsGo, PageCache!CloseLetsGo, Pages!Without, PageCache!Without
    <3>2. p \in Page
      BY DEF PageCache!TypeOK, PageCache!IsMap
    <3> QED BY <3>1, <3>2 DEF PageCache!Next
  <2> QED BY <1>8, <2>1, <2>2 DEF ClosePages
<1>9. ASSUME \/ \E r \in Reader :
                  \/ \E i \in Item : ReadHit(r, i) \/ ReadMiss(r, i)
                  \/ ItemFetched(r) \/ \E v \in Value : Write(r, v)
             \/ \E n \in Inserter, i \in Item, v \in Value : Insert(n, i, v)
             \/ \E x \in PageUser : PageRead(x)
      PROVE  UNCHANGED pvars
  BY <1>9 DEF ReadHit, ReadMiss, ItemFetched, Write, Insert, PageRead
<1> QED BY <1>1, <1>2, <1>3, <1>4, <1>5, <1>6, <1>7, <1>8, <1>9 DEF Next

LEMMA PageInvInductive ==
  ASSUME ItemCache!Inv, PageCache!Inv, Reading, [Next]_vars
  PROVE  PageCache!Inv'
<1>1. [PageCache!Next]_(PageCache!vars)
  BY PageSteps DEF PageCache!Inv, PageCache!vars, pvars, vars
<1> QED BY <1>1, LimitIsNumber, PageCache!NextInv

LEMMA ReadingInductive ==
  ASSUME ItemCache!Inv, PageCache!Inv, Reading, [Next]_vars
  PROVE  Reading'
<1> USE DEF pvars, Pages!Put, Pages!Without
<1>1. CASE UNCHANGED <<read, pfetch>>
  BY <1>1 DEF Reading, IsMap
<1>3. ASSUME NEW x \in PageUser, PageRead(x)
      PROVE  Reading'
  <2>1. PICK o \in PageObj : read' = Put(read, x, o)
    BY <1>3 DEF PageRead
  <2>2. x \in DOMAIN pfetch /\ pfetch' = pfetch
    BY <1>3 DEF PageRead
  <2> QED BY <2>1, <2>2 DEF Reading, IsMap, Put
<1>4. ASSUME NEW x \in PageUser, PageFetched(x)
      PROVE  Reading'
  <2>1. read' = Without(read, x) /\ pfetch' = Without(pfetch, x)
    BY <1>4 DEF PageFetched, Pages!Fetched, Without
  <2> QED BY <2>1 DEF Reading, IsMap, Without
<1>5. ASSUME NEW x, LetPageGo(x)
      PROVE  pfetch' = pfetch
  BY <1>5 DEF LetPageGo, Pages!ReleaseShared, Pages!ReleaseGone, Pages!ReleaseLast
<1>6. ASSUME NEW x, NEW p, PageHit(x, p) \/ PageMiss(x, p)
      PROVE  Reading'
  <2>1. read' = read /\ (pfetch' = pfetch \/ pfetch' = Put(pfetch, x, p))
    BY <1>6 DEF PageHit, PageMiss, Pages!GetHit, Pages!GetMiss, Put
  <2> QED BY <2>1 DEF Reading, IsMap, Put
<1>7. ASSUME NEW r \in Reader,
             (\E i \in Item : ReadHit(r, i) \/ ReadMiss(r, i)) \/ ReadFails(r) \/ ItemFetched(r)
             \/ (\E v \in Value : Write(r, v)) \/ Release(r)
      PROVE  UNCHANGED <<read, pfetch>>
  BY <1>5, <1>7 DEF ReadHit, ReadMiss, ReadFails, ItemFetched, Write, Release, Pages!GetFull, Pages!vars
<1>8. ASSUME NEW n \in Inserter, (\E i \in Item, v \in Value : Insert(n, i, v)) \/ InsertReleases(n)
      PROVE  UNCHANGED <<read, pfetch>>
  BY <1>5, <1>8 DEF Insert, InsertReleases
<1>9. CASE CloseItems \/ ClosePages
  BY <1>1, <1>5, <1>9 DEF CloseItems, ClosePages, Pages!CloseEmpty, Pages!CloseLetsGo
<1>10. CASE UNCHANGED vars
  BY <1>1, <1>10 DEF vars
<1>11. ASSUME NEW r \in Reader, ItemPage(r)
       PROVE  Reading'
  BY <1>6, <1>11 DEF ItemPage
<1>12. ASSUME NEW n \in Inserter, NEW p \in Page, InsertPage(n, p)
       PROVE  Reading'
  BY <1>6, <1>10, <1>12 DEF InsertPage
<1> QED BY <1>1, <1>3, <1>4, <1>7, <1>8, <1>9, <1>10, <1>11, <1>12 DEF Next

----------------------------------------------------------------------------
(* A kept item has its page, and only a kept item or one that is being     *)
(* fetched has one.                                                        *)

Linked == DOMAIN icache = (DOMAIN phold \cap Item) \ igetting
Fetching == DOMAIN pfetch \cap Item \subseteq igetting

LEMMA LettingGoLeaves ==
  ASSUME NEW x, LetPageGo(x)
  PROVE  pfetch' = pfetch /\ DOMAIN phold' = DOMAIN phold \ {x}
BY DEF LetPageGo, Pages!ReleaseShared, Pages!ReleaseGone, Pages!ReleaseLast, Pages!Without

LEMMA AskingAdds ==
  ASSUME NEW x, NEW p, PageHit(x, p) \/ PageMiss(x, p)
  PROVE  /\ UNCHANGED ivars
         /\ DOMAIN phold \subseteq DOMAIN phold' /\ DOMAIN phold' \subseteq DOMAIN phold \cup {x}
         /\ DOMAIN pfetch' \subseteq DOMAIN pfetch \cup {x}
BY DEF PageHit, PageMiss, Pages!GetHit, Pages!GetMiss, Pages!Put

LEMMA LinkedInductive ==
  ASSUME ItemCache!Inv, PageCache!Inv, Reading, Linked, Fetching, [Next]_vars
  PROVE  Linked' /\ Fetching'
<1> USE DEF Linked, Fetching
<1>1. CASE UNCHANGED <<ivars, DOMAIN phold, DOMAIN pfetch>>
  BY <1>1 DEF ivars
<1>2. ASSUME NEW r \in Reader, NEW i \in Item, ReadHit(r, i)
      PROVE  Linked' /\ Fetching'
  BY <1>2 DEF ReadHit, Items!GetHit, pvars
<1>3. ASSUME NEW r \in Reader, NEW i \in Item, ReadMiss(r, i)
      PROVE  Linked' /\ Fetching'
  <2>1. /\ i \notin igetting /\ i \notin DOMAIN icache
        /\ igetting' = igetting \cup {i}
        /\ UNCHANGED <<icache, iclosed, phold, pfetch>>
    BY <1>3 DEF ReadMiss, Items!GetMiss, Items!MayGet, pvars
  <2> QED BY <2>1
<1>4. ASSUME NEW r \in Reader, ItemPage(r)
      PROVE  Linked' /\ Fetching'
  <2>1. PICK i : i = ifetch[r]
    OBVIOUS
  <2>2. i \in igetting
    BY <1>4, <2>1 DEF ItemPage, ItemCache!Inv, ItemCache!OneFetch
  <2>3. /\ UNCHANGED ivars
        /\ DOMAIN phold \subseteq DOMAIN phold' /\ DOMAIN phold' \subseteq DOMAIN phold \cup {i}
        /\ DOMAIN pfetch' \subseteq DOMAIN pfetch \cup {i}
    BY <1>4, <2>1, AskingAdds DEF ItemPage
  <2> QED BY <2>2, <2>3 DEF ivars
<1>5. ASSUME NEW r \in Reader, ReadFails(r)
      PROVE  Linked' /\ Fetching'
  <2>1. PICK i : i = ifetch[r]
    OBVIOUS
  <2>2. /\ i \notin DOMAIN pfetch /\ i \notin DOMAIN phold
        /\ igetting' = igetting \ {i}
        /\ UNCHANGED <<icache, iclosed, phold, pfetch>>
    BY <1>5, <2>1 DEF ReadFails, Items!FetchFails, Pages!GetFull, Pages!MayGet, Pages!vars
  <2> QED BY <2>2
<1>6. ASSUME NEW r \in Reader, ItemFetched(r)
      PROVE  Linked' /\ Fetching'
  <2>1. PICK i : i = ifetch[r]
    OBVIOUS
  <2>2. i \in DOMAIN phold /\ i \in Item /\ i \notin DOMAIN pfetch
    BY <1>6, <2>1, ItemTypes DEF ItemFetched, PageCache!Inv, PageCache!TypeOK
  <2>3. /\ igetting' = igetting \ {i} /\ DOMAIN icache' = DOMAIN icache \cup {i}
        /\ UNCHANGED <<iclosed, phold, pfetch>>
    BY <1>6, <2>1 DEF ItemFetched, Items!Fetched, Items!Put, pvars
  <2> QED BY <2>2, <2>3
<1>7. ASSUME NEW r \in Reader, Release(r)
      PROVE  Linked' /\ Fetching'
  <2>1. CASE (Items!ReleaseShared(r) \/ Items!ReleaseGone(r)) /\ UNCHANGED pvars
    BY <2>1 DEF Items!ReleaseShared, Items!ReleaseGone, pvars
  <2>2. CASE Items!ReleaseLast(r) /\ LetPageGo(ihold[r][1])
    <3>1. PICK i : i = ihold[r][1]
      OBVIOUS
    <3>2. DOMAIN icache' = DOMAIN icache \ {i} /\ UNCHANGED <<igetting, iclosed>>
      BY <2>2, <3>1 DEF Items!ReleaseLast, Items!Without
    <3>3. pfetch' = pfetch /\ DOMAIN phold' = DOMAIN phold \ {i}
      BY <2>2, <3>1, LettingGoLeaves
    <3> QED BY <3>2, <3>3
  <2> QED BY <1>7, <2>1, <2>2 DEF Release
<1>8. ASSUME NEW n \in Inserter, NEW p \in Page, InsertPage(n, p)
      PROVE  Linked' /\ Fetching'
  <2>1. n \notin Item
    BY UsersAreDistinct
  <2>2. CASE PageHit(n, p) \/ PageMiss(n, p)
    BY <2>1, <2>2, AskingAdds DEF ivars
  <2>3. CASE UNCHANGED vars
    BY <1>1, <2>3 DEF vars, pvars
  <2> QED BY <1>8, <2>2, <2>3 DEF InsertPage
<1>9. ASSUME NEW n \in Inserter, InsertReleases(n)
      PROVE  Linked' /\ Fetching'
  <2>1. n \notin Item
    BY UsersAreDistinct
  <2>2. UNCHANGED ivars /\ pfetch' = pfetch /\ DOMAIN phold' = DOMAIN phold \ {n}
    BY <1>9, LettingGoLeaves DEF InsertReleases
  <2> QED BY <2>1, <2>2 DEF ivars
<1>10. ASSUME NEW x \in PageUser, PageFetched(x)
       PROVE  Linked' /\ Fetching'
  <2>1. x \in DOMAIN pfetch /\ UNCHANGED ivars
    BY <1>10 DEF PageFetched, Pages!Fetched
  <2>2. DOMAIN pfetch' = DOMAIN pfetch \ {x} /\ DOMAIN phold' = DOMAIN phold \cup {x}
    BY <1>10 DEF PageFetched, Pages!Fetched, Pages!Put, Pages!Without
  <2> QED BY <2>1, <2>2 DEF ivars
<1>11. CASE CloseItems
  <2>1. CASE Items!CloseEmpty /\ UNCHANGED pvars
    BY <2>1 DEF Items!CloseEmpty, pvars
  <2>2. ASSUME NEW i \in DOMAIN icache, Items!CloseLetsGo(i), LetPageGo(i)
        PROVE  Linked' /\ Fetching'
    <3>1. DOMAIN icache' = DOMAIN icache \ {i} /\ igetting' = igetting
      BY <2>2 DEF Items!CloseLetsGo, Items!Without
    <3>2. pfetch' = pfetch /\ DOMAIN phold' = DOMAIN phold \ {i}
      BY <2>2, LettingGoLeaves
    <3> QED BY <3>1, <3>2
  <2> QED BY <1>11, <2>1, <2>2 DEF CloseItems
<1>12. ASSUME \/ \E r \in Reader, v \in Value : Write(r, v)
              \/ \E n \in Inserter, i \in Item, v \in Value : Insert(n, i, v)
              \/ \E x \in PageUser : PageRead(x)
              \/ ClosePages
              \/ UNCHANGED vars
       PROVE  Linked' /\ Fetching'
  BY <1>1, <1>12 DEF Write, Insert, PageRead, ClosePages, Pages!CloseEmpty, Pages!CloseLetsGo, vars, pvars
<1> QED BY <1>2, <1>3, <1>4, <1>5, <1>6, <1>7, <1>8, <1>9, <1>10, <1>11, <1>12 DEF Next

----------------------------------------------------------------------------
Both == ItemCache!Inv /\ PageCache!Inv /\ Reading /\ Linked /\ Fetching

LEMMA InitBoth == Init => Both
<1> SUFFICES ASSUME Init PROVE Both
  OBVIOUS
<1>1. ItemCache!Init /\ PageCache!Init
  BY DEF Init, Items!Init, Pages!Init, ItemCache!Init, PageCache!Init
<1>2. ItemCache!Inv
  BY <1>1, ItemCache!InitInv
<1>3. PageCache!Inv
  BY <1>1, LimitIsNumber, PageCache!InitInv
<1>4. /\ DOMAIN icache = {} /\ igetting = {} /\ DOMAIN phold = {} /\ DOMAIN pfetch = {}
      /\ read = <<>>
  BY DEF Init, Items!Init, Pages!Init
<1>5. Reading
  BY <1>4 DEF Reading, IsMap
<1> QED BY <1>2, <1>3, <1>4, <1>5 DEF Both, Linked, Fetching

(* The instances of a cache count alike.                                   *)
LEMMA Counting ==
  /\ \A S : Items!Cardinality(S) = ItemCache!Cardinality(S)
  /\ \A S : Pages!Cardinality(S) = PageCache!Cardinality(S)
BY DEF Items!Cardinality, ItemCache!Cardinality, Pages!Cardinality, PageCache!Cardinality

LEMMA BothInductive ==
  ASSUME Both, [Next]_vars
  PROVE  Both'
BY ItemInvInductive, PageInvInductive, ReadingInductive, LinkedInductive DEF Both

LEMMA BothHold == Spec => []Both
<1>1. Both /\ [Next]_vars => Both'
  BY BothInductive
<1> QED BY <1>1, InitBoth, PTL DEF Spec

(* An item and a page have one object in memory each while their caches    *)
(* are open, and one thread fetches them, however get, release and insert  *)
(* interleave in the two caches (AbstractCache.java:33).                   *)
THEOREM OneObjectOfEach == Spec => []OneObjectEach
<1>1. Both => OneObjectEach
  BY DEF Both, OneObjectEach, ItemCache!Inv, PageCache!Inv,
         Items!OneFetch, Items!OneObject, Pages!OneFetch, Pages!OneObject,
         ItemCache!OneFetch, ItemCache!OneObject, PageCache!OneFetch, PageCache!OneObject
<1> QED BY <1>1, BothHold, PTL

(* Counters count users and room in both caches, and an item in memory has *)
(* exactly one reference to its page, given back with its own last one,    *)
(* also when a fetch fails (AbstractCache.java:68).                        *)
THEOREM BothAccounted == Spec => []Accounted
<1>1. ASSUME Both
      PROVE  Items!ReferencesAreUsers /\ Items!RoomIsAccounted
  <2>1. \A i : Items!Users(i) = ItemCache!Users(i)
    BY DEF Items!Users, ItemCache!Users
  <2>2. ItemCache!Counters
    BY <1>1 DEF Both, ItemCache!Inv
  <2>3. Items!ReferencesAreUsers
    BY <2>1, <2>2, Counting DEF ItemCache!Counters, Items!ReferencesAreUsers
  <2>4. Items!RoomIsAccounted
    BY <2>2, Counting DEF ItemCache!Counters, ItemCache!Taken, Items!RoomIsAccounted
  <2> QED BY <2>3, <2>4
<1>2. ASSUME Both
      PROVE  Pages!ReferencesAreUsers /\ Pages!RoomIsAccounted
  <2>1. \A p : Pages!Users(p) = PageCache!Users(p)
    BY DEF Pages!Users, PageCache!Users
  <2>2. PageCache!Counters
    BY <1>2 DEF Both, PageCache!Inv
  <2>3. Pages!ReferencesAreUsers
    BY <2>1, <2>2, Counting DEF PageCache!Counters, Pages!ReferencesAreUsers
  <2>4. Pages!RoomIsAccounted
    BY <2>2, Counting DEF PageCache!Counters, PageCache!Taken, Pages!RoomIsAccounted
  <2> QED BY <2>3, <2>4
<1>3. ASSUME Both
      PROVE  igetting = {ifetch[r] : r \in DOMAIN ifetch}
  BY <1>3 DEF Both, ItemCache!Inv, ItemCache!OneFetch
<1>4. Both => Accounted
  BY <1>1, <1>2, <1>3 DEF Accounted, Both, Linked
<1> QED BY <1>4, BothHold, PTL

----------------------------------------------------------------------------
(* What is written to the file leaves the cache.                           *)

LEMMA WritingLeaves ==
  ASSUME Next, NEW i \in Item, file'[i] # file[i], ~pclosed'
  PROVE  PageOf(i) \notin DOMAIN pcache'
<1>1. ASSUME NEW x, LetPageGo(x)
      PROVE  PageOf(i) \notin DOMAIN pcache'
  <2>1. Pages!ReleaseLast(x) /\ WriteBack(phold[x][1])
    BY <1>1 DEF LetPageGo
  <2>2. i \in On(phold[x][1])
    BY <2>1 DEF WriteBack
  <2>3. DOMAIN pcache' = DOMAIN pcache \ {phold[x][1]}
    BY <2>1 DEF Pages!ReleaseLast, Pages!Without
  <2> QED BY <2>2, <2>3 DEF On
<1>2. ~ClosePages
  BY DEF ClosePages, Pages!CloseEmpty, Pages!CloseLetsGo
<1>3. ASSUME NEW r \in Reader,
             \/ \E j \in Item : ReadHit(r, j) \/ ReadMiss(r, j)
             \/ ItemPage(r) \/ ReadFails(r) \/ ItemFetched(r) \/ \E v \in Value : Write(r, v)
      PROVE  FALSE
  BY <1>3 DEF ReadHit, ReadMiss, ItemPage, PageHit, PageMiss, ReadFails, ItemFetched, Write
<1>4. ASSUME \/ \E n \in Inserter : \/ \E p \in Page : InsertPage(n, p)
                                   \/ \E j \in Item, v \in Value : Insert(n, j, v)
             \/ \E x \in PageUser : PageRead(x) \/ PageFetched(x)
      PROVE  FALSE
  BY <1>4 DEF InsertPage, PageHit, PageMiss, Insert, PageRead, PageFetched, vars
<1>5. \/ \E r \in Reader : Release(r)
      \/ \E n \in Inserter : InsertReleases(n)
      \/ CloseItems
  BY <1>2, <1>3, <1>4 DEF Next
<1> QED BY <1>1, <1>5 DEF Release, InsertReleases, CloseItems

(* A page reaches the file only when its last user has let it go: what is  *)
(* changed and not yet logged is never on the disk while the database is   *)
(* open (DataItemImpl.java:52, PageCacheImpl.java:77).                     *)
THEOREM WrittenWhenUnused == Spec => WrittenUnused
<1>1. ASSUME Both', Next, NEW i \in Item, file'[i] # file[i], ~pclosed', NEW x \in DOMAIN phold'
      PROVE  phold'[x][1] # PageOf(i)
  <2>1. phold'[x][1] \in DOMAIN pcache'
    BY <1>1 DEF Both, PageCache!Inv, PageCache!OneObject
  <2> QED BY <1>1, <2>1, WritingLeaves
<1>2. Both' /\ [Next]_vars =>
        [\A i \in Item : file'[i] # file[i] /\ ~pclosed' =>
           \A x \in DOMAIN phold' : phold'[x][1] # PageOf(i)]_vars
  BY <1>1
<1> QED BY <1>2, BothHold, PTL DEF Spec, WrittenUnused

----------------------------------------------------------------------------
(* The two caches of the data manager implement ItemMemory: each of their  *)
(* steps is a step of the memory, seen through Val and Seen, or does not   *)
(* show.                                                                   *)

----------------------------------------------------------------------------
(* What is true of pages: those in the cache have their items, a clean one *)
(* is what the file has, one just read is the file's, and no two of them   *)
(* are one object.                                                         *)

Bytes == Value \cup {Absent}
Content(p) == [data : [On(p) -> Bytes], dirty : BOOLEAN]
Filed(p) == [data |-> [i \in On(p) |-> file[i]], dirty |-> FALSE]

Shape == \A p \in DOMAIN pcache : pcache[p] \in DOMAIN page /\ page[pcache[p]] \in Content(p)
Clean == \A p \in DOMAIN pcache : ~page[pcache[p]].dirty =>
           \A i \in On(p) : page[pcache[p]].data[i] = file[i]
ReadClean == \A x \in DOMAIN read : read[x] \in DOMAIN page /\ page[read[x]] = Filed(pfetch[x])
Distinct ==
  /\ \A p, q \in DOMAIN pcache : p # q => pcache[p] # pcache[q]
  /\ \A x, y \in DOMAIN read : x # y => read[x] # read[y]
  /\ \A p \in DOMAIN pcache, x \in DOMAIN read : pcache[p] # read[x]

PagesRight == file \in [Item -> Bytes] /\ Shape /\ Clean /\ ReadClean /\ Distinct

(* The bytes of a page object stay.                                        *)
Keeps(o) == o \in DOMAIN page' /\ page'[o].data = page[o].data

LEMMA SamePages ==
  ASSUME PagesRight, UNCHANGED <<pcache, read, page, file>>,
         \A x \in DOMAIN read : pfetch'[x] = pfetch[x]
  PROVE  PagesRight' /\ Val' = Val /\ \A o \in DOMAIN page : Keeps(o)
<1>1. Shape' /\ Clean' /\ Distinct' /\ Val' = Val
  BY DEF PagesRight, Shape, Clean, Distinct, Val
<1>2. ReadClean'
  BY DEF PagesRight, ReadClean, Filed
<1> QED BY <1>1, <1>2 DEF PagesRight, Keeps

LEMMA ReadPage ==
  ASSUME FilesOpen, PagesRight, Reading, NEW x \in PageUser, PageRead(x), \A y \in DOMAIN pfetch : pfetch[y] \in Page
  PROVE  PagesRight' /\ Val' = Val /\ \A o \in DOMAIN page \cap UsedPages : Keeps(o)
<1>1. PICK o \in PageObj \ UsedPages : read' = Put(read, x, o) /\ page' = Put(page, o, Filed(pfetch[x]))
  BY DEF PageRead, Filed
<1>2. x \in DOMAIN pfetch /\ x \notin DOMAIN read /\ UNCHANGED <<pcache, pfetch, file>>
  BY DEF PageRead, pvars
<1>3. /\ DOMAIN page' = DOMAIN page \cup {o} /\ page'[o] = Filed(pfetch[x])
      /\ \A e \in DOMAIN page : e # o => page'[e] = page[e]
  BY <1>1 DEF Put
<1>4. /\ DOMAIN read' = DOMAIN read \cup {x} /\ read'[x] = o
      /\ \A y \in DOMAIN read : read'[y] = read[y]
  BY <1>1, <1>2 DEF Put
<1>5. /\ \A p \in DOMAIN pcache : pcache[p] # o
      /\ \A y \in DOMAIN read : read[y] # o
  BY DEF UsedPages
<1>6. Shape'
  BY <1>2, <1>3, <1>5 DEF PagesRight, Shape
<1>7. Clean'
  BY <1>2, <1>3, <1>5 DEF PagesRight, Shape, Clean
<1>8. ReadClean'
  <2>1. \A p : Filed(p)' = Filed(p)
    BY <1>2 DEF Filed
  <2>2. page'[read'[x]] = Filed(pfetch[x]) /\ read'[x] \in DOMAIN page'
    BY <1>3, <1>4
  <2>3. \A y \in DOMAIN read : page'[read'[y]] = Filed(pfetch[y]) /\ read'[y] \in DOMAIN page'
    BY <1>3, <1>4, <1>5 DEF PagesRight, ReadClean
  <2>4. \A y \in DOMAIN read' : /\ read'[y] \in DOMAIN page'
                                /\ page'[read'[y]] = Filed(pfetch[y])
    BY <1>4, <2>2, <2>3
  <2>5. \A y : Filed(pfetch[y])' = Filed(pfetch[y])
    BY <1>2, <2>1
  <2> QED BY <2>4, <2>5 DEF ReadClean
<1>9. Distinct'
  BY <1>2, <1>4, <1>5 DEF PagesRight, Distinct
<1>10. Val' = Val
  BY <1>2, <1>3, <1>5 DEF Val, PagesRight, Shape
<1>11. \A e \in DOMAIN page \cap UsedPages : Keeps(e)
  BY <1>3 DEF Keeps
<1> QED BY <1>2, <1>6, <1>7, <1>8, <1>9, <1>10, <1>11 DEF PagesRight

LEMMA FetchPage ==
  ASSUME PagesRight, Reading, NEW x \in PageUser, PageFetched(x),
         pfetch[x] \notin DOMAIN pcache
  PROVE  PagesRight' /\ Val' = Val /\ \A o \in DOMAIN page : Keeps(o)
<1>1. PICK p : p = pfetch[x]
  OBVIOUS
<1>2. /\ x \in DOMAIN read
      /\ DOMAIN pcache' = DOMAIN pcache \cup {p} /\ pcache'[p] = read[x]
      /\ \A q \in DOMAIN pcache : pcache'[q] = pcache[q]
  BY <1>1 DEF PageFetched, Pages!Fetched, Pages!Put
<1>3. /\ DOMAIN read' = DOMAIN read \ {x}
      /\ \A y \in DOMAIN read' : read'[y] = read[y] /\ pfetch'[y] = pfetch[y]
  BY DEF PageFetched, Pages!Fetched, Without, Pages!Without, Reading
<1>4. page' = page /\ file' = file
  BY DEF PageFetched
<1>5. page[read[x]] = Filed(p) /\ read[x] \in DOMAIN page
  BY <1>1, <1>2 DEF PagesRight, ReadClean
<1>6. Filed(p) \in Content(p)
  BY DEF Filed, Content, PagesRight, On
<1>7. Shape'
  BY <1>2, <1>4, <1>5, <1>6 DEF PagesRight, Shape
<1>8. Clean'
  BY <1>2, <1>4, <1>5 DEF PagesRight, Clean, Filed
<1>9. ReadClean'
  BY <1>3, <1>4 DEF PagesRight, ReadClean, Filed
<1>10. Distinct'
  BY <1>2, <1>3 DEF PagesRight, Distinct
<1>11. Val' = Val
  <2>1. ASSUME NEW i \in Item
        PROVE  Val'[i] = Val[i]
    <3>1. CASE PageOf(i) = p
      <4>1. Val[i] = file[i]
        BY <1>1, <3>1 DEF Val
      <4>2. Val'[i] = page[read[x]].data[i]
        BY <1>2, <1>4, <3>1 DEF Val
      <4> QED BY <1>5, <3>1, <4>1, <4>2 DEF Filed, On
    <3>2. CASE PageOf(i) # p
      BY <1>2, <1>4, <3>2 DEF Val
    <3> QED BY <3>1, <3>2
  <2> QED BY <2>1 DEF Val
<1> QED BY <1>4, <1>7, <1>8, <1>9, <1>10, <1>11 DEF PagesRight, Keeps

(* A page is written to by a user of it.                                   *)
Changes(o, i, v) == page' = [page EXCEPT ![o].data[i] = v, ![o].dirty = TRUE]

LEMMA ChangePage ==
  ASSUME PagesRight, NEW i \in Item, NEW v \in Value, NEW o,
         PageOf(i) \in DOMAIN pcache, o = pcache[PageOf(i)],
         Changes(o, i, v),
         UNCHANGED <<pcache, read, pfetch, file>>
  PROVE  /\ PagesRight'
         /\ Val' = [Val EXCEPT ![i] = v]
         /\ DOMAIN page' = DOMAIN page
         /\ \A e \in DOMAIN page : e # o => page'[e] = page[e]
         /\ page'[o].data = [page[o].data EXCEPT ![i] = v]
         /\ i \in DOMAIN page[o].data
<1>1. o \in DOMAIN page /\ page[o] \in Content(PageOf(i)) /\ i \in On(PageOf(i))
  BY DEF PagesRight, Shape, On
<1>2. page'[o] = [page[o] EXCEPT !.data = [page[o].data EXCEPT ![i] = v], !.dirty = TRUE]
  BY <1>1 DEF Content, Changes
<1>3. /\ DOMAIN page' = DOMAIN page
      /\ \A e \in DOMAIN page : e # o => page'[e] = page[e]
  BY DEF Changes
<1>4. /\ page'[o].data = [page[o].data EXCEPT ![i] = v] /\ page'[o].dirty = TRUE
      /\ page'[o] \in Content(PageOf(i)) /\ DOMAIN page[o].data = On(PageOf(i))
  <2>1. PICK d : d = page[o].data
    OBVIOUS
  <2>2. d \in [On(PageOf(i)) -> Bytes] /\ page[o].dirty \in BOOLEAN
    BY <1>1, <2>1 DEF Content
  <2>3. [d EXCEPT ![i] = v] \in [On(PageOf(i)) -> Bytes]
    BY <2>2 DEF Bytes
  <2>4. page'[o] = [data |-> [d EXCEPT ![i] = v], dirty |-> TRUE]
    BY <1>1, <1>2, <2>1 DEF Content
  <2> QED BY <2>1, <2>2, <2>3, <2>4 DEF Content
<1>5. \A p \in DOMAIN pcache : p # PageOf(i) => pcache[p] # o
  BY DEF PagesRight, Distinct
<1>6. Shape'
  BY <1>1, <1>3, <1>4, <1>5 DEF PagesRight, Shape
<1>7. Clean'
  BY <1>1, <1>3, <1>4, <1>5 DEF PagesRight, Shape, Clean
<1>8. ReadClean'
  <2>1. \A x \in DOMAIN read : read[x] # o
    BY DEF PagesRight, Distinct
  <2> QED BY <1>3, <2>1 DEF PagesRight, ReadClean, Filed
<1>9. Distinct'
  BY DEF PagesRight, Distinct
<1>10. Val' = [Val EXCEPT ![i] = v]
  <2>1. ASSUME NEW j \in Item
        PROVE  Val'[j] = IF j = i THEN v ELSE Val[j]
    <3>1. CASE PageOf(j) = PageOf(i)
      <4>1. Val'[j] = page'[o].data[j] /\ Val[j] = page[o].data[j] /\ j \in On(PageOf(i))
        BY <3>1 DEF Val, On
      <4> QED BY <1>4, <4>1
    <3>2. CASE PageOf(j) \in DOMAIN pcache /\ PageOf(j) # PageOf(i)
      <4>1. pcache[PageOf(j)] # o /\ pcache[PageOf(j)] \in DOMAIN page
        BY <1>5, <3>2 DEF PagesRight, Shape
      <4> QED BY <1>3, <3>2, <4>1 DEF Val
    <3>3. CASE PageOf(j) \notin DOMAIN pcache
      BY <3>3 DEF Val
    <3> QED BY <3>1, <3>2, <3>3
  <2>2. Val' = [j \in Item |-> Val'[j]] /\ DOMAIN Val = Item
    BY DEF Val
  <2> QED BY <2>1, <2>2
<1> QED BY <1>1, <1>3, <1>4, <1>6, <1>7, <1>8, <1>9, <1>10 DEF PagesRight

(* A page leaves the cache.                                                *)
LEMMA WritePage ==
  ASSUME FilesOpen, PagesRight, NEW p \in DOMAIN pcache, WriteBack(p),
         DOMAIN pcache' = DOMAIN pcache \ {p}, \A q \in DOMAIN pcache' : pcache'[q] = pcache[q],
         UNCHANGED <<read, pfetch>>, \A x \in DOMAIN read : pfetch[x] # p
  PROVE  PagesRight' /\ Val' = Val /\ \A o \in DOMAIN page : Keeps(o)
<1>1. PICK o : o = pcache[p]
  OBVIOUS
<1>2. o \in DOMAIN page /\ page[o] \in Content(p)
  BY <1>1 DEF PagesRight, Shape
<1>3. /\ DOMAIN page' = DOMAIN page
      /\ \A e \in DOMAIN page : e # o => page'[e] = page[e]
      /\ page'[o].data = page[o].data
  <2>1. CASE page[o].dirty
    <3>1. page' = [page EXCEPT ![o].dirty = FALSE]
      BY <1>1, <2>1 DEF WriteBack
    <3>2. page'[o] = [page[o] EXCEPT !.dirty = FALSE]
      BY <1>2, <3>1
    <3> QED BY <1>2, <3>1, <3>2 DEF Content
  <2>2. CASE ~page[o].dirty
    BY <1>1, <2>2 DEF WriteBack
  <2> QED BY <2>1, <2>2
<1>4. \A i \in Item : file'[i] = IF i \in On(p) THEN page[o].data[i] ELSE file[i]
  <2>1. CASE page[o].dirty
    BY <1>1, <2>1 DEF WriteBack
  <2>2. CASE ~page[o].dirty
    BY <1>1, <2>2 DEF WriteBack, PagesRight, Clean
  <2> QED BY <2>1, <2>2
<1>5. file' \in [Item -> Bytes]
  <2>1. \A i \in Item : file'[i] \in Bytes
    BY <1>2, <1>4 DEF Content, PagesRight
  <2>2. DOMAIN file' = Item
    BY <1>1 DEF WriteBack, PagesRight
  <2>3. file' = [i \in Item |-> file'[i]]
    BY <1>1, <2>2 DEF WriteBack, PagesRight
  <2> QED BY <2>1, <2>3
<1>6. \A q \in DOMAIN pcache' : q \in DOMAIN pcache /\ q # p /\ pcache[q] # o
  BY <1>1 DEF PagesRight, Distinct
<1>7. \A q : q # p => \A i \in On(q) : i \in Item /\ i \notin On(p)
  BY DEF On
<1>8. Shape'
  BY <1>3, <1>6 DEF PagesRight, Shape
<1>9. Clean'
  <2>1. ASSUME NEW q \in DOMAIN pcache', ~page'[pcache'[q]].dirty, NEW i \in On(q)
        PROVE  page'[pcache'[q]].data[i] = file'[i]
    <3>1. pcache'[q] = pcache[q] /\ page'[pcache[q]] = page[pcache[q]]
      BY <1>3, <1>6 DEF PagesRight, Shape
    <3>2. file'[i] = file[i]
      BY <1>4, <1>6, <1>7
    <3>3. page[pcache[q]].data[i] = file[i]
      BY <1>6, <2>1, <3>1 DEF PagesRight, Clean
    <3> QED BY <3>1, <3>2, <3>3
  <2> QED BY <2>1 DEF Clean
<1>10. ReadClean'
  <2>1. ASSUME NEW x \in DOMAIN read
        PROVE  read[x] \in DOMAIN page' /\ page'[read[x]] = Filed(pfetch[x])'
    <3>1. read[x] \in DOMAIN page /\ page[read[x]] = Filed(pfetch[x]) /\ read[x] # o
      BY <1>1 DEF PagesRight, ReadClean, Distinct
    <3>2. Filed(pfetch[x])' = Filed(pfetch[x])
      BY <1>4, <1>7 DEF Filed
    <3> QED BY <1>3, <3>1, <3>2
  <2> QED BY <2>1 DEF ReadClean
<1>11. Distinct'
  BY <1>6 DEF PagesRight, Distinct
<1>12. Val' = Val
  <2>1. ASSUME NEW i \in Item
        PROVE  Val'[i] = Val[i]
    <3>1. CASE PageOf(i) = p
      <4>1. Val[i] = page[o].data[i] /\ Val'[i] = file'[i] /\ i \in On(p)
        BY <1>1, <3>1 DEF Val, On
      <4> QED BY <1>4, <4>1
    <3>2. CASE PageOf(i) # p /\ PageOf(i) \in DOMAIN pcache
      <4>1. /\ PageOf(i) \in DOMAIN pcache' /\ pcache'[PageOf(i)] = pcache[PageOf(i)]
            /\ page'[pcache[PageOf(i)]] = page[pcache[PageOf(i)]]
        BY <1>3, <1>6, <3>2 DEF PagesRight, Shape
      <4> QED BY <3>2, <4>1 DEF Val
    <3>3. CASE PageOf(i) # p /\ PageOf(i) \notin DOMAIN pcache
      <4>1. i \notin On(p) /\ PageOf(i) \notin DOMAIN pcache'
        BY <3>3 DEF On
      <4> QED BY <1>4, <3>3, <4>1 DEF Val
    <3> QED BY <3>1, <3>2, <3>3
  <2> QED BY <2>1 DEF Val
<1> QED BY <1>3, <1>5, <1>8, <1>9, <1>10, <1>11, <1>12 DEF PagesRight, Keeps

----------------------------------------------------------------------------
(* The steps that do not change what an item is worth.                     *)

Silent == Val' = Val /\ \A o \in DOMAIN page \cap UsedPages : Keeps(o)

(* A page being fetched is not kept.                                       *)
LEMMA FetchedIsNotKept ==
  ASSUME PageCache!Inv
  PROVE  \A x \in DOMAIN pfetch : pfetch[x] \notin DOMAIN pcache /\ pfetch[x] \in Page
BY DEF PageCache!Inv, PageCache!OneFetch, PageCache!TypeOK, PageCache!IsMap

LEMMA SilentLettingGo ==
  ASSUME FilesOpen, PageCache!Inv, Reading, PagesRight, NEW x, LetPageGo(x), read' = read
  PROVE  PagesRight' /\ Silent
<1>1. CASE (Pages!ReleaseShared(x) \/ Pages!ReleaseGone(x)) /\ UNCHANGED <<page, file>>
  BY <1>1, SamePages DEF Pages!ReleaseShared, Pages!ReleaseGone, Silent
<1>2. CASE Pages!ReleaseLast(x) /\ WriteBack(phold[x][1])
  <2>1. PICK p : p = phold[x][1]
    OBVIOUS
  <2>2. p \in DOMAIN pcache
    BY <1>2, <2>1 DEF Pages!ReleaseLast, Pages!IsLastUser, PageCache!Inv, PageCache!Counters
  <2>3. /\ DOMAIN pcache' = DOMAIN pcache \ {p} /\ \A q \in DOMAIN pcache' : pcache'[q] = pcache[q]
        /\ pfetch' = pfetch
    BY <1>2, <2>1 DEF Pages!ReleaseLast, Pages!Without
  <2>4. \A y \in DOMAIN read : pfetch[y] # p
    BY <2>2, FetchedIsNotKept DEF Reading
  <2>5. WriteBack(p)
    BY <1>2, <2>1
  <2> QED BY <2>2, <2>3, <2>4, <2>5, WritePage DEF Silent
<1> QED BY <1>1, <1>2 DEF LetPageGo

LEMMA SilentAsking ==
  ASSUME Reading, PagesRight, NEW x, NEW p, PageHit(x, p) \/ PageMiss(x, p)
  PROVE  PagesRight' /\ Silent
<1>1. UNCHANGED <<pcache, read, page, file>>
  BY DEF PageHit, PageMiss, Pages!GetHit, Pages!GetMiss
<1>2. \A y \in DOMAIN read : pfetch'[y] = pfetch[y]
  BY DEF PageHit, PageMiss, Pages!GetHit, Pages!GetMiss, Pages!MayGet, Pages!Put, Reading
<1> QED BY <1>1, <1>2, SamePages DEF Silent

(* What is silent about a user of items.                                   *)
Quietly(r) ==
  \/ \E i \in Item : ReadHit(r, i) \/ ReadMiss(r, i)
  \/ ItemPage(r) \/ ReadFails(r) \/ ItemFetched(r) \/ Release(r)

(* What is silent, whoever does it.                                        *)
Hidden ==
  \/ \E n \in Inserter : InsertReleases(n) \/ \E p \in Page : InsertPage(n, p)
  \/ \E x \in PageUser : PageRead(x) \/ PageFetched(x)
  \/ CloseItems \/ ClosePages \/ UNCHANGED vars

LEMMA SilentReader ==
  ASSUME Both, FilesOpen, PagesRight, NEW r \in Reader, Quietly(r)
  PROVE  PagesRight' /\ Silent
<1>1. PageCache!Inv /\ Reading
  BY DEF Both
<1>2. CASE UNCHANGED <<pcache, pfetch, read, page, file>>
  BY <1>2, SamePages DEF Silent
<1>3. ASSUME NEW i \in Item, ReadHit(r, i) \/ ReadMiss(r, i)
      PROVE  PagesRight' /\ Silent
  BY <1>2, <1>3 DEF ReadHit, ReadMiss, pvars
<1>4. CASE ItemPage(r)
  BY <1>1, <1>4, SilentAsking DEF ItemPage
<1>5. CASE ReadFails(r)
  BY <1>2, <1>5 DEF ReadFails, Pages!GetFull, Pages!vars
<1>6. CASE ItemFetched(r)
  BY <1>2, <1>6 DEF ItemFetched, pvars
<1>7. CASE Release(r)
  <2>1. CASE UNCHANGED <<pvars, page, file>>
    BY <1>2, <1>7, <2>1 DEF Release, pvars
  <2>2. CASE LetPageGo(ihold[r][1])
    BY <1>1, <1>7, <2>2, SilentLettingGo DEF Release
  <2> QED BY <1>7, <2>1, <2>2 DEF Release
<1> QED BY <1>3, <1>4, <1>5, <1>6, <1>7 DEF Quietly

LEMMA SilentOthers ==
  ASSUME Both, FilesOpen, PagesRight, Hidden
  PROVE  PagesRight' /\ Silent
<1>1. PageCache!Inv /\ Reading
  BY DEF Both
<1>2. CASE UNCHANGED <<pcache, pfetch, read, page, file>>
  BY <1>2, SamePages DEF Silent
<1>3. CASE UNCHANGED vars
  BY <1>2, <1>3 DEF vars, pvars
<1>4. ASSUME NEW n \in Inserter, InsertReleases(n)
      PROVE  PagesRight' /\ Silent
  BY <1>1, <1>4, SilentLettingGo DEF InsertReleases
<1>5. ASSUME NEW n \in Inserter, NEW p \in Page, InsertPage(n, p)
      PROVE  PagesRight' /\ Silent
  BY <1>1, <1>3, <1>5, SilentAsking DEF InsertPage
<1>6. ASSUME NEW x \in PageUser, PageRead(x)
      PROVE  PagesRight' /\ Silent
  BY <1>1, <1>6, ReadPage, FetchedIsNotKept DEF Silent
<1>7. ASSUME NEW x \in PageUser, PageFetched(x)
      PROVE  PagesRight' /\ Silent
  <2>1. pfetch[x] \notin DOMAIN pcache
    BY <1>1, <1>7, FetchedIsNotKept DEF PageFetched, Pages!Fetched
  <2> QED BY <1>1, <1>7, <2>1, FetchPage DEF Silent
<1>8. CASE CloseItems
  BY <1>1, <1>2, <1>8, SilentLettingGo DEF CloseItems, pvars
<1>9. CASE ClosePages
  <2>1. CASE Pages!CloseEmpty /\ UNCHANGED <<page, file>>
    BY <1>2, <1>9, <2>1 DEF ClosePages, Pages!CloseEmpty
  <2>2. ASSUME NEW p \in DOMAIN pcache, Pages!CloseLetsGo(p), WriteBack(p)
        PROVE  PagesRight' /\ Silent
    <3>1. /\ DOMAIN pcache' = DOMAIN pcache \ {p} /\ \A q \in DOMAIN pcache' : pcache'[q] = pcache[q]
          /\ pfetch' = pfetch
      BY <2>2 DEF Pages!CloseLetsGo, Pages!Without
    <3>2. read' = read
      BY <1>9 DEF ClosePages
    <3>3. \A y \in DOMAIN read : pfetch[y] # p
      BY <1>1, FetchedIsNotKept DEF Reading
    <3> QED BY <2>2, <3>1, <3>2, <3>3, WritePage DEF Silent
  <2> QED BY <1>9, <2>1, <2>2 DEF ClosePages
<1> QED BY <1>3, <1>4, <1>5, <1>6, <1>7, <1>8, <1>9 DEF Hidden

----------------------------------------------------------------------------
(* An item asks for its own page.                                          *)

Asked ==
  /\ \A i \in DOMAIN pfetch \cap Item : pfetch[i] = PageOf(i)
  /\ \A i \in DOMAIN phold \cap Item : phold[i][1] = PageOf(i)

LEMMA LettingGoKeeps ==
  ASSUME NEW x, LetPageGo(x)
  PROVE  pfetch' = pfetch /\ \A y \in DOMAIN phold' : y \in DOMAIN phold /\ phold'[y] = phold[y]
BY DEF LetPageGo, Pages!ReleaseShared, Pages!ReleaseGone, Pages!ReleaseLast, Pages!Without

LEMMA AskingKeeps ==
  ASSUME NEW x, NEW p, PageHit(x, p) \/ PageMiss(x, p)
  PROVE  /\ \A y \in DOMAIN phold : y \in DOMAIN phold' /\ phold'[y] = phold[y]
         /\ \A y \in DOMAIN phold' : y \in DOMAIN phold \/ (y = x /\ phold'[y][1] = p)
         /\ \A y \in DOMAIN pfetch' : (y \in DOMAIN pfetch /\ pfetch'[y] = pfetch[y])
                                     \/ (y = x /\ pfetch'[y] = p)
         /\ UNCHANGED <<ivars, read, pageOf, page, file, inserted, known>>
BY DEF PageHit, PageMiss, Pages!GetHit, Pages!GetMiss, Pages!MayGet, Pages!Put

LEMMA AskedInductive ==
  ASSUME Both, Asked, [Next]_vars
  PROVE  Asked'
<1> USE DEF Asked
<1>1. CASE UNCHANGED <<pfetch, phold>>
  BY <1>1
<1>2. ASSUME NEW x, LetPageGo(x)
      PROVE  Asked'
  BY <1>2, LettingGoKeeps
<1>3. ASSUME NEW r \in Reader, ItemPage(r)
      PROVE  Asked'
  BY <1>3, AskingKeeps DEF ItemPage
<1>4. ASSUME NEW n \in Inserter, NEW p \in Page, InsertPage(n, p)
      PROVE  Asked'
  <2>1. CASE PageHit(n, p) \/ PageMiss(n, p)
    BY <2>1, AskingKeeps, UsersAreDistinct
  <2>2. CASE UNCHANGED vars
    BY <1>1, <2>2 DEF vars, pvars
  <2> QED BY <1>4, <2>1, <2>2 DEF InsertPage
<1>5. ASSUME NEW x \in PageUser, PageFetched(x)
      PROVE  Asked'
  <2>1. /\ \A y \in DOMAIN pfetch' : y \in DOMAIN pfetch /\ pfetch'[y] = pfetch[y]
        /\ \A y \in DOMAIN phold' : (y \in DOMAIN phold /\ phold'[y] = phold[y])
                                   \/ (y = x /\ phold'[y][1] = pfetch[x])
        /\ x \in DOMAIN pfetch
    BY <1>5 DEF PageFetched, Pages!Fetched, Pages!Put, Pages!Without
  <2> QED BY <2>1
<1>6. ASSUME NEW r \in Reader,
             \/ \E i \in Item : ReadHit(r, i) \/ ReadMiss(r, i)
             \/ ReadFails(r) \/ ItemFetched(r) \/ Release(r) \/ \E v \in Value : Write(r, v)
      PROVE  Asked'
  BY <1>1, <1>2, <1>6 DEF ReadHit, ReadMiss, ReadFails, ItemFetched, Release, Write, Pages!GetFull,
                          Pages!vars, pvars
<1>7. ASSUME \/ \E n \in Inserter : InsertReleases(n) \/ \E i \in Item, v \in Value : Insert(n, i, v)
             \/ \E x \in PageUser : PageRead(x)
             \/ CloseItems \/ ClosePages \/ UNCHANGED vars
      PROVE  Asked'
  BY <1>1, <1>2, <1>7 DEF InsertReleases, Insert, PageRead, CloseItems, ClosePages, Pages!CloseEmpty,
                          Pages!CloseLetsGo, vars, pvars
<1> QED BY <1>3, <1>4, <1>5, <1>6, <1>7 DEF Next

----------------------------------------------------------------------------
(* An item in memory is a window on its page in memory.                    *)

Opened == Open /\ ~iclosed /\ ~pclosed /\ stage = "items"

Windows ==
  /\ \A i \in DOMAIN icache : icache[i] \in DOMAIN pageOf /\ pageOf[icache[i]] = phold[i][2]
  /\ \A r \in DOMAIN ihold : ihold[r][2] \in DOMAIN pageOf /\ pageOf[ihold[r][2]] \in DOMAIN page

LEMMA CallsOfClose ==
  ASSUME [Next]_vars
  PROVE  \/ CloseItems /\ closes' = closes + 1
         \/ ClosePages /\ closes' = closes
         \/ UNCHANGED <<closes, stage>>
BY DEF Next, CloseItems, ClosePages, vars, ReadHit, ReadMiss, ItemPage, PageHit, PageMiss, ReadFails,
       ItemFetched, Release, Write, InsertPage, Insert, InsertReleases, PageRead, PageFetched

(* Nothing but close closes the caches, and close begins with the items.   *)
LEMMA OpenedStays ==
  ASSUME Opened, [Next]_vars, Open'
  PROVE  Opened' /\ ~CloseItems /\ ~ClosePages
<1>1. ~CloseItems
  BY DEF Opened, Open, CloseItems
<1>2. ~ClosePages
  BY DEF Opened, ClosePages
<1>3. stage' = stage
  BY <1>1, <1>2, CallsOfClose
<1>4. ASSUME NEW x, LetPageGo(x)
      PROVE  pclosed' = pclosed
  BY <1>4 DEF LetPageGo, Pages!ReleaseShared, Pages!ReleaseGone, Pages!ReleaseLast
<1>5. ASSUME NEW x, NEW p, PageHit(x, p) \/ PageMiss(x, p)
      PROVE  UNCHANGED <<pclosed, iclosed>>
  BY <1>5 DEF PageHit, PageMiss, Pages!GetHit, Pages!GetMiss, ivars
<1>6. ASSUME NEW r \in Reader, Quietly(r) \/ \E v \in Value : Write(r, v)
      PROVE  UNCHANGED <<pclosed, iclosed>>
  <2>1. CASE ItemPage(r)
    BY <1>5, <2>1 DEF ItemPage
  <2>2. CASE Release(r)
    BY <1>4, <2>2 DEF Release, Items!ReleaseShared, Items!ReleaseGone, Items!ReleaseLast, pvars
  <2>3. CASE \/ \E i \in Item : ReadHit(r, i) \/ ReadMiss(r, i)
             \/ ReadFails(r) \/ ItemFetched(r) \/ \E v \in Value : Write(r, v)
    BY <2>3 DEF ReadHit, ReadMiss, ReadFails, ItemFetched, Write, Items!GetHit, Items!GetMiss,
                Items!FetchFails, Items!Fetched, Pages!GetFull, Pages!vars, pvars, ivars
  <2> QED BY <1>6, <2>1, <2>2, <2>3 DEF Quietly
<1>7. ASSUME NEW n \in Inserter, NEW p \in Page, InsertPage(n, p)
      PROVE  UNCHANGED <<pclosed, iclosed>>
  BY <1>5, <1>7 DEF InsertPage, vars, ivars, pvars
<1>8. ASSUME \/ \E n \in Inserter : InsertReleases(n) \/ \E i \in Item, v \in Value : Insert(n, i, v)
             \/ \E x \in PageUser : PageRead(x) \/ PageFetched(x)
             \/ UNCHANGED vars
      PROVE  UNCHANGED <<pclosed, iclosed>>
  BY <1>4, <1>8 DEF InsertReleases, Insert, PageRead, PageFetched, Pages!Fetched, vars, ivars, pvars
<1>9. UNCHANGED <<pclosed, iclosed>>
  BY <1>1, <1>2, <1>6, <1>7, <1>8 DEF Next, Quietly
<1> QED BY <1>1, <1>2, <1>3, <1>9 DEF Opened

(* Who uses a page has what is kept for it.                                *)
LEMMA HeldPages ==
  ASSUME PageCache!Inv, PagesRight, ~pclosed, NEW x \in DOMAIN phold
  PROVE  /\ phold[x][1] \in DOMAIN pcache /\ pcache[phold[x][1]] = phold[x][2]
         /\ phold[x][2] \in DOMAIN page
BY DEF PageCache!Inv, PageCache!OneObject, PagesRight, Shape

(* No page object is forgotten while it may be used.                       *)
LEMMA PagesStay ==
  ASSUME [Next]_vars
  PROVE  DOMAIN page \subseteq DOMAIN page'
<1>1. CASE page' = page
  BY <1>1
<1>2. ASSUME NEW p, WriteBack(p)
      PROVE  DOMAIN page' = DOMAIN page
  BY <1>2 DEF WriteBack
<1>3. ASSUME NEW x, LetPageGo(x)
      PROVE  DOMAIN page' = DOMAIN page
  BY <1>2, <1>3 DEF LetPageGo
<1>4. ASSUME NEW r \in Reader, Quietly(r) \/ \E v \in Value : Write(r, v)
      PROVE  DOMAIN page \subseteq DOMAIN page'
  BY <1>1, <1>3, <1>4 DEF Quietly, ReadHit, ReadMiss, ItemPage, PageHit, PageMiss, ReadFails, ItemFetched,
                          Release, Write
<1>5. ASSUME NEW n \in Inserter,
             \/ InsertReleases(n) \/ \E p \in Page : InsertPage(n, p)
             \/ \E i \in Item, v \in Value : Insert(n, i, v)
      PROVE  DOMAIN page \subseteq DOMAIN page'
  BY <1>1, <1>3, <1>5 DEF InsertReleases, InsertPage, Insert, PageHit, PageMiss, vars
<1>6. ASSUME NEW x \in PageUser, PageRead(x) \/ PageFetched(x)
      PROVE  DOMAIN page \subseteq DOMAIN page'
  BY <1>1, <1>6 DEF PageRead, PageFetched, Put
<1>7. CASE CloseItems \/ ClosePages \/ UNCHANGED vars
  BY <1>1, <1>2, <1>3, <1>7 DEF CloseItems, ClosePages, vars
<1> QED BY <1>4, <1>5, <1>6, <1>7 DEF Next, Quietly

LEMMA WindowsStay ==
  ASSUME Windows, UNCHANGED <<icache, ihold, pageOf>>, DOMAIN page \subseteq DOMAIN page',
         \A i \in DOMAIN icache : phold'[i] = phold[i]
  PROVE  Windows'
BY DEF Windows

LEMMA WindowsInductive ==
  ASSUME Both, Opened, PagesRight, Asked, Windows, [Next]_vars, Open'
  PROVE  Windows'
<1>1. DOMAIN page \subseteq DOMAIN page'
  BY PagesStay
<1>2. DOMAIN icache \subseteq DOMAIN phold \cap Item
  BY DEF Both, Linked
<1>3. \A x \in DOMAIN phold : phold[x][2] \in DOMAIN page
  BY HeldPages DEF Opened, Both
<1>4. CASE UNCHANGED <<icache, ihold, pageOf, phold>>
  BY <1>1, <1>4, WindowsStay
<1>5. ASSUME NEW x, NEW p, PageHit(x, p) \/ PageMiss(x, p)
      PROVE  Windows'
  <2>1. \A y \in DOMAIN phold : phold'[y] = phold[y]
    BY <1>5, AskingKeeps
  <2>2. UNCHANGED <<icache, ihold, pageOf>>
    BY <1>5, AskingKeeps DEF ivars
  <2> QED BY <1>1, <1>2, <2>1, <2>2, WindowsStay
<1>6. ASSUME NEW r \in Reader, NEW i \in Item, ReadHit(r, i)
      PROVE  Windows'
  <2>1. /\ i \in DOMAIN icache
        /\ DOMAIN ihold' = DOMAIN ihold \cup {r} /\ ihold'[r][2] = icache[i]
        /\ \A s \in DOMAIN ihold : s # r => ihold'[s] = ihold[s]
        /\ UNCHANGED <<icache, phold, pageOf, page>>
    BY <1>6 DEF ReadHit, Items!GetHit, Items!Put, pvars
  <2>2. pageOf[icache[i]] \in DOMAIN page
    BY <1>2, <1>3, <2>1 DEF Windows
  <2> QED BY <2>1, <2>2 DEF Windows
<1>7. ASSUME NEW r \in Reader, ItemFetched(r)
      PROVE  Windows'
  <2>1. PICK i : i = ifetch[r]
    OBVIOUS
  <2>2. PICK o \in ItemObj \ UsedItems :
          Items!Fetched(r, o) /\ pageOf' = Put(pageOf, o, PageUsed(i))
    BY <1>7, <2>1 DEF ItemFetched
  <2>3. /\ DOMAIN icache' = DOMAIN icache \cup {i} /\ icache'[i] = o
        /\ \A j \in DOMAIN icache : j # i => icache'[j] = icache[j]
        /\ DOMAIN ihold' = DOMAIN ihold \cup {r} /\ ihold'[r][2] = o
        /\ \A s \in DOMAIN ihold : s # r => ihold'[s] = ihold[s]
    BY <2>1, <2>2 DEF Items!Fetched, Items!Put
  <2>4. /\ DOMAIN pageOf' = DOMAIN pageOf \cup {o} /\ pageOf'[o] = phold[i][2]
        /\ \A e \in DOMAIN pageOf : e # o => pageOf'[e] = pageOf[e]
    BY <2>2 DEF Put, PageUsed
  <2>5. i \in DOMAIN phold /\ UNCHANGED <<phold, page>>
    BY <1>7, <2>1 DEF ItemFetched, pvars
  <2>6. /\ \A j \in DOMAIN icache : icache[j] # o
        /\ \A s \in DOMAIN ihold : ihold[s][2] # o
    BY <2>2 DEF UsedItems
  <2>7. phold[i][2] \in DOMAIN page
    BY <1>3, <2>5
  <2> QED BY <2>3, <2>4, <2>5, <2>6, <2>7 DEF Windows
<1>8. ASSUME NEW r \in Reader, Release(r)
      PROVE  Windows'
  <2>1. /\ \A o \in UsedItems' \cap DOMAIN pageOf : o \in DOMAIN pageOf' /\ pageOf'[o] = pageOf[o]
        /\ (\A i \in DOMAIN icache' : icache'[i] \in UsedItems')
        /\ (\A s \in DOMAIN ihold' : ihold'[s][2] \in UsedItems')
    BY <1>8 DEF Release, UsedItems
  <2>2. /\ \A i \in DOMAIN icache' : i \in DOMAIN icache /\ icache'[i] = icache[i]
        /\ \A s \in DOMAIN ihold' : s \in DOMAIN ihold /\ ihold'[s] = ihold[s]
    BY <1>8 DEF Release, Items!ReleaseShared, Items!ReleaseGone, Items!ReleaseLast, Items!Without
  <2>3. \A i \in DOMAIN icache' : phold'[i] = phold[i]
    <3>1. CASE UNCHANGED pvars
      BY <3>1 DEF pvars
    <3>2. CASE Items!ReleaseLast(r) /\ LetPageGo(ihold[r][1])
      <4>1. PICK j : j = ihold[r][1]
        OBVIOUS
      <4>2. DOMAIN icache' = DOMAIN icache \ {j}
        BY <3>2, <4>1 DEF Items!ReleaseLast, Items!Without
      <4>3. DOMAIN phold' = DOMAIN phold \ {j} /\ \A y \in DOMAIN phold' : phold'[y] = phold[y]
        BY <3>2, <4>1, LettingGoKeeps, LettingGoLeaves
      <4> QED BY <1>2, <4>2, <4>3
    <3> QED BY <1>8, <3>1, <3>2 DEF Release
  <2>4. \A i \in DOMAIN icache' : icache'[i] \in DOMAIN pageOf' /\ pageOf'[icache'[i]] = phold'[i][2]
    BY <2>1, <2>2, <2>3 DEF Windows
  <2>5. \A s \in DOMAIN ihold' : ihold'[s][2] \in DOMAIN pageOf' /\ pageOf'[ihold'[s][2]] \in DOMAIN page'
    BY <1>1, <2>1, <2>2 DEF Windows
  <2> QED BY <2>4, <2>5 DEF Windows
<1>9. ASSUME NEW n \in Inserter, InsertReleases(n)
      PROVE  Windows'
  <2>1. \A i \in DOMAIN icache : i # n /\ i \in DOMAIN phold
    BY <1>2, UsersAreDistinct
  <2>2. DOMAIN phold' = DOMAIN phold \ {n} /\ \A y \in DOMAIN phold' : phold'[y] = phold[y]
    BY <1>9, LettingGoKeeps, LettingGoLeaves DEF InsertReleases
  <2>3. UNCHANGED <<icache, ihold, pageOf>>
    BY <1>9 DEF InsertReleases, ivars
  <2> QED BY <1>1, <2>1, <2>2, <2>3, WindowsStay
<1>10. ASSUME NEW x \in PageUser, PageFetched(x)
       PROVE  Windows'
  <2>1. x \in DOMAIN pfetch /\ x \notin DOMAIN phold
    BY <1>10 DEF PageFetched, Pages!Fetched, Both, PageCache!Inv, PageCache!TypeOK
  <2>2. \A y \in DOMAIN phold : y # x => phold'[y] = phold[y]
    BY <1>10 DEF PageFetched, Pages!Fetched, Pages!Put
  <2>3. UNCHANGED <<icache, ihold, pageOf>>
    BY <1>10 DEF PageFetched, ivars
  <2> QED BY <1>1, <1>2, <2>1, <2>2, <2>3, WindowsStay
<1>11. ~CloseItems /\ ~ClosePages
  BY OpenedStays
<1>13. ASSUME \/ \E r \in Reader : \/ \E i \in Item : ReadMiss(r, i)
                                   \/ ReadFails(r) \/ \E v \in Value : Write(r, v)
              \/ \E n \in Inserter, i \in Item, v \in Value : Insert(n, i, v)
              \/ \E x \in PageUser : PageRead(x)
              \/ UNCHANGED vars
       PROVE  Windows'
  BY <1>4, <1>13 DEF ReadMiss, Items!GetMiss, ReadFails, Items!FetchFails, Pages!GetFull, Pages!vars,
                     Write, Insert, PageRead, vars, ivars, pvars
<1>14. ASSUME NEW r \in Reader, ItemPage(r)
       PROVE  Windows'
  BY <1>5, <1>14 DEF ItemPage
<1>15. ASSUME NEW n \in Inserter, NEW p \in Page, InsertPage(n, p)
       PROVE  Windows'
  BY <1>5, <1>13, <1>15 DEF InsertPage
<1> QED BY <1>6, <1>7, <1>8, <1>9, <1>10, <1>11, <1>13, <1>14, <1>15 DEF Next

----------------------------------------------------------------------------
(* Who has an item sees its value, and an item that somebody may have has  *)
(* one.                                                                    *)

Present ==
  /\ known \subseteq Item
  /\ \A r \in DOMAIN ifetch : ifetch[r] \in known
  /\ \A r \in DOMAIN ihold : ihold[r][1] \in known
  /\ \A n \in DOMAIN inserted : inserted[n] \in Item /\ Val[inserted[n]] # Absent
  /\ \A i \in known : Val[i] # Absent

Right == Both /\ Opened /\ PagesRight /\ Asked /\ Windows /\ Present

(* The window of an item is on the page that is kept.                      *)
LEMMA WindowIsKept ==
  ASSUME Right
  PROVE  /\ \A i \in DOMAIN icache : /\ i \in Item /\ PageOf(i) \in DOMAIN pcache
                                    /\ pageOf[icache[i]] = pcache[PageOf(i)]
         /\ \A r \in DOMAIN ihold : /\ ihold[r][1] \in DOMAIN icache
                                   /\ icache[ihold[r][1]] = ihold[r][2]
<1>1. ~pclosed
  BY DEF Right, Opened
<1>2. ASSUME NEW i \in DOMAIN icache
      PROVE  i \in Item /\ PageOf(i) \in DOMAIN pcache /\ pageOf[icache[i]] = pcache[PageOf(i)]
  <2>1. i \in Item /\ i \in DOMAIN phold
    BY <1>2 DEF Right, Both, Linked
  <2>2. phold[i][1] = PageOf(i) /\ pageOf[icache[i]] = phold[i][2]
    BY <2>1 DEF Right, Asked, Windows
  <2>3. PageCache!Inv /\ PagesRight
    BY DEF Right, Both
  <2>4. phold[i][1] \in DOMAIN pcache /\ pcache[phold[i][1]] = phold[i][2]
    BY <1>1, <2>1, <2>3, HeldPages
  <2> QED BY <2>1, <2>2, <2>4
<1>3. \A r \in DOMAIN ihold : ihold[r][1] \in DOMAIN icache /\ icache[ihold[r][1]] = ihold[r][2]
  BY DEF Right, Both, Opened, ItemCache!Inv, ItemCache!OneObject
<1> QED BY <1>2, <1>3

LEMMA SeenIsVal ==
  ASSUME Right
  PROVE  /\ \A r \in DOMAIN ihold : Seen[r] = <<ihold[r][1], Val[ihold[r][1]]>>
         /\ \A i \in DOMAIN icache : page[pageOf[icache[i]]].data[i] = Val[i]
<1>1. \A i \in DOMAIN icache : page[pageOf[icache[i]]].data[i] = Val[i]
  BY WindowIsKept DEF Val
<1>2. \A r \in DOMAIN ihold : page[pageOf[ihold[r][2]]].data[ihold[r][1]] = Val[ihold[r][1]]
  BY <1>1, WindowIsKept
<1> QED BY <1>1, <1>2 DEF Seen

(* A change of an item shows to those who have it and to nobody else.      *)
LEMMA ChangeShows ==
  ASSUME Right, NEW i \in Item, NEW v \in Value, NEW o,
         PageOf(i) \in DOMAIN pcache, o = pcache[PageOf(i)],
         Changes(o, i, v),
         UNCHANGED <<pcache, read, pfetch, file, ihold, pageOf>>
  PROVE  /\ PagesRight'
         /\ Val' = [Val EXCEPT ![i] = v]
         /\ Seen' = [r \in DOMAIN Seen |-> IF Seen[r][1] = i THEN <<i, v>> ELSE Seen[r]]
<1>1. /\ PagesRight'
      /\ Val' = [Val EXCEPT ![i] = v]
      /\ \A e \in DOMAIN page : e # o => page'[e] = page[e]
      /\ page'[o].data = [page[o].data EXCEPT ![i] = v]
      /\ i \in DOMAIN page[o].data
  <2>1. PagesRight
    BY DEF Right
  <2>2. UNCHANGED <<pcache, read, pfetch, file>>
    OBVIOUS
  <2> QED BY <2>1, <2>2, ChangePage
<1>2. ASSUME NEW r \in DOMAIN ihold
      PROVE  page'[pageOf[ihold[r][2]]].data[ihold[r][1]] =
               IF ihold[r][1] = i THEN v ELSE page[pageOf[ihold[r][2]]].data[ihold[r][1]]
  <2>1. PICK j, e : j = ihold[r][1] /\ e = pageOf[ihold[r][2]]
    OBVIOUS
  <2>2. j \in Item /\ PageOf(j) \in DOMAIN pcache /\ e = pcache[PageOf(j)]
    BY <2>1, WindowIsKept
  <2>3. e \in DOMAIN page
    BY <2>1 DEF Right, Windows
  <2>4. page'[e].data[j] = IF j = i THEN v ELSE page[e].data[j]
    <3>1. CASE e = o
      <4>1. j \in DOMAIN page[o].data
        <5>1. page[o] \in Content(PageOf(j))
          BY <2>2, <3>1 DEF Right, PagesRight, Shape
        <5>2. j \in On(PageOf(j))
          BY <2>2 DEF On
        <5> QED BY <5>1, <5>2 DEF Content
      <4>2. page'[o].data[j] = IF j = i THEN v ELSE page[o].data[j]
        BY <1>1, <4>1
      <4> QED BY <3>1, <4>2
    <3>2. CASE e # o
      <4>1. j # i
        BY <2>2, <3>2
      <4> QED BY <1>1, <2>3, <3>2, <4>1
    <3> QED BY <3>1, <3>2
  <2> QED BY <2>1, <2>4
<1>3. Seen' = [r \in DOMAIN ihold |-> <<ihold[r][1], page'[pageOf[ihold[r][2]]].data[ihold[r][1]]>>]
  BY DEF Seen
<1>4. Seen' = [r \in DOMAIN ihold |-> IF ihold[r][1] = i THEN <<i, v>> ELSE Seen[r]]
  <2>1. ASSUME NEW r \in DOMAIN ihold
        PROVE  <<ihold[r][1], page'[pageOf[ihold[r][2]]].data[ihold[r][1]]>> =
                 IF ihold[r][1] = i THEN <<i, v>> ELSE Seen[r]
    BY <1>2 DEF Seen
  <2> QED BY <1>3, <2>1
<1>5. DOMAIN Seen = DOMAIN ihold /\ \A r \in DOMAIN ihold : Seen[r][1] = ihold[r][1]
  BY DEF Seen
<1> QED BY <1>1, <1>4, <1>5

(* What stays as it is shows as it did.                                    *)
Unseen == Val' = Val /\ Seen' = Seen

LEMMA NothingShows ==
  ASSUME Right, Silent, UNCHANGED <<ihold, pageOf>>
  PROVE  Unseen
<1>1. ASSUME NEW r \in DOMAIN ihold
      PROVE  page'[pageOf[ihold[r][2]]].data = page[pageOf[ihold[r][2]]].data
  BY DEF Right, Windows, Silent, Keeps, UsedPages
<1> QED BY <1>1 DEF Seen, Silent, Unseen

----------------------------------------------------------------------------
(* The steps that show.                                                    *)

LEMMA WriteShows ==
  ASSUME Right, NEW r \in Reader, NEW v \in Value, Write(r, v)
  PROVE  PagesRight' /\ Present' /\ Memory!Change(r, v)
<1>1. PICK i, o : i = ihold[r][1] /\ o = pageOf[ihold[r][2]]
  OBVIOUS
<1>2. r \in DOMAIN ihold /\ Changes(o, i, v)
  BY <1>1 DEF Write, Changes
<1>3. i \in Item /\ PageOf(i) \in DOMAIN pcache /\ o = pcache[PageOf(i)]
  BY <1>1, <1>2, WindowIsKept
<1>4. UNCHANGED <<pcache, read, pfetch, file, ihold, pageOf, known, inserted, ifetch>>
  BY DEF Write, ivars, pvars
<1>5. /\ PagesRight'
      /\ Val' = [Val EXCEPT ![i] = v]
      /\ Seen' = [s \in DOMAIN Seen |-> IF Seen[s][1] = i THEN <<i, v>> ELSE Seen[s]]
  BY <1>2, <1>3, <1>4, ChangeShows
<1>6. Present'
  <2>1. DOMAIN Val = Item /\ v # Absent
    BY AbsentIsNoValue DEF Val
  <2>2. \A j \in Item : Val[j] # Absent => Val'[j] # Absent
    BY <1>5, <2>1
  <2> QED BY <1>4, <2>2 DEF Right, Present
<1>7. Memory!Change(r, v)
  <2>1. r \in DOMAIN Seen /\ Seen[r][1] = i
    BY <1>1, <1>2 DEF Seen
  <2> QED BY <1>5, <2>1 DEF Memory!Change
<1> QED BY <1>5, <1>6, <1>7

LEMMA InsertShows ==
  ASSUME Right, NEW n \in Inserter, NEW i \in Item, NEW v \in Value, Insert(n, i, v)
  PROVE  PagesRight' /\ Present' /\ Memory!Insert(i, v)
<1>1. PICK o : o = PageUsed(n)
  OBVIOUS
<1>2. n \in DOMAIN phold /\ phold[n][1] = PageOf(i) /\ Changes(o, i, v)
  BY <1>1 DEF Insert, Changes
<1>3. PageOf(i) \in DOMAIN pcache /\ o = pcache[PageOf(i)]
  <2>1. ~pclosed /\ PageCache!Inv /\ PagesRight
    BY DEF Right, Both, Opened
  <2> QED BY <1>1, <1>2, <2>1, HeldPages DEF PageUsed
<1>4. UNCHANGED <<pcache, read, pfetch, file, ihold, pageOf, known, ifetch>>
  BY DEF Insert, ivars, pvars
<1>5. /\ PagesRight'
      /\ Val' = [Val EXCEPT ![i] = v]
      /\ Seen' = [s \in DOMAIN Seen |-> IF Seen[s][1] = i THEN <<i, v>> ELSE Seen[s]]
  BY <1>2, <1>3, <1>4, ChangeShows
<1>6. Val[i] = Absent
  BY <1>1, <1>3 DEF Insert, Val
<1>7. Present'
  <2>1. DOMAIN Val = Item /\ v # Absent
    BY AbsentIsNoValue DEF Val
  <2>2. (\A j \in Item : Val[j] # Absent => Val'[j] # Absent) /\ Val'[i] # Absent
    BY <1>5, <2>1
  <2>3. /\ DOMAIN inserted' = DOMAIN inserted \cup {n} /\ inserted'[n] = i
        /\ \A m \in DOMAIN inserted : m # n => inserted'[m] = inserted[m]
    BY DEF Insert, Put
  <2> QED BY <1>4, <2>2, <2>3 DEF Right, Present
<1>8. Memory!Insert(i, v)
  <2>1. \A s \in DOMAIN ihold : Seen[s][1] # i
    BY <1>6 DEF Seen, Right, Present
  <2>2. Seen' = [s \in DOMAIN ihold |-> Seen[s]]
    BY <1>5, <2>1 DEF Seen
  <2>3. Seen' = Seen
    BY <2>2 DEF Seen
  <2> QED BY <1>5, <1>6, <2>3 DEF Memory!Insert
<1> QED BY <1>5, <1>7, <1>8

LEMMA HitShows ==
  ASSUME Right, NEW r \in Reader, NEW i \in Item, ReadHit(r, i)
  PROVE  Memory!Take(r, i)
<1>1. /\ i \in DOMAIN icache /\ r \notin DOMAIN ihold
      /\ DOMAIN ihold' = DOMAIN ihold \cup {r} /\ ihold'[r] = <<i, icache[i]>>
      /\ \A s \in DOMAIN ihold : ihold'[s] = ihold[s]
      /\ UNCHANGED <<pcache, pageOf, page, file>>
  BY DEF ReadHit, Items!GetHit, Items!MayGet, Items!Put, pvars
<1>2. page[pageOf[icache[i]]].data[i] = Val[i]
  BY <1>1, SeenIsVal
<1>3. /\ DOMAIN Seen' = DOMAIN Seen \cup {r} /\ Seen'[r] = <<i, Val[i]>>
      /\ \A s \in DOMAIN Seen : Seen'[s] = Seen[s]
  BY <1>1, <1>2 DEF Seen
<1>4. Seen' = Memory!Put(Seen, r, <<i, Val[i]>>)
  <2>1. Seen' = [s \in DOMAIN Seen' |-> Seen'[s]]
    BY DEF Seen
  <2>2. r \notin DOMAIN Seen
    BY <1>1 DEF Seen
  <2> QED BY <1>3, <2>1, <2>2 DEF Memory!Put
<1>5. Val' = Val /\ r \notin DOMAIN Seen
  BY <1>1 DEF Val, Seen
<1> QED BY <1>4, <1>5 DEF Memory!Take

LEMMA FetchedShows ==
  ASSUME Right, NEW r \in Reader, ItemFetched(r)
  PROVE  ifetch[r] \in Item /\ Memory!Take(r, ifetch[r])
<1>1. PICK i : i = ifetch[r]
  OBVIOUS
<1>2. PICK o \in ItemObj \ UsedItems :
        Items!Fetched(r, o) /\ pageOf' = Put(pageOf, o, PageUsed(i))
  BY <1>1 DEF ItemFetched
<1>3. r \in DOMAIN ifetch /\ i \in DOMAIN phold /\ UNCHANGED <<pcache, page, file>>
  BY <1>1 DEF ItemFetched, pvars
<1>4. i \in Item /\ r \notin DOMAIN ihold
  BY <1>1, <1>3, ItemTypes DEF Right, Both, ItemCache!Inv, ItemCache!TypeOK
<1>5. /\ DOMAIN ihold' = DOMAIN ihold \cup {r} /\ ihold'[r] = <<i, o>>
      /\ \A s \in DOMAIN ihold : ihold'[s] = ihold[s]
  BY <1>1, <1>2, <1>4 DEF Items!Fetched, Items!Put
<1>6. pageOf'[o] = phold[i][2] /\ \A e \in DOMAIN pageOf : e # o => pageOf'[e] = pageOf[e]
  BY <1>2 DEF Put, PageUsed
<1>7. \A s \in DOMAIN ihold : ihold[s][2] # o /\ ihold[s][2] \in DOMAIN pageOf
  BY <1>2 DEF UsedItems, Right, Windows
<1>8. PageOf(i) \in DOMAIN pcache /\ pcache[PageOf(i)] = phold[i][2]
  <2>1. ~pclosed /\ PageCache!Inv /\ PagesRight /\ phold[i][1] = PageOf(i)
    BY <1>3, <1>4 DEF Right, Both, Opened, Asked
  <2> QED BY <1>3, <2>1, HeldPages
<1>9. page[phold[i][2]].data[i] = Val[i]
  BY <1>4, <1>8 DEF Val
<1>10. /\ DOMAIN Seen' = DOMAIN Seen \cup {r} /\ Seen'[r] = <<i, Val[i]>>
       /\ \A s \in DOMAIN Seen : Seen'[s] = Seen[s]
  <2>1. DOMAIN Seen' = DOMAIN Seen \cup {r}
    BY <1>5 DEF Seen
  <2>2. Seen'[r] = <<i, page[phold[i][2]].data[i]>>
    BY <1>3, <1>5, <1>6 DEF Seen
  <2>3. ASSUME NEW s \in DOMAIN ihold
        PROVE  Seen'[s] = Seen[s]
    <3>1. s \in DOMAIN ihold' /\ ihold'[s] = ihold[s] /\ pageOf'[ihold[s][2]] = pageOf[ihold[s][2]]
      BY <1>5, <1>6, <1>7
    <3> QED BY <1>3, <3>1 DEF Seen
  <2>4. DOMAIN Seen = DOMAIN ihold
    BY DEF Seen
  <2> QED BY <1>9, <2>1, <2>2, <2>3, <2>4
<1>11. Seen' = Memory!Put(Seen, r, <<i, Val[i]>>)
  <2>1. Seen' = [s \in DOMAIN Seen' |-> Seen'[s]]
    BY DEF Seen
  <2>2. r \notin DOMAIN Seen
    BY <1>4 DEF Seen
  <2> QED BY <1>10, <2>1, <2>2 DEF Memory!Put
<1>12. Val' = Val /\ r \notin DOMAIN Seen
  BY <1>3, <1>4 DEF Val, Seen
<1> QED BY <1>1, <1>4, <1>11, <1>12 DEF Memory!Take

LEMMA ReleaseShows ==
  ASSUME Right, Silent, NEW r \in Reader, Release(r)
  PROVE  Memory!Drop(r)
<1>1. /\ r \in DOMAIN ihold /\ DOMAIN ihold' = DOMAIN ihold \ {r}
      /\ \A s \in DOMAIN ihold' : ihold'[s] = ihold[s]
  BY DEF Release, Items!ReleaseShared, Items!ReleaseGone, Items!ReleaseLast, Items!IsLastUser, Items!Without
<1>2. ASSUME NEW s \in DOMAIN ihold'
      PROVE  Seen'[s] = Seen[s]
  <2>1. PICK o, e : o = ihold[s][2] /\ e = pageOf[o]
    OBVIOUS
  <2>2. o \in DOMAIN pageOf /\ e \in DOMAIN page
    BY <1>1, <1>2, <2>1 DEF Right, Windows
  <2>3. e \in UsedPages
    BY <2>1, <2>2 DEF UsedPages
  <2>4. page'[e].data = page[e].data
    BY <2>2, <2>3 DEF Silent, Keeps
  <2>5. o \in UsedItems'
    BY <1>1, <1>2, <2>1 DEF UsedItems
  <2>6. pageOf'[o] = e
    BY <2>1, <2>2, <2>5 DEF Release
  <2> QED BY <1>1, <1>2, <2>1, <2>4, <2>6 DEF Seen
<1>3. Seen' = Memory!Without(Seen, r)
  <2>1. Seen' = [s \in DOMAIN ihold' |-> Seen'[s]] /\ DOMAIN Seen = DOMAIN ihold
    BY DEF Seen
  <2> QED BY <1>1, <1>2, <2>1 DEF Memory!Without
<1>4. r \in DOMAIN Seen
  BY <1>1 DEF Seen
<1> QED BY <1>3, <1>4 DEF Memory!Drop, Silent

----------------------------------------------------------------------------
(* Until close is called every step shows as one of the memory, or not at  *)
(* all.                                                                    *)

Shown == PagesRight' /\ Present' /\ (Memory!Use \/ Unseen)

LEMMA HiddenKeeps ==
  ASSUME Hidden
  PROVE  UNCHANGED <<ifetch, ihold, pageOf>>
<1>1. ASSUME NEW n \in Inserter, NEW p \in Page, InsertPage(n, p)
      PROVE  UNCHANGED <<ifetch, ihold, pageOf>>
  BY <1>1 DEF InsertPage, PageHit, PageMiss, vars, ivars
<1>2. ASSUME \/ \E n \in Inserter : InsertReleases(n)
             \/ \E x \in PageUser : PageRead(x) \/ PageFetched(x)
             \/ CloseItems \/ ClosePages \/ UNCHANGED vars
      PROVE  UNCHANGED <<ifetch, ihold, pageOf>>
  BY <1>2 DEF InsertReleases, PageRead, PageFetched, CloseItems, ClosePages, Items!CloseEmpty,
              Items!CloseLetsGo, vars, ivars
<1> QED BY <1>1, <1>2 DEF Hidden

LEMMA PresentStays ==
  ASSUME Right, Val' = Val, Hidden \/ \E r \in Reader : Quietly(r)
  PROVE  Present'
<1>1. ASSUME UNCHANGED <<known, inserted>>,
             \A r \in DOMAIN ifetch' : ifetch'[r] \in known,
             \A r \in DOMAIN ihold' : ihold'[r][1] \in known
      PROVE  Present'
  BY <1>1 DEF Right, Present
<1>2. /\ \A r \in DOMAIN ifetch : ifetch[r] \in known
      /\ \A r \in DOMAIN ihold : ihold[r][1] \in known
  BY DEF Right, Present
<1>3. ASSUME NEW n \in Inserter, InsertReleases(n)
      PROVE  Present'
  <2>1. /\ n \in DOMAIN inserted /\ known' = known \cup {inserted[n]}
        /\ DOMAIN inserted' \subseteq DOMAIN inserted
        /\ \A m \in DOMAIN inserted' : inserted'[m] = inserted[m]
        /\ UNCHANGED <<ifetch, ihold>>
    BY <1>3 DEF InsertReleases, Without, ivars
  <2> QED BY <2>1 DEF Right, Present
<1>4. ASSUME NEW n \in Inserter, NEW p \in Page, InsertPage(n, p)
      PROVE  UNCHANGED <<known, inserted>>
  BY <1>4 DEF InsertPage, PageHit, PageMiss, vars
<1>5. CASE Hidden
  <2>1. UNCHANGED <<known, inserted>> \/ \E n \in Inserter : InsertReleases(n)
    BY <1>4, <1>5 DEF Hidden, PageRead, PageFetched, CloseItems, ClosePages, vars
  <2> QED BY <1>1, <1>2, <1>3, <1>5, <2>1, HiddenKeeps
<1>6. ASSUME NEW r \in Reader, Quietly(r)
      PROVE  Present'
  <2>1. UNCHANGED <<known, inserted>>
    BY <1>6 DEF Quietly, ReadHit, ReadMiss, ItemPage, PageHit, PageMiss, ReadFails, ItemFetched, Release
  <2>2. ASSUME NEW i \in Item, ReadHit(r, i) \/ ReadMiss(r, i)
        PROVE  Present'
    <3>1. i \in known /\ (\A s \in DOMAIN ifetch' : ifetch'[s] \in known)
      BY <1>2, <2>2 DEF ReadHit, ReadMiss, Items!GetHit, Items!GetMiss, Items!Put
    <3>2. \A s \in DOMAIN ihold' : ihold'[s][1] \in known
      BY <1>2, <2>2, <3>1 DEF ReadHit, ReadMiss, Items!GetHit, Items!GetMiss, Items!Put
    <3> QED BY <1>1, <2>1, <3>1, <3>2
  <2>3. CASE ItemPage(r)
    BY <1>1, <1>2, <2>1, <2>3 DEF ItemPage, PageHit, PageMiss, ivars
  <2>4. CASE ReadFails(r)
    BY <1>1, <1>2, <2>1, <2>4 DEF ReadFails, Items!FetchFails, Items!Without
  <2>5. CASE ItemFetched(r)
    <3>1. PICK o : Items!Fetched(r, o)
      BY <2>5 DEF ItemFetched
    <3>2. \A s \in DOMAIN ifetch' : ifetch'[s] \in known
      BY <1>2, <3>1 DEF Items!Fetched, Items!Without
    <3>3. \A s \in DOMAIN ihold' : ihold'[s][1] \in known
      BY <1>2, <3>1 DEF Items!Fetched, Items!Put
    <3> QED BY <1>1, <2>1, <3>2, <3>3
  <2>6. CASE Release(r)
    <3>1. /\ ifetch' = ifetch
          /\ \A s \in DOMAIN ihold' : s \in DOMAIN ihold /\ ihold'[s] = ihold[s]
      BY <2>6 DEF Release, Items!ReleaseShared, Items!ReleaseGone, Items!ReleaseLast, Items!Without
    <3> QED BY <1>1, <1>2, <2>1, <3>1
  <2> QED BY <1>6, <2>2, <2>3, <2>4, <2>5, <2>6 DEF Quietly
<1> QED BY <1>5, <1>6

LEMMA QuietSteps ==
  ASSUME Right, NEW r \in Reader, Quietly(r)
  PROVE  Shown
<1>1. PagesRight' /\ Silent
  BY SilentReader DEF Right, Opened, FilesOpen
<1>2. Present'
  BY <1>1, PresentStays DEF Silent
<1>3. Memory!Use \/ Unseen
  <2>1. ASSUME NEW i \in Item, ReadHit(r, i)
        PROVE  Memory!Use
    BY <2>1, HitShows DEF Memory!Use
  <2>2. CASE ItemFetched(r)
    BY <2>2, FetchedShows DEF Memory!Use
  <2>3. CASE Release(r)
    BY <1>1, <2>3, ReleaseShows DEF Memory!Use
  <2>4. CASE (\E i \in Item : ReadMiss(r, i)) \/ ItemPage(r) \/ ReadFails(r)
    <3>1. UNCHANGED <<ihold, pageOf>>
      BY <2>4 DEF ReadMiss, Items!GetMiss, ItemPage, PageHit, PageMiss, ReadFails, Items!FetchFails, ivars
    <3> QED BY <1>1, <3>1, NothingShows
  <2> QED BY <2>1, <2>2, <2>3, <2>4 DEF Quietly
<1> QED BY <1>1, <1>2, <1>3 DEF Shown

LEMMA MemorySteps ==
  ASSUME Right, [Next]_vars
  PROVE  Shown
<1>1. ASSUME NEW r \in Reader, Quietly(r)
      PROVE  Shown
  BY <1>1, QuietSteps
<1>2. ASSUME NEW r \in Reader, NEW v \in Value, Write(r, v)
      PROVE  Shown
  <2>1. PagesRight' /\ Present' /\ Memory!Use
    BY <1>2, WriteShows DEF Memory!Use
  <2> QED BY <2>1 DEF Shown
<1>3. ASSUME NEW n \in Inserter, NEW i \in Item, NEW v \in Value, Insert(n, i, v)
      PROVE  Shown
  <2>1. PagesRight' /\ Present' /\ Memory!Use
    BY <1>3, InsertShows DEF Memory!Use
  <2> QED BY <2>1 DEF Shown
<1>4. CASE Hidden
  <2>1. PagesRight' /\ Silent
    BY <1>4, SilentOthers DEF Right, Opened, FilesOpen
  <2>2. Present'
    BY <1>4, <2>1, PresentStays DEF Silent
  <2>3. Unseen
    BY <1>4, <2>1, HiddenKeeps, NothingShows
  <2> QED BY <2>1, <2>2, <2>3 DEF Shown
<1> QED BY <1>1, <1>2, <1>3, <1>4 DEF Next, Quietly, Hidden

LEMMA RightStays ==
  ASSUME Right, [Next]_vars, Open'
  PROVE  Right'
<1>1. Both'
  BY BothInductive DEF Right
<1>2. PagesRight' /\ Present'
  BY MemorySteps DEF Shown
<1>3. Opened' /\ Asked' /\ Windows'
  BY OpenedStays, AskedInductive, WindowsInductive DEF Right
<1> QED BY <1>1, <1>2, <1>3 DEF Right

(* The first step of close shows as a close of the memory, and nothing     *)
(* opens it again.                                                         *)
LEMMA ClosingShows ==
  ASSUME Right, [Next]_vars, ~Open'
  PROVE  Memory!Close
<1>1. CloseItems
  BY CallsOfClose DEF Right, Opened, Open, ClosePages
<1>2. Silent
  BY <1>1, SilentOthers DEF Right, Opened, FilesOpen, Hidden
<1>3. Unseen
  BY <1>1, <1>2, HiddenKeeps, NothingShows DEF Hidden
<1> QED BY <1>3 DEF Memory!Close, Unseen, Right, Opened

Count == closes \in 0..MaxCloses

LEMMA CountStays ==
  ASSUME Count, [Next]_vars
  PROVE  Count' /\ (~Open => ~Open')
BY CallsOfClose, ClosesIsNumber DEF Count, Open, CloseItems

MemoryInv == Both /\ Count /\ (Open => Right)

LEMMA MemoryInvInductive ==
  ASSUME MemoryInv, [Next]_vars
  PROVE  MemoryInv'
BY BothInductive, CountStays, RightStays DEF MemoryInv

LEMMA ShowsAsMemory ==
  ASSUME MemoryInv, [Next]_vars
  PROVE  [Memory!Next]_<<Val, Seen, ~Open>>
<1>1. CASE ~Open
  BY <1>1, CountStays DEF MemoryInv, Memory!Next, Memory!AfterClose
<1>2. CASE Open /\ ~Open'
  BY <1>2, ClosingShows DEF MemoryInv, Memory!Next
<1>3. CASE Open /\ Open'
  <2>1. Memory!Use \/ Unseen
    BY <1>3, MemorySteps DEF MemoryInv, Shown
  <2> QED BY <1>3, <2>1 DEF Memory!Next, Unseen
<1> QED BY <1>1, <1>2, <1>3

LEMMA InitRight == Init => MemoryInv /\ Memory!Init
<1> SUFFICES ASSUME Init PROVE MemoryInv /\ Memory!Init
  OBVIOUS
<1>1. /\ DOMAIN icache = {} /\ DOMAIN ifetch = {} /\ DOMAIN ihold = {} /\ DOMAIN pcache = {}
      /\ DOMAIN pfetch = {} /\ DOMAIN phold = {} /\ DOMAIN read = {} /\ DOMAIN inserted = {}
      /\ ~iclosed /\ ~pclosed
  BY DEF Init, Items!Init, Pages!Init
<1>2. PICK v \in Value : file = [i \in Item |-> IF i \in known THEN v ELSE Absent]
  BY DEF Init
<1>3. file \in [Item -> Bytes] /\ known \subseteq Item
  BY <1>2 DEF Init, Bytes
<1>4. Val = file
  BY <1>1, <1>3 DEF Val
<1>5. PagesRight
  BY <1>1, <1>3 DEF PagesRight, Shape, Clean, ReadClean, Distinct
<1>6. Opened /\ Asked /\ Windows
  BY <1>1 DEF Init, Opened, Open, Asked, Windows
<1>7. Present
  <2>1. \A i \in known : Val[i] # Absent
    BY <1>2, <1>3, <1>4, AbsentIsNoValue
  <2> QED BY <1>1, <1>3, <2>1 DEF Present
<1>8. Memory!Init
  <2>1. Seen = <<>>
    BY <1>1 DEF Seen
  <2> QED BY <1>3, <1>4, <1>6, <2>1 DEF Memory!Init, Bytes, Opened
<1>9. Count
  BY ClosesIsNumber DEF Init, Count
<1> QED BY <1>5, <1>6, <1>7, <1>8, <1>9, InitBoth DEF Right, MemoryInv

(* Until close is called the two caches are a memory with one value for an *)
(* item, for any number of users, items, pages and objects, and any limit: *)
(* no change is lost when a page leaves the cache or a get fails, nobody   *)
(* sees another value than the last writer left, and the call of close     *)
(* itself changes nothing that anybody sees                                *)
(* (AbstractCache.java:33, PageCacheImpl.java:77, DataItemImpl.java:52).   *)
THEOREM CachesAreMemory == Spec => IsMemory
<1>1. Init => MemoryInv /\ Memory!Init
  BY InitRight
<1>2. MemoryInv /\ [Next]_vars => MemoryInv'
  BY MemoryInvInductive
<1>3. MemoryInv /\ [Next]_vars => [Memory!Next]_<<Val, Seen, ~Open>>
  BY ShowsAsMemory
<1> QED BY <1>1, <1>2, <1>3, PTL DEF Spec, IsMemory, Memory!Spec

----------------------------------------------------------------------------
(* The types of what is in memory and in the file, also after close.       *)

Contents ==
  /\ file \in [Item -> Bytes]
  /\ \A p \in DOMAIN pcache : pcache[p] \in DOMAIN page /\ page[pcache[p]] \in Content(p)
  /\ \A x \in DOMAIN read : read[x] \in DOMAIN page /\ page[read[x]] \in Content(pfetch[x])

Fits(e) == e \in DOMAIN page' /\ \A p : page[e] \in Content(p) => page'[e] \in Content(p)

LEMMA ContentsFit ==
  ASSUME Contents, file' \in [Item -> Bytes], read' = read,
         \A e \in DOMAIN page : Fits(e),
         \A p \in DOMAIN pcache' : p \in DOMAIN pcache /\ pcache'[p] = pcache[p],
         \A x \in DOMAIN read : pfetch'[x] = pfetch[x]
  PROVE  Contents'
<1>1. \A p : Content(p)' = Content(p)
  BY DEF Content
<1> QED BY <1>1 DEF Contents, Fits

LEMMA WriteBackFits ==
  ASSUME Contents, NEW p \in DOMAIN pcache, WriteBack(p)
  PROVE  file' \in [Item -> Bytes] /\ \A e \in DOMAIN page : Fits(e)
<1>1. PICK o : o = pcache[p]
  OBVIOUS
<1>2. page[o] \in Content(p) /\ file \in [Item -> Bytes]
  BY <1>1 DEF Contents
<1>3. CASE page[o].dirty
  <2>1. /\ file' = [i \in Item |-> IF FilesOpen /\ i \in On(p) THEN page[o].data[i] ELSE file[i]]
        /\ page' = [page EXCEPT ![o].dirty = FALSE]
    BY <1>1, <1>3 DEF WriteBack
  <2>2. \A i \in On(p) : page[o].data[i] \in Bytes
    BY <1>2 DEF Content
  <2>3. file' \in [Item -> Bytes]
    BY <1>2, <2>1, <2>2
  <2>4. ASSUME NEW e \in DOMAIN page, NEW q, page[e] \in Content(q)
        PROVE  page'[e] \in Content(q)
    <3>1. CASE e = o
      <4>1. page'[e] = [page[e] EXCEPT !.dirty = FALSE]
        BY <2>1, <3>1
      <4> QED BY <2>4, <4>1 DEF Content
    <3>2. CASE e # o
      BY <2>1, <2>4, <3>2
    <3> QED BY <3>1, <3>2
  <2> QED BY <2>1, <2>3, <2>4 DEF Fits
<1>4. CASE ~page[o].dirty
  BY <1>1, <1>2, <1>4 DEF WriteBack, Fits
<1> QED BY <1>3, <1>4

LEMMA LettingGoFits ==
  ASSUME PageCache!Inv, Contents, NEW x, LetPageGo(x), read' = read
  PROVE  Contents'
<1>1. CASE (Pages!ReleaseShared(x) \/ Pages!ReleaseGone(x)) /\ UNCHANGED <<page, file>>
  BY <1>1, ContentsFit DEF Pages!ReleaseShared, Pages!ReleaseGone, Contents, Fits
<1>2. CASE Pages!ReleaseLast(x) /\ WriteBack(phold[x][1])
  <2>1. PICK p : p = phold[x][1]
    OBVIOUS
  <2>2. p \in DOMAIN pcache
    BY <1>2, <2>1 DEF Pages!ReleaseLast, Pages!IsLastUser, PageCache!Inv, PageCache!Counters
  <2>3. (\A q \in DOMAIN pcache' : q \in DOMAIN pcache /\ pcache'[q] = pcache[q]) /\ pfetch' = pfetch
    BY <1>2, <2>1 DEF Pages!ReleaseLast, Pages!Without
  <2>4. file' \in [Item -> Bytes] /\ \A e \in DOMAIN page : Fits(e)
    BY <1>2, <2>1, <2>2, WriteBackFits
  <2> QED BY <2>3, <2>4, ContentsFit
<1> QED BY <1>1, <1>2 DEF LetPageGo

LEMMA ChangeFits ==
  ASSUME Contents, NEW i, NEW v \in Value, NEW o, Changes(o, i, v),
         UNCHANGED <<pcache, read, pfetch, file>>
  PROVE  Contents'
<1>1. ASSUME NEW e \in DOMAIN page, NEW q, page[e] \in Content(q)
      PROVE  page'[e] \in Content(q)
  <2>1. CASE e = o
    <3>1. PICK d : d = page[e].data
      OBVIOUS
    <3>2. d \in [On(q) -> Bytes] /\ page[e] = [data |-> d, dirty |-> page[e].dirty]
      BY <1>1, <3>1 DEF Content
    <3>3. [d EXCEPT ![i] = v] \in [On(q) -> Bytes]
      BY <3>2 DEF Bytes
    <3>4. page'[e] = [page[e] EXCEPT !.data = [page[e].data EXCEPT ![i] = v], !.dirty = TRUE]
      BY <2>1 DEF Changes
    <3>5. page'[e] = [data |-> [d EXCEPT ![i] = v], dirty |-> TRUE]
      BY <3>1, <3>2, <3>4
    <3> QED BY <3>3, <3>5 DEF Content
  <2>2. CASE e # o
    BY <1>1, <2>2 DEF Changes
  <2> QED BY <2>1, <2>2
<1>2. \A e \in DOMAIN page : Fits(e)
  BY <1>1 DEF Changes, Fits
<1> QED BY <1>2, ContentsFit DEF Contents

LEMMA ContentsInductive ==
  ASSUME Both, Contents, [Next]_vars
  PROVE  Contents'
<1>1. PageCache!Inv /\ Reading
  BY DEF Both
<1>2. CASE UNCHANGED <<pcache, pfetch, read, page, file>>
  BY <1>2, ContentsFit DEF Contents, Fits
<1>3. ASSUME NEW x, NEW p, PageHit(x, p) \/ PageMiss(x, p)
      PROVE  Contents'
  <2>1. UNCHANGED <<pcache, read, page, file>>
    BY <1>3 DEF PageHit, PageMiss, Pages!GetHit, Pages!GetMiss
  <2>2. \A y \in DOMAIN read : pfetch'[y] = pfetch[y]
    BY <1>1, <1>3 DEF PageHit, PageMiss, Pages!GetHit, Pages!GetMiss, Pages!MayGet, Pages!Put, Reading
  <2> QED BY <2>1, <2>2, ContentsFit DEF Contents, Fits
<1>4. ASSUME NEW r \in Reader, ItemPage(r) \/ Release(r)
      PROVE  Contents'
  <2>1. CASE ItemPage(r)
    BY <1>3, <2>1 DEF ItemPage
  <2>2. CASE UNCHANGED <<pvars, page, file>> /\ Release(r)
    BY <1>2, <2>2 DEF Release, pvars
  <2>3. CASE LetPageGo(ihold[r][1]) /\ Release(r)
    BY <1>1, <2>3, LettingGoFits DEF Release
  <2> QED BY <1>4, <2>1, <2>2, <2>3 DEF Release
<1>5. ASSUME NEW r \in Reader, NEW v \in Value, Write(r, v)
      PROVE  Contents'
  <2>1. PICK i, o : Changes(o, i, v)
    BY <1>5 DEF Write, Changes
  <2> QED BY <1>5, <2>1, ChangeFits DEF Write, pvars
<1>6. ASSUME NEW n \in Inserter, NEW i \in Item, NEW v \in Value, Insert(n, i, v)
      PROVE  Contents'
  <2>1. PICK o : Changes(o, i, v)
    BY <1>6 DEF Insert, Changes
  <2> QED BY <1>6, <2>1, ChangeFits DEF Insert, pvars
<1>7. ASSUME NEW n \in Inserter, NEW p \in Page, InsertPage(n, p)
      PROVE  Contents'
  BY <1>2, <1>3, <1>7 DEF InsertPage, vars, pvars
<1>8. ASSUME NEW n \in Inserter, InsertReleases(n)
      PROVE  Contents'
  BY <1>1, <1>8, LettingGoFits DEF InsertReleases
<1>9. ASSUME NEW x \in PageUser, PageRead(x)
      PROVE  Contents'
  <2>1. PICK p, o : /\ p = pfetch[x] /\ o \notin UsedPages /\ read' = Put(read, x, o)
                    /\ page' = Put(page, o, [data |-> [i \in On(p) |-> IF FilesOpen THEN file[i] ELSE Absent],
                                             dirty |-> FALSE])
    BY <1>9 DEF PageRead
  <2>2. [data |-> [i \in On(p) |-> IF FilesOpen THEN file[i] ELSE Absent], dirty |-> FALSE] \in Content(p)
    <3>1. \A i \in On(p) : (IF FilesOpen THEN file[i] ELSE Absent) \in Bytes
      BY DEF Contents, Bytes, On
    <3> QED BY <3>1 DEF Content
  <2>3. /\ DOMAIN page' = DOMAIN page \cup {o} /\ page'[o] \in Content(p)
        /\ \A e \in DOMAIN page : e # o => page'[e] = page[e]
    BY <2>1, <2>2 DEF Put
  <2>4. UNCHANGED <<pcache, pfetch, file>>
    BY <1>9 DEF PageRead, pvars
  <2>5. (\A q \in DOMAIN pcache : pcache[q] # o) /\ \A y \in DOMAIN read : read[y] # o
    BY <2>1 DEF UsedPages
  <2>6. /\ DOMAIN read' = DOMAIN read \cup {x} /\ read'[x] = o
        /\ \A y \in DOMAIN read : y # x => read'[y] = read[y]
    BY <2>1 DEF Put
  <2>7. \A q : Content(q)' = Content(q)
    BY DEF Content
  <2>8. \A q \in DOMAIN pcache' : pcache'[q] \in DOMAIN page' /\ page'[pcache'[q]] \in Content(q)
    BY <2>3, <2>4, <2>5 DEF Contents
  <2>9. \A y \in DOMAIN read' : read'[y] \in DOMAIN page' /\ page'[read'[y]] \in Content(pfetch'[y])
    BY <2>1, <2>3, <2>4, <2>5, <2>6 DEF Contents
  <2> QED BY <2>4, <2>7, <2>8, <2>9 DEF Contents
<1>10. ASSUME NEW x \in PageUser, PageFetched(x)
       PROVE  Contents'
  <2>1. PICK p : p = pfetch[x]
    OBVIOUS
  <2>2. /\ x \in DOMAIN read
        /\ DOMAIN pcache' = DOMAIN pcache \cup {p} /\ pcache'[p] = read[x]
        /\ \A q \in DOMAIN pcache : q # p => pcache'[q] = pcache[q]
    BY <1>10, <2>1 DEF PageFetched, Pages!Fetched, Pages!Put
  <2>3. \A y \in DOMAIN read' : y \in DOMAIN read /\ read'[y] = read[y] /\ pfetch'[y] = pfetch[y]
    BY <1>1, <1>10 DEF PageFetched, Pages!Fetched, Without, Pages!Without, Reading
  <2>4. page' = page /\ file' = file
    BY <1>10 DEF PageFetched
  <2>5. \A q : Content(q)' = Content(q)
    BY DEF Content
  <2> QED BY <2>1, <2>2, <2>3, <2>4, <2>5 DEF Contents
<1>11. CASE CloseItems
  BY <1>1, <1>2, <1>11, LettingGoFits DEF CloseItems, pvars
<1>12. CASE ClosePages
  <2>1. CASE Pages!CloseEmpty /\ UNCHANGED <<page, file>>
    BY <1>2, <1>12, <2>1 DEF ClosePages, Pages!CloseEmpty
  <2>2. ASSUME NEW p \in DOMAIN pcache, Pages!CloseLetsGo(p), WriteBack(p)
        PROVE  Contents'
    <3>1. (\A q \in DOMAIN pcache' : q \in DOMAIN pcache /\ pcache'[q] = pcache[q]) /\ pfetch' = pfetch
      BY <2>2 DEF Pages!CloseLetsGo, Pages!Without
    <3>2. read' = read
      BY <1>12 DEF ClosePages
    <3>3. file' \in [Item -> Bytes] /\ \A e \in DOMAIN page : Fits(e)
      BY <2>2, WriteBackFits
    <3> QED BY <3>1, <3>2, <3>3, ContentsFit
  <2> QED BY <1>12, <2>1, <2>2 DEF ClosePages
<1>13. ASSUME \/ \E r \in Reader : (\E i \in Item : ReadHit(r, i) \/ ReadMiss(r, i))
                                   \/ ReadFails(r) \/ ItemFetched(r)
              \/ UNCHANGED vars
       PROVE  Contents'
  BY <1>2, <1>13 DEF ReadHit, ReadMiss, ReadFails, ItemFetched, Pages!GetFull, Pages!vars, vars, pvars
<1> QED BY <1>4, <1>5, <1>6, <1>7, <1>8, <1>9, <1>10, <1>11, <1>12, <1>13 DEF Next

Objects ==
  /\ IsMap(pageOf, ItemObj, PageObj)
  /\ DOMAIN page \subseteq PageObj
  /\ IsMap(inserted, Inserter, Item)
  /\ known \subseteq Item
  /\ Count /\ stage \in {"items", "pages", "done"}

LEMMA PageObjects ==
  ASSUME [Next]_vars, DOMAIN page \subseteq PageObj, PageCache!TypeOK
  PROVE  DOMAIN page' \subseteq PageObj
<1>1. ASSUME NEW x, LetPageGo(x)
      PROVE  DOMAIN page' = DOMAIN page
  BY <1>1 DEF LetPageGo, WriteBack
<1>2. ASSUME NEW x \in PageUser, PageRead(x)
      PROVE  DOMAIN page' \subseteq PageObj
  BY <1>2 DEF PageRead, Put
<1>3. ASSUME NEW r \in Reader, Quietly(r) \/ \E v \in Value : Write(r, v)
      PROVE  DOMAIN page' = DOMAIN page
  BY <1>1, <1>3 DEF Quietly, ReadHit, ReadMiss, ItemPage, PageHit, PageMiss, ReadFails, ItemFetched,
                    Release, Write
<1>4. ASSUME NEW n \in Inserter,
             \/ InsertReleases(n) \/ \E p \in Page : InsertPage(n, p)
             \/ \E i \in Item, v \in Value : Insert(n, i, v)
      PROVE  DOMAIN page' = DOMAIN page
  BY <1>1, <1>4 DEF InsertReleases, InsertPage, Insert, PageHit, PageMiss, vars
<1>5. CASE CloseItems \/ ClosePages \/ (\E x \in PageUser : PageFetched(x)) \/ UNCHANGED vars
  BY <1>1, <1>5 DEF CloseItems, ClosePages, WriteBack, PageFetched, vars
<1> QED BY <1>2, <1>3, <1>4, <1>5 DEF Next, Quietly

LEMMA ObjectsInductive ==
  ASSUME Both, Objects, [Next]_vars
  PROVE  Objects'
<1>1. DOMAIN page' \subseteq PageObj
  BY PageObjects DEF Objects, Both, PageCache!Inv
<1>2. IsMap(pageOf, ItemObj, PageObj)'
  <2>1. CASE pageOf' = pageOf
    BY <2>1 DEF Objects
  <2>2. ASSUME NEW r \in Reader, ItemFetched(r)
        PROVE  IsMap(pageOf, ItemObj, PageObj)'
    <3>1. PICK o \in ItemObj : pageOf' = Put(pageOf, o, phold[ifetch[r]][2])
      BY <2>2 DEF ItemFetched, PageUsed
    <3>2. phold[ifetch[r]][2] \in PageObj
      BY <2>2 DEF ItemFetched, Both, PageCache!Inv, PageCache!TypeOK, PageCache!IsMap
    <3> QED BY <3>1, <3>2 DEF Objects, IsMap, Put
  <2>3. ASSUME NEW r \in Reader, Release(r)
        PROVE  IsMap(pageOf, ItemObj, PageObj)'
    <3>1. PICK S : pageOf' = [o \in DOMAIN pageOf \cap S |-> pageOf[o]]
      BY <2>3 DEF Release
    <3> QED BY <3>1 DEF Objects, IsMap
  <2>4. ASSUME NEW r \in Reader,
               \/ \E i \in Item : ReadHit(r, i) \/ ReadMiss(r, i)
               \/ ItemPage(r) \/ ReadFails(r) \/ \E v \in Value : Write(r, v)
        PROVE  pageOf' = pageOf
    BY <2>4 DEF ReadHit, ReadMiss, ItemPage, PageHit, PageMiss, ReadFails, Write
  <2>5. ASSUME Hidden \/ \E n \in Inserter, i \in Item, v \in Value : Insert(n, i, v)
        PROVE  pageOf' = pageOf
    BY <2>5, HiddenKeeps DEF Insert
  <2> QED BY <2>1, <2>2, <2>3, <2>4, <2>5 DEF Next, Hidden
<1>3. IsMap(inserted, Inserter, Item)'
  <2>1. CASE inserted' = inserted
    BY <2>1 DEF Objects
  <2>2. ASSUME NEW n \in Inserter, NEW i \in Item, NEW v \in Value, Insert(n, i, v)
        PROVE  IsMap(inserted, Inserter, Item)'
    BY <2>2 DEF Insert, Objects, IsMap, Put
  <2>3. ASSUME NEW n \in Inserter, InsertReleases(n)
        PROVE  IsMap(inserted, Inserter, Item)'
    BY <2>3 DEF InsertReleases, Objects, IsMap, Without
  <2>4. ASSUME NEW r \in Reader, Quietly(r) \/ \E v \in Value : Write(r, v)
        PROVE  inserted' = inserted
    BY <2>4 DEF Quietly, ReadHit, ReadMiss, ItemPage, PageHit, PageMiss, ReadFails, ItemFetched,
                Release, Write
  <2>5. ASSUME \/ \E n \in Inserter, p \in Page : InsertPage(n, p)
               \/ \E x \in PageUser : PageRead(x) \/ PageFetched(x)
               \/ CloseItems \/ ClosePages \/ UNCHANGED vars
        PROVE  inserted' = inserted
    BY <2>5 DEF InsertPage, PageHit, PageMiss, PageRead, PageFetched, CloseItems, ClosePages, vars
  <2> QED BY <2>1, <2>2, <2>3, <2>4, <2>5 DEF Next, Quietly
<1>4. (known \subseteq Item)'
  <2>1. ASSUME NEW n \in Inserter, InsertReleases(n)
        PROVE  (known \subseteq Item)'
    BY <2>1 DEF InsertReleases, Objects, IsMap
  <2>2. ASSUME NEW r \in Reader, Quietly(r) \/ \E v \in Value : Write(r, v)
        PROVE  known' = known
    BY <2>2 DEF Quietly, ReadHit, ReadMiss, ItemPage, PageHit, PageMiss, ReadFails, ItemFetched,
                Release, Write
  <2>3. ASSUME \/ \E n \in Inserter : \/ \E p \in Page : InsertPage(n, p)
                                     \/ \E i \in Item, v \in Value : Insert(n, i, v)
               \/ \E x \in PageUser : PageRead(x) \/ PageFetched(x)
               \/ CloseItems \/ ClosePages \/ UNCHANGED vars
        PROVE  known' = known
    BY <2>3 DEF InsertPage, PageHit, PageMiss, Insert, PageRead, PageFetched, CloseItems, ClosePages, vars
  <2> QED BY <2>1, <2>2, <2>3 DEF Next, Quietly, Objects
<1>5. Count' /\ stage' \in {"items", "pages", "done"}
  BY CallsOfClose, CountStays DEF Objects, CloseItems, ClosePages
<1> QED BY <1>1, <1>2, <1>3, <1>4, <1>5 DEF Objects

(* The maps of both caches, the pages, the file and the objects have their *)
(* types in every state of the data manager                                *)
(* (AbstractCache.java:14, DataItemImpl.java:23).                          *)
THEOREM DataTypesHold == Spec => []TypeOK
<1>1. Init => Both /\ Objects /\ Contents
  <2>1. Init => Objects
    BY ClosesIsNumber DEF Init, Objects, IsMap, Count
  <2>2. Init => Contents
    BY DEF Init, Pages!Init, Contents, Bytes
  <2> QED BY <2>1, <2>2, InitBoth
<1>2. Both /\ Objects /\ Contents /\ [Next]_vars => Both' /\ Objects' /\ Contents'
  BY BothInductive, ObjectsInductive, ContentsInductive
<1>3. Both /\ Objects /\ Contents => TypeOK
  <2>1. ASSUME ItemCache!TypeOK
        PROVE  Items!TypeOK
    BY <2>1 DEF Items!TypeOK, ItemCache!TypeOK, Items!IsMap, ItemCache!IsMap
  <2>2. ASSUME PageCache!TypeOK
        PROVE  Pages!TypeOK
    BY <2>2 DEF Pages!TypeOK, PageCache!TypeOK, Pages!IsMap, PageCache!IsMap
  <2> QED BY <2>1, <2>2 DEF Both, ItemCache!Inv, PageCache!Inv, Reading, Contents, Bytes,
                            Objects, Count, TypeOK
<1> QED BY <1>1, <1>2, <1>3, PTL DEF Spec
=============================================================================
