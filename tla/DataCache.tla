------------------------------ MODULE DataCache ------------------------------
(***************************************************************************)
(* backend/dm/DataManagerImpl.java over backend/dm/pageCache/              *)
(* PageCacheImpl.java: two caches, one on top of the other.  A data item   *)
(* in the upper one is a window on a page in the lower one, and is itself  *)
(* the user of that page for as long as it is kept.  An insert uses a page *)
(* directly.  The lower cache has a limit, reads pages from the file and   *)
(* writes the changed ones back when their last user lets go.              *)
(*                                                                         *)
(* An item stands for its place: the bytes of a row at an offset of a      *)
(* page.  The writer's latch of an item (DataItemImpl.wLock) makes each    *)
(* change of it one step.  The locks of the two caches are taken top down, *)
(* so letting an item and then its page go is one step.                    *)
(*                                                                         *)
(* close asks nobody to stop (UserManager.java:44 calls it while           *)
(* statements run), and no method looks whether it was called: readers and *)
(* inserts go on before, between and after its steps.                      *)
(***************************************************************************)
EXTENDS Naturals, FiniteSets, Maps

CONSTANTS
  Reader,    \* users of data items
  Inserter,  \* users of pages: one call of insert each
  Item,      \* places of data items
  Page,
  ItemObj,   \* DataItemImpl objects in memory
  PageObj,   \* PageImpl objects in memory
  Value,
  Absent,    \* nothing was inserted at the place yet
  MaxPages,  \* the limit of the page cache
  MaxCloses  \* how often close is called: a bound of the model

CONSTANT PageOf(_)  \* the page of an item, part of its uid

ASSUME ItemsLieOnPages == \A i \in Item : PageOf(i) \in Page
ASSUME LimitIsNumber == MaxPages \in Nat
ASSUME ClosesIsNumber == MaxCloses \in Nat
ASSUME UsersAreDistinct == Inserter \cap Item = {}
ASSUME AbsentIsNoValue == Absent \notin Value

VARIABLES
  icache, ireferences, igetting, icount, ifetch, ihold, iclosed, \* items
  pcache, preferences, pgetting, pcount, pfetch, phold, pclosed, \* pages
  read,      \* user of pages -> the PageImpl it has read and not yet returned
  pageOf,    \* DataItemImpl -> the PageImpl it is a window on
  page,      \* PageImpl -> its bytes, as the values of its items, and dirty
  file,      \* item -> its value in the file
  inserted,  \* call of insert -> the item it has written on its page
  known,     \* items whose uid was returned by insert
  closes,    \* how often close was called
  stage      \* what close does next: "items" or "pages", or it is "done"

ivars == <<icache, ireferences, igetting, icount, ifetch, ihold, iclosed>>
pvars == <<pcache, preferences, pgetting, pcount, pfetch, phold, pclosed>>
dvars == <<read, pageOf, page, file, inserted, known, closes, stage>>
vars == <<ivars, pvars, dvars>>

Items == INSTANCE Cache WITH
  User <- Reader, Key <- Item, Obj <- ItemObj, MaxResource <- 0,
  cache <- icache, references <- ireferences, getting <- igetting,
  count <- icount, fetch <- ifetch, hold <- ihold, closed <- iclosed

PageUser == Item \cup Inserter
Pages == INSTANCE Cache WITH
  User <- PageUser, Key <- Page, Obj <- PageObj, MaxResource <- MaxPages,
  cache <- pcache, references <- preferences, getting <- pgetting,
  count <- pcount, fetch <- pfetch, hold <- phold, closed <- pclosed

On(p) == {i \in Item : PageOf(i) = p}
PageUsed(x) == phold[x][2]

Init ==
  /\ Items!Init /\ Pages!Init
  /\ read = <<>> /\ pageOf = <<>> /\ page = <<>> /\ inserted = <<>>
  /\ known \in SUBSET Item
  /\ \E v \in Value : file = [i \in Item |-> IF i \in known THEN v ELSE Absent]
  /\ closes = 0 /\ stage = "items"

Open == closes = 0
FilesOpen == stage # "done"

----------------------------------------------------------------------------
(* Pages: get, with the read of the file outside the lock.                 *)

(* A PageImpl nothing refers to any more is garbage, and a new one may be  *)
(* made in its place.                                                      *)
UsedPages == {pcache[p] : p \in DOMAIN pcache} \cup {phold[x][2] : x \in DOMAIN phold}
             \cup {read[x] : x \in DOMAIN read} \cup {pageOf[o] : o \in DOMAIN pageOf}
UsedItems == {icache[i] : i \in DOMAIN icache} \cup {ihold[r][2] : r \in DOMAIN ihold}

PageHit(x, p) == Pages!GetHit(x, p) /\ UNCHANGED <<ivars, dvars>>
PageMiss(x, p) == Pages!GetMiss(x, p) /\ UNCHANGED <<ivars, dvars>>

(* getForCache of the page cache.  On a closed file the exception is       *)
(* printed and the page is full of zeros.                                  *)
PageRead(x) ==
  /\ x \in DOMAIN pfetch \ DOMAIN read
  /\ \E o \in PageObj \ UsedPages :
       /\ read' = Put(read, x, o)
       /\ page' = Put(page, o, [data |-> [i \in On(pfetch[x]) |-> IF FilesOpen THEN file[i] ELSE Absent],
                               dirty |-> FALSE])
  /\ UNCHANGED <<ivars, pvars, pageOf, file, inserted, known, closes, stage>>

PageFetched(x) ==
  /\ x \in DOMAIN read
  /\ Pages!Fetched(x, read[x])
  /\ read' = Without(read, x)
  /\ UNCHANGED <<ivars, pageOf, page, file, inserted, known, closes, stage>>

(* releaseForCache of the page cache.  The exception of a closed file is   *)
(* printed, and the page is taken for written.                             *)
WriteBack(p) ==
  LET o == pcache[p]
  IN  IF page[o].dirty
      THEN /\ file' = [i \in Item |-> IF FilesOpen /\ i \in On(p) THEN page[o].data[i] ELSE file[i]]
           /\ page' = [page EXCEPT ![o].dirty = FALSE]
      ELSE UNCHANGED <<page, file>>

(* PageImpl.release.                                                       *)
LetPageGo(x) ==
  \/ (Pages!ReleaseShared(x) \/ Pages!ReleaseGone(x)) /\ UNCHANGED <<page, file>>
  \/ Pages!ReleaseLast(x) /\ WriteBack(phold[x][1])

----------------------------------------------------------------------------
(* Items: read, change and release.                                        *)

ReadHit(r, i) ==
  /\ i \in known
  /\ Items!GetHit(r, i)
  /\ UNCHANGED <<pvars, read, pageOf, page, file, inserted, known, closes, stage>>

ReadMiss(r, i) ==
  /\ i \in known
  /\ Items!GetMiss(r, i)
  /\ UNCHANGED <<pvars, read, pageOf, page, file, inserted, known, closes, stage>>

(* getForCache asks for the page of the item.                              *)
ItemPage(r) ==
  /\ r \in DOMAIN ifetch
  /\ LET i == ifetch[r] IN PageHit(i, PageOf(i)) \/ PageMiss(i, PageOf(i))

(* There is no room for the page: the exception ends both gets.            *)
ReadFails(r) ==
  /\ r \in DOMAIN ifetch
  /\ LET i == ifetch[r] IN Pages!GetFull(i, PageOf(i))
  /\ Items!FetchFails(r)
  /\ UNCHANGED <<read, pageOf, page, file, inserted, known, closes, stage>>

ItemFetched(r) ==
  /\ r \in DOMAIN ifetch
  /\ ifetch[r] \in DOMAIN phold
  /\ \E o \in ItemObj \ UsedItems :
       /\ Items!Fetched(r, o)
       /\ pageOf' = Put(pageOf, o, PageUsed(ifetch[r]))
  /\ UNCHANGED <<pvars, read, page, file, inserted, known, closes, stage>>

(* A mutant of Write that leaves the page clean, as physicalDelete does.   *)
WriteClean(r, v) ==
  /\ r \in DOMAIN ihold
  /\ LET o == pageOf[ihold[r][2]]
     IN  page' = [page EXCEPT ![o].data[ihold[r][1]] = v]
  /\ UNCHANGED <<ivars, pvars, read, pageOf, file, inserted, known, closes, stage>>

(* before, a change of the bytes and after: the page becomes dirty.        *)
Write(r, v) ==
  /\ r \in DOMAIN ihold
  /\ LET o == pageOf[ihold[r][2]]
     IN  page' = [page EXCEPT ![o].data[ihold[r][1]] = v, ![o].dirty = TRUE]
  /\ UNCHANGED <<ivars, pvars, read, pageOf, file, inserted, known, closes, stage>>

(* A mutant of Release: the item keeps its page for ever.                  *)
ReleaseKeepsPage(r) ==
  /\ Items!ReleaseShared(r) \/ Items!ReleaseGone(r) \/ Items!ReleaseLast(r)
  /\ pageOf' = [o \in DOMAIN pageOf \cap UsedItems' |-> pageOf[o]]
  /\ UNCHANGED <<pvars, read, page, file, inserted, known, closes, stage>>

(* The last user of an item lets the page of the item go, too.             *)
Release(r) ==
  /\ \/ (Items!ReleaseShared(r) \/ Items!ReleaseGone(r)) /\ UNCHANGED <<pvars, page, file>>
     \/ Items!ReleaseLast(r) /\ LetPageGo(ihold[r][1])
  /\ pageOf' = [o \in DOMAIN pageOf \cap UsedItems' |-> pageOf[o]]
  /\ UNCHANGED <<read, inserted, known, closes, stage>>

----------------------------------------------------------------------------
(* insert, from getPage to release.                                        *)

(* getPage of insert; with no room it throws and nothing has happened.     *)
InsertPage(n, p) ==
  /\ Pages!Users(p) \cap Inserter = {}   \* the page index gives a page to one insert
  /\ \A m \in DOMAIN pfetch \cap Inserter : pfetch[m] # p
  /\ \/ PageHit(n, p) \/ PageMiss(n, p)
     \/ Pages!GetFull(n, p) /\ UNCHANGED vars

(* PageX.insert writes behind the items that are there.                    *)
Insert(n, i, v) ==
  /\ n \in DOMAIN phold \ DOMAIN inserted
  /\ phold[n][1] = PageOf(i)
  /\ page[PageUsed(n)].data[i] = Absent
  /\ page' = [page EXCEPT ![PageUsed(n)].data[i] = v, ![PageUsed(n)].dirty = TRUE]
  /\ inserted' = Put(inserted, n, i)
  /\ UNCHANGED <<ivars, pvars, read, pageOf, file, known, closes, stage>>

InsertReleases(n) ==
  /\ n \in DOMAIN inserted
  /\ LetPageGo(n)
  /\ known' = known \cup {inserted[n]}
  /\ inserted' = Without(inserted, n)
  /\ UNCHANGED <<ivars, read, pageOf, closes, stage>>

----------------------------------------------------------------------------
(* close: first the items, with an item its page; then, when no iterator   *)
(* threw, the pages, and then the file.  A close that threw is called      *)
(* again at the next check for expired users.                              *)

CloseItems ==
  /\ stage = "items" /\ closes < MaxCloses
  /\ \/ /\ Items!CloseEmpty
        /\ UNCHANGED <<pvars, page, file>>
     \/ \E i \in DOMAIN icache : Items!CloseLetsGo(i) /\ LetPageGo(i)
  /\ closes' = closes + 1
  /\ stage' = IF icache' = <<>> THEN "pages" ELSE "items"
  /\ UNCHANGED <<read, pageOf, inserted, known>>

ClosePages ==
  /\ stage = "pages"
  /\ \/ Pages!CloseEmpty /\ UNCHANGED <<page, file>>
     \/ \E p \in DOMAIN pcache : Pages!CloseLetsGo(p) /\ WriteBack(p)
  /\ stage' = IF pcache' = <<>> THEN "done" ELSE "items"
  /\ UNCHANGED <<ivars, read, pageOf, inserted, known, closes>>

----------------------------------------------------------------------------
Next ==
  \/ \E r \in Reader :
       \/ \E i \in Item : ReadHit(r, i) \/ ReadMiss(r, i)
       \/ ItemPage(r) \/ ReadFails(r) \/ ItemFetched(r) \/ Release(r)
       \/ \E v \in Value : Write(r, v)
  \/ \E n \in Inserter :
       \/ \E p \in Page : InsertPage(n, p)
       \/ \E i \in Item, v \in Value : Insert(n, i, v)
       \/ InsertReleases(n)
  \/ \E x \in PageUser : PageRead(x) \/ PageFetched(x)
  \/ CloseItems \/ ClosePages

Spec == Init /\ [][Next]_vars
----------------------------------------------------------------------------
(* What a user of an item sees, and the value an item has: that of its     *)
(* page in memory, or that in the file.                                    *)
Val == [i \in Item |-> IF PageOf(i) \in DOMAIN pcache
                       THEN page[pcache[PageOf(i)]].data[i] ELSE file[i]]
Seen == [r \in DOMAIN ihold |-> <<ihold[r][1], page[pageOf[ihold[r][2]]].data[ihold[r][1]]>>]

Memory == INSTANCE ItemMemory WITH User <- Reader, val <- Val, seen <- Seen, closed <- ~Open

TypeOK ==
  /\ Items!TypeOK /\ Pages!TypeOK
  /\ IsMap(read, PageUser, PageObj)
  /\ IsMap(pageOf, ItemObj, PageObj)
  /\ DOMAIN page \subseteq PageObj
  /\ IsMap(inserted, Inserter, Item)
  /\ file \in [Item -> Value \cup {Absent}] /\ known \subseteq Item
  /\ closes \in 0..MaxCloses /\ stage \in {"items", "pages", "done"}

(* An item and a page are fetched by one thread at a time and have one     *)
(* object in memory each: no two DataItemImpl with a latch each for one    *)
(* row, no two PageImpl with changes of their own (AbstractCache.java:33). *)
OneObjectEach ==
  /\ Items!OneFetch /\ Items!OneObject
  /\ Pages!OneFetch /\ Pages!OneObject

(* Counters are right in both caches: an item keeps exactly one reference  *)
(* to its page, given back with its own last one, and the room of the page *)
(* cache is free again after every failure (AbstractCache.java:68).  The   *)
(* reference to the page lasts through a close, whole or interrupted.      *)
Accounted ==
  /\ Items!ReferencesAreUsers /\ Items!RoomIsAccounted
  /\ Pages!ReferencesAreUsers /\ Pages!RoomIsAccounted
  /\ DOMAIN icache = (DOMAIN phold \cap Item) \ {ifetch[r] : r \in DOMAIN ifetch}

(* A page reaches the file only when nobody uses it: what a user has       *)
(* changed and not yet logged is never on the disk                         *)
(* (DataItemImpl.java:52).  close writes pages that are in use.            *)
WrittenUnused ==
  [][\A i \in Item : file'[i] # file[i] /\ ~pclosed' =>
       \A x \in DOMAIN phold' : phold'[x][1] # PageOf(i)]_vars

(* Until close is called both caches together are a memory with one value  *)
(* for an item: no change is lost by an eviction or a failed get, no       *)
(* reader sees another value than the last writer left, and the first step *)
(* of close itself changes nothing (PageCacheImpl.java:77).                *)
IsMemory == Memory!Spec
=============================================================================
