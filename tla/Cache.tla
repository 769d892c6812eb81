-------------------------------- MODULE Cache --------------------------------
(***************************************************************************)
(* backend/common/AbstractCache.java: the reference-counting cache under   *)
(* the pages, the data items and the entries.                              *)
(*                                                                         *)
(* A user is one get with the release that belongs to it: a thread that    *)
(* holds two resources is two users.  The table's lock covers everything   *)
(* but the fetch itself (getForCache), so a get that misses is two steps   *)
(* with the fetch in between.  A get of a key that is being fetched sleeps *)
(* and looks again: it has no step until the fetch is over.                *)
(*                                                                         *)
(* What a fetch returns and what becomes of a resource nobody refers to    *)
(* (releaseForCache) is the business of the module that uses the cache.    *)
(***************************************************************************)
EXTENDS Naturals, FiniteSets, Maps

CONSTANTS
  User,        \* pairs of get and release
  Key,         \* what is asked for
  Obj,         \* resources in memory
  MaxResource  \* 0: no limit

VARIABLES
  cache,       \* key -> the resource kept for it
  references,  \* key -> how many users it has
  getting,     \* keys being fetched
  count,       \* resources kept or being fetched
  fetch,       \* user -> the key it fetches
  hold,        \* user -> the key and the resource get returned to it
  closed       \* close was called

vars == <<cache, references, getting, count, fetch, hold, closed>>

Init ==
  /\ cache = <<>> /\ references = <<>> /\ getting = {} /\ count = 0
  /\ fetch = <<>> /\ hold = <<>>
  /\ closed = FALSE

----------------------------------------------------------------------------
(* get                                                                     *)

MayGet(u, k) ==
  /\ u \notin DOMAIN fetch \cup DOMAIN hold
  /\ k \notin getting

IsFull == MaxResource > 0 /\ count = MaxResource

(* A mutant of GetHit that forgets to count the new user.                  *)
GetHitUncounted(u, k) ==
  /\ MayGet(u, k)
  /\ k \in DOMAIN cache
  /\ hold' = Put(hold, u, <<k, cache[k]>>)
  /\ UNCHANGED <<cache, references, getting, count, fetch, closed>>

(* The resource is kept: one more user.                                    *)
GetHit(u, k) ==
  /\ MayGet(u, k)
  /\ k \in DOMAIN cache
  /\ references' = [references EXCEPT ![k] = @ + 1]
  /\ hold' = Put(hold, u, <<k, cache[k]>>)
  /\ UNCHANGED <<cache, getting, count, fetch, closed>>

(* It is not and there is no room: CacheFullException.                     *)
GetFull(u, k) ==
  /\ MayGet(u, k)
  /\ k \notin DOMAIN cache
  /\ IsFull
  /\ UNCHANGED vars

(* A mutant of GetMiss that does not tell others it is fetching.           *)
GetMissUntold(u, k) ==
  /\ MayGet(u, k)
  /\ k \notin DOMAIN cache
  /\ ~IsFull
  /\ count' = count + 1
  /\ fetch' = Put(fetch, u, k)
  /\ UNCHANGED <<cache, references, getting, hold, closed>>

(* It is not and there is room, which is taken before the fetch begins.    *)
GetMiss(u, k) ==
  /\ MayGet(u, k)
  /\ k \notin DOMAIN cache
  /\ ~IsFull
  /\ count' = count + 1
  /\ getting' = getting \cup {k}
  /\ fetch' = Put(fetch, u, k)
  /\ UNCHANGED <<cache, references, hold, closed>>

(* A mutant of FetchFails that gives the room back twice.                  *)
FetchFailsTwice(u) ==
  /\ u \in DOMAIN fetch
  /\ count' = count - 2
  /\ getting' = getting \ {fetch[u]}
  /\ fetch' = Without(fetch, u)
  /\ UNCHANGED <<cache, references, hold, closed>>

(* getForCache throws, and get with it.                                    *)
FetchFails(u) ==
  /\ u \in DOMAIN fetch
  /\ count' = count - 1
  /\ getting' = getting \ {fetch[u]}
  /\ fetch' = Without(fetch, u)
  /\ UNCHANGED <<cache, references, hold, closed>>

(* getForCache returned o.                                                 *)
Fetched(u, o) ==
  /\ u \in DOMAIN fetch
  /\ getting' = getting \ {fetch[u]}
  /\ cache' = Put(cache, fetch[u], o)
  /\ references' = Put(references, fetch[u], 1)
  /\ hold' = Put(hold, u, <<fetch[u], o>>)
  /\ fetch' = Without(fetch, u)
  /\ UNCHANGED <<count, closed>>

----------------------------------------------------------------------------
(* release                                                                 *)

(* close has taken the key away: nothing is left to release.               *)
ReleaseGone(u) ==
  /\ u \in DOMAIN hold
  /\ hold[u][1] \notin DOMAIN references
  /\ hold' = Without(hold, u)
  /\ UNCHANGED <<cache, references, getting, count, fetch, closed>>

IsLastUser(u) ==
  /\ u \in DOMAIN hold
  /\ hold[u][1] \in DOMAIN references
  /\ references[hold[u][1]] = 1

ReleaseShared(u) ==
  /\ u \in DOMAIN hold
  /\ hold[u][1] \in DOMAIN references
  /\ references[hold[u][1]] # 1
  /\ references' = [references EXCEPT ![hold[u][1]] = @ - 1]
  /\ hold' = Without(hold, u)
  /\ UNCHANGED <<cache, getting, count, fetch, closed>>

(* The last user: the resource leaves the cache.                           *)
ReleaseLast(u) ==
  /\ IsLastUser(u)
  /\ references' = Without(references, hold[u][1])
  /\ cache' = Without(cache, hold[u][1])
  /\ count' = count - 1
  /\ hold' = Without(hold, u)
  /\ UNCHANGED <<getting, fetch, closed>>

----------------------------------------------------------------------------
(* close: the loop removes from the map it walks.  One resource or none is *)
(* let go; with more, the iterator throws after the first.                 *)

CloseLetsGo(k) ==
  /\ k \in DOMAIN cache
  /\ closed' = TRUE
  /\ references' = Without(references, k)
  /\ cache' = Without(cache, k)
  /\ UNCHANGED <<getting, count, fetch, hold>>

CloseEmpty ==
  /\ cache = <<>>
  /\ closed' = TRUE
  /\ UNCHANGED <<cache, references, getting, count, fetch, hold>>

----------------------------------------------------------------------------
Next ==
  \/ \E u \in User :
       \/ \E k \in Key : GetHit(u, k) \/ GetFull(u, k) \/ GetMiss(u, k)
       \/ FetchFails(u)
       \/ \E o \in Obj : Fetched(u, o)
       \/ ReleaseGone(u) \/ ReleaseShared(u) \/ ReleaseLast(u)
  \/ \E k \in Key : CloseLetsGo(k)
  \/ CloseEmpty

Spec == Init /\ [][Next]_vars

----------------------------------------------------------------------------
Users(k) == {u \in DOMAIN hold : hold[u][1] = k}

TypeOK ==
  /\ IsMap(cache, Key, Obj)
  /\ IsMap(references, Key, Nat \ {0})
  /\ getting \subseteq Key
  /\ count \in Nat
  /\ IsMap(fetch, User, Key)
  /\ IsMap(hold, User, Key \X Obj)
  /\ DOMAIN fetch \cap DOMAIN hold = {}
  /\ closed \in BOOLEAN

(* A key is fetched by one user at a time, and never while a resource is   *)
(* kept for it: the sleep in get (AbstractCache.java:33) keeps everybody   *)
(* else out until the fetch is over, also when it fails.                   *)
OneFetch ==
  /\ getting \cap DOMAIN cache = {}
  /\ \A k \in getting : \E u \in DOMAIN fetch : fetch[u] = k
  /\ \A u \in DOMAIN fetch :
       /\ fetch[u] \in getting
       /\ \A w \in DOMAIN fetch : fetch[w] = fetch[u] => w = u

(* As long as nobody closes the cache, all users of a key have the         *)
(* resource that is kept for it: no two copies of a page or of a row, with *)
(* two sets of changes and two locks.                                      *)
OneObject ==
  ~closed => \A u \in DOMAIN hold :
    hold[u][1] \in DOMAIN cache /\ cache[hold[u][1]] = hold[u][2]

(* The counter of a key is the number of its users: no resource leaves the *)
(* cache early, and none stays for ever.                                   *)
ReferencesAreUsers ==
  /\ DOMAIN references = DOMAIN cache
  /\ ~closed => \A k \in DOMAIN cache : references[k] = Cardinality(Users(k))

(* count is the room that is taken, by resources kept and by fetches that  *)
(* may still fail, and the limit is never passed.                          *)
RoomIsAccounted ==
  /\ ~closed => count = Cardinality(DOMAIN cache) + Cardinality(getting)
  /\ MaxResource > 0 => count <= MaxResource
=============================================================================
