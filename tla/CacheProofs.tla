----------------------------- MODULE CacheProofs -----------------------------
(***************************************************************************)
(* Safety of the reference-counting cache for any users, keys, resources   *)
(* and limit.                                                              *)
(***************************************************************************)
EXTENDS Cache, FiniteSetTheorems, TLAPS

----------------------------------------------------------------------------
(* Maps and the users of a key.                                            *)

LEMMA WithoutApplies ==
  ASSUME NEW f, NEW k
  PROVE  /\ DOMAIN Without(f, k) = DOMAIN f \ {k}
         /\ \A e \in DOMAIN f : e # k => Without(f, k)[e] = f[e]
BY DEF Without

LEMMA PutIsAMap ==
  ASSUME NEW K, NEW V, NEW f, NEW k \in K, NEW v \in V, IsMap(f, K, V)
  PROVE  IsMap(Put(f, k, v), K, V)
BY DEF IsMap, Put

LEMMA WithoutIsAMap ==
  ASSUME NEW K, NEW V, NEW f, NEW k, IsMap(f, K, V)
  PROVE  IsMap(Without(f, k), K, V)
BY DEF IsMap, Without

(* A new user of k is one more for k and changes nothing for other keys.   *)
LEMMA UsersGain ==
  ASSUME NEW u, NEW k, NEW v, v[1] = k, u \notin DOMAIN hold, hold' = Put(hold, u, v)
  PROVE  /\ Users(k)' = Users(k) \cup {u} /\ u \notin Users(k)
         /\ \A j : j # k => Users(j)' = Users(j)
<1>1. /\ DOMAIN hold' = DOMAIN hold \cup {u}
      /\ hold'[u] = v
      /\ \A e \in DOMAIN hold : e # u => hold'[e] = hold[e]
  BY DEF Put
<1>. QED  BY <1>1 DEF Users

LEMMA UsersLose ==
  ASSUME NEW u \in DOMAIN hold, NEW k, hold[u][1] = k, hold' = Without(hold, u)
  PROVE  /\ Users(k)' = Users(k) \ {u} /\ u \in Users(k)
         /\ \A j : j # k => Users(j)' = Users(j)
<1>1. /\ DOMAIN hold' = DOMAIN hold \ {u}
      /\ \A e \in DOMAIN hold : e # u => hold'[e] = hold[e]
  BY WithoutApplies
<1>. QED  BY <1>1 DEF Users

----------------------------------------------------------------------------
(* The inductive invariant.  The counters count: the room while the cache  *)
(* is open, and at least what is there after a close, which forgets to     *)
(* give back the room of what it lets go.                                  *)

Taken == Cardinality(DOMAIN cache) + Cardinality(getting)

Counters ==
  /\ IsFiniteSet(DOMAIN hold) /\ IsFiniteSet(DOMAIN cache) /\ IsFiniteSet(getting)
  /\ DOMAIN references = DOMAIN cache
  /\ ~closed => \A k \in DOMAIN cache : references[k] = Cardinality(Users(k))
  /\ count >= Taken
  /\ ~closed => count = Taken
  /\ MaxResource > 0 => count <= MaxResource

Inv == TypeOK /\ OneFetch /\ OneObject /\ Counters

LEMMA InitInv == ASSUME MaxResource \in Nat PROVE Init => Inv
<1>. SUFFICES ASSUME Init PROVE Inv
  OBVIOUS
<1>1. \A K, V : IsMap(<<>>, K, V)
  BY DEF IsMap
<1>2. /\ DOMAIN hold = {} /\ DOMAIN cache = {} /\ DOMAIN references = {}
      /\ DOMAIN fetch = {} /\ getting = {} /\ count = 0 /\ closed = FALSE
  BY DEF Init
<1>3. TypeOK
  <2>1. IsMap(cache, Key, Obj) /\ IsMap(references, Key, Nat \ {0})
    BY <1>1 DEF Init
  <2>2. IsMap(fetch, User, Key) /\ IsMap(hold, User, Key \X Obj)
    BY <1>1 DEF Init
  <2>. QED  BY <1>2, <2>1, <2>2 DEF TypeOK
<1>4. OneFetch /\ OneObject
  BY <1>2 DEF OneFetch, OneObject
<1>5. IsFiniteSet({}) /\ Cardinality({}) = 0
  BY FS_EmptySet
<1>6. Taken = 0
  BY <1>2, <1>5 DEF Taken
<1>7. MaxResource > 0 => count <= MaxResource
  BY <1>2
<1>8. Counters
  BY <1>2, <1>5, <1>6, <1>7 DEF Counters
<1>. QED  BY <1>3, <1>4, <1>8 DEF Inv

(* The users of a key are finitely many.                                   *)
LEMMA UsersFinite ==
  ASSUME Counters, NEW k
  PROVE  IsFiniteSet(Users(k)) /\ Cardinality(Users(k)) \in Nat
<1>1. Users(k) \in SUBSET DOMAIN hold
  BY DEF Users
<1>2. IsFiniteSet(Users(k))
  BY <1>1, FS_Subset DEF Counters
<1>. QED  BY <1>2, FS_CardinalityType

(* What is taken is a number.                                              *)
LEMMA TakenIsNat ==
  ASSUME Counters
  PROVE  /\ Cardinality(DOMAIN cache) \in Nat
         /\ Cardinality(getting) \in Nat
         /\ Taken \in Nat
BY FS_CardinalityType DEF Counters, Taken

----------------------------------------------------------------------------
(* One lemma for each way a call returns.                                  *)

LEMMA GetHitKeeps ==
  ASSUME Inv, NEW u \in User, NEW k \in Key, GetHit(u, k)
  PROVE  Inv'
<1>. USE DEF Inv
<1>1. /\ u \notin DOMAIN fetch /\ u \notin DOMAIN hold
      /\ k \in DOMAIN cache /\ cache[k] \in Obj
  BY DEF GetHit, MayGet, TypeOK, IsMap
<1>2. /\ DOMAIN hold' = DOMAIN hold \cup {u}
      /\ hold'[u] = <<k, cache[k]>>
      /\ \A e \in DOMAIN hold : e # u => hold'[e] = hold[e]
  <2>1. hold' = Put(hold, u, <<k, cache[k]>>)
    BY DEF GetHit
  <2>. QED  BY <2>1 DEF Put
<1>3. TypeOK'
  <2>1. IsMap(hold', User, Key \X Obj)
    BY <1>1, PutIsAMap DEF GetHit, TypeOK
  <2>2. IsMap(references', Key, Nat \ {0})
    <3>1. k \in DOMAIN references /\ references \in [DOMAIN references -> Nat \ {0}]
      BY <1>1 DEF Counters, TypeOK, IsMap
    <3>2. references[k] + 1 \in Nat \ {0}
      BY <3>1
    <3>. QED  BY <3>1, <3>2 DEF GetHit, TypeOK, IsMap
  <2>. QED  BY <1>1, <1>2, <2>1, <2>2 DEF GetHit, TypeOK
<1>4. OneFetch'
  BY DEF GetHit, OneFetch
<1>5. OneObject'
  BY <1>1, <1>2 DEF GetHit, OneObject
<1>6. Counters'
  <2>1. IsFiniteSet(DOMAIN hold')
    BY <1>2, FS_AddElement DEF Counters
  <2>2. /\ Users(k)' = Users(k) \cup {u} /\ u \notin Users(k)
        /\ \A j : j # k => Users(j)' = Users(j)
    <3>1. hold' = Put(hold, u, <<k, cache[k]>>) /\ <<k, cache[k]>>[1] = k
      BY DEF GetHit
    <3>. QED  BY <1>1, <3>1, UsersGain, Zenon
  <2>3. Cardinality(Users(k)') = Cardinality(Users(k)) + 1
    BY <2>2, UsersFinite, FS_AddElement
  <2>4. ~closed' => \A j \in DOMAIN cache' : references'[j] = Cardinality(Users(j))'
    BY <1>1, <2>2, <2>3 DEF GetHit, Counters
  <2>5. DOMAIN references' = DOMAIN cache'
    BY DEF GetHit, Counters
  <2>6. Taken' = Taken
    BY DEF GetHit, Taken
  <2>. QED  BY <2>1, <2>4, <2>5, <2>6 DEF GetHit, Counters
<1>. QED  BY <1>3, <1>4, <1>5, <1>6

LEMMA GetMissKeeps ==
  ASSUME MaxResource \in Nat, Inv, NEW u \in User, NEW k \in Key, GetMiss(u, k)
  PROVE  Inv'
<1>. USE DEF Inv
<1>1. /\ u \notin DOMAIN fetch /\ u \notin DOMAIN hold
      /\ k \notin getting /\ k \notin DOMAIN cache
  BY DEF GetMiss, MayGet
<1>2. /\ DOMAIN fetch' = DOMAIN fetch \cup {u}
      /\ fetch'[u] = k
      /\ \A e \in DOMAIN fetch : e # u => fetch'[e] = fetch[e]
  <2>1. fetch' = Put(fetch, u, k)
    BY DEF GetMiss
  <2>. QED  BY <2>1 DEF Put
<1>3. TypeOK'
  <2>1. IsMap(fetch', User, Key)
    BY PutIsAMap DEF GetMiss, TypeOK
  <2>. QED  BY <1>1, <1>2, <2>1 DEF GetMiss, TypeOK
<1>4. OneFetch'
  BY <1>1, <1>2 DEF GetMiss, OneFetch
<1>5. OneObject'
  BY DEF GetMiss, OneObject
<1>6. Counters'
  <2>1. IsFiniteSet(getting') /\ Cardinality(getting') = Cardinality(getting) + 1
    BY <1>1, FS_AddElement DEF GetMiss, Counters
  <2>2. Taken' = Taken + 1
    BY <2>1, TakenIsNat DEF GetMiss, Taken
  <2>3. \A j : Users(j)' = Users(j)
    BY DEF GetMiss, Users
  <2>4. count \in Nat
    BY DEF TypeOK
  <2>5. MaxResource > 0 => count' <= MaxResource
    BY <2>4 DEF GetMiss, IsFull, Counters
  <2>6. count' >= Taken' /\ (~closed' => count' = Taken')
    BY <2>2, <2>4, TakenIsNat DEF GetMiss, Counters
  <2>. QED  BY <2>1, <2>3, <2>5, <2>6 DEF GetMiss, Counters
<1>. QED  BY <1>3, <1>4, <1>5, <1>6

LEMMA FetchFailsKeeps ==
  ASSUME MaxResource \in Nat, Inv, NEW u \in User, FetchFails(u)
  PROVE  Inv'
<1>. USE DEF Inv
<1>1. /\ u \in DOMAIN fetch
      /\ DOMAIN fetch' = DOMAIN fetch \ {u}
      /\ \A e \in DOMAIN fetch : e # u => fetch'[e] = fetch[e]
  BY WithoutApplies DEF FetchFails
<1>2. fetch[u] \in getting
  BY <1>1 DEF OneFetch
<1>3. IsFiniteSet(getting') /\ Cardinality(getting') = Cardinality(getting) - 1
  BY <1>2, FS_RemoveElement DEF FetchFails, Counters
<1>4. Taken' = Taken - 1
  BY <1>3, TakenIsNat DEF FetchFails, Taken
<1>5. Cardinality(getting') \in Nat
  BY <1>3, FS_CardinalityType
<1>6. count \in Nat /\ count >= Taken /\ count' = count - 1
  BY DEF TypeOK, Counters, FetchFails
<1>7. Taken >= 1 /\ count' \in Nat
  BY <1>3, <1>5, <1>6, TakenIsNat DEF Taken
<1>8. TypeOK'
  <2>1. IsMap(fetch', User, Key)
    BY WithoutIsAMap DEF FetchFails, TypeOK
  <2>. QED  BY <1>1, <1>7, <2>1 DEF FetchFails, TypeOK
<1>9. OneFetch'
  BY <1>1, <1>2 DEF FetchFails, OneFetch
<1>10. OneObject'
  BY DEF FetchFails, OneObject
<1>11. Counters'
  <2>1. \A j : Users(j)' = Users(j)
    BY DEF FetchFails, Users
  <2>2. MaxResource > 0 => count' <= MaxResource
    BY <1>6 DEF Counters
  <2>3. count' >= Taken' /\ (~closed' => count' = Taken')
    BY <1>4, <1>6, TakenIsNat DEF Counters, FetchFails
  <2>. QED  BY <1>3, <2>1, <2>2, <2>3 DEF FetchFails, Counters
<1>. QED  BY <1>8, <1>9, <1>10, <1>11

LEMMA FetchedKeeps ==
  ASSUME Inv, NEW u \in User, NEW o \in Obj, Fetched(u, o)
  PROVE  Inv'
<1>. USE DEF Inv
<1>. PICK k \in Key : k = fetch[u]
  BY DEF Fetched, TypeOK, IsMap
<1>0. /\ hold' = Put(hold, u, <<k, o>>) /\ <<k, o>>[1] = k
      /\ cache' = Put(cache, k, o)
      /\ references' = Put(references, k, 1)
  BY DEF Fetched
<1>1. /\ u \in DOMAIN fetch /\ u \notin DOMAIN hold
      /\ k \in getting /\ k \notin DOMAIN cache
  BY DEF Fetched, TypeOK, IsMap, OneFetch
<1>2. /\ DOMAIN fetch' = DOMAIN fetch \ {u}
      /\ \A e \in DOMAIN fetch : e # u => fetch'[e] = fetch[e]
  BY WithoutApplies DEF Fetched
<1>3. /\ DOMAIN hold' = DOMAIN hold \cup {u}
      /\ hold'[u] = <<k, o>>
      /\ \A e \in DOMAIN hold : e # u => hold'[e] = hold[e]
  BY <1>0 DEF Put
<1>4. /\ DOMAIN cache' = DOMAIN cache \cup {k}
      /\ cache'[k] = o
      /\ \A e \in DOMAIN cache : e # k => cache'[e] = cache[e]
  BY <1>0 DEF Put
<1>5. /\ DOMAIN references' = DOMAIN references \cup {k}
      /\ references'[k] = 1
      /\ \A e \in DOMAIN references : e # k => references'[e] = references[e]
  BY <1>0 DEF Put
<1>6. getting' = getting \ {k} /\ count' = count /\ closed' = closed
  BY DEF Fetched
<1>7. TypeOK'
  <2>1. IsMap(hold', User, Key \X Obj)
    BY <1>0, PutIsAMap DEF TypeOK
  <2>2. IsMap(cache', Key, Obj)
    BY <1>0, PutIsAMap DEF TypeOK
  <2>3. IsMap(references', Key, Nat \ {0})
    BY <1>0, PutIsAMap DEF TypeOK
  <2>4. IsMap(fetch', User, Key)
    BY WithoutIsAMap DEF Fetched, TypeOK
  <2>5. DOMAIN fetch' \cap DOMAIN hold' = {}
    BY <1>2, <1>3 DEF TypeOK
  <2>. QED  BY <1>6, <2>1, <2>2, <2>3, <2>4, <2>5 DEF TypeOK
<1>8. OneFetch'
  BY <1>1, <1>2, <1>4, <1>6 DEF OneFetch
<1>9. OneObject'
  BY <1>1, <1>3, <1>4, <1>6 DEF OneObject
<1>10. Counters'
  <2>1. IsFiniteSet(DOMAIN hold')
    BY <1>3, FS_AddElement DEF Counters
  <2>2. /\ IsFiniteSet(DOMAIN cache')
        /\ Cardinality(DOMAIN cache') = Cardinality(DOMAIN cache) + 1
    BY <1>1, <1>4, FS_AddElement DEF Counters
  <2>3. IsFiniteSet(getting') /\ Cardinality(getting') = Cardinality(getting) - 1
    BY <1>1, <1>6, FS_RemoveElement DEF Counters
  <2>4. Taken' = Taken
    BY <2>2, <2>3, TakenIsNat DEF Taken
  <2>5. /\ Users(k)' = Users(k) \cup {u}
        /\ \A j : j # k => Users(j)' = Users(j)
    BY <1>0, <1>1, UsersGain, Zenon
  <2>6. ~closed => Users(k) = {}
    BY <1>1 DEF Users, OneObject
  <2>7. ~closed => Cardinality(Users(k)') = 1
    BY <2>5, <2>6, FS_Singleton
  <2>8. ~closed' => \A j \in DOMAIN cache' : references'[j] = Cardinality(Users(j))'
    <3>. SUFFICES ASSUME ~closed, NEW j \in DOMAIN cache'
                  PROVE  references'[j] = Cardinality(Users(j)')
      BY <1>6
    <3>1. CASE j = k
      BY <1>5, <2>7, <3>1
    <3>2. CASE j # k
      <4>1. j \in DOMAIN cache /\ j \in DOMAIN references /\ Users(j)' = Users(j)
        BY <1>4, <2>5, <3>2 DEF Counters
      <4>. QED  BY <1>5, <3>2, <4>1 DEF Counters
    <3>. QED  BY <3>1, <3>2
  <2>9. DOMAIN references' = DOMAIN cache'
    BY <1>4, <1>5 DEF Counters
  <2>. QED  BY <1>6, <2>1, <2>2, <2>3, <2>4, <2>8, <2>9 DEF Counters
<1>. QED  BY <1>7, <1>8, <1>9, <1>10

LEMMA ReleaseGoneKeeps ==
  ASSUME Inv, NEW u \in User, ReleaseGone(u)
  PROVE  Inv'
<1>. USE DEF Inv
<1>1. /\ u \in DOMAIN hold
      /\ DOMAIN hold' = DOMAIN hold \ {u}
      /\ \A e \in DOMAIN hold : e # u => hold'[e] = hold[e]
  BY WithoutApplies DEF ReleaseGone
<1>2. closed
  BY <1>1 DEF ReleaseGone, OneObject, Counters, TypeOK
<1>3. TypeOK'
  <2>1. IsMap(hold', User, Key \X Obj)
    BY WithoutIsAMap DEF ReleaseGone, TypeOK
  <2>. QED  BY <1>1, <2>1 DEF ReleaseGone, TypeOK
<1>4. OneFetch' /\ OneObject'
  BY <1>2 DEF ReleaseGone, OneFetch, OneObject
<1>5. IsFiniteSet(DOMAIN hold')
  BY <1>1, FS_RemoveElement DEF Counters
<1>6. Counters'
  BY <1>2, <1>5 DEF ReleaseGone, Counters, Taken
<1>. QED  BY <1>3, <1>4, <1>6

LEMMA ReleaseSharedKeeps ==
  ASSUME Inv, NEW u \in User, ReleaseShared(u)
  PROVE  Inv'
<1>. USE DEF Inv
<1>. PICK k : k = hold[u][1]
  OBVIOUS
<1>1. /\ u \in DOMAIN hold /\ k \in DOMAIN references
      /\ DOMAIN hold' = DOMAIN hold \ {u}
      /\ \A e \in DOMAIN hold : e # u => hold'[e] = hold[e]
  BY WithoutApplies DEF ReleaseShared
<1>2. references[k] \in Nat \ {0, 1}
  BY <1>1 DEF ReleaseShared, TypeOK, IsMap
<1>3. TypeOK'
  <2>1. IsMap(hold', User, Key \X Obj)
    BY WithoutIsAMap DEF ReleaseShared, TypeOK
  <2>2. IsMap(references', Key, Nat \ {0})
    BY <1>2 DEF ReleaseShared, TypeOK, IsMap
  <2>. QED  BY <1>1, <2>1, <2>2 DEF ReleaseShared, TypeOK
<1>4. OneFetch'
  BY DEF ReleaseShared, OneFetch
<1>5. OneObject'
  BY <1>1 DEF ReleaseShared, OneObject
<1>6. Counters'
  <2>1. IsFiniteSet(DOMAIN hold')
    BY <1>1, FS_RemoveElement DEF Counters
  <2>2. /\ Users(k)' = Users(k) \ {u} /\ u \in Users(k)
        /\ \A j : j # k => Users(j)' = Users(j)
    BY <1>1, UsersLose DEF ReleaseShared
  <2>3. Cardinality(Users(k)') = Cardinality(Users(k)) - 1
    BY <2>2, UsersFinite, FS_RemoveElement
  <2>4. ~closed' => \A j \in DOMAIN cache' : references'[j] = Cardinality(Users(j))'
    <3>. SUFFICES ASSUME ~closed, NEW j \in DOMAIN cache
                  PROVE  references'[j] = Cardinality(Users(j)')
      BY DEF ReleaseShared
    <3>1. CASE j = k
      BY <1>1, <2>3, <3>1 DEF ReleaseShared, Counters
    <3>2. CASE j # k
      BY <2>2, <3>2 DEF ReleaseShared, Counters
    <3>. QED  BY <3>1, <3>2
  <2>5. DOMAIN references' = DOMAIN cache'
    BY DEF ReleaseShared, Counters
  <2>6. Taken' = Taken
    BY DEF ReleaseShared, Taken
  <2>. QED  BY <2>1, <2>4, <2>5, <2>6 DEF ReleaseShared, Counters
<1>. QED  BY <1>3, <1>4, <1>5, <1>6

(* The room a resource leaves behind is at least one.                      *)
LEMMA LosesOne ==
  ASSUME Inv, NEW k \in DOMAIN cache, cache' = Without(cache, k), getting' = getting
  PROVE  /\ DOMAIN cache' = DOMAIN cache \ {k}
         /\ \A e \in DOMAIN cache : e # k => cache'[e] = cache[e]
         /\ IsFiniteSet(DOMAIN cache')
         /\ Taken' = Taken - 1
         /\ Taken \in Nat /\ Taken >= 1
         /\ count \in Nat /\ count >= 1
<1>. USE DEF Inv
<1>1. /\ DOMAIN cache' = DOMAIN cache \ {k}
      /\ \A e \in DOMAIN cache : e # k => cache'[e] = cache[e]
  BY WithoutApplies
<1>2. /\ IsFiniteSet(DOMAIN cache')
      /\ Cardinality(DOMAIN cache') = Cardinality(DOMAIN cache) - 1
  BY <1>1, FS_RemoveElement DEF Counters
<1>3. Cardinality(DOMAIN cache') \in Nat
  BY <1>2, FS_CardinalityType
<1>4. Taken' = Taken - 1 /\ Taken \in Nat /\ Taken >= 1
  BY <1>2, <1>3, TakenIsNat DEF Taken
<1>. QED  BY <1>1, <1>2, <1>4 DEF TypeOK, Counters

LEMMA ReleaseLastKeeps ==
  ASSUME MaxResource \in Nat, Inv, NEW u \in User, ReleaseLast(u)
  PROVE  Inv'
<1>. USE DEF Inv
<1>. PICK k : k = hold[u][1]
  OBVIOUS
<1>1. /\ u \in DOMAIN hold /\ k \in DOMAIN references /\ references[k] = 1
      /\ DOMAIN hold' = DOMAIN hold \ {u}
      /\ \A e \in DOMAIN hold : e # u => hold'[e] = hold[e]
  BY WithoutApplies DEF ReleaseLast, IsLastUser
<1>2. /\ DOMAIN references' = DOMAIN references \ {k}
      /\ \A e \in DOMAIN references : e # k => references'[e] = references[e]
  BY WithoutApplies DEF ReleaseLast
<1>3. k \in DOMAIN cache
  BY <1>1 DEF Counters
<1>4. /\ DOMAIN cache' = DOMAIN cache \ {k}
      /\ \A e \in DOMAIN cache : e # k => cache'[e] = cache[e]
      /\ IsFiniteSet(DOMAIN cache')
      /\ Taken' = Taken - 1
      /\ Taken \in Nat /\ Taken >= 1
      /\ count \in Nat /\ count >= 1
  BY <1>3, LosesOne DEF ReleaseLast
<1>5. count' = count - 1 /\ closed' = closed /\ getting' = getting /\ fetch' = fetch
  BY DEF ReleaseLast
<1>6. /\ Users(k)' = Users(k) \ {u} /\ u \in Users(k)
      /\ \A j : j # k => Users(j)' = Users(j)
  BY <1>1, UsersLose DEF ReleaseLast
<1>7. ~closed => Users(k) = {u}
  <2>1. ~closed => Cardinality(Users(k)) = 1
    BY <1>1, <1>3 DEF Counters
  <2>2. IsFiniteSet(Users(k))
    BY UsersFinite
  <2>. QED  BY <1>6, <2>1, <2>2, FS_Singleton
<1>8. TypeOK'
  <2>1. IsMap(hold', User, Key \X Obj)
    BY WithoutIsAMap DEF ReleaseLast, TypeOK
  <2>2. IsMap(cache', Key, Obj)
    BY WithoutIsAMap DEF ReleaseLast, TypeOK
  <2>3. IsMap(references', Key, Nat \ {0})
    BY WithoutIsAMap DEF ReleaseLast, TypeOK
  <2>. QED  BY <1>1, <1>4, <1>5, <2>1, <2>2, <2>3 DEF TypeOK
<1>9. OneFetch'
  BY <1>4, <1>5 DEF OneFetch
<1>10. OneObject'
  <2>. SUFFICES ASSUME ~closed, NEW w \in DOMAIN hold'
                PROVE  hold'[w][1] \in DOMAIN cache' /\ cache'[hold'[w][1]] = hold'[w][2]
    BY <1>5 DEF OneObject
  <2>1. w \in DOMAIN hold /\ w # u /\ hold'[w] = hold[w]
    BY <1>1
  <2>2. hold[w][1] # k
    BY <1>7, <2>1 DEF Users
  <2>. QED  BY <1>4, <2>1, <2>2 DEF OneObject
<1>11. Counters'
  <2>1. IsFiniteSet(DOMAIN hold')
    BY <1>1, FS_RemoveElement DEF Counters
  <2>2. ~closed' => \A j \in DOMAIN cache' : references'[j] = Cardinality(Users(j))'
    BY <1>2, <1>4, <1>5, <1>6 DEF Counters
  <2>3. count' >= Taken' /\ (~closed' => count' = Taken')
    BY <1>4, <1>5 DEF Counters
  <2>4. MaxResource > 0 => count' <= MaxResource
    BY <1>4, <1>5 DEF Counters
  <2>5. DOMAIN references' = DOMAIN cache'
    BY <1>2, <1>4 DEF Counters
  <2>. QED  BY <1>4, <1>5, <2>1, <2>2, <2>3, <2>4, <2>5 DEF Counters
<1>. QED  BY <1>8, <1>9, <1>10, <1>11

LEMMA CloseKeeps ==
  ASSUME Inv, NEW k \in Key, CloseLetsGo(k)
  PROVE  Inv'
<1>. USE DEF Inv
<1>1. k \in DOMAIN cache /\ closed'
  BY DEF CloseLetsGo
<1>2. /\ DOMAIN references' = DOMAIN references \ {k}
      /\ \A e \in DOMAIN references : e # k => references'[e] = references[e]
  BY WithoutApplies DEF CloseLetsGo
<1>3. /\ DOMAIN cache' = DOMAIN cache \ {k}
      /\ IsFiniteSet(DOMAIN cache')
      /\ Taken' = Taken - 1
      /\ Taken \in Nat /\ count \in Nat
  BY <1>1, LosesOne DEF CloseLetsGo
<1>4. TypeOK'
  <2>1. IsMap(cache', Key, Obj) /\ IsMap(references', Key, Nat \ {0})
    BY WithoutIsAMap DEF CloseLetsGo, TypeOK
  <2>. QED  BY <1>1, <2>1 DEF CloseLetsGo, TypeOK
<1>5. OneFetch'
  BY <1>3 DEF CloseLetsGo, OneFetch
<1>6. OneObject'
  BY <1>1 DEF OneObject
<1>7. count' >= Taken'
  BY <1>3 DEF CloseLetsGo, Counters
<1>8. Counters'
  BY <1>1, <1>2, <1>3, <1>7 DEF CloseLetsGo, Counters
<1>. QED  BY <1>4, <1>5, <1>6, <1>8

LEMMA CloseEmptyKeeps ==
  ASSUME Inv, CloseEmpty
  PROVE  Inv'
BY DEF Inv, CloseEmpty, TypeOK, OneFetch, OneObject, Counters, Taken

LEMMA Stutters ==
  ASSUME Inv, UNCHANGED vars
  PROVE  Inv'
<1>. USE DEF Inv, vars
<1>1. \A k : Users(k)' = Users(k)
  BY DEF Users
<1>2. TypeOK' /\ OneFetch' /\ OneObject'
  BY DEF TypeOK, OneFetch, OneObject
<1>3. Counters'
  BY <1>1 DEF Counters, Taken
<1>. QED  BY <1>2, <1>3

LEMMA NextInv ==
  ASSUME MaxResource \in Nat, Inv, [Next]_vars
  PROVE  Inv'
<1>1. CASE UNCHANGED vars
  BY <1>1, Stutters
<1>2. ASSUME NEW u \in User, NEW k \in Key, GetHit(u, k) PROVE Inv'
  BY <1>2, GetHitKeeps
<1>3. ASSUME NEW u \in User, NEW k \in Key, GetFull(u, k) PROVE Inv'
  BY <1>3, Stutters DEF GetFull
<1>4. ASSUME NEW u \in User, NEW k \in Key, GetMiss(u, k) PROVE Inv'
  BY <1>4, GetMissKeeps
<1>5. ASSUME NEW u \in User, FetchFails(u) PROVE Inv'
  BY <1>5, FetchFailsKeeps
<1>6. ASSUME NEW u \in User, NEW o \in Obj, Fetched(u, o) PROVE Inv'
  BY <1>6, FetchedKeeps
<1>7. ASSUME NEW u \in User, ReleaseGone(u) PROVE Inv'
  BY <1>7, ReleaseGoneKeeps
<1>8. ASSUME NEW u \in User, ReleaseShared(u) PROVE Inv'
  BY <1>8, ReleaseSharedKeeps
<1>9. ASSUME NEW u \in User, ReleaseLast(u) PROVE Inv'
  BY <1>9, ReleaseLastKeeps
<1>10. ASSUME NEW k \in Key, CloseLetsGo(k) PROVE Inv'
  BY <1>10, CloseKeeps
<1>11. CASE CloseEmpty
  BY <1>11, CloseEmptyKeeps
<1>. QED
  BY <1>1, <1>2, <1>3, <1>4, <1>5, <1>6, <1>7, <1>8, <1>9, <1>10, <1>11 DEF Next

----------------------------------------------------------------------------
LEMMA InvHolds == ASSUME MaxResource \in Nat PROVE Spec => []Inv
<1>1. Init => Inv
  BY InitInv
<1>2. Inv /\ [Next]_vars => Inv'
  BY NextInv
<1>. QED  BY <1>1, <1>2, PTL DEF Spec

(* The maps of the cache have their types, whatever the limit.             *)
THEOREM CacheTypeCorrect == ASSUME MaxResource \in Nat PROVE Spec => []TypeOK
<1>1. Inv => TypeOK
  BY DEF Inv
<1>. QED  BY <1>1, InvHolds, PTL

(* One fetch of a key at a time, and none of a key that is kept.           *)
THEOREM FetchedOnce == ASSUME MaxResource \in Nat PROVE Spec => []OneFetch
<1>1. Inv => OneFetch
  BY DEF Inv
<1>. QED  BY <1>1, InvHolds, PTL

(* All users of a key share the one resource that is kept for it.          *)
THEOREM SharedObject == ASSUME MaxResource \in Nat PROVE Spec => []OneObject
<1>1. Inv => OneObject
  BY DEF Inv
<1>. QED  BY <1>1, InvHolds, PTL

(* The counter of a key is the number of its users.                        *)
THEOREM ReferencesCountUsers == ASSUME MaxResource \in Nat PROVE Spec => []ReferencesAreUsers
<1>1. Inv => ReferencesAreUsers
  BY DEF Inv, Counters, ReferencesAreUsers
<1>. QED  BY <1>1, InvHolds, PTL

(* count is the room taken, and stays within the limit.                    *)
THEOREM RoomIsCounted == ASSUME MaxResource \in Nat PROVE Spec => []RoomIsAccounted
<1>1. Inv => RoomIsAccounted
  BY DEF Inv, Counters, Taken, RoomIsAccounted
<1>. QED  BY <1>1, InvHolds, PTL
=============================================================================
