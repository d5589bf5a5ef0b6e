-------------------------- MODULE CacheManagerProofs --------------------------
(***************************************************************************)
(* Theorems about CacheManager, for all names, routers, policies, sizes,   *)
(* freshness times and bounds.                                             *)
(*                                                                         *)
(* The directory is right because SetEntry tells the manager exactly what  *)
(* it did to the Cache; that in turn needs the victims, which EvictEntry   *)
(* takes from the PolicyIndex, to be in the Cache.  The inductive          *)
(* invariant therefore joins the types, the agreement of the containers    *)
(* and the agreement of the table with the caches.                         *)
(***************************************************************************)
EXTENDS CacheManager, FiniteSetTheorems, WellFoundedInduction, TLAPS

-----------------------------------------------------------------------------
(* Least and greatest numbers. *)

\* A non-empty set of natural numbers has a least element.
LEMMA MinimumExists ==
  ASSUME NEW T \in SUBSET Nat, T # {}
  PROVE  \E x \in T : \A y \in T : x <= y
<1>1. PICK x \in T : \A y \in T : ~(<<y, x>> \in OpToRel(<, Nat))
  BY NatLessThanWellFounded, WFMin, Zenon
<1>2. \A y \in T : ~(y < x)
  BY <1>1 DEF OpToRel
<1>3. \A y \in T : x <= y
  BY <1>2
<1> QED
  BY <1>3

\* A non-empty bounded set of natural numbers contains its maximum.
LEMMA MaximumExists ==
  ASSUME NEW b \in Nat, NEW T \in SUBSET (0 .. b), T # {}
  PROVE  Max(T) \in T /\ \A y \in T : Max(T) >= y
<1> DEFINE U == {b - x : x \in T}
<1>0. T \subseteq 0 .. b /\ \A x \in 0 .. b : b - x \in Nat
  OBVIOUS
<1>1. U \in SUBSET Nat /\ U # {}
  BY <1>0
<1>2. PICK u \in U : \A v \in U : u <= v
  BY <1>1, MinimumExists
<1>3. PICK x \in T : u = b - x
  OBVIOUS
<1>4. \A y \in T : b - y \in U
  OBVIOUS
<1>5. \A y \in T : x >= y
  <2> TAKE y \in T
  <2>1. b - x <= b - y
    BY <1>2, <1>3, <1>4
  <2>2. x \in Int /\ y \in Int /\ b \in Int
    BY <1>0
  <2> QED
    BY <2>1, <2>2
<1> QED
  BY <1>5 DEF Max

\* A store that holds something has a first group to evict from.
LEMMA FirstGroupInhabited ==
  ASSUME NEW p, IsPolicyIndex(p), DOMAIN p # {}
  PROVE  FirstGroup(p) # {}
<1> DEFINE T == {p[n] : n \in DOMAIN p}
<1>1. T \in SUBSET Nat /\ T # {}
  BY DEF IsPolicyIndex
<1>2. PICK x \in T : \A y \in T : x <= y
  BY <1>1, MinimumExists
<1>3. PICK n \in DOMAIN p : x = p[n]
  OBVIOUS
<1> QED
  BY <1>2, <1>3 DEF FirstGroup

-----------------------------------------------------------------------------
(* The types of the virtual methods. *)

\* A new entry is in range.
LEMMA EntryType ==
  ASSUME NEW t \in Times, NEW ttl \in Ttls
  PROVE  CreateEntry(t, ttl) \in CacheEntry
BY PolicyAssumption, BoundAssumption
   DEF CreateEntry, FifoCreateEntry, LruCreateEntry, LfuCreateEntry,
       SucCreateEntry, CacheEntry

\* The maximum that SUC divides by is a positive number, and no less than the
\* use count that is divided.
LEMMA FrequencyMaxType ==
  ASSUME NEW c, IsCache(c), NEW e \in CacheEntry
  PROVE  FrequencyMax(c, e) \in 1 .. MaxFrequency /\ FrequencyMax(c, e) >= e.frequency
<1> DEFINE F == {e.frequency} \cup {c[n].frequency : n \in DOMAIN c}
<1>1. F \in SUBSET (1 .. MaxFrequency) /\ F # {}
  BY DEF IsCache, CacheEntry
<1>2. F \in SUBSET (0 .. MaxFrequency)
  BY <1>1
<1>3. Max(F) \in F /\ \A y \in F : Max(F) >= y
  BY <1>1, <1>2, MaximumExists, BoundAssumption
<1> QED
  BY <1>1, <1>3 DEF FrequencyMax

LEMMA RangeType == UintRange \in Nat \ {0}
BY RangeAssumption

\* An index of SUC is a natural number, whatever wraps around.
LEMMA SucIndexType ==
  ASSUME NEW c, IsCache(c), NEW e \in CacheEntry
  PROVE  SucCreateIndex(c, e) \in Nat
<1>1. FrequencyMax(c, e) \in Nat \ {0}
  BY FrequencyMaxType, BoundAssumption
<1>2. (e.frequency * 10000) % UintRange \in Nat
  BY BoundAssumption, RangeType DEF CacheEntry
<1>3. ((e.frequency * 10000) % UintRange) \div FrequencyMax(c, e) \in Int
  BY <1>1, <1>2
<1>4. HopShare(e.ttl) \in Int
  <2>1. e.ttl \in 0 .. 255
    <3>1. e.ttl \in Ttls \cup {0}
      BY DEF CacheEntry
    <3>2. Ttls \cup {0} \subseteq 0 .. 255
      BY BoundAssumption
    <3> QED
      BY <3>1, <3>2
  <2>2. \A i \in Int : (i * 20000) \div 64 \in Int /\ -((i * 20000) \div 64) \in Int
    OBVIOUS
  <2> QED
    BY <2>1, <2>2 DEF HopShare
<1>5. \A a \in Int : a % UintRange \in Nat
  BY RangeType
<1> DEFINE share == IF DOMAIN c = {} THEN 10000
                    ELSE ((e.frequency * 10000) % UintRange) \div FrequencyMax(c, e)
<1>6. share \in Int
  BY <1>3
<1>7. share + HopShare(e.ttl) \in Int
  <2> HIDE DEF share
  <2> QED BY <1>4, <1>6
<1>8. (share + HopShare(e.ttl)) % UintRange \in Nat
  <2> HIDE DEF share
  <2> QED BY <1>5, <1>7
<1> QED
  BY <1>8 DEF SucCreateIndex

\* So is an index of any policy.
LEMMA IndexType ==
  ASSUME NEW c, IsCache(c), NEW e \in CacheEntry
  PROVE  CreateIndex(c, e) \in Nat
<1>1. ToFloat(e.timestamp) \in Nat
  BY FloatAssumption DEF CacheEntry
<1>2. e.frequency \in Nat
  BY BoundAssumption DEF CacheEntry
<1> QED
  BY <1>1, <1>2, SucIndexType, PolicyAssumption
     DEF CreateIndex, FifoCreateIndex, LruCreateIndex, LfuCreateIndex

\* A use keeps an entry in range as long as its count does not exceed the
\* bound.
LEMMA UsedType ==
  ASSUME NEW e \in CacheEntry, NEW t \in Times,
         Used(e, t).frequency <= MaxFrequency
  PROVE  Used(e, t) \in CacheEntry
<1>1. /\ e.timestamp \in Times /\ e.ttl \in Ttls \cup {0}
      /\ e.frequency \in 1 .. MaxFrequency
      /\ e = [timestamp |-> e.timestamp, ttl |-> e.ttl, frequency |-> e.frequency]
  BY DEF CacheEntry
<1>2. CASE Policy = "FIFO"
  BY <1>2 DEF Used
<1>3. CASE Policy = "LRU"
  BY <1>1, <1>3 DEF Used, LruUsed, CacheEntry
<1>4. CASE Policy = "LFU"
  <2>1. Used(e, t) = [timestamp |-> e.timestamp, ttl |-> e.ttl,
                      frequency |-> e.frequency + 1]
    BY <1>1, <1>4 DEF Used, LfuUsed
  <2>2. e.frequency + 1 \in 1 .. MaxFrequency
    BY <1>1, <2>1, BoundAssumption
  <2> QED
    BY <1>1, <2>1, <2>2 DEF CacheEntry
<1>5. CASE Policy = "SUC"
  <2>1. Used(e, t) = [timestamp |-> t, ttl |-> e.ttl, frequency |-> e.frequency + 1]
    BY <1>1, <1>5 DEF Used, SucUsed
  <2>2. e.frequency + 1 \in 1 .. MaxFrequency
    BY <1>1, <2>1, BoundAssumption
  <2> QED
    BY <1>1, <2>1, <2>2 DEF CacheEntry
<1> QED
  BY <1>2, <1>3, <1>4, <1>5, PolicyAssumption

-----------------------------------------------------------------------------
(* What the containers hold after an erasure followed by an insertion. *)

\* g is f without the names in E and with v for n.
Replaced(g, f, E, n, v) ==
  /\ DOMAIN g = (DOMAIN f \ E) \cup {n}
  /\ g[n] = v
  /\ \A m \in (DOMAIN f \ E) \ {n} : g[m] = f[m]

\* Inserting into a Cache what it does not hold, after an erasure.
LEMMA CacheInsertion ==
  ASSUME NEW c, IsCache(c), NEW E, NEW n \in Names, n \notin DOMAIN c \ E,
         NEW e \in CacheEntry
  PROVE  /\ IsCache(InsertToCache(Without(c, E), n, e))
         /\ Replaced(InsertToCache(Without(c, E), n, e), c, E, n, e)
BY DEF InsertToCache, Without, Restrict, IsCache, Replaced

\* The same for a PolicyIndex.
LEMMA PolicyIndexInsertion ==
  ASSUME NEW p, IsPolicyIndex(p), NEW E, NEW n \in Names, n \notin DOMAIN p \ E,
         NEW i \in Nat
  PROVE  /\ IsPolicyIndex(InsertToPolicyIndex(Without(p, E), i, n))
         /\ Replaced(InsertToPolicyIndex(Without(p, E), i, n), p, E, n, i)
BY DEF InsertToPolicyIndex, Without, Restrict, IsPolicyIndex, Replaced

\* Erasing from a Cache leaves a Cache.
LEMMA WithoutType ==
  ASSUME NEW c, IsCache(c), NEW E
  PROVE  IsCache(Without(c, E)) /\ DOMAIN Without(c, E) = DOMAIN c \ E
BY DEF Without, Restrict, IsCache

\* EvictEntry erases at most one name, and one that is indexed.
LEMMA EvictionIsLocal ==
  ASSUME NEW c, NEW p, NEW t, NEW erased \in EvictEntry(c, p, t)
  PROVE  erased = {} \/ \E v \in DOMAIN p : erased = {v}
<1>1. Victims(c, p, t) \subseteq DOMAIN p
  BY PolicyAssumption
     DEF Victims, FifoVictims, LruVictims, LfuVictims, SucVictims, FirstGroup
<1> QED
  BY <1>1 DEF EvictEntry

-----------------------------------------------------------------------------
(* What one call does to the stores. *)

\* What Store leaves at the router.
Stored(r, n, ttl, erased) ==
  LET entry == CreateEntry(now, ttl)
  IN  /\ Replaced(cache'[r], cache[r], erased, n, entry)
      /\ Replaced(policyindex'[r], policyindex[r], erased, n,
                  CreateIndex(cache[r], entry))

\* The part of the inductive invariant that is about the stores alone.
StoresOK ==
  /\ DOMAIN cache = Routers /\ \A r \in Routers : IsCache(cache[r])
  /\ DOMAIN policyindex = Routers /\ \A r \in Routers : IsPolicyIndex(policyindex[r])
  /\ ContainersAgree
  /\ now \in Times

OnlyRouter(r) ==
  \A q \in Routers \ {r} : cache'[q] = cache[q] /\ policyindex'[q] = policyindex[q]

\* Store keeps the stores well-formed, whatever it erases, as long as it does
\* not find the name it inserts.
LEMMA StoreStep ==
  ASSUME StoresOK, NEW r \in Routers, NEW n \in Names, NEW ttl \in Ttls,
         NEW erased, n \notin DOMAIN cache[r] \ erased, Store(r, n, ttl, erased)
  PROVE  StoresOK' /\ Stored(r, n, ttl, erased) /\ OnlyRouter(r) /\ now' = now
<1> DEFINE entry == CreateEntry(now, ttl)
           index == CreateIndex(cache[r], entry)
           c == InsertToCache(Without(cache[r], erased), n, entry)
           p == InsertToPolicyIndex(Without(policyindex[r], erased), index, n)
<1>1. IsCache(cache[r]) /\ IsPolicyIndex(policyindex[r])
      /\ DOMAIN policyindex[r] = DOMAIN cache[r] /\ now \in Times
  BY DEF StoresOK, ContainersAgree
<1>2. entry \in CacheEntry /\ index \in Nat
  BY <1>1, EntryType, IndexType
<1>3. cache' = [cache EXCEPT ![r] = c] /\ policyindex' = [policyindex EXCEPT ![r] = p]
      /\ now' = now
  BY DEF Store
<1> HIDE DEF entry, index
<1>4. IsCache(c) /\ Replaced(c, cache[r], erased, n, entry)
  BY <1>1, <1>2, CacheInsertion
<1>5. IsPolicyIndex(p) /\ Replaced(p, policyindex[r], erased, n, index)
  BY <1>1, <1>2, PolicyIndexInsertion
<1> HIDE DEF c, p
<1>6. cache'[r] = c /\ policyindex'[r] = p /\ OnlyRouter(r)
  BY <1>3 DEF StoresOK, OnlyRouter
<1>7. StoresOK'
  BY <1>1, <1>3, <1>4, <1>5, <1>6 DEF StoresOK, ContainersAgree, OnlyRouter, Replaced
<1>8. Stored(r, n, ttl, erased)
  BY <1>1, <1>4, <1>5, <1>6 DEF Stored, entry, index
<1> QED
  BY <1>3, <1>6, <1>7, <1>8

\* A use changes nothing under FIFO; otherwise it replaces the entry and
\* files it under the index it has among the others.
FindKeeps(r, n) ==
  IF Policy = "FIFO"
  THEN cache'[r] = cache[r] /\ policyindex'[r] = policyindex[r]
  ELSE LET used == Used(cache[r][n], now)
       IN  /\ Replaced(cache'[r], cache[r], {n}, n, used)
           /\ Replaced(policyindex'[r], policyindex[r], {n}, n,
                       CreateIndex(Without(cache[r], {n}), used))

\* So does a use.
LEMMA FindStep ==
  ASSUME StoresOK, NEW r \in Routers, NEW n \in Names, Find(r, n)
  PROVE  StoresOK' /\ FindKeeps(r, n) /\ OnlyRouter(r)
         /\ cachedRouterTable' = cachedRouterTable /\ now' = now
<1> DEFINE updated == UpdateIndex(cache[r], policyindex[r], n, now)
           rest == Without(cache[r], {n})
           used == Used(cache[r][n], now)
           index == CreateIndex(rest, used)
<1>1. /\ IsCache(cache[r]) /\ IsPolicyIndex(policyindex[r])
      /\ DOMAIN policyindex[r] = DOMAIN cache[r] /\ now \in Times
      /\ n \in DOMAIN cache[r] /\ used.frequency <= MaxFrequency
  BY DEF StoresOK, ContainersAgree, Find
<1>2. /\ cache' = [cache EXCEPT ![r] = updated.cache]
      /\ policyindex' = [policyindex EXCEPT ![r] = updated.policyindex]
      /\ cachedRouterTable' = cachedRouterTable /\ now' = now
  BY DEF Find
<1>3. cache'[r] = updated.cache /\ policyindex'[r] = updated.policyindex /\ OnlyRouter(r)
  <2> HIDE DEF updated
  <2> QED BY <1>2 DEF StoresOK, OnlyRouter
<1>4. CASE Policy = "FIFO"
  <2>1. updated.cache = cache[r] /\ updated.policyindex = policyindex[r]
    BY <1>4 DEF UpdateIndex
  <2>2. FindKeeps(r, n)
    BY <1>3, <1>4, <2>1 DEF FindKeeps
  <2>3. StoresOK'
    <3> HIDE DEF updated
    <3> QED BY <1>2, <1>3, <2>1 DEF StoresOK, ContainersAgree, OnlyRouter
  <2> QED
    BY <1>2, <1>3, <2>2, <2>3
<1>5. CASE Policy # "FIFO"
  <2> DEFINE c == InsertToCache(rest, n, used)
             p == InsertToPolicyIndex(Without(policyindex[r], {n}), index, n)
  <2>1. updated.cache = c /\ updated.policyindex = p
    BY <1>5 DEF UpdateIndex
  <2>2. used \in CacheEntry
    BY <1>1, UsedType DEF IsCache
  <2>3. IsCache(rest)
    BY <1>1, WithoutType
  <2>4. index \in Nat
    <3> HIDE DEF rest, used
    <3> QED BY <2>2, <2>3, IndexType
  <2> HIDE DEF updated, used, index
  <2>5. IsCache(c) /\ Replaced(c, cache[r], {n}, n, used)
    <3>1. n \in Names /\ n \notin DOMAIN cache[r] \ {n}
      OBVIOUS
    <3> QED
      BY <1>1, <2>2, <3>1, CacheInsertion
  <2>6. IsPolicyIndex(p) /\ Replaced(p, policyindex[r], {n}, n, index)
    <3>1. n \in Names /\ n \notin DOMAIN policyindex[r] \ {n}
      OBVIOUS
    <3> QED
      BY <1>1, <2>4, <3>1, PolicyIndexInsertion
  <2>7. cache'[r] = c /\ policyindex'[r] = p
    BY <1>3, <2>1
  <2> HIDE DEF c, p
  <2>8. FindKeeps(r, n)
    BY <1>5, <2>5, <2>6, <2>7 DEF FindKeeps, index, used
  <2>9. StoresOK'
    BY <1>1, <1>2, <1>3, <2>5, <2>6, <2>7
       DEF StoresOK, ContainersAgree, OnlyRouter, Replaced
  <2> QED
    BY <1>2, <1>3, <2>8, <2>9
<1> QED
  BY <1>4, <1>5

-----------------------------------------------------------------------------
(* The directory. *)

\* The table after an eviction and an insertion at r: it mirrors caches that
\* differ from the present ones in exactly that.
LEMMA TableStep ==
  ASSUME cachedRouterTable \in [Names -> [Routers -> Nat]], DirectoryMirrorsCaches,
         NEW r \in Routers, NEW n \in Names, n \notin DOMAIN cache[r],
         NEW E \in SUBSET DOMAIN cache[r],
         NEW table, table = SetCachedRouterEntry(
                              EvictCachedRouterEntry(cachedRouterTable, r, E), r, n)
  PROVE  /\ table \in [Names -> [Routers -> Nat]]
         /\ \A m \in Names, q \in Routers \ {r} :
              table[m][q] = cachedRouterTable[m][q]
         /\ \A m \in Names :
              table[m][r] = IF m \in (DOMAIN cache[r] \ E) \cup {n} THEN 1 ELSE 0
<1> DEFINE evicted == EvictCachedRouterEntry(cachedRouterTable, r, E)
<1>1. \A m \in Names, q \in Routers :
        cachedRouterTable[m][q] = IF m \in DOMAIN cache[q] THEN 1 ELSE 0
  BY DEF DirectoryMirrorsCaches
<1>2. /\ evicted \in [Names -> [Routers -> Nat]]
      /\ \A m \in Names, q \in Routers \ {r} : evicted[m][q] = cachedRouterTable[m][q]
      /\ \A m \in Names :
           evicted[m][r] = IF m \in DOMAIN cache[r] \ E THEN 1 ELSE 0
  <2>1. \A m \in Names :
          evicted[m] = IF m \in E /\ cachedRouterTable[m][r] > 0
                       THEN [cachedRouterTable[m] EXCEPT ![r] = @ - 1]
                       ELSE cachedRouterTable[m]
    BY DEF EvictCachedRouterEntry
  <2>2. \A m \in Names : cachedRouterTable[m] \in [Routers -> Nat]
    OBVIOUS
  <2>3. ASSUME NEW m \in Names
        PROVE  /\ evicted[m] \in [Routers -> Nat]
               /\ \A q \in Routers \ {r} : evicted[m][q] = cachedRouterTable[m][q]
               /\ evicted[m][r] = IF m \in DOMAIN cache[r] \ E THEN 1 ELSE 0
    <3> HIDE DEF evicted
    <3>1. CASE m \in E
      <4>1. cachedRouterTable[m][r] = 1
        BY <1>1, <3>1
      <4>2. evicted[m] = [cachedRouterTable[m] EXCEPT ![r] = 0]
        BY <2>1, <3>1, <4>1
      <4> QED
        BY <2>2, <3>1, <4>2
    <3>2. CASE m \notin E
      <4>1. evicted[m] = cachedRouterTable[m]
        BY <2>1, <3>2
      <4>2. cachedRouterTable[m][r] = IF m \in DOMAIN cache[r] \ E THEN 1 ELSE 0
        BY <1>1, <3>2
      <4> QED
        BY <2>2, <4>1, <4>2
    <3> QED
      BY <3>1, <3>2
  <2>4. evicted = [m \in Names |-> evicted[m]]
    BY Zenon DEF EvictCachedRouterEntry
  <2> HIDE DEF evicted
  <2> QED
    BY <2>3, <2>4
<1>3. table = [evicted EXCEPT ![n][r] = @ + 1]
  BY DEF SetCachedRouterEntry
<1> HIDE DEF evicted
<1>4. /\ \A m \in Names \ {n} : table[m] = evicted[m]
      /\ table[n] = [evicted[n] EXCEPT ![r] = @ + 1]
      /\ evicted[n] \in [Routers -> Nat] /\ evicted[n][r] = 0
  BY <1>2, <1>3
<1>5. table[n] \in [Routers -> Nat] /\ table[n][r] = 1
      /\ \A q \in Routers \ {r} : table[n][q] = evicted[n][q]
  BY <1>4
<1>6. table \in [Names -> [Routers -> Nat]]
  BY <1>2, <1>3, <1>4, <1>5
<1>7. \A m \in Names, q \in Routers \ {r} : table[m][q] = cachedRouterTable[m][q]
  <2> TAKE m \in Names, q \in Routers \ {r}
  <2>1. evicted[m][q] = cachedRouterTable[m][q]
    BY <1>2
  <2> QED
    BY <1>4, <1>5, <2>1
<1>8. \A m \in Names :
        table[m][r] = IF m \in (DOMAIN cache[r] \ E) \cup {n} THEN 1 ELSE 0
  <2> TAKE m \in Names
  <2>1. CASE m = n
    BY <1>5, <2>1
  <2>2. CASE m # n
    BY <1>2, <1>4, <2>2
  <2> QED
    BY <2>1, <2>2
<1> QED
  BY <1>6, <1>7, <1>8

\* Evicting nothing leaves the table alone.
LEMMA NothingEvicted ==
  ASSUME cachedRouterTable \in [Names -> [Routers -> Nat]], NEW r \in Routers
  PROVE  EvictCachedRouterEntry(cachedRouterTable, r, {}) = cachedRouterTable
BY DEF EvictCachedRouterEntry

\* The inductive invariant.
DirectoryInv == StoresOK /\ TypeOK /\ DirectoryMirrorsCaches

\* The caches are empty and nothing is listed.
LEMMA DirectoryInit ==
  ASSUME Init
  PROVE  DirectoryInv
<1>1. IsCache(Empty) /\ IsPolicyIndex(Empty) /\ DOMAIN Empty = {}
  BY DEF IsCache, IsPolicyIndex, Empty
<1>2. now \in Times
  BY BoundAssumption DEF Init, Times
<1>3. StoresOK
  BY <1>1, <1>2 DEF Init, StoresOK, ContainersAgree
<1>4. TypeOK
  BY <1>1, <1>2 DEF Init, TypeOK
<1>5. DirectoryMirrorsCaches
  BY <1>1 DEF Init, DirectoryMirrorsCaches
<1> QED
  BY <1>3, <1>4, <1>5 DEF DirectoryInv

\* Inserting new content, after erasing what is cached, keeps the directory
\* right: a single pair is listed for it and the pairs of the erased go.
LEMMA DirectoryInsert ==
  ASSUME DirectoryInv, NEW r \in Routers, NEW n \in Names, NEW ttl \in Ttls,
         NEW E \in SUBSET DOMAIN cache[r], IsUnique(cache[r], n), Store(r, n, ttl, E),
         cachedRouterTable' = SetCachedRouterEntry(
                                EvictCachedRouterEntry(cachedRouterTable, r, E), r, n)
  PROVE  DirectoryInv'
<1>1. n \notin DOMAIN cache[r]
  BY DEF IsUnique
<1>2. StoresOK' /\ Stored(r, n, ttl, E) /\ OnlyRouter(r)
  BY <1>1, StoreStep DEF DirectoryInv
<1>3. /\ cachedRouterTable' \in [Names -> [Routers -> Nat]]
      /\ \A m \in Names, q \in Routers \ {r} :
           cachedRouterTable'[m][q] = cachedRouterTable[m][q]
      /\ \A m \in Names :
           cachedRouterTable'[m][r] =
             IF m \in (DOMAIN cache[r] \ E) \cup {n} THEN 1 ELSE 0
  BY <1>1, TableStep DEF DirectoryInv, TypeOK
<1>4. DOMAIN cache'[r] = (DOMAIN cache[r] \ E) \cup {n}
  BY <1>2 DEF Stored, Replaced
<1>5. DirectoryMirrorsCaches'
  BY <1>2, <1>3, <1>4 DEF DirectoryMirrorsCaches, OnlyRouter, DirectoryInv
<1> QED
  BY <1>2, <1>3, <1>5 DEF DirectoryInv, TypeOK, StoresOK

\* A step that stores the same names as before and leaves the table alone.
LEMMA DirectoryKept ==
  ASSUME DirectoryInv, StoresOK', cachedRouterTable' = cachedRouterTable,
         \A q \in Routers : DOMAIN cache'[q] = DOMAIN cache[q]
  PROVE  DirectoryInv'
BY DEF DirectoryInv, TypeOK, StoresOK, DirectoryMirrorsCaches

\* Every step keeps the invariant.
LEMMA DirectoryNext ==
  ASSUME DirectoryInv, [Next]_cmVars
  PROVE  DirectoryInv'
<1>1. ASSUME NEW r \in Routers, NEW n \in Names, NEW ttl \in Ttls,
             StoreByEviction(r, n, ttl)
      PROVE  DirectoryInv'
  <2>1. PICK E \in EvictEntry(cache[r], policyindex[r], now) :
          /\ Store(r, n, ttl, E)
          /\ cachedRouterTable' =
               SetCachedRouterEntry(
                 EvictCachedRouterEntry(cachedRouterTable, r, E), r, n)
    BY <1>1 DEF StoreByEviction
  <2>2. E = {} \/ \E v \in DOMAIN policyindex[r] : E = {v}
    BY EvictionIsLocal
  <2>3. E \in SUBSET DOMAIN cache[r]
    BY <2>2 DEF DirectoryInv, StoresOK, ContainersAgree
  <2>4. IsUnique(cache[r], n)
    BY <1>1 DEF StoreByEviction
  <2> QED
    BY <2>1, <2>3, <2>4, DirectoryInsert
<1>2. ASSUME NEW r \in Routers, NEW n \in Names, NEW ttl \in Ttls,
             StoreInFreeSlot(r, n, ttl)
      PROVE  DirectoryInv'
  <2>1. EvictCachedRouterEntry(cachedRouterTable, r, {}) = cachedRouterTable
    BY NothingEvicted DEF DirectoryInv, TypeOK
  <2>2. /\ IsUnique(cache[r], n) /\ Store(r, n, ttl, {})
        /\ cachedRouterTable' =
             SetCachedRouterEntry(
               EvictCachedRouterEntry(cachedRouterTable, r, {}), r, n)
    BY <1>2, <2>1 DEF StoreInFreeSlot
  <2>3. {} \in SUBSET DOMAIN cache[r]
    OBVIOUS
  <2> QED
    BY <2>2, <2>3, DirectoryInsert
<1>3. ASSUME NEW r \in Routers, NEW n \in Names, NEW ttl \in Ttls,
             ReplaceEntry(r, n, ttl)
      PROVE  DirectoryInv'
  <2>1. n \in DOMAIN cache[r] /\ Store(r, n, ttl, {n})
        /\ cachedRouterTable' = cachedRouterTable
    BY <1>3 DEF ReplaceEntry, IsUnique
  <2>2. n \notin DOMAIN cache[r] \ {n}
    OBVIOUS
  <2>3. StoresOK' /\ Stored(r, n, ttl, {n}) /\ OnlyRouter(r)
    BY <2>1, <2>2, StoreStep DEF DirectoryInv
  <2>4. \A q \in Routers : DOMAIN cache'[q] = DOMAIN cache[q]
    BY <2>1, <2>3 DEF Stored, Replaced, OnlyRouter
  <2> QED
    BY <2>1, <2>3, <2>4, DirectoryKept
<1>4. ASSUME NEW r \in Routers, NEW n \in Names, ServeRequest(r, n)
      PROVE  DirectoryInv'
  <2>1. Find(r, n) /\ n \in DOMAIN cache[r]
    BY <1>4 DEF ServeRequest, Find
  <2>2. StoresOK' /\ FindKeeps(r, n) /\ OnlyRouter(r)
        /\ cachedRouterTable' = cachedRouterTable
    BY <2>1, FindStep DEF DirectoryInv
  <2>3. \A q \in Routers : DOMAIN cache'[q] = DOMAIN cache[q]
    BY <2>1, <2>2 DEF FindKeeps, Replaced, OnlyRouter
  <2> QED
    BY <2>2, <2>3, DirectoryKept
<1>5. CASE Tick
  <2>1. now' \in Times
    BY <1>5, BoundAssumption DEF Tick, DirectoryInv, StoresOK, Times
  <2> QED
    BY <1>5, <2>1
       DEF Tick, DirectoryInv, StoresOK, TypeOK, ContainersAgree, DirectoryMirrorsCaches
<1>6. CASE UNCHANGED cmVars
  BY <1>6 DEF cmVars, DirectoryInv, StoresOK, TypeOK, ContainersAgree,
              DirectoryMirrorsCaches
<1> QED
  BY <1>1, <1>2, <1>3, <1>4, <1>5, <1>6 DEF Next, EntrySet, RefuseEntry

\* The invariant holds throughout.
THEOREM DirectoryInvariant == Spec => []DirectoryInv
<1>1. Init => DirectoryInv
  BY DirectoryInit
<1>2. DirectoryInv /\ [Next]_cmVars => DirectoryInv'
  BY DirectoryNext
<1> QED
  BY <1>1, <1>2, PTL DEF Spec

\* The variables of the routers and of the manager stay in their types, in
\* particular no multiplicity of the table goes below zero and no index
\* leaves the natural numbers.
THEOREM TypeCorrect == Spec => []TypeOK
<1>1. DirectoryInv => TypeOK
  BY DEF DirectoryInv
<1> QED
  BY <1>1, DirectoryInvariant, PTL

\* The Cache and the PolicyIndex of a router always hold the same names.
THEOREM ContainersCorrect == Spec => []ContainersAgree
<1>1. DirectoryInv => ContainersAgree
  BY DEF DirectoryInv, StoresOK
<1> QED
  BY <1>1, DirectoryInvariant, PTL

\* The manager lists a router for a name exactly while the router caches it.
THEOREM DirectoryCorrect == Spec => []DirectoryMirrorsCaches
<1>1. DirectoryInv => DirectoryMirrorsCaches
  BY DEF DirectoryInv
<1> QED
  BY <1>1, DirectoryInvariant, PTL

-----------------------------------------------------------------------------
(* The index of a name. *)

\* Outside SUC an index depends on the entry alone, not on the other entries.
LEMMA IndexOfEntry ==
  ASSUME Policy # "SUC", NEW c, NEW d, NEW e
  PROVE  CreateIndex(c, e) = CreateIndex(d, e)
BY PolicyAssumption DEF CreateIndex

\* IndexIsCurrent, given that the containers agree, at one router.
IndexCurrentAt(r) ==
  \A n \in DOMAIN cache[r] : policyindex[r][n] = CreateIndex({}, cache[r][n])

\* Replacing an entry and its index by an entry and the index it has.
LEMMA IndexReplaced ==
  ASSUME Policy # "SUC", NEW r, IndexCurrentAt(r), ContainersAgree, r \in Routers,
         NEW E, NEW n, NEW e, NEW c,
         Replaced(cache'[r], cache[r], E, n, e),
         Replaced(policyindex'[r], policyindex[r], E, n, CreateIndex(c, e))
  PROVE  IndexCurrentAt(r)'
<1>1. CreateIndex(c, e) = CreateIndex({}, e)
  BY IndexOfEntry
<1> QED
  BY <1>1 DEF IndexCurrentAt, Replaced, ContainersAgree

\* What IndexIsCurrent says, together with what makes it inductive.
IndexInv ==
  DirectoryInv /\ (Policy # "SUC" => \A r \in Routers : IndexCurrentAt(r))

\* No step leaves a name under an index that is not its own.
LEMMA IndexNext ==
  ASSUME IndexInv, [Next]_cmVars
  PROVE  IndexInv'
<1>1. DirectoryInv /\ DirectoryInv' /\ ContainersAgree /\ StoresOK
  BY DirectoryNext DEF IndexInv, DirectoryInv, StoresOK
<1> SUFFICES ASSUME Policy # "SUC"
             PROVE  \A r \in Routers : IndexCurrentAt(r)'
  BY <1>1 DEF IndexInv
<1>2. \A r \in Routers : IndexCurrentAt(r)
  BY DEF IndexInv
<1>3. ASSUME NEW r \in Routers, OnlyRouter(r), IndexCurrentAt(r)'
      PROVE  \A q \in Routers : IndexCurrentAt(q)'
  BY <1>2, <1>3 DEF OnlyRouter, IndexCurrentAt
<1>4. ASSUME NEW r \in Routers, NEW n \in Names, NEW ttl \in Ttls, NEW E,
             n \notin DOMAIN cache[r] \ E, Store(r, n, ttl, E)
      PROVE  \A q \in Routers : IndexCurrentAt(q)'
  <2>1. Stored(r, n, ttl, E) /\ OnlyRouter(r)
    BY <1>1, <1>4, StoreStep
  <2>2. IndexCurrentAt(r)'
    BY <1>1, <1>2, <2>1, IndexReplaced DEF Stored
  <2> QED
    BY <1>3, <2>1, <2>2
<1>5. ASSUME NEW r \in Routers, NEW n \in Names, ServeRequest(r, n)
      PROVE  \A q \in Routers : IndexCurrentAt(q)'
  <2>1. Find(r, n)
    BY <1>5 DEF ServeRequest
  <2>2. FindKeeps(r, n) /\ OnlyRouter(r)
    BY <1>1, <2>1, FindStep
  <2>3. IndexCurrentAt(r)'
    <3>1. CASE Policy = "FIFO"
      BY <1>2, <2>2, <3>1 DEF FindKeeps, IndexCurrentAt
    <3>2. CASE Policy # "FIFO"
      BY <1>1, <1>2, <2>2, <3>2, IndexReplaced DEF FindKeeps
    <3> QED
      BY <3>1, <3>2
  <2> QED
    BY <1>3, <2>2, <2>3
<1>6. CASE UNCHANGED <<cache, policyindex>>
  BY <1>2, <1>6 DEF IndexCurrentAt
<1>7. ASSUME NEW r \in Routers, NEW n \in Names, NEW ttl \in Ttls, EntrySet(r, n, ttl)
      PROVE  \A q \in Routers : IndexCurrentAt(q)'
  <2>1. CASE StoreByEviction(r, n, ttl)
    BY <1>4, <2>1 DEF StoreByEviction, IsUnique
  <2>2. CASE StoreInFreeSlot(r, n, ttl)
    BY <1>4, <2>2 DEF StoreInFreeSlot, IsUnique
  <2>3. CASE ReplaceEntry(r, n, ttl)
    BY <1>4, <2>3 DEF ReplaceEntry
  <2> QED
    BY <1>7, <2>1, <2>2, <2>3 DEF EntrySet
<1> QED
  BY <1>5, <1>6, <1>7 DEF Next, RefuseEntry, Tick, cmVars

\* Under FIFO, LRU and LFU a name is always filed under the index its entry
\* has now, so the first group of the PolicyIndex is the least of the Cache.
THEOREM IndexCorrect == Spec => []IndexIsCurrent
<1>1. Init => IndexInv
  BY DirectoryInit DEF Init, IndexInv, IndexCurrentAt, Empty
<1>2. IndexInv /\ [Next]_cmVars => IndexInv'
  BY IndexNext
<1>3. IndexInv => IndexIsCurrent
  <2> SUFFICES ASSUME IndexInv, Policy # "SUC", NEW r \in Routers,
                      NEW n \in DOMAIN cache[r]
               PROVE  /\ n \in DOMAIN policyindex[r]
                      /\ policyindex[r][n] = CreateIndex(cache[r], cache[r][n])
    BY DEF IndexIsCurrent
  <2>1. CreateIndex({}, cache[r][n]) = CreateIndex(cache[r], cache[r][n])
    BY IndexOfEntry
  <2> QED
    BY <2>1 DEF IndexInv, IndexCurrentAt, DirectoryInv, StoresOK, ContainersAgree
<1> QED
  BY <1>1, <1>2, <1>3, PTL DEF Spec

-----------------------------------------------------------------------------
(* The size of a cache. *)

\* No entry was made or used later than now.
TimestampsPast ==
  \A r \in Routers : \A n \in DOMAIN cache[r] : cache[r][n].timestamp <= now

\* Under these settings what is evicted is one name of the cache.
LEMMA SureEviction ==
  ASSUME SureToEvict, StoresOK, TimestampsPast, NEW r \in Routers,
         DOMAIN cache[r] # {}, NEW E \in EvictEntry(cache[r], policyindex[r], now)
  PROVE  \E v \in DOMAIN cache[r] : E = {v}
<1>1. FirstGroup(policyindex[r]) # {}
  BY FirstGroupInhabited DEF StoresOK, ContainersAgree
<1>2. \A n \in FirstGroup(policyindex[r]) : n \in DOMAIN cache[r]
  BY DEF FirstGroup, StoresOK, ContainersAgree
<1>3. Victims(cache[r], policyindex[r], now) = FirstGroup(policyindex[r])
  <2>1. CASE Policy \in {"FIFO", "LRU"}
    BY <2>1 DEF Victims, FifoVictims, LruVictims
  <2>2. CASE FreshnessTime = 0
    <3>1. \A n \in DOMAIN cache[r] :
            cache[r][n].timestamp \in Nat /\ cache[r][n].timestamp <= now /\ now \in Nat
      BY DEF StoresOK, IsCache, CacheEntry, Times, TimestampsPast
    <3>2. \A n \in DOMAIN cache[r] : Expired(cache[r], n, now)
      BY <2>2, <3>1 DEF Expired
    <3> QED
      BY <1>2, <3>2, PolicyAssumption
         DEF Victims, FifoVictims, LruVictims, LfuVictims, SucVictims
  <2> QED
    BY <2>1, <2>2 DEF SureToEvict
<1> QED
  BY <1>1, <1>2, <1>3 DEF EvictEntry

\* The inductive invariant.
CapacityInv ==
  DirectoryInv /\ TimestampsPast /\ (SureToEvict => CapacityRespected)

\* Every step keeps the timestamps in the past.
LEMMA TimestampsNext ==
  ASSUME StoresOK, TimestampsPast, [Next]_cmVars
  PROVE  TimestampsPast'
<1>1. \A r \in Routers : \A n \in DOMAIN cache[r] :
        cache[r][n] \in CacheEntry /\ n \in Names
  BY DEF StoresOK, IsCache
<1>2. ASSUME NEW r \in Routers, OnlyRouter(r), now' = now,
             \A n \in DOMAIN cache'[r] : cache'[r][n].timestamp <= now
      PROVE  TimestampsPast'
  BY <1>2 DEF TimestampsPast, OnlyRouter
<1>3. ASSUME NEW r \in Routers, NEW n \in Names, NEW ttl \in Ttls, NEW E,
             n \notin DOMAIN cache[r] \ E, Store(r, n, ttl, E)
      PROVE  TimestampsPast'
  <2>1. Stored(r, n, ttl, E) /\ OnlyRouter(r) /\ now' = now
    BY <1>3, StoreStep
  <2>2. CreateEntry(now, ttl).timestamp <= now
    BY PolicyAssumption
       DEF CreateEntry, FifoCreateEntry, LruCreateEntry, LfuCreateEntry,
           SucCreateEntry, StoresOK, Times
  <2>3. \A m \in DOMAIN cache'[r] : cache'[r][m].timestamp <= now
    BY <2>1, <2>2 DEF Stored, Replaced, TimestampsPast
  <2> QED
    BY <1>2, <2>1, <2>3
<1>4. ASSUME NEW r \in Routers, NEW n \in Names, ServeRequest(r, n)
      PROVE  TimestampsPast'
  <2>1. Find(r, n) /\ n \in DOMAIN cache[r]
    BY <1>4 DEF ServeRequest, Find
  <2>2. FindKeeps(r, n) /\ OnlyRouter(r) /\ now' = now
    BY <2>1, FindStep
  <2>3. Used(cache[r][n], now).timestamp <= now
    <3>1. cache[r][n] \in CacheEntry /\ cache[r][n].timestamp <= now
      BY <1>1, <2>1 DEF TimestampsPast
    <3> QED
      BY <3>1, PolicyAssumption
         DEF Used, LruUsed, LfuUsed, SucUsed, CacheEntry, StoresOK, Times
  <2>4. \A m \in DOMAIN cache'[r] : cache'[r][m].timestamp <= now
    BY <2>1, <2>2, <2>3 DEF FindKeeps, Replaced, TimestampsPast
  <2> QED
    BY <1>2, <2>2, <2>4
<1>5. ASSUME NEW r \in Routers, NEW n \in Names, NEW ttl \in Ttls, EntrySet(r, n, ttl)
      PROVE  TimestampsPast'
  <2>1. CASE StoreByEviction(r, n, ttl)
    BY <1>3, <2>1 DEF StoreByEviction, IsUnique
  <2>2. CASE StoreInFreeSlot(r, n, ttl)
    BY <1>3, <2>2 DEF StoreInFreeSlot, IsUnique
  <2>3. CASE ReplaceEntry(r, n, ttl)
    BY <1>3, <2>3 DEF ReplaceEntry
  <2> QED
    BY <1>5, <2>1, <2>2, <2>3 DEF EntrySet
<1>6. CASE Tick
  <2>1. \A r \in Routers : \A n \in DOMAIN cache[r] :
          cache[r][n].timestamp \in Int /\ cache[r][n].timestamp <= now
    BY <1>1 DEF TimestampsPast, CacheEntry, Times
  <2>2. now \in Int /\ now' = now + 1 /\ cache' = cache
    BY <1>6 DEF Tick, StoresOK, Times
  <2> QED
    BY <2>1, <2>2 DEF TimestampsPast
<1>7. CASE UNCHANGED <<cache, now>>
  BY <1>7 DEF TimestampsPast
<1> QED
  BY <1>4, <1>5, <1>6, <1>7 DEF Next, RefuseEntry, cmVars

\* Every step keeps the caches within their size.
LEMMA CapacityNext ==
  ASSUME CapacityInv, [Next]_cmVars
  PROVE  CapacityInv'
<1>1. DirectoryInv' /\ TimestampsPast' /\ StoresOK
  BY DirectoryNext, TimestampsNext DEF CapacityInv, DirectoryInv
<1> SUFFICES ASSUME SureToEvict
             PROVE  CapacityRespected'
  BY <1>1 DEF CapacityInv, SureToEvict
<1>2. CacheSize \in Nat \ {0}
  BY SizeAssumption
<1>3. \A r \in Routers : /\ IsFiniteSet(DOMAIN cache[r])
                         /\ Cardinality(DOMAIN cache[r]) \in Nat
                         /\ Cardinality(DOMAIN cache[r]) <= CacheSize
  <2>1. \A r \in Routers : DOMAIN cache[r] \in SUBSET Names
    BY <1>1 DEF StoresOK, IsCache
  <2> QED
    BY <2>1, SizeAssumption, FS_Subset, FS_CardinalityType
       DEF CapacityInv, CapacityRespected
<1>4. ASSUME NEW r \in Routers, OnlyRouter(r),
             Cardinality(DOMAIN cache'[r]) <= CacheSize
      PROVE  CapacityRespected'
  BY <1>3, <1>4 DEF CapacityRespected, OnlyRouter
<1>5. ASSUME NEW r \in Routers, NEW n \in Names, NEW ttl \in Ttls,
             StoreByEviction(r, n, ttl)
      PROVE  CapacityRespected'
  <2>1. PICK E \in EvictEntry(cache[r], policyindex[r], now) : Store(r, n, ttl, E)
    BY <1>5 DEF StoreByEviction
  <2>2. n \notin DOMAIN cache[r] /\ Cardinality(DOMAIN cache[r]) >= CacheSize
    BY <1>5 DEF StoreByEviction, IsUnique, IsFull
  <2>3. DOMAIN cache[r] # {}
    BY <1>2, <1>3, <2>2, FS_EmptySet
  <2>4. PICK v \in DOMAIN cache[r] : E = {v}
    BY <1>1, <2>3, SureEviction DEF CapacityInv
  <2>5. Stored(r, n, ttl, {v}) /\ OnlyRouter(r)
    BY <1>1, <2>1, <2>2, <2>4, StoreStep
  <2>6. DOMAIN cache'[r] = (DOMAIN cache[r] \ {v}) \cup {n}
    BY <2>5 DEF Stored, Replaced
  <2>7. Cardinality(DOMAIN cache'[r]) = Cardinality(DOMAIN cache[r])
    <3>1. IsFiniteSet(DOMAIN cache[r] \ {v})
          /\ Cardinality(DOMAIN cache[r] \ {v}) = Cardinality(DOMAIN cache[r]) - 1
      BY <1>3, FS_RemoveElement
    <3>2. Cardinality((DOMAIN cache[r] \ {v}) \cup {n})
            = Cardinality(DOMAIN cache[r] \ {v}) + 1
      BY <2>2, <3>1, FS_AddElement
    <3> QED
      BY <1>3, <2>6, <3>1, <3>2
  <2> QED
    BY <1>3, <1>4, <2>5, <2>7
<1>6. ASSUME NEW r \in Routers, NEW n \in Names, NEW ttl \in Ttls,
             StoreInFreeSlot(r, n, ttl)
      PROVE  CapacityRespected'
  <2>1. /\ n \notin DOMAIN cache[r] /\ ~(Cardinality(DOMAIN cache[r]) >= CacheSize)
        /\ Store(r, n, ttl, {})
    BY <1>6 DEF StoreInFreeSlot, IsUnique, IsFull
  <2>2. Stored(r, n, ttl, {}) /\ OnlyRouter(r)
    BY <1>1, <2>1, StoreStep
  <2>3. DOMAIN cache'[r] = DOMAIN cache[r] \cup {n}
    BY <2>2 DEF Stored, Replaced
  <2>4. Cardinality(DOMAIN cache'[r]) = Cardinality(DOMAIN cache[r]) + 1
    BY <1>3, <2>1, <2>3, FS_AddElement
  <2>5. Cardinality(DOMAIN cache'[r]) <= CacheSize
    BY <1>2, <1>3, <2>1, <2>4
  <2> QED
    BY <1>4, <2>2, <2>5
<1>7. ASSUME NEW r \in Routers, OnlyRouter(r), DOMAIN cache'[r] = DOMAIN cache[r]
      PROVE  CapacityRespected'
  BY <1>3, <1>4, <1>7
<1>8. ASSUME NEW r \in Routers, NEW n \in Names, NEW ttl \in Ttls,
             ReplaceEntry(r, n, ttl)
      PROVE  CapacityRespected'
  <2>1. n \in DOMAIN cache[r] /\ Store(r, n, ttl, {n})
    BY <1>8 DEF ReplaceEntry, IsUnique
  <2>2. Stored(r, n, ttl, {n}) /\ OnlyRouter(r)
    BY <1>1, <2>1, StoreStep
  <2>3. DOMAIN cache'[r] = DOMAIN cache[r]
    BY <2>1, <2>2 DEF Stored, Replaced
  <2> QED
    BY <1>7, <2>2, <2>3
<1>9. ASSUME NEW r \in Routers, NEW n \in Names, ServeRequest(r, n)
      PROVE  CapacityRespected'
  <2>1. Find(r, n) /\ n \in DOMAIN cache[r]
    BY <1>9 DEF ServeRequest, Find
  <2>2. FindKeeps(r, n) /\ OnlyRouter(r)
    BY <1>1, <2>1, FindStep
  <2>3. DOMAIN cache'[r] = DOMAIN cache[r]
    BY <2>1, <2>2 DEF FindKeeps, Replaced
  <2> QED
    BY <1>7, <2>2, <2>3
<1>10. CASE UNCHANGED cache
  BY <1>10 DEF CapacityInv, CapacityRespected
<1>11. CapacityRespected'
  BY <1>5, <1>6, <1>8, <1>9, <1>10 DEF Next, EntrySet, RefuseEntry, Tick, cmVars
<1> QED
  BY <1>11

\* Under FIFO and LRU, and under LFU and SUC with a freshness time of zero, no
\* cache ever outgrows its size.  With a positive freshness time LFU breaks
\* this (the run lfu_capacity).
THEOREM CapacityCorrect == Spec => [](SureToEvict => CapacityRespected)
<1>1. Init => CapacityInv
  <2> SUFFICES ASSUME Init PROVE CapacityInv
    OBVIOUS
  <2>1. \A r \in Routers : DOMAIN cache[r] = {}
    BY DEF Init, Empty
  <2>2. CapacityRespected
    BY <2>1, FS_EmptySet, SizeAssumption DEF CapacityRespected
  <2>3. TimestampsPast
    BY <2>1 DEF TimestampsPast
  <2> QED
    BY <2>2, <2>3, DirectoryInit DEF CapacityInv
<1>2. CapacityInv /\ [Next]_cmVars => CapacityInv'
  BY CapacityNext
<1>3. CapacityInv => (SureToEvict => CapacityRespected)
  BY DEF CapacityInv
<1> QED
  BY <1>1, <1>2, <1>3, PTL DEF Spec

-----------------------------------------------------------------------------
(* The band of an index under SUC. *)

\* A quotient of at most 10000.
LEMMA ShareBound ==
  ASSUME NEW a \in Nat, NEW m \in Nat \ {0}, a <= 10000 * m
  PROVE  a \div m \in Nat /\ a \div m <= 10000
<1> DEFINE q == a \div m
<1>1. q \in Int /\ m * q <= a /\ a < m * q + m
  OBVIOUS
<1> HIDE DEF q
<1>2. q >= 0
  <2> SUFFICES ASSUME q <= -1 PROVE FALSE
    BY <1>1
  <2>1. m * q <= m * (-1)
    BY <1>1
  <2> QED
    BY <1>1, <2>1
<1>3. q <= 10000
  <2> SUFFICES ASSUME q >= 10001 PROVE FALSE
    BY <1>1
  <2>1. m * q >= m * 10001
    BY <1>1
  <2> QED
    BY <1>1, <2>1
<1> QED
  BY <1>1, <1>2, <1>3 DEF q

\* A number of sixty-fourths of a.
LEMMA SixtyFourths ==
  ASSUME NEW a \in Nat \ {0}, NEW k \in Nat, NEW c \in Nat, k <= 64 * c
  PROVE  /\ (k * a) \div 64 \in Nat /\ (k * a) \div 64 <= c * a
         /\ k < 64 * c => (k * a) \div 64 < c * a
<1> DEFINE n == k * a
           q == n \div 64
           b == c * a
<1>1. n \in Nat /\ b \in Nat
  OBVIOUS
<1>2. n <= 64 * b
  <2>1. k * a <= (64 * c) * a
    OBVIOUS
  <2>2. (64 * c) * a = 64 * (c * a)
    OBVIOUS
  <2> QED
    BY <2>1, <2>2
<1>3. k < 64 * c => n < 64 * b
  <2>1. k < 64 * c => k * a < (64 * c) * a
    OBVIOUS
  <2>2. (64 * c) * a = 64 * (c * a)
    OBVIOUS
  <2> QED
    BY <2>1, <2>2
<1> HIDE DEF n, b
<1>4. q \in Nat /\ 64 * q <= n
  BY <1>1
<1> HIDE DEF q
<1>5. q <= b /\ (k < 64 * c => q < b)
  BY <1>1, <1>2, <1>3, <1>4
<1> QED
  BY <1>4, <1>5 DEF n, q, b

\* The share of the distance, which is negative for TTLs above 64.
LEMMA HopShareBound ==
  ASSUME NEW ttl \in 0 .. 255
  PROVE  HopShare(ttl) \in Int /\ HopShare(ttl) <= 20000 /\ HopShare(ttl) > -(6 * 10000)
<1> DEFINE a == 20000
           q(k) == (k * a) \div 64
<1>0. a \in Nat \ {0} /\ 1 * a = 20000 /\ 3 * a = 6 * 10000
      /\ \A k : q(k) = (k * 20000) \div 64
  OBVIOUS
<1> HIDE DEF a
<1>1. ASSUME NEW k \in 0 .. 64
      PROVE  q(k) \in Nat /\ q(k) <= 20000
  <2>1. k \in Nat /\ 1 \in Nat /\ k <= 64 * 1
    OBVIOUS
  <2>2. q(k) \in Nat /\ q(k) <= 1 * a
    BY <1>0, <2>1, SixtyFourths
  <2> QED
    BY <1>0, <2>2
<1>2. ASSUME NEW k \in 0 .. 191
      PROVE  q(k) \in Nat /\ q(k) < 6 * 10000
  <2>1. k \in Nat /\ 3 \in Nat /\ k <= 64 * 3 /\ k < 64 * 3
    OBVIOUS
  <2>2. q(k) \in Nat /\ q(k) < 3 * a
    BY <1>0, <2>1, SixtyFourths
  <2> QED
    BY <1>0, <2>2
<1> HIDE DEF q
<1>3. CASE ttl <= 64
  <2>1. 64 - ttl \in 0 .. 64
    BY <1>3
  <2>2. HopShare(ttl) = q(64 - ttl)
    BY <1>0, <1>3 DEF HopShare
  <2> QED
    BY <1>1, <2>1, <2>2
<1>4. CASE ~(ttl <= 64)
  <2>1. ttl - 64 \in 0 .. 191
    BY <1>4
  <2>2. HopShare(ttl) = -q(ttl - 64)
    BY <1>0, <1>4 DEF HopShare
  <2> QED
    BY <1>2, <2>1, <2>2
<1> QED
  BY <1>3, <1>4

\* Unsigned arithmetic wraps a small negative number around once.
LEMMA WrapsOnce ==
  ASSUME NEW u \in Nat, NEW x \in Int, 0 < x + u, x < u
  PROVE  x % u = IF x >= 0 THEN x ELSE x + u
<1> DEFINE q == x \div u
           m == x % u
<1>1. q \in Int /\ m \in 0 .. u - 1 /\ x = u * q + m
  OBVIOUS
<1> HIDE DEF q, m
<1>2. q <= 0
  <2> SUFFICES ASSUME q >= 1 PROVE FALSE
    BY <1>1
  <2>1. u * q >= u
    BY <1>1
  <2> QED
    BY <1>1, <2>1
<1>3. q >= -1
  <2> SUFFICES ASSUME q <= -2 PROVE FALSE
    BY <1>1
  <2>1. u * q <= u * (-2)
    BY <1>1
  <2> QED
    BY <1>1, <2>1
<1>4. CASE q = 0
  BY <1>1, <1>4 DEF m
<1>5. CASE q = -1
  BY <1>1, <1>5 DEF m
<1> QED
  BY <1>1, <1>2, <1>3, <1>4, <1>5

\* An index lies within the band of its entry, whatever else is cached.
LEMMA SucIndexInBand ==
  ASSUME NEW c, IsCache(c), NEW e \in CacheEntry
  PROVE  InHopBand(SucCreateIndex(c, e), e.ttl)
<1>1. /\ e.frequency \in Nat /\ e.ttl \in 0 .. 255
      /\ UintRange \in Nat /\ UintRange > 10 * 10000
  <2>1. e.ttl \in Ttls \cup {0} /\ e.frequency \in 1 .. MaxFrequency
    BY DEF CacheEntry
  <2>2. Ttls \cup {0} \subseteq 0 .. 255 /\ MaxFrequency \in Nat
    BY BoundAssumption
  <2>3. e.frequency \in Nat
    BY <2>1, <2>2
  <2>4. e.ttl \in 0 .. 255
    BY <2>1, <2>2
  <2> QED
    BY <2>3, <2>4, RangeAssumption
<1> DEFINE a == (e.frequency * 10000) % UintRange
           m == FrequencyMax(c, e)
           share == IF DOMAIN c = {} THEN 10000 ELSE a \div m
<1>2. m \in Nat \ {0} /\ m >= e.frequency
  BY FrequencyMaxType, BoundAssumption
<1>3. a \in Nat /\ a <= e.frequency * 10000
  <2> DEFINE b == e.frequency * 10000
  <2>1. b \in Nat
    BY <1>1
  <2> HIDE DEF b
  <2>2. b % UintRange \in Nat /\ b % UintRange <= b
    <3>1. CASE b < UintRange
      BY <1>1, <2>1, <3>1
    <3>2. CASE b >= UintRange
      BY <1>1, <2>1, <3>2
    <3> QED
      BY <1>1, <2>1, <3>1, <3>2
  <2> QED
    BY <2>2 DEF b
<1>4. a <= 10000 * m
  <2> HIDE DEF a, m
  <2> QED BY <1>1, <1>2, <1>3
<1>5. share \in Nat /\ share <= 10000
  <2> HIDE DEF a, m
  <2>1. a \div m \in Nat /\ a \div m <= 10000
    BY <1>2, <1>3, <1>4, ShareBound
  <2> QED
    BY <2>1
<1> DEFINE hops == HopShare(e.ttl)
           index == (share + hops) % UintRange
<1>6. hops \in Int /\ hops <= 20000 /\ hops > -(6 * 10000)
  BY <1>1, HopShareBound
<1>7. index \in hops .. hops + 10000 \/ index - UintRange \in hops .. hops + 10000
  <2> HIDE DEF share, hops
  <2> DEFINE x == share + hops
  <2>1. x \in Int /\ x \in hops .. hops + 10000 /\ 0 < x + UintRange /\ x < UintRange
    BY <1>1, <1>5, <1>6
  <2> HIDE DEF x
  <2>2. x % UintRange = IF x >= 0 THEN x ELSE x + UintRange
    <3>1. UintRange \in Nat /\ x \in Int /\ 0 < x + UintRange /\ x < UintRange
      BY <1>1, <2>1
    <3> QED
      BY <3>1, WrapsOnce
  <2>3. index = x % UintRange
    BY DEF x
  <2> HIDE DEF index
  <2>4. index = x \/ index - UintRange = x
    BY <1>1, <2>1, <2>2, <2>3
  <2> QED
    BY <2>1, <2>4
<1> QED
  BY <1>7 DEF SucCreateIndex, InHopBand

\* IndexInHopBand at one router.
InBandAt(r) ==
  \A n \in DOMAIN cache[r] :
    InHopBand(policyindex[r][n], cache[r][n].ttl)

BandInv == DirectoryInv /\ (Policy = "SUC" => \A r \in Routers : InBandAt(r))

\* Replacing an entry and its index by an entry and an index it has.
LEMMA BandReplaced ==
  ASSUME Policy = "SUC", NEW r \in Routers, InBandAt(r), ContainersAgree,
         NEW E, NEW n, NEW e \in CacheEntry, NEW c, IsCache(c),
         Replaced(cache'[r], cache[r], E, n, e),
         Replaced(policyindex'[r], policyindex[r], E, n, CreateIndex(c, e))
  PROVE  InBandAt(r)'
<1>1. InHopBand(CreateIndex(c, e), e.ttl)
  BY SucIndexInBand DEF CreateIndex
<1>2. \A m \in (DOMAIN cache[r] \ E) \ {n} :
        policyindex'[r][m] = policyindex[r][m] /\ cache'[r][m] = cache[r][m]
  BY DEF Replaced, ContainersAgree
<1> QED
  BY <1>1, <1>2 DEF InBandAt, Replaced

\* Every step keeps the indexes in their bands.
LEMMA BandNext ==
  ASSUME BandInv, [Next]_cmVars
  PROVE  BandInv'
<1>1. DirectoryInv /\ DirectoryInv' /\ ContainersAgree /\ StoresOK
  BY DirectoryNext DEF BandInv, DirectoryInv, StoresOK
<1> SUFFICES ASSUME Policy = "SUC"
             PROVE  \A r \in Routers : InBandAt(r)'
  BY <1>1 DEF BandInv
<1>2. \A r \in Routers : InBandAt(r) /\ IsCache(cache[r])
  BY <1>1 DEF BandInv, StoresOK
<1>3. ASSUME NEW r \in Routers, OnlyRouter(r), InBandAt(r)'
      PROVE  \A q \in Routers : InBandAt(q)'
  BY <1>2, <1>3 DEF OnlyRouter, InBandAt
<1>4. ASSUME NEW r \in Routers, NEW n \in Names, NEW ttl \in Ttls, NEW E,
             n \notin DOMAIN cache[r] \ E, Store(r, n, ttl, E)
      PROVE  \A q \in Routers : InBandAt(q)'
  <2>1. Stored(r, n, ttl, E) /\ OnlyRouter(r)
    BY <1>1, <1>4, StoreStep
  <2>2. CreateEntry(now, ttl) \in CacheEntry
    BY <1>1, EntryType DEF StoresOK
  <2>3. InBandAt(r)'
    BY <1>1, <1>2, <2>1, <2>2, BandReplaced DEF Stored
  <2> QED
    BY <1>3, <2>1, <2>3
<1>5. ASSUME NEW r \in Routers, NEW n \in Names, ServeRequest(r, n)
      PROVE  \A q \in Routers : InBandAt(q)'
  <2>1. Find(r, n) /\ n \in DOMAIN cache[r]
        /\ Used(cache[r][n], now).frequency <= MaxFrequency
    BY <1>5 DEF ServeRequest, Find
  <2>2. FindKeeps(r, n) /\ OnlyRouter(r)
    BY <1>1, <2>1, FindStep
  <2>3. cache[r][n] \in CacheEntry /\ now \in Times
    BY <1>1, <2>1 DEF StoresOK, IsCache
  <2>4. Used(cache[r][n], now) \in CacheEntry
    BY <2>1, <2>3, UsedType
  <2>5. IsCache(Without(cache[r], {n}))
    BY <1>2, WithoutType
  <2> DEFINE used == Used(cache[r][n], now)
             rest == Without(cache[r], {n})
  <2>6. /\ Replaced(cache'[r], cache[r], {n}, n, used)
        /\ Replaced(policyindex'[r], policyindex[r], {n}, n, CreateIndex(rest, used))
    BY <2>2 DEF FindKeeps
  <2>7. InBandAt(r)'
    <3> HIDE DEF used, rest
    <3>1. used \in CacheEntry /\ IsCache(rest)
      BY <2>4, <2>5 DEF used, rest
    <3> QED
      BY <1>1, <1>2, <2>6, <3>1, BandReplaced
  <2> QED
    BY <1>3, <2>2, <2>7
<1>6. CASE UNCHANGED <<cache, policyindex>>
  BY <1>2, <1>6 DEF InBandAt
<1>7. ASSUME NEW r \in Routers, NEW n \in Names, NEW ttl \in Ttls, EntrySet(r, n, ttl)
      PROVE  \A q \in Routers : InBandAt(q)'
  <2>1. CASE StoreByEviction(r, n, ttl)
    BY <1>4, <2>1 DEF StoreByEviction, IsUnique
  <2>2. CASE StoreInFreeSlot(r, n, ttl)
    BY <1>4, <2>2 DEF StoreInFreeSlot, IsUnique
  <2>3. CASE ReplaceEntry(r, n, ttl)
    BY <1>4, <2>3 DEF ReplaceEntry
  <2> QED
    BY <1>7, <2>1, <2>2, <2>3 DEF EntrySet
<1> QED
  BY <1>5, <1>6, <1>7 DEF Next, RefuseEntry, Tick, cmVars

\* Under SUC an index lies in the band that the distance of its entry
\* determines, although it is not recomputed when the greatest use count of
\* the cache changes, and although a TTL above 64 makes it wrap around.
THEOREM BandCorrect == Spec => []IndexInHopBand
<1>1. Init => BandInv
  BY DirectoryInit DEF Init, BandInv, InBandAt, Empty
<1>2. BandInv /\ [Next]_cmVars => BandInv'
  BY BandNext
<1>3. BandInv => IndexInHopBand
  BY DEF BandInv, InBandAt, IndexInHopBand
<1> QED
  BY <1>1, <1>2, <1>3, PTL DEF Spec

-----------------------------------------------------------------------------
(* CacheManager implements ContentDirectory: every step of a router's      *)
(* store is, once entries, indexes and time are forgotten, an admission of *)
(* the directory or none.  The invariant needed is CapacityInv without the *)
(* bound on the size: the directory mirrors the caches, so that what is    *)
(* listed is what is stored, and no entry is from the future, so that      *)
(* where the settings promise a victim there is one.                       *)

StepInv == DirectoryInv /\ TimestampsPast

\* What the manager lists for a router is what the router stores.
LEMMA ListedIsStored ==
  ASSUME DirectoryInv
  PROVE  [r \in Routers |-> ListedNames(r)] = [r \in Routers |-> DOMAIN cache[r]]
<1>1. ASSUME NEW r \in Routers
      PROVE  ListedNames(r) = DOMAIN cache[r]
  <2>1. DOMAIN cache[r] \subseteq Names
    BY DEF DirectoryInv, StoresOK, IsCache
  <2>2. \A n \in Names : cachedRouterTable[n][r] = IF n \in DOMAIN cache[r] THEN 1 ELSE 0
    BY DEF DirectoryInv, DirectoryMirrorsCaches
  <2> QED
    BY <2>1, <2>2 DEF ListedNames
<1> QED
  BY <1>1

\* So it is in the next state.
LEMMA ListedIsStoredNext ==
  DirectoryInv' =>
    ([r \in Routers |-> ListedNames(r)] = [r \in Routers |-> DOMAIN cache[r]])'
<1>1. DirectoryInv =>
        [r \in Routers |-> ListedNames(r)] = [r \in Routers |-> DOMAIN cache[r]]
  BY ListedIsStored
<1> QED
  BY <1>1, PTL

\* A step that exchanges contents at one router exchanges them in the
\* directory.
LEMMA ExchangeStep ==
  ASSUME DirectoryInv, DirectoryInv', NEW r \in Routers, NEW n, NEW E, OnlyRouter(r),
         DOMAIN cache'[r] = (DOMAIN cache[r] \ E) \cup {n}
  PROVE  Directory!Exchange(r, E, n)
<1> DEFINE st == [q \in Routers |-> DOMAIN cache[q]]
<1>1. st' = [st EXCEPT ![r] = (@ \ E) \cup {n}]
  BY DEF OnlyRouter
<1>2. [q \in Routers |-> ListedNames(q)] = st
  BY ListedIsStored
<1>3. [q \in Routers |-> ListedNames(q)]' = st'
  BY ListedIsStoredNext
<1> HIDE DEF st
<1> QED
  BY <1>1, <1>2, <1>3 DEF Directory!Exchange, st

\* A step that stores the same names everywhere is none of the directory.
LEMMA SameNames ==
  ASSUME DirectoryInv, DirectoryInv',
         \A r \in Routers : DOMAIN cache'[r] = DOMAIN cache[r]
  PROVE  UNCHANGED Directory!dirVars
<1> DEFINE st == [q \in Routers |-> DOMAIN cache[q]]
<1>1. st' = st
  OBVIOUS
<1>2. [q \in Routers |-> ListedNames(q)] = st
  BY ListedIsStored
<1>3. [q \in Routers |-> ListedNames(q)]' = st'
  BY ListedIsStoredNext
<1> HIDE DEF st
<1> QED
  BY <1>1, <1>2, <1>3 DEF Directory!dirVars, st

\* Making room in a full store gives up one content, where one must go.
LEMMA EvictionAdmits ==
  ASSUME StepInv, DirectoryInv', NEW r \in Routers, NEW n \in Names,
         NEW ttl \in Ttls, StoreByEviction(r, n, ttl)
  PROVE  Directory!AdmitToFull(r, n)
<1>1. PICK E \in EvictEntry(cache[r], policyindex[r], now) : Store(r, n, ttl, E)
  BY DEF StoreByEviction
<1>2. n \notin DOMAIN cache[r] /\ Cardinality(DOMAIN cache[r]) >= CacheSize
  BY DEF StoreByEviction, IsUnique, IsFull
<1>3. StoresOK /\ DOMAIN policyindex[r] = DOMAIN cache[r]
  BY DEF StepInv, DirectoryInv, StoresOK, ContainersAgree
<1>4. Stored(r, n, ttl, E) /\ OnlyRouter(r)
  BY <1>1, <1>2, <1>3, StoreStep
<1>5. DOMAIN cache'[r] = (DOMAIN cache[r] \ E) \cup {n}
  BY <1>4 DEF Stored, Replaced
<1>6. Directory!Exchange(r, E, n)
  BY <1>4, <1>5, ExchangeStep DEF StepInv
<1>7. DOMAIN cache[r] # {}
  BY <1>2, FS_EmptySet, SizeAssumption
<1>8. SureToEvict => \E v \in DOMAIN cache[r] : E = {v}
  BY <1>1, <1>3, <1>7, SureEviction DEF StepInv
<1>9. E = {} \/ \E v \in DOMAIN cache[r] : E = {v}
  BY <1>1, <1>3, EvictionIsLocal
<1>10. \/ ~SureToEvict /\ Directory!Exchange(r, {}, n)
       \/ \E v \in DOMAIN cache[r] : Directory!Exchange(r, {v}, n)
  BY <1>6, <1>8, <1>9
<1> QED
  BY <1>2, <1>10 DEF Directory!AdmitToFull, Directory!Full, Cardinality, Directory!Cardinality

\* A free slot is filled without giving up anything.
LEMMA FreeSlotAdmits ==
  ASSUME StepInv, DirectoryInv', NEW r \in Routers, NEW n \in Names,
         NEW ttl \in Ttls, StoreInFreeSlot(r, n, ttl)
  PROVE  Directory!Admit(r, n)
<1>1. /\ n \notin DOMAIN cache[r] /\ ~(Cardinality(DOMAIN cache[r]) >= CacheSize)
      /\ Store(r, n, ttl, {})
  BY DEF StoreInFreeSlot, IsUnique, IsFull
<1>2. Stored(r, n, ttl, {}) /\ OnlyRouter(r)
  BY <1>1, StoreStep DEF StepInv, DirectoryInv
<1>3. DOMAIN cache'[r] = (DOMAIN cache[r] \ {}) \cup {n}
  BY <1>2 DEF Stored, Replaced
<1>4. Directory!Exchange(r, {}, n)
  BY <1>2, <1>3, ExchangeStep DEF StepInv
<1> QED
  BY <1>1, <1>4 DEF Directory!Admit, Directory!Full, Cardinality, Directory!Cardinality

\* Every step of CacheManager is a step of the directory or none.
LEMMA DirectoryStep ==
  ASSUME StepInv, [Next]_cmVars
  PROVE  [Directory!Next]_Directory!dirVars
<1>1. DirectoryInv /\ DirectoryInv' /\ StoresOK
  BY DirectoryNext DEF StepInv, DirectoryInv
<1>2. ASSUME NEW r \in Routers, NEW n \in Names, NEW ttl \in Ttls,
             StoreByEviction(r, n, ttl)
      PROVE  Directory!Next
  BY <1>1, <1>2, EvictionAdmits DEF Directory!Next
<1>3. ASSUME NEW r \in Routers, NEW n \in Names, NEW ttl \in Ttls,
             StoreInFreeSlot(r, n, ttl)
      PROVE  Directory!Next
  BY <1>1, <1>3, FreeSlotAdmits DEF Directory!Next
<1>4. ASSUME NEW r \in Routers, NEW n \in Names, NEW ttl \in Ttls,
             ReplaceEntry(r, n, ttl)
      PROVE  UNCHANGED Directory!dirVars
  <2>1. n \in DOMAIN cache[r] /\ Store(r, n, ttl, {n})
    BY <1>4 DEF ReplaceEntry, IsUnique
  <2>2. Stored(r, n, ttl, {n}) /\ OnlyRouter(r)
    BY <1>1, <2>1, StoreStep
  <2>3. \A q \in Routers : DOMAIN cache'[q] = DOMAIN cache[q]
    BY <2>1, <2>2 DEF Stored, Replaced, OnlyRouter
  <2> QED
    BY <1>1, <2>3, SameNames
<1>5. ASSUME NEW r \in Routers, NEW n \in Names, ServeRequest(r, n)
      PROVE  UNCHANGED Directory!dirVars
  <2>1. Find(r, n) /\ n \in DOMAIN cache[r]
    BY <1>5 DEF ServeRequest, Find
  <2>2. FindKeeps(r, n) /\ OnlyRouter(r)
    BY <1>1, <2>1, FindStep
  <2>3. \A q \in Routers : DOMAIN cache'[q] = DOMAIN cache[q]
    BY <2>1, <2>2 DEF FindKeeps, Replaced, OnlyRouter
  <2> QED
    BY <1>1, <2>3, SameNames
<1>6. ASSUME UNCHANGED cache
      PROVE  UNCHANGED Directory!dirVars
  BY <1>1, <1>6, SameNames
<1> QED
  BY <1>2, <1>3, <1>4, <1>5, <1>6 DEF Next, EntrySet, RefuseEntry, Tick, cmVars

\* Nothing is stored and nothing listed at first.
LEMMA DirectoryStarts ==
  ASSUME Init
  PROVE  Directory!Init
<1>1. \A r \in Routers : DOMAIN cache[r] = {}
  BY DEF Init, Empty
<1>2. [r \in Routers |-> ListedNames(r)] = [r \in Routers |-> DOMAIN cache[r]]
  BY DirectoryInit, ListedIsStored
<1>3. [r \in Routers |-> DOMAIN cache[r]] = [r \in Routers |-> {}]
  BY <1>1
<1> QED
  BY <1>2, <1>3 DEF Directory!Init

\* The stores with their policies, entries, indexes and times implement the
\* directory, for every policy and size: no call of SetEntry or Find makes
\* the manager believe anything but what the routers store, and a full store
\* that is sure to evict gives up exactly one content for each new one.
THEOREM DirectoryImplemented == Spec => ImplementsDirectory
<1>1. Init => DirectoryInv /\ TimestampsPast
  BY DirectoryInit DEF Init, TimestampsPast, Empty
<1>2. DirectoryInv /\ TimestampsPast /\ [Next]_cmVars => (DirectoryInv /\ TimestampsPast)'
  BY DirectoryNext, TimestampsNext DEF DirectoryInv
<1>3. Spec => [](DirectoryInv /\ TimestampsPast)
  BY <1>1, <1>2, PTL DEF Spec
<1>4. Init => Directory!Init
  BY DirectoryStarts
<1>5. DirectoryInv /\ TimestampsPast /\ [Next]_cmVars => [Directory!Next]_Directory!dirVars
  BY DirectoryStep DEF StepInv
<1> QED
  BY <1>3, <1>4, <1>5, PTL DEF Spec, ImplementsDirectory, Directory!Spec
=============================================================================
