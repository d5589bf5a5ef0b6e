------------------------- MODULE EvictionHistoryProofs -------------------------
(***************************************************************************)
(* Theorems about EvictionHistory: what each policy promises of the        *)
(* contents it evicts, for all names, routers, sizes and freshness times.  *)
(*                                                                         *)
(* An eviction takes its victim from the front of the PolicyIndex.  That   *)
(* it is also the lowest by the history needs two links: indexes are       *)
(* current (IndexInv of CacheManagerProofs), and what an entry says of     *)
(* itself is what happened to it (Recollected).                            *)
(***************************************************************************)
EXTENDS EvictionHistory, CacheManagerProofs

-----------------------------------------------------------------------------
(* The invariant. *)

HistoryTypeOK ==
  /\ insertedAt \in [Routers -> [Names -> Nat]]
  /\ usedAt \in [Routers -> [Names -> Nat]]
  /\ uses \in [Routers -> [Names -> Nat]]

\* What the entry of n at r says of itself is what the history recorded.
RecollectedAt(r, n) ==
  /\ Policy \in {"FIFO", "LFU"} => cache[r][n].timestamp = insertedAt[r][n]
  /\ Policy \in {"LRU", "SUC"} => cache[r][n].timestamp = usedAt[r][n]
  /\ Policy = "LFU" => cache[r][n].frequency = uses[r][n]

Recollected == \A r \in Routers : \A n \in DOMAIN cache[r] : RecollectedAt(r, n)

HistoryInv == IndexInv /\ HistoryTypeOK /\ Recollected

-----------------------------------------------------------------------------
(* What a step does to the history. *)

\* g is h with v for n at r, as far as contents that stay are concerned.
Updated(g, h, r, n, v) ==
  /\ g \in [Routers -> [Names -> Nat]]
  /\ \A q \in Routers \ {r} : g[q] = h[q]
  /\ \A m \in Names : m \in DOMAIN cache'[r] =>
       g[r][m] = IF m = n THEN v ELSE h[r][m]

\* A history after a step that recorded v for n at r.
LEMMA RecordedStep ==
  ASSUME NEW h \in [Routers -> [Names -> Nat]], NEW r \in Routers,
         NEW n \in Names, NEW v \in Nat
  PROVE  Updated(Recorded(h, r, n, v), h, r, n, v)
<1> DEFINE row == [m \in Names |-> IF m \notin DOMAIN cache'[r] THEN 0
                                   ELSE IF m = n THEN v ELSE h[r][m]]
<1>1. Recorded(h, r, n, v) = [h EXCEPT ![r] = row]
  BY DEF Recorded
<1>2. row \in [Names -> Nat]
  OBVIOUS
<1>3. \A m \in Names : m \in DOMAIN cache'[r] =>
        row[m] = IF m = n THEN v ELSE h[r][m]
  OBVIOUS
<1> HIDE DEF row
<1> QED
  BY <1>1, <1>2, <1>3 DEF Updated

\* The history steps with the stores.
LEMMA HistoryStepsWithStores ==
  ASSUME [HistoryNext]_vars
  PROVE  [Next]_cmVars
BY DEF HistoryNext, ContentArrives, ContentRefused, ContentServed, TimePasses, Next, vars

\* Content arrives: its entry is new, and so is its history.
LEMMA ArrivalRecollected ==
  ASSUME HistoryInv, NEW r \in Routers, NEW n \in Names, NEW ttl \in Ttls,
         ContentArrives(r, n, ttl)
  PROVE  HistoryTypeOK' /\ Recollected'
<1>1. StoresOK /\ now \in Nat /\ now \in Times
  BY BoundAssumption DEF HistoryInv, IndexInv, DirectoryInv, StoresOK, Times
<1>2. PICK E : n \notin DOMAIN cache[r] \ E /\ Store(r, n, ttl, E)
  <2>1. EntrySet(r, n, ttl)
    BY DEF ContentArrives
  <2>2. CASE StoreByEviction(r, n, ttl)
    BY <2>2 DEF StoreByEviction, IsUnique
  <2>3. CASE StoreInFreeSlot(r, n, ttl)
    BY <2>3 DEF StoreInFreeSlot, IsUnique
  <2>4. CASE ReplaceEntry(r, n, ttl)
    BY <2>4 DEF ReplaceEntry
  <2> QED
    BY <2>1, <2>2, <2>3, <2>4 DEF EntrySet
<1>3. /\ Replaced(cache'[r], cache[r], E, n, CreateEntry(now, ttl))
      /\ OnlyRouter(r) /\ StoresOK'
  BY <1>1, <1>2, StoreStep DEF Stored
<1>4. /\ Updated(insertedAt', insertedAt, r, n, now)
      /\ Updated(usedAt', usedAt, r, n, now)
      /\ Updated(uses', uses, r, n, 1)
  BY <1>1, RecordedStep DEF ContentArrives, HistoryInv, HistoryTypeOK
<1>5. /\ CreateEntry(now, ttl).timestamp = now
      /\ CreateEntry(now, ttl).frequency = 1
  BY PolicyAssumption
     DEF CreateEntry, FifoCreateEntry, LruCreateEntry, LfuCreateEntry, SucCreateEntry
<1>6. HistoryTypeOK'
  BY <1>4 DEF Updated, HistoryInv, HistoryTypeOK
<1>7. ASSUME NEW q \in Routers \ {r}, NEW m \in DOMAIN cache'[q]
      PROVE  RecollectedAt(q, m)'
  <2>1. /\ cache'[q] = cache[q] /\ insertedAt'[q] = insertedAt[q]
        /\ usedAt'[q] = usedAt[q] /\ uses'[q] = uses[q]
    BY <1>3, <1>4 DEF OnlyRouter, Updated
  <2>2. RecollectedAt(q, m)
    BY <2>1 DEF HistoryInv, Recollected
  <2> QED
    BY <2>1, <2>2 DEF RecollectedAt
<1>8. ASSUME NEW m \in DOMAIN cache'[r]
      PROVE  RecollectedAt(r, m)'
  <2>1. m \in Names
    BY <1>3 DEF StoresOK, IsCache
  <2>2. /\ insertedAt'[r][m] = IF m = n THEN now ELSE insertedAt[r][m]
        /\ usedAt'[r][m] = IF m = n THEN now ELSE usedAt[r][m]
        /\ uses'[r][m] = IF m = n THEN 1 ELSE uses[r][m]
    BY <1>4, <2>1 DEF Updated
  <2>3. CASE m = n
    BY <1>3, <1>5, <2>2, <2>3 DEF RecollectedAt, Replaced
  <2>4. CASE m # n
    <3>1. m \in DOMAIN cache[r] /\ cache'[r][m] = cache[r][m]
      BY <1>3, <2>4 DEF Replaced
    <3>2. RecollectedAt(r, m)
      BY <3>1 DEF HistoryInv, Recollected
    <3> QED
      BY <2>2, <2>4, <3>1, <3>2 DEF RecollectedAt
  <2> QED
    BY <2>3, <2>4
<1> QED
  BY <1>6, <1>7, <1>8 DEF Recollected

\* Content is served: a use is noted in the entry as the policy needs it.
LEMMA UseRecollected ==
  ASSUME HistoryInv, NEW r \in Routers, NEW n \in Names, ContentServed(r, n)
  PROVE  HistoryTypeOK' /\ Recollected'
<1>1. StoresOK /\ now \in Nat
  BY DEF HistoryInv, IndexInv, DirectoryInv, StoresOK, Times
<1>2. /\ Find(r, n) /\ n \in DOMAIN cache[r]
      /\ Used(cache[r][n], now).frequency <= MaxFrequency
  BY DEF ContentServed, ServeRequest, Find
<1>3. FindKeeps(r, n) /\ OnlyRouter(r) /\ StoresOK'
  BY <1>1, <1>2, FindStep
<1> PICK k \in Nat : k = IF uses[r][n] < MaxFrequency THEN uses[r][n] + 1
                         ELSE MaxFrequency
  <2>1. uses[r][n] \in Nat
    BY DEF HistoryInv, HistoryTypeOK
  <2> QED
    BY <2>1, BoundAssumption
<1>4. /\ insertedAt' = insertedAt
      /\ Updated(usedAt', usedAt, r, n, now)
      /\ Updated(uses', uses, r, n, k)
  BY <1>1, RecordedStep DEF ContentServed, HistoryInv, HistoryTypeOK
<1>5. HistoryTypeOK'
  BY <1>4 DEF Updated, HistoryInv, HistoryTypeOK
<1>6. ASSUME NEW q \in Routers \ {r}, NEW m \in DOMAIN cache'[q]
      PROVE  RecollectedAt(q, m)'
  <2>1. /\ cache'[q] = cache[q] /\ insertedAt'[q] = insertedAt[q]
        /\ usedAt'[q] = usedAt[q] /\ uses'[q] = uses[q]
    BY <1>3, <1>4 DEF OnlyRouter, Updated
  <2>2. RecollectedAt(q, m)
    BY <2>1 DEF HistoryInv, Recollected
  <2> QED
    BY <2>1, <2>2 DEF RecollectedAt
<1>7. ASSUME NEW m \in DOMAIN cache'[r]
      PROVE  RecollectedAt(r, m)'
  <2>1. m \in Names /\ m \in DOMAIN cache[r]
    BY <1>2, <1>3 DEF StoresOK, IsCache, FindKeeps, Replaced
  <2>2. /\ insertedAt'[r][m] = insertedAt[r][m]
        /\ usedAt'[r][m] = IF m = n THEN now ELSE usedAt[r][m]
        /\ uses'[r][m] = IF m = n THEN k ELSE uses[r][m]
    BY <1>4, <2>1 DEF Updated
  <2>3. RecollectedAt(r, m)
    BY <2>1 DEF HistoryInv, Recollected
  <2>4. CASE Policy = "FIFO"
    BY <1>3, <2>2, <2>3, <2>4 DEF RecollectedAt, FindKeeps
  <2>5. CASE Policy # "FIFO" /\ m # n
    <3>1. cache'[r][m] = cache[r][m]
      BY <1>3, <2>1, <2>5 DEF FindKeeps, Replaced
    <3> QED
      BY <2>2, <2>3, <2>5, <3>1 DEF RecollectedAt
  <2>6. CASE Policy # "FIFO" /\ m = n
    <3>1. cache'[r][n] = Used(cache[r][n], now)
      BY <1>3, <2>6 DEF FindKeeps, Replaced
    <3>2. cache[r][n] \in CacheEntry
      BY <1>1, <1>2 DEF StoresOK, IsCache
    <3>3. CASE Policy \in {"LRU", "SUC"}
      <4>1. Used(cache[r][n], now).timestamp = now
        BY <3>2, <3>3 DEF Used, LruUsed, SucUsed, CacheEntry
      <4> QED
        BY <2>2, <2>6, <3>1, <3>3, <4>1 DEF RecollectedAt
    <3>4. CASE Policy = "LFU"
      <4>1. /\ Used(cache[r][n], now).timestamp = cache[r][n].timestamp
            /\ Used(cache[r][n], now).frequency = cache[r][n].frequency + 1
        BY <3>2, <3>4 DEF Used, LfuUsed, CacheEntry
      <4>2. cache[r][n].frequency = uses[r][n] /\ uses[r][n] \in Nat
        BY <2>3, <2>6, <3>4 DEF RecollectedAt, HistoryInv, HistoryTypeOK
      <4>3. k = cache[r][n].frequency + 1
        BY <1>2, <4>1, <4>2, BoundAssumption
      <4> QED
        BY <2>2, <2>3, <2>6, <3>1, <3>4, <4>1, <4>3 DEF RecollectedAt
    <3> QED
      BY <2>6, <3>3, <3>4, PolicyAssumption
  <2> QED
    BY <2>4, <2>5, <2>6
<1> QED
  BY <1>5, <1>6, <1>7 DEF Recollected

\* The history only watches: what a run of HistorySpec does to the stores is a
\* run of CacheManager, so all that is proved of Spec holds of it.
THEOREM StoresWatched == HistorySpec => Spec
<1>1. HistoryInit => Init
  BY DEF HistoryInit
<1>2. [HistoryNext]_vars => [Next]_cmVars
  BY HistoryStepsWithStores
<1> QED
  BY <1>1, <1>2, PTL DEF HistorySpec, Spec

\* The invariant holds throughout.
THEOREM HistoryInvariant == HistorySpec => []HistoryInv
<1>1. HistoryInit => HistoryInv
  <2> SUFFICES ASSUME HistoryInit PROVE HistoryInv
    OBVIOUS
  <2>1. IndexInv
    BY DirectoryInit DEF HistoryInit, Init, IndexInv, IndexCurrentAt, Empty
  <2>2. HistoryTypeOK
    BY DEF HistoryInit, NoHistory, HistoryTypeOK
  <2>3. Recollected
    BY DEF HistoryInit, Init, Empty, Recollected
  <2> QED
    BY <2>1, <2>2, <2>3 DEF HistoryInv
<1>2. HistoryInv /\ [HistoryNext]_vars => HistoryInv'
  <2> SUFFICES ASSUME HistoryInv, [HistoryNext]_vars PROVE HistoryInv'
    OBVIOUS
  <2>1. IndexInv'
    BY HistoryStepsWithStores, IndexNext DEF HistoryInv
  <2>2. ASSUME UNCHANGED <<cache, historyVars>>
        PROVE  HistoryTypeOK' /\ Recollected'
    BY <2>2 DEF HistoryInv, HistoryTypeOK, Recollected, RecollectedAt, historyVars
  <2>3. HistoryTypeOK' /\ Recollected'
    BY <2>2, ArrivalRecollected, UseRecollected
       DEF HistoryNext, ContentRefused, RefuseEntry, TimePasses, Tick, vars, cmVars
  <2> QED
    BY <2>1, <2>3 DEF HistoryInv
<1> QED
  BY <1>1, <1>2, PTL DEF HistorySpec

-----------------------------------------------------------------------------
(* Evictions. *)

\* What leaves a cache is a victim of its policy.
LEMMA EvictedIsVictim ==
  ASSUME StoresOK, [Next]_cmVars, NEW r \in Routers, NEW v \in Evicted(r)
  PROVE  v \in DOMAIN cache[r] /\ v \in Victims(cache[r], policyindex[r], now)
<1>1. v \in DOMAIN cache[r] /\ v \notin DOMAIN cache'[r]
  BY DEF Evicted
<1>2. ASSUME NEW q \in Routers, NEW n \in Names, NEW ttl \in Ttls, NEW E,
             n \notin DOMAIN cache[q] \ E, Store(q, n, ttl, E)
      PROVE  q = r /\ v \in E /\ v # n
  <2>1. Stored(q, n, ttl, E) /\ OnlyRouter(q)
    BY <1>2, StoreStep
  <2> QED
    BY <1>1, <2>1 DEF Stored, Replaced, OnlyRouter
<1>3. ASSUME NEW q \in Routers, NEW n \in Names, NEW ttl \in Ttls,
             StoreByEviction(q, n, ttl)
      PROVE  v \in Victims(cache[r], policyindex[r], now)
  <2>1. PICK E \in EvictEntry(cache[q], policyindex[q], now) : Store(q, n, ttl, E)
    BY <1>3 DEF StoreByEviction
  <2>2. n \notin DOMAIN cache[q]
    BY <1>3 DEF StoreByEviction, IsUnique
  <2>3. q = r /\ v \in E
    BY <1>2, <2>1, <2>2
  <2> QED
    BY <2>1, <2>3 DEF EvictEntry
<1>4. ASSUME NEW q \in Routers, NEW n \in Names, NEW ttl \in Ttls,
             StoreInFreeSlot(q, n, ttl) \/ ReplaceEntry(q, n, ttl)
      PROVE  FALSE
  BY <1>2, <1>4 DEF StoreInFreeSlot, ReplaceEntry, IsUnique
<1>5. ASSUME NEW q \in Routers, NEW n \in Names, ServeRequest(q, n)
      PROVE  FALSE
  <2>1. Find(q, n) /\ n \in DOMAIN cache[q]
    BY <1>5 DEF ServeRequest, Find
  <2>2. FindKeeps(q, n) /\ OnlyRouter(q)
    BY <2>1, FindStep
  <2>3. \A x \in Routers : DOMAIN cache'[x] = DOMAIN cache[x]
    BY <2>1, <2>2 DEF FindKeeps, Replaced, OnlyRouter
  <2> QED
    BY <1>1, <2>3
<1>6. ~UNCHANGED cache
  BY <1>1
<1> QED
  BY <1>1, <1>3, <1>4, <1>5, <1>6 DEF Next, EntrySet, RefuseEntry, Tick, cmVars

\* By the history, a victim of FIFO, LRU or LFU stands lowest in its cache.
LEMMA VictimStandsLowest ==
  ASSUME HistoryInv, Policy # "SUC", NEW r \in Routers,
         NEW v \in Victims(cache[r], policyindex[r], now), NEW m \in DOMAIN cache[r]
  PROVE  Standing(r, v) <= Standing(r, m)
<1>1. StoresOK /\ ContainersAgree /\ IndexCurrentAt(r)
  BY DEF HistoryInv, IndexInv, DirectoryInv, StoresOK
<1>2. v \in FirstGroup(policyindex[r])
  BY PolicyAssumption DEF Victims, FifoVictims, LruVictims, LfuVictims
<1>3. v \in DOMAIN cache[r] /\ policyindex[r][v] <= policyindex[r][m]
  BY <1>1, <1>2 DEF FirstGroup, ContainersAgree
<1>4. ASSUME NEW n \in DOMAIN cache[r]
      PROVE  policyindex[r][n] = Standing(r, n)
  <2>1. policyindex[r][n] = CreateIndex({}, cache[r][n]) /\ RecollectedAt(r, n)
    BY <1>1 DEF IndexCurrentAt, HistoryInv, Recollected
  <2> QED
    BY <2>1, PolicyAssumption
       DEF CreateIndex, FifoCreateIndex, LruCreateIndex, LfuCreateIndex, Standing,
           RecollectedAt
<1> QED
  BY <1>3, <1>4

\* FIFO evicts the oldest contents, LRU the least recently used and LFU the
\* least used, by a record that the code's entries and indexes have no part
\* in: the PolicyIndex, filed by hand on every path, orders as it should.
THEOREM LowestEvicted == HistorySpec => EvictionFollowsPolicy
<1> DEFINE Lowest == Policy # "SUC" =>
                       \A r \in Routers : \A v \in Evicted(r), m \in DOMAIN cache[r] :
                         Standing(r, v) <= Standing(r, m)
<1>1. HistoryInv /\ [HistoryNext]_vars => Lowest
  <2> SUFFICES ASSUME HistoryInv, [HistoryNext]_vars, Policy # "SUC",
                      NEW r \in Routers, NEW v \in Evicted(r), NEW m \in DOMAIN cache[r]
               PROVE  Standing(r, v) <= Standing(r, m)
    OBVIOUS
  <2>1. v \in Victims(cache[r], policyindex[r], now)
    BY HistoryStepsWithStores, EvictedIsVictim DEF HistoryInv, IndexInv, DirectoryInv
  <2> QED
    BY <2>1, VictimStandsLowest
<1> QED
  BY <1>1, HistoryInvariant, PTL DEF HistorySpec, EvictionFollowsPolicy

\* Under LFU and SUC what is evicted has been in the cache, under SUC unused,
\* for the freshness time.
THEOREM StaleEvicted == HistorySpec => FreshContentKept
<1> DEFINE OnlyStale == Policy = "LFU" \/ Policy = "SUC" =>
                          \A r \in Routers : \A v \in Evicted(r) : Stale(r, v)
<1>1. HistoryInv /\ [HistoryNext]_vars => OnlyStale
  <2> SUFFICES ASSUME HistoryInv, [HistoryNext]_vars, Policy = "LFU" \/ Policy = "SUC",
                      NEW r \in Routers, NEW v \in Evicted(r)
               PROVE  Stale(r, v)
    OBVIOUS
  <2>1. v \in DOMAIN cache[r] /\ v \in Victims(cache[r], policyindex[r], now)
    BY HistoryStepsWithStores, EvictedIsVictim DEF HistoryInv, IndexInv, DirectoryInv
  <2>2. now - cache[r][v].timestamp >= FreshnessTime
    BY <2>1 DEF Victims, LfuVictims, SucVictims, Expired
  <2>3. RecollectedAt(r, v)
    BY <2>1 DEF HistoryInv, Recollected
  <2> QED
    BY <2>2, <2>3 DEF RecollectedAt, Stale
<1> QED
  BY <1>1, HistoryInvariant, PTL DEF HistorySpec, FreshContentKept

\* Under LFU a full store that refuses has no expired content among those
\* used least, and one that accepts has a content that is expired or that has
\* been used once at most.
THEOREM AdmissionsDeserved == HistorySpec => []AdmissionIsDeserved
<1>1. HistoryInv => AdmissionIsDeserved
  <2> SUFFICES ASSUME HistoryInv, Policy = "LFU", NEW r \in Routers, NEW ttl \in Ttls
               PROVE  /\ ~Evictable(r, ttl) => \A n \in LeastUsed(r) : ~Stale(r, n)
                      /\ Evictable(r, ttl) =>
                           \E n \in DOMAIN cache[r] : Stale(r, n) \/ uses[r][n] <= 1
    BY DEF AdmissionIsDeserved
  <2>1. /\ IsCache(cache[r]) /\ IsPolicyIndex(policyindex[r])
        /\ DOMAIN policyindex[r] = DOMAIN cache[r] /\ IndexCurrentAt(r)
    BY DEF HistoryInv, IndexInv, DirectoryInv, StoresOK, ContainersAgree
  <2>2. ASSUME NEW n \in DOMAIN cache[r]
        PROVE  /\ policyindex[r][n] = uses[r][n]
               /\ Expired(cache[r], n, now) <=> Stale(r, n)
    <3>1. policyindex[r][n] = CreateIndex({}, cache[r][n]) /\ RecollectedAt(r, n)
      BY <2>1 DEF IndexCurrentAt, HistoryInv, Recollected
    <3> QED
      BY <3>1 DEF CreateIndex, LfuCreateIndex, RecollectedAt, Expired, Stale
  <2>3. LeastUsed(r) = FirstGroup(policyindex[r])
    BY <2>1, <2>2 DEF LeastUsed, FirstGroup
  <2>4. FirstGroup(policyindex[r]) \subseteq DOMAIN cache[r]
    BY <2>1 DEF FirstGroup
  <2>5. Evictable(r, ttl) <=>
          \E n \in FirstGroup(policyindex[r]) :
            1 >= policyindex[r][n] \/ Expired(cache[r], n, now)
    <3>1. CreateIndex(cache[r], CreateEntry(now, ttl)) = 1
      BY DEF CreateIndex, CreateEntry, LfuCreateIndex, LfuCreateEntry
    <3>2. Evictable(r, ttl) <=> LfuIsEvictable(cache[r], policyindex[r], 1, now)
      BY <3>1 DEF Evictable, IsEvictable
    <3> QED
      BY <3>2 DEF LfuIsEvictable, LfuVictims
  <2>6. ~Evictable(r, ttl) => \A n \in LeastUsed(r) : ~Stale(r, n)
    BY <2>2, <2>3, <2>4, <2>5
  <2>7. ASSUME Evictable(r, ttl)
        PROVE  \E n \in DOMAIN cache[r] : Stale(r, n) \/ uses[r][n] <= 1
    <3>1. PICK n \in FirstGroup(policyindex[r]) :
            1 >= policyindex[r][n] \/ Expired(cache[r], n, now)
      BY <2>5, <2>7
    <3>2. n \in DOMAIN cache[r] /\ policyindex[r][n] \in Nat
      BY <2>1, <2>4 DEF IsPolicyIndex
    <3> QED
      BY <2>2, <3>1, <3>2
  <2> QED
    BY <2>6, <2>7
<1> QED
  BY <1>1, HistoryInvariant, PTL

-----------------------------------------------------------------------------
(* Stores that outgrow their size. *)

\* A full store grows only if its policy names no victim.
LEMMA GrowthFindsNoVictim ==
  ASSUME StoresOK, ContainersAgree, [Next]_cmVars, NEW r \in Routers, Outgrows(r)
  PROVE  Victims(cache[r], policyindex[r], now) = {}
<1>1. /\ IsFull(cache[r]) /\ DOMAIN cache[r] \subseteq DOMAIN cache'[r]
      /\ DOMAIN cache'[r] # DOMAIN cache[r]
  BY DEF Outgrows, Evicted
<1>2. ASSUME NEW q \in Routers, NEW n \in Names, NEW ttl \in Ttls, NEW E,
             n \notin DOMAIN cache[q] \ E, Store(q, n, ttl, E)
      PROVE  q = r /\ DOMAIN cache'[r] = (DOMAIN cache[r] \ E) \cup {n}
  <2>1. Stored(q, n, ttl, E) /\ OnlyRouter(q)
    BY <1>2, StoreStep
  <2> QED
    BY <1>1, <2>1 DEF Stored, Replaced, OnlyRouter
<1>3. ASSUME NEW q \in Routers, NEW n \in Names, NEW ttl \in Ttls,
             StoreByEviction(q, n, ttl)
      PROVE  Victims(cache[r], policyindex[r], now) = {}
  <2>1. PICK E \in EvictEntry(cache[q], policyindex[q], now) : Store(q, n, ttl, E)
    BY <1>3 DEF StoreByEviction
  <2>2. n \notin DOMAIN cache[q]
    BY <1>3 DEF StoreByEviction, IsUnique
  <2>3. q = r /\ DOMAIN cache'[r] = (DOMAIN cache[r] \ E) \cup {n}
    BY <1>2, <2>1, <2>2
  <2>4. Victims(cache[r], policyindex[r], now) \subseteq DOMAIN cache[r]
    BY PolicyAssumption
       DEF Victims, FifoVictims, LruVictims, LfuVictims, SucVictims, FirstGroup,
           ContainersAgree
  <2>5. ASSUME NEW v \in Victims(cache[r], policyindex[r], now), E = {v}
        PROVE  FALSE
    BY <1>1, <2>2, <2>3, <2>4, <2>5
  <2> QED
    BY <2>1, <2>3, <2>5 DEF EvictEntry
<1>4. ASSUME NEW q \in Routers, NEW n \in Names, NEW ttl \in Ttls,
             StoreInFreeSlot(q, n, ttl)
      PROVE  FALSE
  BY <1>1, <1>2, <1>4 DEF StoreInFreeSlot, IsUnique
<1>5. ASSUME NEW q \in Routers, NEW n \in Names, NEW ttl \in Ttls,
             ReplaceEntry(q, n, ttl)
      PROVE  FALSE
  BY <1>1, <1>2, <1>5 DEF ReplaceEntry, IsUnique
<1>6. ASSUME NEW q \in Routers, NEW n \in Names, ServeRequest(q, n)
      PROVE  FALSE
  <2>1. Find(q, n) /\ n \in DOMAIN cache[q]
    BY <1>6 DEF ServeRequest, Find
  <2>2. FindKeeps(q, n) /\ OnlyRouter(q)
    BY <2>1, FindStep
  <2>3. \A x \in Routers : DOMAIN cache'[x] = DOMAIN cache[x]
    BY <2>1, <2>2 DEF FindKeeps, Replaced, OnlyRouter
  <2> QED
    BY <1>1, <2>3
<1>7. ~UNCHANGED cache
  BY <1>1
<1> QED
  BY <1>3, <1>4, <1>5, <1>6, <1>7 DEF Next, EntrySet, RefuseEntry, Tick, cmVars

\* FIFO and LRU stores never outgrow their size, LFU and SUC stores only while
\* contents of theirs are fresh: for LFU, all that have been used least.
THEOREM GrowthForced == HistorySpec => GrowthIsForced
<1> DEFINE Forced == \A r \in Routers :
                       Outgrows(r) =>
                         /\ Policy = "LFU" \/ Policy = "SUC"
                         /\ \E n \in DOMAIN cache[r] : ~Stale(r, n)
                         /\ Policy = "LFU" => \A n \in LeastUsed(r) : ~Stale(r, n)
<1>1. HistoryInv /\ [HistoryNext]_vars => Forced
  <2> SUFFICES ASSUME HistoryInv, [HistoryNext]_vars, NEW r \in Routers, Outgrows(r)
               PROVE  /\ Policy = "LFU" \/ Policy = "SUC"
                      /\ \E n \in DOMAIN cache[r] : ~Stale(r, n)
                      /\ Policy = "LFU" => \A n \in LeastUsed(r) : ~Stale(r, n)
    OBVIOUS
  <2>1. /\ StoresOK /\ ContainersAgree /\ IsCache(cache[r])
        /\ IsPolicyIndex(policyindex[r])
        /\ DOMAIN policyindex[r] = DOMAIN cache[r]
        /\ Policy # "SUC" => IndexCurrentAt(r)
    BY DEF HistoryInv, IndexInv, DirectoryInv, StoresOK, ContainersAgree
  <2>2. Victims(cache[r], policyindex[r], now) = {}
    BY <2>1, HistoryStepsWithStores, GrowthFindsNoVictim
  <2>3. DOMAIN cache[r] # {}
    BY SizeAssumption, FS_EmptySet DEF Outgrows, IsFull
  <2>4. PICK f : f \in FirstGroup(policyindex[r])
    BY <2>1, <2>3, FirstGroupInhabited
  <2>5. Policy = "LFU" \/ Policy = "SUC"
    BY <2>2, <2>4, PolicyAssumption DEF Victims, FifoVictims, LruVictims
  <2>6. ASSUME NEW n \in FirstGroup(policyindex[r])
        PROVE  n \in DOMAIN cache[r] /\ ~Stale(r, n)
    <3>1. n \in DOMAIN cache[r]
      BY <2>1 DEF FirstGroup
    <3>2. ~(now - cache[r][n].timestamp >= FreshnessTime)
      BY <2>2, <2>5 DEF Victims, LfuVictims, SucVictims, Expired
    <3>3. RecollectedAt(r, n)
      BY <3>1 DEF HistoryInv, Recollected
    <3> QED
      BY <2>5, <3>1, <3>2, <3>3 DEF RecollectedAt, Stale
  <2>7. ASSUME Policy = "LFU", NEW n \in LeastUsed(r)
        PROVE  n \in FirstGroup(policyindex[r])
    <3>1. ASSUME NEW m \in DOMAIN cache[r]
          PROVE  policyindex[r][m] = uses[r][m]
      <4>1. policyindex[r][m] = CreateIndex({}, cache[r][m]) /\ RecollectedAt(r, m)
        BY <2>1, <2>7 DEF IndexCurrentAt, HistoryInv, Recollected
      <4> QED
        BY <2>7, <4>1 DEF CreateIndex, LfuCreateIndex, RecollectedAt
    <3> QED
      BY <2>1, <3>1 DEF LeastUsed, FirstGroup
  <2> QED
    BY <2>4, <2>5, <2>6, <2>7
<1> QED
  BY <1>1, HistoryInvariant, PTL DEF HistorySpec, GrowthIsForced
=============================================================================
