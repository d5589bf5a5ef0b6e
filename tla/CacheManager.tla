----------------------------- MODULE CacheManager -----------------------------
(***************************************************************************)
(* CacheManager::SetEntry and NamedContentCache::Find on every router, the *)
(* table of cached contents that all of them share through the static      *)
(* functions of IcnManager, and the simulation clock.                      *)
(*                                                                         *)
(* A request reaches a router only when the manager has found the name     *)
(* listed for it; here the request takes no time (ServeRequest), and       *)
(* OverlayNetwork puts the network between the look-up and the router.     *)
(***************************************************************************)
EXTENDS NamedContentCache

CONSTANT Routers

VARIABLES
  cache,              \* cache[r]: the Cache of router r
  policyindex,        \* policyindex[r]: the PolicyIndex of router r
  cachedRouterTable,  \* the multimap: how often <<n, r>> is listed
  now                 \* Simulator::Now () in milliseconds

cmVars == <<cache, policyindex, cachedRouterTable, now>>

Init ==
  /\ cache = [r \in Routers |-> Empty]
  /\ policyindex = [r \in Routers |-> Empty]
  /\ cachedRouterTable = [n \in Names |-> [r \in Routers |-> 0]]
  /\ now = 0

-----------------------------------------------------------------------------
(* The multimap of IcnManager. *)

SetCachedRouterEntry(table, r, n) == [table EXCEPT ![n][r] = @ + 1]

\* One matching pair goes for the name erased; none for the empty name.
EvictCachedRouterEntry(table, r, erased) ==
  [n \in Names |->
    IF n \in erased /\ table[n][r] > 0 THEN [table[n] EXCEPT ![r] = @ - 1]
    ELSE table[n]]

-----------------------------------------------------------------------------
(* SetEntry: content named n arrives at router r with the given TTL. *)

\* Faulty: what is erased from the cache stays in the policy index.
StoreUnindexed(r, n, ttl, erased) ==
  LET entry == CreateEntry(now, ttl)
      index == CreateIndex(cache[r], entry)
  IN  /\ cache' =
           [cache EXCEPT ![r] = InsertToCache(Without(@, erased), n, entry)]
      /\ policyindex' = [policyindex EXCEPT ![r] = InsertToPolicyIndex(@, index, n)]
      /\ UNCHANGED now

Store(r, n, ttl, erased) ==
  LET entry == CreateEntry(now, ttl)
      index == CreateIndex(cache[r], entry)
  IN  /\ cache' =
           [cache EXCEPT ![r] = InsertToCache(Without(@, erased), n, entry)]
      /\ policyindex' =
           [policyindex EXCEPT ![r] =
             InsertToPolicyIndex(Without(@, erased), index, n)]
      /\ UNCHANGED now

Evictable(r, ttl) ==
  IsEvictable(cache[r], policyindex[r],
              CreateIndex(cache[r], CreateEntry(now, ttl)), now)

\* Faulty: the manager is not told what has been evicted.
StoreByEvictionUnlisted(r, n, ttl) ==
  /\ IsUnique(cache[r], n)
  /\ IsFull(cache[r])
  /\ Evictable(r, ttl)
  /\ \E erased \in EvictEntry(cache[r], policyindex[r], now) :
       /\ Store(r, n, ttl, erased)
       /\ cachedRouterTable' = SetCachedRouterEntry(cachedRouterTable, r, n)

StoreByEviction(r, n, ttl) ==
  /\ IsUnique(cache[r], n)
  /\ IsFull(cache[r])
  /\ Evictable(r, ttl)
  /\ \E erased \in EvictEntry(cache[r], policyindex[r], now) :
       /\ Store(r, n, ttl, erased)
       /\ cachedRouterTable' =
            SetCachedRouterEntry(
              EvictCachedRouterEntry(cachedRouterTable, r, erased), r, n)

RefuseEntry(r, n, ttl) ==
  /\ IsUnique(cache[r], n)
  /\ IsFull(cache[r])
  /\ ~Evictable(r, ttl)
  /\ UNCHANGED cmVars

StoreInFreeSlot(r, n, ttl) ==
  /\ IsUnique(cache[r], n)
  /\ ~IsFull(cache[r])
  /\ Store(r, n, ttl, {})
  /\ cachedRouterTable' = SetCachedRouterEntry(cachedRouterTable, r, n)

\* Faulty: lists the router a second time.
ReplaceEntryListed(r, n, ttl) ==
  /\ ~IsUnique(cache[r], n)
  /\ Store(r, n, ttl, {n})
  /\ cachedRouterTable' = SetCachedRouterEntry(cachedRouterTable, r, n)

\* The router is listed for n already: the table is left alone.
ReplaceEntry(r, n, ttl) ==
  /\ ~IsUnique(cache[r], n)
  /\ Store(r, n, ttl, {n})
  /\ UNCHANGED cachedRouterTable

\* SetEntry returns true, respectively false.
EntrySet(r, n, ttl) ==
  \/ StoreByEviction(r, n, ttl)
  \/ StoreInFreeSlot(r, n, ttl)
  \/ ReplaceEntry(r, n, ttl)

-----------------------------------------------------------------------------
(* Find: defined only for a name that is cached; for any other one the     *)
(* code dereferences end (), which OverlayNetwork models.                  *)

Find(r, n) ==
  LET updated == UpdateIndex(cache[r], policyindex[r], n, now)
  IN  /\ n \in DOMAIN cache[r]
      /\ Used(cache[r][n], now).frequency <= MaxFrequency
      /\ cache' = [cache EXCEPT ![r] = updated.cache]
      /\ policyindex' = [policyindex EXCEPT ![r] = updated.policyindex]
      /\ UNCHANGED <<cachedRouterTable, now>>

ServeRequest(r, n) == cachedRouterTable[n][r] > 0 /\ Find(r, n)

Tick == now < MaxTime /\ now' = now + 1 /\ UNCHANGED <<cache, policyindex, cachedRouterTable>>

Next ==
  \/ \E r \in Routers, n \in Names, ttl \in Ttls :
       EntrySet(r, n, ttl) \/ RefuseEntry(r, n, ttl)
  \/ \E r \in Routers, n \in Names : ServeRequest(r, n)
  \/ Tick

Spec == Init /\ [][Next]_cmVars

-----------------------------------------------------------------------------
(* The variables stay in their types: every entry is in range, every index *)
(* is a natural number, multiplicities never become negative.              *)
TypeOK ==
  /\ DOMAIN cache = Routers /\ \A r \in Routers : IsCache(cache[r])
  /\ DOMAIN policyindex = Routers /\ \A r \in Routers : IsPolicyIndex(policyindex[r])
  /\ cachedRouterTable \in [Names -> [Routers -> Nat]]
  /\ now \in Times

\* The table the manager resolves names with lists a router for a name
\* exactly once while the router stores it, and not at all otherwise.
\* SetEntry has to keep the two in step through four paths, one of which
\* (ReplaceEntry) must not touch the table and one of which may evict
\* nothing although it announced that it would.
DirectoryMirrorsCaches ==
  \A r \in Routers, n \in Names :
    cachedRouterTable[n][r] = IF n \in DOMAIN cache[r] THEN 1 ELSE 0

\* The two containers of a store hold the same names after any sequence of
\* insertions, evictions, replacements and uses.
ContainersAgree ==
  \A r \in Routers : DOMAIN policyindex[r] = DOMAIN cache[r]

\* Under FIFO, LRU and LFU the index a name is filed under is the one its
\* entry has now; a stale one would make EvictEntry pick the wrong victim.
IndexIsCurrent ==
  Policy # "SUC" =>
    \A r \in Routers : \A n \in DOMAIN cache[r] :
      /\ n \in DOMAIN policyindex[r]
      /\ policyindex[r][n] = CreateIndex(cache[r], cache[r][n])

\* Under SUC an index is the share of the distance and a share of frequency,
\* at most 10000, in unsigned arithmetic: below zero it wraps around.
InHopBand(index, ttl) ==
  \/ index \in HopShare(ttl) .. HopShare(ttl) + 10000
  \/ index - UintRange \in HopShare(ttl) .. HopShare(ttl) + 10000

\* An index of SUC stays in the band that the distance of its entry
\* determines, whatever has happened to the use counts of the others since it
\* was computed.  So bands that do not overlap rank by distance alone, except
\* that a TTL above 64 may rank above all others.
IndexInHopBand ==
  Policy = "SUC" =>
    \A r \in Routers : \A n \in DOMAIN cache[r] :
      InHopBand(policyindex[r][n], cache[r][n].ttl)

(* The stores and the table implement ContentDirectory.                    *)

ListedNames(r) == {n \in Names : cachedRouterTable[n][r] > 0}

Directory == INSTANCE ContentDirectory WITH
               MustMakeRoom <- SureToEvict,
               stored <- [r \in Routers |-> DOMAIN cache[r]],
               listed <- [r \in Routers |-> ListedNames(r)]

\* Each call of SetEntry and Find is one step of the directory, or none: the
\* manager learns of an insertion and of the eviction that made room for it
\* together, a store below its size evicts nothing, a use evicts nothing,
\* and under FIFO and LRU a full store exchanges exactly one content.
ImplementsDirectory == Directory!Spec

\* A cache never holds more contents than its size.
CapacityRespected ==
  \A r \in Routers : Cardinality(DOMAIN cache[r]) <= CacheSize
=============================================================================
