---------------------------- MODULE EvictionHistory ----------------------------
(***************************************************************************)
(* CacheManager with history variables that record, independently of the   *)
(* entries and indexes the code keeps, when each stored content was last   *)
(* inserted and last used and how often it was used since its insertion.   *)
(* Every eviction is compared with that record: what is checked is the     *)
(* policy, not the code's own book-keeping.  The count of uses saturates   *)
(* at MaxFrequency, which no entry of a counting policy exceeds.           *)
(***************************************************************************)
EXTENDS CacheManager

VARIABLES insertedAt, usedAt, uses

historyVars == <<insertedAt, usedAt, uses>>
vars == <<cmVars, historyVars>>

NoHistory == [r \in Routers |-> [n \in Names |-> 0]]

HistoryInit == Init /\ insertedAt = NoHistory /\ usedAt = NoHistory /\ uses = NoHistory

\* Record v for n at r and forget what has left the cache of r.
Recorded(history, r, n, v) ==
  [history EXCEPT ![r] =
    [m \in Names |-> IF m \notin DOMAIN cache'[r] THEN 0
                     ELSE IF m = n THEN v ELSE @[m]]]

ContentArrives(r, n, ttl) ==
  /\ EntrySet(r, n, ttl)
  /\ insertedAt' = Recorded(insertedAt, r, n, now)
  /\ usedAt' = Recorded(usedAt, r, n, now)
  /\ uses' = Recorded(uses, r, n, 1)

ContentRefused(r, n, ttl) == RefuseEntry(r, n, ttl) /\ UNCHANGED historyVars

ContentServed(r, n) ==
  /\ ServeRequest(r, n)
  /\ usedAt' = Recorded(usedAt, r, n, now)
  /\ uses' = Recorded(uses, r, n, IF uses[r][n] < MaxFrequency THEN uses[r][n] + 1
                                  ELSE MaxFrequency)
  /\ UNCHANGED insertedAt

TimePasses == Tick /\ UNCHANGED historyVars

HistoryNext ==
  \/ \E r \in Routers, n \in Names, ttl \in Ttls :
       ContentArrives(r, n, ttl) \/ ContentRefused(r, n, ttl)
  \/ \E r \in Routers, n \in Names : ContentServed(r, n)
  \/ TimePasses

HistorySpec == HistoryInit /\ [][HistoryNext]_vars

-----------------------------------------------------------------------------
\* What the policy orders its contents by.
Standing(r, n) ==
  CASE Policy = "FIFO" -> ToFloat(insertedAt[r][n])
    [] Policy = "LRU"  -> ToFloat(usedAt[r][n])
    [] Policy = "LFU"  -> uses[r][n]

Evicted(r) == DOMAIN cache[r] \ DOMAIN cache'[r]

\* A content leaves a cache only if no content of that cache stands below it
\* in what the policy promises to order them by: the time of insertion under
\* FIFO, of the last use under LRU (both up to the precision of a float), the
\* number of uses under LFU.  The code orders a bimap it maintains by hand on
\* every insertion, replacement, use and eviction.  (SUC promises no such
\* order: see IndexInHopBand.)
EvictionFollowsPolicy ==
  [][Policy # "SUC" =>
       \A r \in Routers : \A v \in Evicted(r), m \in DOMAIN cache[r] :
         Standing(r, v) <= Standing(r, m)]_vars

\* Not inserted, under SUC not used, within the freshness time.
Stale(r, n) ==
  now - (IF Policy = "SUC" THEN usedAt ELSE insertedAt)[r][n] >= FreshnessTime

\* Under LFU and SUC a step evicts only contents that have been in the cache,
\* under SUC since their last use, for the freshness time.
FreshContentKept ==
  [][Policy = "LFU" \/ Policy = "SUC" =>
       \A r \in Routers : \A v \in Evicted(r) : Stale(r, v)]_vars

\* A full store takes in a content and gives up none.
Outgrows(r) ==
  /\ IsFull(cache[r])
  /\ Evicted(r) = {}
  /\ DOMAIN cache'[r] # DOMAIN cache[r]

LeastUsed(r) ==
  {n \in DOMAIN cache[r] : \A m \in DOMAIN cache[r] : uses[r][n] <= uses[r][m]}

\* A store outgrows its size, which only LFU and SUC let it do, while it has
\* contents that have not been there, under SUC not been unused, for the
\* freshness time; under LFU those used least are all such contents.  (This
\* is what is left of CapacityRespected for these policies.)
GrowthIsForced ==
  [][\A r \in Routers :
       Outgrows(r) =>
         /\ Policy = "LFU" \/ Policy = "SUC"
         /\ \E n \in DOMAIN cache[r] : ~Stale(r, n)
         /\ Policy = "LFU" => \A n \in LeastUsed(r) : ~Stale(r, n)]_vars

\* Under LFU a full store turns a newcomer away only while it has nothing to
\* give up, all the contents used least being within the freshness time, and
\* takes one in only if some content is expired or used no more than the
\* newcomer, which is used once.  (Expired contents that are used more than
\* the least do not count for IsEvictable, although the header says that any
\* content's freshness does.)
AdmissionIsDeserved ==
  \A r \in Routers, ttl \in Ttls :
    (Policy = "LFU" /\ IsFull(cache[r])) =>
      /\ ~Evictable(r, ttl) => \A n \in LeastUsed(r) : ~Stale(r, n)
      /\ Evictable(r, ttl) =>
           \E n \in DOMAIN cache[r] : Stale(r, n) \/ uses[r][n] <= 1
=============================================================================
