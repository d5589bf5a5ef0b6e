-------------------------- MODULE NamedContentCache --------------------------
(***************************************************************************)
(* The content store of an ICN router: the abstract class                  *)
(* NamedContentCache and its four policies CacheWithFifo, CacheWithLRU,    *)
(* CacheWithLFU and SimpleUniversalCaching.                                *)
(*                                                                         *)
(* A store is two containers kept in step by hand:                         *)
(*   c  the Cache (unordered_map): a function from the names stored to     *)
(*      their entries;                                                     *)
(*   p  the PolicyIndex (bimap, multiset on the left, unique names on the  *)
(*      right): a function from names to indexes.  policyindex.left is the *)
(*      order of p's values; names with equal indexes are unordered here.  *)
(* This module holds the operators on (c, p); CacheManager holds the       *)
(* state.  Policy selects the subclass aggregated to the routers.          *)
(***************************************************************************)
EXTENDS Integers, FiniteSets, FiniteSetsExt, Functions

CONSTANTS
  Names,           \* the content names
  Policy,          \* the subclass: "FIFO", "LRU", "LFU" or "SUC"
  CacheSize,       \* cache_size
  FreshnessTime,   \* freshness_time, in milliseconds (LFU and SUC only)
  Ttls,            \* the IP TTLs a content packet can arrive with
  MaxTime,         \* bound on the simulation clock, in milliseconds
  MaxFrequency,    \* bound on the use count of an entry
  UintRange,       \* 2^32: uint32_t arithmetic is modulo this
  ToFloat(_)       \* rounding of a millisecond count to a float

Times == 0 .. MaxTime

ASSUME PolicyAssumption == Policy \in {"FIFO", "LRU", "LFU", "SUC"}
ASSUME SizeAssumption == CacheSize \in Nat \ {0} /\ IsFiniteSet(Names)
ASSUME BoundAssumption ==
  /\ FreshnessTime \in Nat
  /\ Ttls \subseteq 0 .. 255
  /\ MaxTime \in Nat
  /\ MaxFrequency \in Nat \ {0}
ASSUME RangeAssumption ==   \* every sum of shares fits, positive or negative
  UintRange \in Nat /\ UintRange > 10 * 10000
ASSUME FloatAssumption ==
  \A s, t \in Times : ToFloat(s) \in Nat /\ (s <= t => ToFloat(s) <= ToFloat(t))

\* The settings under which EvictEntry, called on a store that is not empty,
\* is sure to erase something: every entry is expired if the freshness time
\* is zero.
SureToEvict == Policy \in {"FIFO", "LRU"} \/ FreshnessTime = 0

CacheEntry == [timestamp : Times, ttl : Ttls \cup {0}, frequency : 1 .. MaxFrequency]

IsCache(c) == DOMAIN c \subseteq Names /\ c \in [DOMAIN c -> CacheEntry]
IsPolicyIndex(p) == DOMAIN p \subseteq Names /\ p \in [DOMAIN p -> Nat]
Empty == [n \in {} |-> 0]

-----------------------------------------------------------------------------
(* What the subclasses share: the containers. *)

Without(f, erased) == Restrict(f, DOMAIN f \ erased)

\* unordered_map::insert and bimap::insert keep what is already there.
InsertToCache(c, n, entry) ==
  IF n \in DOMAIN c THEN c
  ELSE [m \in DOMAIN c \cup {n} |-> IF m = n THEN entry ELSE c[m]]

InsertToPolicyIndex(p, index, n) ==
  IF n \in DOMAIN p THEN p
  ELSE [m \in DOMAIN p \cup {n} |-> IF m = n THEN index ELSE p[m]]

\* Faulty: lets a cache grow by one.
IsFullTooLate(c) == Cardinality(DOMAIN c) > CacheSize

IsFull(c) == Cardinality(DOMAIN c) >= CacheSize

IsUnique(c, n) == n \notin DOMAIN c

\* policyindex.left.equal_range (policyindex.left.begin ()->first)
FirstGroup(p) == {n \in DOMAIN p : \A m \in DOMAIN p : p[n] <= p[m]}

\* Faulty: an entry stays fresh for a tick too long.
ExpiredTooLate(c, n, now) == now - c[n].timestamp > FreshnessTime

Expired(c, n, now) == now - c[n].timestamp >= FreshnessTime

-----------------------------------------------------------------------------
(* CacheWithFifo: the index is the time of insertion. *)

FifoCreateEntry(now) == [timestamp |-> now, ttl |-> 0, frequency |-> 1]
FifoCreateIndex(entry) == ToFloat(entry.timestamp)
FifoVictims(p) == FirstGroup(p)

(* CacheWithLRU: the index is the time of insertion or of the last use. *)

LruCreateEntry(now) == [timestamp |-> now, ttl |-> 0, frequency |-> 1]
LruCreateIndex(entry) == ToFloat(entry.timestamp)
LruVictims(p) == FirstGroup(p)
\* Faulty: a use does not refresh the timestamp.
LruUsedUnrefreshed(entry, now) == entry

LruUsed(entry, now) == [entry EXCEPT !.timestamp = now]

(* CacheWithLFU: the index is the number of uses; a use does not refresh   *)
(* the timestamp.  IsEvictable accepts a newcomer that is not below the    *)
(* least used entry even when nothing has expired, but EvictEntry erases   *)
(* expired entries only.                                                   *)

\* Faulty: the frequency is not initialised to 1.
LfuCreateEntryUnused(now, ttl) == [timestamp |-> now, ttl |-> ttl, frequency |-> 0]

LfuCreateEntry(now, ttl) == [timestamp |-> now, ttl |-> ttl, frequency |-> 1]
LfuCreateIndex(entry) == entry.frequency
\* Faulty: ignores the freshness time.
LfuVictimsFresh(c, p, now) == FirstGroup(p)

\* Faulty: looks past the first group of the bimap.
LfuVictimsBeyond(c, p, now) == {n \in DOMAIN p : Expired(c, n, now)}

LfuVictims(c, p, now) == {n \in FirstGroup(p) : Expired(c, n, now)}
\* Faulty: the search for an expired content ends at the first fresh one.
LfuIsEvictableAllExpired(c, p, index, now) ==
  \/ \E n \in FirstGroup(p) : index >= p[n]
  \/ \A n \in FirstGroup(p) : Expired(c, n, now)

LfuIsEvictable(c, p, index, now) ==
  \/ \E n \in FirstGroup(p) : index >= p[n]
  \/ LfuVictims(c, p, now) # {}
LfuUsed(entry) == [entry EXCEPT !.frequency = @ + 1]

(* SimpleUniversalCaching: relative frequency plus distance travelled.     *)

SucCreateEntry(now, ttl) == [timestamp |-> now, ttl |-> ttl, frequency |-> 1]

\* (64 - ttl) * 20000 / 64 in int arithmetic, which truncates towards zero
HopShare(ttl) ==
  IF ttl <= 64 THEN ((64 - ttl) * 20000) \div 64
  ELSE -(((ttl - 64) * 20000) \div 64)

\* Faulty: the maximum starts from 1, not from the frequency of the entry.
FrequencyMaxOfOthers(c, entry) == Max({1} \cup {c[n].frequency : n \in DOMAIN c})

FrequencyMax(c, entry) ==
  Max({entry.frequency} \cup {c[n].frequency : n \in DOMAIN c})

SucCreateIndex(c, entry) ==
  LET frequencyShare ==
        IF DOMAIN c = {} THEN 10000
        ELSE ((entry.frequency * 10000) % UintRange) \div FrequencyMax(c, entry)
  IN  (frequencyShare + HopShare(entry.ttl)) % UintRange

SucVictims(c, p, now) == {n \in FirstGroup(p) : Expired(c, n, now)}
SucIsEvictable(c, p, index, now) ==
  \/ \E n \in FirstGroup(p) : index >= p[n]
  \/ SucVictims(c, p, now) # {}
SucUsed(entry, now) == [entry EXCEPT !.timestamp = now, !.frequency = @ + 1]

-----------------------------------------------------------------------------
(* The virtual methods of NamedContentCache. *)

CreateEntry(now, ttl) ==
  CASE Policy = "FIFO" -> FifoCreateEntry(now)
    [] Policy = "LRU"  -> LruCreateEntry(now)
    [] Policy = "LFU"  -> LfuCreateEntry(now, ttl)
    [] Policy = "SUC"  -> SucCreateEntry(now, ttl)

CreateIndex(c, entry) ==
  CASE Policy = "FIFO" -> FifoCreateIndex(entry)
    [] Policy = "LRU"  -> LruCreateIndex(entry)
    [] Policy = "LFU"  -> LfuCreateIndex(entry)
    [] Policy = "SUC"  -> SucCreateIndex(c, entry)

IsEvictable(c, p, index, now) ==
  CASE Policy = "FIFO" -> TRUE
    [] Policy = "LRU"  -> TRUE
    [] Policy = "LFU"  -> LfuIsEvictable(c, p, index, now)
    [] Policy = "SUC"  -> SucIsEvictable(c, p, index, now)

Victims(c, p, now) ==
  CASE Policy = "FIFO" -> FifoVictims(p)
    [] Policy = "LRU"  -> LruVictims(p)
    [] Policy = "LFU"  -> LfuVictims(c, p, now)
    [] Policy = "SUC"  -> SucVictims(c, p, now)

\* What one call of EvictEntry () may erase: one of the victims, whichever
\* the bimap lists first, or nothing (the empty name is returned).
EvictEntry(c, p, now) ==
  LET victims == Victims(c, p, now)
  IN  IF victims = {} THEN {{}} ELSE {{v} : v \in victims}

Used(entry, now) ==
  CASE Policy = "FIFO" -> entry
    [] Policy = "LRU"  -> LruUsed(entry, now)
    [] Policy = "LFU"  -> LfuUsed(entry)
    [] Policy = "SUC"  -> SucUsed(entry, now)

\* Faulty: the name stays in the bimap, which then refuses the new index.
UpdateIndexUnindexed(c, p, n, now) ==
  LET rest == Without(c, {n})
      used == Used(c[n], now)
  IN  IF Policy = "FIFO" THEN [cache |-> c, policyindex |-> p]
      ELSE [cache |-> InsertToCache(rest, n, used),
            policyindex |-> InsertToPolicyIndex(p, CreateIndex(rest, used), n)]

\* UpdateIndex (n): the entry leaves both containers before its new index
\* is computed and comes back; CacheWithFifo does nothing.
UpdateIndex(c, p, n, now) ==
  LET rest == Without(c, {n})
      used == Used(c[n], now)
  IN  IF Policy = "FIFO" THEN [cache |-> c, policyindex |-> p]
      ELSE [cache |-> InsertToCache(rest, n, used),
            policyindex |->
              InsertToPolicyIndex(Without(p, {n}), CreateIndex(rest, used), n)]
=============================================================================
