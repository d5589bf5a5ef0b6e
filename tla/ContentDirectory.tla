--------------------------- MODULE ContentDirectory ---------------------------
(***************************************************************************)
(* What the content stores and the manager's directory promise, without    *)
(* policies, entries, indexes, multiplicities or time.  A content enters a *)
(* store and is listed for it in one step; if the store is full, at most   *)
(* one other content leaves the store and the list in that same step, and  *)
(* exactly one where room must be made; and nothing ever leaves a store    *)
(* for another reason.  Lookups change nothing.                            *)
(***************************************************************************)
EXTENDS Naturals, FiniteSets

CONSTANTS
  Names, Routers,
  CacheSize,       \* the number of contents that fills a store
  MustMakeRoom     \* whether a full store must give up a content for another

VARIABLES
  stored,   \* stored[r]: the contents router r has
  listed    \* listed[r]: the contents the manager believes router r has

dirVars == <<stored, listed>>

Init ==
  /\ stored = [r \in Routers |-> {}]
  /\ listed = [r \in Routers |-> {}]

Full(r) == Cardinality(stored[r]) >= CacheSize

\* n takes the place of the contents in out, of which there is at most one.
Exchange(r, out, n) ==
  /\ stored' = [stored EXCEPT ![r] = (@ \ out) \cup {n}]
  /\ listed' = [listed EXCEPT ![r] = (@ \ out) \cup {n}]

Admit(r, n) ==
  /\ n \notin stored[r]
  /\ ~Full(r)
  /\ Exchange(r, {}, n)

AdmitToFull(r, n) ==
  /\ n \notin stored[r]
  /\ Full(r)
  /\ \/ ~MustMakeRoom /\ Exchange(r, {}, n)
     \/ \E v \in stored[r] : Exchange(r, {v}, n)

Next == \E r \in Routers, n \in Names : Admit(r, n) \/ AdmitToFull(r, n)

Spec == Init /\ [][Next]_dirVars
=============================================================================
