------------------------------ MODULE ZipfClient ------------------------------
(***************************************************************************)
(* OICNZipfClient: a client that asks for contents of a range of indexes   *)
(* with the probabilities of the Zipf-Mandelbrot law.  What it does with   *)
(* the answers is what OicnClient does (OverlayNetwork).                   *)
(*                                                                         *)
(* Probabilities are whole numbers: Weight[i] stands for 1/(i + q)^s, and  *)
(* p_random falls into one of as many equal parts of (0, 1) as the weights *)
(* add up to.                                                              *)
(***************************************************************************)
EXTENDS ContentNames, FiniteSets, FiniteSetsExt

CONSTANTS
  Ranges,      \* the pairs SetZipf may be called with
  Weight,      \* the law; the first content has the highest weight
  MaxPackets   \* m_count

ASSUME ZipfAssumption ==
  /\ \A range \in Ranges :
       /\ range[1] \in Nat /\ range[2] \in Nat /\ range[1] <= range[2]
       /\ range[2] - range[1] <= Len(Weight)
  /\ Weight \in Seq(Nat \ {0})
  /\ \A i \in 2 .. Len(Weight) : Weight[i] <= Weight[i - 1]
  /\ MaxPackets \in Nat

VARIABLES
  range,       \* m_range
  socket,      \* whether the sockets are open
  scheduled,   \* m_sendEvent is pending
  sent,        \* m_sent
  queries      \* what has been drawn, asked for and under which name

vars == <<range, socket, scheduled, sent, queries>>

First == range[1]
Second == range[2]

-----------------------------------------------------------------------------
(* SetZipf.  There is one weight less than there are contents.             *)

N == Second - First

\* m_Pcum before it is divided by m_Pcum[m_N]
Pcum[j \in 0 .. Len(Weight)] == IF j = 0 THEN 0 ELSE Pcum[j - 1] + Weight[j]

Parts == 1 .. Max({1, Pcum[N]})

\* Faulty: a number on the boundary goes to the next content.
GetNextContentIndexStrict(p_random) ==
  LET hits == {i \in First .. Second : p_random < Pcum[i - First]}
  IN  IF hits = {} THEN First ELSE Min(hits)

\* The first content whose cumulative probability is not below p_random; if
\* there is none, the first one.
GetNextContentIndex(p_random) ==
  LET hits == {i \in First .. Second : p_random <= Pcum[i - First]}
  IN  IF hits = {} THEN First ELSE Min(hits)

-----------------------------------------------------------------------------
Init ==
  /\ range \in Ranges
  /\ socket = FALSE /\ scheduled = FALSE
  /\ sent = 0
  /\ queries = {}

\* The first packet is scheduled whatever MaxPackets says.
StartApplication ==
  /\ ~socket /\ sent = 0
  /\ socket' = TRUE /\ scheduled' = TRUE
  /\ UNCHANGED <<range, sent, queries>>

\* Send, and ScheduleTransmit of the next one.
Send ==
  /\ scheduled
  /\ \E p_random \in Parts :
       LET index == GetNextContentIndex(p_random)
       IN  queries' = queries \cup
             {[random |-> p_random, index |-> index, name |-> GetContent(index)]}
  /\ sent' = sent + 1
  /\ scheduled' = (sent' < MaxPackets)
  /\ UNCHANGED <<range, socket>>

\* Faulty: the pending event is not cancelled.
StopApplicationUncancelled ==
  /\ socket
  /\ socket' = FALSE
  /\ UNCHANGED <<range, scheduled, sent, queries>>

StopApplication ==
  /\ socket
  /\ socket' = FALSE /\ scheduled' = FALSE
  /\ UNCHANGED <<range, sent, queries>>

Next == StartApplication \/ Send \/ StopApplication

Spec == Init /\ [][Next]_vars

-----------------------------------------------------------------------------
(* The counters and the indexes asked for stay in their ranges.            *)
TypeOK ==
  /\ range \in Ranges
  /\ socket \in BOOLEAN /\ scheduled \in BOOLEAN
  /\ sent \in 0 .. Max({1, MaxPackets})
  /\ \A q \in queries : q.index \in First .. Second

\* Whenever a packet is due there is a socket to send it with: Send does not
\* test m_socketIcnManager, which StopApplication resets.
SocketWhenDue == scheduled => socket

\* Queries for different contents carry different names, also on both sides
\* of the indexes at which a name gets a digit more.
NamesTellContents ==
  \A q, r \in queries : q.name = r.name => q.index = r.index

\* The k-th content behind the first is drawn as often as its weight says:
\* the cumulative sums, and the comparison at their boundaries, give every
\* part of (0, 1) to the content it belongs to.
DrawnByWeight ==
  \A k \in 1 .. N :
    Cardinality({p \in Parts : GetNextContentIndex(p) = First + k}) = Weight[k]
=============================================================================
