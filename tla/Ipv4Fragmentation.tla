-------------------------- MODULE Ipv4Fragmentation --------------------------
(***************************************************************************)
(* Fragmentation and reassembly in Ipv4RouterL3Protocol: SendRealOut and   *)
(* DoFragmentation on every node a datagram passes, LocalDeliver,          *)
(* ProcessFragment and the class Fragments at its destination, and the     *)
(* timer of a datagram that stays incomplete.                              *)
(*                                                                         *)
(* A fragment carries the bytes themselves: data is a sequence of          *)
(* positions in the datagram it comes from, which no code looks at and     *)
(* which the properties compare with what was sent.  A packet the network  *)
(* loses is one that does not arrive: a timer may fire at any time.        *)
(***************************************************************************)
EXTENDS Integers, Sequences, FiniteSets, FiniteSetsExt, SequencesExt, Functions

CONSTANTS
  Datagrams,      \* the keys (addresses, identification, protocol)
  Size,           \* Size[d]: the payload of d in bytes
  Align,          \* 8: the unit of a fragment offset
  Mtu,            \* Mtu[h]: external, what fits the links d can take as its h-th
  MaxDuplicates   \* external: bound on the packets the network duplicates

ASSUME DatagramAssumption ==
  /\ Size \in [Datagrams -> Nat \ {0}]
  /\ Align \in Nat \ {0}
  /\ Mtu \in Seq(SUBSET Nat) /\ Len(Mtu) > 0
  /\ \A h \in 1 .. Len(Mtu) : \A mtu \in Mtu[h] : mtu >= Align
  /\ MaxDuplicates \in Nat

VARIABLES
  sent,         \* the datagrams sent
  packets,      \* the packets in flight
  fragments,    \* m_fragments: the Fragments of each key that has some
  timers,       \* m_fragmentsTimers: the keys whose timer is scheduled
  delivered,    \* what has been passed to the transport protocol
  dropped,      \* what has been passed to the drop trace at a timeout
  duplicates    \* how many packets have been duplicated

vars == <<sent, packets, fragments, timers, delivered, dropped, duplicates>>

NoFragments == [d \in {} |-> 0]

Init ==
  /\ sent = {} /\ packets = {} /\ delivered = {} /\ dropped = {}
  /\ fragments = NoFragments
  /\ timers = {}
  /\ duplicates = 0

Original(d) == [i \in 1 .. Size[d] |-> i]

\* A packet that has passed hop links.
Packet(d, data, offset, more, hop) ==
  [id |-> d, data |-> data, offset |-> offset, more |-> more, hop |-> hop]

-----------------------------------------------------------------------------
(* Sending: SendRealOut and DoFragmentation. *)

\* external: Packet::CreateFragment, which clips at the end of the packet
CreateFragment(data, start, length) ==
  SubSeq(data, start + 1, Min({start + length, Len(data)}))

\* The offset of a fragment is added to those of its pieces only if more
\* fragments follow it.
DoFragmentation(p, mtu) ==
  LET fragmentSize == (mtu \div Align) * Align
      starts == {s \in 0 .. Len(p.data) - 1 : s % fragmentSize = 0}
      originalOffset == IF p.more THEN p.offset ELSE 0
  IN  {[p EXCEPT !.data = CreateFragment(p.data, offset, fragmentSize),
                 !.offset = offset + originalOffset,
                 !.more = p.more \/ offset + fragmentSize < Len(p.data)]
         : offset \in starts}

SendRealOut(p, mtu) ==
  LET next == [p EXCEPT !.hop = @ + 1]
  IN  IF Len(p.data) > mtu THEN DoFragmentation(next, mtu) ELSE {next}

Send(d) ==
  /\ d \notin sent
  /\ sent' = sent \cup {d}
  /\ \E mtu \in Mtu[1] :
       packets' = packets \cup
                    SendRealOut(Packet(d, Original(d), 0, FALSE, 0), mtu)
  /\ UNCHANGED <<fragments, timers, delivered, dropped, duplicates>>

\* The packet leaves the network, unless another copy of it stays there.
Taken(p, new) ==
  \/ packets' = (packets \ {p}) \cup new /\ UNCHANGED duplicates
  \/ /\ duplicates < MaxDuplicates
     /\ packets' = packets \cup new
     /\ duplicates' = duplicates + 1

\* IpForward on the node between two links.
IpForward(p) ==
  /\ p.hop < Len(Mtu)
  /\ \E mtu \in Mtu[p.hop + 1] : Taken(p, SendRealOut(p, mtu))
  /\ UNCHANGED <<sent, fragments, timers, delivered, dropped>>

-----------------------------------------------------------------------------
(* The class Fragments: m_moreFragment and the list of fragments.          *)

NewFragments == [moreFragment |-> FALSE, list |-> <<>>]

\* Faulty: the flag is that of the fragment that came last, not of the one
\* at the end of the list.
AddFragmentTakingFlag(f, data, offset, more) ==
  LET before == Cardinality({i \in DOMAIN f.list : f.list[i].offset <= offset})
  IN  [moreFragment |-> more,
       list |-> InsertAt(f.list, before + 1, [data |-> data, offset |-> offset])]

\* The list is sorted by offset; a fragment goes behind those of its offset.
AddFragment(f, data, offset, more) ==
  LET before == Cardinality({i \in DOMAIN f.list : f.list[i].offset <= offset})
  IN  [moreFragment |-> IF before = Len(f.list) THEN more ELSE f.moreFragment,
       list |-> InsertAt(f.list, before + 1, [data |-> data, offset |-> offset])]

\* lastEndOffset once the first i fragments of the list have been looked at
LastEndOffset(list, i) ==
  Max({0} \cup {list[j].offset + Len(list[j].data) : j \in 1 .. i})

\* Faulty: does not look whether more fragments follow the last one.
IsEntireSoFar(f) ==
  /\ f.list # <<>>
  /\ \A i \in DOMAIN f.list : f.list[i].offset <= LastEndOffset(f.list, i - 1)

IsEntire(f) ==
  /\ ~f.moreFragment /\ f.list # <<>>
  /\ \A i \in DOMAIN f.list : f.list[i].offset <= LastEndOffset(f.list, i - 1)

\* What comes after the bytes that are there already.
Rest(data, newStart) == CreateFragment(data, newStart, Len(data) - newStart)

\* Faulty: an overlapped fragment is appended whole.
GetPacketOverlapping(f) ==
  FoldLeft(LAMBDA p, frag : p \o frag.data, <<>>, f.list)

\* A fragment behind what has been joined: the bytes that overlap are left out.
AddAtEnd(p, frag) ==
  IF Len(p) > frag.offset THEN p \o Rest(frag.data, Len(p) - frag.offset)
  ELSE p \o frag.data

GetPacket(f) ==
  LET joined[i \in 0 .. Len(f.list)] ==
        IF i = 0 THEN <<>> ELSE AddAtEnd(joined[i - 1], f.list[i])
  IN  joined[Len(f.list)]

\* A fragment behind a gap is left out.  Len (data) - newStart is computed in
\* uint32_t: below zero, CreateFragment gets a start behind the end of the
\* data, and clips.
AddIfNext(p, frag) == IF Len(p) >= frag.offset THEN AddAtEnd(p, frag) ELSE p

\* Faulty: appends what does not follow.
GetPartialPacketWithGaps(f) ==
  IF f.list[1].offset > 0 THEN <<>> ELSE GetPacket(f)

GetPartialPacket(f) ==
  LET joined[i \in 0 .. Len(f.list)] ==
        IF i = 0 THEN <<>> ELSE AddIfNext(joined[i - 1], f.list[i])
  IN  IF f.list[1].offset > 0 THEN <<>> ELSE joined[Len(f.list)]

-----------------------------------------------------------------------------
(* The destination: LocalDeliver, ProcessFragment, HandleFragmentsTimeout. *)

Erase(d) ==
  /\ fragments' = Restrict(fragments, DOMAIN fragments \ {d})
  /\ timers' = timers \ {d}

FragmentsOf(d) == IF d \in DOMAIN fragments THEN fragments[d] ELSE NewFragments

\* Faulty: the timer of a complete packet is not cancelled.
ProcessFragmentUncancelled(p) ==
  LET f == AddFragment(FragmentsOf(p.id), p.data, p.offset, p.more)
  IN  IF IsEntire(f)
      THEN /\ fragments' = Restrict(fragments, DOMAIN fragments \ {p.id})
           /\ timers' = timers \cup {p.id}
           /\ delivered' = delivered \cup {[id |-> p.id, data |-> GetPacket(f)]}
      ELSE /\ fragments' = [d \in DOMAIN fragments \cup {p.id} |->
                              IF d = p.id THEN f ELSE fragments[d]]
           /\ timers' = timers \cup ({p.id} \ DOMAIN fragments)
           /\ UNCHANGED delivered

\* The timer is scheduled with the first fragment of a key and cancelled
\* with the one that completes the packet.
ProcessFragment(p) ==
  LET f == AddFragment(FragmentsOf(p.id), p.data, p.offset, p.more)
  IN  IF IsEntire(f)
      THEN /\ Erase(p.id)
           /\ delivered' = delivered \cup {[id |-> p.id, data |-> GetPacket(f)]}
      ELSE /\ fragments' = [d \in DOMAIN fragments \cup {p.id} |->
                              IF d = p.id THEN f ELSE fragments[d]]
           /\ timers' = timers \cup ({p.id} \ DOMAIN fragments)
           /\ UNCHANGED delivered

LocalDeliverWhole(p) ==
  /\ p.hop = Len(Mtu) /\ ~p.more /\ p.offset = 0
  /\ Taken(p, {})
  /\ delivered' = delivered \cup {[id |-> p.id, data |-> p.data]}
  /\ UNCHANGED <<sent, fragments, timers, dropped>>

LocalDeliverFragment(p) ==
  /\ p.hop = Len(Mtu) /\ (p.more \/ p.offset # 0)
  /\ Taken(p, {})
  /\ ProcessFragment(p)
  /\ UNCHANGED <<sent, dropped>>

\* Faulty: reports only what it sends a message for.
HandleFragmentsTimeoutSmall(d) ==
  /\ d \in timers
  /\ LET packet == GetPartialPacket(fragments[d])
     IN  dropped' = IF Len(packet) > Align
                    THEN dropped \cup {[id |-> d, data |-> packet, icmp |-> TRUE]}
                    ELSE dropped
  /\ Erase(d)
  /\ UNCHANGED <<sent, packets, delivered, duplicates>>

\* icmp: whether a Time Exceeded message is sent (the packet holds more than
\* 8 bytes).
HandleFragmentsTimeout(d) ==
  /\ d \in timers
  /\ LET packet == GetPartialPacket(fragments[d])
     IN  dropped' = dropped \cup
                      {[id |-> d, data |-> packet, icmp |-> Len(packet) > Align]}
  /\ Erase(d)
  /\ UNCHANGED <<sent, packets, delivered, duplicates>>

Arrive(p) == IpForward(p) \/ LocalDeliverWhole(p) \/ LocalDeliverFragment(p)

Next ==
  \/ \E d \in Datagrams : Send(d) \/ HandleFragmentsTimeout(d)
  \/ \E p \in packets : Arrive(p)

Spec == Init /\ [][Next]_vars

\* Every scheduled event is executed, the timers' too.
Fairness ==
  /\ WF_vars(\E p \in packets : Arrive(p))
  /\ \A d \in Datagrams : WF_vars(HandleFragmentsTimeout(d))

FairSpec == Spec /\ Fairness

-----------------------------------------------------------------------------
PacketType ==
  [id : sent, data : Seq(Nat), offset : Nat, more : BOOLEAN, hop : 1 .. Len(Mtu)]

FragmentsType ==
  [moreFragment : BOOLEAN, list : Seq([data : Seq(Nat), offset : Nat])]

(* Packets belong to datagrams that were sent and are not past their       *)
(* destination; buffers are those of such datagrams.                       *)
TypeOK ==
  /\ sent \subseteq Datagrams
  /\ packets \subseteq PacketType
  /\ DOMAIN fragments \subseteq sent
  /\ \A d \in DOMAIN fragments : fragments[d] \in FragmentsType
  /\ timers \subseteq sent
  /\ \A x \in delivered \cup dropped : x.id \in sent
  /\ duplicates \in 0 .. MaxDuplicates

\* A datagram is incomplete exactly while its timer runs: the handler of a
\* timeout always finds the fragments it dereferences without a test, and no
\* fragments stay behind without a timer to free them.
TimerPerBuffer == DOMAIN fragments = timers

\* What the transport protocol gets is what was sent, byte for byte, in
\* whatever order and however often fragments of whatever sizes arrive.
DeliveredAsSent == \A x \in delivered : x.data = Original(x.id)

Buffered(d) == UNION {Range(fragments[d].list[i].data) : i \in DOMAIN fragments[d].list}

\* No datagram waits for its timer when all of its bytes have arrived.
CompleteIsDelivered ==
  \A d \in DOMAIN fragments : Buffered(d) # 1 .. Size[d]

\* What is reported of a datagram that timed out is its beginning, whatever
\* gaps and overlaps there were.
PartialIsPrefix == \A x \in dropped : IsPrefix(x.data, Original(x.id))

\* A datagram is not both delivered and reported as timed out, unless the
\* network has duplicated something: a timer that fires between fragments
\* takes bytes away without which the datagram is never complete, and what
\* completes it leaves no fragment that could start another timer.
OneFate ==
  \A x \in delivered, y \in dropped : x.id = y.id => duplicates > 0

\* Every datagram of which a packet arrives is delivered or reported as
\* timed out: no fragment stays in a buffer for ever.
DatagramAccountedFor ==
  \A d \in Datagrams :
    d \in sent ~> \E x \in delivered \cup dropped : x.id = d
=============================================================================
