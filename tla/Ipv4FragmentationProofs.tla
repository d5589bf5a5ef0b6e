------------------------ MODULE Ipv4FragmentationProofs ------------------------
(***************************************************************************)
(* Theorems about Ipv4Fragmentation, for any datagrams, sizes and links.   *)
(* Timers and buffers come and go together because each of the handlers    *)
(* that erases one erases the other, and the one that creates a buffer     *)
(* schedules its timer.  What the fragments carry is right as long as      *)
(* DoFragmentation is not given the last fragment of a datagram.  On links *)
(* that do not cut that fragment again (LastFragmentKept), a datagram of   *)
(* which every byte has arrived does not wait in a buffer: the lists stay  *)
(* sorted, so the flag a buffer keeps is that of the fragment at its end,  *)
(* and bytes that leave no gap leave none in the offsets either.  What is  *)
(* then joined is the datagram, and what is joined at a timeout begins it. *)
(* As long as nothing is duplicated, each byte is in one packet or in the  *)
(* buffer or gone, so a datagram that timed out is never complete again.   *)
(***************************************************************************)
EXTENDS Ipv4Fragmentation, FiniteSetTheorems, SequenceTheorems, WellFoundedInduction,
        TLAPS

-----------------------------------------------------------------------------
(* Operators. *)

\* The smaller of two numbers.
LEMMA MinOfTwo ==
  ASSUME NEW a \in Nat, NEW b \in Nat
  PROVE  Min({a, b}) \in {a, b} /\ Min({a, b}) <= a /\ Min({a, b}) <= b
<1>1. \E x \in {a, b} : \A y \in {a, b} : x <= y
  OBVIOUS
<1> QED
  BY <1>1 DEF Min

\* A piece of a packet: its bytes are those of the packet from start on.
LEMMA CreateFragmentBytes ==
  ASSUME NEW data \in Seq(Nat), NEW start \in Nat, NEW length \in Nat
  PROVE  LET x == CreateFragment(data, start, length)
         IN  /\ x \in Seq(Nat)
             /\ \A i \in DOMAIN x : start + i \in DOMAIN data /\ x[i] = data[start + i]
<1> DEFINE end == Min({start + length, Len(data)})
<1>1. end \in Nat /\ end <= Len(data)
  BY MinOfTwo
<1> HIDE DEF end
<1>2. SubSeq(data, start + 1, end) \in Seq(Nat)
  BY <1>1
<1>3. \A i \in DOMAIN SubSeq(data, start + 1, end) :
        /\ start + i \in DOMAIN data
        /\ SubSeq(data, start + 1, end)[i] = data[start + i]
  BY <1>1
<1> QED
  BY <1>2, <1>3 DEF CreateFragment, end

\* A datagram's own bytes.
LEMMA OriginalType ==
  ASSUME NEW d \in Datagrams
  PROVE  Original(d) \in Seq(Nat)
<1>1. Size[d] \in Nat
  BY DatagramAssumption
<1> QED
  BY <1>1 DEF Original

\* Inserting an element into a sequence.
LEMMA InsertAtType ==
  ASSUME NEW S, NEW s \in Seq(S), NEW i \in 1 .. Len(s) + 1, NEW e \in S
  PROVE  InsertAt(s, i, e) \in Seq(S)
<1>1. SubSeq(s, 1, i - 1) \in Seq(S) /\ SubSeq(s, i, Len(s)) \in Seq(S) /\ <<e>> \in Seq(S)
  OBVIOUS
<1> QED
  BY <1>1 DEF InsertAt

\* AddFragment keeps the type of the buffer.
LEMMA AddFragmentType ==
  ASSUME NEW f \in FragmentsType, NEW data \in Seq(Nat), NEW offset \in Nat,
         NEW more \in BOOLEAN
  PROVE  AddFragment(f, data, offset, more) \in FragmentsType
<1> DEFINE T == [data : Seq(Nat), offset : Nat]
           B == {i \in DOMAIN f.list : f.list[i].offset <= offset}
<1>1. f.list \in Seq(T) /\ f.moreFragment \in BOOLEAN
  BY DEF FragmentsType
<1>2. B \in SUBSET (1 .. Len(f.list)) /\ Len(f.list) \in Nat
  BY <1>1
<1>3. IsFiniteSet(1 .. Len(f.list)) /\ Cardinality(1 .. Len(f.list)) = Len(f.list)
  <2> DEFINE n == Len(f.list)
  <2>1. n \in Nat
    BY <1>2
  <2> HIDE DEF n
  <2>2. IsFiniteSet(1 .. n) /\ Cardinality(1 .. n) = IF 1 > n THEN 0 ELSE n - 1 + 1
    BY <2>1, FS_Interval
  <2>3. (IF 1 > n THEN 0 ELSE n - 1 + 1) = n
    BY <2>1
  <2> QED
    BY <2>2, <2>3 DEF n
<1>4. Cardinality(B) \in Nat /\ Cardinality(B) <= Len(f.list)
  BY <1>2, <1>3, FS_Subset, FS_CardinalityType
<1>5. Cardinality(B) + 1 \in 1 .. Len(f.list) + 1
  BY <1>2, <1>4
<1>6. InsertAt(f.list, Cardinality(B) + 1, [data |-> data, offset |-> offset]) \in Seq(T)
  <2> HIDE DEF T, B
  <2>1. [data |-> data, offset |-> offset] \in T
    BY DEF T
  <2> QED
    BY <1>1, <1>5, <2>1, InsertAtType
<1> HIDE DEF B
<1>7. (IF Cardinality(B) = Len(f.list) THEN more ELSE f.moreFragment) \in BOOLEAN
  BY <1>1
<1> QED
  BY <1>6, <1>7 DEF AddFragment, FragmentsType, B

-----------------------------------------------------------------------------
(* DoFragmentation. *)

\* p carries the bytes that belong at its offset.
InPlace(p) == \A i \in DOMAIN p.data : p.data[i] = p.offset + i

AnyPacket == [id : Datagrams, data : Seq(Nat), offset : Nat, more : BOOLEAN, hop : Nat]

\* The pieces of a packet.
LEMMA PieceOf ==
  ASSUME NEW p \in AnyPacket, NEW mtu \in Nat, NEW x \in DoFragmentation(p, mtu)
  PROVE  \E start \in Nat, offset \in {0, p.offset} :
           /\ offset = IF p.more THEN p.offset ELSE 0
           /\ x \in AnyPacket /\ x.id = p.id /\ x.hop = p.hop
           /\ x.offset = start + offset
           /\ \A i \in DOMAIN x.data : start + i \in DOMAIN p.data
                                       /\ x.data[i] = p.data[start + i]
<1> DEFINE size == (mtu \div Align) * Align
           original == IF p.more THEN p.offset ELSE 0
<1>1. p.data \in Seq(Nat) /\ Len(p.data) \in Nat /\ p.offset \in Nat /\ p.more \in BOOLEAN
  BY DEF AnyPacket
<1>2. PICK start \in 0 .. Len(p.data) - 1 :
        x = [p EXCEPT !.data = CreateFragment(p.data, start, size),
                      !.offset = start + original,
                      !.more = p.more \/ start + size < Len(p.data)]
  BY DEF DoFragmentation
<1>3. size \in Nat
  <2>1. Align \in Nat \ {0}
    BY DatagramAssumption
  <2>2. mtu \div Align \in Nat
    BY <2>1
  <2> QED
    BY <2>1, <2>2
<1>4. start \in Nat /\ original \in Nat
  BY <1>1
<1> HIDE DEF size
<1>5. /\ CreateFragment(p.data, start, size) \in Seq(Nat)
      /\ \A i \in DOMAIN CreateFragment(p.data, start, size) :
           start + i \in DOMAIN p.data
           /\ CreateFragment(p.data, start, size)[i] = p.data[start + i]
  BY <1>1, <1>3, <1>4, CreateFragmentBytes
<1>6. start + original \in Nat /\ (p.more \/ start + size < Len(p.data)) \in BOOLEAN
  BY <1>1, <1>4
<1>7. /\ x.data = CreateFragment(p.data, start, size)
      /\ x.offset = start + original /\ x.id = p.id /\ x.hop = p.hop /\ x \in AnyPacket
  BY <1>2, <1>5, <1>6 DEF AnyPacket
<1> QED
  BY <1>1, <1>4, <1>5, <1>7

\* Of a whole datagram, and of any fragment but the last, every piece carries
\* the bytes that belong at its offset, whatever the two links take.  (Of the
\* last fragment it does not: the run refragmented.)
THEOREM PiecesInPlace ==
  ASSUME NEW p \in AnyPacket, InPlace(p), p.more \/ p.offset = 0, NEW mtu \in Nat
  PROVE  \A x \in DoFragmentation(p, mtu) : InPlace(x)
<1> SUFFICES ASSUME NEW x \in DoFragmentation(p, mtu), NEW i \in DOMAIN x.data
             PROVE  x.data[i] = x.offset + i
  BY DEF InPlace
<1>1. PICK start \in Nat, offset \in {0, p.offset} :
        /\ offset = IF p.more THEN p.offset ELSE 0
        /\ x \in AnyPacket
        /\ x.offset = start + offset
        /\ \A j \in DOMAIN x.data : start + j \in DOMAIN p.data
                                    /\ x.data[j] = p.data[start + j]
  BY PieceOf
<1>2. offset = p.offset
  BY <1>1
<1>3. p.data[start + i] = p.offset + (start + i)
  BY <1>1 DEF InPlace
<1>4. i \in Int /\ p.offset \in Nat
  BY <1>1 DEF AnyPacket
<1> QED
  BY <1>1, <1>2, <1>3, <1>4

-----------------------------------------------------------------------------
(* The invariant. *)

BufferInv == TypeOK /\ TimerPerBuffer

\* What SendRealOut puts on the next link.
LEMMA SendRealOutType ==
  ASSUME NEW p \in AnyPacket, p.hop \in 0 .. Len(Mtu) - 1, NEW mtu \in Nat,
         NEW x \in SendRealOut(p, mtu)
  PROVE  x \in AnyPacket /\ x.id = p.id /\ x.hop \in 1 .. Len(Mtu)
<1> DEFINE next == [p EXCEPT !.hop = @ + 1]
<1>1. p.hop + 1 \in Nat /\ p.hop + 1 \in 1 .. Len(Mtu)
  <2>1. Len(Mtu) \in Nat
    BY DatagramAssumption
  <2> QED
    BY <2>1
<1>2. next \in AnyPacket /\ next.id = p.id /\ next.hop = p.hop + 1
  BY <1>1 DEF AnyPacket
<1> HIDE DEF next
<1>3. x = next \/ x \in DoFragmentation(next, mtu)
  BY DEF SendRealOut, next
<1> QED
  BY <1>1, <1>2, <1>3, PieceOf

\* A packet that is taken from the network.
LEMMA TakenKeeps ==
  ASSUME TypeOK, NEW p \in packets, NEW new \in SUBSET PacketType,
         Taken(p, new), sent' = sent
  PROVE  packets' \subseteq PacketType' /\ duplicates' \in 0 .. MaxDuplicates
<1>1. PacketType' = PacketType
  BY DEF PacketType
<1>2. MaxDuplicates \in Nat
  BY DatagramAssumption
<1> QED
  BY <1>1, <1>2 DEF Taken, TypeOK

\* Erasing the fragments of a key and its timer.
LEMMA EraseKeeps ==
  ASSUME BufferInv, NEW d, Erase(d)
  PROVE  /\ DOMAIN fragments' = timers' /\ timers' \subseteq timers
         /\ \A k \in DOMAIN fragments' : k \in DOMAIN fragments
                                         /\ fragments'[k] = fragments[k]
BY DEF BufferInv, TimerPerBuffer, Erase, Restrict

\* A fragment that arrives: it is joined to its buffer, or completes it.
LEMMA ProcessFragmentKeeps ==
  ASSUME BufferInv, NEW p \in PacketType, ProcessFragment(p)
  PROVE  /\ DOMAIN fragments' = timers' /\ timers' \subseteq sent
         /\ \A k \in DOMAIN fragments' : fragments'[k] \in FragmentsType
         /\ \A x \in delivered' : x.id \in sent
<1> DEFINE f == AddFragment(FragmentsOf(p.id), p.data, p.offset, p.more)
<1>1. p.id \in sent /\ p.data \in Seq(Nat) /\ p.offset \in Nat /\ p.more \in BOOLEAN
  BY DEF PacketType
<1>2. FragmentsOf(p.id) \in FragmentsType
  BY DEF BufferInv, TypeOK, FragmentsOf, NewFragments, FragmentsType
<1>3. f \in FragmentsType
  BY <1>1, <1>2, AddFragmentType
<1> HIDE DEF f
<1>4. CASE /\ Erase(p.id)
           /\ delivered' = delivered \cup {[id |-> p.id, data |-> GetPacket(f)]}
  BY <1>1, <1>4, EraseKeeps DEF BufferInv, TypeOK
<1>5. CASE /\ fragments' = [d \in DOMAIN fragments \cup {p.id} |->
                              IF d = p.id THEN f ELSE fragments[d]]
           /\ timers' = timers \cup ({p.id} \ DOMAIN fragments)
           /\ delivered' = delivered
  BY <1>1, <1>3, <1>5 DEF BufferInv, TypeOK, TimerPerBuffer
<1> QED
  BY <1>4, <1>5 DEF ProcessFragment, f

\* Every step keeps the invariant.
LEMMA BufferNext ==
  ASSUME BufferInv, [Next]_vars
  PROVE  BufferInv'
<1> USE DEF BufferInv
<1>0. Len(Mtu) \in Nat \ {0} /\ \A h \in 1 .. Len(Mtu) : Mtu[h] \subseteq Nat
  BY DatagramAssumption
<1>1. ASSUME NEW d \in Datagrams, Send(d)
      PROVE  BufferInv'
  <2>1. PICK mtu \in Mtu[1] :
          packets' = packets \cup SendRealOut(Packet(d, Original(d), 0, FALSE, 0), mtu)
    BY <1>1 DEF Send
  <2>2. /\ sent' = sent \cup {d}
        /\ UNCHANGED <<fragments, timers, delivered, dropped, duplicates>>
    BY <1>1 DEF Send
  <2> DEFINE p == Packet(d, Original(d), 0, FALSE, 0)
  <2>3. p \in AnyPacket /\ p.id = d /\ p.hop = 0
    BY OriginalType DEF Packet, AnyPacket
  <2> HIDE DEF p
  <2>4. mtu \in Nat
    BY <1>0
  <2>5. PacketType \subseteq PacketType'
    BY <2>2 DEF PacketType
  <2>6. SendRealOut(p, mtu) \subseteq PacketType'
    <3>1. \A x \in SendRealOut(p, mtu) : x \in AnyPacket /\ x.id = d /\ x.hop \in 1 .. Len(Mtu)
      BY <1>0, <2>3, <2>4, SendRealOutType
    <3> QED
      BY <2>2, <3>1 DEF AnyPacket, PacketType
  <2> QED
    BY <2>1, <2>2, <2>5, <2>6 DEF TypeOK, TimerPerBuffer, FragmentsType, p
<1>2. ASSUME NEW p \in packets
      PROVE  p \in PacketType /\ p \in AnyPacket /\ p.id \in sent
             /\ p.hop \in 1 .. Len(Mtu)
  BY <1>2, <1>0 DEF TypeOK, PacketType, AnyPacket
<1>3. ASSUME NEW p \in packets, IpForward(p)
      PROVE  BufferInv'
  <2>1. PICK mtu \in Mtu[p.hop + 1] : Taken(p, SendRealOut(p, mtu))
    BY <1>3 DEF IpForward
  <2>2. p.hop \in 0 .. Len(Mtu) - 1 /\ p.hop + 1 \in 1 .. Len(Mtu)
    BY <1>0, <1>2, <1>3 DEF IpForward
  <2>3. mtu \in Nat
    BY <1>0, <2>2
  <2>4. SendRealOut(p, mtu) \in SUBSET PacketType
    <3>1. \A x \in SendRealOut(p, mtu) : x \in AnyPacket /\ x.id = p.id
                                         /\ x.hop \in 1 .. Len(Mtu)
      BY <1>2, <2>2, <2>3, SendRealOutType
    <3> QED
      BY <1>2, <3>1 DEF AnyPacket, PacketType
  <2>5. UNCHANGED <<sent, fragments, timers, delivered, dropped>>
    BY <1>3 DEF IpForward
  <2>6. packets' \subseteq PacketType' /\ duplicates' \in 0 .. MaxDuplicates
    BY <2>1, <2>4, <2>5, TakenKeeps
  <2> QED
    BY <2>5, <2>6 DEF TypeOK, TimerPerBuffer, FragmentsType
<1>4. ASSUME NEW p \in packets, LocalDeliverWhole(p)
      PROVE  BufferInv'
  <2>1. /\ UNCHANGED <<sent, fragments, timers, dropped>>
        /\ delivered' = delivered \cup {[id |-> p.id, data |-> p.data]}
        /\ Taken(p, {})
    BY <1>4 DEF LocalDeliverWhole
  <2>2. packets' \subseteq PacketType' /\ duplicates' \in 0 .. MaxDuplicates
    BY <2>1, TakenKeeps
  <2> QED
    BY <1>2, <2>1, <2>2 DEF TypeOK, TimerPerBuffer, FragmentsType
<1>5. ASSUME NEW p \in packets, LocalDeliverFragment(p)
      PROVE  BufferInv'
  <2>1. UNCHANGED <<sent, dropped>> /\ Taken(p, {}) /\ ProcessFragment(p)
    BY <1>5 DEF LocalDeliverFragment
  <2>2. packets' \subseteq PacketType' /\ duplicates' \in 0 .. MaxDuplicates
    BY <2>1, TakenKeeps
  <2>3. /\ DOMAIN fragments' = timers' /\ timers' \subseteq sent
        /\ \A k \in DOMAIN fragments' : fragments'[k] \in FragmentsType
        /\ \A x \in delivered' : x.id \in sent
    BY <1>2, <2>1, ProcessFragmentKeeps
  <2> QED
    BY <2>1, <2>2, <2>3 DEF TypeOK, TimerPerBuffer, FragmentsType
<1>6. ASSUME NEW d \in Datagrams, HandleFragmentsTimeout(d)
      PROVE  BufferInv'
  <2>1. /\ d \in timers /\ Erase(d) /\ UNCHANGED <<sent, packets, delivered, duplicates>>
        /\ \A x \in dropped' : x \in dropped \/ x.id = d
    BY <1>6 DEF HandleFragmentsTimeout
  <2>2. /\ DOMAIN fragments' = timers' /\ timers' \subseteq timers
        /\ \A k \in DOMAIN fragments' : k \in DOMAIN fragments
                                        /\ fragments'[k] = fragments[k]
    BY <2>1, EraseKeeps
  <2> QED
    BY <2>1, <2>2 DEF TypeOK, TimerPerBuffer, FragmentsType, PacketType
<1>7. CASE UNCHANGED vars
  BY <1>7 DEF vars, TypeOK, TimerPerBuffer, FragmentsType, PacketType
<1> QED
  BY <1>1, <1>3, <1>4, <1>5, <1>6, <1>7 DEF Next, Arrive

\* The invariant holds throughout.
THEOREM BufferInvariant == Spec => []BufferInv
<1>1. Init => BufferInv
  <2>1. MaxDuplicates \in Nat
    BY DatagramAssumption
  <2> QED
    BY <2>1 DEF Init, BufferInv, TypeOK, TimerPerBuffer, NoFragments
<1>2. BufferInv /\ [Next]_vars => BufferInv'
  BY BufferNext
<1> QED
  BY <1>1, <1>2, PTL DEF Spec

\* The variables stay in their types.
THEOREM FragmentationTypeCorrect == Spec => []TypeOK
<1>1. BufferInv => TypeOK
  BY DEF BufferInv
<1> QED
  BY <1>1, BufferInvariant, PTL

\* A timer runs exactly while there are fragments it would free, so a timeout
\* never finds the map without the key it looks up and dereferences.
THEOREM TimersCorrect == Spec => []TimerPerBuffer
<1>1. BufferInv => TimerPerBuffer
  BY DEF BufferInv
<1> QED
  BY <1>1, BufferInvariant, PTL

-----------------------------------------------------------------------------
(* Where the last fragment of a datagram begins. *)

FragmentSize(mtu) == (mtu \div Align) * Align

\* The start of the last fragment that a link which takes mtu cuts from d.
LastStart(d, mtu) == ((Size[d] - 1) \div FragmentSize(mtu)) * FragmentSize(mtu)

\* The links that d may be cut for begin its last fragment at one place, and
\* the links behind them take that fragment as it is.
LastFragmentKept ==
  \A d \in Datagrams : \A h, k \in 1 .. Len(Mtu) : \A mtu \in Mtu[h], next \in Mtu[k] :
    Size[d] > mtu =>
      /\ Size[d] > next => LastStart(d, next) = LastStart(d, mtu)
      /\ h < k => Size[d] - LastStart(d, mtu) <= next

\* The place (any one in d, if d is never cut).
LastOffset(d) ==
  CHOOSE s \in 0 .. Size[d] - 1 :
    \A h \in 1 .. Len(Mtu) : \A mtu \in Mtu[h] :
      Size[d] > mtu => s = LastStart(d, mtu)

\* x carries bytes of d, in place: the end of d from LastOffset on, or bytes
\* before that.
PieceGood(d, x) ==
  /\ x.data # <<>>
  /\ \A i \in DOMAIN x.data : x.data[i] = x.offset + i
  /\ x.offset + Len(x.data) <= Size[d]
  /\ \/ x.offset = LastOffset(d) /\ x.offset + Len(x.data) = Size[d]
     \/ x.offset + Len(x.data) <= LastOffset(d)

\* Every packet but a whole datagram is a piece, which more follow unless it
\* is the last one; and that one fits the links to come.
PacketGood(p) ==
  \/ p.data = Original(p.id) /\ p.offset = 0 /\ ~p.more
  \/ /\ PieceGood(p.id, p) /\ LastOffset(p.id) # 0
     /\ p.more <=> p.offset # LastOffset(p.id)
     /\ ~p.more => \A k \in p.hop + 1 .. Len(Mtu) : \A mtu \in Mtu[k] : Len(p.data) <= mtu

\* The list is sorted, the flag is that of its last piece, and the pieces do
\* not make up the whole.
BufferGood(d, f) ==
  /\ f.list # <<>>
  /\ \A i \in DOMAIN f.list : PieceGood(d, f.list[i])
  /\ \A i, j \in DOMAIN f.list : i < j => f.list[i].offset <= f.list[j].offset
  /\ f.moreFragment <=> f.list[Len(f.list)].offset # LastOffset(d)

PiecesInv ==
  /\ \A p \in packets : PacketGood(p)
  /\ \A d \in DOMAIN fragments : BufferGood(d, fragments[d]) /\ ~IsEntire(fragments[d])

-----------------------------------------------------------------------------
(* Arithmetic of fragment sizes. *)

LEMMA LinksType ==
  /\ Align \in Nat \ {0} /\ Len(Mtu) \in Nat \ {0}
  /\ \A h \in 1 .. Len(Mtu) : \A mtu \in Mtu[h] : mtu \in Nat /\ mtu >= Align
  /\ \A d \in Datagrams : Size[d] \in Nat \ {0}
BY DatagramAssumption

LEMMA FragmentSizePositive ==
  ASSUME NEW mtu \in Nat, mtu >= Align
  PROVE  FragmentSize(mtu) \in Nat \ {0} /\ FragmentSize(mtu) <= mtu
<1> DEFINE q == mtu \div Align
<1>1. Align \in Nat \ {0}
  BY LinksType
<1>2. q \in Nat /\ q * Align <= mtu /\ mtu < q * Align + Align
  BY <1>1
<1>3. q # 0
  BY <1>1, <1>2
<1> HIDE DEF q
<1>4. q * Align \in Nat \ {0}
  BY <1>1, <1>2, <1>3
<1> QED
  BY <1>2, <1>4 DEF FragmentSize, q

\* Two multiples of a number are that number apart.
LEMMA MultiplesApart ==
  ASSUME NEW n \in Nat \ {0}, NEW s \in Nat, NEW t \in Nat,
         s % n = 0, t % n = 0, s < t
  PROVE  s + n <= t
<1> DEFINE a == s \div n
           b == t \div n
<1>1. a \in Nat /\ b \in Nat /\ s = n * a /\ t = n * b
  OBVIOUS
<1> HIDE DEF a, b
<1>2. a < b
  BY <1>1
<1>3. n * (a + 1) <= n * b
  BY <1>1, <1>2
<1> QED
  BY <1>1, <1>3

\* The last fragment begins at a multiple of the size and reaches the end.
LEMMA LastStartFacts ==
  ASSUME NEW d \in Datagrams, NEW mtu \in Nat, mtu >= Align, Size[d] > mtu
  PROVE  /\ LastStart(d, mtu) \in Nat /\ LastStart(d, mtu) % FragmentSize(mtu) = 0
         /\ 0 < LastStart(d, mtu) /\ LastStart(d, mtu) < Size[d]
         /\ Size[d] <= LastStart(d, mtu) + FragmentSize(mtu)
<1> DEFINE n == FragmentSize(mtu)
           m == Size[d] - 1
           q == m \div n
<1>1. n \in Nat \ {0} /\ n <= mtu /\ m \in Nat /\ n <= m
  BY FragmentSizePositive, LinksType
<1> HIDE DEF n, m
<1>2. q \in Nat /\ q * n <= m /\ m < q * n + n
  BY <1>1
<1>3. (q * n) % n = 0
  BY <1>1, <1>2
<1>4. q * n \in Nat /\ q * n > 0
  BY <1>1, <1>2
<1>5. LastStart(d, mtu) = q * n
  BY DEF LastStart, n, m
<1> HIDE DEF q
<1>6. Size[d] = m + 1
  BY LinksType DEF m
<1> QED
  BY <1>1, <1>2, <1>3, <1>4, <1>5, <1>6 DEF n

\* All links that d may be cut for agree on where its last fragment begins.
LEMMA LastOffsetExists ==
  ASSUME LastFragmentKept, NEW d \in Datagrams
  PROVE  /\ LastOffset(d) \in Nat /\ LastOffset(d) < Size[d]
         /\ \A h \in 1 .. Len(Mtu) : \A mtu \in Mtu[h] :
              Size[d] > mtu => LastOffset(d) = LastStart(d, mtu)
<1> DEFINE Place(s) == \A h \in 1 .. Len(Mtu) : \A mtu \in Mtu[h] :
                         Size[d] > mtu => s = LastStart(d, mtu)
<1>1. ASSUME \A h \in 1 .. Len(Mtu) : \A mtu \in Mtu[h] : ~(Size[d] > mtu)
      PROVE  \E s \in 0 .. Size[d] - 1 : Place(s)
  <2>1. Place(0) /\ 0 \in 0 .. Size[d] - 1
    BY <1>1, LinksType
  <2> QED
    BY <2>1
<1>2. ASSUME NEW h \in 1 .. Len(Mtu), NEW mtu \in Mtu[h], Size[d] > mtu
      PROVE  \E s \in 0 .. Size[d] - 1 : Place(s)
  <2>1. LastStart(d, mtu) \in 0 .. Size[d] - 1
    BY <1>2, LinksType, LastStartFacts
  <2>2. Place(LastStart(d, mtu))
    BY <1>2 DEF LastFragmentKept
  <2> QED
    BY <2>1, <2>2
<1>3. \E s \in 0 .. Size[d] - 1 : Place(s)
  BY <1>1, <1>2
<1>4. LastOffset(d) \in 0 .. Size[d] - 1 /\ Place(LastOffset(d))
  BY <1>3 DEF LastOffset
<1> HIDE DEF Place
<1>5. Size[d] \in Nat
  BY LinksType
<1> QED
  BY <1>4, <1>5 DEF Place

LEMMA LastOffsetIs ==
  ASSUME LastFragmentKept, NEW d \in Datagrams,
         NEW h \in 1 .. Len(Mtu), NEW mtu \in Mtu[h], Size[d] > mtu
  PROVE  /\ LastOffset(d) = LastStart(d, mtu)
         /\ \A k \in h + 1 .. Len(Mtu) : \A next \in Mtu[k] :
              Size[d] - LastOffset(d) <= next
<1>1. Len(Mtu) \in Nat
  BY LinksType
<1>2. LastOffset(d) = LastStart(d, mtu)
  BY LastOffsetExists
<1>3. ASSUME NEW k \in h + 1 .. Len(Mtu), NEW next \in Mtu[k]
      PROVE  Size[d] - LastStart(d, mtu) <= next
  <2>1. k \in 1 .. Len(Mtu) /\ h < k
    BY <1>1
  <2> QED
    BY <2>1 DEF LastFragmentKept
<1> QED
  BY <1>2, <1>3

-----------------------------------------------------------------------------
(* Cutting. *)

LEMMA CreateFragmentLength ==
  ASSUME NEW data \in Seq(Nat), NEW start \in Nat, start < Len(data),
         NEW length \in Nat \ {0}
  PROVE  LET x == CreateFragment(data, start, length)
         IN  /\ x # <<>>
             /\ Len(x) \in Nat
             /\ start + length < Len(data) => Len(x) = length
             /\ start + length >= Len(data) => Len(x) = Len(data) - start
<1> DEFINE end == Min({start + length, Len(data)})
<1>0. Len(data) \in Nat /\ start + length \in Nat
  OBVIOUS
<1>1. /\ end \in {start + length, Len(data)}
      /\ end <= start + length /\ end <= Len(data)
  BY <1>0, MinOfTwo
<1> HIDE DEF end
<1>2. Len(SubSeq(data, start + 1, end)) = end - start /\ end - start > 0
  BY <1>0, <1>1
<1>3. CreateFragment(data, start, length) = SubSeq(data, start + 1, end)
  BY DEF CreateFragment, end
<1>4. SubSeq(data, start + 1, end) # <<>>
  <2>1. Len(<<>>) = 0
    OBVIOUS
  <2>2. Len(SubSeq(data, start + 1, end)) # 0
    BY <1>0, <1>1, <1>2
  <2> QED
    BY <2>1, <2>2
<1> QED
  BY <1>0, <1>1, <1>2, <1>3, <1>4

\* The pieces of a packet, with their lengths and flags.
LEMMA PieceLength ==
  ASSUME NEW p \in AnyPacket, NEW mtu \in Nat, mtu >= Align,
         NEW x \in DoFragmentation(p, mtu)
  PROVE  \E start \in Nat :
           /\ start % FragmentSize(mtu) = 0 /\ start < Len(p.data)
           /\ x.data = CreateFragment(p.data, start, FragmentSize(mtu))
           /\ x.offset = start + (IF p.more THEN p.offset ELSE 0)
           /\ x.more <=> p.more \/ start + FragmentSize(mtu) < Len(p.data)
           /\ x.id = p.id /\ x.hop = p.hop
<1> DEFINE n == FragmentSize(mtu)
           original == IF p.more THEN p.offset ELSE 0
<1>1. p.data \in Seq(Nat) /\ Len(p.data) \in Nat
  BY DEF AnyPacket
<1>2. PICK start \in {s \in 0 .. Len(p.data) - 1 : s % n = 0} :
        x = [p EXCEPT !.data = CreateFragment(p.data, start, n),
                      !.offset = start + original,
                      !.more = p.more \/ start + n < Len(p.data)]
  BY DEF DoFragmentation, FragmentSize
<1>3. start \in Nat /\ start < Len(p.data) /\ start % n = 0
  BY <1>1, <1>2
<1> HIDE DEF n, original
<1>4. /\ x.data = CreateFragment(p.data, start, n) /\ x.offset = start + original
      /\ x.id = p.id /\ x.hop = p.hop
      /\ x.more = (p.more \/ start + n < Len(p.data))
  BY <1>2 DEF AnyPacket
<1> QED
  BY <1>3, <1>4 DEF n, original

\* A piece of a packet that more fragments follow lies within it.
LEMMA CutMiddle ==
  ASSUME LastFragmentKept, NEW p \in AnyPacket, PieceGood(p.id, p), p.more,
         p.offset + Len(p.data) <= LastOffset(p.id), LastOffset(p.id) # 0,
         NEW mtu \in Nat, mtu >= Align, NEW x \in DoFragmentation(p, mtu)
  PROVE  PacketGood(x)
<1> DEFINE n == FragmentSize(mtu)
<1>1. PICK start \in Nat :
        /\ start < Len(p.data) /\ x.data = CreateFragment(p.data, start, n)
        /\ x.offset = start + p.offset /\ x.more /\ x.id = p.id
  BY PieceLength
<1>2. p.data \in Seq(Nat) /\ Len(p.data) \in Nat /\ p.offset \in Nat
      /\ n \in Nat \ {0} /\ Size[p.id] \in Nat /\ LastOffset(p.id) \in Nat
  BY FragmentSizePositive, LinksType, LastOffsetExists DEF AnyPacket
<1> HIDE DEF n
<1>3. /\ x.data # <<>> /\ Len(x.data) \in Nat /\ Len(x.data) > 0
      /\ start + Len(x.data) <= Len(p.data)
  <2>1. LET y == CreateFragment(p.data, start, n)
        IN  /\ y # <<>> /\ Len(y) \in Nat
            /\ start + n < Len(p.data) => Len(y) = n
            /\ start + n >= Len(p.data) => Len(y) = Len(p.data) - start
    BY <1>1, <1>2, CreateFragmentLength
  <2> DEFINE m == Len(p.data)
             l == Len(x.data)
  <2>2. /\ x.data # <<>> /\ l \in Nat
        /\ start + n < m => l = n
        /\ start + n >= m => l = m - start
        /\ start < m /\ m \in Nat
    BY <1>1, <1>2, <2>1
  <2> HIDE DEF m, l
  <2>3. l > 0 /\ start + l <= m
    BY <1>2, <2>2
  <2> QED
    BY <2>2, <2>3 DEF m, l
<1>4. InPlace(p)
  BY DEF PieceGood, InPlace
<1>5. \A i \in DOMAIN x.data : x.data[i] = x.offset + i
  BY <1>4, PiecesInPlace DEF InPlace
<1>6. /\ x.offset + Len(x.data) <= p.offset + Len(p.data)
      /\ x.offset + Len(x.data) <= LastOffset(x.id)
      /\ x.offset + Len(x.data) <= Size[x.id]
      /\ x.offset # LastOffset(x.id)
  <2>1. p.offset + Len(p.data) <= Size[p.id]
    BY DEF PieceGood
  <2> DEFINE n1 == Len(x.data)
             n2 == Len(p.data)
             last == LastOffset(p.id)
  <2>2. n1 \in Nat /\ n1 > 0 /\ n2 \in Nat /\ last \in Nat /\ start + n1 <= n2
    BY <1>2, <1>3
  <2>3. p.offset + n2 <= last /\ p.offset + n2 <= Size[p.id]
    BY <2>1
  <2>4. x.offset = start + p.offset /\ x.id = p.id
    BY <1>1
  <2> DEFINE o == p.offset
             s == start
             size == Size[p.id]
  <2>5. o \in Nat /\ s \in Nat /\ size \in Nat
    BY <1>2
  <2> HIDE DEF n1, n2, last, o, s, size
  <2>6. n1 \in Nat /\ n1 > 0 /\ n2 \in Nat /\ last \in Nat /\ s + n1 <= n2
        /\ o + n2 <= last /\ o + n2 <= size
    BY <2>2, <2>3 DEF o, s, size
  <2>7. s + o + n1 <= o + n2
    BY <2>5, <2>6
  <2>8. s + o + n1 <= last /\ s + o + n1 <= size
    BY <2>5, <2>6, <2>7
  <2>9. s + o # last
    BY <2>5, <2>6, <2>8
  <2> QED
    BY <2>4, <2>7, <2>8, <2>9 DEF n1, n2, last, o, s, size
<1> QED
  BY <1>1, <1>3, <1>5, <1>6 DEF PacketGood, PieceGood

\* A whole datagram is cut into pieces of which the last one starts at
\* LastOffset and fits every link behind this one.
LEMMA CutWhole ==
  ASSUME LastFragmentKept, NEW p \in AnyPacket,
         p.data = Original(p.id), p.offset = 0, ~p.more,
         p.hop \in 1 .. Len(Mtu), NEW mtu \in Mtu[p.hop], Len(p.data) > mtu,
         NEW x \in DoFragmentation(p, mtu)
  PROVE  PacketGood(x)
<1> DEFINE n == FragmentSize(mtu)
           d == p.id
           size == Size[d]
           last == LastOffset(d)
<1>1. /\ mtu \in Nat /\ mtu >= Align /\ d \in Datagrams
      /\ size \in Nat /\ n \in Nat \ {0} /\ Len(p.data) = size
      /\ p.data \in Seq(Nat)
  BY LinksType, FragmentSizePositive DEF AnyPacket, Original
<1>2. PICK start \in Nat :
        /\ start % n = 0 /\ start < Len(p.data)
        /\ x.data = CreateFragment(p.data, start, n)
        /\ x.offset = start
        /\ x.more <=> start + n < Len(p.data)
        /\ x.id = d /\ x.hop = p.hop
  <2>1. PICK start \in Nat :
          /\ start % n = 0 /\ start < Len(p.data)
          /\ x.data = CreateFragment(p.data, start, n)
          /\ x.offset = start + (IF p.more THEN p.offset ELSE 0)
          /\ x.more <=> p.more \/ start + n < Len(p.data)
          /\ x.id = d /\ x.hop = p.hop
    BY <1>1, PieceLength
  <2>2. x.offset = start
    BY <2>1
  <2> QED
    BY <2>1, <2>2
<1>3. /\ last \in Nat /\ last % n = 0 /\ last < size /\ size <= last + n /\ last # 0
      /\ \A k \in p.hop + 1 .. Len(Mtu) : \A next \in Mtu[k] : size - last <= next
  <2>1. size > mtu
    BY <1>1
  <2>2. /\ last = LastStart(d, mtu)
        /\ \A k \in p.hop + 1 .. Len(Mtu) : \A next \in Mtu[k] : size - last <= next
    BY <1>1, <2>1, LastOffsetIs
  <2> QED
    BY <1>1, <2>1, <2>2, LastStartFacts
<1> HIDE DEF n, last
<1>4. LET y == CreateFragment(p.data, start, n)
      IN  /\ y # <<>> /\ Len(y) \in Nat
          /\ start + n < Len(p.data) => Len(y) = n
          /\ start + n >= Len(p.data) => Len(y) = Len(p.data) - start
  BY <1>1, <1>2, CreateFragmentLength
<1>5. \A i \in DOMAIN x.data : x.data[i] = x.offset + i
  <2>1. InPlace(p)
    BY <1>1 DEF InPlace, Original
  <2> QED
    BY <1>1, <2>1, PiecesInPlace DEF InPlace
<1>6. CASE start + n < size
  <2>1. start < last
    BY <1>1, <1>2, <1>3, <1>6
  <2>2. start + n <= last
    BY <1>1, <1>2, <1>3, <2>1, MultiplesApart
  <2>3. Len(x.data) = n /\ x.more /\ x.data # <<>>
    BY <1>1, <1>2, <1>4, <1>6
  <2>4. x.offset + Len(x.data) <= last /\ x.offset + Len(x.data) <= Size[x.id]
        /\ x.offset # last
    BY <1>1, <1>2, <1>3, <2>1, <2>2, <2>3
  <2> QED
    BY <1>2, <1>5, <2>3, <2>4 DEF PacketGood, PieceGood, last
<1>7. CASE ~(start + n < size)
  <2>1. ~(start < last)
    <3> SUFFICES ASSUME start < last PROVE FALSE
      OBVIOUS
    <3>1. start + n <= last
      BY <1>1, <1>2, <1>3, MultiplesApart
    <3> QED
      BY <1>1, <1>2, <1>3, <1>7, <3>1
  <2>2. ~(last < start)
    <3> SUFFICES ASSUME last < start PROVE FALSE
      OBVIOUS
    <3>1. last + n <= start
      BY <1>1, <1>2, <1>3, MultiplesApart
    <3> QED
      BY <1>1, <1>2, <1>3, <3>1
  <2>3. start = last
    BY <1>2, <1>3, <2>1, <2>2
  <2>4. Len(x.data) = size - last /\ ~x.more /\ x.data # <<>>
    BY <1>1, <1>2, <1>3, <1>4, <1>7, <2>3
  <2>5. x.offset = last /\ x.offset + Len(x.data) = Size[x.id]
        /\ x.offset + Len(x.data) <= Size[x.id]
    <3> HIDE DEF size
    <3>1. last + Len(x.data) = size /\ size <= size
      BY <1>1, <1>3, <2>4
    <3> QED
      BY <1>2, <2>3, <3>1 DEF size
  <2> QED
    BY <1>2, <1>3, <1>5, <2>4, <2>5 DEF PacketGood, PieceGood, last
<1> QED
  BY <1>6, <1>7

\* What goes onto a link is again a whole datagram or such a piece.
LEMMA SendRealOutGood ==
  ASSUME LastFragmentKept, NEW p \in AnyPacket, PacketGood(p),
         p.hop + 1 \in 1 .. Len(Mtu), NEW mtu \in Mtu[p.hop + 1],
         NEW x \in SendRealOut(p, mtu)
  PROVE  PacketGood(x)
<1> DEFINE next == [p EXCEPT !.hop = @ + 1]
<1>0. mtu \in Nat /\ mtu >= Align /\ Len(Mtu) \in Nat /\ p.hop \in Nat
      /\ p.data \in Seq(Nat) /\ Len(p.data) \in Nat
  BY LinksType DEF AnyPacket
<1>1. /\ next \in AnyPacket /\ next.hop = p.hop + 1
      /\ next.id = p.id /\ next.data = p.data /\ next.offset = p.offset
      /\ next.more = p.more
  BY DEF AnyPacket
<1>2. x \in (IF Len(p.data) > mtu THEN DoFragmentation(next, mtu) ELSE {next})
  BY DEF SendRealOut
<1> HIDE DEF next
<1>3. CASE p.data = Original(p.id) /\ p.offset = 0 /\ ~p.more
  <2>1. PacketGood(next)
    BY <1>1, <1>3 DEF PacketGood
  <2>2. CASE Len(p.data) > mtu
    BY <1>1, <1>2, <1>3, <2>2, CutWhole
  <2> QED
    BY <1>2, <2>1, <2>2
<1>4. CASE /\ PieceGood(p.id, p) /\ LastOffset(p.id) # 0
           /\ p.more <=> p.offset # LastOffset(p.id)
           /\ ~p.more => \A k \in p.hop + 1 .. Len(Mtu) : \A m \in Mtu[k] :
                           Len(p.data) <= m
  <2>1. PieceGood(next.id, next)
    BY <1>1, <1>4 DEF PieceGood
  <2>2. CASE Len(p.data) > mtu
    <3>1. p.more
      <4>1. p.hop + 1 \in p.hop + 1 .. Len(Mtu)
        BY <1>0
      <4>2. ~(Len(p.data) <= mtu)
        BY <1>0, <2>2
      <4> QED
        BY <1>4, <4>1, <4>2
    <3>2. next.offset + Len(next.data) <= LastOffset(next.id)
      BY <1>1, <1>4, <3>1 DEF PieceGood
    <3> QED
      <4>1. next.more /\ LastOffset(next.id) # 0 /\ x \in DoFragmentation(next, mtu)
        BY <1>1, <1>2, <1>4, <2>2, <3>1
      <4> QED
        BY <1>0, <1>1, <2>1, <3>2, <4>1, CutMiddle
  <2>3. CASE ~(Len(p.data) > mtu)
    <3>1. x = next
      BY <1>2, <2>3
    <3>2. p.hop + 1 + 1 .. Len(Mtu) \subseteq p.hop + 1 .. Len(Mtu)
      BY <1>0
    <3> QED
      BY <1>1, <1>4, <2>1, <3>1, <3>2 DEF PacketGood
  <2> QED
    BY <2>2, <2>3
<1> QED
  BY <1>3, <1>4 DEF PacketGood

-----------------------------------------------------------------------------
(* The buffer: sorted lists, and the places elements are inserted at. *)

LEMMA MinimumExists ==
  ASSUME NEW T \in SUBSET Nat, T # {}
  PROVE  \E x \in T : \A y \in T : x <= y
<1>1. PICK x \in T : \A y \in T : ~(<<y, x>> \in OpToRel(<, Nat))
  BY NatLessThanWellFounded, WFMin, Zenon
<1>2. \A y \in T : ~(y < x)
  BY <1>1 DEF OpToRel
<1> QED
  BY <1>2

LEMMA MaximumExists ==
  ASSUME NEW b \in Nat, NEW T \in SUBSET Nat, T # {}, \A x \in T : x <= b
  PROVE  Max(T) \in T /\ \A y \in T : Max(T) >= y
<1> DEFINE U == {b - x : x \in T}
<1>0. \A x \in T : x \in Nat /\ b - x \in Nat
  OBVIOUS
<1>1. U \in SUBSET Nat /\ U # {}
  BY <1>0
<1>2. PICK u \in U : \A v \in U : u <= v
  BY <1>1, MinimumExists
<1>3. PICK x \in T : u = b - x
  OBVIOUS
<1>4. \A y \in T : b - y \in U
  OBVIOUS
<1>5. \A y \in T : x >= y
  <2> TAKE y \in T
  <2>1. b - x <= b - y
    BY <1>2, <1>3, <1>4
  <2>2. x \in Nat /\ y \in Nat
    BY <1>0
  <2> QED
    BY <2>1, <2>2
<1> QED
  BY <1>5 DEF Max

LEMMA Concatenated ==
  ASSUME NEW S, NEW s \in Seq(S), NEW t \in Seq(S)
  PROVE  /\ Len(s \o t) = Len(s) + Len(t)
         /\ \A j \in 1 .. Len(s) + Len(t) :
              (s \o t)[j] = IF j <= Len(s) THEN s[j] ELSE t[j - Len(s)]
OBVIOUS

LEMMA InsertAtElements ==
  ASSUME NEW S, NEW s \in Seq(S), NEW i \in 1 .. Len(s) + 1, NEW e \in S
  PROVE  LET t == InsertAt(s, i, e)
         IN  /\ Len(t) = Len(s) + 1
             /\ \A j \in 1 .. Len(s) + 1 :
                  t[j] = IF j < i THEN s[j] ELSE IF j = i THEN e ELSE s[j - 1]
<1> DEFINE a == SubSeq(s, 1, i - 1)
           c == SubSeq(s, i, Len(s))
<1>1. /\ a \in Seq(S) /\ Len(a) = i - 1 /\ \A j \in 1 .. i - 1 : a[j] = s[j]
      /\ c \in Seq(S) /\ Len(c) = Len(s) - i + 1
      /\ \A j \in 1 .. Len(s) - i + 1 : c[j] = s[i + j - 1]
  OBVIOUS
<1>2. InsertAt(s, i, e) = a \o <<e>> \o c
  BY DEF InsertAt
<1> HIDE DEF a, c
<1>3. /\ a \o <<e>> \in Seq(S) /\ Len(a \o <<e>>) = i
      /\ \A j \in 1 .. i : (a \o <<e>>)[j] = IF j < i THEN s[j] ELSE e
  BY <1>1
<1> DEFINE ae == a \o <<e>>
<1> HIDE DEF ae
<1>4. /\ Len(ae \o c) = Len(s) + 1
      /\ \A j \in 1 .. Len(s) + 1 : (ae \o c)[j] = IF j <= i THEN ae[j] ELSE c[j - i]
  <2>1. ae \in Seq(S) /\ c \in Seq(S) /\ Len(ae) = i
    BY <1>1, <1>3 DEF ae
  <2>2. Len(ae) + Len(c) = Len(s) + 1
    BY <1>1, <2>1
  <2> QED
    BY <2>1, <2>2, Concatenated
<1>5. ASSUME NEW j \in 1 .. Len(s) + 1
      PROVE  (ae \o c)[j] = IF j < i THEN s[j] ELSE IF j = i THEN e ELSE s[j - 1]
  <2>1. CASE j <= i
    BY <1>3, <1>4, <2>1 DEF ae
  <2>2. CASE j > i
    <3>1. j - i \in 1 .. Len(s) - i + 1 /\ i + (j - i) - 1 = j - 1
      BY <2>2
    <3>2. c[j - i] = s[j - 1]
      BY <1>1, <3>1
    <3> QED
      BY <1>4, <2>2, <3>2
  <2>3. j <= i \/ j > i
    <3>1. Len(s) \in Nat
      OBVIOUS
    <3> QED
      BY <3>1
  <2> QED
    BY <2>1, <2>2, <2>3, Zenon
<1> QED
  BY <1>2, <1>4, <1>5 DEF ae

Element == [data : Seq(Nat), offset : Nat]

Sorted(list) == \A i, j \in DOMAIN list : i < j => list[i].offset <= list[j].offset

\* In a sorted list the elements up to an offset are the first ones: the
\* count by which AddFragment finds its place is the place.
LEMMA CountIsPlace ==
  ASSUME NEW list \in Seq(Element), Sorted(list), NEW offset \in Nat
  PROVE  LET k == Cardinality({i \in DOMAIN list : list[i].offset <= offset})
         IN  /\ k \in 0 .. Len(list)
             /\ \A i \in 1 .. Len(list) : i <= k <=> list[i].offset <= offset
<1> DEFINE n == Len(list)
           B == {i \in DOMAIN list : list[i].offset <= offset}
           C == {i \in 1 .. n + 1 : i = n + 1 \/ ~(list[i].offset <= offset)}
<1>1. n \in Nat /\ DOMAIN list = 1 .. n /\ \A i \in 1 .. n : list[i].offset \in Nat
  <2>1. \A x \in Element : x.offset \in Nat
    BY DEF Element
  <2> QED
    BY <2>1
<1> HIDE DEF n
<1>2. C \in SUBSET Nat /\ C # {}
  <2>1. n + 1 \in 1 .. n + 1 /\ 1 .. n + 1 \in SUBSET Nat
    BY <1>1
  <2>2. n + 1 \in C
    BY <2>1
  <2> QED
    BY <2>1, <2>2
<1>3. PICK c \in C : \A x \in C : c <= x
  BY <1>2, MinimumExists
<1>4. c \in 1 .. n + 1
  OBVIOUS
<1>5. \A i \in 1 .. n : list[i].offset <= offset <=> i <= c - 1
  <2> TAKE i \in 1 .. n
  <2>1. CASE i <= c - 1
    <3>1. i \notin C
      BY <1>1, <1>3, <1>4, <2>1
    <3> QED
      BY <1>1, <2>1, <3>1
  <2>2. CASE i = c
    <3>1. ~(list[i].offset <= offset)
      BY <1>1, <1>3, <2>2
    <3> QED
      BY <1>4, <2>2, <3>1
  <2>3. CASE i > c
    <3>1. c \in 1 .. n /\ ~(list[c].offset <= offset)
      BY <1>1, <1>3, <1>4, <2>3
    <3>2. list[c].offset <= list[i].offset
      BY <1>1, <2>3, <3>1 DEF Sorted
    <3> QED
      BY <1>1, <1>4, <2>3, <3>1, <3>2
  <2> QED
    BY <1>1, <1>4, <2>1, <2>2, <2>3
<1>6. B = 1 .. c - 1
  BY <1>1, <1>4, <1>5
<1>7. Cardinality(B) = c - 1
  <2> DEFINE m == c - 1
  <2>1. m \in Nat
    BY <1>1, <1>4
  <2> HIDE DEF m
  <2>2. Cardinality(1 .. m) = IF 1 > m THEN 0 ELSE m - 1 + 1
    BY <2>1, FS_Interval
  <2>3. Cardinality(1 .. m) = m
    BY <2>1, <2>2
  <2> QED
    BY <1>6, <2>3 DEF m
<1>8. c - 1 \in 0 .. n
  BY <1>1, <1>4
<1> HIDE DEF B
<1> QED
  BY <1>1, <1>5, <1>7, <1>8 DEF B, n

\* A good piece that is added to good pieces makes a good buffer.
LEMMA AddFragmentGood ==
  ASSUME NEW d \in Datagrams, NEW f \in FragmentsType,
         \A i \in DOMAIN f.list : PieceGood(d, f.list[i]), Sorted(f.list),
         f.list # <<>> => (f.moreFragment <=> f.list[Len(f.list)].offset # LastOffset(d)),
         NEW data \in Seq(Nat), NEW offset \in Nat, NEW more \in BOOLEAN,
         PieceGood(d, [data |-> data, offset |-> offset]),
         more <=> offset # LastOffset(d)
  PROVE  BufferGood(d, AddFragment(f, data, offset, more))
<1> DEFINE list == f.list
           n == Len(list)
           k == Cardinality({i \in DOMAIN list : list[i].offset <= offset})
           e == [data |-> data, offset |-> offset]
           t == InsertAt(list, k + 1, e)
           g == AddFragment(f, data, offset, more)
<1>1. list \in Seq(Element) /\ n \in Nat /\ DOMAIN list = 1 .. n /\ e \in Element
      /\ e.offset = offset
  BY DEF FragmentsType, Element
<1>2. k \in 0 .. n /\ \A i \in 1 .. n : i <= k <=> list[i].offset <= offset
  BY <1>1, CountIsPlace
<1>3. /\ g.list = t
      /\ g.moreFragment <=> IF k = n THEN more ELSE f.moreFragment
  BY DEF AddFragment
<1>4. \A i \in 1 .. n : list[i].offset \in Nat
  <2>1. \A x \in Element : x.offset \in Nat
    BY DEF Element
  <2> QED
    BY <1>1, <2>1
<1> HIDE DEF k
<1>5. /\ Len(t) = n + 1
      /\ \A j \in 1 .. n + 1 :
           t[j] = IF j < k + 1 THEN list[j] ELSE IF j = k + 1 THEN e ELSE list[j - 1]
  <2>1. k + 1 \in 1 .. n + 1
    BY <1>1, <1>2
  <2> HIDE DEF e, list
  <2>2. LET u == InsertAt(list, k + 1, e)
        IN  /\ Len(u) = Len(list) + 1
            /\ \A j \in 1 .. Len(list) + 1 :
                 u[j] = IF j < k + 1 THEN list[j]
                        ELSE IF j = k + 1 THEN e ELSE list[j - 1]
    BY <1>1, <2>1, InsertAtElements
  <2> QED
    BY <2>2
<1>6. t \in Seq(Element)
  <2>1. k + 1 \in 1 .. n + 1
    BY <1>1, <1>2
  <2> HIDE DEF e
  <2> QED
    BY <1>1, <2>1, InsertAtType
<1>7. DOMAIN t = 1 .. n + 1 /\ t # <<>>
  <2> HIDE DEF t
  <2>1. DOMAIN t = 1 .. n + 1
    BY <1>5, <1>6
  <2>2. 1 \in 1 .. n + 1
    BY <1>1
  <2> QED
    BY <2>1, <2>2
<1>8. PieceGood(d, e) /\ \A i \in 1 .. n : PieceGood(d, list[i])
  BY <1>1
<1> HIDE DEF t, e
<1>9. \A j \in 1 .. n + 1 : PieceGood(d, t[j])
  <2> TAKE j \in 1 .. n + 1
  <2>1. CASE j < k + 1
    <3>1. j \in 1 .. n /\ t[j] = list[j]
      BY <1>1, <1>2, <1>5, <2>1
    <3> QED
      BY <1>8, <3>1
  <2>2. CASE j = k + 1
    <3>1. t[j] = e
      BY <1>2, <1>5, <2>2
    <3> QED
      BY <1>8, <3>1
  <2>3. CASE j > k + 1
    <3>1. j - 1 \in 1 .. n /\ t[j] = list[j - 1]
      BY <1>1, <1>2, <1>5, <2>3
    <3> QED
      BY <1>8, <3>1
  <2> QED
    BY <1>1, <1>2, <2>1, <2>2, <2>3
<1>10. ASSUME NEW i \in 1 .. n + 1, NEW j \in 1 .. n + 1, i < j
       PROVE  t[i].offset <= t[j].offset
  <2>0. \A a, b \in 1 .. n : a <= b => list[a].offset <= list[b].offset
    <3> TAKE a, b \in 1 .. n
    <3>1. CASE a = b
      BY <1>4, <3>1
    <3>2. CASE a # b
      <4>1. a \in DOMAIN list /\ b \in DOMAIN list /\ (a <= b => a < b)
        BY <1>1, <3>2
      <4> QED
        BY <4>1 DEF Sorted
    <3> QED
      BY <3>1, <3>2
  <2>1. CASE j < k + 1
    <3>1. i \in 1 .. n /\ j \in 1 .. n /\ t[i] = list[i] /\ t[j] = list[j]
      BY <1>1, <1>2, <1>5, <1>10, <2>1
    <3> QED
      BY <1>10, <2>0, <3>1
  <2>2. CASE j = k + 1
    <3>1. i \in 1 .. n /\ i <= k /\ t[i] = list[i] /\ t[j] = e
      BY <1>1, <1>2, <1>5, <1>10, <2>2
    <3> QED
      BY <1>1, <1>2, <3>1
  <2>3. CASE j > k + 1
    <3>1. j - 1 \in 1 .. n /\ j - 1 > k /\ t[j] = list[j - 1]
      BY <1>1, <1>2, <1>5, <2>3
    <3>2. CASE i < k + 1
      <4>1. i \in 1 .. n /\ i <= j - 1 /\ t[i] = list[i]
        BY <1>1, <1>2, <1>5, <1>10, <3>2
      <4> QED
        BY <2>0, <3>1, <4>1
    <3>3. CASE i = k + 1
      <4>1. t[i] = e
        BY <1>2, <1>5, <3>3
      <4>2. ~(list[j - 1].offset <= offset)
        BY <1>2, <3>1
      <4>3. list[j - 1].offset \in Nat
        BY <1>4, <3>1
      <4> QED
        BY <1>1, <3>1, <4>1, <4>2, <4>3
    <3>4. CASE i > k + 1
      <4>1. i - 1 \in 1 .. n /\ i - 1 <= j - 1 /\ t[i] = list[i - 1]
        BY <1>1, <1>2, <1>5, <1>10, <3>4
      <4> QED
        BY <2>0, <3>1, <4>1
    <3> QED
      BY <1>1, <1>2, <3>2, <3>3, <3>4
  <2> QED
    BY <1>1, <1>2, <2>1, <2>2, <2>3
<1>11. g.moreFragment <=> t[n + 1].offset # LastOffset(d)
  <2>1. CASE k = n
    <3>1. t[n + 1] = e
      BY <1>1, <1>5, <2>1
    <3> QED
      BY <1>1, <1>3, <2>1, <3>1
  <2>2. CASE k # n
    <3>0. k < n /\ n > 0
      BY <1>1, <1>2, <2>2
    <3>1. n \in 1 .. n /\ t[n + 1] = list[n]
      <4> HIDE DEF n
      <4>1. n + 1 \in 1 .. n + 1 /\ ~(n + 1 < k + 1) /\ n + 1 # k + 1 /\ n + 1 - 1 = n
        BY <1>1, <1>2, <3>0
      <4> QED
        BY <1>1, <1>5, <3>0, <4>1
    <3>2. list # <<>>
      BY <1>1, <3>1
    <3>3. f.moreFragment <=> list[n].offset # LastOffset(d)
      BY <3>2
    <3> QED
      BY <1>3, <2>2, <3>1, <3>3
  <2> QED
    BY <2>1, <2>2
<1> QED
  BY <1>3, <1>5, <1>7, <1>9, <1>10, <1>11 DEF BufferGood

\* A good buffer that holds every byte is entire.
LEMMA CompleteIsEntire ==
  ASSUME NEW d \in Datagrams, LastOffset(d) \in Nat, LastOffset(d) < Size[d],
         NEW f \in FragmentsType, BufferGood(d, f),
         UNION {Range(f.list[i].data) : i \in DOMAIN f.list} = 1 .. Size[d]
  PROVE  IsEntire(f)
<1> DEFINE list == f.list
           n == Len(list)
           size == Size[d]
           last == LastOffset(d)
           Offset(i) == list[i].offset
           End(i) == list[i].offset + Len(list[i].data)
<1>1. /\ n \in Nat /\ DOMAIN list = 1 .. n /\ list # <<>>
      /\ size \in Nat /\ last \in Nat /\ last < size
      /\ \A i \in 1 .. n : list[i] \in Element
  <2>1. list \in Seq(Element)
    BY DEF FragmentsType, Element
  <2>2. list # <<>> /\ size \in Nat
    BY LinksType DEF BufferGood
  <2> HIDE DEF list
  <2> QED
    BY <2>1, <2>2
<1>2. \A i \in 1 .. n : /\ Offset(i) \in Nat /\ End(i) \in Nat /\ Offset(i) < End(i)
                        /\ End(i) <= size /\ (Offset(i) = last \/ End(i) <= last)
  <2> TAKE i \in 1 .. n
  <2>1. list[i].data \in Seq(Nat) /\ list[i].offset \in Nat
    BY <1>1 DEF Element
  <2>2. PieceGood(d, list[i])
    BY <1>1 DEF BufferGood
  <2>3. Len(list[i].data) \in Nat /\ Len(list[i].data) > 0
    BY <2>1, <2>2 DEF PieceGood
  <2> DEFINE o == list[i].offset
             m == Len(list[i].data)
  <2>4. /\ o \in Nat /\ m \in Nat /\ m > 0
        /\ o + m <= size /\ (o = last \/ o + m <= last)
    BY <2>1, <2>2, <2>3 DEF PieceGood
  <2> HIDE DEF o, m
  <2>5. o + m \in Nat /\ o < o + m
    BY <2>4
  <2> QED
    BY <2>4, <2>5 DEF o, m
<1>3. \A i, j \in 1 .. n : i < j => Offset(i) <= Offset(j)
  <2>1. \A i, j \in DOMAIN list : i < j => list[i].offset <= list[j].offset
    BY Zenon DEF BufferGood
  <2> HIDE DEF n, list
  <2> QED
    BY <1>1, <2>1
<1>4. f.moreFragment <=> Offset(n) # last
  BY DEF BufferGood
<1>5. \A b \in 1 .. size : \E i \in 1 .. n : Offset(i) < b /\ b <= End(i)
  <2> TAKE b \in 1 .. size
  <2>1. PICK i \in 1 .. n : b \in Range(list[i].data)
    <3>1. b \in UNION {Range(list[i].data) : i \in DOMAIN list}
      OBVIOUS
    <3> HIDE DEF list, n
    <3> QED
      BY <1>1, <3>1
  <2>2. list[i].data \in Seq(Nat) /\ list[i].offset \in Nat
    BY <1>1 DEF Element
  <2>3. PICK j \in DOMAIN list[i].data : b = list[i].data[j]
    BY <2>1 DEF Range
  <2>4. list[i].data[j] = list[i].offset + j
    BY <1>1 DEF BufferGood, PieceGood
  <2>5. j \in Nat /\ 1 <= j /\ j <= Len(list[i].data) /\ Len(list[i].data) \in Nat
    <3> DEFINE data == list[i].data
    <3>1. data \in Seq(Nat) /\ j \in DOMAIN data
      BY <2>2, <2>3
    <3> HIDE DEF data
    <3>2. j \in Nat /\ 1 <= j /\ j <= Len(data) /\ Len(data) \in Nat
      BY <3>1
    <3> QED
      BY <3>2 DEF data
  <2>6. Offset(i) < b /\ b <= End(i)
    <3> DEFINE o == list[i].offset
               m == Len(list[i].data)
    <3>1. b = o + j /\ o \in Nat /\ j \in Nat /\ 1 <= j /\ j <= m /\ m \in Nat
      BY <2>2, <2>3, <2>4, <2>5
    <3> HIDE DEF o, m
    <3>2. o < b /\ b <= o + m
      BY <3>1
    <3> QED
      BY <3>2 DEF o, m
  <2> HIDE DEF Offset, End, n
  <2> QED
    BY <2>6
<1>6. n > 0
  BY <1>1
<1>7. ~f.moreFragment
  <2> HIDE DEF Offset, End, n, size, last
  <2>1. PICK i \in 1 .. n : Offset(i) < size /\ size <= End(i)
    BY <1>1, <1>5
  <2>2. Offset(i) = last
    BY <1>1, <1>2, <2>1
  <2>3. n \in 1 .. n /\ Offset(i) <= Offset(n)
    BY <1>1, <1>2, <1>3, <1>6
  <2>4. Offset(n) = last
    BY <1>1, <1>2, <2>2, <2>3
  <2> QED
    BY <1>4, <2>4
<1>8. ASSUME NEW i \in 1 .. n
      PROVE  list[i].offset <= LastEndOffset(list, i - 1)
  <2> DEFINE T == {0} \cup {End(j) : j \in 1 .. i - 1}
             E == Max(T)
  <2>1. LastEndOffset(list, i - 1) = E
    BY DEF LastEndOffset
  <2> HIDE DEF Offset, End, n, size, last
  <2>2. \A j \in 1 .. i - 1 : j \in 1 .. n
    BY <1>1
  <2>3. T \in SUBSET Nat /\ T # {} /\ \A x \in T : x <= size
    BY <1>1, <1>2, <2>2
  <2> HIDE DEF T
  <2>4. E \in T /\ \A y \in T : E >= y
    BY <1>1, <2>3, MaximumExists
  <2> HIDE DEF E
  <2>5. E \in Nat
    BY <2>3, <2>4
  <2>6. ~(E < Offset(i))
    <3> SUFFICES ASSUME E < Offset(i) PROVE FALSE
      OBVIOUS
    <3>1. E + 1 \in 1 .. size
      BY <1>1, <1>2, <2>5
    <3>2. PICK j \in 1 .. n : Offset(j) < E + 1 /\ E + 1 <= End(j)
      BY <1>5, <3>1
    <3>3. Offset(j) < Offset(i)
      BY <1>2, <2>5, <3>2
    <3>4. i # j /\ ~(i < j)
      BY <1>2, <1>3, <3>3
    <3>5. j \in 1 .. i - 1
      BY <1>1, <3>4
    <3>6. End(j) \in T
      BY <3>5 DEF T
    <3>7. E >= End(j)
      BY <2>4, <3>6
    <3> QED
      BY <1>2, <2>5, <3>2, <3>7
  <2>7. Offset(i) <= E
    BY <1>2, <2>5, <2>6
  <2> QED
    BY <2>1, <2>7 DEF Offset
<1> QED
  BY <1>1, <1>7, <1>8 DEF IsEntire

-----------------------------------------------------------------------------
(* The invariant of the pieces. *)

\* Whatever p is taken for, the packets stay good.
LEMMA TakenGood ==
  ASSUME \A q \in packets : PacketGood(q), NEW p \in packets, NEW new,
         \A x \in new : PacketGood(x), Taken(p, new)
  PROVE  \A q \in packets' : PacketGood(q)
BY DEF Taken

\* Buffers that go away leave the others good.
LEMMA EraseGood ==
  ASSUME BufferInv, NEW d, Erase(d),
         \A k \in DOMAIN fragments : BufferGood(k, fragments[k]) /\ ~IsEntire(fragments[k])
  PROVE  \A k \in DOMAIN fragments' : BufferGood(k, fragments'[k])
                                      /\ ~IsEntire(fragments'[k])
<1>1. \A k \in DOMAIN fragments' : k \in DOMAIN fragments /\ fragments'[k] = fragments[k]
  BY EraseKeeps
<1> QED
  BY <1>1

\* A good packet that is not a whole datagram makes a good buffer with those
\* that came before it.
LEMMA JoinedGood ==
  ASSUME BufferInv, PiecesInv, NEW p \in PacketType, PacketGood(p),
         p.more \/ p.offset # 0
  PROVE  LET f == AddFragment(FragmentsOf(p.id), p.data, p.offset, p.more)
         IN  f \in FragmentsType /\ BufferGood(p.id, f)
<1> DEFINE d == p.id
           old == FragmentsOf(d)
           f == AddFragment(old, p.data, p.offset, p.more)
<1>1. /\ d \in Datagrams /\ p.data \in Seq(Nat) /\ p.offset \in Nat
      /\ p.more \in BOOLEAN
  BY DEF PacketType, BufferInv, TypeOK
<1>2. PieceGood(d, p) /\ (p.more <=> p.offset # LastOffset(d))
  BY DEF PacketGood
<1>3. PieceGood(d, [data |-> p.data, offset |-> p.offset])
  BY <1>2 DEF PieceGood
<1>4. /\ old \in FragmentsType
      /\ \A i \in DOMAIN old.list : PieceGood(d, old.list[i])
      /\ Sorted(old.list)
      /\ old.list # <<>> =>
           (old.moreFragment <=> old.list[Len(old.list)].offset # LastOffset(d))
  <2>1. CASE d \in DOMAIN fragments
    <3>1. old = fragments[d]
      BY <2>1 DEF FragmentsOf
    <3>2. BufferGood(d, fragments[d])
      BY <2>1 DEF PiecesInv
    <3>3. fragments[d] \in FragmentsType
      BY <2>1 DEF BufferInv, TypeOK
    <3> QED
      BY <3>1, <3>2, <3>3 DEF BufferGood, Sorted
  <2>2. CASE d \notin DOMAIN fragments
    <3>1. old = [moreFragment |-> FALSE, list |-> <<>>]
      BY <2>2 DEF FragmentsOf, NewFragments
    <3>2. old.list = <<>> /\ DOMAIN old.list = {}
      BY <3>1
    <3>3. old \in FragmentsType
      BY <3>1 DEF FragmentsType
    <3> QED
      BY <3>2, <3>3 DEF Sorted
  <2> QED
    BY <2>1, <2>2
<1> HIDE DEF old
<1>5. BufferGood(d, f) /\ f \in FragmentsType
  BY <1>1, <1>2, <1>3, <1>4, AddFragmentGood, AddFragmentType
<1> QED
  BY <1>5 DEF old

\* It leaves the buffers good.
LEMMA ProcessFragmentGood ==
  ASSUME BufferInv, PiecesInv, NEW p \in PacketType, PacketGood(p),
         p.more \/ p.offset # 0, ProcessFragment(p)
  PROVE  \A k \in DOMAIN fragments' : BufferGood(k, fragments'[k])
                                      /\ ~IsEntire(fragments'[k])
<1> DEFINE d == p.id
           f == AddFragment(FragmentsOf(d), p.data, p.offset, p.more)
<1>1. BufferGood(d, f)
  BY JoinedGood
<1>2. CASE IsEntire(f)
  <2>1. Erase(d)
    BY <1>2 DEF ProcessFragment
  <2> QED
    BY <2>1, EraseGood DEF PiecesInv
<1>3. CASE ~IsEntire(f)
  <2>1. fragments' = [k \in DOMAIN fragments \cup {d} |-> IF k = d THEN f ELSE fragments[k]]
    BY <1>3 DEF ProcessFragment
  <2> HIDE DEF f, d
  <2>2. \A k \in DOMAIN fragments' : \/ fragments'[k] = f /\ k = d
                                     \/ fragments'[k] = fragments[k] /\ k \in DOMAIN fragments
    BY <2>1
  <2> QED
    BY <1>1, <1>3, <2>2 DEF PiecesInv
<1> QED
  BY <1>2, <1>3

LEMMA PiecesNext ==
  ASSUME BufferInv, PiecesInv, LastFragmentKept, [Next]_vars
  PROVE  PiecesInv'
<1>0. /\ \A q \in packets : PacketGood(q)
      /\ \A k \in DOMAIN fragments : BufferGood(k, fragments[k]) /\ ~IsEntire(fragments[k])
  BY DEF PiecesInv
<1>1. ASSUME NEW d \in Datagrams, Send(d)
      PROVE  PiecesInv'
  <2> DEFINE p == Packet(d, Original(d), 0, FALSE, 0)
  <2>1. PICK mtu \in Mtu[1] : packets' = packets \cup SendRealOut(p, mtu)
    BY <1>1 DEF Send
  <2>2. p \in AnyPacket /\ p.hop + 1 = 1 /\ PacketGood(p)
    <3>1. Original(d) \in Seq(Nat)
      BY OriginalType
    <3> QED
      BY <3>1 DEF Packet, AnyPacket, PacketGood
  <2>3. fragments' = fragments
    BY <1>1 DEF Send
  <2> HIDE DEF p
  <2>4. 1 \in 1 .. Len(Mtu)
    BY LinksType
  <2>5. \A x \in SendRealOut(p, mtu) : PacketGood(x)
    BY <2>2, <2>4, SendRealOutGood
  <2> QED
    BY <1>0, <2>1, <2>3, <2>5 DEF PiecesInv
<1>2. ASSUME NEW p \in packets
      PROVE  p \in PacketType /\ p \in AnyPacket /\ PacketGood(p)
             /\ p.hop \in 1 .. Len(Mtu)
  BY <1>2 DEF PiecesInv, BufferInv, TypeOK, PacketType, AnyPacket
<1>3. ASSUME NEW p \in packets, IpForward(p)
      PROVE  PiecesInv'
  <2>1. p.hop + 1 \in 1 .. Len(Mtu)
    BY <1>2, <1>3, LinksType DEF IpForward
  <2>2. PICK mtu \in Mtu[p.hop + 1] : Taken(p, SendRealOut(p, mtu))
    BY <1>3 DEF IpForward
  <2>3. \A x \in SendRealOut(p, mtu) : PacketGood(x)
    BY <1>2, <2>1, SendRealOutGood
  <2>4. \A q \in packets' : PacketGood(q)
    BY <1>0, <2>2, <2>3, TakenGood
  <2>5. fragments' = fragments
    BY <1>3 DEF IpForward
  <2> QED
    BY <1>0, <2>4, <2>5 DEF PiecesInv
<1>4. ASSUME NEW p \in packets, LocalDeliverWhole(p)
      PROVE  PiecesInv'
  <2>1. Taken(p, {}) /\ fragments' = fragments
    BY <1>4 DEF LocalDeliverWhole
  <2>2. \A q \in packets' : PacketGood(q)
    BY <1>0, <2>1, TakenGood
  <2> QED
    BY <1>0, <2>1, <2>2 DEF PiecesInv
<1>5. ASSUME NEW p \in packets, LocalDeliverFragment(p)
      PROVE  PiecesInv'
  <2>1. Taken(p, {}) /\ ProcessFragment(p) /\ (p.more \/ p.offset # 0)
    BY <1>5 DEF LocalDeliverFragment
  <2>2. \A q \in packets' : PacketGood(q)
    BY <1>0, <2>1, TakenGood
  <2>3. \A k \in DOMAIN fragments' : BufferGood(k, fragments'[k])
                                     /\ ~IsEntire(fragments'[k])
    BY <1>2, <2>1, ProcessFragmentGood
  <2> QED
    BY <2>2, <2>3 DEF PiecesInv
<1>6. ASSUME NEW d \in Datagrams, HandleFragmentsTimeout(d)
      PROVE  PiecesInv'
  <2>1. Erase(d) /\ packets' = packets
    BY <1>6 DEF HandleFragmentsTimeout
  <2>2. \A k \in DOMAIN fragments' : BufferGood(k, fragments'[k])
                                     /\ ~IsEntire(fragments'[k])
    BY <1>0, <2>1, EraseGood
  <2> QED
    BY <1>0, <2>1, <2>2 DEF PiecesInv
<1>7. CASE UNCHANGED vars
  BY <1>0, <1>7 DEF vars, PiecesInv
<1> QED
  BY <1>1, <1>3, <1>4, <1>5, <1>6, <1>7 DEF Next, Arrive

THEOREM PiecesInvariant ==
  ASSUME LastFragmentKept
  PROVE  Spec => []PiecesInv
<1>1. Init => PiecesInv
  BY DEF Init, PiecesInv, NoFragments
<1>2. BufferInv /\ PiecesInv /\ [Next]_vars => PiecesInv'
  BY PiecesNext
<1> QED
  BY <1>1, <1>2, BufferInvariant, PTL DEF Spec

\* When the links leave the last fragment of a datagram as it was cut first,
\* a datagram of which every byte has arrived is passed on: none waits for
\* its timer.
THEOREM CompleteDelivered ==
  ASSUME LastFragmentKept
  PROVE  Spec => []CompleteIsDelivered
<1>1. BufferInv /\ PiecesInv => CompleteIsDelivered
  <2> SUFFICES ASSUME BufferInv, PiecesInv, NEW d \in DOMAIN fragments,
                      Buffered(d) = 1 .. Size[d]
               PROVE  FALSE
    BY DEF CompleteIsDelivered
  <2>1. d \in Datagrams /\ fragments[d] \in FragmentsType
    BY DEF BufferInv, TypeOK
  <2>2. BufferGood(d, fragments[d]) /\ ~IsEntire(fragments[d])
    BY DEF PiecesInv
  <2>3. LastOffset(d) \in Nat /\ LastOffset(d) < Size[d]
    BY <2>1, LastOffsetExists
  <2>4. UNION {Range(fragments[d].list[i].data) : i \in DOMAIN fragments[d].list}
          = 1 .. Size[d]
    BY DEF Buffered
  <2>5. IsEntire(fragments[d])
    BY <2>1, <2>2, <2>3, <2>4, CompleteIsEntire
  <2> QED
    BY <2>2, <2>5
<1> QED
  BY <1>1, BufferInvariant, PiecesInvariant, PTL

-----------------------------------------------------------------------------
(* What a buffer is joined to. *)

\* The values that a run through a list passes on from one element to the next.
Runs(S, base, step, list) ==
  {g \in [0 .. Len(list) -> S] :
     \A i \in 0 .. Len(list) : g[i] = IF i = 0 THEN base ELSE step[<<g[i - 1], list[i]>>]}

LEMMA RunExists ==
  ASSUME NEW S, NEW T, NEW base \in S, NEW step \in [S \X T -> S], NEW list \in Seq(T)
  PROVE  Runs(S, base, step, list) # {}
<1> DEFINE n == Len(list)
           Run(m, g) == /\ g \in [0 .. m -> S]
                        /\ \A i \in 0 .. m :
                             g[i] = IF i = 0 THEN base ELSE step[<<g[i - 1], list[i]>>]
           Without == {m \in 0 .. n : ~\E g : Run(m, g)}
<1>1. n \in Nat /\ \A i \in 1 .. n : list[i] \in T
  OBVIOUS
<1> HIDE DEF n
<1>2. Without = {}
  <2> SUFFICES ASSUME Without # {} PROVE FALSE
    OBVIOUS
  <2>1. Without \in SUBSET Nat
    BY <1>1
  <2>2. PICK m \in Without : \A k \in Without : m <= k
    BY <2>1, MinimumExists
  <2>3. m \in 0 .. n /\ ~\E g : Run(m, g)
    BY <2>2
  <2>4. CASE m = 0
    <3> DEFINE g == [i \in 0 .. m |-> base]
    <3>1. Run(m, g)
      BY <2>4
    <3> QED
      BY <2>3, <3>1
  <2>5. CASE m # 0
    <3>1. m \in Nat /\ m - 1 \in 0 .. n /\ m \in 1 .. n /\ ~(m <= m - 1)
      BY <1>1, <2>3, <2>5
    <3>2. PICK g : Run(m - 1, g)
      BY <2>2, <3>1
    <3> DEFINE last == step[<<g[m - 1], list[m]>>]
               h == [i \in 0 .. m |-> IF i = m THEN last ELSE g[i]]
    <3>3. g[m - 1] \in S /\ last \in S
      BY <1>1, <3>1, <3>2
    <3> HIDE DEF last
    <3>4. \A i \in 0 .. m : i = m \/ i \in 0 .. m - 1
      BY <3>1
    <3>5. h \in [0 .. m -> S]
      BY <3>2, <3>3, <3>4
    <3>6. ASSUME NEW i \in 0 .. m
          PROVE  h[i] = IF i = 0 THEN base ELSE step[<<h[i - 1], list[i]>>]
      <4>1. CASE i = 0
        <5>1. 0 \in 0 .. m - 1 /\ i # m
          BY <3>1, <4>1
        <5>2. h[i] = g[0] /\ g[0] = base
          BY <3>2, <4>1, <5>1
        <5> QED
          BY <4>1, <5>2
      <4>2. CASE i = m
        <5>1. h[i - 1] = g[m - 1] /\ h[i] = last /\ i # 0
          BY <3>1, <4>2
        <5> HIDE DEF h
        <5> QED
          BY <4>2, <5>1 DEF last
      <4>3. CASE i # 0 /\ i # m
        <5>1. i \in 0 .. m - 1 /\ i - 1 \in 0 .. m /\ i - 1 # m
          BY <3>1, <4>3
        <5>2. h[i] = g[i] /\ h[i - 1] = g[i - 1]
          BY <4>3, <5>1
        <5>3. g[i] = step[<<g[i - 1], list[i]>>]
          BY <3>2, <4>3, <5>1
        <5> QED
          BY <4>3, <5>2, <5>3
      <4> QED
        BY <4>1, <4>2, <4>3
    <3>7. Run(m, h)
      BY <3>5, <3>6
    <3> QED
      BY <2>3, <3>7
  <2> QED
    BY <2>4, <2>5
<1>3. \E g : Run(n, g)
  <2> HIDE DEF Run
  <2>1. n \in 0 .. n
    BY <1>1
  <2>2. n \notin Without
    <3> HIDE DEF Without
    <3> QED
      BY <1>2
  <2> QED
    BY <2>1, <2>2, Zenon
<1> PICK g : Run(n, g)
  BY <1>3
<1>4. g \in Runs(S, base, step, list)
  BY DEF n, Runs
<1> QED
  BY <1>4

\* The bytes from the first of a datagram on.
Leading(p) == p \in Seq(Nat) /\ \A i \in DOMAIN p : p[i] = i

LEMMA RestIs ==
  ASSUME NEW data \in Seq(Nat), NEW start \in Nat
  PROVE  Rest(data, start) = SubSeq(data, start + 1, Len(data))
<1> DEFINE l == Len(data)
<1>1. l \in Nat
  OBVIOUS
<1> HIDE DEF l
<1>2. start + (l - start) = l
  BY <1>1
<1>3. Min({l, l}) = l
  BY <1>1, MinOfTwo
<1> QED
  BY <1>2, <1>3 DEF Rest, CreateFragment, l

LEMMA AddAtEndType ==
  ASSUME NEW p \in Seq(Nat), NEW frag \in Element
  PROVE  AddAtEnd(p, frag) \in Seq(Nat) /\ AddIfNext(p, frag) \in Seq(Nat)
<1>1. frag.data \in Seq(Nat) /\ frag.offset \in Nat /\ Len(p) \in Nat
      /\ Len(frag.data) \in Nat
  BY DEF Element
<1>2. CASE Len(p) > frag.offset
  <2>1. Len(p) - frag.offset \in Nat
    BY <1>1, <1>2
  <2> DEFINE s == Len(p) - frag.offset
  <2>2. s \in Nat
    BY <2>1
  <2> HIDE DEF s
  <2>3. SubSeq(frag.data, s + 1, Len(frag.data)) \in Seq(Nat)
    BY <1>1, <2>2
  <2>4. Rest(frag.data, s) \in Seq(Nat)
    BY <1>1, <2>2, <2>3, RestIs
  <2>5. p \o Rest(frag.data, s) \in Seq(Nat)
    BY <2>4
  <2> QED
    BY <1>2, <2>5 DEF AddAtEnd, AddIfNext, s
<1>3. CASE ~(Len(p) > frag.offset)
  BY <1>1, <1>3 DEF AddAtEnd, AddIfNext
<1> QED
  BY <1>2, <1>3

\* What leads on is led on by a fragment in place that leaves no gap.
LEMMA AddAtEndLeads ==
  ASSUME NEW p, Leading(p), NEW frag \in Element,
         \A i \in DOMAIN frag.data : frag.data[i] = frag.offset + i,
         frag.offset <= Len(p)
  PROVE  LET q == AddAtEnd(p, frag)
             end == frag.offset + Len(frag.data)
         IN  /\ Leading(q) /\ Len(q) \in Nat
             /\ Len(q) >= Len(p) /\ Len(q) >= end
             /\ Len(q) = Len(p) \/ Len(q) = end
<1> DEFINE n == Len(p)
           m == Len(frag.data)
           o == frag.offset
           e == o + m
           s == n - o
           r == SubSeq(frag.data, s + 1, m)
           q == AddAtEnd(p, frag)
<1>1. p \in Seq(Nat) /\ n \in Nat /\ DOMAIN p = 1 .. n /\ \A i \in 1 .. n : p[i] = i
  BY DEF Leading
<1>2. frag.data \in Seq(Nat) /\ m \in Nat /\ o \in Nat /\ DOMAIN frag.data = 1 .. m
  BY DEF Element
<1>3. s \in Nat /\ o <= n
  BY <1>1, <1>2
<1>4. q = p \o r
  <2>1. CASE n > o
    BY <1>2, <1>3, <2>1, RestIs DEF AddAtEnd
  <2>2. CASE ~(n > o)
    <3>1. s = 0
      BY <1>1, <1>2, <1>3, <2>2
    <3>2. SubSeq(frag.data, 0 + 1, m) = frag.data
      BY <1>2
    <3> QED
      BY <2>2, <3>1, <3>2 DEF AddAtEnd
  <2> QED
    BY <2>1, <2>2
<1>5. /\ r \in Seq(Nat)
      /\ Len(r) = IF s < m THEN m - s ELSE 0
      /\ \A i \in 1 .. Len(r) : r[i] = frag.data[s + i] /\ s + i \in 1 .. m
  <2> DEFINE data == frag.data
  <2>1. data \in Seq(Nat) /\ m = Len(data)
    BY <1>2
  <2> HIDE DEF data, s
  <2>2. SubSeq(data, s + 1, m) \in Seq(Nat)
    BY <1>2, <1>3, <2>1
  <2>3. Len(SubSeq(data, s + 1, m)) = IF s < m THEN m - s ELSE 0
    BY <1>2, <1>3, <2>1
  <2>4. \A i \in 1 .. Len(SubSeq(data, s + 1, m)) :
          SubSeq(data, s + 1, m)[i] = data[s + i] /\ s + i \in 1 .. m
    BY <1>2, <1>3, <2>1, <2>3
  <2> QED
    BY <2>2, <2>3, <2>4 DEF data
<1> HIDE DEF r, q
<1>6. \A i \in 1 .. Len(r) : r[i] = n + i
  <2> TAKE i \in 1 .. Len(r)
  <2>1. r[i] = o + (s + i)
    BY <1>2, <1>5
  <2>2. i \in Int
    OBVIOUS
  <2> QED
    BY <1>1, <1>2, <2>1, <2>2
<1>7. q \in Seq(Nat) /\ Len(q) = n + Len(r) /\ Len(r) \in Nat
      /\ \A i \in 1 .. n + Len(r) : q[i] = IF i <= n THEN p[i] ELSE r[i - n]
  <2>1. Len(r) \in Nat /\ r \in Seq(Nat) /\ p \in Seq(Nat)
    BY <1>1, <1>5
  <2>2. p \o r \in Seq(Nat)
    BY <2>1
  <2>3. /\ Len(p \o r) = Len(p) + Len(r)
        /\ \A i \in 1 .. Len(p) + Len(r) :
             (p \o r)[i] = IF i <= Len(p) THEN p[i] ELSE r[i - Len(p)]
    BY <2>1, Concatenated
  <2> QED
    BY <1>4, <2>1, <2>2, <2>3
<1> HIDE DEF n, m, o
<1>8. ASSUME NEW i \in 1 .. n + Len(r)
      PROVE  q[i] = i
  <2>1. CASE i <= n
    BY <1>1, <1>7, <2>1
  <2>2. CASE ~(i <= n)
    <3>1. i - n \in 1 .. Len(r) /\ n + (i - n) = i
      BY <1>1, <1>7, <2>2
    <3> QED
      BY <1>6, <1>7, <2>2, <3>1
  <2> QED
    BY <2>1, <2>2
<1>9. Leading(q)
  <2>1. DOMAIN q = 1 .. n + Len(r)
    BY <1>7
  <2> QED
    BY <1>7, <1>8, <2>1 DEF Leading
<1>10. n \in Nat /\ m \in Nat /\ o \in Nat /\ s \in Nat /\ o <= n
  BY <1>1, <1>2, <1>3
<1>11. Len(q) = n + Len(r) /\ Len(r) = IF s < m THEN m - s ELSE 0
  BY <1>5, <1>7
<1>12. CASE s < m
  <2>1. Len(q) = e
    BY <1>10, <1>11, <1>12
  <2>2. e \in Nat /\ e >= n
    BY <1>10, <1>12
  <2> HIDE DEF e
  <2> QED
    BY <1>9, <2>1, <2>2 DEF n, m, o, q, e
<1>13. CASE ~(s < m)
  <2>1. Len(q) = n
    BY <1>10, <1>11, <1>13
  <2>2. n >= e
    BY <1>10, <1>13
  <2> HIDE DEF e
  <2> QED
    BY <1>9, <1>10, <2>1, <2>2 DEF n, m, o, q, e
<1> QED
  BY <1>12, <1>13

\* The packet that GetPacket has joined after each element of the list.
LEMMA GetPacketRun ==
  ASSUME NEW f \in FragmentsType
  PROVE  \E g : /\ GetPacket(f) = g[Len(f.list)]
                /\ \A i \in 0 .. Len(f.list) :
                     g[i] = IF i = 0 THEN <<>> ELSE AddAtEnd(g[i - 1], f.list[i])
<1> DEFINE list == f.list
           step == [x \in Seq(Nat) \X Element |-> AddAtEnd(x[1], x[2])]
           Run(g) == g = [i \in 0 .. Len(list) |->
                            IF i = 0 THEN <<>> ELSE AddAtEnd(g[i - 1], list[i])]
           joined == CHOOSE g : Run(g)
<1>1. list \in Seq(Element)
  BY DEF FragmentsType, Element
<1>2. step \in [Seq(Nat) \X Element -> Seq(Nat)]
  BY AddAtEndType
<1>3. \A p \in Seq(Nat), x \in Element : step[<<p, x>>] = AddAtEnd(p, x)
  OBVIOUS
<1>4. GetPacket(f) = joined[Len(list)]
  BY DEF GetPacket
<1> HIDE DEF step, list
<1>5. \E g : Run(g)
  <2>1. <<>> \in Seq(Nat)
    OBVIOUS
  <2>2. PICK g \in [0 .. Len(list) -> Seq(Nat)] :
          \A i \in 0 .. Len(list) :
            g[i] = IF i = 0 THEN <<>> ELSE step[<<g[i - 1], list[i]>>]
    <3>1. Runs(Seq(Nat), <<>>, step, list) # {}
      BY <1>1, <1>2, <2>1, RunExists
    <3> QED
      BY <3>1 DEF Runs
  <2>3. ASSUME NEW i \in 0 .. Len(list), i # 0
        PROVE  step[<<g[i - 1], list[i]>>] = AddAtEnd(g[i - 1], list[i])
    <3>0. Len(list) \in Nat
      BY <1>1
    <3>1. list[i] \in Element /\ i - 1 \in 0 .. Len(list)
      BY <1>1, <2>3, <3>0
    <3>2. g[i - 1] \in Seq(Nat)
      BY <2>2, <3>1
    <3> QED
      BY <1>3, <3>1, <3>2
  <2>4. \A i \in 0 .. Len(list) :
          g[i] = IF i = 0 THEN <<>> ELSE AddAtEnd(g[i - 1], list[i])
    BY <2>2, <2>3
  <2>5. Run(g)
    BY <2>2, <2>4
  <2> QED
    BY <2>5
<1>6. Run(joined)
  BY <1>5
<1> HIDE DEF joined
<1>7. \A i \in 0 .. Len(list) :
        joined[i] = IF i = 0 THEN <<>> ELSE AddAtEnd(joined[i - 1], list[i])
  BY <1>6
<1> QED
  BY <1>4, <1>7 DEF list

\* The same for GetPartialPacket.
LEMMA GetPartialPacketRun ==
  ASSUME NEW f \in FragmentsType
  PROVE  \E g : /\ GetPartialPacket(f) =
                     IF f.list[1].offset > 0 THEN <<>> ELSE g[Len(f.list)]
                /\ \A i \in 0 .. Len(f.list) :
                     g[i] = IF i = 0 THEN <<>> ELSE AddIfNext(g[i - 1], f.list[i])
<1> DEFINE list == f.list
           step == [x \in Seq(Nat) \X Element |-> AddIfNext(x[1], x[2])]
           Run(g) == g = [i \in 0 .. Len(list) |->
                            IF i = 0 THEN <<>> ELSE AddIfNext(g[i - 1], list[i])]
           joined == CHOOSE g : Run(g)
<1>1. list \in Seq(Element)
  BY DEF FragmentsType, Element
<1>2. step \in [Seq(Nat) \X Element -> Seq(Nat)]
  BY AddAtEndType
<1>3. \A p \in Seq(Nat), x \in Element : step[<<p, x>>] = AddIfNext(p, x)
  OBVIOUS
<1>4. GetPartialPacket(f) = IF list[1].offset > 0 THEN <<>> ELSE joined[Len(list)]
  BY DEF GetPartialPacket
<1> HIDE DEF step, list
<1>5. \E g : Run(g)
  <2>1. <<>> \in Seq(Nat)
    OBVIOUS
  <2>2. PICK g \in [0 .. Len(list) -> Seq(Nat)] :
          \A i \in 0 .. Len(list) :
            g[i] = IF i = 0 THEN <<>> ELSE step[<<g[i - 1], list[i]>>]
    <3>1. Runs(Seq(Nat), <<>>, step, list) # {}
      BY <1>1, <1>2, <2>1, RunExists
    <3> QED
      BY <3>1 DEF Runs
  <2>3. ASSUME NEW i \in 0 .. Len(list), i # 0
        PROVE  step[<<g[i - 1], list[i]>>] = AddIfNext(g[i - 1], list[i])
    <3>0. Len(list) \in Nat
      BY <1>1
    <3>1. list[i] \in Element /\ i - 1 \in 0 .. Len(list)
      BY <1>1, <2>3, <3>0
    <3>2. g[i - 1] \in Seq(Nat)
      BY <2>2, <3>1
    <3> QED
      BY <1>3, <3>1, <3>2
  <2>4. \A i \in 0 .. Len(list) :
          g[i] = IF i = 0 THEN <<>> ELSE AddIfNext(g[i - 1], list[i])
    BY <2>2, <2>3
  <2>5. Run(g)
    BY <2>2, <2>4
  <2> QED
    BY <2>5
<1>6. Run(joined)
  BY <1>5
<1> HIDE DEF joined
<1>7. \A i \in 0 .. Len(list) :
        joined[i] = IF i = 0 THEN <<>> ELSE AddIfNext(joined[i - 1], list[i])
  BY <1>6
<1> QED
  BY <1>4, <1>7 DEF list

\* What is in a good buffer.
LEMMA BufferFacts ==
  ASSUME NEW d \in Datagrams, NEW f \in FragmentsType, BufferGood(d, f)
  PROVE  /\ Len(f.list) \in Nat /\ Len(f.list) > 0 /\ Size[d] \in Nat
         /\ DOMAIN f.list = 1 .. Len(f.list)
         /\ \A i \in 1 .. Len(f.list) :
              /\ f.list[i] \in Element /\ PieceGood(d, f.list[i])
              /\ Len(f.list[i].data) \in Nat /\ f.list[i].offset \in Nat
<1> DEFINE list == f.list
<1>1. list \in Seq(Element) /\ list # <<>> /\ \A i \in DOMAIN list : PieceGood(d, list[i])
  BY DEF FragmentsType, Element, BufferGood
<1>2. Size[d] \in Nat
  BY LinksType
<1>3. \A x \in Element : Len(x.data) \in Nat /\ x.offset \in Nat
  BY DEF Element
<1> HIDE DEF list
<1>4. /\ Len(list) \in Nat /\ Len(list) > 0 /\ DOMAIN list = 1 .. Len(list)
      /\ \A i \in 1 .. Len(list) : list[i] \in Element
  BY <1>1
<1> QED
  BY <1>1, <1>2, <1>3, <1>4 DEF list

\* One more fragment of a good buffer.
LEMMA LeadsOn ==
  ASSUME NEW d \in Datagrams, NEW p, Leading(p), Len(p) <= Size[d],
         NEW x \in Element, PieceGood(d, x), x.offset <= Len(p)
  PROVE  LET q == AddAtEnd(p, x)
         IN  /\ Leading(q) /\ Len(q) \in Nat /\ Len(q) <= Size[d]
             /\ Len(q) >= Len(p) /\ Len(q) >= x.offset + Len(x.data)
<1>1. \A i \in DOMAIN x.data : x.data[i] = x.offset + i
  BY DEF PieceGood
<1>2. x.offset + Len(x.data) <= Size[d]
  BY DEF PieceGood
<1> QED
  BY <1>1, <1>2, AddAtEndLeads

\* Nothing leads to nothing.
LEMMA NothingLeads == Leading(<<>>) /\ Len(<<>>) = 0
  BY DEF Leading

\* What GetPartialPacket returns is the beginning of the datagram.
LEMMA GetPartialPacketLeads ==
  ASSUME NEW d \in Datagrams, NEW f \in FragmentsType, BufferGood(d, f)
  PROVE  Leading(GetPartialPacket(f)) /\ Len(GetPartialPacket(f)) <= Size[d]
<1> DEFINE list == f.list
           n == Len(list)
<1>1. n \in Nat /\ Size[d] \in Nat
      /\ \A i \in 1 .. n : list[i] \in Element /\ PieceGood(d, list[i])
  BY BufferFacts
<1>2. PICK g : /\ GetPartialPacket(f) = IF list[1].offset > 0 THEN <<>> ELSE g[n]
               /\ \A i \in 0 .. n : g[i] = IF i = 0 THEN <<>> ELSE AddIfNext(g[i - 1], list[i])
  BY GetPartialPacketRun
<1> HIDE DEF list, n
<1> DEFINE Good(i) == Leading(g[i]) /\ Len(g[i]) <= Size[d]
           Bad == {i \in 0 .. n : ~Good(i)}
<1>3. Bad = {}
  <2> SUFFICES ASSUME Bad # {} PROVE FALSE
    OBVIOUS
  <2>1. Bad \in SUBSET Nat
    BY <1>1
  <2>2. PICK i \in Bad : \A k \in Bad : i <= k
    <3> HIDE DEF Bad
    <3> QED
      BY <2>1, MinimumExists
  <2>3. i \in 0 .. n /\ ~Good(i)
    BY <2>2
  <2>4. i # 0
    BY <1>1, <1>2, <2>3, NothingLeads
  <2>5. i - 1 \in 0 .. n /\ i \in 1 .. n /\ ~(i <= i - 1)
    BY <1>1, <2>3, <2>4
  <2>6. Good(i - 1)
    BY <2>2, <2>5
  <2>7. g[i] = AddIfNext(g[i - 1], list[i])
    BY <1>2, <2>3, <2>4
  <2>8. CASE Len(g[i - 1]) >= list[i].offset
    <3>1. g[i] = AddAtEnd(g[i - 1], list[i])
      BY <2>7, <2>8 DEF AddIfNext
    <3>2. Len(g[i - 1]) \in Nat /\ list[i].offset \in Nat
      BY <1>1, <2>5, <2>6 DEF Leading, Element
    <3>3. list[i].offset <= Len(g[i - 1])
      BY <2>8, <3>2
    <3>4. Good(i)
      BY <1>1, <2>5, <2>6, <3>1, <3>3, LeadsOn
    <3> QED
      BY <2>3, <3>4
  <2>9. CASE ~(Len(g[i - 1]) >= list[i].offset)
    BY <2>3, <2>6, <2>7, <2>9 DEF AddIfNext
  <2> QED
    BY <2>8, <2>9
<1>4. Good(n)
  BY <1>1, <1>3
<1> QED
  BY <1>1, <1>2, <1>4, NothingLeads

\* What GetPacket returns of an entire buffer is the datagram.
LEMMA GetPacketIsOriginal ==
  ASSUME NEW d \in Datagrams, NEW f \in FragmentsType, BufferGood(d, f), IsEntire(f)
  PROVE  GetPacket(f) = Original(d)
<1> DEFINE list == f.list
           n == Len(list)
           End(i) == list[i].offset + Len(list[i].data)
<1>1. /\ n \in Nat /\ n > 0 /\ Size[d] \in Nat
      /\ \A i \in 1 .. n : list[i] \in Element /\ PieceGood(d, list[i])
      /\ \A i \in 1 .. n : End(i) \in Nat /\ End(i) <= Size[d]
  BY BufferFacts DEF PieceGood
<1>2. PICK g : /\ GetPacket(f) = g[n]
               /\ \A i \in 0 .. n : g[i] = IF i = 0 THEN <<>> ELSE AddAtEnd(g[i - 1], list[i])
  BY GetPacketRun
<1>3. \A i \in 1 .. n : list[i].offset <= Max({0} \cup {End(j) : j \in 1 .. i - 1})
  BY BufferFacts DEF IsEntire, LastEndOffset
<1>4. End(n) = Size[d]
  <2>1. n \in 1 .. n
    BY <1>1
  <2>2. list[n].offset = LastOffset(d)
    BY DEF IsEntire, BufferGood
  <2>3. PieceGood(d, list[n]) /\ End(n) > list[n].offset
    <3>1. list[n] \in Element /\ PieceGood(d, list[n])
      BY <1>1, <2>1
    <3>2. list[n].data # <<>> /\ list[n].data \in Seq(Nat) /\ list[n].offset \in Nat
      BY <3>1 DEF PieceGood, Element
    <3>3. Len(list[n].data) \in Nat /\ Len(list[n].data) > 0
      BY <3>2
    <3> QED
      BY <3>1, <3>2, <3>3
  <2>4. list[n].offset \in Nat
    BY BufferFacts, <2>1
  <2> QED
    BY <1>1, <2>1, <2>2, <2>3, <2>4 DEF PieceGood
<1> HIDE DEF list, n, End
<1> DEFINE Good(i) == /\ Leading(g[i]) /\ Len(g[i]) \in Nat /\ Len(g[i]) <= Size[d]
                      /\ \A j \in 1 .. i : Len(g[i]) >= End(j)
           Bad == {i \in 0 .. n : ~Good(i)}
<1>5. Bad = {}
  <2> SUFFICES ASSUME Bad # {} PROVE FALSE
    OBVIOUS
  <2>1. Bad \in SUBSET Nat
    BY <1>1
  <2>2. PICK i \in Bad : \A k \in Bad : i <= k
    <3> HIDE DEF Bad
    <3> QED
      BY <2>1, MinimumExists
  <2>3. i \in 0 .. n /\ ~Good(i)
    BY <2>2
  <2>4. i # 0
    BY <1>1, <1>2, <2>3, NothingLeads
  <2>5. i - 1 \in 0 .. n /\ i \in 1 .. n /\ ~(i <= i - 1)
    BY <1>1, <2>3, <2>4
  <2>6. Good(i - 1)
    BY <2>2, <2>5
  <2>7. g[i] = AddAtEnd(g[i - 1], list[i])
    BY <1>2, <2>3, <2>4
  <2> DEFINE T == {0} \cup {End(j) : j \in 1 .. i - 1}
  <2>8. list[i].offset <= Max(T)
    BY <1>3, <2>5
  <2>9. \A x \in T : x \in Nat /\ x <= Size[d] /\ x <= Len(g[i - 1])
    <3>1. \A j \in 1 .. i - 1 : j \in 1 .. n
      BY <1>1, <2>5
    <3> QED
      BY <1>1, <2>6, <3>1
  <2>10. T # {}
    OBVIOUS
  <2> HIDE DEF T
  <2>11. Max(T) \in T
    BY <1>1, <2>9, <2>10, MaximumExists
  <2>12. list[i].offset <= Len(g[i - 1])
    <3>1. list[i].offset \in Nat
      BY <1>1, <2>5 DEF Element
    <3> QED
      BY <2>6, <2>8, <2>9, <2>11, <3>1
  <2>13. /\ Leading(g[i]) /\ Len(g[i]) \in Nat /\ Len(g[i]) <= Size[d]
         /\ Len(g[i]) >= Len(g[i - 1]) /\ Len(g[i]) >= End(i)
    BY <1>1, <2>5, <2>6, <2>7, <2>12, LeadsOn DEF End
  <2>14. \A j \in 1 .. i : Len(g[i]) >= End(j)
    <3> TAKE j \in 1 .. i
    <3>1. CASE j = i
      BY <2>13, <3>1
    <3>2. CASE j # i
      <4>1. j \in 1 .. i - 1 /\ j \in 1 .. n
        BY <1>1, <2>5, <3>2
      <4> QED
        BY <1>1, <2>6, <2>13, <4>1
    <3> QED
      BY <3>1, <3>2
  <2> QED
    BY <2>3, <2>13, <2>14
<1>6. Good(n)
  BY <1>1, <1>5
<1>7. Len(g[n]) = Size[d]
  BY <1>1, <1>4, <1>6
<1>8. Original(d) \in Seq(Nat) /\ Len(Original(d)) = Size[d]
      /\ \A i \in 1 .. Size[d] : Original(d)[i] = i
  BY <1>1, OriginalType DEF Original
<1>9. g[n] \in Seq(Nat) /\ \A i \in 1 .. Size[d] : g[n][i] = i
  BY <1>6, <1>7 DEF Leading
<1> QED
  BY <1>2, <1>7, <1>8, <1>9, SeqEqual DEF n

-----------------------------------------------------------------------------
(* What is delivered and what is reported. *)

HandedOver ==
  /\ DeliveredAsSent
  /\ \A x \in dropped : Leading(x.data) /\ Len(x.data) <= Size[x.id]

LEMMA HandedOverNext ==
  ASSUME BufferInv, PiecesInv, LastFragmentKept, HandedOver, [Next]_vars
  PROVE  HandedOver'
<1> USE DEF HandedOver, DeliveredAsSent
<1>1. ASSUME NEW d \in Datagrams, Send(d)
      PROVE  HandedOver'
  BY <1>1 DEF Send
<1>2. ASSUME NEW p \in packets
      PROVE  p \in PacketType /\ PacketGood(p) /\ p.id \in Datagrams
  BY <1>2 DEF PiecesInv, BufferInv, TypeOK, PacketType
<1>3. ASSUME NEW p \in packets, IpForward(p)
      PROVE  HandedOver'
  BY <1>3 DEF IpForward
<1>4. ASSUME NEW p \in packets, LocalDeliverWhole(p)
      PROVE  HandedOver'
  <2>1. /\ ~p.more /\ p.offset = 0 /\ dropped' = dropped
        /\ delivered' = delivered \cup {[id |-> p.id, data |-> p.data]}
    BY <1>4 DEF LocalDeliverWhole
  <2>2. p.data = Original(p.id)
    BY <1>2, <2>1 DEF PacketGood
  <2> QED
    BY <2>1, <2>2
<1>5. ASSUME NEW p \in packets, LocalDeliverFragment(p)
      PROVE  HandedOver'
  <2> DEFINE f == AddFragment(FragmentsOf(p.id), p.data, p.offset, p.more)
  <2>1. ProcessFragment(p) /\ (p.more \/ p.offset # 0) /\ dropped' = dropped
    BY <1>5 DEF LocalDeliverFragment
  <2>2. f \in FragmentsType /\ BufferGood(p.id, f)
    BY <1>2, <2>1, JoinedGood
  <2>3. CASE IsEntire(f)
    <3>1. delivered' = delivered \cup {[id |-> p.id, data |-> GetPacket(f)]}
      BY <2>1, <2>3 DEF ProcessFragment
    <3>2. GetPacket(f) = Original(p.id)
      BY <1>2, <2>2, <2>3, GetPacketIsOriginal
    <3> QED
      BY <2>1, <3>1, <3>2
  <2>4. CASE ~IsEntire(f)
    <3>1. delivered' = delivered
      BY <2>1, <2>4 DEF ProcessFragment
    <3> QED
      BY <2>1, <3>1
  <2> QED
    BY <2>3, <2>4
<1>6. ASSUME NEW d \in Datagrams, HandleFragmentsTimeout(d)
      PROVE  HandedOver'
  <2> DEFINE x == GetPartialPacket(fragments[d])
  <2>1. /\ d \in timers /\ delivered' = delivered
        /\ dropped' = dropped \cup {[id |-> d, data |-> x, icmp |-> Len(x) > Align]}
    BY <1>6 DEF HandleFragmentsTimeout
  <2>2. fragments[d] \in FragmentsType /\ BufferGood(d, fragments[d])
    BY <2>1 DEF BufferInv, TypeOK, TimerPerBuffer, PiecesInv
  <2>3. Leading(x) /\ Len(x) <= Size[d]
    BY <2>2, GetPartialPacketLeads
  <2> HIDE DEF x
  <2> QED
    BY <2>1, <2>3
<1>7. CASE UNCHANGED vars
  BY <1>7 DEF vars
<1> QED
  BY <1>1, <1>3, <1>4, <1>5, <1>6, <1>7 DEF Next, Arrive

LEMMA HandedOverInvariant ==
  ASSUME LastFragmentKept
  PROVE  Spec => [](BufferInv /\ HandedOver)
<1>1. Init => HandedOver
  BY DEF Init, HandedOver, DeliveredAsSent
<1>2. BufferInv /\ PiecesInv /\ HandedOver /\ [Next]_vars => HandedOver'
  BY HandedOverNext
<1> QED
  BY <1>1, <1>2, BufferInvariant, PiecesInvariant, PTL DEF Spec

\* On such links the transport protocol gets what was sent, in whatever order
\* and however often fragments arrive, and whatever arrives after a timeout.
THEOREM DeliveredIsSent ==
  ASSUME LastFragmentKept
  PROVE  Spec => []DeliveredAsSent
<1>1. HandedOver => DeliveredAsSent
  BY DEF HandedOver
<1> QED
  BY <1>1, HandedOverInvariant, PTL

\* And what is reported of a datagram that timed out is its beginning.
THEOREM PartialLeads ==
  ASSUME LastFragmentKept
  PROVE  Spec => []PartialIsPrefix
<1>1. BufferInv /\ HandedOver => PartialIsPrefix
  <2> SUFFICES ASSUME BufferInv, HandedOver, NEW x \in dropped
               PROVE  IsPrefix(x.data, Original(x.id))
    BY DEF PartialIsPrefix
  <2> DEFINE s == x.data
             t == Original(x.id)
             n == Len(s)
  <2>1. x.id \in Datagrams
    BY DEF BufferInv, TypeOK
  <2>2. s \in Seq(Nat) /\ n \in Nat /\ n <= Size[x.id] /\ \A i \in 1 .. n : s[i] = i
    BY DEF HandedOver, Leading
  <2>3. t \in Seq(Nat) /\ Len(t) = Size[x.id] /\ \A i \in 1 .. Size[x.id] : t[i] = i
    BY <2>1, LinksType, OriginalType DEF Original
  <2>4. Size[x.id] \in Nat
    BY <2>1, LinksType
  <2> HIDE DEF s, t
  <2>5. n <= Len(t)
    BY <2>2, <2>3
  <2>6. SubSeq(s, 1, n) = s
    BY <2>2
  <2>7. SubSeq(t, 1, n) \in Seq(Nat) /\ Len(SubSeq(t, 1, n)) = n
        /\ \A i \in 1 .. n : SubSeq(t, 1, n)[i] = t[i]
    BY <2>2, <2>3, <2>5
  <2>8. \A i \in 1 .. n : s[i] = SubSeq(t, 1, n)[i]
    BY <2>2, <2>3, <2>4, <2>7
  <2>9. s = SubSeq(t, 1, n)
    BY <2>2, <2>7, <2>8, SeqEqual
  <2> QED
    BY <2>5, <2>6, <2>9 DEF IsPrefix, s, t
<1> QED
  BY <1>1, HandedOverInvariant, PTL

-----------------------------------------------------------------------------
(* Which bytes are where.  A byte of a datagram that was not duplicated is *)
(* in one packet, or in the buffer, or gone.                               *)

Bytes(x) == Range(x.data)

\* Data in place are the bytes between two offsets.
LEMMA BytesInPlace ==
  ASSUME NEW data \in Seq(Nat), NEW offset \in Nat,
         \A i \in DOMAIN data : data[i] = offset + i
  PROVE  Range(data) = offset + 1 .. offset + Len(data)
<1> DEFINE n == Len(data)
<1>1. n \in Nat /\ DOMAIN data = 1 .. n
  OBVIOUS
<1> HIDE DEF n
<1>2. ASSUME NEW b \in Range(data)
      PROVE  b \in offset + 1 .. offset + n
  <2>1. PICK i \in 1 .. n : b = data[i]
    BY <1>1 DEF Range
  <2>2. b = offset + i
    BY <1>1, <2>1
  <2> QED
    BY <1>1, <2>2
<1>3. ASSUME NEW b \in offset + 1 .. offset + n
      PROVE  b \in Range(data)
  <2>1. b - offset \in 1 .. n /\ offset + (b - offset) = b
    BY <1>1
  <2>2. data[b - offset] = b
    BY <1>1, <2>1
  <2> QED
    BY <1>1, <2>1, <2>2 DEF Range
<1> QED
  BY <1>2, <1>3 DEF n

\* A piece of d carries some of its bytes.
LEMMA BytesOfPiece ==
  ASSUME NEW d \in Datagrams, NEW x, x.data \in Seq(Nat), x.offset \in Nat,
         PieceGood(d, x)
  PROVE  Bytes(x) # {} /\ Bytes(x) \subseteq 1 .. Size[d]
<1> DEFINE n == Len(x.data)
           o == x.offset
<1>1. n \in Nat /\ n > 0 /\ o \in Nat /\ o + n <= Size[d] /\ Size[d] \in Nat
  BY LinksType DEF PieceGood
<1>2. Bytes(x) = o + 1 .. o + n
  BY BytesInPlace DEF PieceGood, Bytes
<1> HIDE DEF n, o
<1>3. o + 1 \in o + 1 .. o + n /\ o + 1 .. o + n \subseteq 1 .. Size[d]
  BY <1>1
<1> QED
  BY <1>2, <1>3

\* So does every packet.
LEMMA BytesOfPacket ==
  ASSUME NEW p \in AnyPacket, PacketGood(p)
  PROVE  Bytes(p) # {} /\ Bytes(p) \subseteq 1 .. Size[p.id] /\ InPlace(p)
<1>1. p.data \in Seq(Nat) /\ p.offset \in Nat /\ p.id \in Datagrams
  BY DEF AnyPacket
<1>2. CASE PieceGood(p.id, p)
  BY <1>1, <1>2, BytesOfPiece DEF PieceGood, InPlace
<1>3. CASE p.data = Original(p.id) /\ p.offset = 0
  <2>1. Size[p.id] \in Nat \ {0}
    BY <1>1, LinksType
  <2>2. DOMAIN p.data = 1 .. Size[p.id] /\ \A i \in 1 .. Size[p.id] : p.data[i] = i
    BY <1>3 DEF Original
  <2>3. Bytes(p) = 1 .. Size[p.id] /\ 1 \in 1 .. Size[p.id]
    BY <2>1, <2>2 DEF Bytes, Range
  <2>4. InPlace(p)
    BY <1>3, <2>1, <2>2 DEF InPlace
  <2> QED
    BY <2>3, <2>4
<1> QED
  BY <1>2, <1>3 DEF PacketGood

\* DoFragmentation puts a byte into one piece.
LEMMA PiecesApart ==
  ASSUME NEW p \in AnyPacket, InPlace(p), NEW mtu \in Nat, mtu >= Align,
         NEW x \in DoFragmentation(p, mtu), NEW y \in DoFragmentation(p, mtu), x # y
  PROVE  Bytes(x) \cap Bytes(y) = {}
<1> DEFINE n == FragmentSize(mtu)
           m == Len(p.data)
           o == p.offset
           original == IF p.more THEN p.offset ELSE 0
           Piece(s) == [p EXCEPT !.data = CreateFragment(p.data, s, n),
                                 !.offset = s + original,
                                 !.more = p.more \/ s + n < m]
<1>1. p.data \in Seq(Nat) /\ m \in Nat /\ o \in Nat /\ n \in Nat \ {0}
  BY FragmentSizePositive DEF AnyPacket
<1>2. /\ \E s \in {s \in 0 .. m - 1 : s % n = 0} : x = Piece(s)
      /\ \E t \in {t \in 0 .. m - 1 : t % n = 0} : y = Piece(t)
  BY DEF DoFragmentation, FragmentSize
<1> HIDE DEF n, original, m, o, Piece
<1>3. PICK s \in 0 .. m - 1, t \in 0 .. m - 1 :
        s % n = 0 /\ t % n = 0 /\ x = Piece(s) /\ y = Piece(t)
  BY <1>2
<1>4. s # t /\ s \in Nat /\ t \in Nat /\ s < m /\ t < m
  BY <1>1, <1>3
<1> DEFINE From(r) == o + r + 1 .. o + r + n
<1>5. ASSUME NEW r \in Nat, r < m, NEW z, z = Piece(r)
      PROVE  Bytes(z) \subseteq From(r)
  <2> DEFINE data == CreateFragment(p.data, r, n)
  <2>1. z.data = data
    BY <1>5 DEF AnyPacket, Piece
  <2>2. data \in Seq(Nat)
        /\ \A i \in DOMAIN data : r + i \in DOMAIN p.data /\ data[i] = p.data[r + i]
    BY <1>1, <1>5, CreateFragmentBytes
  <2>3. \A i \in DOMAIN p.data : p.data[i] = o + i
    BY DEF o, InPlace
  <2>4. Len(data) \in Nat /\ Len(data) <= n
    <3>1. LET u == CreateFragment(p.data, r, n)
          IN  /\ u # <<>> /\ Len(u) \in Nat
              /\ r + n < Len(p.data) => Len(u) = n
              /\ r + n >= Len(p.data) => Len(u) = Len(p.data) - r
      BY <1>1, <1>5, CreateFragmentLength DEF m
    <3> DEFINE l == Len(data)
    <3>2. l \in Nat /\ (r + n < m => l = n) /\ (r + n >= m => l = m - r)
      BY <3>1 DEF m
    <3> HIDE DEF l
    <3>3. l <= n
      BY <1>1, <1>5, <3>2
    <3> QED
      BY <3>2, <3>3 DEF l
  <2> HIDE DEF data
  <2>5. \A i \in DOMAIN data : data[i] = o + r + i
    <3> TAKE i \in DOMAIN data
    <3>1. i \in Nat
      BY <2>2
    <3>2. data[i] = o + (r + i)
      BY <2>2, <2>3
    <3> QED
      BY <1>1, <3>1, <3>2
  <2>6. Range(data) = o + r + 1 .. o + r + Len(data)
    BY <1>1, <1>5, <2>2, <2>5, BytesInPlace
  <2> DEFINE l == Len(data)
  <2>7. l \in Nat /\ l <= n
    BY <2>4
  <2> HIDE DEF l
  <2>8. o + r + 1 .. o + r + l \subseteq From(r)
    BY <1>1, <2>7
  <2> QED
    BY <2>1, <2>6, <2>8 DEF Bytes, l
<1>6. Bytes(x) \subseteq From(s) /\ Bytes(y) \subseteq From(t)
  BY <1>3, <1>4, <1>5
<1>7. CASE s < t
  <2>1. s + n <= t
    BY <1>1, <1>3, <1>4, <1>7, MultiplesApart
  <2>2. From(s) \cap From(t) = {}
    BY <1>1, <1>4, <2>1
  <2> QED
    BY <1>6, <2>2
<1>8. CASE t < s
  <2>1. t + n <= s
    BY <1>1, <1>3, <1>4, <1>8, MultiplesApart
  <2>2. From(s) \cap From(t) = {}
    BY <1>1, <1>4, <2>1
  <2> QED
    BY <1>6, <2>2
<1> QED
  BY <1>4, <1>7, <1>8

\* So does SendRealOut, of the bytes of the packet that it sends on.
LEMMA SentApart ==
  ASSUME NEW p \in AnyPacket, PacketGood(p), p.hop + 1 \in Nat,
         NEW mtu \in Nat, mtu >= Align
  PROVE  /\ \A x \in SendRealOut(p, mtu) : x.id = p.id /\ Bytes(x) \subseteq Bytes(p)
         /\ \A x, y \in SendRealOut(p, mtu) : x # y => Bytes(x) \cap Bytes(y) = {}
<1> DEFINE next == [p EXCEPT !.hop = @ + 1]
           sending == SendRealOut(p, mtu)
<1>1. sending = IF Len(p.data) > mtu THEN DoFragmentation(next, mtu) ELSE {next}
  BY DEF SendRealOut
<1>2. /\ next \in AnyPacket /\ next.id = p.id /\ next.data = p.data
      /\ next.offset = p.offset /\ next.more = p.more /\ next.hop = p.hop + 1
  BY DEF AnyPacket
<1> HIDE DEF next, sending
<1>3. CASE sending = {next}
  BY <1>2, <1>3 DEF sending, Bytes
<1>4. CASE sending = DoFragmentation(next, mtu) /\ Len(p.data) > mtu
  <2>1. ASSUME NEW x \in sending
        PROVE  x.id = p.id /\ Bytes(x) \subseteq Bytes(p)
    <3>0. x \in DoFragmentation(next, mtu)
      BY <1>4
    <3>1. PICK start \in Nat, offset \in {0, next.offset} :
            /\ x.id = next.id
            /\ \A i \in DOMAIN x.data : start + i \in DOMAIN next.data
                                        /\ x.data[i] = next.data[start + i]
      BY <1>2, <3>0, PieceOf
    <3> QED
      BY <1>2, <3>1 DEF Bytes, Range
  <2>2. ASSUME NEW x \in sending, NEW y \in sending, x # y
        PROVE  Bytes(x) \cap Bytes(y) = {}
    <3>1. InPlace(next)
      BY <1>2, BytesOfPacket DEF InPlace
    <3> QED
      BY <1>2, <1>4, <2>2, <3>1, PiecesApart
  <2> QED
    BY <2>1, <2>2 DEF sending
<1> QED
  BY <1>1, <1>3, <1>4

\* The bytes in a buffer.
Held(f) == UNION {Bytes(f.list[i]) : i \in DOMAIN f.list}

\* A fragment adds its own.
LEMMA AddedBytes ==
  ASSUME NEW f \in FragmentsType, NEW data \in Seq(Nat), NEW offset \in Nat,
         NEW more \in BOOLEAN
  PROVE  Held(AddFragment(f, data, offset, more)) = Held(f) \cup Range(data)
<1> DEFINE list == f.list
           n == Len(list)
           k == Cardinality({i \in DOMAIN list : list[i].offset <= offset})
           e == [data |-> data, offset |-> offset]
           t == InsertAt(list, k + 1, e)
<1>1. list \in Seq(Element) /\ n \in Nat /\ DOMAIN list = 1 .. n /\ e \in Element
      /\ Bytes(e) = Range(data)
  BY DEF FragmentsType, Element, Bytes
<1>2. k \in 0 .. n
  <2> DEFINE B == {i \in DOMAIN list : list[i].offset <= offset}
  <2>1. B \in SUBSET (1 .. n)
    BY <1>1
  <2>2. IsFiniteSet(1 .. n) /\ Cardinality(1 .. n) = n
    <3> HIDE DEF n
    <3>1. IsFiniteSet(1 .. n) /\ Cardinality(1 .. n) = IF 1 > n THEN 0 ELSE n - 1 + 1
      BY <1>1, FS_Interval
    <3> QED
      BY <1>1, <3>1
  <2> DEFINE All == 1 .. n
  <2> HIDE DEF B
  <2>3. Cardinality(B) \in Nat /\ Cardinality(B) <= n
    <3>1. IsFiniteSet(All) /\ B \in SUBSET All /\ Cardinality(All) = n
      BY <2>1, <2>2
    <3> HIDE DEF All, n
    <3>2. IsFiniteSet(B) /\ Cardinality(B) <= Cardinality(All)
      BY <3>1, FS_Subset
    <3>3. Cardinality(B) \in Nat
      BY <3>2, FS_CardinalityType
    <3> QED
      BY <3>1, <3>2, <3>3
  <2>4. k = Cardinality(B)
    BY DEF B
  <2>5. n \in Nat
    BY <1>1
  <2> HIDE DEF k, n, B
  <2> QED
    BY <2>3, <2>4, <2>5
<1>3. AddFragment(f, data, offset, more).list = t
  BY DEF AddFragment
<1> HIDE DEF k, e, list
<1>4. k + 1 \in 1 .. Len(list) + 1
  BY <1>1, <1>2
<1>5. t \in Seq(Element)
  BY <1>1, <1>4, InsertAtType
<1>6. LET u == InsertAt(list, k + 1, e)
      IN  /\ Len(u) = Len(list) + 1
          /\ \A j \in 1 .. Len(list) + 1 :
               u[j] = IF j < k + 1 THEN list[j] ELSE IF j = k + 1 THEN e ELSE list[j - 1]
  BY <1>1, <1>4, InsertAtElements
<1>7. DOMAIN t = 1 .. n + 1
      /\ \A j \in 1 .. n + 1 :
           t[j] = IF j < k + 1 THEN list[j] ELSE IF j = k + 1 THEN e ELSE list[j - 1]
  BY <1>5, <1>6
<1> HIDE DEF t, n
<1>8. ASSUME NEW j \in 1 .. n + 1
      PROVE  t[j] = e \/ \E i \in 1 .. n : t[j] = list[i]
  <2>1. CASE j < k + 1
    <3>1. j \in 1 .. n
      BY <1>1, <1>2, <2>1
    <3> QED
      BY <1>7, <2>1, <3>1
  <2>2. CASE j > k + 1
    <3>1. j - 1 \in 1 .. n /\ ~(j < k + 1) /\ j # k + 1
      BY <1>1, <1>2, <2>2
    <3> QED
      BY <1>7, <3>1
  <2>3. CASE j = k + 1
    BY <1>1, <1>2, <1>7, <2>3
  <2> QED
    BY <1>1, <1>2, <2>1, <2>2, <2>3
<1>9. \E j \in 1 .. n + 1 : t[j] = e
  <2>1. k + 1 \in 1 .. n + 1 /\ ~(k + 1 < k + 1)
    BY <1>1, <1>2
  <2> QED
    BY <1>7, <2>1
<1>10. ASSUME NEW i \in 1 .. n
       PROVE  \E j \in 1 .. n + 1 : t[j] = list[i]
  <2>1. CASE i < k + 1
    <3>1. i \in 1 .. n + 1
      BY <1>1
    <3> QED
      BY <1>7, <2>1, <3>1
  <2>2. CASE ~(i < k + 1)
    <3>1. i + 1 \in 1 .. n + 1 /\ ~(i + 1 < k + 1) /\ i + 1 # k + 1 /\ (i + 1) - 1 = i
      BY <1>1, <1>2, <2>2
    <3>2. t[i + 1] = list[(i + 1) - 1]
      BY <1>7, <3>1
    <3> QED
      BY <3>1, <3>2
  <2> QED
    BY <2>1, <2>2
<1>11. UNION {Bytes(t[j]) : j \in 1 .. n + 1}
         = (UNION {Bytes(list[i]) : i \in 1 .. n}) \cup Bytes(e)
  <2> HIDE DEF Bytes
  <2> QED
    BY <1>8, <1>9, <1>10
<1> QED
  BY <1>1, <1>3, <1>7, <1>11 DEF Held, list

\* A good buffer holds some bytes of its datagram, and all of them if it is
\* entire.
LEMMA HeldBytes ==
  ASSUME NEW d \in Datagrams, NEW f \in FragmentsType, BufferGood(d, f)
  PROVE  /\ Held(f) # {} /\ Held(f) \subseteq 1 .. Size[d]
         /\ IsEntire(f) => Held(f) = 1 .. Size[d]
<1> DEFINE list == f.list
           n == Len(list)
           size == Size[d]
           Offset(i) == list[i].offset
           End(i) == list[i].offset + Len(list[i].data)
<1>1. /\ n \in Nat /\ n > 0 /\ size \in Nat /\ DOMAIN list = 1 .. n
      /\ \A i \in 1 .. n : /\ list[i] \in Element /\ PieceGood(d, list[i])
                           /\ Offset(i) \in Nat /\ End(i) \in Nat /\ End(i) <= size
  <2>1. /\ n \in Nat /\ n > 0 /\ size \in Nat /\ DOMAIN list = 1 .. n
        /\ \A i \in 1 .. n : /\ list[i] \in Element /\ PieceGood(d, list[i])
                             /\ Len(list[i].data) \in Nat /\ list[i].offset \in Nat
    BY BufferFacts
  <2> HIDE DEF n, list
  <2>2. ASSUME NEW i \in 1 .. n
        PROVE  Offset(i) \in Nat /\ End(i) \in Nat /\ End(i) <= size
    <3>1. Len(list[i].data) \in Nat /\ list[i].offset \in Nat
      BY <2>1
    <3>2. list[i].offset + Len(list[i].data) <= Size[d]
      BY <2>1 DEF PieceGood
    <3> QED
      BY <3>1, <3>2
  <2> QED
    BY <2>1, <2>2
<1>2. ASSUME NEW i \in 1 .. n
      PROVE  /\ Bytes(list[i]) # {} /\ Bytes(list[i]) \subseteq 1 .. size
             /\ Bytes(list[i]) = Offset(i) + 1 .. End(i)
  <2> DEFINE x == list[i]
  <2>1. x.data \in Seq(Nat) /\ x.offset \in Nat /\ PieceGood(d, x)
    BY <1>1 DEF Element
  <2> HIDE DEF x
  <2>2. Bytes(x) # {} /\ Bytes(x) \subseteq 1 .. Size[d]
    BY <2>1, BytesOfPiece
  <2>3. Bytes(x) = x.offset + 1 .. x.offset + Len(x.data)
    BY <2>1, BytesInPlace DEF PieceGood, Bytes
  <2> QED
    BY <2>2, <2>3 DEF x
<1>3. ASSUME IsEntire(f)
      PROVE  End(n) = size
             /\ \A i \in 1 .. n : Offset(i) <= Max({0} \cup {End(j) : j \in 1 .. i - 1})
  <2>1. n \in 1 .. n
    BY <1>1
  <2>2. list[n].offset = LastOffset(d)
    BY <1>3 DEF IsEntire, BufferGood
  <2>3. PieceGood(d, list[n]) /\ list[n].data # <<>> /\ list[n].data \in Seq(Nat)
        /\ list[n].offset \in Nat
    BY <1>1, <2>1 DEF PieceGood, Element
  <2>4. Len(list[n].data) \in Nat /\ Len(list[n].data) > 0
    BY <2>3
  <2>5. End(n) = size
    BY <1>1, <2>1, <2>2, <2>3, <2>4 DEF PieceGood
  <2> QED
    BY <1>1, <1>3, <2>5 DEF IsEntire, LastEndOffset
<1> HIDE DEF list, n, size, Offset, End
<1>4. ASSUME IsEntire(f), NEW b \in 1 .. size
      PROVE  \E i \in 1 .. n : b \in Bytes(list[i])
  <2> DEFINE T == {i \in 1 .. n : b <= End(i)}
  <2>1. T \in SUBSET Nat /\ n \in T
    BY <1>1, <1>3, <1>4
  <2>2. PICK i \in T : \A k \in T : i <= k
    <3> HIDE DEF T
    <3> QED
      BY <2>1, MinimumExists
  <2>3. i \in 1 .. n /\ b <= End(i)
    BY <2>2
  <2>4. \A j \in 1 .. i - 1 : j \in 1 .. n /\ End(j) \in Nat /\ End(j) < b
    <3> TAKE j \in 1 .. i - 1
    <3>1. j \in 1 .. n /\ ~(i <= j)
      BY <1>1, <2>3
    <3>2. j \notin T
      BY <2>2, <3>1
    <3> QED
      BY <1>1, <1>4, <3>1, <3>2
  <2> DEFINE U == {0} \cup {End(j) : j \in 1 .. i - 1}
  <2>0. b \in Nat /\ b > 0 /\ Offset(i) \in Nat
    BY <1>1, <2>3
  <2>5. U \in SUBSET Nat /\ U # {} /\ \A u \in U : u < b /\ u <= b
    BY <2>0, <2>4
  <2>6. Offset(i) <= Max(U)
    BY <1>3, <1>4, <2>3
  <2> HIDE DEF U, T
  <2>7. Max(U) \in U
    BY <2>0, <2>5, MaximumExists
  <2>8. Offset(i) < b
    <3>1. Max(U) \in Nat /\ Max(U) < b
      BY <2>5, <2>7
    <3> QED
      BY <2>0, <2>6, <3>1
  <2>9. b \in Offset(i) + 1 .. End(i)
    BY <1>1, <2>0, <2>3, <2>8
  <2> QED
    BY <1>2, <2>3, <2>9
<1>5. Held(f) = UNION {Bytes(list[i]) : i \in 1 .. n}
  BY <1>1 DEF Held, list
<1>6. 1 \in 1 .. n
  BY <1>1
<1>7. Held(f) # {} /\ Held(f) \subseteq 1 .. size
  <2>1. Bytes(list[1]) # {} /\ Bytes(list[1]) \subseteq Held(f)
    BY <1>2, <1>5, <1>6
  <2>2. \A i \in 1 .. n : Bytes(list[i]) \subseteq 1 .. size
    BY <1>2
  <2> QED
    BY <1>5, <2>1, <2>2
<1>8. ASSUME IsEntire(f)
      PROVE  1 .. size \subseteq Held(f)
  BY <1>4, <1>5, <1>8
<1> QED
  BY <1>7, <1>8 DEF size

\* The bytes of d that wait for the others.
Arrived(d) == IF d \in DOMAIN fragments THEN Held(fragments[d]) ELSE {}

\* Byte b of d is no longer anywhere.
Gone(d, b) == b \notin Arrived(d) /\ \A p \in packets : p.id = d => b \notin Bytes(p)

PacketsApart ==
  \A p, q \in packets : p # q /\ p.id = q.id => Bytes(p) \cap Bytes(q) = {}

ApartFromArrived == \A p \in packets : Bytes(p) \cap Arrived(p.id) = {}

\* Nothing is left of what was delivered.
DeliveredIsGone ==
  \A x \in delivered : x.id \notin DOMAIN fragments /\ \A p \in packets : p.id # x.id

\* What has timed out will never be complete.
DroppedIsBroken == \A y \in dropped : \E b \in 1 .. Size[y.id] : Gone(y.id, b)

FatesApart == \A x \in delivered, y \in dropped : x.id # y.id

Undivided ==
  PacketsApart /\ ApartFromArrived /\ DeliveredIsGone /\ DroppedIsBroken /\ FatesApart

FateInv == duplicates = 0 => Undivided

\* What is taken from the network is gone from it if nothing is duplicated.
LEMMA TakenAway ==
  ASSUME BufferInv, NEW p, NEW new, Taken(p, new), duplicates' = 0
  PROVE  duplicates = 0 /\ packets' = (packets \ {p}) \cup new
<1>1. duplicates \in Nat
  BY DatagramAssumption DEF BufferInv, TypeOK
<1>2. ~(duplicates' = duplicates + 1)
  BY <1>1
<1> QED
  BY <1>2 DEF Taken

\* Every packet, and what has arrived of a datagram.
LEMMA WhatIsThere ==
  ASSUME BufferInv, PiecesInv
  PROVE  /\ \A p \in packets : /\ p \in PacketType /\ p \in AnyPacket /\ PacketGood(p)
                               /\ p.id \in Datagrams /\ p.id \in sent
                               /\ p.hop \in 1 .. Len(Mtu)
                               /\ Bytes(p) # {} /\ Bytes(p) \subseteq 1 .. Size[p.id]
         /\ \A d \in DOMAIN fragments : /\ d \in Datagrams /\ d \in sent
                                        /\ Arrived(d) # {}
                                        /\ Arrived(d) \subseteq 1 .. Size[d]
<1>1. ASSUME NEW p \in packets
      PROVE  /\ p \in PacketType /\ p \in AnyPacket /\ PacketGood(p)
             /\ p.id \in Datagrams /\ p.id \in sent /\ p.hop \in 1 .. Len(Mtu)
  BY LinksType DEF PiecesInv, BufferInv, TypeOK, PacketType, AnyPacket
<1>2. ASSUME NEW p \in packets
      PROVE  Bytes(p) # {} /\ Bytes(p) \subseteq 1 .. Size[p.id]
  BY <1>1, BytesOfPacket
<1>3. ASSUME NEW d \in DOMAIN fragments
      PROVE  /\ d \in Datagrams /\ d \in sent
             /\ Arrived(d) # {} /\ Arrived(d) \subseteq 1 .. Size[d]
  <2>1. /\ d \in Datagrams /\ d \in sent
        /\ fragments[d] \in FragmentsType /\ BufferGood(d, fragments[d])
    BY DEF BufferInv, TypeOK, PiecesInv
  <2> QED
    BY <2>1, HeldBytes DEF Arrived
<1> QED
  BY <1>1, <1>2, <1>3

\* A datagram is sent once: there is nothing of it before.
LEMMA SendKeepsFate ==
  ASSUME BufferInv, PiecesInv, Undivided, NEW d \in Datagrams, Send(d)
  PROVE  Undivided'
<1> DEFINE p == Packet(d, Original(d), 0, FALSE, 0)
<1>1. PICK mtu \in Mtu[1] : packets' = packets \cup SendRealOut(p, mtu)
  BY DEF Send
<1>2. d \notin sent /\ UNCHANGED <<fragments, delivered, dropped>>
  BY DEF Send
<1>3. p \in AnyPacket /\ PacketGood(p) /\ p.hop + 1 \in Nat /\ p.id = d
  <2>1. Original(d) \in Seq(Nat)
    BY OriginalType
  <2> QED
    BY <2>1 DEF Packet, AnyPacket, PacketGood
<1> DEFINE new == SendRealOut(p, mtu)
<1> HIDE DEF p
<1>4. mtu \in Nat /\ mtu >= Align
  <2>1. 1 \in 1 .. Len(Mtu)
    BY LinksType
  <2> QED
    BY <2>1, LinksType
<1>5. /\ \A x \in new : x.id = d
      /\ \A x, y \in new : x # y => Bytes(x) \cap Bytes(y) = {}
  BY <1>3, <1>4, SentApart
<1> HIDE DEF new
<1>6. packets' = packets \cup new
  BY <1>1 DEF new
<1>7. /\ \A q \in packets : q.id # d
      /\ d \notin DOMAIN fragments
      /\ \A x \in delivered \cup dropped : x.id # d
  BY <1>2, WhatIsThere DEF BufferInv, TypeOK
<1>8. \A k : Arrived(k)' = Arrived(k)
  BY <1>2 DEF Arrived
<1>9. Arrived(d) = {}
  BY <1>7 DEF Arrived
<1>10. PacketsApart'
  BY <1>5, <1>6, <1>7 DEF Undivided, PacketsApart
<1>11. ApartFromArrived'
  BY <1>5, <1>6, <1>8, <1>9 DEF Undivided, ApartFromArrived
<1>12. DeliveredIsGone'
  BY <1>2, <1>5, <1>6, <1>7 DEF Undivided, DeliveredIsGone
<1>13. DroppedIsBroken'
  <2> SUFFICES ASSUME NEW y \in dropped
               PROVE  \E b \in 1 .. Size[y.id] : Gone(y.id, b)'
    BY <1>2 DEF DroppedIsBroken
  <2>1. PICK b \in 1 .. Size[y.id] : Gone(y.id, b)
    BY DEF Undivided, DroppedIsBroken
  <2>2. Gone(y.id, b)'
    BY <1>5, <1>6, <1>7, <1>8, <2>1 DEF Gone
  <2> QED
    BY <2>2
<1>14. FatesApart'
  BY <1>2 DEF Undivided, FatesApart
<1> QED
  BY <1>10, <1>11, <1>12, <1>13, <1>14 DEF Undivided

\* A router puts no byte into two packets.
LEMMA ForwardKeepsFate ==
  ASSUME BufferInv, PiecesInv, Undivided, NEW p \in packets, IpForward(p), duplicates' = 0
  PROVE  Undivided'
<1>1. PICK mtu \in Mtu[p.hop + 1] : Taken(p, SendRealOut(p, mtu))
  BY DEF IpForward
<1>2. UNCHANGED <<fragments, delivered, dropped>>
  BY DEF IpForward
<1> DEFINE new == SendRealOut(p, mtu)
<1>3. packets' = (packets \ {p}) \cup new
  BY <1>1, TakenAway
<1>4. p \in AnyPacket /\ PacketGood(p) /\ p.hop \in 1 .. Len(Mtu)
  BY WhatIsThere
<1>5. p.hop + 1 \in Nat /\ mtu \in Nat /\ mtu >= Align
  <2>1. Len(Mtu) \in Nat /\ p.hop < Len(Mtu)
    BY LinksType DEF IpForward
  <2>2. p.hop + 1 \in 1 .. Len(Mtu) /\ p.hop + 1 \in Nat
    BY <1>4, <2>1
  <2> QED
    BY <2>2, LinksType
<1>6. /\ \A x \in new : x.id = p.id /\ Bytes(x) \subseteq Bytes(p)
      /\ \A x, y \in new : x # y => Bytes(x) \cap Bytes(y) = {}
  BY <1>4, <1>5, SentApart
<1> HIDE DEF new
<1>7. \A k : Arrived(k)' = Arrived(k)
  BY <1>2 DEF Arrived
<1>8. PacketsApart'
  <2> SUFFICES ASSUME NEW q \in packets', NEW r \in packets', q # r, q.id = r.id
               PROVE  Bytes(q) \cap Bytes(r) = {}
    BY DEF PacketsApart
  <2>1. CASE q \in new /\ r \in new
    BY <1>6, <2>1
  <2>2. CASE q \in new /\ r \in packets \ {p}
    BY <1>6, <2>2 DEF Undivided, PacketsApart
  <2>3. CASE q \in packets \ {p} /\ r \in new
    BY <1>6, <2>3 DEF Undivided, PacketsApart
  <2>4. CASE q \in packets \ {p} /\ r \in packets \ {p}
    BY <2>4 DEF Undivided, PacketsApart
  <2> QED
    BY <1>3, <2>1, <2>2, <2>3, <2>4
<1>9. ApartFromArrived'
  <2> SUFFICES ASSUME NEW q \in packets'
               PROVE  Bytes(q) \cap Arrived(q.id) = {}
    BY <1>7 DEF ApartFromArrived
  <2>1. CASE q \in new
    BY <1>6, <2>1 DEF Undivided, ApartFromArrived
  <2>2. CASE q \in packets
    BY <2>2 DEF Undivided, ApartFromArrived
  <2> QED
    BY <1>3, <2>1, <2>2
<1>10. DeliveredIsGone'
  BY <1>2, <1>3, <1>6 DEF Undivided, DeliveredIsGone
<1>11. DroppedIsBroken'
  <2> SUFFICES ASSUME NEW y \in dropped
               PROVE  \E b \in 1 .. Size[y.id] : Gone(y.id, b)'
    BY <1>2 DEF DroppedIsBroken
  <2>1. PICK b \in 1 .. Size[y.id] : Gone(y.id, b)
    BY DEF Undivided, DroppedIsBroken
  <2>2. Gone(y.id, b)'
    BY <1>3, <1>6, <1>7, <2>1 DEF Gone
  <2> QED
    BY <2>2
<1>12. FatesApart'
  BY <1>2 DEF Undivided, FatesApart
<1> QED
  BY <1>8, <1>9, <1>10, <1>11, <1>12 DEF Undivided

\* When every byte of d is in a packet that arrives or has arrived, nothing of
\* d is left behind it, and d has not timed out.
LEMMA AllIsThere ==
  ASSUME BufferInv, PiecesInv, Undivided, NEW p \in packets,
         Arrived(p.id) \cup Bytes(p) = 1 .. Size[p.id]
  PROVE  /\ \A q \in packets \ {p} : q.id # p.id
         /\ \A y \in dropped : y.id # p.id
<1>1. ASSUME NEW q \in packets \ {p}, q.id = p.id
      PROVE  FALSE
  <2>1. Bytes(q) # {} /\ Bytes(q) \subseteq 1 .. Size[p.id]
    BY <1>1, WhatIsThere
  <2>2. Bytes(q) \cap Bytes(p) = {} /\ Bytes(q) \cap Arrived(p.id) = {}
    BY <1>1 DEF Undivided, PacketsApart, ApartFromArrived
  <2> QED
    BY <2>1, <2>2
<1>2. ASSUME NEW y \in dropped, y.id = p.id
      PROVE  FALSE
  BY <1>2 DEF Undivided, DroppedIsBroken, Gone
<1> QED
  BY <1>1, <1>2

\* A packet that is delivered is the last of its datagram.
LEMMA WholeKeepsFate ==
  ASSUME BufferInv, PiecesInv, Undivided, NEW p \in packets, LocalDeliverWhole(p),
         duplicates' = 0
  PROVE  Undivided'
<1>1. /\ ~p.more /\ p.offset = 0 /\ UNCHANGED <<fragments, dropped>>
      /\ delivered' = delivered \cup {[id |-> p.id, data |-> p.data]}
  BY DEF LocalDeliverWhole
<1>2. packets' = packets \ {p}
  BY TakenAway DEF LocalDeliverWhole
<1>3. \A k : Arrived(k)' = Arrived(k)
  BY <1>1 DEF Arrived
<1>4. Bytes(p) = 1 .. Size[p.id] /\ Arrived(p.id) \subseteq 1 .. Size[p.id]
  <2>1. p.data = Original(p.id)
    BY <1>1, WhatIsThere DEF PacketGood
  <2>2. Arrived(p.id) \subseteq 1 .. Size[p.id]
    BY WhatIsThere DEF Arrived
  <2> QED
    BY <2>1, <2>2 DEF Bytes, Range, Original
<1>5. /\ \A q \in packets' : q.id # p.id
      /\ \A y \in dropped : y.id # p.id
  <2>1. Arrived(p.id) \cup Bytes(p) = 1 .. Size[p.id]
    BY <1>4
  <2> QED
    BY <1>2, <2>1, AllIsThere
<1>6. p.id \notin DOMAIN fragments
  <2>1. Arrived(p.id) = {}
    BY <1>4 DEF Undivided, ApartFromArrived
  <2> QED
    BY <2>1, WhatIsThere
<1>7. PacketsApart' /\ ApartFromArrived'
  BY <1>2, <1>3 DEF Undivided, PacketsApart, ApartFromArrived
<1>8. DeliveredIsGone' /\ FatesApart'
  <2>1. \A x \in delivered' : x \in delivered \/ x.id = p.id
    BY <1>1
  <2> QED
    BY <1>1, <1>2, <1>5, <1>6, <2>1 DEF Undivided, DeliveredIsGone, FatesApart
<1>9. DroppedIsBroken'
  BY <1>1, <1>2, <1>3 DEF Undivided, DroppedIsBroken, Gone
<1> QED
  BY <1>7, <1>8, <1>9 DEF Undivided

\* A fragment that arrives takes its bytes from the network to the buffer, or
\* the whole datagram from both.
LEMMA FragmentKeepsFate ==
  ASSUME BufferInv, PiecesInv, Undivided, NEW p \in packets, LocalDeliverFragment(p),
         duplicates' = 0
  PROVE  Undivided'
<1> DEFINE d == p.id
           f == AddFragment(FragmentsOf(d), p.data, p.offset, p.more)
<1>1. ProcessFragment(p) /\ (p.more \/ p.offset # 0) /\ dropped' = dropped
  BY DEF LocalDeliverFragment
<1>2. packets' = packets \ {p}
  BY TakenAway DEF LocalDeliverFragment
<1>3. p \in PacketType /\ PacketGood(p) /\ d \in Datagrams
  BY WhatIsThere
<1>4. f \in FragmentsType /\ BufferGood(d, f)
  BY <1>1, <1>3, JoinedGood
<1>5. Held(f) = Arrived(d) \cup Bytes(p)
  <2>1. FragmentsOf(d) \in FragmentsType
    BY DEF BufferInv, TypeOK, FragmentsOf, NewFragments, FragmentsType
  <2>2. Held(f) = Held(FragmentsOf(d)) \cup Range(p.data)
    BY <1>3, <2>1, AddedBytes DEF PacketType
  <2>3. Held(NewFragments) = {}
    BY DEF Held, NewFragments
  <2>4. Held(FragmentsOf(d)) = Arrived(d)
    BY <2>3 DEF FragmentsOf, Arrived
  <2> QED
    BY <2>2, <2>4 DEF Bytes
<1> HIDE DEF f
<1>6. PacketsApart'
  BY <1>2 DEF Undivided, PacketsApart
<1>7. CASE IsEntire(f)
  <2>1. /\ Erase(d)
        /\ delivered' = delivered \cup {[id |-> d, data |-> GetPacket(f)]}
    BY <1>1, <1>7 DEF ProcessFragment, f
  <2>2. /\ DOMAIN fragments' = DOMAIN fragments \ {d}
        /\ \A k \in DOMAIN fragments' : fragments'[k] = fragments[k]
    BY <2>1 DEF Erase, Restrict
  <2>3. \A k : Arrived(k)' \subseteq Arrived(k)
    BY <2>2 DEF Arrived
  <2>4. /\ \A q \in packets' : q.id # d
        /\ \A y \in dropped : y.id # d
    <3>1. Arrived(d) \cup Bytes(p) = 1 .. Size[d]
      BY <1>3, <1>4, <1>5, <1>7, HeldBytes
    <3> QED
      BY <1>2, <3>1, AllIsThere
  <2>5. ApartFromArrived'
    BY <1>2, <2>3 DEF Undivided, ApartFromArrived
  <2>6. DeliveredIsGone' /\ FatesApart'
    <3>1. \A x \in delivered' : x \in delivered \/ x.id = d
      BY <2>1
    <3> QED
      BY <1>1, <1>2, <2>2, <2>4, <3>1 DEF Undivided, DeliveredIsGone, FatesApart
  <2>7. DroppedIsBroken'
    <3> SUFFICES ASSUME NEW y \in dropped
                 PROVE  \E b \in 1 .. Size[y.id] : Gone(y.id, b)'
      BY <1>1 DEF DroppedIsBroken
    <3>1. PICK b \in 1 .. Size[y.id] : Gone(y.id, b)
      BY DEF Undivided, DroppedIsBroken
    <3>2. Gone(y.id, b)'
      BY <1>2, <2>3, <3>1 DEF Gone
    <3> QED
      BY <3>2
  <2> QED
    BY <1>6, <2>5, <2>6, <2>7 DEF Undivided
<1>8. CASE ~IsEntire(f)
  <2>1. /\ fragments' = [k \in DOMAIN fragments \cup {d} |-> IF k = d THEN f ELSE fragments[k]]
        /\ delivered' = delivered
    BY <1>1, <1>8 DEF ProcessFragment, f
  <2>2. Arrived(d)' = Arrived(d) \cup Bytes(p) /\ \A k : k # d => Arrived(k)' = Arrived(k)
    <3>1. Arrived(d)' = Held(f)
      BY <2>1 DEF Arrived
    <3>2. \A k : k # d => Arrived(k)' = Arrived(k)
      BY <2>1 DEF Arrived
    <3> QED
      BY <1>5, <3>1, <3>2
  <2>3. \A x \in delivered : x.id # d
    BY DEF Undivided, DeliveredIsGone
  <2>4. ApartFromArrived'
    <3> SUFFICES ASSUME NEW q \in packets'
                 PROVE  Bytes(q) \cap Arrived(q.id)' = {}
      BY DEF ApartFromArrived
    <3>1. CASE q.id = d
      <4>1. Bytes(q) \cap Bytes(p) = {} /\ Bytes(q) \cap Arrived(d) = {}
        BY <1>2, <3>1 DEF Undivided, PacketsApart, ApartFromArrived
      <4> QED
        BY <2>2, <3>1, <4>1
    <3>2. CASE q.id # d
      BY <1>2, <2>2, <3>2 DEF Undivided, ApartFromArrived
    <3> QED
      BY <3>1, <3>2
  <2>5. DeliveredIsGone' /\ FatesApart'
    <3>1. DOMAIN fragments' = DOMAIN fragments \cup {d}
      BY <2>1
    <3> QED
      BY <1>1, <1>2, <2>1, <2>3, <3>1 DEF Undivided, DeliveredIsGone, FatesApart
  <2>6. DroppedIsBroken'
    <3> SUFFICES ASSUME NEW y \in dropped
                 PROVE  \E b \in 1 .. Size[y.id] : Gone(y.id, b)'
      BY <1>1 DEF DroppedIsBroken
    <3>1. PICK b \in 1 .. Size[y.id] : Gone(y.id, b)
      BY DEF Undivided, DroppedIsBroken
    <3>2. b \notin Arrived(y.id)'
      BY <2>2, <3>1 DEF Gone
    <3>3. \A q \in packets' : q.id = y.id => b \notin Bytes(q)
      BY <1>2, <3>1 DEF Gone
    <3> QED
      BY <3>2, <3>3 DEF Gone
  <2> QED
    BY <1>6, <2>4, <2>5, <2>6 DEF Undivided
<1> QED
  BY <1>7, <1>8

\* A timer takes bytes away that no packet in flight carries.
LEMMA TimeoutKeepsFate ==
  ASSUME BufferInv, PiecesInv, Undivided, NEW d \in Datagrams, HandleFragmentsTimeout(d)
  PROVE  Undivided'
<1>1. /\ d \in timers /\ Erase(d) /\ UNCHANGED <<packets, delivered>>
      /\ \A y \in dropped' : y \in dropped \/ y.id = d
  BY DEF HandleFragmentsTimeout
<1>2. d \in DOMAIN fragments
  BY <1>1 DEF BufferInv, TimerPerBuffer
<1>3. /\ DOMAIN fragments' = DOMAIN fragments \ {d}
      /\ \A k \in DOMAIN fragments' : fragments'[k] = fragments[k]
  BY <1>1 DEF Erase, Restrict
<1>4. Arrived(d)' = {} /\ \A k : Arrived(k)' \subseteq Arrived(k)
  BY <1>3 DEF Arrived
<1>5. PICK b \in Arrived(d) : b \in 1 .. Size[d]
  BY <1>2, WhatIsThere
<1>6. PacketsApart'
  BY <1>1 DEF Undivided, PacketsApart
<1>7. ApartFromArrived'
  BY <1>1, <1>4 DEF Undivided, ApartFromArrived
<1>8. DeliveredIsGone'
  BY <1>1, <1>3 DEF Undivided, DeliveredIsGone
<1>9. Gone(d, b)'
  <2>1. \A p \in packets : p.id = d => b \notin Bytes(p)
    BY <1>5 DEF Undivided, ApartFromArrived
  <2> QED
    BY <1>1, <1>4, <2>1 DEF Gone
<1>10. DroppedIsBroken'
  <2> SUFFICES ASSUME NEW y \in dropped'
               PROVE  \E c \in 1 .. Size[y.id] : Gone(y.id, c)'
    BY DEF DroppedIsBroken
  <2>1. CASE y.id = d
    BY <1>5, <1>9, <2>1
  <2>2. CASE y \in dropped
    <3>1. PICK c \in 1 .. Size[y.id] : Gone(y.id, c)
      BY <2>2 DEF Undivided, DroppedIsBroken
    <3>2. Gone(y.id, c)'
      BY <1>1, <1>4, <3>1 DEF Gone
    <3> QED
      BY <3>2
  <2> QED
    BY <1>1, <2>1, <2>2
<1>11. FatesApart'
  BY <1>1, <1>2 DEF Undivided, DeliveredIsGone, FatesApart
<1> QED
  BY <1>6, <1>7, <1>8, <1>10, <1>11 DEF Undivided

LEMMA FateNext ==
  ASSUME BufferInv, PiecesInv, FateInv, [Next]_vars
  PROVE  FateInv'
<1> SUFFICES ASSUME duplicates' = 0
             PROVE  Undivided'
  BY DEF FateInv
<1>1. ASSUME NEW d \in Datagrams, Send(d)
      PROVE  Undivided'
  <2>1. Undivided
    BY <1>1 DEF FateInv, Send
  <2> QED
    BY <1>1, <2>1, SendKeepsFate
<1>2. ASSUME NEW p \in packets, NEW new, Taken(p, new)
      PROVE  Undivided
  BY <1>2, TakenAway DEF FateInv
<1>3. ASSUME NEW p \in packets, IpForward(p)
      PROVE  Undivided'
  <2>1. Undivided
    BY <1>2, <1>3 DEF IpForward
  <2> QED
    BY <1>3, <2>1, ForwardKeepsFate
<1>4. ASSUME NEW p \in packets, LocalDeliverWhole(p)
      PROVE  Undivided'
  <2>1. Undivided
    BY <1>2, <1>4 DEF LocalDeliverWhole
  <2> QED
    BY <1>4, <2>1, WholeKeepsFate
<1>5. ASSUME NEW p \in packets, LocalDeliverFragment(p)
      PROVE  Undivided'
  <2>1. Undivided
    BY <1>2, <1>5 DEF LocalDeliverFragment
  <2> QED
    BY <1>5, <2>1, FragmentKeepsFate
<1>6. ASSUME NEW d \in Datagrams, HandleFragmentsTimeout(d)
      PROVE  Undivided'
  <2>1. Undivided
    BY <1>6 DEF FateInv, HandleFragmentsTimeout
  <2> QED
    BY <1>6, <2>1, TimeoutKeepsFate
<1>7. CASE UNCHANGED vars
  <2>1. Undivided
    BY <1>7 DEF FateInv, vars
  <2>2. \A k : Arrived(k)' = Arrived(k)
    BY <1>7 DEF vars, Arrived
  <2>3. \A k, b : Gone(k, b)' <=> Gone(k, b)
    BY <1>7, <2>2 DEF vars, Gone
  <2> QED
    BY <1>7, <2>1, <2>2, <2>3 DEF vars, Undivided, PacketsApart, ApartFromArrived,
      DeliveredIsGone, DroppedIsBroken, FatesApart
<1> QED
  BY <1>1, <1>3, <1>4, <1>5, <1>6, <1>7 DEF Next, Arrive

\* On such links a datagram of which nothing was duplicated is not both
\* delivered and reported as timed out: the timer that fires between two of
\* its fragments takes bytes away that never come again, and the fragment that
\* completes it leaves none to start another timer.
THEOREM OneFateOnly ==
  ASSUME LastFragmentKept
  PROVE  Spec => []OneFate
<1>1. Init => FateInv
  BY DEF Init, FateInv, Undivided, PacketsApart, ApartFromArrived, DeliveredIsGone,
     DroppedIsBroken, FatesApart
<1>2. BufferInv /\ PiecesInv /\ FateInv /\ [Next]_vars => FateInv'
  BY FateNext
<1>3. BufferInv /\ FateInv => OneFate
  <2> SUFFICES ASSUME BufferInv, FateInv, NEW x \in delivered, NEW y \in dropped,
                      x.id = y.id, ~(duplicates > 0)
               PROVE  FALSE
    BY DEF OneFate
  <2>1. duplicates = 0
    BY DatagramAssumption DEF BufferInv, TypeOK
  <2> QED
    BY <2>1 DEF FateInv, Undivided, FatesApart
<1> QED
  BY <1>1, <1>2, <1>3, BufferInvariant, PiecesInvariant, PTL DEF Spec

-----------------------------------------------------------------------------
\* The links of a network that all take the same size leave it alone: the
\* assumption of these theorems is that of one link as much as of many.
THEOREM OneSizeKept ==
  ASSUME NEW m, \A h \in 1 .. Len(Mtu) : Mtu[h] \subseteq {m}
  PROVE  LastFragmentKept
<1> SUFFICES ASSUME NEW d \in Datagrams, NEW h \in 1 .. Len(Mtu), NEW k \in 1 .. Len(Mtu),
                    NEW mtu \in Mtu[h], NEW next \in Mtu[k], Size[d] > mtu
             PROVE  /\ LastStart(d, next) = LastStart(d, mtu)
                    /\ Size[d] - LastStart(d, mtu) <= next
  BY DEF LastFragmentKept
<1>1. next = m /\ mtu = m
  OBVIOUS
<1>2. mtu \in Nat /\ mtu >= Align /\ Size[d] \in Nat
  BY LinksType
<1>3. FragmentSize(mtu) \in Nat /\ FragmentSize(mtu) <= mtu
  BY <1>2, FragmentSizePositive
<1>4. LastStart(d, mtu) \in Nat /\ Size[d] <= LastStart(d, mtu) + FragmentSize(mtu)
  BY <1>2, LastStartFacts
<1> QED
  BY <1>1, <1>2, <1>3, <1>4
=============================================================================
