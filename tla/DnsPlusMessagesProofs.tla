------------------------- MODULE DnsPlusMessagesProofs -------------------------
(***************************************************************************)
(* Theorems about DnsPlusMessages, for any requests and locations.  The    *)
(* inductive invariant says which messages there are, down to the flags    *)
(* word: that of a message is computed from the word of the one before it, *)
(* so it is known for all of them once it is known for the query.          *)
(***************************************************************************)
EXTENDS DnsPlusMessages, TLAPS

-----------------------------------------------------------------------------
(* The words. *)

\* Word h has these codes, and no other bit is set.
IsWord(h, qr, opcode, rcode) ==
  /\ h.QR = qr /\ h.OPCODE = opcode /\ h.RCODE = rcode
  /\ h.AA = 0 /\ h.TC = 0 /\ h.RD = 0 /\ h.RA = 0 /\ h.Z = 0

\* What a field of a word is: what SMT needs to compute the words below.
LEMMA FieldsOf ==
  ASSUME NEW word
  PROVE  /\ Deserialize(word).QR = (word \div 32768) % 2
         /\ Deserialize(word).OPCODE = (word \div 2048) % 16
         /\ Deserialize(word).AA = (word \div 1024) % 2
         /\ Deserialize(word).TC = (word \div 512) % 2
         /\ Deserialize(word).RD = (word \div 256) % 2
         /\ Deserialize(word).RA = (word \div 128) % 2
         /\ Deserialize(word).Z = (word \div 16) % 8
         /\ Deserialize(word).RCODE = (word \div 1) % 16
BY DEF Deserialize, Field

\* What the receivers read in the words of the six messages.
LEMMA Words ==
  /\ IsWord(Deserialize(22528), 0, 11, 0)
  /\ IsWord(Deserialize(24582), 0, 12, 6)
  /\ IsWord(Deserialize(24583), 0, 12, 7)
  /\ IsWord(Deserialize(59392), 1, 13, 0)
  /\ IsWord(Deserialize(61440), 1, 14, 0)
  /\ IsWord(Deserialize(63488), 1, 15, 0)
<1>1. IsWord(Deserialize(22528), 0, 11, 0)
  BY FieldsOf DEF IsWord
<1>2. IsWord(Deserialize(24582), 0, 12, 6)
  BY FieldsOf DEF IsWord
<1>3. IsWord(Deserialize(24583), 0, 12, 7)
  BY FieldsOf DEF IsWord
<1>4. IsWord(Deserialize(59392), 1, 13, 0)
  BY FieldsOf DEF IsWord
<1>5. IsWord(Deserialize(61440), 1, 14, 0)
  BY FieldsOf DEF IsWord
<1>6. IsWord(Deserialize(63488), 1, 15, 0)
  BY FieldsOf DEF IsWord
<1> QED
  BY <1>1, <1>2, <1>3, <1>4, <1>5, <1>6

\* The words that are built, from a word without other bits.
LEMMA Sums ==
  ASSUME NEW h, h.AA = 0, h.TC = 0, h.RD = 0, h.RA = 0, h.Z = 0, h.RCODE = 0
  PROVE  /\ (QR(0) + OPCODE(11) + TC(0) + RD(0)) % 65536 = 22528
         /\ (QR(0) + OPCODE(12) + RCODE(6) + Copied(h) + RCODE(h.RCODE)) % 65536 = 24582
         /\ (QR(0) + OPCODE(12) + RCODE(7) + Copied(h) + RCODE(h.RCODE)) % 65536 = 24583
         /\ (QR(1) + OPCODE(13) + Copied(h) + RCODE(0)) % 65536 = 59392
         /\ (QR(1) + OPCODE(14) + Copied(h) + RCODE(h.RCODE)) % 65536 = 61440
         /\ (QR(1) + OPCODE(15) + Copied(h) + RCODE(h.RCODE)) % 65536 = 63488
<1>1. Copied(h) = 0
  BY DEF Copied, AA, TC, RD, RA, Z
<1> QED
  BY <1>1 DEF QR, OPCODE, RCODE, TC, RD

LEMMA MessageFields ==
  ASSUME NEW id, NEW to, NEW oicn, NEW flags, NEW qd, NEW an, NEW body
  PROVE  /\ Message(id, to, oicn, flags, qd, an, body).id = id
         /\ Message(id, to, oicn, flags, qd, an, body).to = to
         /\ Message(id, to, oicn, flags, qd, an, body).oicn = oicn
         /\ Message(id, to, oicn, flags, qd, an, body).flags = flags % 65536
         /\ Message(id, to, oicn, flags, qd, an, body).qd = qd
         /\ Message(id, to, oicn, flags, qd, an, body).an = an
BY DEF Message, WordRange

-----------------------------------------------------------------------------
(* The messages there are. *)

Found(id) == Location[id] # "nowhere"

\* All of them carry the sublayer of the query.
SameSublayer(p) == p.oicn = "non_cachable"

IsQuery(p) == p.to = "manager" /\ p.flags = 22528 /\ p.qd = 1 /\ p.an = 0

IsAck(p) ==
  /\ p.to = "client" /\ p.qd = 1 /\ p.an = 0
  /\ p.flags = IF Found(p.id) THEN 24582 ELSE 24583

IsDirection(p) ==
  /\ Found(p.id)
  /\ p.to = Location[p.id] /\ p.flags = 59392 /\ p.qd = 1 /\ p.an = 1

IsSourceAck(p) ==
  /\ Found(p.id)
  /\ p.to = "source_socket" /\ p.qd = 1 /\ p.an = 0
  /\ p.flags = IF Location[p.id] = "server" THEN 61440 ELSE 63488

\* The messages as the nodes build them, from the word they have read.
LEMMA QueryBuilt ==
  ASSUME NEW id, NEW h, IsWord(h, 0, 11, 0)
  PROVE  IsQuery(ClientQuery(id)) /\ ClientQuery(id).id = id /\ SameSublayer(ClientQuery(id))
BY MessageFields, Sums DEF ClientQuery, IsQuery, IsWord, SameSublayer, ConstructSublayer,
                           SetFirst4Bytes

LEMMA AckBuilt ==
  ASSUME NEW id, NEW oicn, NEW h, IsWord(h, 0, 11, 0)
  PROVE  /\ IsAck(AckToClient(id, oicn, h, 1, 0, Location[id] # "nowhere"))
         /\ AckToClient(id, oicn, h, 1, 0, Location[id] # "nowhere").id = id
         /\ AckToClient(id, oicn, h, 1, 0, Location[id] # "nowhere").oicn = oicn
<1> DEFINE ack == AckToClient(id, oicn, h, 1, 0, Location[id] # "nowhere")
<1>1. ack.id = id /\ ack.oicn = oicn /\ ack.to = "client" /\ ack.qd = 1 /\ ack.an = 0
  BY MessageFields DEF AckToClient
<1>2. ASSUME Found(id)
      PROVE  IsAck(ack)
  <2>1. ack.flags = (QR(0) + OPCODE(12) + RCODE(6) + Copied(h) + RCODE(h.RCODE)) % 65536
    BY <1>2, MessageFields DEF AckToClient, Found
  <2>2. ack.flags = 24582
    BY <2>1, Sums DEF IsWord
  <2> HIDE DEF ack
  <2> QED
    BY <1>1, <1>2, <2>2 DEF IsAck
<1>3. ASSUME ~Found(id)
      PROVE  IsAck(ack)
  <2>1. ack.flags = (QR(0) + OPCODE(12) + RCODE(7) + Copied(h) + RCODE(h.RCODE)) % 65536
    BY <1>3, MessageFields DEF AckToClient, Found
  <2>2. ack.flags = 24583
    BY <2>1, Sums DEF IsWord
  <2> HIDE DEF ack
  <2> QED
    BY <1>1, <1>3, <2>2 DEF IsAck
<1> QED
  BY <1>1, <1>2, <1>3

LEMMA DirectionBuilt ==
  ASSUME NEW id, Found(id), NEW oicn, NEW h, IsWord(h, 0, 11, 0)
  PROVE  /\ IsDirection(DirectionToSource(id, oicn, h, 1))
         /\ DirectionToSource(id, oicn, h, 1).id = id
         /\ DirectionToSource(id, oicn, h, 1).oicn = oicn
BY MessageFields, Sums DEF DirectionToSource, IsDirection, IsWord

LEMMA SourceAckBuilt ==
  ASSUME NEW id, Found(id), NEW oicn, NEW h, IsWord(h, 1, 13, 0)
  PROVE  /\ IsSourceAck(SourceAck(id, oicn, Location[id], h, 1))
         /\ SourceAck(id, oicn, Location[id], h, 1).id = id
         /\ SourceAck(id, oicn, Location[id], h, 1).oicn = oicn
<1> DEFINE ack == SourceAck(id, oicn, Location[id], h, 1)
<1>1. ack.id = id /\ ack.oicn = oicn /\ ack.to = "source_socket" /\ ack.qd = 1 /\ ack.an = 0
  BY MessageFields DEF SourceAck
<1>2. ASSUME Location[id] = "server"
      PROVE  IsSourceAck(ack)
  <2>1. ack.flags = (QR(1) + OPCODE(14) + Copied(h) + RCODE(h.RCODE)) % 65536
    BY <1>2, MessageFields DEF SourceAck
  <2>2. ack.flags = 61440
    BY <2>1, Sums DEF IsWord
  <2> HIDE DEF ack
  <2> QED
    BY <1>1, <1>2, <2>2 DEF IsSourceAck
<1>3. ASSUME Location[id] # "server"
      PROVE  IsSourceAck(ack)
  <2>1. ack.flags = (QR(1) + OPCODE(15) + Copied(h) + RCODE(h.RCODE)) % 65536
    BY <1>3, MessageFields DEF SourceAck
  <2>2. ack.flags = 63488
    BY <2>1, Sums DEF IsWord
  <2> HIDE DEF ack
  <2> QED
    BY <1>1, <1>3, <2>2 DEF IsSourceAck
<1> QED
  BY <1>1, <1>2, <1>3

-----------------------------------------------------------------------------
(* The invariant. *)

IsOneOf(p) ==
  /\ p.id \in sent /\ SameSublayer(p)
  /\ IsQuery(p) \/ IsAck(p) \/ IsDirection(p) \/ IsSourceAck(p)

MessageInv ==
  /\ sent \subseteq Requests
  /\ \A p \in packets : IsOneOf(p)
  /\ \A l \in logs : l.id \in sent
  /\ LogsTellTruth

\* Replacing a message by others, and writing one line.
LEMMA StepKeeps ==
  ASSUME MessageInv, NEW p \in packets, NEW new, Replace(p, new), sent' = sent,
         \A q \in new : IsOneOf(q),
         NEW who, NEW what, Log(who, what, p.id),
         /\ what = "ACK" => Found(p.id)
         /\ what = "NACK" => ~Found(p.id)
         /\ what \in {"router", "server", "direction"} =>
              who \in {"manager", Location[p.id]}
              /\ what \in {Location[p.id], "direction"}
  PROVE  MessageInv'
<1>1. \A q \in packets' : IsOneOf(q)'
  BY DEF MessageInv, Replace, IsOneOf
<1>2. \A l \in logs' : l \in logs \/ l = [who |-> who, what |-> what, id |-> p.id]
  BY DEF Log
<1>3. LogsTellTruth'
  BY <1>2 DEF MessageInv, LogsTellTruth, Found
<1>4. \A l \in logs' : l.id \in sent'
  BY <1>2 DEF MessageInv, IsOneOf
<1> QED
  BY <1>1, <1>3, <1>4 DEF MessageInv

\* Which message a receiver has understood.
LEMMA WhatIsUnderstood ==
  ASSUME MessageInv, NEW p \in packets
  PROVE  /\ UnderstandsQuery(p) => IsQuery(p)
         /\ UnderstandsAck(p) => IsAck(p)
         /\ UnderstandsDirection(p) => IsDirection(p)
         /\ UnderstandsSourceAck(p) => IsSourceAck(p)
<1>1. IsOneOf(p) /\ p.id \in Requests
  BY DEF MessageInv, IsOneOf
<1>2. Found(p.id) => Location[p.id] \in {"router", "server"}
  BY <1>1, RequestAssumption DEF Found
<1>3. /\ IsQuery(p) => p.to = "manager"
      /\ IsAck(p) => p.to = "client"
      /\ IsDirection(p) => p.to \in {"server", "router"}
      /\ IsSourceAck(p) => p.to = "source_socket"
  BY <1>2 DEF IsQuery, IsAck, IsDirection, IsSourceAck
<1>4. /\ UnderstandsQuery(p) => p.to = "manager"
      /\ UnderstandsAck(p) => p.to = "client"
      /\ UnderstandsDirection(p) => p.to \in {"server", "router"}
      /\ UnderstandsSourceAck(p) => p.to = "source_socket"
  BY Zenon DEF UnderstandsQuery, UnderstandsAck, UnderstandsDirection,
               UnderstandsSourceAck
<1> QED
  BY <1>1, <1>3, <1>4 DEF IsOneOf

\* Every step keeps the invariant.
LEMMA MessageNext ==
  ASSUME MessageInv, [Next]_vars
  PROVE  MessageInv'
<1>0. ASSUME NEW p \in packets
      PROVE  p.id \in sent /\ p.id \in Requests
             /\ Location[p.id] \in {"router", "server", "nowhere"}
  BY <1>0, RequestAssumption DEF MessageInv, IsOneOf
<1>1. ASSUME NEW id \in Requests, Send(id)
      PROVE  MessageInv'
  <2>1. sent' = sent \cup {id} /\ packets' = packets \cup {ClientQuery(id)} /\ logs' = logs
    BY <1>1 DEF Send
  <2>2. IsQuery(ClientQuery(id)) /\ ClientQuery(id).id = id /\ SameSublayer(ClientQuery(id))
    BY Words, QueryBuilt
  <2>3. \A q \in packets' : IsOneOf(q)'
    BY <2>1, <2>2 DEF MessageInv, IsOneOf
  <2> QED
    BY <2>1, <2>3 DEF MessageInv, LogsTellTruth
<1>2. ASSUME NEW p \in packets, ManagerReads(p)
      PROVE  MessageInv'
  <2>1. IsQuery(p)
    BY <1>2, WhatIsUnderstood DEF ManagerReads
  <2>2. IsWord(Fields(p), 0, 11, 0) /\ p.qd = 1 /\ p.an = 0
    BY <2>1, Words DEF Fields, IsQuery
  <2> DEFINE ack       == AckToClient(p.id, p.oicn, Fields(p), 1, 0, Location[p.id] # "nowhere")
             direction == DirectionToSource(p.id, p.oicn, Fields(p), 1)
             new       == {ack} \cup (IF Location[p.id] # "nowhere" THEN {direction}
                                      ELSE {})
  <2>3. Replace(p, new)
    BY <1>2, <2>2, Zenon DEF ManagerReads
  <2>4. IsAck(ack) /\ ack.id = p.id /\ ack.oicn = p.oicn
    BY <2>2, AckBuilt
  <2>5. Found(p.id) => /\ IsDirection(direction) /\ direction.id = p.id
                       /\ direction.oicn = p.oicn
    BY <2>2, DirectionBuilt
  <2>6. Log("manager", "query", p.id) /\ sent' = sent
    BY <1>2 DEF ManagerReads
  <2> HIDE DEF ack, direction
  <2>7. \A q \in new : IsOneOf(q)
    BY <1>0, <2>4, <2>5 DEF MessageInv, IsOneOf, Found, SameSublayer
  <2> HIDE DEF new
  <2> QED
    BY <2>3, <2>6, <2>7, StepKeeps
<1>3. ASSUME NEW p \in packets, ClientReads(p)
      PROVE  MessageInv'
  <2>1. IsAck(p)
    BY <1>3, WhatIsUnderstood DEF ClientReads
  <2>2. Fields(p).RCODE = 6 <=> Found(p.id)
    BY <2>1, Words DEF Fields, IsAck, IsWord
  <2>3. /\ Log("client", IF Fields(p).RCODE = 6 THEN "ACK" ELSE "NACK", p.id)
        /\ Replace(p, {}) /\ sent' = sent
    BY <1>3 DEF ClientReads
  <2> QED
    BY <2>2, <2>3, StepKeeps
<1>4. ASSUME NEW p \in packets, SourceReads(p)
      PROVE  MessageInv'
  <2>1. IsDirection(p)
    BY <1>4, WhatIsUnderstood DEF SourceReads
  <2>2. IsWord(Fields(p), 1, 13, 0) /\ p.to = Location[p.id] /\ p.qd = 1 /\ Found(p.id)
    BY <2>1, Words DEF Fields, IsDirection
  <2> DEFINE ack == SourceAck(p.id, p.oicn, Location[p.id], Fields(p), 1)
  <2>3. Replace(p, {ack}) /\ Log(Location[p.id], "direction", p.id) /\ sent' = sent
    BY <1>4, <2>2, Zenon DEF SourceReads
  <2>4. IsSourceAck(ack) /\ ack.id = p.id /\ ack.oicn = p.oicn
    BY <2>2, SourceAckBuilt
  <2> HIDE DEF ack
  <2>5. IsOneOf(ack)
    BY <1>0, <2>4 DEF MessageInv, IsOneOf, SameSublayer
  <2> QED
    BY <2>3, <2>5, StepKeeps
<1>5. ASSUME NEW p \in packets, ManagerReadsSource(p)
      PROVE  MessageInv'
  <2>1. IsSourceAck(p)
    BY <1>5, WhatIsUnderstood DEF ManagerReadsSource
  <2>2. Location[p.id] \in {"router", "server"}
    BY <1>0, <2>1 DEF Found, IsSourceAck
  <2>3. (IF Fields(p).OPCODE = 14 THEN "server" ELSE "router") = Location[p.id]
    BY <2>1, <2>2, Words DEF Fields, IsSourceAck, IsWord
  <2>4. Log("manager", Location[p.id], p.id) /\ Replace(p, {}) /\ sent' = sent
    BY <1>5, <2>3 DEF ManagerReadsSource
  <2> QED
    BY <2>2, <2>4, StepKeeps
<1>6. CASE UNCHANGED vars
  BY <1>6 DEF vars, MessageInv, IsOneOf, LogsTellTruth
<1> QED
  BY <1>1, <1>2, <1>3, <1>4, <1>5, <1>6 DEF Next, Receive

\* The invariant holds throughout.
THEOREM MessageInvariant == Spec => []MessageInv
<1>1. Init => MessageInv
  BY DEF Init, MessageInv, LogsTellTruth
<1>2. MessageInv /\ [Next]_vars => MessageInv'
  BY MessageNext
<1> QED
  BY <1>1, <1>2, PTL DEF Spec

\* No message is taken for another one, and what it says is so: the bits set
\* twice in the words of the answers never change what is read from them.
THEOREM LogsCorrect == Spec => []LogsTellTruth
<1>1. MessageInv => LogsTellTruth
  BY DEF MessageInv
<1> QED
  BY <1>1, MessageInvariant, PTL

\* No acknowledgement of a source is taken for a content on its way.
THEOREM MessagesNotCached == Spec => []NoMessageCached
<1>1. MessageInv => NoMessageCached
  BY DEF MessageInv, NoMessageCached, TakenForContent, IsOneOf, SameSublayer
<1> QED
  BY <1>1, MessageInvariant, PTL

\* Packets and logs are well formed and about requests that were sent.
THEOREM MessageTypeCorrect == Spec => []TypeOK
<1>1. MessageInv => TypeOK
  <2> SUFFICES ASSUME MessageInv, NEW p \in packets
               PROVE  IsMessage(p)
    BY DEF MessageInv, TypeOK
  <2>1. IsOneOf(p) /\ p.id \in Requests
    BY DEF MessageInv, IsOneOf
  <2>2. Found(p.id) => Location[p.id] \in {"router", "server"}
    BY <2>1, RequestAssumption DEF Found
  <2>3. p.to \in {"manager", "client", "server", "router", "source_socket"}
    BY <2>1, <2>2 DEF IsOneOf, IsQuery, IsAck, IsDirection, IsSourceAck
  <2>4. p.flags \in {22528, 24582, 24583, 59392, 61440, 63488}
    BY <2>1 DEF IsOneOf, IsQuery, IsAck, IsDirection, IsSourceAck
  <2>5. p.qd \in {1} /\ p.an \in {0, 1}
    BY <2>1 DEF IsOneOf, IsQuery, IsAck, IsDirection, IsSourceAck
  <2>6. p.flags \in 0 .. WordRange - 1
    <3>1. p.flags \in Nat /\ p.flags <= 65535
      BY <2>4, SMTT(30)
    <3>2. WordRange - 1 = 65535
      BY DEF WordRange
    <3> QED
      BY <3>1, <3>2
  <2> QED
    BY <2>1, <2>3, <2>5, <2>6 DEF IsOneOf, IsMessage, SameSublayer
<1> QED
  BY <1>1, MessageInvariant, PTL
=============================================================================
