--------------------------- MODULE DnsPlusMessages ---------------------------
(***************************************************************************)
(* The headers DnsPlusHeader and OicnHeader, and the five messages that a  *)
(* request is resolved with.  Every node reads the flags word of what it   *)
(* receives and builds the flags word of what it sends by adding shifted   *)
(* fields to it; which message a packet is, is only in that word.          *)
(*                                                                         *)
(* OverlayNetwork takes these messages for granted (its Query, Ack and     *)
(* Direction) and has the stores, the clients' logs and the losses; here   *)
(* are the bits.  The network delivers in any order.                       *)
(***************************************************************************)
EXTENDS Integers, Sequences, SequencesExt

CONSTANTS
  Requests,   \* the queries that are sent
  Location    \* Location[id]: what the manager finds for a query

WordRange == 65536

ASSUME RequestAssumption ==
  Location \in [Requests -> {"router", "server", "nowhere"}]

VARIABLES
  sent,     \* the requests issued
  packets,  \* the packets in flight, and those a receiver has dropped
  logs      \* what the receivers have understood

vars == <<sent, packets, logs>>

Init == sent = {} /\ packets = {} /\ logs = {}

-----------------------------------------------------------------------------
(* DnsPlusHeader: the word is what the setters have added up, 32 bits of   *)
(* which Serialize writes 16.                                              *)

QR(v) == v * 32768
OPCODE(v) == v * 2048
AA(v) == v * 1024
TC(v) == v * 512
RD(v) == v * 256
RA(v) == v * 128
Z(v) == v * 16
RCODE(v) == v

Field(word, weight, width) == (word \div weight) % width

Deserialize(word) ==
  [QR |-> Field(word, 32768, 2), OPCODE |-> Field(word, 2048, 16),
   AA |-> Field(word, 1024, 2),  TC |-> Field(word, 512, 2),
   RD |-> Field(word, 256, 2),   RA |-> Field(word, 128, 2),
   Z |-> Field(word, 16, 8),     RCODE |-> Field(word, 1, 16)]

\* oicn: what OicnHeader's first word says besides its length.
\* body: the sections behind the headers, the one added last in front.
Message(id, to, oicn, flags, qd, an, body) ==
  [id |-> id, to |-> to, oicn |-> oicn, flags |-> flags % WordRange,
   qd |-> qd, an |-> an, body |-> body]

(* OicnHeader: unlike those of DnsPlusHeader, its setters assign.          *)

SetFirst4Bytes(reply, cachable) ==
  IF ~reply THEN "request" ELSE IF cachable THEN "cachable" ELSE "non_cachable"

\* Faulty: marks the query as the servers mark contents.
ConstructSublayerCachable == SetFirst4Bytes(TRUE, TRUE)

\* SetRequest, and then SetNonCachable: the latter is what stays.
ConstructSublayer == SetFirst4Bytes(TRUE, FALSE)

-----------------------------------------------------------------------------
(* What is built from the fields h of the message that is answered.  TC is *)
(* added twice and, in an ACK, so is RCODE: to the code set first comes    *)
(* that of the query.                                                      *)

Copied(h) == TC(h.TC) + AA(h.AA) + TC(h.TC) + RD(h.RD) + RA(h.RA) + Z(h.Z)

ClientQuery(id) ==
  Message(id, "manager", ConstructSublayer, QR(0) + OPCODE(11) + TC(0) + RD(0), 1, 0,
          <<"question">>)

\* Faulty: the query's opcode and code are added once more.
AckToClientOnQuery(id, oicn, h, qd, an, flag) ==
  Message(id, "client", oicn,
          QR(0) + OPCODE(12) + RCODE(IF flag THEN 6 ELSE 7) + Copied(h)
            + OPCODE(h.OPCODE), qd, an, <<"question">>)

AckToClient(id, oicn, h, qd, an, flag) ==
  Message(id, "client", oicn,
          QR(0) + OPCODE(12) + RCODE(IF flag THEN 6 ELSE 7) + Copied(h)
            + RCODE(h.RCODE), qd, an, <<"question">>)

DirectionToSource(id, oicn, h, qd) ==
  Message(id, Location[id], oicn, QR(1) + OPCODE(13) + Copied(h) + RCODE(0), qd, 1,
          <<"question", "answer">>)

SourceAck(id, oicn, source, h, qd) ==
  Message(id, "source_socket", oicn,
          QR(1) + OPCODE(IF source = "server" THEN 14 ELSE 15) + Copied(h)
            + RCODE(h.RCODE), qd, 0, <<"question">>)

-----------------------------------------------------------------------------
(* The receivers.  Each tests QR, then OPCODE, then reads its sections;    *)
(* what fails a test is dropped, which here is to stay in packets for good. *)

Fields(p) == Deserialize(p.flags)

\* RemoveHeader of what is at the front, for every section counted.
HasSections(p, sections) == IsPrefix(sections, p.body)

Questions(p) == [i \in 1 .. p.qd |-> "question"]

Log(who, what, id) == logs' = logs \cup {[who |-> who, what |-> what, id |-> id]}

Replace(p, new) == packets' = (packets \ {p}) \cup new

Send(id) ==
  /\ id \notin sent
  /\ sent' = sent \cup {id}
  /\ packets' = packets \cup {ClientQuery(id)}
  /\ UNCHANGED logs

\* IcnManager::ReadPacket, on the socket of the clients
UnderstandsQuery(p) ==
  /\ p.to = "manager"
  /\ Fields(p).QR = 0 /\ Fields(p).OPCODE = 11
  /\ p.qd > 0 /\ HasSections(p, Questions(p))

ManagerReads(p) ==
  /\ UnderstandsQuery(p)
  /\ LET h == Fields(p)
         found == Location[p.id] # "nowhere"
     IN  Replace(p, {AckToClient(p.id, p.oicn, h, p.qd, p.an, found)} \cup
                    (IF found THEN {DirectionToSource(p.id, p.oicn, h, p.qd)} ELSE {}))
  /\ Log("manager", "query", p.id)
  /\ UNCHANGED sent

\* OicnClient::HandleReadIcnManager
UnderstandsAck(p) ==
  /\ p.to = "client"
  /\ Fields(p).QR = 0 /\ Fields(p).OPCODE = 12
  /\ p.qd > 0 /\ HasSections(p, Questions(p))
  /\ Fields(p).RCODE \in {6, 7}

ClientReads(p) ==
  /\ UnderstandsAck(p)
  /\ Replace(p, {})
  /\ Log("client", IF Fields(p).RCODE = 6 THEN "ACK" ELSE "NACK", p.id)
  /\ UNCHANGED sent

\* OicnServer::ReadPacket and IcnRouter::ReadPacket
UnderstandsDirection(p) ==
  /\ p.to \in {"server", "router"}
  /\ Fields(p).QR = 1 /\ Fields(p).OPCODE = 13
  /\ p.an > 0 /\ HasSections(p, <<"question", "answer">>)

SourceReads(p) ==
  /\ UnderstandsDirection(p)
  /\ Replace(p, {SourceAck(p.id, p.oicn, p.to, Fields(p), p.qd)})
  /\ Log(p.to, "direction", p.id)
  /\ UNCHANGED sent

\* IcnManager::HandleReadSource
UnderstandsSourceAck(p) ==
  /\ p.to = "source_socket"
  /\ Fields(p).QR = 1 /\ Fields(p).OPCODE \in {14, 15}
  /\ p.qd > 0 /\ HasSections(p, Questions(p))

\* Faulty: the opcodes of the two sources are taken for each other.
ManagerReadsSourceSwapped(p) ==
  /\ UnderstandsSourceAck(p)
  /\ Replace(p, {})
  /\ Log("manager", IF Fields(p).OPCODE = 15 THEN "server" ELSE "router", p.id)
  /\ UNCHANGED sent

ManagerReadsSource(p) ==
  /\ UnderstandsSourceAck(p)
  /\ Replace(p, {})
  /\ Log("manager", IF Fields(p).OPCODE = 14 THEN "server" ELSE "router", p.id)
  /\ UNCHANGED sent

Receive(p) ==
  ManagerReads(p) \/ ClientReads(p) \/ SourceReads(p) \/ ManagerReadsSource(p)

Next ==
  \/ \E id \in Requests : Send(id)
  \/ \E p \in packets : Receive(p)

Spec == Init /\ [][Next]_vars

\* Every packet that is in flight is received.
Fairness ==
  /\ \A id \in Requests : WF_vars(Send(id))
  /\ WF_vars(\E p \in packets : Receive(p))

FairSpec == Spec /\ Fairness

-----------------------------------------------------------------------------
IsMessage(p) ==
  /\ p.id \in sent
  /\ p.to \in {"manager", "client", "server", "router", "source_socket"}
  /\ p.oicn \in {"request", "cachable", "non_cachable"}
  /\ p.flags \in 0 .. WordRange - 1
  /\ p.qd \in Nat /\ p.an \in Nat

(* Packets belong to requests that were sent, and so does what is logged.  *)
TypeOK ==
  /\ sent \subseteq Requests
  /\ \A p \in packets : IsMessage(p)
  /\ \A l \in logs : l.id \in sent

\* Nobody takes a message for another one: a client reads ACK in the flags
\* exactly if the manager has found its content, although the ACK's word is
\* a sum of fields set twice; and the manager reads from the opcode of a
\* source's acknowledgement what kind of source it was.
LogsTellTruth ==
  \A l \in logs :
    /\ l.what = "ACK" => Location[l.id] # "nowhere"
    /\ l.what = "NACK" => Location[l.id] = "nowhere"
    /\ l.what \in {"router", "server", "direction"} =>
         l.who \in {"manager", Location[l.id]} /\ l.what \in {Location[l.id], "direction"}

\* HasSublayer of a router on the way: the sources' acknowledgements come
\* from port 89, as contents do.
TakenForContent(p) == p.to = "source_socket" /\ p.oicn = "cachable"

\* The sublayer of the query is copied from message to message, and at last
\* into the acknowledgement that a source sends from the port that contents
\* come from: no router on the way caches it under the name of the content.
NoMessageCached == \A p \in packets : ~TakenForContent(p)

Logged(who, what, id) == [who |-> who, what |-> what, id |-> id] \in logs

\* No message of the exchange is dropped for its format: the client gets its
\* answer and, if there is a source, the manager gets the source's.
EveryRequestResolved ==
  \A id \in Requests :
    id \in sent ~> IF Location[id] = "nowhere" THEN Logged("client", "NACK", id)
                  ELSE /\ Logged("client", "ACK", id)
                       /\ Logged("manager", Location[id], id)
=============================================================================
