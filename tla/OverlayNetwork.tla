---------------------------- MODULE OverlayNetwork ----------------------------
(***************************************************************************)
(* The O-ICN overlay: clients query the ICN manager, the manager tells a   *)
(* router that has the content, or else a server, to send it, and every    *)
(* ICN router on the way back runs SublayerProtocol::OICNSublayerCheck on  *)
(* the content packet, which may cache it (CacheManager).                  *)
(*                                                                         *)
(* Packets in flight form a set: the network reorders and, if Lossy, drops *)
(* them.  A request is identified by <<client, position in its list>>.     *)
(* The fields of the messages and the acknowledgements to the manager are  *)
(* the subject of DnsPlusMessages.                                         *)
(***************************************************************************)
EXTENDS CacheManager, Sequences

CONSTANTS
  Clients, Servers, Manager,
  Registered,      \* nameServerTable: the servers of each name
  Wanted,          \* the names each client asks for, in order
  MaxPackets,      \* m_count of each client
  Path,            \* the ICN routers from a source to a client, in order
  NonCachable,     \* m_set_non_cachable of the routers' SublayerProtocol
  ReplyPortBound,  \* external: ConstructPacket's socket obtains port 89
  Stoppable,       \* the applications that may be stopped
  Lossy            \* external: the network may drop packets

VARIABLES
  sent,       \* sent[c]: m_sent, and m_i, of client c
  packets,    \* the packets in flight
  stopped,    \* the applications stopped so far
  crashed,    \* the simulator has dereferenced an end () iterator
  acks,       \* the answers of the manager the clients have logged
  received,   \* the requests whose content a client has recognised
  discarded   \* those whose content a client has dropped as non-cachable

clientLogs == <<acks, received, discarded>>
netVars == <<sent, packets, stopped, crashed, clientLogs>>
vars == <<cmVars, netVars>>

Applications == Clients \cup Servers \cup Routers \cup {Manager}

ASSUME NetworkAssumption ==
  /\ Registered \in [Names -> SUBSET Servers]
  /\ Wanted \in [Clients -> Seq(Names)]
  /\ MaxPackets \in [Clients -> Nat]
  /\ \A c \in Clients : Len(Wanted[c]) >= 1 /\ Len(Wanted[c]) >= MaxPackets[c]
  /\ Path \in [Servers \cup Routers -> [Clients -> Seq(Routers)]]
  /\ {NonCachable, ReplyPortBound, Lossy} \subseteq BOOLEAN
  /\ Stoppable \subseteq Applications
  /\ Servers \cap Routers = {}   \* applications of different types

Requests == UNION {{c} \X (1 .. Len(Wanted[c])) : c \in Clients}
Issued == UNION {{c} \X (1 .. sent[c]) : c \in Clients}
Client(id) == id[1]
Name(id) == Wanted[id[1]][id[2]]

-----------------------------------------------------------------------------
(* Packets. *)

Query(id) == [kind |-> "query", id |-> id]

\* Faulty: the query's own code replaces the 6 or 7.
AckOverwritten(id, rcode) == [kind |-> "ack", id |-> id, rcode |-> 0]

\* The return code as it is on the wire: the 6 or 7 that SendAckToClient
\* sets first stays when it then sets the query's own code, 0.
Ack(id, rcode) == [kind |-> "ack", id |-> id, rcode |-> rcode]

Direction(id, source) == [kind |-> "direction", id |-> id, source |-> source]

\* route: the ICN routers still to pass; storedBy (history): those on the
\* way that have cached the packet.
Content(id, route, fromPort89) ==
  [kind |-> "content", id |-> id, route |-> route, fromPort89 |-> fromPort89,
   cachable |-> TRUE, storedBy |-> {}]

Flying(kind) == {m \in packets : m.kind = kind}

\* The application whose socket the packet is for, once it has arrived.
Addressee(m) ==
  CASE m.kind = "query"     -> {Manager}
    [] m.kind = "ack"       -> {Client(m.id)}
    [] m.kind = "direction" -> {m.source}
    [] m.kind = "content"   -> IF m.route = <<>> THEN {Client(m.id)} ELSE {}

Running(a) == ~crashed /\ a \notin stopped

Replace(m, new) == packets' = (packets \ {m}) \cup new

NetInit ==
  /\ Init
  /\ sent = [c \in Clients |-> 0]
  /\ packets = {} /\ stopped = {} /\ crashed = FALSE
  /\ acks = {} /\ received = {} /\ discarded = {}

-----------------------------------------------------------------------------
(* OicnClient. *)

\* The first packet is scheduled whatever MaxPackets says.
Send(c) ==
  /\ Running(c)
  /\ sent[c] = 0 \/ sent[c] < MaxPackets[c]
  /\ sent' = [sent EXCEPT ![c] = @ + 1]
  /\ packets' = packets \cup {Query(<<c, sent[c] + 1>>)}
  /\ UNCHANGED <<cmVars, stopped, crashed, clientLogs>>

HandleReadIcnManager(m) ==
  /\ m.kind = "ack"
  /\ Running(Client(m.id))
  /\ Replace(m, {})
  /\ acks' = acks \cup {[id |-> m.id, rcode |-> m.rcode]}
  /\ UNCHANGED <<cmVars, sent, stopped, crashed, received, discarded>>

\* Faulty: the test is inverted.
HandleReadSourceInverted(m) ==
  /\ m.kind = "content" /\ m.route = <<>>
  /\ Running(Client(m.id))
  /\ Replace(m, {})
  /\ received' = IF m.cachable THEN received ELSE received \cup {m.id}
  /\ discarded' = IF m.cachable THEN discarded \cup {m.id} ELSE discarded
  /\ UNCHANGED <<cmVars, sent, stopped, crashed, acks>>

\* Only a cachable reply is recognised as content.
HandleReadSource(m) ==
  /\ m.kind = "content" /\ m.route = <<>>
  /\ Running(Client(m.id))
  /\ Replace(m, {})
  /\ received' = IF m.cachable THEN received \cup {m.id} ELSE received
  /\ discarded' = IF m.cachable THEN discarded ELSE discarded \cup {m.id}
  /\ UNCHANGED <<cmVars, sent, stopped, crashed, acks>>

-----------------------------------------------------------------------------
(* IcnManager: a router that has the content is preferred to a server; of  *)
(* several routers or servers the multimap yields any.                     *)

\* Faulty: any server will do.
NameResolutionUnchecked(n) ==
  LET listed == {r \in Routers : cachedRouterTable[n][r] > 0}
  IN  IF listed # {} THEN listed ELSE Servers

\* Faulty: once some router has the content, any router will do.
NameResolutionAnyRouter(n) ==
  LET listed == {r \in Routers : cachedRouterTable[n][r] > 0}
  IN  IF listed # {} THEN Routers ELSE Registered[n]

NameResolution(n) ==
  LET listed == {r \in Routers : cachedRouterTable[n][r] > 0}
  IN  IF listed # {} THEN listed ELSE Registered[n]

\* Faulty: a server is told to send the content even when a router has it.
ReadQueryToBoth(m) ==
  /\ m.kind = "query"
  /\ Running(Manager)
  /\ \/ /\ NameResolution(Name(m.id)) = {}
        /\ Replace(m, {Ack(m.id, 7)})
     \/ \E source \in NameResolution(Name(m.id)) :
          Replace(m, {Ack(m.id, 6)} \cup
                     {Direction(m.id, x) : x \in {source} \cup Registered[Name(m.id)]})
  /\ UNCHANGED <<cmVars, sent, stopped, crashed, clientLogs>>

ReadQuery(m) ==
  /\ m.kind = "query"
  /\ Running(Manager)
  /\ \/ /\ NameResolution(Name(m.id)) = {}
        /\ Replace(m, {Ack(m.id, 7)})
     \/ \E source \in NameResolution(Name(m.id)) :
          Replace(m, {Ack(m.id, 6), Direction(m.id, source)})
  /\ UNCHANGED <<cmVars, sent, stopped, crashed, clientLogs>>

-----------------------------------------------------------------------------
(* The sources. *)

ServerSends(m) ==
  /\ m.kind = "direction" /\ m.source \in Servers
  /\ Running(m.source)
  /\ Replace(m, {Content(m.id, Path[m.source][Client(m.id)], TRUE)})
  /\ UNCHANGED <<cmVars, sent, stopped, crashed, clientLogs>>

RouterSends(m) ==
  /\ m.kind = "direction" /\ m.source \in Routers
  /\ Running(m.source)
  /\ Find(m.source, Name(m.id))
  /\ Replace(m, {Content(m.id, Path[m.source][Client(m.id)], ReplyPortBound)})
  /\ UNCHANGED <<sent, stopped, crashed, clientLogs>>

\* Find of a name that is no longer cached: hit is end (), and reading
\* through it ends the simulation.
FindDereferencesEnd(m) ==
  /\ m.kind = "direction" /\ m.source \in Routers
  /\ Running(m.source)
  /\ Name(m.id) \notin DOMAIN cache[m.source]
  /\ crashed' = TRUE
  /\ UNCHANGED <<cmVars, sent, packets, stopped, clientLogs>>

-----------------------------------------------------------------------------
(* SublayerProtocol on the next router of the route.  The TTL the packet    *)
(* has there depends on legacy routers too and is any of Ttls.              *)

HasSublayer(m) == m.fromPort89 /\ m.cachable

\* Faulty: what has been cached stays cachable.
RouterCachesUnmarked(m) ==
  /\ m.kind = "content" /\ m.route # <<>> /\ HasSublayer(m)
  /\ ~crashed
  /\ \E ttl \in Ttls : EntrySet(Head(m.route), Name(m.id), ttl)
  /\ Replace(m, {[m EXCEPT !.route = Tail(@), !.storedBy = @ \cup {Head(m.route)}]})
  /\ UNCHANGED <<sent, stopped, crashed, clientLogs>>

RouterCaches(m) ==
  /\ m.kind = "content" /\ m.route # <<>> /\ HasSublayer(m)
  /\ ~crashed
  /\ \E ttl \in Ttls : EntrySet(Head(m.route), Name(m.id), ttl)
  /\ Replace(m, {[m EXCEPT !.route = Tail(@), !.cachable = ~NonCachable,
                           !.storedBy = @ \cup {Head(m.route)}]})
  /\ UNCHANGED <<sent, stopped, crashed, clientLogs>>

RouterDeclines(m) ==
  /\ m.kind = "content" /\ m.route # <<>> /\ HasSublayer(m)
  /\ ~crashed
  /\ \E ttl \in Ttls : RefuseEntry(Head(m.route), Name(m.id), ttl)
  /\ Replace(m, {[m EXCEPT !.route = Tail(@)]})
  /\ UNCHANGED <<sent, stopped, crashed, clientLogs>>

RouterForwards(m) ==
  /\ m.kind = "content" /\ m.route # <<>> /\ ~HasSublayer(m)
  /\ ~crashed
  /\ Replace(m, {[m EXCEPT !.route = Tail(@)]})
  /\ UNCHANGED <<cmVars, sent, stopped, crashed, clientLogs>>

-----------------------------------------------------------------------------
(* Stopping applications and losing packets. *)

\* A stopped router application closes its socket; its node goes on
\* forwarding and caching, and stays in the manager's table.
StopApplication(a) ==
  /\ Running(a)
  /\ stopped' = stopped \cup {a}
  /\ UNCHANGED <<cmVars, sent, packets, crashed, clientLogs>>

ReachesClosedSocket(m) ==
  /\ ~crashed
  /\ Addressee(m) \cap stopped # {}
  /\ Replace(m, {})
  /\ UNCHANGED <<cmVars, sent, stopped, crashed, clientLogs>>

Lose(m) ==
  /\ Lossy /\ ~crashed
  /\ Replace(m, {})
  /\ UNCHANGED <<cmVars, sent, stopped, crashed, clientLogs>>

TimePasses == ~crashed /\ Tick /\ UNCHANGED netVars

Deliver(m) ==
  \/ ReadQuery(m)
  \/ HandleReadIcnManager(m) \/ HandleReadSource(m)
  \/ ServerSends(m) \/ RouterSends(m) \/ FindDereferencesEnd(m)
  \/ RouterCaches(m) \/ RouterDeclines(m) \/ RouterForwards(m)
  \/ ReachesClosedSocket(m)

NetNext ==
  \/ \E c \in Clients : Send(c)
  \/ \E m \in packets : Deliver(m) \/ Lose(m)
  \/ \E a \in Stoppable : StopApplication(a)
  \/ TimePasses

NetSpec == NetInit /\ [][NetNext]_vars

\* The event queue of the simulator executes every scheduled event.
Fairness ==
  /\ \A c \in Clients : WF_vars(Send(c))
  /\ WF_vars(\E m \in packets : Deliver(m))

FairNetSpec == NetSpec /\ Fairness

-----------------------------------------------------------------------------
PacketOK(m) ==
  /\ m.id \in Issued
  /\ \/ m = Query(m.id)
     \/ m.kind = "ack" /\ m = Ack(m.id, m.rcode) /\ m.rcode \in {6, 7}
     \/ m.kind = "direction" /\ m = Direction(m.id, m.source)
                             /\ m.source \in Servers \cup Routers
     \/ m \in [kind : {"content"}, id : Issued, route : Seq(Routers),
               fromPort89 : BOOLEAN, cachable : BOOLEAN, storedBy : SUBSET Routers]

(* Every packet in flight is well formed and belongs to a request that has *)
(* been issued, and so does every line of the clients' logs.               *)
NetTypeOK ==
  /\ TypeOK
  /\ sent \in [Clients -> Nat]
  /\ \A m \in packets : PacketOK(m)
  /\ stopped \subseteq Applications
  /\ crashed \in BOOLEAN
  /\ acks \subseteq [id : Issued, rcode : {6, 7}]
  /\ received \cup discarded \subseteq Issued

Carriers(id) == {m \in packets : m.id = id /\ m.kind # "ack"}

Nacked(id) == [id |-> id, rcode |-> 7] \in acks \/ Ack(id, 7) \in packets

Places(id) ==
  Cardinality(Carriers(id))
    + (IF Nacked(id) THEN 1 ELSE 0)
    + (IF id \in received THEN 1 ELSE 0)
    + (IF id \in discarded THEN 1 ELSE 0)

\* A request is in one place: on its way as a query, as a direction to a
\* source, as content or as a NACK, or, once, in the log of its client.  No
\* two sources answer it, no late content follows a NACK, and unless the
\* network or a closed socket swallows it, it is never lost from sight.
RequestInOnePlace ==
  \A id \in Issued :
    /\ Places(id) <= 1
    /\ ~Lossy /\ Stoppable = {} => Places(id) = 1

\* The manager sends ACK exactly for the names that some server provides:
\* nothing is cached anywhere that no server has, so the table of cached
\* contents cannot turn a NACK into an ACK.
AckTellsTruth ==
  \A a \in acks : a.rcode = (IF Registered[Name(a.id)] # {} THEN 6 ELSE 7)

\* Where the routers mark what they have cached as non-cachable, a content
\* packet is stored at one router at most on its way to the client.
OneCopyPerReply ==
  NonCachable => \A m \in Flying("content") : Cardinality(m.storedBy) <= 1

\* What a router has been directed to send it still has when the direction
\* arrives, however late, unless its store is full: the manager lists only
\* what is stored, and only a full store ever gives a content up.  So a
\* look-up that finds nothing needs a store at its limit.
AstrayOnlyByEviction ==
  /\ \A m \in Flying("direction") :
       (m.source \in Routers /\ Name(m.id) \notin DOMAIN cache[m.source])
         => IsFull(cache[m.source])
  /\ crashed => \E r \in Routers : IsFull(cache[r])

\* Whatever is lost, reordered or stopped, the overlay does to the stores
\* and the directory only what CacheManager allows, so what is proved of the
\* stores there holds here.
ImplementsStores == Spec

(* What becomes of requests implements RequestService.                     *)

\* What settles a request, or leads to it, is on its way.
InFlight(id) ==
  \E m \in packets : m.id = id /\ (m.kind = "ack" => m.rcode = 7)

RequestStatus(id) ==
  IF id[2] > sent[Client(id)] THEN "unsent"
  ELSE IF InFlight(id) THEN "pending"
  ELSE IF id \in received THEN "received"
  ELSE IF id \in discarded THEN "discarded"
  ELSE IF [id |-> id, rcode |-> 7] \in acks THEN "denied"
  ELSE "lost"

Service == INSTANCE RequestService WITH
             Provided <- {id \in Requests : Registered[Name(id)] # {}},
             Marking <- NonCachable,
             MayLose <- Lossy \/ Stoppable # {},
             status <- [id \in Requests |-> RequestStatus(id)]

\* For its clients the overlay is a service that settles each request once:
\* whatever is cached or evicted where, a request for what some server
\* provides is never denied, one for anything else is never served, a
\* settled request has no message left that could settle it again, content
\* is dropped only where routers mark it, and a request is lost only where
\* the network loses packets or applications stop.
ImplementsService == Service!Spec

\* A router is asked only for contents it still has.
NoDanglingFind == ~crashed

\* Every request a client issues is eventually answered: its content is
\* recognised by the client, or the client logs a NACK.
EveryRequestAnswered ==
  \A id \in Requests :
    id \in Issued ~> (id \in received \/ [id |-> id, rcode |-> 7] \in acks)
=============================================================================
