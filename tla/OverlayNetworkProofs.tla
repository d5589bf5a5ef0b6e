-------------------------- MODULE OverlayNetworkProofs --------------------------
(***************************************************************************)
(* Theorems about OverlayNetwork, for any clients, servers, routers, paths *)
(* and settings, with or without losses.                                   *)
(*                                                                         *)
(* What the overlay does to the stores is what CacheManager allows: a      *)
(* router that answers still has the content, and DirectoryMirrorsCaches   *)
(* says that the manager then still lists it.  The return codes are right  *)
(* because no content is on its way, and so none cached, that no server    *)
(* provides; that a reply is stored once because what is stored is no      *)
(* longer cachable.  The inductive invariant says so of every packet.      *)
(*                                                                         *)
(* A request is in one place because what carries it onward is made only   *)
(* when what carried it is used up; PlaceInv says so of the places.        *)
(***************************************************************************)
EXTENDS OverlayNetwork, CacheManagerProofs

-----------------------------------------------------------------------------
(* Requests. *)

IssuedOK ==
  /\ sent \in [Clients -> Nat]
  /\ \A c \in Clients : sent[c] <= Len(Wanted[c])

\* A request that has been issued is a client's, for a name of its list.
LEMMA IssuedNamed ==
  ASSUME IssuedOK, NEW id \in Issued
  PROVE  Client(id) \in Clients /\ Name(id) \in Names
<1>1. PICK c \in Clients : id \in {c} \X (1 .. sent[c])
  BY DEF Issued
<1>2. PICK i \in 1 .. sent[c] : id = <<c, i>>
  BY <1>1
<1>3. i \in 1 .. Len(Wanted[c]) /\ Wanted[c] \in Seq(Names)
  BY <1>2, NetworkAssumption DEF IssuedOK
<1>4. Wanted[c][i] \in Names
  BY <1>3
<1> QED
  BY <1>2, <1>4 DEF Client, Name

\* What a client sends next is in its list, and earlier requests stay issued.
LEMMA SendIssues ==
  ASSUME IssuedOK, NEW c \in Clients, Send(c)
  PROVE  IssuedOK' /\ Issued \subseteq Issued' /\ <<c, sent[c] + 1>> \in Issued'
<1>1. /\ sent' = [sent EXCEPT ![c] = @ + 1]
      /\ sent[c] = 0 \/ sent[c] < MaxPackets[c]
  BY DEF Send
<1>2. MaxPackets[c] \in Nat /\ Len(Wanted[c]) \in Nat
      /\ Len(Wanted[c]) >= 1 /\ Len(Wanted[c]) >= MaxPackets[c]
  BY NetworkAssumption
<1>3. sent[c] \in Nat /\ sent[c] + 1 <= Len(Wanted[c])
  BY <1>1, <1>2 DEF IssuedOK
<1>4. IssuedOK' /\ sent'[c] = sent[c] + 1 /\ \A d \in Clients : sent[d] <= sent'[d]
  BY <1>1, <1>3 DEF IssuedOK
<1>5. \A d \in Clients : {d} \X (1 .. sent[d]) \subseteq {d} \X (1 .. sent'[d])
  <2> TAKE d \in Clients
  <2>1. sent[d] \in Nat /\ sent'[d] \in Nat /\ sent[d] <= sent'[d]
    BY <1>4 DEF IssuedOK
  <2>2. 1 .. sent[d] \subseteq 1 .. sent'[d]
    BY <2>1
  <2> QED
    BY <2>2
<1>6. <<c, sent[c] + 1>> \in {c} \X (1 .. sent'[c])
  BY <1>3, <1>4
<1> QED
  BY <1>4, <1>5, <1>6 DEF Issued

-----------------------------------------------------------------------------
(* The invariant. *)

\* The answer that is right for a request.
Truth(id) == IF Registered[Name(id)] # {} THEN 6 ELSE 7

Truthful(m) ==
  /\ m.kind = "ack" => m.rcode = Truth(m.id)
  /\ m.kind \in {"direction", "content"} => Registered[Name(m.id)] # {}

StoredOnce(m) ==
  NonCachable /\ m.kind = "content" =>
    /\ Cardinality(m.storedBy) <= 1
    /\ m.cachable => m.storedBy = {}

PacketGood(m) == PacketOK(m) /\ Truthful(m) /\ StoredOnce(m)

\* Only what some server provides is cached.
CachedProvided == \A r \in Routers : \A n \in DOMAIN cache[r] : Registered[n] # {}

LogsOK ==
  /\ acks \subseteq [id : Issued, rcode : {6, 7}]
  /\ received \cup discarded \subseteq Issued
  /\ AckTellsTruth

NetInv ==
  /\ DirectoryInv /\ CachedProvided
  /\ IssuedOK
  /\ stopped \subseteq Applications /\ crashed \in BOOLEAN
  /\ \A m \in packets : PacketGood(m)
  /\ LogsOK

-----------------------------------------------------------------------------
(* The stores. *)

\* SetEntry adds no other name than its own.
LEMMA EntrySetAdds ==
  ASSUME StoresOK, NEW r \in Routers, NEW n \in Names, NEW ttl \in Ttls,
         EntrySet(r, n, ttl)
  PROVE  \A q \in Routers : DOMAIN cache'[q] \subseteq DOMAIN cache[q] \cup {n}
<1>1. ASSUME NEW E, n \notin DOMAIN cache[r] \ E, Store(r, n, ttl, E)
      PROVE  \A q \in Routers : DOMAIN cache'[q] \subseteq DOMAIN cache[q] \cup {n}
  BY <1>1, StoreStep DEF Stored, Replaced, OnlyRouter
<1>2. CASE StoreByEviction(r, n, ttl)
  BY <1>1, <1>2 DEF StoreByEviction, IsUnique
<1>3. CASE StoreInFreeSlot(r, n, ttl)
  BY <1>1, <1>3 DEF StoreInFreeSlot, IsUnique
<1>4. CASE ReplaceEntry(r, n, ttl)
  BY <1>1, <1>4 DEF ReplaceEntry
<1> QED
  BY <1>2, <1>3, <1>4 DEF EntrySet

\* A use adds none.
LEMMA FindAdds ==
  ASSUME StoresOK, NEW r \in Routers, NEW n \in Names, Find(r, n)
  PROVE  \A q \in Routers : DOMAIN cache'[q] = DOMAIN cache[q]
<1>1. FindKeeps(r, n) /\ OnlyRouter(r) /\ n \in DOMAIN cache[r]
  BY FindStep DEF Find
<1> QED
  BY <1>1 DEF FindKeeps, Replaced, OnlyRouter

\* The request of a packet, and the routers on its way.
LEMMA PacketNamed ==
  ASSUME NetInv, NEW m \in packets
  PROVE  /\ m.id \in Issued /\ Client(m.id) \in Clients /\ Name(m.id) \in Names
         /\ m.kind = "content" => m.route \in Seq(Routers)
<1>1. PacketOK(m) /\ IssuedOK
  BY DEF NetInv, PacketGood
<1> QED
  BY <1>1, IssuedNamed DEF PacketOK, Query, Ack, Direction

\* The step of CacheManager that a step of the overlay takes, if any: who
\* still has the content is still listed, as the look-up in ServeRequest
\* requires.
LEMMA StoresStep ==
  ASSUME NetInv, [NetNext]_vars
  PROVE  [Next]_cmVars
<1>1. ASSUME NEW m \in packets, RouterSends(m)
      PROVE  Next
  <2>1. m.source \in Routers /\ Name(m.id) \in Names /\ Find(m.source, Name(m.id))
    BY <1>1, PacketNamed DEF RouterSends
  <2>2. cachedRouterTable[Name(m.id)][m.source] = 1
    BY <2>1 DEF Find, NetInv, DirectoryInv, DirectoryMirrorsCaches
  <2>3. ServeRequest(m.source, Name(m.id))
    BY <2>1, <2>2 DEF ServeRequest
  <2> QED
    BY <2>1, <2>3 DEF Next
<1>2. ASSUME NEW m \in packets, RouterCaches(m) \/ RouterDeclines(m)
      PROVE  Next
  <2>1. m.kind = "content" /\ m.route # <<>>
    BY <1>2 DEF RouterCaches, RouterDeclines
  <2>2. Head(m.route) \in Routers /\ Name(m.id) \in Names
    BY <2>1, PacketNamed
  <2> QED
    BY <1>2, <2>2 DEF RouterCaches, RouterDeclines, Next
<1>3. ASSUME TimePasses
      PROVE  Next
  BY <1>3 DEF TimePasses, Next
<1>4. ASSUME NEW m \in packets, Deliver(m) \/ Lose(m)
      PROVE  [Next]_cmVars
  BY <1>1, <1>2, <1>4
     DEF Deliver, Lose, ReadQuery, HandleReadIcnManager, HandleReadSource,
         ServerSends, FindDereferencesEnd, RouterForwards, ReachesClosedSocket
<1> QED
  BY <1>3, <1>4 DEF NetNext, Send, StopApplication, vars

-----------------------------------------------------------------------------
(* Packets. *)

\* A step that replaces a packet by good ones, sends no new request and
\* leaves the logs alone.
LEMMA PacketsReplaced ==
  ASSUME NetInv, DirectoryInv', CachedProvided', NEW m \in packets, NEW new,
         \A x \in new : PacketGood(x), Replace(m, new),
         UNCHANGED <<sent, acks, received, discarded, stopped>>, crashed' \in BOOLEAN
  PROVE  NetInv'
<1>1. Issued' = Issued /\ IssuedOK'
  BY DEF Issued, NetInv, IssuedOK
<1>2. \A x : PacketGood(x)' <=> PacketGood(x)
  BY <1>1 DEF PacketGood, PacketOK
<1>3. \A x \in packets' : PacketGood(x)'
  BY <1>2 DEF Replace, NetInv
<1>4. LogsOK'
  BY <1>1 DEF NetInv, LogsOK, AckTellsTruth
<1> QED
  BY <1>1, <1>3, <1>4 DEF NetInv

\* While no store changes, what is cached remains provided.
LEMMA StoresKept ==
  ASSUME NetInv, UNCHANGED cmVars
  PROVE  DirectoryInv' /\ CachedProvided'
<1>1. DirectoryInv'
  BY DirectoryNext DEF NetInv
<1> QED
  BY <1>1 DEF NetInv, CachedProvided, cmVars

\* The manager finds a source exactly for what some server provides.
LEMMA ResolutionTruthful ==
  ASSUME NetInv, NEW n \in Names
  PROVE  /\ NameResolution(n) = {} <=> Registered[n] = {}
         /\ NameResolution(n) \subseteq Servers \cup Routers
<1>1. \A r \in Routers : cachedRouterTable[n][r] > 0 => Registered[n] # {}
  BY DEF NetInv, DirectoryInv, DirectoryMirrorsCaches, CachedProvided
<1>2. Registered[n] \subseteq Servers
  BY NetworkAssumption
<1> QED
  BY <1>1, <1>2 DEF NameResolution

\* The packets the manager answers a query with.
LEMMA ReadQueryKeeps ==
  ASSUME NetInv, NEW m \in packets, ReadQuery(m)
  PROVE  NetInv'
<1>1. /\ m.id \in Issued /\ Name(m.id) \in Names
      /\ UNCHANGED <<sent, acks, received, discarded, stopped>>
      /\ crashed' \in BOOLEAN /\ DirectoryInv' /\ CachedProvided'
  <2>1. UNCHANGED <<cmVars, sent, stopped, crashed, clientLogs>>
    BY DEF ReadQuery
  <2> QED
    BY <2>1, PacketNamed, StoresKept DEF clientLogs, NetInv
<1>2. CASE NameResolution(Name(m.id)) = {} /\ Replace(m, {Ack(m.id, 7)})
  <2>1. PacketGood(Ack(m.id, 7))
    BY <1>1, <1>2, ResolutionTruthful
       DEF PacketGood, PacketOK, Truthful, Truth, StoredOnce, Ack
  <2> QED
    BY <1>1, <1>2, <2>1, PacketsReplaced
<1>3. ASSUME NameResolution(Name(m.id)) # {}, NEW source \in NameResolution(Name(m.id)),
             Replace(m, {Ack(m.id, 6), Direction(m.id, source)})
      PROVE  NetInv'
  <2>1. Registered[Name(m.id)] # {} /\ source \in Servers \cup Routers
    BY <1>1, <1>3, ResolutionTruthful
  <2>2. PacketGood(Ack(m.id, 6))
    BY <1>1, <2>1 DEF PacketGood, PacketOK, Truthful, Truth, StoredOnce, Ack
  <2>3. PacketGood(Direction(m.id, source))
    BY <1>1, <2>1 DEF PacketGood, PacketOK, Truthful, StoredOnce, Direction
  <2> QED
    BY <1>1, <1>3, <2>2, <2>3, PacketsReplaced
<1> QED
  BY <1>2, <1>3 DEF ReadQuery

\* The content a source sends.
LEMMA ContentGood ==
  ASSUME NetInv, NEW m \in packets, m.kind = "direction",
         m.source \in Servers \cup Routers, NEW b \in BOOLEAN
  PROVE  PacketGood(Content(m.id, Path[m.source][Client(m.id)], b))
<1>1. m.id \in Issued /\ Client(m.id) \in Clients
  BY PacketNamed
<1>2. Path[m.source][Client(m.id)] \in Seq(Routers)
  BY <1>1, NetworkAssumption
<1>3. Registered[Name(m.id)] # {}
  BY DEF NetInv, PacketGood, Truthful
<1>4. Cardinality({}) <= 1
  BY FS_EmptySet
<1> DEFINE x == Content(m.id, Path[m.source][Client(m.id)], b)
<1>5. /\ x.kind = "content" /\ x.id = m.id /\ x.cachable = TRUE /\ x.storedBy = {}
  BY DEF Content
<1>6. PacketOK(x)
  BY <1>1, <1>2 DEF PacketOK, Content
<1> HIDE DEF x
<1>7. Truthful(x)
  BY <1>3, <1>5 DEF Truthful
<1>8. StoredOnce(x)
  BY <1>4, <1>5 DEF StoredOnce
<1> QED
  BY <1>6, <1>7, <1>8 DEF PacketGood, x

\* A source answers a direction.
LEMMA SourceKeeps ==
  ASSUME NetInv, NEW m \in packets, ServerSends(m) \/ RouterSends(m)
  PROVE  NetInv'
<1>1. /\ m.kind = "direction" /\ m.source \in Servers \cup Routers
      /\ UNCHANGED <<sent, acks, received, discarded, stopped>> /\ crashed' = crashed
  BY DEF ServerSends, RouterSends, clientLogs
<1>2. PICK b \in BOOLEAN :
        Replace(m, {Content(m.id, Path[m.source][Client(m.id)], b)})
  BY NetworkAssumption DEF ServerSends, RouterSends
<1>3. DirectoryInv' /\ CachedProvided'
  <2>1. CASE ServerSends(m)
    BY <2>1, StoresKept DEF ServerSends
  <2>2. CASE RouterSends(m)
    <3>1. m.source \in Routers /\ Name(m.id) \in Names /\ Find(m.source, Name(m.id))
      BY <2>2, PacketNamed DEF RouterSends
    <3>2. \A q \in Routers : DOMAIN cache'[q] = DOMAIN cache[q]
      BY <3>1, FindAdds DEF NetInv, DirectoryInv
    <3>3. [Next]_cmVars
      BY <2>2, StoresStep DEF NetNext, Deliver
    <3> QED
      BY <3>2, <3>3, DirectoryNext DEF NetInv, CachedProvided
  <2> QED
    BY <2>1, <2>2
<1>4. PacketGood(Content(m.id, Path[m.source][Client(m.id)], b))
  BY <1>1, ContentGood
<1> QED
  BY <1>1, <1>2, <1>3, <1>4, PacketsReplaced DEF NetInv

ContentPacket ==
  [kind : {"content"}, id : Issued, route : Seq(Routers),
   fromPort89 : BOOLEAN, cachable : BOOLEAN, storedBy : SUBSET Routers]

\* What a router passes on: one router less to go, and if it has cached the
\* content, its mark.
LEMMA PassedOnGood ==
  ASSUME NetInv, NEW m \in packets, m.kind = "content", m.route # <<>>
  PROVE  /\ Head(m.route) \in Routers
         /\ PacketGood([m EXCEPT !.route = Tail(@)])
         /\ HasSublayer(m) =>
              PacketGood([m EXCEPT !.route = Tail(@), !.cachable = ~NonCachable,
                                   !.storedBy = @ \cup {Head(m.route)}])
<1>1. PacketGood(m) /\ m \in ContentPacket
  <2>1. PacketGood(m)
    BY DEF NetInv
  <2> QED
    BY <2>1 DEF PacketGood, PacketOK, Query, Ack, Direction, ContentPacket
<1>2. Tail(m.route) \in Seq(Routers) /\ Head(m.route) \in Routers
  BY <1>1 DEF ContentPacket
<1>3. Registered[Name(m.id)] # {}
  BY <1>1 DEF PacketGood, Truthful
<1> DEFINE x == [m EXCEPT !.route = Tail(@)]
           y == [m EXCEPT !.route = Tail(@), !.cachable = ~NonCachable,
                          !.storedBy = @ \cup {Head(m.route)}]
<1>4. /\ x \in ContentPacket /\ x.id = m.id /\ x.cachable = m.cachable
      /\ x.storedBy = m.storedBy /\ x.kind = "content"
  BY <1>1, <1>2 DEF ContentPacket
<1>5. /\ y \in ContentPacket /\ y.id = m.id /\ y.cachable = ~NonCachable
      /\ y.storedBy = m.storedBy \cup {Head(m.route)} /\ y.kind = "content"
  BY <1>1, <1>2, NetworkAssumption DEF ContentPacket
<1> HIDE DEF x, y
<1>6. ASSUME NEW z \in ContentPacket
      PROVE  PacketOK(z)
  BY <1>6 DEF ContentPacket, PacketOK
<1>7. PacketGood(x)
  BY <1>1, <1>3, <1>4, <1>6 DEF PacketGood, Truthful, StoredOnce
<1>8. ASSUME HasSublayer(m) PROVE PacketGood(y)
  <2>1. StoredOnce(y)
    <3> SUFFICES ASSUME NonCachable PROVE Cardinality(y.storedBy) <= 1 /\ ~y.cachable
      BY DEF StoredOnce
    <3>1. m.storedBy = {}
      BY <1>1, <1>8, <1>4 DEF PacketGood, StoredOnce, HasSublayer, ContentPacket
    <3>2. y.storedBy = {Head(m.route)}
      BY <1>5, <3>1
    <3>3. ~y.cachable
      BY <1>5, Zenon
    <3>4. Cardinality(y.storedBy) = 1
      BY <3>2, FS_Singleton
    <3> QED
      BY <3>3, <3>4
  <2> QED
    BY <1>3, <1>5, <1>6, <2>1 DEF PacketGood, Truthful
<1> QED
  BY <1>2, <1>7, <1>8 DEF x, y

\* The steps of a router that content passes.
LEMMA PassingKeeps ==
  ASSUME NetInv, NEW m \in packets,
         RouterCaches(m) \/ RouterDeclines(m) \/ RouterForwards(m)
  PROVE  NetInv'
<1>1. /\ m.kind = "content" /\ m.route # <<>>
      /\ UNCHANGED <<sent, acks, received, discarded, stopped>> /\ crashed' = crashed
  BY DEF RouterCaches, RouterDeclines, RouterForwards, clientLogs
<1>2. Name(m.id) \in Names /\ Registered[Name(m.id)] # {}
  BY <1>1, PacketNamed DEF NetInv, PacketGood, Truthful
<1>3. PICK x : PacketGood(x) /\ Replace(m, {x})
  BY <1>1, PassedOnGood DEF RouterCaches, RouterDeclines, RouterForwards
<1>4. DirectoryInv'
  <2>1. [Next]_cmVars
    BY StoresStep DEF NetNext, Deliver
  <2> QED
    BY <2>1, DirectoryNext DEF NetInv
<1>5. CachedProvided'
  <2>1. CASE RouterCaches(m)
    <3>1. PICK ttl \in Ttls : EntrySet(Head(m.route), Name(m.id), ttl)
      BY <2>1 DEF RouterCaches
    <3>2. \A q \in Routers : DOMAIN cache'[q] \subseteq DOMAIN cache[q] \cup {Name(m.id)}
      BY <1>1, <1>2, <3>1, PassedOnGood, EntrySetAdds DEF NetInv, DirectoryInv
    <3> QED
      BY <1>2, <3>2 DEF NetInv, CachedProvided
  <2>2. CASE RouterDeclines(m) \/ RouterForwards(m)
    BY <2>2, StoresKept DEF RouterDeclines, RouterForwards, RefuseEntry
  <2> QED
    BY <2>1, <2>2
<1> QED
  BY <1>1, <1>3, <1>4, <1>5, PacketsReplaced DEF NetInv

\* The steps of a client.
LEMMA ClientKeeps ==
  ASSUME NetInv,
         \/ \E c \in Clients : Send(c)
         \/ \E m \in packets : HandleReadIcnManager(m) \/ HandleReadSource(m)
  PROVE  NetInv'
<1>1. ASSUME NEW c \in Clients, Send(c)
      PROVE  NetInv'
  <2> PICK id : id = <<c, sent[c] + 1>>
    OBVIOUS
  <2>1. UNCHANGED <<cmVars, stopped, crashed, clientLogs>>
        /\ packets' = packets \cup {Query(id)}
    BY <1>1 DEF Send
  <2>2. IssuedOK' /\ Issued \subseteq Issued' /\ id \in Issued'
    BY <1>1, SendIssues DEF NetInv
  <2>3. DirectoryInv' /\ CachedProvided'
    BY <2>1, StoresKept
  <2>4. ASSUME NEW x \in packets PROVE PacketGood(x)'
    <3>1. PacketGood(x)
      BY DEF NetInv
    <3>2. PacketOK(x)'
      BY <2>2, <3>1 DEF PacketGood, PacketOK
    <3>3. Truthful(x)' /\ StoredOnce(x)'
      BY <3>1 DEF PacketGood, Truthful, StoredOnce
    <3> QED
      BY <3>2, <3>3 DEF PacketGood
  <2>5. PacketGood(Query(id))'
    BY <2>2 DEF PacketGood, PacketOK, Truthful, StoredOnce, Query
  <2>6. LogsOK'
    BY <2>1, <2>2 DEF NetInv, LogsOK, AckTellsTruth, clientLogs
  <2> QED
    BY <2>1, <2>2, <2>3, <2>4, <2>5, <2>6 DEF NetInv
<1>2. ASSUME NEW m \in packets, packets' = packets \ {m},
             UNCHANGED <<cmVars, sent, stopped, crashed>>, LogsOK'
      PROVE  NetInv'
  <2>1. Issued' = Issued /\ IssuedOK'
    BY <1>2 DEF Issued, NetInv, IssuedOK
  <2>2. \A x \in packets' : PacketGood(x)'
    BY <1>2, <2>1 DEF NetInv, PacketGood, PacketOK, Truthful, StoredOnce
  <2> QED
    BY <1>2, <2>1, <2>2, StoresKept DEF NetInv
<1>3. ASSUME NEW m \in packets, HandleReadIcnManager(m)
      PROVE  NetInv'
  <2>1. m.kind = "ack" /\ PacketGood(m) /\ m.id \in Issued
    BY <1>3, PacketNamed DEF HandleReadIcnManager, NetInv
  <2>2. m.rcode \in {6, 7} /\ m.rcode = Truth(m.id)
    BY <2>1 DEF PacketGood, Truthful, Truth
  <2>3. /\ acks' = acks \cup {[id |-> m.id, rcode |-> m.rcode]}
        /\ UNCHANGED <<sent, received, discarded>>
    BY <1>3 DEF HandleReadIcnManager
  <2>4. Issued' = Issued
    BY <2>3 DEF Issued
  <2>5. LogsOK'
    BY <2>1, <2>2, <2>3, <2>4 DEF NetInv, LogsOK, AckTellsTruth, Truth
  <2> QED
    BY <1>2, <1>3, <2>5 DEF HandleReadIcnManager, Replace
<1>4. ASSUME NEW m \in packets, HandleReadSource(m)
      PROVE  NetInv'
  <2>1. m.id \in Issued
    BY PacketNamed
  <2>2. /\ UNCHANGED <<sent, acks>> /\ received' \subseteq received \cup {m.id}
        /\ discarded' \subseteq discarded \cup {m.id}
    BY <1>4 DEF HandleReadSource
  <2>3. Issued' = Issued
    BY <2>2 DEF Issued
  <2>4. LogsOK'
    BY <2>1, <2>2, <2>3 DEF NetInv, LogsOK, AckTellsTruth
  <2> QED
    BY <1>2, <1>4, <2>4 DEF HandleReadSource, Replace
<1> QED
  BY <1>1, <1>3, <1>4

\* The steps that touch at most one packet, and no store.
LEMMA RestKeeps ==
  ASSUME NetInv,
         \/ \E m \in packets : FindDereferencesEnd(m) \/ ReachesClosedSocket(m) \/ Lose(m)
         \/ \E a \in Stoppable : StopApplication(a)
         \/ TimePasses
         \/ UNCHANGED vars
  PROVE  NetInv'
<1>1. ASSUME NEW m \in packets, ReachesClosedSocket(m) \/ Lose(m)
      PROVE  NetInv'
  BY <1>1, PacketsReplaced, StoresKept DEF ReachesClosedSocket, Lose, clientLogs, NetInv
<1>2. ASSUME packets' = packets, DirectoryInv', CachedProvided',
             UNCHANGED <<sent, acks, received, discarded>>,
             stopped' \subseteq Applications, crashed' \in BOOLEAN
      PROVE  NetInv'
  <2>1. Issued' = Issued /\ IssuedOK'
    BY <1>2 DEF Issued, NetInv, IssuedOK
  <2>2. \A x \in packets' : PacketGood(x)'
    BY <1>2, <2>1 DEF NetInv, PacketGood, PacketOK, Truthful, StoredOnce
  <2>3. LogsOK'
    BY <1>2, <2>1 DEF NetInv, LogsOK, AckTellsTruth
  <2> QED
    BY <1>2, <2>1, <2>2, <2>3 DEF NetInv
<1>3. ASSUME NEW m \in packets, FindDereferencesEnd(m)
      PROVE  NetInv'
  BY <1>2, <1>3, StoresKept DEF FindDereferencesEnd, clientLogs, NetInv
<1>4. ASSUME NEW a \in Stoppable, StopApplication(a)
      PROVE  NetInv'
  BY <1>2, <1>4, StoresKept, NetworkAssumption DEF StopApplication, clientLogs, NetInv
<1>5. ASSUME TimePasses
      PROVE  NetInv'
  <2>1. DirectoryInv'
    BY <1>5, StoresStep, DirectoryNext DEF NetNext, NetInv
  <2>2. CachedProvided' /\ UNCHANGED netVars
    BY <1>5 DEF TimePasses, Tick, NetInv, CachedProvided
  <2> QED
    BY <1>2, <2>1, <2>2 DEF netVars, clientLogs, NetInv
<1>6. ASSUME UNCHANGED vars
      PROVE  NetInv'
  BY <1>2, <1>6, StoresKept DEF vars, netVars, clientLogs, NetInv
<1> QED
  BY <1>1, <1>3, <1>4, <1>5, <1>6

-----------------------------------------------------------------------------
(* The theorems. *)

\* The invariant holds throughout.
THEOREM NetInvariant == NetSpec => []NetInv
<1>1. NetInit => NetInv
  <2> SUFFICES ASSUME NetInit PROVE NetInv
    OBVIOUS
  <2>1. DirectoryInv
    BY DirectoryInit DEF NetInit
  <2>2. CachedProvided
    BY DEF NetInit, Init, CachedProvided, Empty
  <2>3. IssuedOK
    <3>1. \A c \in Clients : Len(Wanted[c]) >= 0
      BY NetworkAssumption
    <3> QED
      BY <3>1 DEF NetInit, IssuedOK
  <2> QED
    BY <2>1, <2>2, <2>3 DEF NetInit, NetInv, LogsOK, AckTellsTruth
<1>2. NetInv /\ [NetNext]_vars => NetInv'
  <2> SUFFICES ASSUME NetInv, [NetNext]_vars PROVE NetInv'
    OBVIOUS
  <2>1. ASSUME NEW m \in packets, Deliver(m)
        PROVE  NetInv'
    BY <2>1, ClientKeeps, ReadQueryKeeps, SourceKeeps, PassingKeeps, RestKeeps DEF Deliver
  <2> QED
    BY <2>1, ClientKeeps, RestKeeps DEF NetNext
<1> QED
  BY <1>1, <1>2, PTL DEF NetSpec

\* Packets and logs are well formed and about requests that were issued.
THEOREM NetTypeCorrect == NetSpec => []NetTypeOK
<1>1. NetInv => NetTypeOK
  BY DEF NetInv, NetTypeOK, DirectoryInv, IssuedOK, PacketGood, LogsOK
<1> QED
  BY <1>1, NetInvariant, PTL

\* A client that logs an ACK asked for what some server provides, and one
\* that logs a NACK did not, whatever has been cached and evicted, lost and
\* stopped between the query and the answer.
THEOREM AcksTrue == NetSpec => []AckTellsTruth
<1>1. NetInv => AckTellsTruth
  BY DEF NetInv, LogsOK
<1> QED
  BY <1>1, NetInvariant, PTL

\* With the non-cachable mark set, no reply is stored twice on its way.
THEOREM RepliesStoredOnce == NetSpec => []OneCopyPerReply
<1>1. NetInv => OneCopyPerReply
  BY DEF NetInv, PacketGood, StoredOnce, OneCopyPerReply, Flying
<1> QED
  BY <1>1, NetInvariant, PTL

\* The overlay does to the stores what CacheManager allows, although the
\* look-up of the manager and the answer of the router are different steps
\* on different nodes.  So every theorem about CacheManager holds in it.
THEOREM StoresImplemented == NetSpec => ImplementsStores
<1>1. NetInit => Init
  BY DEF NetInit
<1>2. NetInv /\ [NetNext]_vars => [Next]_cmVars
  BY StoresStep
<1> QED
  BY <1>1, <1>2, NetInvariant, PTL DEF NetSpec, ImplementsStores, Spec

\* The manager lists a router exactly while the router caches the content,
\* in the overlay too.
THEOREM NetDirectoryCorrect == NetSpec => []DirectoryMirrorsCaches
BY StoresImplemented, DirectoryCorrect, PTL DEF ImplementsStores

\* And no store outgrows its size, where eviction is sure to find a victim.
THEOREM NetCapacityCorrect == NetSpec => [](SureToEvict => CapacityRespected)
BY StoresImplemented, CapacityCorrect, PTL DEF ImplementsStores

\* Nor, under SUC, is any content filed outside the band of its distance,
\* whatever requests refresh it and with whatever TTL it came.
THEOREM NetBandCorrect == NetSpec => []IndexInHopBand
BY StoresImplemented, BandCorrect, PTL DEF ImplementsStores

-----------------------------------------------------------------------------
(* Where a request is. *)

Answered(id) == Nacked(id) \/ id \in received \/ id \in discarded

\* What a request travels by: a query, a direction or content.
Carries(m, id) == m.id = id /\ m.kind # "ack"

OneCarrier ==
  \A id \in Issued : \A x, y \in packets : Carries(x, id) /\ Carries(y, id) => x = y

AnsweredOnce ==
  \A id \in Issued :
    /\ Answered(id) => \A x \in packets : ~Carries(x, id)
    /\ Nacked(id) => id \notin received \cup discarded
    /\ id \notin received \cap discarded

NoneLost ==
  ~Lossy /\ Stoppable = {} =>
    \A id \in Issued : Answered(id) \/ \E x \in packets : Carries(x, id)

PlaceInv ==
  /\ OneCarrier /\ AnsweredOnce /\ NoneLost
  /\ stopped \subseteq Stoppable

\* Issuing a request gives it a carrier; nothing spoke of it before.
LEMMA IssueKeepsPlaces ==
  ASSUME NetInv, PlaceInv, NEW c \in Clients, Send(c)
  PROVE  PlaceInv'
<1> PICK new : new = <<c, sent[c] + 1>>
  OBVIOUS
<1>1. /\ packets' = packets \cup {Query(new)}
      /\ UNCHANGED <<stopped, acks, received, discarded>>
  BY DEF Send, clientLogs
<1>2. new \notin Issued /\ Issued' = Issued \cup {new}
  <2>1. sent \in [Clients -> Nat] /\ sent' = [sent EXCEPT ![c] = @ + 1]
    BY DEF NetInv, IssuedOK, Send
  <2>2. \A id : id \in Issued <=> \E d \in Clients : \E i \in 1 .. sent[d] : id = <<d, i>>
    BY DEF Issued
  <2>3. \A id : id \in Issued' <=> \E d \in Clients : \E i \in 1 .. sent'[d] : id = <<d, i>>
    BY DEF Issued
  <2>4. new \notin Issued
    BY <2>1, <2>2
  <2>5. ASSUME NEW d \in Clients, NEW i
        PROVE  i \in 1 .. sent'[d] <=> i \in 1 .. sent[d] \/ (d = c /\ i = sent[c] + 1)
    <3>1. CASE d = c
      BY <2>1, <3>1
    <3>2. CASE d # c
      BY <2>1, <3>2
    <3> QED
      BY <3>1, <3>2
  <2>6. \A id : id \in Issued' <=> id \in Issued \/ id = new
    BY <2>2, <2>3, <2>5
  <2> QED
    BY <2>4, <2>6
<1>3. /\ ~Answered(new)
      /\ \A x \in packets : x.id # new
  <2>1. \A x \in packets : x.id \in Issued
    BY PacketNamed
  <2>2. /\ \A a \in acks : a.id \in Issued
        /\ received \cup discarded \subseteq Issued
    BY DEF NetInv, LogsOK
  <2> QED
    BY <1>2, <2>1, <2>2 DEF Answered, Nacked, Ack
<1>4. Query(new).kind = "query" /\ Query(new).id = new
  BY DEF Query
<1>5. ASSUME NEW id
      PROVE  /\ (Nacked(id))' <=> Nacked(id)
             /\ (Answered(id))' <=> Answered(id)
  <2>1. Ack(id, 7) # Query(new)
    BY DEF Ack, Query
  <2>2. Ack(id, 7) \in packets' <=> Ack(id, 7) \in packets
    BY <1>1, <2>1
  <2>3. (Nacked(id))' <=> Nacked(id)
    BY <1>1, <2>2 DEF Nacked, Ack
  <2> QED
    BY <1>1, <2>3 DEF Answered
<1>6. OneCarrier'
  BY <1>1, <1>2, <1>3, <1>4 DEF PlaceInv, OneCarrier, Carries
<1>7. AnsweredOnce'
  BY <1>1, <1>2, <1>3, <1>4, <1>5 DEF PlaceInv, AnsweredOnce, Carries, Answered
<1>8. NoneLost'
  BY <1>1, <1>2, <1>4, <1>5 DEF PlaceInv, NoneLost, Carries
<1> QED
  BY <1>1, <1>6, <1>7, <1>8 DEF PlaceInv

\* A request passes from one carrier to the next, or to its NACK, or, where
\* packets can be lost, to nothing.
LEMMA HandingOn ==
  ASSUME NetInv, PlaceInv, NEW m \in packets, m.kind # "ack",
         NEW new, Replace(m, new), \A x \in new : x.id = m.id,
         \A x, y \in new : x.kind # "ack" /\ y.kind # "ack" => x = y,
         Ack(m.id, 7) \in new => \A x \in new : x.kind = "ack",
         Ack(m.id, 7) \in new \/ (\E x \in new : x.kind # "ack")
           \/ Lossy \/ Stoppable # {},
         UNCHANGED <<sent, acks, received, discarded, stopped>>
  PROVE  PlaceInv'
<1>1. Issued' = Issued /\ m.id \in Issued /\ Carries(m, m.id)
  BY PacketNamed DEF Issued, Carries
<1>2. packets' = (packets \ {m}) \cup new
  BY DEF Replace
<1>3. \A x \in packets : Carries(x, m.id) => x = m
  BY <1>1 DEF PlaceInv, OneCarrier
<1>4. ~Answered(m.id)
  BY <1>1 DEF PlaceInv, AnsweredOnce
<1>5. \A id : id # m.id => /\ (Nacked(id))' = Nacked(id)
                           /\ (Answered(id))' = Answered(id)
  <2>1. \A id : Ack(id, 7).id = id /\ Ack(id, 7).kind = "ack"
    BY DEF Ack
  <2> QED
    BY <1>2, <2>1 DEF Nacked, Answered, Ack
<1>6. /\ (Nacked(m.id))' = (Ack(m.id, 7) \in new)
      /\ m.id \notin received' \cup discarded'
      /\ (Answered(m.id))' = (Ack(m.id, 7) \in new)
  <2>1. [id |-> m.id, rcode |-> 7] \notin acks /\ Ack(m.id, 7) \notin packets
        /\ m.id \notin received \cup discarded
    BY <1>4 DEF Answered, Nacked
  <2>2. (Nacked(m.id))' = ([id |-> m.id, rcode |-> 7] \in acks' \/ Ack(m.id, 7) \in packets')
    BY DEF Nacked, Ack
  <2>3. (Nacked(m.id))' = (Ack(m.id, 7) \in new)
    BY <1>2, <2>1, <2>2
  <2> QED
    BY <2>1, <2>3 DEF Answered, Nacked
<1>7. ASSUME NEW id, id # m.id, NEW x
      PROVE  x \in packets' /\ Carries(x, id) <=> x \in packets /\ Carries(x, id)
  BY <1>1, <1>2, <1>7 DEF Carries
<1>8. ASSUME NEW x
      PROVE  x \in packets' /\ Carries(x, m.id) <=> x \in new /\ x.kind # "ack"
  BY <1>2, <1>3 DEF Carries
<1>9. OneCarrier'
  BY <1>1, <1>7, <1>8 DEF PlaceInv, OneCarrier, Carries
<1>10. AnsweredOnce'
  BY <1>1, <1>5, <1>6, <1>7, <1>8 DEF PlaceInv, AnsweredOnce, Carries
<1>11. NoneLost'
  BY <1>1, <1>5, <1>6, <1>7, <1>8 DEF PlaceInv, NoneLost, Carries
<1> QED
  BY <1>9, <1>10, <1>11 DEF PlaceInv

\* What a source sends for a direction.
LEMMA SourceReplaces ==
  ASSUME NEW m, ServerSends(m) \/ RouterSends(m)
  PROVE  \E x : /\ Replace(m, {x})
                /\ x.id = m.id /\ x.kind = "content" /\ x.cachable = TRUE
<1>1. PICK b : Replace(m, {Content(m.id, Path[m.source][Client(m.id)], b)})
  BY DEF ServerSends, RouterSends
<1>2. \A r : LET x == Content(m.id, r, b)
            IN  x.id = m.id /\ x.kind = "content" /\ x.cachable = TRUE
  BY DEF Content
<1> QED
  BY <1>1, <1>2

\* What a router makes of content that passes it.
LEMMA RouterReplaces ==
  ASSUME NetInv, NEW m \in packets,
         RouterCaches(m) \/ RouterDeclines(m) \/ RouterForwards(m)
  PROVE  \E x : /\ Replace(m, {x})
                /\ x.id = m.id /\ x.kind = "content"
                /\ x.cachable = m.cachable \/ x.cachable = ~NonCachable
<1>1. m.kind = "content" /\ m.route # <<>>
  BY DEF RouterCaches, RouterDeclines, RouterForwards
<1>2. m \in ContentPacket
  BY <1>1 DEF NetInv, PacketGood, PacketOK, Query, Ack, Direction, ContentPacket
<1>3. ASSUME NEW x, x = [m EXCEPT !.route = Tail(@)]
      PROVE  x.id = m.id /\ x.kind = "content" /\ x.cachable = m.cachable
  BY <1>2, <1>3 DEF ContentPacket
<1>4. ASSUME NEW x, x = [m EXCEPT !.route = Tail(@), !.cachable = ~NonCachable,
                               !.storedBy = @ \cup {Head(m.route)}]
      PROVE  x.id = m.id /\ x.kind = "content" /\ x.cachable = ~NonCachable
  BY <1>2, <1>4 DEF ContentPacket
<1>5. \/ Replace(m, {[m EXCEPT !.route = Tail(@)]})
      \/ Replace(m, {[m EXCEPT !.route = Tail(@), !.cachable = ~NonCachable,
                              !.storedBy = @ \cup {Head(m.route)}]})
  BY DEF RouterCaches, RouterDeclines, RouterForwards
<1> QED
  BY <1>3, <1>4, <1>5

\* The steps that hand a request on.
LEMMA HandersKeepPlaces ==
  ASSUME NetInv, PlaceInv, NEW m \in packets,
         \/ ReadQuery(m) \/ ServerSends(m) \/ RouterSends(m)
         \/ RouterCaches(m) \/ RouterDeclines(m) \/ RouterForwards(m)
  PROVE  PlaceInv'
<1>1. UNCHANGED <<sent, acks, received, discarded, stopped>> /\ m.kind # "ack"
  BY DEF ReadQuery, ServerSends, RouterSends, RouterCaches, RouterDeclines,
         RouterForwards, clientLogs
<1>2. ASSUME NEW x, Replace(m, {x}), x.id = m.id, x.kind # "ack"
      PROVE  PlaceInv'
  <2>1. x # Ack(m.id, 7)
    BY <1>2 DEF Ack
  <2> QED
    BY <1>1, <1>2, <2>1, HandingOn
<1>3. CASE ReadQuery(m)
  <2>1. CASE Replace(m, {Ack(m.id, 7)})
    <3>1. Ack(m.id, 7).id = m.id /\ Ack(m.id, 7).kind = "ack"
      BY DEF Ack
    <3> QED
      BY <1>1, <2>1, <3>1, HandingOn
  <2>2. ASSUME NEW source, Replace(m, {Ack(m.id, 6), Direction(m.id, source)})
        PROVE  PlaceInv'
    <3>1. /\ Ack(m.id, 6).id = m.id /\ Ack(m.id, 6).kind = "ack"
          /\ Ack(m.id, 6) # Ack(m.id, 7)
      BY DEF Ack
    <3>2. /\ Direction(m.id, source).id = m.id
          /\ Direction(m.id, source).kind = "direction"
          /\ Direction(m.id, source) # Ack(m.id, 7)
      BY DEF Direction, Ack
    <3> HIDE DEF Replace
    <3> QED
      BY <1>1, <2>2, <3>1, <3>2, HandingOn
  <2> QED
    BY <1>3, <2>1, <2>2 DEF ReadQuery
<1>4. CASE \/ ServerSends(m) \/ RouterSends(m)
           \/ RouterCaches(m) \/ RouterDeclines(m) \/ RouterForwards(m)
  <2>1. PICK x : Replace(m, {x}) /\ x.id = m.id /\ x.kind = "content"
    BY <1>4, SourceReplaces, RouterReplaces
  <2> QED
    BY <1>2, <2>1
<1> QED
  BY <1>3, <1>4

\* An acknowledgement that leaves the network carries no request: at most a
\* NACK moves to the log.
LEMMA AckGone ==
  ASSUME NetInv, PlaceInv, NEW m \in packets, m.kind = "ack",
         Replace(m, {}), UNCHANGED <<sent, received, discarded, stopped>>,
         \/ acks' = acks \cup {[id |-> m.id, rcode |-> m.rcode]}
         \/ acks' = acks /\ (Lossy \/ Stoppable # {})
  PROVE  PlaceInv'
<1>1. Issued' = Issued /\ packets' = packets \ {m} /\ m = Ack(m.id, m.rcode)
  BY DEF Issued, Replace, NetInv, PacketGood, PacketOK, Query, Direction
<1>2. ASSUME NEW x, NEW id
      PROVE  x \in packets' /\ Carries(x, id) <=> x \in packets /\ Carries(x, id)
  BY <1>1 DEF Carries
<1>3. ASSUME NEW id
      PROVE  /\ (Nacked(id))' => Nacked(id)
             /\ Nacked(id) => (Nacked(id))' \/ Lossy \/ Stoppable # {}
  <2>1. (Nacked(id))' = ([id |-> id, rcode |-> 7] \in acks' \/ Ack(id, 7) \in packets')
    BY DEF Nacked, Ack
  <2>2. Ack(id, 7) = m <=> id = m.id /\ m.rcode = 7
    BY <1>1 DEF Ack
  <2>3. [id |-> id, rcode |-> 7] = [id |-> m.id, rcode |-> m.rcode]
          <=> id = m.id /\ m.rcode = 7
    OBVIOUS
  <2> QED
    BY <1>1, <2>1, <2>2, <2>3 DEF Nacked
<1>4. OneCarrier'
  BY <1>1, <1>2 DEF PlaceInv, OneCarrier, Carries
<1>5. AnsweredOnce'
  BY <1>1, <1>2, <1>3 DEF PlaceInv, AnsweredOnce, Answered, Carries
<1>6. NoneLost'
  BY <1>1, <1>2, <1>3 DEF PlaceInv, NoneLost, Answered, Carries
<1> QED
  BY <1>4, <1>5, <1>6 DEF PlaceInv

\* Content that a client takes leaves the network for one of its logs.
LEMMA ContentTaken ==
  ASSUME NetInv, PlaceInv, NEW m \in packets, HandleReadSource(m)
  PROVE  PlaceInv'
<1>1. /\ m.kind = "content" /\ packets' = packets \ {m}
      /\ UNCHANGED <<sent, acks, stopped>>
      /\ \/ received' = received \cup {m.id} /\ discarded' = discarded
         \/ received' = received /\ discarded' = discarded \cup {m.id}
  BY DEF HandleReadSource, Replace
<1>2. Issued' = Issued /\ m.id \in Issued /\ Carries(m, m.id)
  BY <1>1, PacketNamed DEF Issued, Carries
<1>3. ~Answered(m.id) /\ \A x \in packets : Carries(x, m.id) => x = m
  BY <1>2 DEF PlaceInv, AnsweredOnce, OneCarrier
<1>4. \A id : (Nacked(id))' = Nacked(id)
  <2>1. \A id : Ack(id, 7) # m
    BY <1>1 DEF Ack
  <2> QED
    BY <1>1, <2>1 DEF Nacked, Ack
<1>5. \A x \in packets' : x \in packets /\ x # m
  BY <1>1
<1>6. ASSUME NEW id, id # m.id
      PROVE  \A x : x \in packets' /\ Carries(x, id) <=> x \in packets /\ Carries(x, id)
  BY <1>1, <1>6 DEF Carries
<1>7. OneCarrier'
  BY <1>2, <1>5 DEF PlaceInv, OneCarrier, Carries
<1>8. AnsweredOnce'
  BY <1>1, <1>2, <1>3, <1>4, <1>5 DEF PlaceInv, AnsweredOnce, Answered, Carries
<1>9. NoneLost'
  BY <1>1, <1>2, <1>4, <1>6 DEF PlaceInv, NoneLost, Answered, Carries
<1> QED
  BY <1>1, <1>7, <1>8, <1>9 DEF PlaceInv

\* The invariant: a request has one carrier or one answer, never both.
THEOREM PlaceInvariant == NetSpec => []PlaceInv
<1>1. NetInit => PlaceInv
  <2> SUFFICES ASSUME NetInit PROVE PlaceInv
    OBVIOUS
  <2>1. Issued = {}
    BY DEF NetInit, Issued
  <2> QED
    BY <2>1 DEF NetInit, PlaceInv, OneCarrier, AnsweredOnce, NoneLost
<1>2. NetInv /\ PlaceInv /\ [NetNext]_vars => PlaceInv'
  <2> SUFFICES ASSUME NetInv, PlaceInv, [NetNext]_vars PROVE PlaceInv'
    OBVIOUS
  <2>1. ASSUME UNCHANGED <<sent, packets, acks, received, discarded>>,
               stopped' \subseteq Stoppable
        PROVE  PlaceInv'
    BY <2>1 DEF PlaceInv, OneCarrier, AnsweredOnce, NoneLost, Answered, Nacked,
                Carries, Ack, Issued
  <2>2. ASSUME NEW m \in packets, HandleReadIcnManager(m)
        PROVE  PlaceInv'
    BY <2>2, AckGone DEF HandleReadIcnManager
  <2>3. ASSUME NEW m \in packets, ReachesClosedSocket(m) \/ Lose(m)
        PROVE  PlaceInv'
    <3>1. /\ (Lossy \/ Stoppable # {}) /\ Replace(m, {})
          /\ UNCHANGED <<sent, acks, received, discarded, stopped>>
      BY <2>3 DEF ReachesClosedSocket, Lose, PlaceInv, clientLogs
    <3> QED
      BY <3>1, AckGone, HandingOn
  <2>4. ASSUME NEW m \in packets, Deliver(m)
        PROVE  PlaceInv'
    <3>1. CASE FindDereferencesEnd(m)
      BY <2>1, <3>1 DEF FindDereferencesEnd, clientLogs, PlaceInv
    <3> QED
      BY <2>2, <2>3, <2>4, <3>1, HandersKeepPlaces, ContentTaken DEF Deliver
  <2>5. ASSUME NEW a \in Stoppable, StopApplication(a)
        PROVE  PlaceInv'
    BY <2>1, <2>5 DEF StopApplication, clientLogs, PlaceInv
  <2>6. CASE TimePasses \/ UNCHANGED vars
    BY <2>1, <2>6 DEF TimePasses, vars, netVars, clientLogs, PlaceInv
  <2> QED
    BY <2>3, <2>4, <2>5, <2>6, IssueKeepsPlaces DEF NetNext
<1> QED
  BY <1>1, <1>2, NetInvariant, PTL DEF NetSpec

\* A request is in one place at most, and in one exactly where nothing is
\* lost and nobody stops: no second source answers it, no late content
\* follows a NACK, and it is never forgotten.
THEOREM RequestsInOnePlace == NetSpec => []RequestInOnePlace
<1>1. PlaceInv => RequestInOnePlace
  <2> SUFFICES ASSUME PlaceInv, NEW id \in Issued
               PROVE  /\ Places(id) <= 1
                      /\ ~Lossy /\ Stoppable = {} => Places(id) = 1
    BY DEF RequestInOnePlace
  <2>1. \A x : x \in Carriers(id) <=> x \in packets /\ Carries(x, id)
    BY DEF Carriers, Carries
  <2>2. CASE Carriers(id) = {}
    <3>1. Cardinality(Carriers(id)) = 0
      BY <2>2, FS_EmptySet
    <3>2. /\ Nacked(id) => id \notin received \cup discarded
          /\ id \notin received \cap discarded
      BY DEF PlaceInv, AnsweredOnce
    <3>3. ~Lossy /\ Stoppable = {} => Answered(id)
      BY <2>1, <2>2 DEF PlaceInv, NoneLost
    <3> QED
      BY <3>1, <3>2, <3>3 DEF Places, Answered
  <2>3. CASE Carriers(id) # {}
    <3>1. PICK x : x \in packets /\ Carries(x, id)
      BY <2>1, <2>3
    <3>2. Carriers(id) = {x}
      BY <2>1, <3>1 DEF PlaceInv, OneCarrier
    <3>3. Cardinality(Carriers(id)) = 1
      BY <3>2, FS_Singleton
    <3>4. ~Answered(id)
      BY <3>1 DEF PlaceInv, AnsweredOnce
    <3> QED
      BY <3>3, <3>4 DEF Places, Answered
  <2> QED
    BY <2>2, <2>3
<1> QED
  BY <1>1, PlaceInvariant, PTL

-----------------------------------------------------------------------------
(* Directions to a router that has given the content up. *)

\* A name leaves a store only if the store is full, and stays full.
LEMMA KeptUnlessFull ==
  ASSUME DirectoryInv, [Next]_cmVars, NEW r \in Routers, NEW n,
         n \in DOMAIN cache[r] \/ IsFull(cache[r])
  PROVE  n \in DOMAIN cache'[r] \/ IsFull(cache'[r])
<1>1. StoresOK /\ StoresOK' /\ CacheSize \in Nat
  BY DirectoryNext, SizeAssumption DEF DirectoryInv
<1>2. /\ IsFiniteSet(DOMAIN cache[r]) /\ Cardinality(DOMAIN cache[r]) \in Nat
      /\ IsFiniteSet(DOMAIN cache'[r]) /\ Cardinality(DOMAIN cache'[r]) \in Nat
  <2>1. DOMAIN cache[r] \in SUBSET Names /\ DOMAIN cache'[r] \in SUBSET Names
    BY <1>1 DEF StoresOK, IsCache
  <2> QED
    BY <2>1, SizeAssumption, FS_Subset, FS_CardinalityType
<1>3. ASSUME DOMAIN cache[r] \subseteq DOMAIN cache'[r]
      PROVE  n \in DOMAIN cache'[r] \/ IsFull(cache'[r])
  <2>1. Cardinality(DOMAIN cache[r]) <= Cardinality(DOMAIN cache'[r])
    BY <1>2, <1>3, FS_Subset
  <2> QED
    BY <1>1, <1>2, <1>3, <2>1 DEF IsFull
<1>4. ASSUME NEW q \in Routers, NEW x \in Names, NEW ttl \in Ttls, NEW E,
             x \notin DOMAIN cache[q] \ E, Store(q, x, ttl, E)
      PROVE  /\ DOMAIN cache'[q] = (DOMAIN cache[q] \ E) \cup {x}
             /\ q # r => cache'[r] = cache[r]
  BY <1>1, <1>4, StoreStep DEF Stored, Replaced, OnlyRouter
<1>5. ASSUME NEW q \in Routers, NEW x \in Names, NEW ttl \in Ttls,
             StoreByEviction(q, x, ttl)
      PROVE  n \in DOMAIN cache'[r] \/ IsFull(cache'[r])
  <2>1. PICK E \in EvictEntry(cache[q], policyindex[q], now) : Store(q, x, ttl, E)
    BY <1>5 DEF StoreByEviction
  <2>2. x \notin DOMAIN cache[q] /\ IsFull(cache[q])
    BY <1>5 DEF StoreByEviction, IsUnique
  <2>3. /\ DOMAIN cache'[q] = (DOMAIN cache[q] \ E) \cup {x}
        /\ q # r => cache'[r] = cache[r]
    BY <1>4, <2>1, <2>2
  <2>4. CASE q # r \/ E = {}
    BY <1>3, <2>3, <2>4
  <2>5. ASSUME q = r, NEW v \in DOMAIN policyindex[q], E = {v}
        PROVE  IsFull(cache'[r])
    <3>1. v \in DOMAIN cache[r]
      BY <1>1, <2>5 DEF StoresOK, ContainersAgree
    <3>2. IsFiniteSet(DOMAIN cache[r] \ {v})
          /\ Cardinality(DOMAIN cache[r] \ {v}) = Cardinality(DOMAIN cache[r]) - 1
      BY <1>2, <3>1, FS_RemoveElement
    <3>3. Cardinality((DOMAIN cache[r] \ {v}) \cup {x})
            = Cardinality(DOMAIN cache[r] \ {v}) + 1
      BY <2>2, <2>5, <3>2, FS_AddElement
    <3>4. DOMAIN cache'[r] = (DOMAIN cache[r] \ {v}) \cup {x}
      BY <2>3, <2>5
    <3>5. Cardinality(DOMAIN cache'[r]) = Cardinality(DOMAIN cache[r])
      BY <1>2, <3>2, <3>3, <3>4
    <3> QED
      BY <2>2, <2>5, <3>5 DEF IsFull
  <2> QED
    BY <2>1, <2>4, <2>5, EvictionIsLocal
<1>6. ASSUME NEW q \in Routers, NEW x \in Names, NEW ttl \in Ttls,
             StoreInFreeSlot(q, x, ttl)
      PROVE  n \in DOMAIN cache'[r] \/ IsFull(cache'[r])
  <2>1. x \notin DOMAIN cache[q] /\ Store(q, x, ttl, {})
    BY <1>6 DEF StoreInFreeSlot, IsUnique
  <2> QED
    BY <1>3, <1>4, <2>1
<1>7. ASSUME NEW q \in Routers, NEW x \in Names, NEW ttl \in Ttls,
             ReplaceEntry(q, x, ttl)
      PROVE  n \in DOMAIN cache'[r] \/ IsFull(cache'[r])
  <2>1. x \in DOMAIN cache[q] /\ Store(q, x, ttl, {x})
    BY <1>7 DEF ReplaceEntry, IsUnique
  <2> QED
    BY <1>3, <1>4, <2>1
<1>8. ASSUME NEW q \in Routers, NEW x \in Names, ServeRequest(q, x)
      PROVE  n \in DOMAIN cache'[r] \/ IsFull(cache'[r])
  BY <1>1, <1>3, <1>8, FindAdds DEF ServeRequest
<1>9. CASE UNCHANGED cache
  BY <1>3, <1>9
<1> QED
  BY <1>5, <1>6, <1>7, <1>8, <1>9 DEF Next, EntrySet, RefuseEntry, Tick, cmVars

\* A direction whose content its router no longer has.
Stray(m) ==
  m.kind = "direction" /\ m.source \in Routers /\ Name(m.id) \notin DOMAIN cache[m.source]

\* Stray directions are for full stores, and one has been met if the
\* simulator has crashed.
StrayInv ==
  /\ \A m \in packets : Stray(m) => IsFull(cache[m.source])
  /\ crashed => \E m \in packets : Stray(m)

\* The manager sends no direction that is astray from the start, and
\* evictions make one stray only at full stores.
LEMMA StrayNext ==
  ASSUME NetInv, StrayInv, [NetNext]_vars
  PROVE  StrayInv'
<1>1. DirectoryInv /\ [Next]_cmVars
  BY StoresStep DEF NetInv
<1>2. ASSUME NEW m \in packets, Stray(m)'
      PROVE  IsFull(cache'[m.source])
  <2>1. m.source \in Routers /\ m.kind = "direction"
        /\ Name(m.id) \notin DOMAIN cache'[m.source]
    BY <1>2 DEF Stray
  <2>2. Name(m.id) \in DOMAIN cache[m.source] \/ IsFull(cache[m.source])
    BY <2>1 DEF StrayInv, Stray
  <2> QED
    BY <1>1, <2>1, <2>2, KeptUnlessFull
<1>3. ASSUME NEW m \in packets', m \notin packets
      PROVE  ~Stray(m)'
  <2>1. CASE m.kind # "direction"
    BY <2>1 DEF Stray
  <2>2. CASE m.kind = "direction"
    <3>1. PICK x \in packets : ReadQuery(x)
      <4>1. ASSUME NEW c \in Clients, Send(c)
            PROVE  FALSE
        BY <1>3, <2>2, <4>1 DEF Send, Query
      <4>2. ASSUME NEW x \in packets, Deliver(x), ~ReadQuery(x)
            PROVE  FALSE
        <5>1. CASE \/ ServerSends(x) \/ RouterSends(x)
                   \/ RouterCaches(x) \/ RouterDeclines(x) \/ RouterForwards(x)
          BY <1>3, <2>2, <5>1, SourceReplaces, RouterReplaces DEF Replace
        <5>2. CASE \/ HandleReadIcnManager(x) \/ HandleReadSource(x)
                   \/ FindDereferencesEnd(x) \/ ReachesClosedSocket(x)
          BY <1>3, <5>2
             DEF HandleReadIcnManager, HandleReadSource, FindDereferencesEnd,
                 ReachesClosedSocket, Replace
        <5> QED
          BY <4>2, <5>1, <5>2 DEF Deliver
      <4>3. ASSUME NEW x \in packets, Lose(x)
            PROVE  FALSE
        BY <1>3, <4>3 DEF Lose, Replace
      <4> QED
        BY <1>3, <4>1, <4>2, <4>3 DEF NetNext, StopApplication, TimePasses, netVars, vars
    <3>2. PICK source \in NameResolution(Name(x.id)) : m = Direction(x.id, source)
      BY <1>3, <2>2, <3>1 DEF ReadQuery, Replace, Ack
    <3>3. m.id = x.id /\ m.source = source /\ cache' = cache /\ Name(x.id) \in Names
      BY <3>1, <3>2, PacketNamed DEF Direction, ReadQuery, cmVars
    <3>4. ASSUME source \in Routers
          PROVE  Name(x.id) \in DOMAIN cache[source]
      <4>1. cachedRouterTable[Name(x.id)][source] > 0 \/ source \in Registered[Name(x.id)]
        BY <3>2 DEF NameResolution
      <4>2. source \notin Registered[Name(x.id)]
        BY <3>3, <3>4, NetworkAssumption
      <4> QED
        BY <3>3, <3>4, <4>1, <4>2 DEF NetInv, DirectoryInv, DirectoryMirrorsCaches
    <3> QED
      BY <3>3, <3>4 DEF Stray
  <2> QED
    BY <2>1, <2>2
<1>4. ASSUME crashed'
      PROVE  \E m \in packets' : Stray(m)'
  <2>1. CASE crashed
    <3>1. cache' = cache /\ packets' = packets
      BY <2>1
         DEF NetNext, Deliver, Lose, Send, ReadQuery, HandleReadIcnManager,
             HandleReadSource, ServerSends, RouterSends, FindDereferencesEnd,
             RouterCaches, RouterDeclines, RouterForwards, ReachesClosedSocket,
             StopApplication, TimePasses, Running, vars, cmVars, netVars
    <3> QED
      BY <2>1, <3>1 DEF StrayInv, Stray
  <2>2. CASE ~crashed
    <3>1. PICK m \in packets : FindDereferencesEnd(m)
      <4>1. ASSUME NEW x \in packets, Deliver(x), ~FindDereferencesEnd(x)
            PROVE  crashed' = crashed
        <5>1. CASE \/ ReadQuery(x) \/ HandleReadIcnManager(x) \/ HandleReadSource(x)
                   \/ ServerSends(x) \/ RouterSends(x)
          BY <5>1 DEF ReadQuery, HandleReadIcnManager, HandleReadSource, ServerSends,
                      RouterSends
        <5>2. CASE \/ RouterCaches(x) \/ RouterDeclines(x) \/ RouterForwards(x)
                   \/ ReachesClosedSocket(x)
          BY <5>2 DEF RouterCaches, RouterDeclines, RouterForwards, ReachesClosedSocket
        <5> QED
          BY <4>1, <5>1, <5>2 DEF Deliver
      <4>2. ASSUME NEW x \in packets, Lose(x)
            PROVE  crashed' = crashed
        BY <4>2 DEF Lose
      <4> QED
        BY <1>4, <2>2, <4>1, <4>2
           DEF NetNext, Send, StopApplication, TimePasses, netVars, vars
    <3>2. Stray(m) /\ cache' = cache /\ packets' = packets
      BY <3>1 DEF FindDereferencesEnd, Stray, cmVars
    <3> QED
      BY <3>2 DEF Stray
  <2> QED
    BY <2>1, <2>2
<1> QED
  BY <1>2, <1>3, <1>4 DEF StrayInv, Stray

\* Stray directions are for full stores, and one is there after a crash.
LEMMA StrayInvariant == NetSpec => [](NetInv /\ StrayInv)
<1>1. NetInit => StrayInv
  BY DEF NetInit, StrayInv
<1>2. NetInv /\ StrayInv /\ [NetNext]_vars => StrayInv'
  BY StrayNext
<1> QED
  BY <1>1, <1>2, NetInvariant, PTL DEF NetSpec

\* A router that does not have what it is directed to send has a full store,
\* and so some router has when a look-up has ended the simulation.
THEOREM StrayOnlyByEviction == NetSpec => []AstrayOnlyByEviction
<1>1. StrayInv => AstrayOnlyByEviction
  BY DEF StrayInv, Stray, AstrayOnlyByEviction, Flying
<1> QED
  BY <1>1, StrayInvariant, PTL

\* Where every store has room for all the names there are, no router is ever
\* asked for what it no longer has: the crash that the run dangling_find
\* shows takes a cache smaller than the catalogue.
THEOREM RoomForAll ==
  ASSUME CacheSize >= Cardinality(Names)
  PROVE  NetSpec => []NoDanglingFind
<1>1. NetInv /\ StrayInv => NoDanglingFind
  <2> SUFFICES ASSUME NetInv, StrayInv, NEW m \in packets, Stray(m)
               PROVE  FALSE
    BY DEF StrayInv, NoDanglingFind
  <2>1. m.source \in Routers /\ Name(m.id) \in Names
        /\ Name(m.id) \notin DOMAIN cache[m.source]
    BY PacketNamed DEF Stray
  <2>2. DOMAIN cache[m.source] \in SUBSET Names
    BY <2>1 DEF NetInv, DirectoryInv, StoresOK, IsCache
  <2>3. Cardinality(DOMAIN cache[m.source]) >= CacheSize
    BY DEF StrayInv, IsFull
  <2>4. /\ Cardinality(DOMAIN cache[m.source]) <= Cardinality(Names)
        /\ Cardinality(Names) = Cardinality(DOMAIN cache[m.source])
             => Names = DOMAIN cache[m.source]
    BY <2>2, SizeAssumption, FS_Subset
  <2>5. Cardinality(DOMAIN cache[m.source]) \in Nat /\ Cardinality(Names) \in Nat
    BY <2>2, SizeAssumption, FS_Subset, FS_CardinalityType
  <2> QED
    BY <2>1, <2>3, <2>4, <2>5, SizeAssumption
<1> QED
  BY <1>1, StrayInvariant, PTL

-----------------------------------------------------------------------------
(* What becomes of requests.                                               *)

OnlyMarked == \A m \in Flying("content") : m.cachable \/ NonCachable

OneNack == \A a \in acks : a.rcode = 7 => Ack(a.id, 7) \notin packets

ServiceInv == NetInv /\ PlaceInv /\ OnlyMarked /\ OneNack

\* m settles the request, or leads to what does.
LeadsOn(m, id) == m.id = id /\ (m.kind = "ack" => m.rcode = 7)

\* Only caching routers mark, and the mark is the one they were given.
LEMMA MarkedNext ==
  ASSUME NetInv, OnlyMarked, [NetNext]_vars
  PROVE  OnlyMarked'
<1>1. ASSUME NEW m \in packets, NEW new, Replace(m, new),
             \A x \in new : x.kind = "content" => x.cachable \/ NonCachable
      PROVE  OnlyMarked'
  BY <1>1 DEF Replace, OnlyMarked, Flying
<1>2. ASSUME packets' = packets
      PROVE  OnlyMarked'
  BY <1>2 DEF OnlyMarked, Flying
<1>3. ASSUME NEW m \in packets, ReadQuery(m)
      PROVE  OnlyMarked'
  <2>1. \A id, s : Ack(id, s).kind = "ack" /\ Direction(id, s).kind = "direction"
    BY DEF Ack, Direction
  <2>2. CASE Replace(m, {Ack(m.id, 7)})
    BY <1>1, <2>1, <2>2
  <2>3. ASSUME NEW source, Replace(m, {Ack(m.id, 6), Direction(m.id, source)})
        PROVE  OnlyMarked'
    BY <1>1, <2>1, <2>3
  <2> QED
    BY <1>3, <2>2, <2>3 DEF ReadQuery
<1>4. ASSUME NEW m \in packets,
             \/ ServerSends(m) \/ RouterSends(m)
             \/ RouterCaches(m) \/ RouterDeclines(m) \/ RouterForwards(m)
      PROVE  OnlyMarked'
  <2>1. CASE ServerSends(m) \/ RouterSends(m)
    <3>1. PICK x : Replace(m, {x}) /\ x.cachable = TRUE
      BY <2>1, SourceReplaces
    <3> QED
      BY <1>1, <3>1
  <2>2. CASE RouterCaches(m) \/ RouterDeclines(m) \/ RouterForwards(m)
    <3>1. m.cachable \/ NonCachable
      BY <2>2 DEF RouterCaches, RouterDeclines, RouterForwards, OnlyMarked, Flying
    <3>2. PICK x : /\ Replace(m, {x})
                   /\ x.cachable = m.cachable \/ x.cachable = ~NonCachable
      BY <2>2, RouterReplaces
    <3>3. x.cachable \/ NonCachable
      BY <3>1, <3>2
    <3> QED
      BY <1>1, <3>2, <3>3
  <2> QED
    BY <1>4, <2>1, <2>2
<1>5. ASSUME NEW m \in packets,
             \/ HandleReadIcnManager(m) \/ HandleReadSource(m)
             \/ ReachesClosedSocket(m) \/ Lose(m)
      PROVE  OnlyMarked'
  BY <1>1, <1>5 DEF HandleReadIcnManager, HandleReadSource, ReachesClosedSocket, Lose
<1>6. ASSUME NEW c \in Clients, Send(c)
      PROVE  OnlyMarked'
  BY <1>6 DEF Send, Query, OnlyMarked, Flying
<1> QED
  BY <1>2, <1>3, <1>4, <1>5, <1>6
     DEF NetNext, Deliver, FindDereferencesEnd, StopApplication, TimePasses, vars, netVars

\* The manager denies a request once, and the client logs it when it arrives.
LEMMA NackNext ==
  ASSUME NetInv, PlaceInv, OneNack, [NetNext]_vars
  PROVE  OneNack'
<1>1. ASSUME acks' = acks, \A id : Ack(id, 7) \in packets' => Ack(id, 7) \in packets
      PROVE  OneNack'
  BY <1>1 DEF OneNack, Ack
<1>2. ASSUME NEW m \in packets, HandleReadIcnManager(m)
      PROVE  OneNack'
  <2>1. /\ packets' = packets \ {m} /\ m = Ack(m.id, m.rcode)
        /\ acks' = acks \cup {[id |-> m.id, rcode |-> m.rcode]}
    BY <1>2 DEF HandleReadIcnManager, Replace, NetInv, PacketGood, PacketOK, Query,
                Direction
  <2> QED
    BY <2>1 DEF OneNack, Ack
<1>3. ASSUME NEW m \in packets, ReadQuery(m)
      PROVE  OneNack'
  <2>1. /\ acks' = acks
        /\ \A id : Ack(id, 7) \in packets' => Ack(id, 7) \in packets \/ id = m.id
    BY <1>3 DEF ReadQuery, Replace, Ack, Direction, clientLogs
  <2>2. \A a \in acks : a.rcode = 7 => a.id # m.id
    <3>1. m.id \in Issued /\ Carries(m, m.id)
      BY <1>3, PacketNamed DEF ReadQuery, Carries
    <3>2. ~Nacked(m.id)
      BY <3>1 DEF PlaceInv, AnsweredOnce, Answered
    <3>3. \A a \in acks : a = [id |-> a.id, rcode |-> a.rcode]
      BY DEF NetInv, LogsOK
    <3> QED
      BY <3>2, <3>3 DEF Nacked
  <2> QED
    BY <2>1, <2>2 DEF OneNack, Ack
<1>4. ASSUME NEW m \in packets,
             \/ ServerSends(m) \/ RouterSends(m)
             \/ RouterCaches(m) \/ RouterDeclines(m) \/ RouterForwards(m)
      PROVE  OneNack'
  <2>1. PICK x : Replace(m, {x}) /\ x.kind = "content"
    BY <1>4, SourceReplaces, RouterReplaces
  <2>2. acks' = acks
    BY <1>4 DEF ServerSends, RouterSends, RouterCaches, RouterDeclines, RouterForwards,
                clientLogs
  <2> QED
    BY <1>1, <2>1, <2>2 DEF Replace, Ack
<1>5. ASSUME NEW m \in packets,
             HandleReadSource(m) \/ ReachesClosedSocket(m) \/ Lose(m)
      PROVE  OneNack'
  BY <1>1, <1>5 DEF HandleReadSource, ReachesClosedSocket, Lose, Replace, clientLogs
<1>6. ASSUME NEW c \in Clients, Send(c)
      PROVE  OneNack'
  BY <1>1, <1>6 DEF Send, Query, Ack, clientLogs
<1> QED
  BY <1>1, <1>2, <1>3, <1>4, <1>5, <1>6
     DEF NetNext, Deliver, FindDereferencesEnd, StopApplication, TimePasses, vars,
         netVars, clientLogs

\* Who has been asked for: the first so many of each client's list.
LEMMA IssuedAsked ==
  ASSUME IssuedOK
  PROVE  /\ Issued \subseteq Requests
         /\ \A id \in Requests : id \in Issued <=> ~(id[2] > sent[Client(id)])
<1>1. ASSUME NEW id
      PROVE  id \in Requests <=> \E c \in Clients : \E i \in 1 .. Len(Wanted[c]) : id = <<c, i>>
  BY DEF Requests
<1>2. ASSUME NEW id
      PROVE  id \in Issued <=> \E c \in Clients : \E i \in 1 .. sent[c] : id = <<c, i>>
  BY DEF Issued
<1>3. \A c \in Clients : Len(Wanted[c]) \in Nat /\ sent[c] \in Nat /\ sent[c] <= Len(Wanted[c])
  BY NetworkAssumption DEF IssuedOK
<1>4. ASSUME NEW id \in Issued
      PROVE  id \in Requests
  <2> PICK c \in Clients : \E i \in 1 .. sent[c] : id = <<c, i>>
    BY <1>2
  <2>1. PICK i \in 1 .. sent[c] : id = <<c, i>>
    OBVIOUS
  <2>2. i \in 1 .. Len(Wanted[c])
    BY <1>3, <2>1
  <2> QED
    BY <1>1, <2>1, <2>2
<1>5. ASSUME NEW id \in Requests
      PROVE  id \in Issued <=> ~(id[2] > sent[Client(id)])
  <2> PICK c \in Clients : \E i \in 1 .. Len(Wanted[c]) : id = <<c, i>>
    BY <1>1
  <2>1. PICK i \in 1 .. Len(Wanted[c]) : id = <<c, i>>
    OBVIOUS
  <2>2. id \in Issued <=> i \in 1 .. sent[c]
    BY <1>2, <2>1
  <2>3. i \in 1 .. sent[c] <=> ~(i > sent[c])
    BY <1>3, <2>1
  <2> QED
    BY <2>1, <2>2, <2>3 DEF Client
<1> QED
  BY <1>4, <1>5

\* Nothing that concerns the request differs.
SameFor(id) ==
  /\ sent'[Client(id)] = sent[Client(id)]
  /\ InFlight(id)' <=> InFlight(id)
  /\ id \in received' <=> id \in received
  /\ id \in discarded' <=> id \in discarded
  /\ [id |-> id, rcode |-> 7] \in acks' <=> [id |-> id, rcode |-> 7] \in acks

LEMMA SameStatus ==
  ASSUME NEW id, SameFor(id)
  PROVE  RequestStatus(id)' = RequestStatus(id)
BY DEF SameFor, RequestStatus, Client

\* Where nothing differs for a request, its status is kept.
LEMMA StatusKept ==
  ASSUME \A id \in Requests : RequestStatus(id)' = RequestStatus(id)
  PROVE  UNCHANGED [id \in Requests |-> RequestStatus(id)]
OBVIOUS

\* What a request becomes when it is the only one that a step concerns.
LEMMA StatusMoves ==
  ASSUME NEW i \in Requests, NEW new, RequestStatus(i)' = new,
         \A id \in Requests : id # i => RequestStatus(id)' = RequestStatus(id)
  PROVE  Service!Becomes(i, new)
BY DEF Service!Becomes

\* A step that replaces a packet concerns only its request, provided that it
\* sends nothing new and logs nothing about others.
LEMMA OthersKept ==
  ASSUME NEW m \in packets, NEW new, Replace(m, new), \A x \in new : x.id = m.id,
         sent' = sent,
         NEW id, id # m.id,
         id \in received' <=> id \in received,
         id \in discarded' <=> id \in discarded,
         [id |-> id, rcode |-> 7] \in acks' <=> [id |-> id, rcode |-> 7] \in acks
  PROVE  RequestStatus(id)' = RequestStatus(id)
<1>1. \A x : x.id = id => (x \in packets' <=> x \in packets)
  BY DEF Replace
<1>2. InFlight(id)' <=> InFlight(id)
  BY <1>1 DEF InFlight
<1> QED
  BY <1>2, SameStatus DEF SameFor

\* While it has a carrier or its NACK is on its way, a request is pending;
\* the last of these is alone.
LEMMA PendingWhile ==
  ASSUME ServiceInv, NEW m \in packets, LeadsOn(m, m.id)
  PROVE  /\ m.id \in Issued /\ m.id \in Requests
         /\ RequestStatus(m.id) = "pending"
         /\ \A x \in packets : LeadsOn(x, m.id) => x = m
         /\ m.id \notin received \cup discarded
         /\ [id |-> m.id, rcode |-> 7] \notin acks
<1>1. m.id \in Issued /\ IssuedOK
  BY PacketNamed DEF ServiceInv, NetInv
<1>2. m.id \in Requests /\ RequestStatus(m.id) = "pending"
  <2>1. InFlight(m.id)
    BY DEF InFlight, LeadsOn
  <2> QED
    BY <1>1, <2>1, IssuedAsked DEF RequestStatus
<1>3. \A x \in packets : LeadsOn(x, m.id) =>
        Carries(x, m.id) \/ x = Ack(m.id, 7)
  BY DEF ServiceInv, NetInv, PacketGood, PacketOK, Query, Direction, LeadsOn, Carries
<1>4. CASE Carries(m, m.id)
  <2>1. ~Answered(m.id)
    BY <1>1, <1>4 DEF ServiceInv, PlaceInv, AnsweredOnce
  <2>2. \A x \in packets : Carries(x, m.id) => x = m
    BY <1>1, <1>4 DEF ServiceInv, PlaceInv, OneCarrier
  <2> QED
    BY <1>1, <1>2, <1>3, <2>1, <2>2 DEF Answered, Nacked
<1>5. CASE m = Ack(m.id, 7)
  <2>1. Nacked(m.id)
    BY <1>5 DEF Nacked
  <2>2. \A x \in packets : ~Carries(x, m.id)
    BY <1>1, <2>1 DEF ServiceInv, PlaceInv, AnsweredOnce, Answered
  <2>3. m.id \notin received \cup discarded
    BY <1>1, <2>1 DEF ServiceInv, PlaceInv, AnsweredOnce
  <2>4. [id |-> m.id, rcode |-> 7] \notin acks
    BY <1>5 DEF ServiceInv, OneNack
  <2> QED
    BY <1>1, <1>2, <1>3, <1>5, <2>2, <2>3, <2>4
<1> QED
  BY <1>3, <1>4, <1>5

\* When that last packet leaves the network, the logs tell what has become
\* of the request.
LEMMA Settles ==
  ASSUME ServiceInv, NEW m \in packets, LeadsOn(m, m.id), Replace(m, {}), sent' = sent
  PROVE  RequestStatus(m.id)' =
           IF m.id \in received' THEN "received"
           ELSE IF m.id \in discarded' THEN "discarded"
           ELSE IF [id |-> m.id, rcode |-> 7] \in acks' THEN "denied"
           ELSE "lost"
<1>1. m.id \in Issued /\ m.id \in Requests /\ \A x \in packets : LeadsOn(x, m.id) => x = m
  BY PendingWhile
<1>2. ~InFlight(m.id)'
  BY <1>1 DEF InFlight, LeadsOn, Replace
<1>3. ~(m.id[2] > sent[Client(m.id)])
  BY <1>1, IssuedAsked DEF ServiceInv, NetInv
<1> QED
  BY <1>2, <1>3 DEF RequestStatus, Client

\* A client that sends asks for the next content of its list.
LEMMA SendAsks ==
  ASSUME ServiceInv, NEW c \in Clients, Send(c)
  PROVE  Service!Next
<1> PICK new : new = <<c, sent[c] + 1>>
  OBVIOUS
<1>1. /\ packets' = packets \cup {Query(new)} /\ sent' = [sent EXCEPT ![c] = @ + 1]
      /\ sent[c] = 0 \/ sent[c] < MaxPackets[c]
      /\ UNCHANGED <<acks, received, discarded>>
  BY DEF Send, clientLogs
<1>2. /\ sent[c] \in Nat /\ sent'[c] = sent[c] + 1
      /\ \A d \in Clients : d # c => sent'[d] = sent[d]
  BY <1>1 DEF ServiceInv, NetInv, IssuedOK
<1>3. new \in Requests
  <2>1. MaxPackets[c] \in Nat /\ Len(Wanted[c]) \in Nat
        /\ Len(Wanted[c]) >= 1 /\ Len(Wanted[c]) >= MaxPackets[c]
    BY NetworkAssumption
  <2>2. sent[c] + 1 \in 1 .. Len(Wanted[c])
    BY <1>1, <1>2, <2>1
  <2> QED
    BY <2>2 DEF Requests
<1>4. \A id \in Requests : \E d \in Clients : \E i \in Nat : id = <<d, i>>
  <2> SUFFICES ASSUME NEW d \in Clients, NEW id \in {d} \X (1 .. Len(Wanted[d]))
               PROVE  \E i \in Nat : id = <<d, i>>
    BY DEF Requests
  <2>1. Len(Wanted[d]) \in Nat
    BY NetworkAssumption
  <2> QED
    BY <2>1
<1>5. RequestStatus(new) = "unsent"
  BY <1>2 DEF RequestStatus, Client
<1>6. RequestStatus(new)' = "pending"
  <2>1. InFlight(new)'
    <3>1. Query(new).id = new /\ Query(new).kind # "ack"
      BY DEF Query
    <3> QED
      BY <1>1, <3>1 DEF InFlight
  <2>2. ~(new[2] > sent'[Client(new)])
    BY <1>2 DEF Client
  <2> QED
    BY <2>1, <2>2 DEF RequestStatus, Client
<1>7. ASSUME NEW id \in Requests, id # new
      PROVE  RequestStatus(id)' = RequestStatus(id)
  <2> PICK d \in Clients : \E i \in Nat : id = <<d, i>>
    BY <1>4
  <2>1. PICK i \in Nat : id = <<d, i>>
    OBVIOUS
  <2>2. Client(id) = d /\ id[2] = i
    BY <2>1 DEF Client
  <2>3. id[2] > sent'[Client(id)] <=> id[2] > sent[Client(id)]
    <3>1. CASE d = c
      <4>1. i # sent[c] + 1
        BY <1>7, <2>1, <3>1
      <4> QED
        BY <1>2, <2>2, <3>1, <4>1
    <3>2. CASE d # c
      BY <1>2, <2>2, <3>2
    <3> QED
      BY <3>1, <3>2
  <2>4. InFlight(id)' <=> InFlight(id)
    BY <1>1, <1>7 DEF InFlight, Query
  <2>5. received' = received /\ discarded' = discarded /\ acks' = acks
    BY <1>1
  <2> QED
    BY <2>3, <2>4, <2>5 DEF RequestStatus, Client
<1>8. \A e \in Service!Earlier(new) : e \in Requests /\ RequestStatus(e) # "unsent"
  <2> TAKE e \in Service!Earlier(new)
  <2>1. e \in Requests /\ e[1] = c /\ e[2] < sent[c] + 1
    BY DEF Service!Earlier
  <2> PICK d \in Clients : \E i \in Nat : e = <<d, i>>
    BY <1>4, <2>1
  <2>2. PICK i \in Nat : e = <<d, i>>
    OBVIOUS
  <2>3. ~(e[2] > sent[Client(e)])
    BY <1>2, <2>1, <2>2 DEF Client
  <2> QED
    BY <2>1, <2>3 DEF RequestStatus
<1>9. Service!Becomes(new, "pending")
  BY <1>3, <1>6, <1>7, StatusMoves
<1>10. Service!Ask(new)
  BY <1>3, <1>5, <1>8, <1>9 DEF Service!Ask, Service!Earlier
<1> QED
  BY <1>3, <1>10 DEF Service!Next

\* While a request is handed on it stays pending, and so it does when it is
\* acknowledged: an ACK does not settle it.
HandedOn(m) ==
  \/ ReadQuery(m) \/ ServerSends(m) \/ RouterSends(m)
  \/ RouterCaches(m) \/ RouterDeclines(m) \/ RouterForwards(m)

LEMMA HandedOnPending ==
  ASSUME ServiceInv, NEW m \in packets, HandedOn(m)
  PROVE  UNCHANGED [id \in Requests |-> RequestStatus(id)]
<1>1. LeadsOn(m, m.id) /\ UNCHANGED <<sent, acks, received, discarded>>
  BY DEF HandedOn, ReadQuery, ServerSends, RouterSends, RouterCaches, RouterDeclines,
         RouterForwards, clientLogs, LeadsOn
<1>2. PICK new : /\ Replace(m, new) /\ \A x \in new : x.id = m.id
                 /\ \E x \in new : LeadsOn(x, m.id)
  <2>1. CASE ReadQuery(m)
    <3>1. \A k : Ack(m.id, k).id = m.id /\ LeadsOn(Ack(m.id, 7), m.id)
      BY DEF Ack, LeadsOn
    <3>2. \A s : Direction(m.id, s).id = m.id /\ LeadsOn(Direction(m.id, s), m.id)
      BY DEF Direction, LeadsOn
    <3>3. CASE Replace(m, {Ack(m.id, 7)})
      BY <3>1, <3>3
    <3>4. ASSUME NEW s, Replace(m, {Ack(m.id, 6), Direction(m.id, s)})
          PROVE  \E new : /\ Replace(m, new) /\ \A x \in new : x.id = m.id
                          /\ \E x \in new : LeadsOn(x, m.id)
      <4> PICK new : new = {Ack(m.id, 6), Direction(m.id, s)}
        OBVIOUS
      <4>1. (\A x \in new : x.id = m.id) /\ \E x \in new : LeadsOn(x, m.id)
        BY <3>1, <3>2
      <4> QED
        BY <3>4, <4>1
    <3> QED
      BY <2>1, <3>3, <3>4 DEF ReadQuery
  <2>2. CASE ~ReadQuery(m)
    <3>1. PICK x : Replace(m, {x}) /\ x.id = m.id /\ x.kind = "content"
      BY <2>2, SourceReplaces, RouterReplaces DEF HandedOn, ServiceInv
    <3> QED
      BY <3>1 DEF LeadsOn
  <2> QED
    BY <2>1, <2>2
<1>3. \A id : id # m.id => RequestStatus(id)' = RequestStatus(id)
  BY <1>1, <1>2, OthersKept
<1>4. RequestStatus(m.id)' = RequestStatus(m.id)
  <2>1. InFlight(m.id) /\ InFlight(m.id)'
    BY <1>1, <1>2 DEF InFlight, LeadsOn, Replace
  <2> QED
    BY <1>1, <2>1, SameStatus DEF SameFor
<1> QED
  BY <1>3, <1>4, StatusKept

\* Without a packet or a line in a log more or less, nothing is settled.
LEMMA NothingSettled ==
  ASSUME UNCHANGED <<sent, packets, acks, received, discarded>>
  PROVE  UNCHANGED [id \in Requests |-> RequestStatus(id)]
<1>1. \A id : RequestStatus(id)' = RequestStatus(id)
  BY SameStatus DEF SameFor, InFlight
<1> QED
  BY <1>1, StatusKept

\* A packet that leads to nothing more, an ACK, settles nothing either.
LEMMA AckSettlesNothing ==
  ASSUME NEW m \in packets, ~LeadsOn(m, m.id), Replace(m, {}),
         UNCHANGED <<sent, received, discarded>>,
         \A id : [id |-> id, rcode |-> 7] \in acks' <=> [id |-> id, rcode |-> 7] \in acks
  PROVE  UNCHANGED [id \in Requests |-> RequestStatus(id)]
<1>1. \A id : InFlight(id)' <=> InFlight(id)
  BY DEF InFlight, Replace, LeadsOn
<1>2. \A id : RequestStatus(id)' = RequestStatus(id)
  BY <1>1, SameStatus DEF SameFor
<1> QED
  BY <1>2, StatusKept

\* A client that logs a NACK has been denied what no server provides.
LEMMA NackDenies ==
  ASSUME ServiceInv, NEW m \in packets, HandleReadIcnManager(m)
  PROVE  Service!Next \/ UNCHANGED [id \in Requests |-> RequestStatus(id)]
<1>1. /\ m.kind = "ack" /\ Replace(m, {}) /\ UNCHANGED <<sent, received, discarded>>
      /\ acks' = acks \cup {[id |-> m.id, rcode |-> m.rcode]}
  BY DEF HandleReadIcnManager
<1>2. CASE m.rcode # 7
  BY <1>1, <1>2, AckSettlesNothing DEF LeadsOn
<1>3. CASE m.rcode = 7
  <2>1. LeadsOn(m, m.id)
    BY <1>3 DEF LeadsOn
  <2>2. /\ m.id \in Requests /\ RequestStatus(m.id) = "pending"
        /\ m.id \notin received \cup discarded
    BY <2>1, PendingWhile
  <2>3. RequestStatus(m.id)' = "denied"
    BY <1>1, <1>3, <2>1, <2>2, Settles
  <2>4. ASSUME NEW id, id # m.id
        PROVE  RequestStatus(id)' = RequestStatus(id)
    <3>1. [id |-> id, rcode |-> 7] # [id |-> m.id, rcode |-> m.rcode]
      BY <2>4
    <3>2. [id |-> id, rcode |-> 7] \in acks' <=> [id |-> id, rcode |-> 7] \in acks
      BY <1>1, <3>1
    <3> QED
      BY <1>1, <2>4, <3>2, OthersKept
  <2>5. Registered[Name(m.id)] = {}
    BY <1>1, <1>3 DEF ServiceInv, NetInv, PacketGood, Truthful, Truth
  <2>6. Service!Becomes(m.id, "denied")
    BY <2>2, <2>3, <2>4, StatusMoves
  <2>7. Service!Deny(m.id)
    BY <2>2, <2>5, <2>6 DEF Service!Deny
  <2> QED
    BY <2>2, <2>7 DEF Service!Next
<1> QED
  BY <1>2, <1>3

\* A client that takes or drops content has got what some server provides.
LEMMA ContentSettles ==
  ASSUME ServiceInv, NEW m \in packets, HandleReadSource(m)
  PROVE  Service!Next
<1>1. /\ m.kind = "content" /\ Replace(m, {}) /\ UNCHANGED <<sent, acks>>
      /\ received' = IF m.cachable THEN received \cup {m.id} ELSE received
      /\ discarded' = IF m.cachable THEN discarded ELSE discarded \cup {m.id}
  BY DEF HandleReadSource
<1>2. LeadsOn(m, m.id)
  BY <1>1 DEF LeadsOn
<1>3. /\ m.id \in Requests /\ RequestStatus(m.id) = "pending"
      /\ m.id \notin received \cup discarded
  BY <1>2, PendingWhile
<1>4. \A id : id # m.id => RequestStatus(id)' = RequestStatus(id)
  BY <1>1, OthersKept
<1>5. Registered[Name(m.id)] # {}
  BY <1>1 DEF ServiceInv, NetInv, PacketGood, Truthful
<1>6. CASE m.cachable
  <2>1. RequestStatus(m.id)' = "received"
    BY <1>1, <1>2, <1>6, Settles
  <2>2. Service!Becomes(m.id, "received")
    BY <1>3, <1>4, <2>1, StatusMoves
  <2>3. Service!Receive(m.id)
    BY <1>3, <1>5, <2>2 DEF Service!Receive
  <2> QED
    BY <1>3, <2>3 DEF Service!Next
<1>7. CASE ~m.cachable
  <2>1. RequestStatus(m.id)' = "discarded"
    BY <1>1, <1>2, <1>3, <1>7, Settles
  <2>2. NonCachable
    BY <1>1, <1>7 DEF ServiceInv, OnlyMarked, Flying
  <2>3. Service!Becomes(m.id, "discarded")
    BY <1>3, <1>4, <2>1, StatusMoves
  <2>4. Service!Discard(m.id)
    BY <1>3, <1>5, <2>2, <2>3 DEF Service!Discard
  <2> QED
    BY <1>3, <2>4 DEF Service!Next
<1> QED
  BY <1>6, <1>7

\* What the network or a closed socket swallows is lost, unless it is an ACK.
LEMMA LosingLoses ==
  ASSUME ServiceInv, NEW m \in packets, ReachesClosedSocket(m) \/ Lose(m)
  PROVE  Service!Next \/ UNCHANGED [id \in Requests |-> RequestStatus(id)]
<1>1. /\ (Lossy \/ Stoppable # {}) /\ Replace(m, {})
      /\ UNCHANGED <<sent, acks, received, discarded>>
  BY DEF ReachesClosedSocket, Lose, ServiceInv, PlaceInv, clientLogs
<1>2. CASE ~LeadsOn(m, m.id)
  BY <1>1, <1>2, AckSettlesNothing
<1>3. CASE LeadsOn(m, m.id)
  <2>1. /\ m.id \in Requests /\ RequestStatus(m.id) = "pending"
        /\ m.id \notin received \cup discarded /\ [id |-> m.id, rcode |-> 7] \notin acks
    BY <1>3, PendingWhile
  <2>2. RequestStatus(m.id)' = "lost"
    BY <1>1, <1>3, <2>1, Settles
  <2>3. \A id : id # m.id => RequestStatus(id)' = RequestStatus(id)
    BY <1>1, OthersKept
  <2>4. Service!Becomes(m.id, "lost")
    BY <2>1, <2>2, <2>3, StatusMoves
  <2>5. Service!Lose(m.id)
    BY <1>1, <2>1, <2>4 DEF Service!Lose
  <2> QED
    BY <2>1, <2>5 DEF Service!Next
<1> QED
  BY <1>2, <1>3

\* Each step of the overlay is a step of the service for one request, or none.
LEMMA ServiceStep ==
  ASSUME ServiceInv, [NetNext]_vars
  PROVE  Service!Next \/ UNCHANGED [id \in Requests |-> RequestStatus(id)]
<1>1. ASSUME NEW m \in packets, FindDereferencesEnd(m)
      PROVE  UNCHANGED [id \in Requests |-> RequestStatus(id)]
  BY <1>1, NothingSettled DEF FindDereferencesEnd, clientLogs
<1>2. ASSUME NEW m \in packets, Deliver(m)
      PROVE  Service!Next \/ UNCHANGED [id \in Requests |-> RequestStatus(id)]
  BY <1>1, <1>2, HandedOnPending, NackDenies, ContentSettles, LosingLoses
     DEF Deliver, HandedOn
<1>3. ASSUME NEW a \in Stoppable, StopApplication(a)
      PROVE  UNCHANGED [id \in Requests |-> RequestStatus(id)]
  BY <1>3, NothingSettled DEF StopApplication, clientLogs
<1>4. CASE TimePasses \/ UNCHANGED vars
  BY <1>4, NothingSettled DEF TimePasses, vars, netVars, clientLogs
<1> QED
  BY <1>2, <1>3, <1>4, LosingLoses, SendAsks DEF NetNext

\* The clients of the overlay have the service that RequestService describes:
\* each request is settled once and for good, by content exactly if some
\* server provides it, whatever the caches and the directory go through.
THEOREM ServiceImplemented == NetSpec => ImplementsService
<1>1. NetInit => OnlyMarked /\ OneNack
  BY DEF NetInit, OnlyMarked, OneNack, Flying
<1>2. NetInv /\ PlaceInv /\ OnlyMarked /\ OneNack /\ [NetNext]_vars
        => (OnlyMarked /\ OneNack)'
  BY MarkedNext, NackNext
<1>3. NetSpec => []ServiceInv
  BY <1>1, <1>2, NetInvariant, PlaceInvariant, PTL DEF NetSpec, ServiceInv
<1>4. NetInit => Service!Init
  <2> SUFFICES ASSUME NetInit, NEW id \in Requests PROVE RequestStatus(id) = "unsent"
    BY DEF Service!Init
  <2>1. id \notin Issued
    BY DEF NetInit, Issued
  <2>2. IssuedOK
    <3>1. \A c \in Clients : Len(Wanted[c]) >= 0
      BY NetworkAssumption
    <3> QED
      BY <3>1 DEF NetInit, IssuedOK
  <2> QED
    BY <2>1, <2>2, IssuedAsked DEF RequestStatus
<1>5. ServiceInv /\ [NetNext]_vars
        => [Service!Next]_([id \in Requests |-> RequestStatus(id)])
  BY ServiceStep
<1> QED
  BY <1>3, <1>4, <1>5, PTL DEF NetSpec, ImplementsService, Service!Spec
=============================================================================
