# Verification of OICNSIM

OICNSIM simulates an overlay of information-centric networking (O-ICN) on ns-3.
Clients ask an *ICN manager* for contents by name; the manager directs a router
that has cached the content, or else a server, to send it; the content travels
to the client over IP, and ICN routers on the way cache it. This directory holds
TLA+ modules that model that behaviour, TLC configurations that check it on small
instances, and TLAPS proofs of what holds for every instance.

The modules are translated from the C++ sources under `src/model`, and two of them
from `src/html/search/search.js`, the script that the repository ships with its
documentation pages (written by Doxygen, not by the simulator's authors).
`PROJECT.json` maps every definition to the lines it stands for.

## 1. The system

ns-3 is a sequential discrete-event simulator: handlers run one at a time, each to
its end. Concurrency is between *packets and timers*: whatever happens between the
sending and the receipt of a packet interleaves with everything else.

| Component | State | Operations | Interacts with |
|---|---|---|---|
| `NamedContentCache` and its subclasses `CacheWithFifo`, `CacheWithLRU`, `CacheWithLFU`, `SimpleUniversalCaching` (SUC) | `cache` (name -> entry), `policyindex` (bimap index - name), `cache_size`, `freshness_time` | `CreateEntry`, `CreateIndex`, `InsertToCache`, `InsertToPolicyIndex`, `IsFull`, `IsUnique`, `IsEvictable`, `EvictEntry`, `Find`, `UpdateIndex` | called by `CacheManager` and `IcnRouter` |
| `CacheManager` | none | `SetEntry` | calls the store of its node and the static functions of `IcnManager` |
| `IcnManager` | static `cachedRouterTable`, `nameServerTable` | `ReadPacket`, `NameResolution`, `SendAckToClient`, `SendToSource`, `Set-`/`EvictCachedRouterEntry` | queries from clients, acknowledgements to clients, directions to routers and servers |
| `IcnRouter` | socket | `ReadPacket`, `SendToClient` | directions from the manager; `Find` on the store of its node |
| `SublayerProtocol` | `m_set_non_cachable`, the headers last removed | `OICNSublayerCheck`, `ConstructPacket` | called by `Ipv4RouterL3Protocol::Receive` for every packet; calls `SetEntry` |
| `OicnServer` | `server_content` | `ReadPacket`, `SendToClient` | directions from the manager, content to clients |
| `OicnClient`, `OICNZipfClient` | `m_sent`, `m_i` | `Send`, `HandleReadIcnManager`, `HandleReadSource` | queries to the manager; acknowledgements and content |
| `OicnHeader`, `DnsPlusHeader`, `DnsPlusQuestionHeader`, `DnsPlusAnswerSection` | their fields | setters, `Serialize`, `Deserialize` | every packet of the overlay |
| `Ipv4RouterL3Protocol` | fragments, timers | `Receive`, `Send`, `DoFragmentation`, `ProcessFragment`, `HandleFragmentsTimeout` | a copy of ns-3's IPv4 with the call of `OICNSublayerCheck` |
| `Content` | none | `GetContent` | names from indexes |
| documentation browser: `SearchBox`, `SearchResults` of `search.js` | the search field, the menu of sections, the results window, two timers; rows displayed, children displayed, focus | handlers of keys, mouse, focus and timers; `Search`, `Nav`, `NavChild`, `Toggle` | each other through `focus ()` and `blur ()`, a frame and its parent page |
| helpers, example, tests | none at run time | set up topologies | - |

What makes each part correct, and what is hard about it:

* **Stores.** The two containers must agree, the index must be the current one, the
  victim must be the one the policy names, fresh contents must be spared, and the
  store must keep its size. The code keeps all this with separate calls in four
  subclasses; errors show only after long sequences of insertions, uses and
  evictions.
* **Store and manager.** The table the manager resolves names with is global and is
  updated by `SetEntry` on four paths; it must list exactly what is cached.
* **Overlay.** A request fans out into an acknowledgement and a direction; sources
  answer later, when caches have changed. It must be answered once and truthfully,
  and in the end. Datagrams can be lost and applications stop.
* **Headers.** Setters of `DnsPlusHeader` *add* to the flag word, so setting a field
  twice adds up on the wire.
* **Messages.** Which of the five messages of a request a packet is, is only in that
  flag word and in the port it comes from.
* **Fragments.** A datagram is cut on any link of its way, cut again on the next, and
  put together from pieces that are late, repeated and overlapping, against a timer.
* **Zipf client.** Cumulative sums compared at their boundaries, and names put
  together digit by digit.
* **Documentation browser.** Handlers that run inside other handlers, a timer nobody
  refers to any more, focus that moves between the press and the release of a key.

## 2. Modules

| Module | Models |
|---|---|
| `NamedContentCache` | operators on a store `(c, p)`: the containers, the four policies, and the dispatch of the virtual methods by the constant `Policy` |
| `CacheManager` | the state of all stores, the manager's table and the clock; `SetEntry` as the actions `StoreByEviction`, `RefuseEntry`, `StoreInFreeSlot`, `ReplaceEntry`; `Find` |
| `EvictionHistory` | `CacheManager` with history variables (when inserted, when used, how often), against which evictions are judged |
| `OverlayNetwork` | clients, manager, routers, servers and packets in flight, on top of `CacheManager` |
| `ContentDirectory` | abstract: what stores and manager promise together; a content enters a store and the list in one step, at most one leaves for it, nothing leaves otherwise |
| `RequestService` | abstract: what the overlay promises its clients; each request is settled at most once, served only if some server provides the content, denied only if none does |
| `DnsPlusMessages` | the five messages of a request with their flags words (`DnsPlusHeader`) and the first word of `OicnHeader`, at client, manager and source |
| `Ipv4Fragmentation` | `DoFragmentation` along a route, `ProcessFragment`, the class `Fragments`, the timers |
| `ContentNames`, `ZipfClient` | `Content::GetContent`; what `OICNZipfClient` adds to a client |
| `SearchPanel` | `SearchBox` of `search.js`: field, menu, results window, timers |
| `ResultsPage` | `SearchResults` and `createResults` of `search.js`: which rows a search shows, how keys move over them |
| `CacheManagerProofs` | theorems about `CacheManager`, and that it implements `ContentDirectory` |
| `EvictionHistoryProofs`, `OverlayNetworkProofs`, `DnsPlusMessagesProofs`, `Ipv4FragmentationProofs`, `ZipfClientProofs`, `SearchPanelProofs`, `ResultsPageProofs` | theorems about the modules they are named after |
| `MC...` | constants for TLC; each policy has a configuration: LFU and LRU in `MCEvictionHistory`, FIFO and SUC in `MCOverlayNetwork` |

How they fit together: `OverlayNetwork` extends `CacheManager`, which extends
`NamedContentCache`. `OverlayNetwork` implements `CacheManager`, which implements
`ContentDirectory`; and it implements `RequestService`, which knows no packets, manager
or caches. The state of that service, `status`, is read off the packets in flight and
the clients' logs (`RequestStatus`). `DnsPlusMessages` is what `OverlayNetwork` takes for granted of
its messages, `Ipv4Fragmentation` what it takes for granted of a hop.

Operators whose comment begins with *Faulty* are variants of the definition below
them with a plausible bug. The specifications do not use them; substituted for that
definition they must make a property fail, which shows that the property depends on
the code (`PROJECT.json`, "mutants").

### State and actions

`cache[r]` and `policyindex[r]` are functions on the names stored at router `r`.
`cachedRouterTable[n][r]` counts how often the pair is in the multimap. An action of
`CacheManager` is one call of `SetEntry` or `Find`, with everything these call:
`StoreByEviction` evicts, tells the manager, inserts into both containers and lists
the new name, in one step, because no other handler can run in between.

`OverlayNetwork` has one action per handler: `Send`, `ReadQuery`,
`HandleReadIcnManager`, `HandleReadSource`, `ServerSends`, `RouterSends` (or
`FindDereferencesEnd`, when the name is gone), and for a content packet at the next
router on its way `RouterCaches`, `RouterDeclines` or `RouterForwards`.

`DnsPlusMessages` has one action for each message sent and for each handler that
reads one. A handler takes a packet only if the flags word, the numbers of sections
and the sections in it are what the code tests for; otherwise the packet stays, as one
that was dropped.

`Ipv4Fragmentation` gives every fragment the positions of its bytes in the datagram.
`Send` and `IpForward` cut, `LocalDeliverFragment` is `ProcessFragment` with all it
calls, `HandleFragmentsTimeout` is the timer.

`SearchPanel` keeps what the handlers share in a record `panel`, and the functions
that handlers call are operators from one such record to the next (`Activate`,
`Search`, `CloseResultsWindow`), applied in the order of the calls. `FocusOn` runs the
focus handler where the browser does, in the middle of the handler that moves the
focus. In `ResultsPage` a key press is a keydown, keypresses and a keyup, each at the
element that has the focus by then.

### Abstractions

* Data, addresses, ports and the text of names are left out. A request is identified
  by its client and its place in the client's list.
* Names with equal indexes are unordered; `EvictEntry` takes any of them, the
  bimap takes the one filed first. What is shown for any holds for that one.
* A content packet arrives with any TTL of `Ttls`; routers that run no sublayer do
  not appear on a `Path`. Paths do not change.
* Acknowledgements of sources to the manager are in `DnsPlusMessages`; the manager
  only logs them.
* Probabilities in `ZipfClient` are whole numbers: a weight for each rank, and a
  random number that falls into one of as many parts as the weights add up to.
* Words in `SearchPanel` are members of a small set with the two ways the code trims
  them; in `ResultsPage`, where an encoding is compared, sequences of characters.
* An end iterator that is dereferenced stops the simulation (`crashed`). It is
  undefined behaviour, so nothing is claimed about what follows.
* `ReplyPortBound`, `Lossy`, `Mtu` and `MaxDuplicates` stand for the socket and channel
  code of ns-3, which is not part of this repository. A fragment that is lost is one
  that has not arrived when the timer fires, which it may do at any time.
* The browser is external: what is hidden loses the focus, one special key is held at
  a time, the mouse is not used while a key is held.

### Assumptions

`SizeAssumption` asks for a positive cache size: with 0 every policy evicts from an
empty index. `NetworkAssumption` asks for lists of names at least as long as
`MaxPackets` (the code reads past the end otherwise) and at least one name, and for
servers and routers to be different applications. A server
holds what is registered for it. `FloatAssumption` says the rounding to a float is
monotonic, which IEEE rounding is, and `RangeAssumption` that unsigned numbers go beyond
100000, so that the indexes of SUC, whose sums lie between -59687 and 30000, do not
collide when they wrap around. `DatagramAssumption` asks that a link takes at
least one unit of a fragment offset. `ZipfAssumption` asks for weights that do not
increase, as the law's do not. `PanelAssumption` holds of the tables in `search.js`,
which have a first section. `EntriesAssumption` and `SortedAssumption` hold of the
generated search data: a row has no children or at least two, and the rows a search
shows follow each other, because they are sorted by id.

## 3. What TLC checks

| Run | Constants | Shows |
|---|---|---|
| `stores` | 2 routers, 3 names, LFU, size 2, freshness 1, times 0..1, up to 3 uses | the four paths of `SetEntry` and `Find` keep table, containers and indexes right (`TypeOK`, `DirectoryMirrorsCaches`, `ContainersAgree`, `IndexIsCurrent`) and implement the directory (`ImplementsDirectory`); evictions, admissions and refusals are what the history calls for (`EvictionFollowsPolicy`, `FreshContentKept`, `AdmissionIsDeserved`, `GrowthIsForced`) |
| `lru` | 1 router, 4 names, LRU, size 3, times 0..6 | `EvictionFollowsPolicy`, where timestamps are rounded to a float |
| `network` | 2 clients with 2 requests each, 2 marking routers in a line, 1 server, FIFO, size 1, losses, a router that may stop | `NetTypeOK`, `RequestInOnePlace`, `AckTellsTruth`, `OneCopyPerReply`, `CapacityRespected`, `AstrayOnlyByEviction`, `ImplementsService` |
| `liveness` | the same clients, no losses, replies that stay cachable, SUC, TTL 128, size 1, freshness 2, fairness | `EveryRequestAnswered`, `IndexInHopBand` |
| `fragments` | datagrams of 6 and 4 bytes, unit 2, a link of 5 bytes, then one of 2 or 4; one duplicate; fairness | `TimerPerBuffer`, `DeliveredAsSent`, `CompleteIsDelivered`, `PartialIsPrefix`, `OneFate`, `DatagramAccountedFor` |
| `exchange` | one request for each place a content may be in; fairness | `LogsTellTruth`, `NoMessageCached`, `EveryRequestResolved` |
| `zipf_queries` | seven ranges around the indexes at which names grow, up to 3 packets | `SocketWhenDue`, `NamesTellContents`, `DrawnByWeight` |
| `results_keys` | 5 rows, three with children, two that share an id, names that are prefixes of others' encodings, 4 searches | `RowsByName`, `FocusOnDisplayed`, `UpUndoesDown`, `ChildrenAsAsked`, `OneStepPerKeydown` |
| `panel` | 5 words with spaces and without results, 2 sections, one timer left running | `TypeOK`, `LastValueIsShown`, `InactiveIsReset`, `NotHiddenUnderMouse` |
| `lfu_capacity` | LFU, freshness 1 | a violation of `CapacityRespected` |
| `dangling_find` | LRU, size 1 | a violation of `NoDanglingFind` |
| `refragmented` | a link of 4 bytes, then one of 2; 8 bytes | a violation of `DeliveredAsSent` |

The type invariants of `Ipv4Fragmentation`, `DnsPlusMessages`, `ZipfClient` and
`ResultsPage` are proved (section 4) and not checked again by a run.

The three runs that end in a violation are disagreements between the code and its
documentation; "findings" in `PROJECT.json` quotes both:

1. **LFU stores outgrow their size.** `IsEvictable` accepts a newcomer that is no
   colder than the least used content, but `EvictEntry` erases expired contents only.
   `GrowthIsForced` says what is left of the capacity: a store outgrows its size only
   while all of its least used contents are within the freshness time.
2. **A router looks for what it has evicted.** Between the manager's resolution and
   the arrival of the direction the content can be evicted; `Find` then dereferences
   `end ()`.
3. **A last fragment that is cut again is put together wrongly.** `DoFragmentation`
   adds the offset of a fragment to its pieces only if more fragments follow
   (`ipv4-router-l3-protocol.cc:1287`); the pieces of the last one start again at 0.

So three properties hold only where the code keeps them. `CapacityRespected` holds in
`network` because its stores are FIFO, and `NetCapacityCorrect` says that this is enough.
`DeliveredAsSent` holds in `fragments` because the last fragment of each datagram fits
the second link, and `DeliveredIsSent` says that this is enough (its `LastFragmentKept`
is true of the constants of `fragments` and false of those of `refragmented`).
`NoDanglingFind` holds where every store has room for all names, which is `RoomForAll`.
`network` reaches the state in question and stops there; `AstrayOnlyByEviction` says
that the store it happened at was full.

### Other disagreements seen

Met while translating; the modules do what the code does, and no property takes the
side of the documentation.

* `named-content-cache.h:210` has a newcomer accepted if its index goes beyond that of
  the first content or if *any* content's freshness has expired, and the comment at
  `cache-manager.cc:101` calls what was refused "not higher than the lowest entry".
  The code accepts an equal index too and looks for an expired content only among those
  that share the first index (`cache-with-lfu.cc:96` and `99`,
  `simple-universal-caching.cc:106`): an expired content that is used more than the
  least does not get a newcomer in. `AdmissionIsDeserved` is about what the code does,
  and `stores` reaches both cases.
* A client takes only a reply that is still cachable for content
  (`oicn-client-application.cc:286`); one that a router has cached and marked, as the
  helper has it by default (`router-stack-helper.cc:67`), is logged and dropped.
  `oicn-header.h:47` speaks of routers only. This is `discarded` in `OverlayNetwork`,
  and why `liveness` needs replies that stay cachable.
* `MaxPackets` 0 sends one packet: the limit is tested after the first
  (`oicn-client-application.cc:121` and `168`).
* `GetNextContentIndex` compares the first index with `m_Pcum[0]`, which is 0
  (`oicn-zipf-client.cc:168`), so the first content of a range of several is never
  drawn, though `oicn-example.cc:181` says the client asks for the range.
  `DrawnByWeight` is about the others.
* `ConstructSublayer` calls `SetNonCachable ()` after `SetRequest ()`
  (`oicn-client-application.cc:203`), which assigns the whole word: a query is marked
  as data. No router caches it all the same (`NoMessageCached`).
* The comment at `ipv4-router-l3-protocol.cc:1560` asks for at least 8 bytes for a Time
  Exceeded message, the test for more than 8.
* `search.js`: Down goes one item past the last of the menu (line 307), where searches
  throw; a search timer that was left running opens the results of a panel that has
  been deactivated (lines 344 and 427).
* `search.js` finds rows by an id (line 451) that the generated data repeats for a class
  and its constructors. `FindChildElement` then finds the first row; the link of the
  second one toggles nothing, and its children can never be shown: the constructors of
  `Ipv4RouterL3Protocol` (`all_9.js:32`), `OicnClientHelpher` (`all_d.js:19`) and
  `OicnZipfClientHelper` (`all_d.js:32`).
  `results_keys` has two such rows, and `ChildrenAsAsked` is about the others.

### Bounds

* Names exceed the cache size by one, the least for which evictions happen, and the
  store holds more than one name, so that there is a victim to choose.
* `MaxTime` covers insertion, a wait of the freshness time, and a later eviction: in
  `stores` every content is either inserted now or expired. For LRU it must outgrow the
  precision of a float: `TwoBitFloat` has a
  significand of two bits instead of 24, so rounding starts at 4 ms instead of
  2^24 ms.
* `MaxFrequency` is 3, so that of two contents that have both been used again one can be
  used more than the other: a store then refuses although the content that is used more
  has expired.
* `UintRange` is 2^20 instead of 2^32. In `liveness` contents arrive with TTL 128: their
  distance is negative and their index wraps around.
* Two routers in a line are the least for which the mark of the first matters to the
  second; two clients and two or three requests let an eviction by one request fall
  between the resolution and the answer of another.
* In `network` the clock stands still (`MaxTime` 0), which leaves every FIFO victim
  possible. In `liveness` a SUC store of size 1 refuses what is colder than its
  content and otherwise grows, so routers store, serve and refuse, and evict nothing
  within the freshness time.
* `Align` is 2 bytes instead of 8. Three units are the least of which the middle one
  can be missing, two routes the least for which fragments overlap, and one duplicate
  lets a fragment come after its datagram is complete.
* `ZipfWeights` are the law's for three ranks, rounded; the ranges cover every index
  at which a name gets another digit, up to 999999, where names end.
* `MaxLeftRunning` 1: a second timer that nobody refers to does what the first does.
* Two sections are the least for which the one behind the last differs from the next;
  the words are empty, the label, with a leading space, with an inner space, plain.

Symmetry of names and routers is used only in runs of `CacheManager` and
`MCEvictionHistory`, none of which checks liveness.

### Fairness

`FairNetSpec` has weak fairness of each client's `Send` and of the delivery of some
packet in flight. The event queue of ns-3 executes every scheduled event in the order
of its time, and `Send` and every hop of a packet are scheduled events. No fairness
is assumed of losses, of stopping applications or of the clock. The set of requests
is finite, so delivering some packet again and again delivers all of them.

In `Ipv4Fragmentation` the arrival of some packet in flight and every timer are
weakly fair, because both are scheduled events; sending a datagram and duplicating a
packet are not. In `DnsPlusMessages` sending each request and receiving some packet in
flight are weakly fair; losses are the subject of `OverlayNetwork`.

`CHECK_DEADLOCK FALSE` where the system ends: when all packets have been sent and
delivered, the client has stopped, or a key has closed the results. The stores and the
panel never end, and deadlock is checked.

## 4. What is proved

"Proved" means for all values of the constants that satisfy the assumptions of the
module, and the conditions named here. The assumptions are those of section 2.

### Stores and manager (`CacheManagerProofs`)

* `TypeCorrect`, `ContainersCorrect`, `DirectoryCorrect`, `IndexCorrect`:
  `Spec => []TypeOK`, `[]ContainersAgree`, `[]DirectoryMirrorsCaches`,
  `[]IndexIsCurrent`;
* `CapacityCorrect`: `Spec => [](SureToEvict => CapacityRespected)`, where
  `SureToEvict` says that the policy is FIFO or LRU or the freshness time is 0. This
  is the other half of finding 1;
* `BandCorrect`: `Spec => []IndexInHopBand`: under SUC an index lies in the band of its
  entry's distance, for all TTLs. With a TTL above 64 the distance is negative, and what
  of the band is below zero wraps around to the top of the unsigned numbers: contents from
  hosts that send such TTLs may be evicted last;
* `DirectoryImplemented`: `Spec => ImplementsDirectory`.

`DirectoryMirrorsCaches` alone is not inductive. `EvictEntry` takes its victim from the
PolicyIndex; for the table to lose exactly one pair the victim must be in the Cache,
which is `ContainersAgree`, and the decrement needs the types. The inductive invariant
`DirectoryInv` is the conjunction of the three. `StoreStep` and `FindStep` say what
`Store` and `Find` leave behind (`Replaced`), and each action is then a matter of which
names were erased. `IndexInv` adds that indexes are current, `CapacityInv` that no
timestamp lies in the future, which makes every entry expired when the freshness time
is 0, and that sizes are kept; that eviction finds a victim follows from the least
element of a non-empty set of indexes (`MinimumExists`, from the well-foundedness of
`<`). For the refinement: under `DirectoryInv` what is listed is what is stored, so both
variables of the directory are the names of the caches, and each action is an exchange
of at most one name (`ExchangeStep`) or none (`SameNames`).

### Evictions (`EvictionHistoryProofs`)

`LowestEvicted` and `StaleEvicted` are action properties, `HistorySpec =>
[][EvictionFollowsPolicy]_vars` and `[][FreshContentKept]_vars`; `AdmissionsDeserved` is
`HistorySpec => []AdmissionIsDeserved`; `GrowthForced` is `HistorySpec => GrowthIsForced`.
`StoresWatched` (`HistorySpec => Spec`) carries over what is proved of `CacheManager`.
Under LFU and SUC a full store that accepts a content and evicts none has found no expired
one in the front group of the PolicyIndex (`GrowthFindsNoVictim`). The victim comes
from the front of the PolicyIndex. That it is also the lowest by the history needs that indexes are current
(`IndexInv`) and that entries say of themselves what has happened to them
(`Recollected`): `timestamp` is when a content was inserted under FIFO and LFU, when it
was used under LRU and SUC, and `frequency` under LFU how often. These theorems hold
for all four policies; TLC checks the history for LFU (`stores`) and LRU (`lru`) only.

### Overlay (`OverlayNetworkProofs`)

For all topologies, lists of names, losses and stopped applications:

* `StoresImplemented`: `NetSpec => Spec` of `CacheManager`. A router serves a name only
  if it has it, and has what it serves only if it is listed; with that, every theorem
  about `CacheManager` holds of the network: `NetDirectoryCorrect`, `NetCapacityCorrect`,
  `NetBandCorrect`;
* `ServiceImplemented`: `NetSpec => Service!Spec` of `RequestService`;
* `StrayOnlyByEviction`: `NetSpec => []AstrayOnlyByEviction`, for every policy; and
  `RoomForAll`: if `CacheSize >= Cardinality(Names)`, `NetSpec => []NoDanglingFind`. This
  is the other half of finding 2;
* `NetTypeCorrect`, `AcksTrue`, `RepliesStoredOnce`, `RequestsInOnePlace`.

`NetInv` adds to the types three facts. What is cached anywhere is provided by some
server (`CachedProvided`), because content is only ever sent on behalf of a direction to
a server or to a router that has it: without it a table of cached contents could turn a
NACK into an ACK. Acknowledgements in flight are true, not only those logged. And a
content packet in flight is cachable only if no router that marks has stored it
(`StoredOnce`).

`RequestInOnePlace` counts places in two sums of packets. `PlaceInv` says the same of
each request without counting: at most one packet carries it on (`OneCarrier`), none
after an answer and no content after a NACK (`AnsweredOnce`), and one if nothing is lost
(`NoneLost`). A truthful ACK does not count as an answer, because content follows it.

A direction to a router is for a content that the router has when it is sent
(`DirectoryMirrorsCaches`). `KeptUnlessFull` says that a name leaves a store only if the
store is full, and that the store is full afterwards, because an eviction erases one name
and makes room for one. So a direction that has gone astray (`Stray`) is for a full store
ever after, and a store that is full of all the names there are lacks none (`StrayInv`).

For the refinement, `ServiceInv` adds that replies are marked only where routers are told
to (`OnlyMarked`) and that a NACK which was logged is not in flight again (`OneNack`). A
request is pending while some packet leads on to its answer, and by `PlaceInv` there is
one at most: a handler replaces that packet by another that leads on (the request stays
pending), or settles the request and leaves none. An ACK that promises content leads
nowhere itself, so its arrival changes nothing for the client. No handler touches more
than one request (`OthersKept`).

### Messages (`DnsPlusMessagesProofs`)

`LogsCorrect`, `MessagesNotCached` and `MessageTypeCorrect`, for all requests and
locations, from an invariant that enumerates the messages that can be in flight, each
with the numbers its flags word reads as.

### Fragments (`Ipv4FragmentationProofs`)

* `FragmentationTypeCorrect`, and `TimersCorrect`: a buffer exists exactly while its
  timer runs;
* `PiecesInPlace`: the pieces of a packet that is whole or has more fragments behind it
  hold, at their offsets, the bytes they stand for. It does not hold of a last
  fragment, which is finding 3;
* `CompleteDelivered`, `DeliveredIsSent` and `PartialLeads`: on links that begin the last
  fragment of a datagram at one place and do not cut it again (`LastFragmentKept`), no
  buffer is complete, what is delivered is what was sent, and what a timeout reports is
  a beginning of it. `OneSizeKept` says that links of one size are such links;
* `OneFateOnly`: on such links, a datagram of which nothing was duplicated is not both
  delivered and reported as timed out.

The condition is what finding 3 leaves: it names the datagrams the code puts together
rightly. `PiecesInv` says that every piece, the last included, is in its place, that
lists are sorted by offset, and that the flag of a buffer says whether the fragment at
its end is the last one. `IsEntire` looks for gaps between the ends of the pieces and the
starts of the next, `GetPacket` cuts what overlaps off the length joined so far. Both go
by the list, so the proofs are inductions over it.

`FateInv` says where bytes are as long as nothing is duplicated. Packets of a datagram and
its buffer have no byte in common; of what was delivered nothing is left, and of what
timed out some byte is nowhere any more (`Gone`). Cutting keeps this because two pieces
begin a multiple of the fragment size apart (`PiecesApart`), joining because a buffer
gains exactly the bytes that arrive (`AddedBytes`); an entire buffer holds all bytes
(`HeldBytes`), so none of them can be gone.

### Zipf client (`ZipfClientProofs`)

`TypeCorrect`, `SocketOpen`, `WeightsFollowed`, and `NamesTold` for indexes of at most six
digits (`SixDigits`; above, all names are equal). `ZipfInv` bounds the packets sent while
one is due. The cumulative weights increase strictly, so the numbers drawn for the k-th
content are those above `Pcum[k - 1]` and up to `Pcum[k]`, of which there are as many as
its weight (`DrawnFor`). A name of at most six digits determines on which side of the
slash how many digits stand, and the digits put together are the index (`DigitsTell`).

### Documentation browser (`SearchPanelProofs`, `ResultsPageProofs`)

* Panel: `TypeCorrect`, `LastValueShown`, `InactiveReset`, `MenuStaysUnderMouse`, for any
  words and sections. `PanelInv` is kept by each of the functions that handlers are made
  of, in the order in which they are called; `Activate` and `FocusOn` may start without
  part of it and restore it.
* Results: `TypeCorrect`, `FocusDisplayed`, `UpLeadsBack`, `ChildrenCorrect`,
  `OneStep`, for any rows sorted by id. `UpUndoesDown` is about a walk over rows in which
  the child to go up to is taken from the row before, not from the row found; it holds
  because displayed rows follow each other, and because children are displayed only of
  rows that `FindChildElement` finds from themselves, which is part of `PageInv`.
* `RowsAreByName`: `Spec => []RowsByName`, for all words, if ids are what `convertToId`
  makes of names (`IdsAreEncoded`; it holds of all rows of the generated data).
  Encodings have one or three characters, none of which begins another, so of two
  words one begins with the other exactly if their encodings do
  (`EncodingKeepsPrefixes`).

### Induction

The library's induction theorems take an operator as a parameter, which the installed
provers cannot instantiate. Where the code loops (`GetPacket`, `SetZipf`,
`convertToId`) the modules use recursive functions, and the proofs argue by a least
counterexample: the set of lengths at which the claim fails is a set of natural numbers,
and its least element contradicts it. In this way it is also shown that the recursive
equations have a solution at all (`RunExists`, `PcumRec`, `ConvertToIdRun`).

### Only model-checked

Liveness (`EveryRequestAnswered`, `DatagramAccountedFor`, `EveryRequestResolved`), because
the provers do not handle `ENABLED` and fairness; and what `lfu_capacity`,
`dangling_find` and `refragmented` show, which are counterexamples.

## 5. What is not modelled

* The rest of `Ipv4RouterL3Protocol`, a copy of ns-3's IPv4 layer: interfaces,
  routing, ICMP and multicast carry none of the overlay's logic.
* The codec of names in `OicnHeader` and of the question and answer sections: data no
  property tells apart.
* Helpers, the example and the test suite (an empty template): they act before the
  simulation starts.
* `search.js`: positions on the screen and surrogate pairs. `dynsections.js` folds
  tables and changes only the layout; the other scripts under `html/search` are
  generated tables.
* `latex`, `classdiagram` and `doc`: text and diagrams.

## 6. Plan

Done: all modules above. Every invariant and action property that a passing run checks
is stated by a theorem, and so is each of the three refinements.

Left: what is delivered when a last fragment has been cut again, where
`LastFragmentKept` fails; and liveness, if a prover for fairness becomes available.
