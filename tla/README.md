# A TLA+ model of CNproject

CNproject is a set of C++ applications for the ns-3 simulator: a Chord-like ring
(`src/Chord/gu-chord.cc`) with a search layer above it (`src/Chord/gu-search.cc`), and a
link-state routing protocol (`src/ls-routing-protocol.cc`, `src/tables.cc`). This directory
models them in TLA+, checks the models with TLC and proves theorems about them with TLAPS.

ns-3 is a discrete-event simulator: it runs one event (a command of the scenario file, a
received datagram, an expired timer) to completion before the next. One action of a model is
therefore one event with everything its handler does. What interleaves is the order of events
and the fate of datagrams.

## The system

| part | state | operations | talks to |
|---|---|---|---|
| GUChord ring | `m_pred`, `m_suc`, three SHA-1 digests, `m_stabilizeTimer`, `m_socket` | JOIN (`createChord`, `joinChord`), LEAVE (`nodeLeave`), RINGSTATE, eight message handlers, `Stabilize`, `StopApplication` | the GUChord of other nodes, by UDP |
| GUChord ping | `m_pingTracker`, `m_currentTransactionId`, `m_auditPingsTimer` | `SendPing`, `ProcessPingReq`, `ProcessPingRsp`, `AuditPings` | other nodes; callbacks into GUSearch |
| GUSearch | its own ping tracker, counter and timer, `iTable` | PING, CHORD (passed down), TABLE; `HandleChordPing*`; audit | calls GUChord, is called back by it |
| GUChordMessage, GUSearchMessage, LSMessage | - | serialise, deserialise | used by all of the above |
| LSRoutingProtocol | neighbour table, route table, sequence number, ping tracker, two timers | `DoStart`, ND_REQ, ND_RSP, LSP, PING, audits | neighbours, by broadcast |
| chord_node | a list of pointers | add, remove, print | nothing: gu-chord.h includes its header, but no object of it exists |

What is hard in it:

* Every join is a walk of messages (JOIN_REQ, FIND_SUC_REQ passed on, JOIN_RSP, NOTIFY_PRED)
  in which each node decides with its own copies of names and digests, which may be stale;
  several walks, stabilisation and losses interleave.
* Names and digests are kept separately and not always updated together.
* Timers, sockets and the application's life: `StopApplication` leaves one timer running.
* A ping has three possible ends, an answer, an audit, an unknown address; answers may be
  late, lost, or carry an id that has been used again.

What makes the parts correct: joiners end up on one ring with the founder; a node nobody told
to join stays out; a command has one walk; walks end; every ping has one verdict and has it in
time; the process dies for known causes only. `PROJECT.json` lists the hazards one by one
with the line where each bites and the properties that cover it.

## Modules

**ChordRing** is the ring protocol. Its variables have the names of the members of GUChord,
as functions of the node, plus `net` (a bag of datagrams), `issued` (commands given so far),
`usedStopped` (the nodes given a command after their StopApplication) and `aborted` (the simulator
process has died). `issued` bounds the scenario; `usedStopped` is a history variable, read by
properties only: counts of commands do not tell in which order they came. Each handler is an action or a disjunction of
actions, one per branch: `ProcessFindSucReq` is `FindSucReqSelf`, `-Above`, `-Forward` and
`-Below`. `RecvMessage` dispatches on the type; `ProcessCommand` on the command.
A name is a node number or `NoNode`, the empty string. A digest is abstracted to its rank
`Hash[name]`, which is all that `memcmp` tells apart; `Indeterminate` stands for bytes that no
statement has written (the arrays are not initialised) or that SHA1 reads from beyond a name
(`MixedHash`, for the call at gu-chord.cc:611). A comparison with indeterminate bytes may go
either way. A datagram to the empty name resolves to 0.0.0.0 and goes nowhere (`Post`).
Two things end the process: scheduling a pending timer (ns-3 aborts) and sending through
the socket that `StopApplication` has set to null.

**MCChordRing** gives the scenarios: which nodes may get which command and how often, and the
real order of the SHA-1 digests of the names 1 to 5 and of the empty name, so that the
comparisons are those the program makes.

**PingTracker** is the ping book-keeping that GUChord and GUSearch each hold a copy of: entries
by transaction id, the counter, the audit timer. An entry carries its age instead of its time
stamp and `auditIn` the time left on the timer, so that no clock grows.

**PingLayers** composes two instances of it, `Chord` and `Search`, for one node: GUSearch's
command goes down to GUChord; GUChord's success callback makes GUSearch ping the peer's search
layer in the same event. `successes` and `failures` count the callbacks for each ping.
GUChord's ring messages take their transaction ids from the same counter as its pings
(`RingTakesId`, with `idsElsewhere` for how many). Nodes
share nothing in this protocol, so one node with the network around it is enough.

**PingService** is the abstract specification of what a caller of `SendPing` is promised:
at most one verdict; a failure at once if the address is unknown, otherwise not before the
timeout and before twice the timeout. Ids, trackers, datagrams and timers are not in it.
`PingLayers!ServiceSpec` instantiates it with a refinement mapping: the status of a ping is read
off the callbacks and the tracker, and its waiting time is the age of its entry.

**LinkState** is the discovery of neighbours and the exchange of link-state packets by
LSRoutingProtocol, with `nTable` and `rTable` as sequences in the order in which `nTableInsert`
and `rTableInsert` push. `DoStart` is in Init, because all nodes start at time zero;
`ProcessNdReq`, `ProcessNdRsp`, `ProcessLsp` are the handlers, each run for one copy of a broadcast
in flight. `Heard` is the set of copies that a broadcast makes, one for each other node on each
link of the sender; copies whose receiver would do nothing (an answer addressed to another) are
not put in flight. A node is its number, which stands for its addresses and comes back from
`m_addressNodeMap`. `Route` is the entry that ProcessLsp builds. The constructor with three
arguments does not write `dijCost`, so `isNew` has either value when it compares one
(`Unwritten`), and `ProcessLsp` has as many outcomes as there are choices along the packet.
`network` is the topology; its `lost` says which types of message of which nodes never arrive.

**MCLinkState** gives the networks.

**LinkPing** is PING of LSRoutingProtocol over the links of LinkState, which it instantiates:
one action of LinkState, or one of the pings. Requests and answers are broadcast, nothing is
passed on, and each node has a tracker, a counter and an audit timer; the code repeats
GUChord's book-keeping with other details, so it is translated again and not taken from
PingTracker. `answers` and `expiries` count the ends of each ping. `LinkPing!ServiceSpec` is a
second refinement of PingService: an entry's age is the waiting time here too, but an unknown
node number is not reported. Discovery and pings meet in the counter and in the socket only.

**MCLinkPing** gives the networks: a line, a shared subnet, a doubled link, a single one.

**MessageCodec** is the three classes of messages in bytes. GetSerializedSize, Serialize and
Deserialize are written one by one for every payload in the code; here each payload gives the
fields that each of the three goes through, in the order and with the kind of number the code
uses for it (network order for transaction ids and most addresses, host order for tables and
for the fields of ND_RSP). Writing and reading are recursive functions over the fields, as the
code has one statement per field. `AddHeader` makes room and writes, `SendTo` refuses what
is longer than a datagram, `RemoveHeader` reads.

**SearchIndex** is TABLE of GUSearch: `makeItable` cuts the lines of a file at spaces (`Cut`)
and adds each document to the lists of its keywords. The reference, `Postings`, finds the
keywords by the positions of the spaces and does not cut.

**MCData** gives messages and files. The codec and the index share nothing with each other, so
the instance does one or the other.

**ChordRingProofs**, **ChordSearchProofs**, **PingProofs**, **PingVerdictProofs**,
**LinkStateProofs**, **LinkPingProofs**, **DataProofs** hold the theorems about the model of that
name; **Induction** has the general ones on which proofs about recursive functions and about sums
over a bag rest.

Definitions commented "Faulty variant of ..." are not part of the system: each is a plausible
mistake in one definition, put in its place to see that a property notices (see "mutants" in
`PROJECT.json`).

## Runs

All runs end with no state left, and deadlock checking is off because a scenario that has given
its last command to a network without a ring is quiet for good.

| run | scenario | shows |
|---|---|---|
| RingMixed | 3 nodes; 1 may found twice, leave, stop, join; 2 joins and leaves; 3 only asks for RINGSTATE; JOIN through 1, through 3 (no ring) or an unknown name | TypeOK, BystandersStayOut, RingNeedsFounder, MyHashIsOwn, AbortHasCause |
| RingJoins | 3 nodes, any of them founds and joins through any; datagrams may be lost | OnlyFounderAlone, TwoJoinsKeepRing |
| RingLive | 4 nodes, three overlapping joins through founder 2, whose digest is the greatest; RINGSTATE; fairness | OneWalkPerCommand, JoinAnswered |
| RingCalm | 3 nodes, every command waits until the network is silent; fairness | TwoCalmJoinsFormRing, RingstateEnds |
| Ping | 2 peers and an unknown address, PING one or all, timeout 2, ids modulo 3 starting anywhere, one of them taken by a ring message; loss, late answers, stop; fairness | TypeOK, AgesBounded, OneVerdict, SearchAfterChord, VerdictComes, ServiceSpec |
| LinkTables | three nodes: a line; a subnet with all three, one's packets lost; two nodes with two links between them, one's packets lost; any order of delivery; fairness | TypeOK, NeighboursCounted, LspsArePrefixes, RoutesWitnessed, QuietTablesComplete, DiscoveryEnds |
| LinkPings | four networks of up to three nodes, pings from 1 to 2, 1 to 3 and 3 to 1, timeout 2, sequence numbers modulo 2 starting anywhere; some types of message lost; fairness | TypeOK, OneFate, AnswersMatch, EchoBounded, OnlyNeighboursAnswer, AgesBounded, TrafficEnds, ServiceSpec |
| Data | every payload of the three message classes with texts around the limits; files read by TABLE | SizesAgree, ArrivesAsSent, ReadsWhatIsThere, IndexIsInverted |
| LinkReach | a line of four nodes, nothing lost | violates AllNodesRouted |
| RingPredHash | founder and two joiners | violates PredHashMatches |
| RingLeave | founder 2; 1 joins and leaves, every command in a silent network; fairness | violates LeaversForgotten |
| RingStop | a founder that is stopped | violates StoppedTimersCancelled |

The last four show where the code departs from what the repository says of it; the findings in
`PROJECT.json` quote them. LeaversForgotten asks only for a LEAVE of a node that is in a perfect
ring, and excuses it if the node joins again: TLC's trace is a ring of two from which 1 leaves, its
two notifications going to 1 itself. StoppedTimersCancelled leaves out nodes that were given a
command after the stop: TLC's trace is CREATE, then StopApplication, with the timer pending.
With a `nodeLeave` that sends to the old neighbours, and with a `StopApplication` that cancels the
timer, the two properties hold in the same runs, so what they show is those two lines.

### Bounds

* `Limit`: each node gets each command once (founding and joining twice for node 1 in
  RingMixed). `MaxInFlight = 2`: the stabilisation timer fires only while fewer than two
  datagrams travel. Without a bound timers would fill the network with equal requests;
  two are enough for a request of one node to cross an answer to another, or a join's.
  Handlers and commands are not held back.
* Three nodes are the smallest ring in which predecessor and successor differ and a node can be
  bypassed; RingLive has a fourth so that three joins overlap.
* In Ping each peer is pinged once with each text (`asked`). Two pings and one id taken by a ring
  message (`MaxElsewhere = 1`) use up the three ids, so the counter wraps around from any start but
  the lowest; timeout 2 gives ages on either side of the limit at an audit. That an id is
  given out again while its first ping is tracked, after 2^32 others, is excluded by `NoWrap`.
* In LinkTables three nodes are enough for a neighbour's neighbour, for a route that is learnt both
  directly and through another, and for an answer heard by a node it is not meant for; two links
  between two nodes make each be listed more than once. Nothing counts up without a bound: the
  traffic ends by itself (DiscoveryEnds), so the runs bound nothing. The packets of one node are
  lost where three senders would make the orders too many for TLC. A single lost copy is not an
  action of its own: for the safety properties it is a copy that has not been delivered yet.

* In LinkPings the two pings of node 1 use up its two numbers, which are also those of node 3: an
  answer matched by its number alone could be anybody's. 3 is a neighbour on the subnet, two hops
  away on the line and unreachable elsewhere. Timeout 2 gives an entry either age at an audit. The
  doubled link gives one ping two requests and four answers. Discovery runs beside the pings on the
  single link, which shows that they leave each other alone; elsewhere its requests are lost.
* In Data a byte has 17 values instead of 256, the fewest with which the TTL 16 fits into one.
  Two bytes count to 288 and the longest datagram has 260 bytes: the texts have
  lengths on both sides of what fits with each header, and on both sides of 288.
  Numbers use one to four bytes; tables have up to two entries. A file has a line of at most five
  words and spaces, which has room for a document, a keyword, an empty piece and a last word;
  another file has two lines. Two TABLE commands read a file again or a second one.

### What the properties cannot be widened to

The bounds in the properties are where the code stops keeping them, found by running without:

* TwoJoinsKeepRing: with three overlapping joins a node can be bypassed, so that following
  successors no longer leads to the founder (4 nodes under a founder that is not the greatest,
  5 under any). A LEAVE or a second JOIN can do the same, hence `EachJoinsOnce`.
* TwoCalmJoinsFormRing: a third join, even in calm, can break the ring because `m_pred_hash`
  is stale (the finding RingPredHash).
* JoinAnswered: with a founder that is not the greatest, the greatest node's search may circle
  for ever.
* OnlyFounderAlone: a node that joins again can be told that it is its own predecessor, and
  cuts itself off. Hence its condition `EachJoinsOnce`.
* QuietTablesComplete says that a route to each neighbour is there, not that a direct one is: a
  neighbour first heard of through another has an entry with an unwritten cost, and its own packet
  may then fail the comparison in `isNew`.
* NeighboursCounted allows one entry for each link that two nodes share, under each link. That many
  there are: each ND_REQ copy is answered on all links.

### Fairness

ns-3 fires every pending timer, and delivers every datagram it does not drop, at a finite
simulated time. So `Stabilize` of each node, the delivery of each type of datagram at each node
(the code has no queue in which one type could hold up another), time and the audits are weakly
fair. In LinkState the copies at each node from each sender on each link are weakly fair together,
and in LinkPing each node's audit too.
Commands, losses and stops are never obliged to happen. RingLive and RingCalm have
no loss, because the code retries nothing. VerdictComes keeps all losses: it is what the audit is for.

## Proofs

Each theorem holds for every set of nodes, ranking of names, timeout and bound that the named
assumptions admit: digests of different names differ (no SHA-1 collision), the empty name
is no node, the command limits are naturals; for pings, that timeout and id modulus are positive
and that `PING *` has no more targets than there are ids; for pings of LSRoutingProtocol, that no
node is told to ping more often than there are sequence numbers (2^32); for messages, that
they have a type of their class and in each field a value that it can hold; for TABLE, that a line is a
sequence of words and spaces without two words side by side. Each is a named ASSUME in the module that
declares the constants.

* `TypeCorrect` - TypeOK of ChordRing is inductive once datagrams are known to have their types;
  the lemmas on bags say what `Post` and `Take` do to the set of datagrams in flight.
* `BystandersSafe` - BystandersStayOut is inductive with TypeOK: every name a handler writes
  comes from a pointer or from a datagram, and both name entered nodes only. It is stated over
  the pointers and the datagrams together because neither half is preserved alone.
* `FounderNeeded` - RingNeedsFounder, with TypeOK: while every pointer is empty, a JOIN_REQ is
  all that can travel, and its search goes to the empty successor.
* `MyHashOwn` - MyHashIsOwn, from the same invariants: only commands write `m_my_hash`.
* `AbortCaused` - AbortHasCause, strengthened by `CauseInv`: a pending timer implies that the
  node was told to found, and a closed socket that it was told to stop. Without these two the
  step that aborts could not be traced to the earlier commands. The causes are three: founding twice,
  a command to a stopped node, and stopping a node that founded. The last is the defect of the
  run RingStop and no misuse; what the theorem says is that nothing else ends the process.
* `FounderAlone` - OnlyFounderAlone. A joiner would cut itself off if the node that answers its search
  had the joiner for a neighbour already. `AloneSound` says that this cannot be: the search
  for a node that joins for the first time is one datagram (`SearchSound`), and while it
  travels no pointer and no other datagram names the node (`Unknown`). BystandersStayOut gives this when
  the JOIN is commanded. `Reply` reduces the handlers to one shape, a datagram taken and at most
  one sent, so that preservation is proved once and not for each of them.
* `RingKept` - TwoJoinsKeepRing. For a founder `f` and joiners `a` and `b` (`Trio`) the invariant is about the
  pair: `Points(a, b)` says that `a` has `b` for its successor, has been told so, or that `b` will tell it.
  Never do both point at each other, and when `a` is told of `b`, `b` has `f`. This needs that a
  search for `a` cannot meet a `b` that has been answered by nobody (`BehindAnswered`): to pass
  searches to `b` the founder must have been notified by it, or have `b` for its predecessor under a
  greater digest, and of that the digest it keeps (`m_pred_hash`) is the guard as long as both are searched for.
  `RecvPair` shows it for all handlers at once, through `Reply`.
* `OneWalk` - OneWalkPerCommand. `WalkSound` counts the copies in flight that belong to the walks of
  a node and bounds them by the commands given. A handler sends for a walk only what it received
  for it (`Reply` again), so its count does not rise; a JOIN_RSP goes to the sender of the
  request, which is the joiner because nobody sends a JOIN_REQ for another.
* `PingTypes`, `PingAges` - the invariant `Sound`: the age of an entry plus the time
  to the next audit is below twice the timeout. A tick moves one unit from one to the other, a
  new entry has age 0, and an audit spares what is younger than the timeout and starts at the
  timeout. The type of an entry bounds its age, so PingTypes rests on it too.
* `SearchFollowsChord` - SearchAfterChord, which is inductive because it speaks of the search
  layer's entries and of its datagrams in flight together.
* `PingsHaveOneVerdict` - OneVerdict. A verdict comes from a tracker entry or a datagram with the
  same id, so the argument is about ids: `VerdictInv` says that those given out so far, to pings and to ring
  messages (`Spent`), are the `Last` ones of the counter (while no more were given out than there are), that each belongs to one
  asked ping, and that an entry and a datagram of one id are of one peer and text. `IdsAreFresh`
  shows that the ids a PING * takes are new and different, so no insertion meets an old entry.
* `PingsImplementService` - PingLayers implements PingService as long as no id is given out twice
  (`[]NoWrap`): each step that ends, begins or ages a ping is the step of that name in PingService,
  every other one a stutter. Without the condition an insertion could meet an entry of the same id.
* `NeighboursAreCounted` - NeighboursCounted, by counting together (`CountSound`) the requests of a node
  that its neighbour has not received, the answers on their way back on one link, and the entries
  under that link. A request turns into one answer on each link, an answer into one entry, so the
  sum never grows beyond the number of requests sent, which is that of the links shared.
* `PacketsArePrefixes`, `ListedAreNeighbours` - the invariant `Sound`: what the tables hold is sound
  and every copy in flight runs between two nodes of its link. The prefix relation alone
  is not inductive: it needs that tables are sequences and that the receiver of an answer, whose
  table grows at the end, is the sender of the packet it causes; `PrefixAppend` then carries
  the older packets over. No assumption on the topology is used.
* `PingsHaveOneFate`, `AnswersAlwaysMatch`, `AnswersFromNeighbours`, `AgesAlwaysBounded` - properties of
  LinkPing, from its invariant `Sound` (`AlwaysSound`): the numbers a node waits for are among
  those it has given out, each for one asked ping of its own; a request in flight carries the number
  under which its sender asked its destination, an answer that of the node it is addressed to, and
  both run between neighbours. It needs the types of messages only, nothing of the discovery.
* `PingsKeepPromise` - LinkPing implements PingService; `Sound` tells which entry a ping waits under,
  so that `StatusOf` and `AgeOf` change as PingService says.
* `LinkState!TypeCorrect` - TypeOK of LinkState. ProcessLsp's outcome is a set of tables defined by
  recursion over the packet (`TablesAfter`), one for each choice of the unwritten costs along it; that each
  of them is a table is shown by induction on the number of entries read.
* `RoutesAreWitnessed` - RoutesWitnessed, by `RoutesSound`: each route is `Learnable`, made from an entry that
  a neighbour who can be heard has listed. It stays so because nothing is ever removed from a neighbour table or
  changed in it; a packet tells nothing else because it is a prefix of its sender's table
  (PacketsArePrefixes), and the induction over its entries carries this from one table to the next.
* `QuietTables` - QuietTablesComplete. The property only says something of a quiet network, so its
  invariant `Promised` speaks of every state: for two neighbours whose messages arrive, the entry is there,
  or the request, the answer or the packet that will bring it is on its way.
* `LinkPing!TypeCorrect` - TypeOK of LinkPing, with the same for the tables of LinkState under the
  steps of both, and `LinksSound` for the copies in flight.
* `EchoesBounded` - EchoBounded. `EchoesSound` counts the copies in flight of a ping's requests, each times the
  links shared, and of its answers. A request is turned into one answer on each shared link, which
  leaves the sum where it was; the command, which is given once for each ping, sends as many requests as there are
  shared links, and nothing else adds to it. The
  sets of copies are finite and change by one or by a broadcast, which `TakeCopies` and `SendCopies` count.
* `RoomFits`, `FieldsArrive`, `AllIsRead` - SizesAgree, ArrivesAsSent and ReadsWhatIsThere, for every size of a
  byte, every message and every length of texts and tables. A number that four bytes can hold is the sum of its
  digits in either order (`FourDigits`, `FourBytes`); what a field is written as is read back from where it stands, a table by
  induction over its entries (`TableBytes`), a message by induction over its fields
  (`Encoded`, `Decoded`). A text's length is read back modulo what two bytes hold, so the proof needs
  that the packet was short enough to be sent.
* `IndexInverted` - IndexIsInverted: TABLE's index is the inversion of the lines read, for every file. `CutUpTo`
  is the invariant of the loop that looks for spaces, stated for the first so many characters;
  `SeenNext` says what one more character does to it. The reference finds the words without cutting,
  so both directions are needed: each piece cut lies between two spaces, and each pair of
  spaces with nothing between is cut.

The prover cannot use an induction theorem, because those take an operator as a parameter. Induction
over data is therefore done with sets: `LeastNumber` (every non-empty set of naturals has a least
element, from the library's theorem on well-founded orders) gives `UpTo` and `AllNumbers`, in which
what is to be shown is a set that holds 0 and, with a number, the next. `Recursion` derives from
them that the function a recursive definition describes exists: TLA+ gives a
recursive definition that meaning only if there is such a function.

Every invariant that a run checks and both refinements are proved. Only model-checked is liveness
(JoinAnswered, TwoCalmJoinsFormRing, RingstateEnds, VerdictComes, DiscoveryEnds, TrafficEnds): the
prover does not treat fairness and ENABLED.

## Not modelled

* `ProcessFindSucRsp` and DHASH_LOOK: nothing sends these messages. INFO, logging and the
  printing of RINGSTATE: no state.
* The timer checkNTEntry and the command DUMP of LSRoutingProtocol, which only log.
* RouteInput and RouteOutput beyond the dropping of a node's own broadcasts: they hand packets to ns-3's
  static routing and never look at `rTable`.
* Bytes, outside MessageCodec: a datagram is a record elsewhere, because ArrivesAsSent says
  that what arrives is what was sent.
* TABLE without a file name, which reads beyond its tokens, and the memory that JOIN_REQ's reader
  never frees.
* `chord.cc`, the chord_node prototype: gu-chord.h:25 includes its header, but the only object of it
  (gu-chord.h:46) is commented out and nothing calls it; its constructors leave every node with
  number 0, so there is no use of it to take inputs and states from.
* What a node that left answers to a search: `nodeLeave` overwrites its digest with its
  predecessor's (gu-chord.cc:196-197). The model does the same, but no property promises anything of it.
* A RINGSTATE walk in a ring that bypasses its origin, where it circles: RingstateEnds is about
  rings of calm joins.
* A node's datagram to itself is taken to arrive, as ns-3's loopback does it.
* The helpers that build ns-3 objects.

## Plan

1. (done) ChordRing, MCChordRing, ChordRingProofs; PingTracker, PingLayers, PingService, PingProofs.
2. (done) LinkState, MCLinkState, LinkStateProofs; LinkPing, MCLinkPing, LinkPingProofs.
3. (done) MessageCodec, SearchIndex, MCData.
4. (done) PingVerdictProofs: OneVerdict and the refinement of PingService; ChordSearchProofs; the
   counting in NeighboursCounted.
5. (done) The remaining invariants: OneWalkPerCommand and TwoJoinsKeepRing; types, routes and quiet tables of
   LinkState; types and echoes of LinkPing; DataProofs for the codec and the index; Induction.
