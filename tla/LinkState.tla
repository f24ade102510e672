----------------------------- MODULE LinkState -----------------------------
(***************************************************************************)
(* Neighbour discovery and link-state packets of LSRoutingProtocol         *)
(* (src/ls-routing-protocol.cc) with its two tables (src/tables.cc).       *)
(* Every node asks once who is there (ND_REQ), answers whoever asks        *)
(* (ND_RSP), and tells its neighbours its neighbour table (LSP) whenever   *)
(* an answer has made it longer.  All of it is broadcast on every          *)
(* interface and nothing is passed on.                                     *)
(*                                                                         *)
(* PING and the audit of pings are added by LinkPing.  The other timer is  *)
(* left out: checkNTEntry only logs the entries that have expired.         *)
(***************************************************************************)
EXTENDS Integers, FiniteSets, SequencesExt, Bags

CONSTANTS
    Node,       \* node numbers
    Link,       \* subnets; a node has one interface on each it is attached to
    Network     \* the networks to be considered

MessageType == {"ND_REQ", "ND_RSP", "LSP", "PING_REQ", "PING_RSP"}

\* A network: what is attached to each link, and which types of message of which
\* node the links lose.
ASSUME NodeAssumption == Node \subseteq Nat /\ IsFiniteSet(Node)
ASSUME LinkAssumption == IsFiniteSet(Link)
ASSUME NetworkAssumption ==
    Network \subseteq [attached : [Link -> SUBSET Node], lost : SUBSET (Node \X MessageType)]

NoHop == 99                    \* NextHopNumber of a route that is not direct
Unwritten == 0                 \* a field that the constructor leaves alone, as the short one does dijCost

VARIABLES
    network,    \* the network, which never changes
    nTable,     \* neighbour tables
    rTable,     \* route tables
    net         \* bag of broadcast copies in flight

vars == <<network, nTable, rTable, net>>

\* InterfaceAddress is the neighbour's address on the link.
nTableEntry == [nodeNumber : Node, iface : Link]
rTableEntry == [dest : Node, hop : Node \cup {NoHop}, iface : Link, cost : {1, Unwritten}]

NdReq(n) == [type |-> "ND_REQ", from |-> n]
NdRsp(n, d) == [type |-> "ND_RSP", from |-> n, dest |-> d]
Lsp(n, t) == [type |-> "LSP", from |-> n, ntable |-> t]

\* Requests for neighbours and packets are for whoever hears them, the others have a
\* destination.  The faulty variants do not look at it, at all or in an answer to a ping.
IsOwnAddressAny(k, m) == TRUE
IsOwnAddressUnlessRsp(k, m) == m.type \in {"ND_RSP", "PING_REQ"} => m.dest = k
IsOwnAddress(k, m) == m.type \notin {"ND_REQ", "LSP"} => m.dest = k

\* The copies of a message that n broadcasts on its interfaces.  The copies that
\* the receiver ignores are left out of the network.
Heard(n, m) ==
    {c \in [to : Node \ {n}, link : Link, msg : {m}] :
        /\ {n, c.to} \subseteq network.attached[c.link]
        /\ IsOwnAddress(c.to, m)
        /\ <<n, m.type>> \notin network.lost}
BroadcastPacket(b, n, m) == b (+) SetToBag(Heard(n, m))
Take(b, d) == b (-) SetToBag({d})
InFlight == BagToSet(net)

\* All nodes start at time zero, before any copy arrives; DoStart sends the ND_REQ.
Init ==
    /\ network \in Network
    /\ nTable = [n \in Node |-> <<>>]
    /\ rTable = [n \in Node |-> <<>>]
    /\ net = SetToBag(UNION {Heard(n, NdReq(n)) : n \in Node})

\* Faulty variant of ProcessNdReq: a node that has found the sender does not answer.
ProcessNdReqUnlessKnown(d) ==
    /\ d.msg.type = "ND_REQ"
    /\ net' = IF \E i \in DOMAIN nTable[d.to] : nTable[d.to][i].nodeNumber = d.msg.from
              THEN Take(net, d)
              ELSE BroadcastPacket(Take(net, d), d.to, NdRsp(d.to, d.msg.from))
    /\ UNCHANGED <<network, nTable, rTable>>

ProcessNdReq(d) ==
    /\ d.msg.type = "ND_REQ"
    /\ net' = BroadcastPacket(Take(net, d), d.to, NdRsp(d.to, d.msg.from))
    /\ UNCHANGED <<network, nTable, rTable>>

\* Faulty variants of ProcessNdRsp: the packet is made before the table grows; the
\* entry goes to the front.
ProcessNdRspEarly(d) ==
    /\ d.msg.type = "ND_RSP"
    /\ nTable' = [nTable EXCEPT ![d.to] = Append(@, [nodeNumber |-> d.msg.from, iface |-> d.link])]
    /\ net' = BroadcastPacket(Take(net, d), d.to, Lsp(d.to, nTable[d.to]))
    /\ UNCHANGED <<network, rTable>>

ProcessNdRspFront(d) ==
    /\ d.msg.type = "ND_RSP"
    /\ nTable' = [nTable EXCEPT ![d.to] = <<[nodeNumber |-> d.msg.from, iface |-> d.link]>> \o @]
    /\ net' = BroadcastPacket(Take(net, d), d.to, Lsp(d.to, nTable'[d.to]))
    /\ UNCHANGED <<network, rTable>>

\* nTableInsert appends whatever the table holds already.
ProcessNdRsp(d) ==
    /\ d.msg.type = "ND_RSP"
    /\ nTable' = [nTable EXCEPT ![d.to] = Append(@, [nodeNumber |-> d.msg.from, iface |-> d.link])]
    /\ net' = BroadcastPacket(Take(net, d), d.to, Lsp(d.to, nTable'[d.to]))
    /\ UNCHANGED <<network, rTable>>

\* What node n makes of the entry e in the packet of node k: a direct route to k
\* if it is n itself, otherwise a route to the neighbour's neighbour.  The faulty
\* variants take every entry for itself, and leave the hop of a longer route alone.
RouteAlwaysDirect(n, k, e) == [dest |-> k, hop |-> e.nodeNumber, iface |-> e.iface, cost |-> 1]
RouteUnsetHop(n, k, e) ==
    IF e.nodeNumber = n
    THEN [dest |-> k, hop |-> n, iface |-> e.iface, cost |-> 1]
    ELSE [dest |-> e.nodeNumber, hop |-> Unwritten, iface |-> e.iface, cost |-> Unwritten]
Route(n, k, e) ==
    IF e.nodeNumber = n
    THEN [dest |-> k, hop |-> n, iface |-> e.iface, cost |-> 1]
    ELSE [dest |-> e.nodeNumber, hop |-> NoHop, iface |-> e.iface, cost |-> Unwritten]

\* The possible values of isNew: the first entry with the same destination decides,
\* and an unwritten cost compares either way.
isNew(t, e) ==
    LET same == {i \in DOMAIN t : t[i].dest = e.dest}
    IN  IF same = {} THEN {TRUE}
        ELSE LET old == t[CHOOSE i \in same : \A j \in same : i <= j]
             IN  IF Unwritten \in {old.cost, e.cost} THEN BOOLEAN ELSE {e.cost < old.cost}

\* The tables that can come of inserting e into one of the tables T if it is new.
rTableInsert(T, e) ==
    UNION {{IF new THEN Append(t, e) ELSE t : new \in isNew(t, e)} : t \in T}

\* The tables that can come of t when node n takes the entries told by node k in
\* their order.
TablesAfter(n, k, told, t) ==
    LET tables[i \in 0 .. Len(told)] ==
            IF i = 0 THEN {t} ELSE rTableInsert(tables[i-1], Route(n, k, told[i]))
    IN  tables[Len(told)]

ProcessLsp(d) ==
    /\ d.msg.type = "LSP"
    /\ \E t \in TablesAfter(d.to, d.msg.from, d.msg.ntable, rTable[d.to]) :
          rTable' = [rTable EXCEPT ![d.to] = t]
    /\ net' = Take(net, d)
    /\ UNCHANGED <<network, nTable>>

RecvLSMessage(d) == ProcessNdReq(d) \/ ProcessNdRsp(d) \/ ProcessLsp(d)

Next == \E d \in InFlight : RecvLSMessage(d)
Spec == Init /\ [][Next]_vars

\* Every copy is delivered, on each link and from each node by itself.
FairSpec ==
    /\ Spec
    /\ \A k \in Node, l \in Link, n \in Node :
         WF_vars(\E d \in InFlight : d.to = k /\ d.link = l /\ d.msg.from = n /\ RecvLSMessage(d))

-----------------------------------------------------------------------------
(* Properties.                                                             *)

Neighbours(n) == {k \in Node \ {n} : \E l \in Link : {n, k} \subseteq network.attached[l]}
Shared(n, k) == {l \in Link : {n, k} \subseteq network.attached[l]}
Listed(n) == {nTable[n][i].nodeNumber : i \in DOMAIN nTable[n]}
Routed(n) == {rTable[n][i].dest : i \in DOMAIN rTable[n]}

TypeOK ==
    /\ network \in Network
    /\ \A n \in Node :
         /\ \A i \in DOMAIN nTable[n] : nTable[n][i] \in nTableEntry
         /\ \A i \in DOMAIN rTable[n] : rTable[n][i] \in rTableEntry
    /\ \A d \in InFlight :
         /\ d.to \in Node /\ d.link \in Link
         /\ d.msg.type \in MessageType /\ d.msg.from \in Node

\* A neighbour is listed under a link at most once for every link it shares with the
\* node: broadcast answers to other nodes' requests never enter, and the table
\* stops growing.
NeighboursCounted ==
    \A n, k \in Node, l \in Link :
        Cardinality({i \in DOMAIN nTable[n] : nTable[n][i] = [nodeNumber |-> k, iface |-> l]})
            <= IF k \in Neighbours(n) /\ l \in Shared(n, k) THEN Cardinality(Shared(n, k)) ELSE 0

\* A packet in flight never tells more than its sender's table, whatever has been
\* learnt since: it is a prefix of it.
LspsArePrefixes ==
    \A d \in InFlight : d.msg.type = "LSP" => IsPrefix(d.msg.ntable, nTable[d.msg.from])

\* Every route is witnessed by neighbour tables: a route of cost 1 leads to a
\* neighbour that has listed this node, any other to somebody a neighbour has
\* listed, and none to the node itself.
RoutesWitnessed ==
    \A n \in Node : \A i \in DOMAIN rTable[n] :
        LET r == rTable[n][i] IN
        /\ r.dest # n
        /\ IF r.cost = 1 THEN r.dest \in Neighbours(n) /\ n \in Listed(r.dest)
           ELSE \E k \in Neighbours(n) : r.dest \in Listed(k)

\* When nothing travels any more, every node has listed all its neighbours and has
\* some route to each neighbour that tells it its table and to whatever is in those
\* tables, in whatever order requests, answers and packets crossed: the last packet
\* of a node may be overtaken by its earlier ones, and a node may hear of its
\* neighbours before it has found them.
NothingLost(types) == \A n \in Node, y \in types : <<n, y>> \notin network.lost
Tellers(n) == {k \in Neighbours(n) : <<k, "LSP">> \notin network.lost}
QuietTablesComplete ==
    net = EmptyBag /\ NothingLost({"ND_REQ", "ND_RSP"}) => \A n \in Node :
        /\ Listed(n) = Neighbours(n)
        /\ Routed(n) = Tellers(n) \cup UNION {Neighbours(k) \ {n} : k \in Tellers(n)}

\* The traffic that a start causes ends, and with all neighbours listed if no
\* request or answer is lost.
DiscoveryEnds ==
    <>[](net = EmptyBag /\ (NothingLost({"ND_REQ", "ND_RSP"}) => \A n \in Node : Listed(n) = Neighbours(n)))

\* "the nodes can find the shortest paths between themselves" (src/writeup).
Reach(n) ==
    LET hop[k \in Nat] == IF k = 0 THEN {n}
                          ELSE hop[k-1] \cup UNION {Neighbours(x) : x \in hop[k-1]}
    IN  hop[Cardinality(Node)]
AllNodesRouted ==
    net = EmptyBag /\ network.lost = {} => \A n \in Node : Reach(n) \ {n} \subseteq Routed(n)

=============================================================================
