------------------------------ MODULE LinkPing ------------------------------
(***************************************************************************)
(* PING of LSRoutingProtocol (src/ls-routing-protocol.cc) over the links   *)
(* of LinkState, beside its discovery and packets.  A request is broadcast *)
(* to the neighbours, the one that is meant broadcasts an answer, and a    *)
(* tracker and an audit, as in GUChord, end the pings of each node.        *)
(*                                                                         *)
(* Nothing is passed on and no TTL is read, so nobody but a neighbour can  *)
(* answer.  Who shares several links with the destination has several      *)
(* requests and answers on the way for one ping.                           *)
(***************************************************************************)
EXTENDS Integers, FiniteSets, Bags

CONSTANTS
    Node, Link, Network,   \* as in LinkState
    Ping,                  \* who pings whom; each ping is commanded at most once
    PingTimeout,           \* m_pingTimeout, the life of a ping and the audit period
    SeqMod                 \* sequence numbers count modulo this (2^32 in the program)

\* No node has so many pings that its sequence numbers come round.
ASSUME PingAssumption ==
    /\ Ping \subseteq [from : Node, to : Node]
    /\ IsFiniteSet(Ping)
    /\ \A n \in Node : Cardinality({p \in Ping : p.from = n}) <= SeqMod
ASSUME PingTimeoutAssumption == PingTimeout \in Nat \ {0}
ASSUME SeqModAssumption == SeqMod \in Nat \ {0}

VARIABLES
    network, nTable, rTable, net,   \* as in LinkState
    m_pingTracker,                  \* what each node waits for, by sequence number
    m_currentSequenceNumber,        \* of each node; answers repeat the number they are asked under
    auditIn,                        \* time left on m_auditPingsTimer of each node
    asked,                          \* pings commanded so far
    answers, expiries               \* how often each ping has been ended, and by what

linkVars == <<network, nTable, rTable, net>>
pingVars == <<m_pingTracker, m_currentSequenceNumber, auditIn, asked, answers, expiries>>
vars == <<linkVars, pingVars>>

Links == INSTANCE LinkState

\* What LinkState assumes.
ASSUME LinksAssumption ==
    /\ Node \subseteq Nat /\ IsFiniteSet(Node) /\ IsFiniteSet(Link)
    /\ Network \subseteq [attached : [Link -> SUBSET Node], lost : SUBSET (Node \X Links!MessageType)]

SequenceNumber == 0 .. SeqMod - 1
PingRequest == [dest : Node, age : 0 .. 2 * PingTimeout - 1]
Nothing == [s \in {} |-> 0]
\* map::insert keeps an entry that has the number already.
Insert(t, s, e) == [r \in DOMAIN t \cup {s} |-> IF r \in DOMAIN t THEN t[r] ELSE e]
Without(t, S) == [s \in DOMAIN t \ S |-> t[s]]
PingOf(n, s) == [from |-> n, to |-> m_pingTracker[n][s].dest]

PingReq(n, s, d) == [type |-> "PING_REQ", from |-> n, dest |-> d, seq |-> s]
PingRsp(n, s, d) == [type |-> "PING_RSP", from |-> n, dest |-> d, seq |-> s]

\* The counter starts at a random number, of which DoStart's ND_REQ takes the first.
Init ==
    /\ Links!Init
    /\ m_pingTracker = [n \in Node |-> Nothing]
    /\ m_currentSequenceNumber \in [Node -> SequenceNumber]
    /\ auditIn = [n \in Node |-> PingTimeout]
    /\ asked = {}
    /\ answers = [p \in Ping |-> 0]
    /\ expiries = [p \in Ping |-> 0]

\* PING <node> <text>.  A number that no node has gets nothing, and a node may well
\* ping itself.
ProcessCommand(p) ==
    /\ p \notin asked
    /\ asked' = asked \cup {p}
    /\ LET n == p.from
           s == m_currentSequenceNumber[n]
       IN  /\ m_pingTracker' = [m_pingTracker EXCEPT ![n] = Insert(@, s, [dest |-> p.to, age |-> 0])]
           /\ m_currentSequenceNumber' = [m_currentSequenceNumber EXCEPT ![n] = (s + 1) % SeqMod]
           /\ net' = Links!BroadcastPacket(net, n, PingReq(n, s, p.to))
    /\ UNCHANGED <<network, nTable, rTable, auditIn, answers, expiries>>

\* Faulty variant of ProcessPingReq: the answer has a number of the answering node.
ProcessPingReqOwnNumber(d) ==
    /\ d.msg.type = "PING_REQ"
    /\ net' = Links!BroadcastPacket(Links!Take(net, d), d.to,
                  PingRsp(d.to, m_currentSequenceNumber[d.to], d.msg.from))
    /\ m_currentSequenceNumber' = [m_currentSequenceNumber EXCEPT ![d.to] = (@ + 1) % SeqMod]
    /\ UNCHANGED <<network, nTable, rTable, m_pingTracker, auditIn, asked, answers, expiries>>

ProcessPingReq(d) ==
    /\ d.msg.type = "PING_REQ"
    /\ net' = Links!BroadcastPacket(Links!Take(net, d), d.to, PingRsp(d.to, d.msg.seq, d.msg.from))
    /\ UNCHANGED <<network, nTable, rTable, pingVars>>

\* Faulty variant of ProcessPingRsp: the entry stays for the audit to remove.
ProcessPingRspKeeping(d) ==
    /\ d.msg.type = "PING_RSP"
    /\ d.msg.seq \in DOMAIN m_pingTracker[d.to]
    /\ answers' = [answers EXCEPT ![PingOf(d.to, d.msg.seq)] = @ + 1]
    /\ net' = Links!Take(net, d)
    /\ UNCHANGED <<network, nTable, rTable, m_pingTracker, m_currentSequenceNumber,
                   auditIn, asked, expiries>>

\* The originator of an answer is looked at for the log only.
ProcessPingRsp(d) ==
    /\ d.msg.type = "PING_RSP"
    /\ d.msg.seq \in DOMAIN m_pingTracker[d.to]
    /\ answers' = [answers EXCEPT ![PingOf(d.to, d.msg.seq)] = @ + 1]
    /\ m_pingTracker' = [m_pingTracker EXCEPT ![d.to] = Without(@, {d.msg.seq})]
    /\ net' = Links!Take(net, d)
    /\ UNCHANGED <<network, nTable, rTable, m_currentSequenceNumber, auditIn, asked, expiries>>

\* Faulty variant of InvalidPingRsp: the ping is tried again.
InvalidPingRspAgain(d) ==
    /\ d.msg.type = "PING_RSP"
    /\ d.msg.seq \notin DOMAIN m_pingTracker[d.to]
    /\ net' = Links!BroadcastPacket(Links!Take(net, d), d.to, PingReq(d.to, d.msg.seq, d.msg.from))
    /\ UNCHANGED <<network, nTable, rTable, pingVars>>

\* "Received invalid PING_RSP!": a duplicate, or an answer that comes after the audit.
InvalidPingRsp(d) ==
    /\ d.msg.type = "PING_RSP"
    /\ d.msg.seq \notin DOMAIN m_pingTracker[d.to]
    /\ net' = Links!Take(net, d)
    /\ UNCHANGED <<network, nTable, rTable, pingVars>>

\* The handlers of LinkState leave the pings alone.
RecvLSMessage(d) ==
    \/ Links!RecvLSMessage(d) /\ UNCHANGED pingVars
    \/ ProcessPingReq(d)
    \/ ProcessPingRsp(d)
    \/ InvalidPingRsp(d)

\* Faulty variants of Expired: the limit itself is young enough; everything is stale.
ExpiredLate(n) == {s \in DOMAIN m_pingTracker[n] : m_pingTracker[n][s].age > PingTimeout}
ExpiredAll(n) == DOMAIN m_pingTracker[n]
Expired(n) == {s \in DOMAIN m_pingTracker[n] : m_pingTracker[n][s].age >= PingTimeout}

\* Every node has its own timer; all of them were started at time zero.
AuditPings(n) ==
    /\ auditIn[n] = 0
    /\ auditIn' = [auditIn EXCEPT ![n] = PingTimeout]
    /\ m_pingTracker' = [m_pingTracker EXCEPT ![n] = Without(@, Expired(n))]
    /\ expiries' = [p \in Ping |-> expiries[p] + Cardinality({s \in Expired(n) : PingOf(n, s) = p})]
    /\ UNCHANGED <<linkVars, m_currentSequenceNumber, asked, answers>>

\* A millisecond passes; timers that are due fire first.
Tick ==
    /\ \A n \in Node : auditIn[n] > 0
    /\ auditIn' = [n \in Node |-> auditIn[n] - 1]
    /\ m_pingTracker' = [n \in Node |->
          [s \in DOMAIN m_pingTracker[n] |-> [m_pingTracker[n][s] EXCEPT !.age = @ + 1]]]
    /\ UNCHANGED <<linkVars, m_currentSequenceNumber, asked, answers, expiries>>

Next ==
    \/ \E p \in Ping : ProcessCommand(p)
    \/ \E d \in Links!InFlight : RecvLSMessage(d)
    \/ \E n \in Node : AuditPings(n)
    \/ Tick

Spec == Init /\ [][Next]_vars

\* Simulated time passes, due timers fire and every copy that is not lost arrives.
FairSpec ==
    /\ Spec
    /\ WF_vars(Tick)
    /\ \A n \in Node : WF_vars(AuditPings(n))
    /\ \A k \in Node, l \in Link, n \in Node :
         WF_vars(\E d \in Links!InFlight :
                    d.to = k /\ d.link = l /\ d.msg.from = n /\ RecvLSMessage(d))

-----------------------------------------------------------------------------
(* Properties.                                                             *)

Waiting(p) == \E s \in DOMAIN m_pingTracker[p.from] : m_pingTracker[p.from][s].dest = p.to
Runs(m, type, from, dest) == m.type = type /\ m.from = from /\ m.dest = dest
Copies(b, type, from, dest) ==
    UNION {{d} \X (1 .. b[d]) : d \in {c \in BagToSet(b) : Runs(c.msg, type, from, dest)}}
CopyCount(type, from, dest) == Cardinality(Copies(net, type, from, dest))

\* The variables keep their types; an age never reaches twice the timeout.
TypeOK ==
    /\ Links!TypeOK
    /\ \A n \in Node :
         /\ DOMAIN m_pingTracker[n] \subseteq SequenceNumber
         /\ \A s \in DOMAIN m_pingTracker[n] : m_pingTracker[n][s] \in PingRequest
    /\ m_currentSequenceNumber \in [Node -> SequenceNumber]
    /\ auditIn \in [Node -> 0 .. PingTimeout]
    /\ asked \subseteq Ping
    /\ answers \in [Ping -> Nat] /\ expiries \in [Ping -> Nat]

\* A commanded ping is waited for or has been ended exactly once, whatever the number
\* of answers that come over shared links and whether they cross the audit.
OneFate == \A p \in asked : answers[p] + expiries[p] = IF Waiting(p) THEN 0 ELSE 1

\* An answer that would end a ping comes from the node that was pinged, although the
\* handler does not look at who sent it and other nodes count with the same numbers.
AnswersMatch ==
    \A d \in Links!InFlight :
        d.msg.type = "PING_RSP" /\ d.msg.seq \in DOMAIN m_pingTracker[d.to] =>
            m_pingTracker[d.to][d.msg.seq].dest = d.msg.from

\* A ping never has more answers on the way, counting those that its requests will
\* cause, than the square of the links that the two nodes share: nobody answers an
\* answer, passes anything on or answers for another.
EchoBounded ==
    \A p \in Ping :
        LET shared == Cardinality(Links!Shared(p.from, p.to))
        IN  shared * CopyCount("PING_REQ", p.from, p.to)
              + CopyCount("PING_RSP", p.to, p.from) <= shared * shared

\* Only neighbours answer: a ping to a node further away, or to the node itself, can
\* do nothing but expire.
OnlyNeighboursAnswer == \A p \in Ping : answers[p] > 0 => p.to \in Links!Neighbours(p.from)

\* No entry outlives two audit periods.
AgesBounded ==
    \A n \in Node : \A s \in DOMAIN m_pingTracker[n] :
        m_pingTracker[n][s].age + auditIn[n] <= 2 * PingTimeout - 1

\* All traffic and all waiting end, also for pings that cannot be answered.
TrafficEnds == <>[](net = EmptyBag /\ \A n \in Node : m_pingTracker[n] = Nothing)

\* Each node's pings keep the promise of PingService, except that an unknown number
\* is not reported.
StatusOf(p) ==
    IF answers[p] > 0 THEN "succeeded"
    ELSE IF expiries[p] > 0 THEN "failed"
    ELSE IF p \in asked THEN "pending" ELSE "unsent"
EntryOf(p) ==
    CHOOSE s \in DOMAIN m_pingTracker[p.from] : m_pingTracker[p.from][s].dest = p.to
AgeOf(p) == IF Waiting(p) THEN m_pingTracker[p.from][EntryOf(p)].age ELSE 0
Service == INSTANCE PingService WITH
    Timeout <- PingTimeout,
    status <- [p \in Ping |-> StatusOf(p)],
    waited <- [p \in Ping |-> AgeOf(p)]
ServiceSpec == Service!Spec

=============================================================================
