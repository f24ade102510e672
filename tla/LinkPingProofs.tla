--------------------------- MODULE LinkPingProofs ---------------------------
(***************************************************************************)
(* The fate of broadcast pings, for every network, loss of message types,  *)
(* timeout and width of the sequence numbers that no node exhausts.        *)
(***************************************************************************)
EXTENDS LinkPing, Sequences, FunctionTheorems, FiniteSetTheorems, TLAPS

\* What is proved of discovery by itself.
Tables == INSTANCE LinkStateProofs

-----------------------------------------------------------------------------
(* Sequence numbers.                                                       *)

Count(n) == Cardinality({p \in asked : p.from = n})

\* The number that the counter c has given out j pings ago.
Back(c, j) == IF j <= c THEN c - j ELSE c - j + SeqMod

\* The numbers that node n has given to its pings so far.
Used(n) == {Back(m_currentSequenceNumber[n], j) : j \in 1 .. Count(n)}

\* A node that has asked fewer pings than there are numbers has the next one free.
LEMMA NextIsFresh ==
    ASSUME NEW c \in SequenceNumber, NEW k \in Nat, k < SeqMod
    PROVE  \A j \in 1 .. k : Back(c, j) # c
BY SeqModAssumption DEF SequenceNumber, Back

\* Counting on, a node forgets no number of the SeqMod last ones.
LEMMA CounterStep ==
    ASSUME NEW c \in SequenceNumber, NEW k \in Nat, k < SeqMod
    PROVE  /\ (c + 1) % SeqMod \in SequenceNumber
           /\ Back((c + 1) % SeqMod, 1) = c
           /\ \A j \in 1 .. k : Back((c + 1) % SeqMod, j + 1) = Back(c, j)
<1>1. (c + 1) % SeqMod = IF c + 1 = SeqMod THEN 0 ELSE c + 1
  BY SeqModAssumption DEF SequenceNumber
<1>. QED  BY <1>1, SeqModAssumption DEF SequenceNumber, Back

\* A ping that has not been asked is counted when it is.
LEMMA CountStep ==
    ASSUME asked \subseteq Ping, NEW p \in Ping \ asked, asked' = asked \cup {p}
    PROVE  /\ \A n \in Node \ {p.from} : Count(n)' = Count(n)
           /\ Count(p.from)' = Count(p.from) + 1
           /\ \A n \in Node : Count(n) \in Nat
           /\ Count(p.from) < SeqMod
<1>. DEFINE A(n) == {q \in asked : q.from = n}
            B(n) == {q \in Ping : q.from = n}
<1>1. \A n : IsFiniteSet(A(n)) /\ IsFiniteSet(B(n))
  <2>1. \A n : A(n) \subseteq Ping /\ B(n) \subseteq Ping
    OBVIOUS
  <2>. QED  BY <2>1, PingAssumption, FS_Subset
<1>2. \A n : Cardinality(A(n)) \in Nat /\ Cardinality(B(n)) \in Nat
  BY <1>1, FS_CardinalityType
<1>3. p.from \in Node
  BY PingAssumption
<1>4. Cardinality(A(p.from) \cup {p}) = Cardinality(A(p.from)) + 1
  <2>1. IsFiniteSet(A(p.from)) /\ p \notin A(p.from)
    BY <1>1
  <2>. HIDE DEF A
  <2>. QED  BY <2>1, FS_AddElement
<1>5. {q \in asked' : q.from = p.from} = A(p.from) \cup {p}
  OBVIOUS
<1>6. \A n \in Node \ {p.from} : {q \in asked' : q.from = n} = A(n)
  OBVIOUS
<1>7. Cardinality(A(p.from) \cup {p}) <= Cardinality(B(p.from))
  <2>1. A(p.from) \cup {p} \subseteq B(p.from)
    OBVIOUS
  <2>. QED  BY <1>1, <2>1, FS_Subset
<1>8. Cardinality(B(p.from)) <= SeqMod
  BY <1>3, PingAssumption
<1>9. \A n : Count(n) = Cardinality(A(n)) /\ Count(n)' = Cardinality({q \in asked' : q.from = n})
  BY DEF Count
<1>. HIDE DEF A, B
<1>10. \A n \in Node \ {p.from} : Count(n)' = Count(n)
  BY <1>6, <1>9
<1>11. Count(p.from)' = Count(p.from) + 1
  BY <1>4, <1>5, <1>9
<1>12. Count(p.from) < SeqMod
  BY <1>2, <1>4, <1>7, <1>8, <1>9, SeqModAssumption
<1>. QED  BY <1>2, <1>9, <1>10, <1>11, <1>12

-----------------------------------------------------------------------------
(* The network.                                                            *)

LEMMA BroadcastCopies ==
    ASSUME NEW b, Links!IsABag(b), NEW n, NEW m
    PROVE  /\ Links!IsABag(Links!BroadcastPacket(b, n, m))
           /\ Links!BagToSet(Links!BroadcastPacket(b, n, m))
                \subseteq Links!BagToSet(b) \cup Links!Heard(n, m)
<1>. DEFINE H == Links!Heard(n, m)
<1>1. Links!BroadcastPacket(b, n, m) = Links!(+)(b, Links!SetToBag(H))
  BY DEF Links!BroadcastPacket
<1>. HIDE DEF H
<1>2. /\ Links!IsABag(Links!(+)(b, Links!SetToBag(H)))
      /\ Links!BagToSet(Links!(+)(b, Links!SetToBag(H))) \subseteq Links!BagToSet(b) \cup H
  BY DEF Links!IsABag, Links!BagToSet, Links!SetToBag, Links!(+)
<1>. QED  BY <1>1, <1>2 DEF H

LEMMA TakenCopies ==
    ASSUME NEW b, Links!IsABag(b), NEW d
    PROVE  /\ Links!IsABag(Links!Take(b, d))
           /\ Links!BagToSet(Links!Take(b, d)) \subseteq Links!BagToSet(b)
BY DEF Links!Take, Links!IsABag, Links!BagToSet, Links!SetToBag, Links!(-)

LEMMA HeardByNeighbour ==
    ASSUME NEW n \in Node, NEW m, NEW d \in Links!Heard(n, m)
    PROVE  /\ d.to \in Node \ {n} /\ d.link \in Link /\ d.msg = m
           /\ d.to \in Links!Neighbours(n) /\ n \in Links!Neighbours(d.to)
           /\ m.type \in {"ND_RSP", "PING_REQ", "PING_RSP"} => m.dest = d.to
BY DEF Links!Heard, Links!Neighbours, Links!IsOwnAddress

-----------------------------------------------------------------------------
(* The invariant.                                                          *)

TypesSound ==
    /\ m_pingTracker = [n \in Node |-> m_pingTracker[n]]
    /\ m_currentSequenceNumber \in [Node -> SequenceNumber]
    /\ auditIn \in [Node -> 0 .. PingTimeout]
    /\ asked \subseteq Ping
    /\ answers \in [Ping -> Nat] /\ expiries \in [Ping -> Nat]

\* What a node waits for is a ping that it has asked, under a number it has given out,
\* once, and not for too long.
TrackerSound(n) ==
    /\ DOMAIN m_pingTracker[n] \subseteq Used(n)
    /\ \A s \in DOMAIN m_pingTracker[n] :
         /\ m_pingTracker[n][s] \in [dest : Node, age : Nat]
         /\ PingOf(n, s) \in asked
         /\ m_pingTracker[n][s].age + auditIn[n] <= 2 * PingTimeout - 1
         /\ \A t \in DOMAIN m_pingTracker[n] :
              m_pingTracker[n][t].dest = m_pingTracker[n][s].dest => t = s

FateSound(p) ==
    /\ p \notin asked => answers[p] = 0 /\ expiries[p] = 0
    /\ p \in asked => answers[p] + expiries[p] = IF Waiting(p) THEN 0 ELSE 1
    /\ answers[p] > 0 => p.to \in Links!Neighbours(p.from)

PingsSound ==
    /\ TypesSound
    /\ \A n \in Node : TrackerSound(n)
    /\ \A p \in Ping : FateSound(p)

\* If k still waits under the number s, it waits for n.
Matches(k, s, n) ==
    /\ s \in Used(k)
    /\ s \in DOMAIN m_pingTracker[k] => m_pingTracker[k][s].dest = n

\* A copy in flight: a request has a number of its sender, an answer one of its
\* receiver, and both run between neighbours.
CopySound(d) ==
    /\ d.to \in Node
    /\ d.msg.type = "PING_REQ" =>
         /\ d.msg.from \in Node /\ d.to \in Links!Neighbours(d.msg.from)
         /\ Matches(d.msg.from, d.msg.seq, d.to)
    /\ d.msg.type = "PING_RSP" =>
         /\ d.msg.from \in Links!Neighbours(d.to)
         /\ Matches(d.to, d.msg.seq, d.msg.from)

NetSound ==
    /\ Links!IsABag(net)
    /\ \A d \in Links!InFlight : CopySound(d)

Sound == PingsSound /\ NetSound

\* A step forgets no number, and waits for nothing new under an old one.
Steady ==
    /\ network' = network
    /\ \A n \in Node : \A s \in Used(n) :
         /\ s \in Used(n)'
         /\ s \in DOMAIN m_pingTracker'[n] =>
              /\ s \in DOMAIN m_pingTracker[n]
              /\ m_pingTracker'[n][s].dest = m_pingTracker[n][s].dest

LEMMA CopyKept ==
    ASSUME Steady, NEW d, CopySound(d)
    PROVE  CopySound(d)'
<1>1. ASSUME NEW k \in Node, NEW s, NEW n, Matches(k, s, n) PROVE Matches(k, s, n)'
  BY <1>1 DEF Steady, Matches
<1>2. \A k : Links!Neighbours(k)' = Links!Neighbours(k)
  BY DEF Steady, Links!Neighbours
<1>. QED  BY <1>1, <1>2 DEF CopySound

LEMMA NetKept ==
    ASSUME NetSound, Steady, Links!IsABag(net'),
           NEW C, \A c \in C : CopySound(c)',
           Links!BagToSet(net') \subseteq Links!InFlight \cup C
    PROVE  NetSound'
BY CopyKept DEF NetSound, Links!InFlight

LEMMA NetShrinks ==
    ASSUME NetSound, Steady, Links!IsABag(net'), Links!BagToSet(net') \subseteq Links!InFlight
    PROVE  NetSound'
BY CopyKept DEF NetSound, Links!InFlight

\* A step that leaves the pings and the network alone keeps what is said of them.
LEMMA PingsKept ==
    ASSUME PingsSound, UNCHANGED pingVars, network' = network
    PROVE  PingsSound' /\ Steady
<1>1. \A n : Used(n)' = Used(n)
  BY DEF pingVars, Used, Count
<1>2. \A n : Links!Neighbours(n)' = Links!Neighbours(n)
  BY DEF Links!Neighbours
<1>3. \A n \in Node : TrackerSound(n)'
  BY <1>1 DEF PingsSound, TrackerSound, PingOf, pingVars
<1>4. \A p \in Ping : FateSound(p)'
  BY <1>2 DEF PingsSound, FateSound, Waiting, pingVars
<1>5. TypesSound'
  BY DEF PingsSound, TypesSound, pingVars
<1>. QED  BY <1>1, <1>3, <1>4, <1>5 DEF PingsSound, Steady, pingVars

-----------------------------------------------------------------------------
(* Initially and in every step.                                            *)

LEMMA SoundInit == Init => Sound
<1>. SUFFICES ASSUME Init PROVE Sound
  OBVIOUS
<1>1. TypesSound
  BY SeqModAssumption, PingTimeoutAssumption DEF Init, TypesSound
<1>2. \A n \in Node : TrackerSound(n)
  BY DEF Init, TrackerSound, Nothing
<1>3. \A p \in Ping : FateSound(p)
  BY DEF Init, FateSound
<1>. DEFINE H == UNION {Links!Heard(n, Links!NdReq(n)) : n \in Node}
<1>4. net = Links!SetToBag(H)
  BY DEF Init, Links!Init
<1>5. ASSUME NEW d \in H PROVE CopySound(d)
  <2>1. PICK n \in Node : d \in Links!Heard(n, Links!NdReq(n))
    OBVIOUS
  <2>2. d.to \in Node /\ d.msg = Links!NdReq(n)
    BY <2>1, HeardByNeighbour
  <2>3. d.msg.type = "ND_REQ"
    BY <2>2 DEF Links!NdReq
  <2>. QED  BY <2>2, <2>3 DEF CopySound
<1>. HIDE DEF H
<1>6. Links!IsABag(net) /\ Links!InFlight = H
  BY <1>4 DEF Links!IsABag, Links!InFlight, Links!BagToSet, Links!SetToBag
<1>. QED  BY <1>1, <1>2, <1>3, <1>5, <1>6 DEF Sound, PingsSound, NetSound

\* The handlers of LinkState send nothing that has to do with pings.
LEMMA LinkStep ==
    ASSUME Sound, NEW d \in Links!InFlight, Links!RecvLSMessage(d), UNCHANGED pingVars
    PROVE  Sound'
<1>1. d.to \in Node
  BY DEF Sound, NetSound, CopySound
<1>2. network' = network
  BY DEF Links!RecvLSMessage, Links!ProcessNdReq, Links!ProcessNdRsp, Links!ProcessLsp
<1>3. PingsSound' /\ Steady
  BY <1>2, PingsKept DEF Sound
<1>4. Links!IsABag(Links!Take(net, d)) /\ Links!BagToSet(Links!Take(net, d)) \subseteq Links!InFlight
  BY TakenCopies DEF Sound, NetSound, Links!InFlight
<1>5. ASSUME NEW m, m.type \in {"ND_RSP", "LSP"},
             net' = Links!BroadcastPacket(Links!Take(net, d), d.to, m)
      PROVE  NetSound'
  <2>1. /\ Links!IsABag(net')
        /\ Links!BagToSet(net') \subseteq Links!InFlight \cup Links!Heard(d.to, m)
    BY <1>4, <1>5, BroadcastCopies
  <2>2. \A c \in Links!Heard(d.to, m) : CopySound(c)'
    BY <1>1, <1>5, HeardByNeighbour DEF CopySound
  <2>. QED  BY <1>3, <2>1, <2>2, NetKept DEF Sound
<1>6. CASE Links!ProcessNdReq(d)
  BY <1>3, <1>5, <1>6 DEF Links!ProcessNdReq, Links!NdRsp, Sound
<1>7. CASE Links!ProcessNdRsp(d)
  BY <1>3, <1>5, <1>7 DEF Links!ProcessNdRsp, Links!Lsp, Sound
<1>8. CASE Links!ProcessLsp(d)
  <2>1. net' = Links!Take(net, d)
    BY <1>8 DEF Links!ProcessLsp
  <2>2. NetSound'
    BY <1>3, <1>4, <2>1, NetShrinks DEF Sound
  <2>. QED  BY <1>3, <2>2 DEF Sound
<1>. QED  BY <1>6, <1>7, <1>8 DEF Links!RecvLSMessage

\* The answer to a request has its number, which is one of the node that asked.
LEMMA PingReqStep ==
    ASSUME Sound, NEW d \in Links!InFlight, ProcessPingReq(d)
    PROVE  Sound'
<1>. DEFINE m == PingRsp(d.to, d.msg.seq, d.msg.from)
<1>1. CopySound(d) /\ d.to \in Node /\ d.msg.type = "PING_REQ"
  BY DEF Sound, NetSound, CopySound, ProcessPingReq
<1>2. PingsSound' /\ Steady
  BY PingsKept DEF Sound, ProcessPingReq
<1>3. /\ Links!IsABag(net')
      /\ Links!BagToSet(net') \subseteq Links!InFlight \cup Links!Heard(d.to, m)
  BY TakenCopies, BroadcastCopies DEF Sound, NetSound, Links!InFlight, ProcessPingReq
<1>4. ASSUME NEW c \in Links!Heard(d.to, m) PROVE CopySound(c)
  <2>1. /\ c.to \in Node /\ c.msg = m /\ d.to \in Links!Neighbours(c.to)
        /\ m.type = "PING_RSP" => m.dest = c.to
    BY <1>1, HeardByNeighbour
  <2>2. c.msg.type = "PING_RSP" /\ c.msg.from = d.to /\ c.msg.seq = d.msg.seq /\ d.msg.from = c.to
    BY <2>1 DEF PingRsp
  <2>3. Matches(c.to, c.msg.seq, c.msg.from)
    BY <1>1, <2>2 DEF CopySound
  <2>. QED  BY <2>1, <2>2, <2>3 DEF CopySound
<1>5. \A c \in Links!Heard(d.to, m) : CopySound(c)'
  BY <1>2, <1>4, CopyKept
<1>6. NetSound'
  BY <1>2, <1>3, <1>5, NetKept DEF Sound
<1>. QED  BY <1>2, <1>6 DEF Sound

LEMMA InvalidStep ==
    ASSUME Sound, NEW d \in Links!InFlight, InvalidPingRsp(d)
    PROVE  Sound'
<1>1. PingsSound' /\ Steady
  BY PingsKept DEF Sound, InvalidPingRsp
<1>2. Links!IsABag(net') /\ Links!BagToSet(net') \subseteq Links!InFlight
  BY TakenCopies DEF Sound, NetSound, Links!InFlight, InvalidPingRsp
<1>. QED  BY <1>1, <1>2, NetShrinks DEF Sound

\* The first answer ends its ping: no other entry of the node is for the same
\* destination, and whoever sent the answer is the neighbour that was asked.
LEMMA PingRspStep ==
    ASSUME Sound, NEW d \in Links!InFlight, ProcessPingRsp(d)
    PROVE  Sound'
<1>. DEFINE n == d.to
            s == d.msg.seq
            q == PingOf(n, s)
<1>1. CopySound(d) /\ n \in Node /\ s \in DOMAIN m_pingTracker[n]
  BY DEF Sound, NetSound, CopySound, ProcessPingRsp
<1>2. TypesSound /\ TrackerSound(n) /\ (\A p \in Ping : FateSound(p))
  BY <1>1 DEF Sound, PingsSound
<1>3. q \in asked /\ q \in Ping /\ q.from = n /\ q.to = m_pingTracker[n][s].dest
  BY <1>1, <1>2 DEF TrackerSound, TypesSound, PingOf
<1>4. q.to \in Links!Neighbours(n)
  <2>1. d.msg.from \in Links!Neighbours(n) /\ m_pingTracker[n][s].dest = d.msg.from
    BY <1>1 DEF CopySound, Matches, ProcessPingRsp
  <2>. QED  BY <1>3, <2>1
<1>5. /\ network' = network /\ asked' = asked /\ auditIn' = auditIn /\ expiries' = expiries
      /\ m_currentSequenceNumber' = m_currentSequenceNumber
      /\ \A k \in Node : k # n => m_pingTracker'[k] = m_pingTracker[k]
      /\ DOMAIN m_pingTracker'[n] = DOMAIN m_pingTracker[n] \ {s}
      /\ \A r \in DOMAIN m_pingTracker'[n] : m_pingTracker'[n][r] = m_pingTracker[n][r]
      /\ answers' = [answers EXCEPT ![q] = @ + 1]
  BY <1>1, <1>2 DEF ProcessPingRsp, Without, TypesSound
<1>6. \A k : Used(k)' = Used(k)
  BY <1>5 DEF Used, Count
<1>7. \A k : Links!Neighbours(k)' = Links!Neighbours(k)
  BY <1>5 DEF Links!Neighbours
<1>8. TypesSound'
  <2>1. m_pingTracker' = [k \in Node |-> m_pingTracker'[k]]
    BY <1>2 DEF ProcessPingRsp, TypesSound
  <2>2. answers' \in [Ping -> Nat]
    BY <1>2, <1>3, <1>5 DEF TypesSound
  <2>. QED  BY <1>2, <1>5, <2>1, <2>2 DEF TypesSound
<1>9. ASSUME NEW k \in Node PROVE TrackerSound(k)'
  <2>1. TrackerSound(k)
    BY DEF Sound, PingsSound
  <2>2. /\ DOMAIN m_pingTracker'[k] \subseteq DOMAIN m_pingTracker[k]
        /\ \A r \in DOMAIN m_pingTracker'[k] : m_pingTracker'[k][r] = m_pingTracker[k][r]
    BY <1>5
  <2>. QED  BY <1>5, <1>6, <2>1, <2>2 DEF TrackerSound, PingOf
<1>10. ASSUME NEW p \in Ping PROVE FateSound(p)'
  <2>1. FateSound(p) /\ p = [from |-> p.from, to |-> p.to] /\ p.from \in Node
    BY <1>2, PingAssumption
  <2>2. CASE p = q
    <3>1. Waiting(q) /\ answers[q] + expiries[q] = 0
      BY <1>1, <1>2, <1>3 DEF FateSound, Waiting
    <3>2. ~Waiting(p)'
      <4>1. \A r \in DOMAIN m_pingTracker[n] : m_pingTracker[n][r].dest = q.to => r = s
        BY <1>1, <1>2, <1>3 DEF TrackerSound
      <4>2. p.from = n /\ p.to = q.to
        BY <1>3, <2>2
      <4>. QED  BY <1>5, <4>1, <4>2 DEF Waiting
    <3>3. answers'[q] = answers[q] + 1 /\ answers[q] \in Nat /\ expiries[q] \in Nat
      BY <1>2, <1>3, <1>5 DEF TypesSound
    <3>4. answers'[p] + expiries'[p] = 1
      BY <1>5, <2>2, <3>1, <3>3
    <3>5. p \in asked' /\ p.to \in Links!Neighbours(p.from)'
      BY <1>3, <1>4, <1>5, <1>7, <2>2
    <3>. QED  BY <3>2, <3>4, <3>5 DEF FateSound
  <2>3. CASE p # q
    <3>1. answers'[p] = answers[p]
      BY <1>2, <1>5, <2>3 DEF TypesSound
    <3>2. Waiting(p)' = Waiting(p)
      <4>1. CASE p.from = n
        <5>1. m_pingTracker[n][s].dest # p.to
          BY <1>3, <2>1, <2>3, <4>1 DEF PingOf
        <5>. QED  BY <1>5, <4>1, <5>1 DEF Waiting
      <4>2. CASE p.from # n
        BY <1>5, <2>1, <4>2 DEF Waiting
      <4>. QED  BY <4>1, <4>2
    <3>. QED  BY <1>5, <1>7, <2>1, <3>1, <3>2 DEF FateSound
  <2>. QED  BY <2>2, <2>3
<1>11. Steady
  BY <1>5, <1>6 DEF Steady
<1>12. NetSound'
  <2>1. Links!IsABag(net') /\ Links!BagToSet(net') \subseteq Links!InFlight
    BY TakenCopies DEF Sound, NetSound, Links!InFlight, ProcessPingRsp
  <2>. QED  BY <1>11, <2>1, NetShrinks DEF Sound
<1>. QED  BY <1>8, <1>9, <1>10, <1>12 DEF Sound, PingsSound

\* A new ping takes a number that the node has not given out, so it disturbs no
\* ping that waits and no copy that still refers to an old number.
LEMMA CommandStep ==
    ASSUME Sound, NEW p \in Ping, ProcessCommand(p)
    PROVE  Sound'
<1>. DEFINE n == p.from
            s == m_currentSequenceNumber[n]
            m == PingReq(n, s, p.to)
<1>1. p \in Ping \ asked /\ n \in Node /\ p.to \in Node /\ p = [from |-> n, to |-> p.to]
  BY PingAssumption DEF ProcessCommand
<1>2. TypesSound /\ (\A k \in Node : TrackerSound(k)) /\ (\A q \in Ping : FateSound(q))
  BY DEF Sound, PingsSound
<1>3. /\ network' = network /\ asked' = asked \cup {p} /\ auditIn' = auditIn
      /\ answers' = answers /\ expiries' = expiries
      /\ m_currentSequenceNumber' = [m_currentSequenceNumber EXCEPT ![n] = (s + 1) % SeqMod]
      /\ m_pingTracker' =
           [m_pingTracker EXCEPT ![n] = Insert(@, s, [dest |-> p.to, age |-> 0])]
  BY DEF ProcessCommand
<1>4. /\ \A k \in Node : k # n => Count(k)' = Count(k)
      /\ Count(n)' = Count(n) + 1
      /\ Count(n) \in Nat /\ Count(n) < SeqMod
  BY <1>1, <1>2, <1>3, CountStep DEF TypesSound
<1>5. s \in SequenceNumber
  BY <1>1, <1>2 DEF TypesSound
<1>6. s \notin Used(n)
  BY <1>4, <1>5, NextIsFresh DEF Used
<1>7. Used(n) \cup {s} \subseteq Used(n)'
  <2>1. Used(n)' = {Back((s + 1) % SeqMod, j) : j \in 1 .. Count(n) + 1}
    BY <1>1, <1>2, <1>3, <1>4 DEF Used, TypesSound, Back
  <2>2. s \in Used(n)'
    BY <1>4, <1>5, <2>1, CounterStep
  <2>3. ASSUME NEW j \in 1 .. Count(n) PROVE Back(s, j) \in Used(n)'
    <3>1. Back((s + 1) % SeqMod, j + 1) = Back(s, j)
      BY <1>4, <1>5, CounterStep
    <3>2. j + 1 \in 1 .. Count(n) + 1
      BY <1>4
    <3>. QED  BY <2>1, <3>1, <3>2
  <2>. QED  BY <2>2, <2>3 DEF Used
<1>8. \A k \in Node : k # n => Used(k)' = Used(k) /\ m_pingTracker'[k] = m_pingTracker[k]
  BY <1>2, <1>3, <1>4 DEF Used, Back, TypesSound
<1>9. /\ DOMAIN m_pingTracker'[n] = DOMAIN m_pingTracker[n] \cup {s}
      /\ m_pingTracker'[n][s] = [dest |-> p.to, age |-> 0]
      /\ \A r \in DOMAIN m_pingTracker[n] : m_pingTracker'[n][r] = m_pingTracker[n][r]
  <2>1. s \notin DOMAIN m_pingTracker[n]
    BY <1>1, <1>2, <1>6 DEF TrackerSound
  <2>2. m_pingTracker'[n] = Insert(m_pingTracker[n], s, [dest |-> p.to, age |-> 0])
    BY <1>1, <1>2, <1>3 DEF TypesSound
  <2>. QED  BY <2>1, <2>2 DEF Insert
<1>10. \A k : Links!Neighbours(k)' = Links!Neighbours(k)
  BY <1>3 DEF Links!Neighbours
<1>11. TypesSound'
  <2>1. (s + 1) % SeqMod \in SequenceNumber
    BY <1>4, <1>5, CounterStep
  <2>2. m_pingTracker' = [k \in Node |-> m_pingTracker'[k]]
    BY <1>2, <1>3 DEF TypesSound
  <2>. QED  BY <1>1, <1>2, <1>3, <2>1, <2>2 DEF TypesSound
<1>12. TrackerSound(n)'
  <2>1. TrackerSound(n) /\ auditIn[n] \in 0 .. PingTimeout
    BY <1>1, <1>2 DEF TypesSound
  <2>2. \A r \in DOMAIN m_pingTracker[n] : m_pingTracker[n][r].dest # p.to
    BY <1>1, <2>1 DEF TrackerSound, PingOf
  <2>3. 0 + auditIn[n] <= 2 * PingTimeout - 1
    BY <2>1, PingTimeoutAssumption
  <2>4. DOMAIN m_pingTracker'[n] \subseteq Used(n)'
    BY <1>7, <1>9, <2>1 DEF TrackerSound
  <2>5. ASSUME NEW r \in DOMAIN m_pingTracker'[n]
        PROVE  /\ m_pingTracker'[n][r] \in [dest : Node, age : Nat]
               /\ PingOf(n, r)' \in asked'
               /\ m_pingTracker'[n][r].age + auditIn'[n] <= 2 * PingTimeout - 1
               /\ \A t \in DOMAIN m_pingTracker'[n] :
                    m_pingTracker'[n][t].dest = m_pingTracker'[n][r].dest => t = r
    <3>1. CASE r = s
      BY <1>1, <1>3, <1>9, <2>2, <2>3, <3>1 DEF PingOf
    <3>2. CASE r \in DOMAIN m_pingTracker[n]
      BY <1>3, <1>9, <2>1, <2>2, <3>2 DEF PingOf, TrackerSound
    <3>. QED  BY <1>9, <3>1, <3>2
  <2>. QED  BY <2>4, <2>5 DEF TrackerSound, PingOf
<1>13. ASSUME NEW k \in Node, k # n PROVE TrackerSound(k)'
  BY <1>2, <1>3, <1>8, <1>13 DEF TrackerSound, PingOf
<1>14. FateSound(p)'
  <2>1. Waiting(p)' /\ p \in asked'
    BY <1>3, <1>9 DEF Waiting
  <2>2. answers'[p] = 0 /\ expiries'[p] = 0
    BY <1>1, <1>2, <1>3 DEF FateSound
  <2>. QED  BY <2>1, <2>2 DEF FateSound
<1>15. ASSUME NEW q \in Ping, q # p PROVE FateSound(q)'
  <2>1. q \in asked' <=> q \in asked
    BY <1>3, <1>15
  <2>2. q.from \in Node /\ (q.from = n => q.to # p.to)
    BY <1>1, <1>15, PingAssumption
  <2>3. Waiting(q)' = Waiting(q)
    BY <1>8, <1>9, <2>2 DEF Waiting
  <2>. QED  BY <1>2, <1>3, <1>10, <2>1, <2>3 DEF FateSound
<1>16. Steady
  BY <1>3, <1>6, <1>7, <1>8, <1>9 DEF Steady
<1>17. ASSUME NEW c \in Links!Heard(n, m) PROVE CopySound(c)'
  <2>1. /\ c.to \in Links!Neighbours(n) /\ c.to \in Node /\ c.msg = m
        /\ m.type = "PING_REQ" => m.dest = c.to
    BY <1>1, HeardByNeighbour
  <2>2. c.msg.type = "PING_REQ" /\ c.msg.from = n /\ c.msg.seq = s /\ p.to = c.to
    BY <2>1 DEF PingReq
  <2>3. s \in Used(n)' /\ m_pingTracker'[n][s].dest = c.to
    BY <1>7, <1>9, <2>2
  <2>. QED  BY <1>1, <1>10, <2>1, <2>2, <2>3 DEF CopySound, Matches
<1>18. NetSound'
  <2>1. /\ Links!IsABag(net')
        /\ Links!BagToSet(net') \subseteq Links!InFlight \cup Links!Heard(n, m)
    BY BroadcastCopies DEF Sound, NetSound, Links!InFlight, ProcessCommand
  <2>. QED  BY <1>16, <1>17, <2>1, NetKept DEF Sound
<1>. QED  BY <1>11, <1>12, <1>13, <1>14, <1>15, <1>18 DEF Sound, PingsSound

\* The audit ends each ping whose entry it removes, which is one entry for a ping.
LEMMA AuditStep ==
    ASSUME Sound, NEW n \in Node, AuditPings(n)
    PROVE  Sound'
<1>. DEFINE Gone(p) == {s \in Expired(n) : PingOf(n, s) = p}
<1>1. TypesSound /\ (\A k \in Node : TrackerSound(k)) /\ (\A p \in Ping : FateSound(p))
  BY DEF Sound, PingsSound
<1>2. /\ network' = network /\ net' = net /\ asked' = asked /\ answers' = answers
      /\ m_currentSequenceNumber' = m_currentSequenceNumber
      /\ auditIn' = [auditIn EXCEPT ![n] = PingTimeout]
      /\ expiries' = [p \in Ping |-> expiries[p] + Cardinality(Gone(p))]
      /\ \A k \in Node : k # n => m_pingTracker'[k] = m_pingTracker[k]
      /\ DOMAIN m_pingTracker'[n] = DOMAIN m_pingTracker[n] \ Expired(n)
      /\ \A s \in DOMAIN m_pingTracker'[n] : m_pingTracker'[n][s] = m_pingTracker[n][s]
  BY <1>1 DEF AuditPings, Without, TypesSound, linkVars
<1>3. /\ \A k : Used(k)' = Used(k)
      /\ \A k : Links!Neighbours(k)' = Links!Neighbours(k)
  BY <1>2 DEF Used, Count, Links!Neighbours
<1>4. ASSUME NEW k \in Node PROVE TrackerSound(k)'
  <2>1. CASE k = n
    <3>1. auditIn'[n] = PingTimeout
      BY <1>1, <1>2 DEF TypesSound
    <3>2. ASSUME NEW s \in DOMAIN m_pingTracker'[n]
          PROVE  m_pingTracker'[n][s].age + auditIn'[n] <= 2 * PingTimeout - 1
      <4>1. m_pingTracker[n][s].age \in Nat /\ ~(m_pingTracker[n][s].age >= PingTimeout)
        BY <1>1, <1>2 DEF Expired, TrackerSound
      <4>. QED  BY <1>2, <3>1, <4>1, PingTimeoutAssumption
    <3>. QED  BY <1>1, <1>2, <1>3, <2>1, <3>2 DEF TrackerSound, PingOf
  <2>2. CASE k # n
    BY <1>1, <1>2, <1>3, <2>2 DEF TrackerSound, PingOf, TypesSound
  <2>. QED  BY <2>1, <2>2
<1>5. ASSUME NEW p \in Ping
      PROVE  /\ FateSound(p)'
             /\ Cardinality(Gone(p)) \in Nat
  <2>1. /\ FateSound(p) /\ p = [from |-> p.from, to |-> p.to] /\ p.from \in Node
        /\ answers[p] \in Nat /\ expiries[p] \in Nat
    BY <1>1, PingAssumption DEF TypesSound
  <2>2. expiries'[p] = expiries[p] + Cardinality(Gone(p))
    BY <1>2
  <2>3. CASE Gone(p) = {}
    <3>1. Cardinality(Gone(p)) = 0
      BY <2>3, FS_EmptySet
    <3>2. expiries'[p] = expiries[p]
      BY <2>1, <2>2, <3>1
    <3>3. Waiting(p)' = Waiting(p)
      <4>1. CASE p.from = n
        <5>1. \A s \in Expired(n) : m_pingTracker[n][s].dest # p.to
          BY <2>1, <2>3, <4>1 DEF PingOf
        <5>. QED  BY <1>2, <4>1, <5>1 DEF Waiting
      <4>2. CASE p.from # n
        BY <1>2, <2>1, <4>2 DEF Waiting
      <4>. QED  BY <4>1, <4>2
    <3>. QED  BY <1>2, <1>3, <2>1, <3>1, <3>2, <3>3 DEF FateSound
  <2>4. CASE Gone(p) # {}
    <3>1. PICK s \in Expired(n) : PingOf(n, s) = p
      BY <2>4
    <3>2. s \in DOMAIN m_pingTracker[n] /\ p.from = n /\ m_pingTracker[n][s].dest = p.to
      BY <3>1 DEF Expired, PingOf
    <3>3. \A r \in DOMAIN m_pingTracker[n] : m_pingTracker[n][r].dest = p.to => r = s
      BY <1>1, <3>2 DEF TrackerSound
    <3>4. p \in asked /\ Waiting(p) /\ ~Waiting(p)'
      BY <1>1, <1>2, <3>1, <3>2, <3>3 DEF TrackerSound, Waiting
    <3>5. Gone(p) = {s}
      BY <3>1, <3>3 DEF Expired, PingOf
    <3>6. Cardinality(Gone(p)) = 1
      BY <3>5, FS_Singleton
    <3>7. answers'[p] + expiries'[p] = 1 /\ answers'[p] = answers[p]
      BY <1>2, <2>1, <2>2, <3>4, <3>6 DEF FateSound
    <3>. QED  BY <1>2, <1>3, <2>1, <3>4, <3>6, <3>7 DEF FateSound
  <2>. QED  BY <2>3, <2>4
<1>6. TypesSound'
  <2>1. expiries' \in [Ping -> Nat]
    <3>. HIDE DEF Gone
    <3>. QED  BY <1>1, <1>2, <1>5 DEF TypesSound
  <2>2. auditIn' \in [Node -> 0 .. PingTimeout]
    BY <1>1, <1>2, PingTimeoutAssumption DEF TypesSound
  <2>3. m_pingTracker' = [k \in Node |-> m_pingTracker'[k]]
    BY <1>1 DEF AuditPings, TypesSound
  <2>. QED  BY <1>1, <1>2, <2>1, <2>2, <2>3 DEF TypesSound
<1>7. Steady
  BY <1>2, <1>3 DEF Steady
<1>8. NetSound'
  BY <1>2, <1>7, NetShrinks DEF Sound, NetSound, Links!InFlight
<1>. QED  BY <1>4, <1>5, <1>6, <1>8 DEF Sound, PingsSound

\* A node's timer runs down as fast as its pings grow old.
LEMMA TickStep ==
    ASSUME Sound, Tick
    PROVE  Sound'
<1>1. TypesSound /\ (\A k \in Node : TrackerSound(k)) /\ (\A p \in Ping : FateSound(p))
  BY DEF Sound, PingsSound
<1>2. /\ network' = network /\ net' = net /\ asked' = asked /\ answers' = answers
      /\ expiries' = expiries /\ m_currentSequenceNumber' = m_currentSequenceNumber
      /\ auditIn' = [k \in Node |-> auditIn[k] - 1]
  BY DEF Tick, linkVars
<1>3. ASSUME NEW k \in Node
      PROVE  /\ DOMAIN m_pingTracker'[k] = DOMAIN m_pingTracker[k]
             /\ \A s \in DOMAIN m_pingTracker[k] :
                  m_pingTracker'[k][s] = [m_pingTracker[k][s] EXCEPT !.age = @ + 1]
  BY DEF Tick
<1>4. ASSUME NEW k \in Node, NEW s \in DOMAIN m_pingTracker[k]
      PROVE  /\ m_pingTracker'[k][s] \in [dest : Node, age : Nat]
             /\ m_pingTracker'[k][s].dest = m_pingTracker[k][s].dest
             /\ m_pingTracker'[k][s].age = m_pingTracker[k][s].age + 1
  <2>. DEFINE e == m_pingTracker[k][s]
  <2>1. e \in [dest : Node, age : Nat] /\ m_pingTracker'[k][s] = [e EXCEPT !.age = @ + 1]
    BY <1>1, <1>3 DEF TrackerSound
  <2>. QED  BY <2>1
<1>5. /\ \A k : Used(k)' = Used(k)
      /\ \A k : Links!Neighbours(k)' = Links!Neighbours(k)
  BY <1>2 DEF Used, Count, Links!Neighbours
<1>6. TypesSound'
  <2>1. \A k \in Node : auditIn[k] \in 0 .. PingTimeout /\ auditIn[k] > 0
    BY <1>1 DEF Tick, TypesSound
  <2>2. auditIn' \in [Node -> 0 .. PingTimeout]
    BY <1>2, <2>1, PingTimeoutAssumption
  <2>3. m_pingTracker' = [k \in Node |-> m_pingTracker'[k]]
    BY DEF Tick
  <2>. QED  BY <1>1, <1>2, <2>2, <2>3 DEF TypesSound
<1>7. ASSUME NEW k \in Node PROVE TrackerSound(k)'
  <2>1. TrackerSound(k) /\ auditIn[k] \in 0 .. PingTimeout /\ auditIn'[k] = auditIn[k] - 1
    BY <1>1, <1>2 DEF TypesSound
  <2>2. ASSUME NEW s \in DOMAIN m_pingTracker[k]
        PROVE  m_pingTracker'[k][s].age + auditIn'[k] <= 2 * PingTimeout - 1
    BY <1>4, <2>1, PingTimeoutAssumption DEF TrackerSound
  <2>3. \A s \in DOMAIN m_pingTracker[k] : PingOf(k, s)' = PingOf(k, s)
    BY <1>4 DEF PingOf
  <2>4. ASSUME NEW s \in DOMAIN m_pingTracker[k]
        PROVE  \A t \in DOMAIN m_pingTracker[k] :
                  m_pingTracker'[k][t].dest = m_pingTracker'[k][s].dest => t = s
    BY <1>4, <2>1 DEF TrackerSound
  <2>. QED  BY <1>2, <1>3, <1>4, <1>5, <2>1, <2>2, <2>3, <2>4 DEF TrackerSound
<1>8. ASSUME NEW p \in Ping PROVE FateSound(p)'
  <2>1. p.from \in Node
    BY PingAssumption
  <2>2. Waiting(p)' = Waiting(p)
    BY <1>3, <1>4, <2>1 DEF Waiting
  <2>. QED  BY <1>1, <1>2, <1>5, <2>2 DEF FateSound
<1>9. Steady
  BY <1>2, <1>3, <1>4, <1>5 DEF Steady
<1>10. NetSound'
  BY <1>2, <1>9, NetShrinks DEF Sound, NetSound, Links!InFlight
<1>. QED  BY <1>6, <1>7, <1>8, <1>10 DEF Sound, PingsSound

LEMMA SoundStep ==
    ASSUME Sound, [Next]_vars
    PROVE  Sound'
<1>1. ASSUME NEW d \in Links!InFlight, RecvLSMessage(d) PROVE Sound'
  BY <1>1, LinkStep, PingReqStep, PingRspStep, InvalidStep DEF RecvLSMessage
<1>2. CASE UNCHANGED vars
  <2>1. PingsSound' /\ Steady
    BY <1>2, PingsKept DEF Sound, vars, linkVars
  <2>2. NetSound'
    BY <1>2, <2>1, NetShrinks DEF Sound, NetSound, Links!InFlight, vars, linkVars
  <2>. QED  BY <2>1, <2>2 DEF Sound
<1>. QED  BY <1>1, <1>2, CommandStep, AuditStep, TickStep DEF Next

THEOREM AlwaysSound == Spec => []Sound
BY SoundInit, SoundStep, PTL DEF Spec

-----------------------------------------------------------------------------
(* What every behaviour keeps.                                             *)

\* A commanded ping is waited for or has been ended exactly once, by the first answer
\* that reaches ProcessPingRsp or by AuditPings, for any number of shared links.
THEOREM PingsHaveOneFate == Spec => []OneFate
<1>1. Sound => OneFate
  BY DEF Sound, PingsSound, TypesSound, FateSound, OneFate
<1>. QED  BY <1>1, AlwaysSound, PTL

\* An answer that ProcessPingRsp would take comes from the node that was pinged: the
\* sequence number, counted by each node for itself, is enough to tell.
THEOREM AnswersAlwaysMatch == Spec => []AnswersMatch
<1>1. Sound => AnswersMatch
  BY DEF Sound, NetSound, CopySound, Matches, AnswersMatch
<1>. QED  BY <1>1, AlwaysSound, PTL

\* Whoever ends a ping with an answer is a neighbour: ping messages are broadcast on
\* the interfaces and nobody passes them on.
THEOREM AnswersFromNeighbours == Spec => []OnlyNeighboursAnswer
<1>1. Sound => OnlyNeighboursAnswer
  BY DEF Sound, PingsSound, FateSound, OnlyNeighboursAnswer
<1>. QED  BY <1>1, AlwaysSound, PTL

\* No entry outlives two audit periods, for every m_pingTimeout.
THEOREM AgesAlwaysBounded == Spec => []AgesBounded
<1>1. Sound => AgesBounded
  BY DEF Sound, PingsSound, TrackerSound, AgesBounded
<1>. QED  BY <1>1, AlwaysSound, PTL

-----------------------------------------------------------------------------
(* The refinement of PingService.                                          *)

\* What the caller of the service sees of a ping.
Seen(p) ==
    /\ p \notin asked => StatusOf(p) = "unsent"
    /\ Waiting(p) => StatusOf(p) = "pending"
    /\ StatusOf(p) = "pending" => Waiting(p)
    /\ ~Waiting(p) => AgeOf(p) = 0
    /\ \A s \in DOMAIN m_pingTracker[p.from] :
         m_pingTracker[p.from][s].dest = p.to => AgeOf(p) = m_pingTracker[p.from][s].age

LEMMA SoundSeen == Sound => \A p \in Ping : Seen(p)
<1>. SUFFICES ASSUME Sound, NEW p \in Ping PROVE Seen(p)
  OBVIOUS
<1>1. TypesSound /\ FateSound(p) /\ TrackerSound(p.from) /\ p = [from |-> p.from, to |-> p.to]
  BY PingAssumption DEF Sound, PingsSound
<1>2. answers[p] \in Nat /\ expiries[p] \in Nat
  BY <1>1 DEF TypesSound
<1>3. Waiting(p) => p \in asked
  BY <1>1 DEF Waiting, TrackerSound, PingOf
<1>4. ASSUME NEW s \in DOMAIN m_pingTracker[p.from], m_pingTracker[p.from][s].dest = p.to
      PROVE  Waiting(p) /\ EntryOf(p) = s
  BY <1>1, <1>4 DEF Waiting, EntryOf, TrackerSound
<1>. QED  BY <1>1, <1>2, <1>3, <1>4 DEF Seen, FateSound, StatusOf, AgeOf

LEMMA SoundSeenNext == Sound' => \A p \in Ping : Seen(p)'
<1>1. Sound => \A p \in Ping : Seen(p)
  BY SoundSeen
<1>2. Sound' => (\A p \in Ping : Seen(p))'
  BY <1>1, PTL
<1>. QED  BY <1>2

\* What is seen of a ping stays when its status and its entry do.
LEMMA SameAge ==
    ASSUME Sound, Sound', NEW p \in Ping, StatusOf(p)' = StatusOf(p),
           \A s \in DOMAIN m_pingTracker[p.from] :
              m_pingTracker[p.from][s].dest = p.to =>
                 s \in DOMAIN m_pingTracker'[p.from] /\ m_pingTracker'[p.from][s] = m_pingTracker[p.from][s]
    PROVE  AgeOf(p)' = AgeOf(p)
<1>1. Seen(p) /\ Seen(p)'
  BY SoundSeen, SoundSeenNext
<1>2. CASE Waiting(p)
  <2>1. PICK s \in DOMAIN m_pingTracker[p.from] : m_pingTracker[p.from][s].dest = p.to
    BY <1>2 DEF Waiting
  <2>. QED  BY <1>1, <2>1 DEF Seen
<1>3. CASE ~Waiting(p)
  BY <1>1, <1>3 DEF Seen
<1>. QED  BY <1>2, <1>3

LEMMA CommandSends ==
    ASSUME Sound, Sound', NEW p \in Ping, ProcessCommand(p)
    PROVE  Service!Send({p})
<1>1. /\ TypesSound /\ p.from \in Node
      /\ \A q \in Ping : Seen(q) /\ Seen(q)'
  BY SoundSeen, SoundSeenNext, PingAssumption DEF Sound, PingsSound
<1>2. /\ p \notin asked /\ asked' = asked \cup {p} /\ answers' = answers /\ expiries' = expiries
      /\ \A k \in Node : \A s \in DOMAIN m_pingTracker[k] :
           s \in DOMAIN m_pingTracker'[k] /\ m_pingTracker'[k][s] = m_pingTracker[k][s]
      /\ \A s \in DOMAIN m_pingTracker'[p.from] :
           s \in DOMAIN m_pingTracker[p.from] \/ m_pingTracker'[p.from][s].age = 0
  BY <1>1 DEF ProcessCommand, Insert, TypesSound
<1>3. StatusOf(p) = "unsent" /\ ~Waiting(p)
  BY <1>1, <1>2 DEF Seen
<1>4. StatusOf(p)' = "pending"
  BY <1>2, <1>3 DEF StatusOf
<1>5. AgeOf(p)' = AgeOf(p)
  <2>1. PICK s \in DOMAIN m_pingTracker'[p.from] : m_pingTracker'[p.from][s].dest = p.to
    BY <1>1, <1>4 DEF Seen, Waiting
  <2>2. s \notin DOMAIN m_pingTracker[p.from]
    BY <1>1, <1>2, <1>3, <2>1 DEF Waiting
  <2>. QED  BY <1>1, <1>2, <1>3, <2>1, <2>2 DEF Seen
<1>6. ASSUME NEW q \in Ping, q # p
      PROVE  StatusOf(q)' = StatusOf(q) /\ AgeOf(q)' = AgeOf(q)
  <2>1. StatusOf(q)' = StatusOf(q) /\ q.from \in Node
    BY <1>2, <1>6, PingAssumption DEF StatusOf
  <2>. QED  BY <1>2, <2>1, SameAge
<1>. QED  BY <1>3, <1>4, <1>5, <1>6 DEF Service!Send

LEMMA AnswerSucceeds ==
    ASSUME Sound, Sound', NEW d \in Links!InFlight, ProcessPingRsp(d)
    PROVE  \E q \in Ping : Service!Succeed(q)
<1>. DEFINE n == d.to
            s == d.msg.seq
<1>1. /\ n \in Node /\ s \in DOMAIN m_pingTracker[n] /\ TypesSound /\ TrackerSound(n)
      /\ \A p \in Ping : Seen(p) /\ Seen(p)'
  BY SoundSeen, SoundSeenNext DEF Sound, PingsSound, NetSound, CopySound, ProcessPingRsp
<1>2. PICK q \in Ping : q = PingOf(n, s)
  BY <1>1 DEF TrackerSound, TypesSound
<1>3. q.from = n /\ q.to = m_pingTracker[n][s].dest
  BY <1>2 DEF PingOf
<1>4. /\ asked' = asked /\ expiries' = expiries
      /\ answers' = [answers EXCEPT ![q] = @ + 1]
      /\ \A k \in Node : \A r \in DOMAIN m_pingTracker[k] :
           \/ r \in DOMAIN m_pingTracker'[k] /\ m_pingTracker'[k][r] = m_pingTracker[k][r]
           \/ k = n /\ r = s
  BY <1>1, <1>2 DEF ProcessPingRsp, Without, TypesSound
<1>5. StatusOf(q) = "pending"
  BY <1>1, <1>3 DEF Seen, Waiting
<1>6. StatusOf(q)' = "succeeded"
  <2>1. answers[q] \in Nat /\ answers'[q] = answers[q] + 1
    BY <1>1, <1>4 DEF TypesSound
  <2>. QED  BY <2>1 DEF StatusOf
<1>7. AgeOf(q)' = 0
  BY <1>1, <1>6 DEF Seen
<1>8. ASSUME NEW p \in Ping, p # q
      PROVE  StatusOf(p)' = StatusOf(p) /\ AgeOf(p)' = AgeOf(p)
  <2>1. StatusOf(p)' = StatusOf(p)
    <3>1. answers'[p] = answers[p]
      BY <1>1, <1>4, <1>8 DEF TypesSound
    <3>. QED  BY <1>4, <3>1 DEF StatusOf
  <2>2. p.from \in Node /\ (p.from = n => p.to # m_pingTracker[n][s].dest)
    BY <1>3, <1>8, PingAssumption
  <2>. QED  BY <1>4, <2>1, <2>2, SameAge
<1>9. Service!Succeed(q)
  BY <1>5, <1>6, <1>7, <1>8 DEF Service!Succeed
<1>. QED  BY <1>9

LEMMA AuditFails ==
    ASSUME Sound, Sound', NEW n \in Node, AuditPings(n)
    PROVE  \E S \in SUBSET Ping : Service!Fail(S)
<1>. DEFINE Gone(p) == {s \in Expired(n) : PingOf(n, s) = p}
            S == {p \in Ping : Gone(p) # {}}
<1>1. /\ TypesSound /\ TrackerSound(n)
      /\ \A p \in Ping : Seen(p) /\ Seen(p)' /\ FateSound(p) /\ FateSound(p)'
  BY SoundSeen, SoundSeenNext DEF Sound, PingsSound
<1>2. /\ asked' = asked /\ answers' = answers
      /\ expiries' = [p \in Ping |-> expiries[p] + Cardinality(Gone(p))]
      /\ \A k \in Node : k # n => m_pingTracker'[k] = m_pingTracker[k]
      /\ DOMAIN m_pingTracker'[n] = DOMAIN m_pingTracker[n] \ Expired(n)
      /\ \A s \in DOMAIN m_pingTracker'[n] : m_pingTracker'[n][s] = m_pingTracker[n][s]
  BY <1>1 DEF AuditPings, Without, TypesSound, linkVars
<1>3. ASSUME NEW p \in S
      PROVE  /\ StatusOf(p) = "pending" /\ AgeOf(p) >= PingTimeout
             /\ StatusOf(p)' = "failed" /\ AgeOf(p)' = 0
  <2>1. PICK s \in Expired(n) : PingOf(n, s) = p
    OBVIOUS
  <2>2. /\ s \in DOMAIN m_pingTracker[n] /\ p.from = n /\ m_pingTracker[n][s].dest = p.to
        /\ m_pingTracker[n][s].age >= PingTimeout
    BY <2>1 DEF Expired, PingOf
  <2>3. Waiting(p) /\ p \in asked
    BY <1>1, <2>1, <2>2 DEF Waiting, TrackerSound
  <2>4. StatusOf(p) = "pending" /\ AgeOf(p) >= PingTimeout
    BY <1>1, <2>2, <2>3 DEF Seen
  <2>5. ~Waiting(p)'
    BY <1>1, <1>2, <2>1, <2>2 DEF TrackerSound, Waiting
  <2>6. StatusOf(p)' = "failed"
    <3>1. answers[p] \in Nat /\ ~(answers[p] > 0)
      BY <1>1, <2>4 DEF StatusOf, TypesSound
    <3>2. answers'[p] = 0 /\ answers'[p] + expiries'[p] = 1
      BY <1>1, <1>2, <2>3, <2>5, <3>1 DEF FateSound
    <3>3. expiries'[p] \in Nat
      BY DEF Sound, PingsSound, TypesSound
    <3>. QED  BY <3>2, <3>3 DEF StatusOf
  <2>. QED  BY <1>1, <2>4, <2>5, <2>6 DEF Seen
<1>4. ASSUME NEW p \in Ping, p \notin S
      PROVE  StatusOf(p)' = StatusOf(p) /\ AgeOf(p)' = AgeOf(p)
  <2>1. Gone(p) = {} /\ p.from \in Node /\ p = [from |-> p.from, to |-> p.to]
    BY <1>4, PingAssumption
  <2>2. expiries'[p] = expiries[p]
    <3>1. Cardinality(Gone(p)) = 0
      BY <2>1, FS_EmptySet
    <3>. QED  BY <1>1, <1>2, <3>1 DEF TypesSound
  <2>3. StatusOf(p)' = StatusOf(p)
    BY <1>2, <2>2 DEF StatusOf
  <2>4. p.from = n => \A s \in Expired(n) : m_pingTracker[n][s].dest # p.to
    BY <2>1 DEF PingOf
  <2>. QED  BY <1>2, <2>1, <2>3, <2>4, SameAge
<1>. HIDE DEF Gone
<1>5. S \in SUBSET Ping
  OBVIOUS
<1>6. Service!Fail(S)
  <2>. HIDE DEF S
  <2>. QED  BY <1>3, <1>4, <1>5 DEF Service!Fail
<1>. QED  BY <1>5, <1>6

LEMMA TickWaits ==
    ASSUME Sound, Sound', Tick
    PROVE  Service!Wait
<1>1. /\ TypesSound /\ (\A k \in Node : TrackerSound(k))
      /\ \A p \in Ping : Seen(p) /\ Seen(p)'
  BY SoundSeen, SoundSeenNext DEF Sound, PingsSound
<1>2. asked' = asked /\ answers' = answers /\ expiries' = expiries
  BY DEF Tick
<1>3. ASSUME NEW p \in Ping
      PROVE  /\ StatusOf(p)' = StatusOf(p)
             /\ StatusOf(p) = "pending" => AgeOf(p) < 2 * PingTimeout - 1 /\ AgeOf(p)' = AgeOf(p) + 1
             /\ StatusOf(p) # "pending" => AgeOf(p)' = AgeOf(p)
  <2>1. StatusOf(p)' = StatusOf(p) /\ p.from \in Node
    BY <1>2, PingAssumption DEF StatusOf
  <2>2. CASE StatusOf(p) = "pending"
    <3>. DEFINE n == p.from
    <3>1. PICK s \in DOMAIN m_pingTracker[n] : m_pingTracker[n][s].dest = p.to
      BY <1>1, <2>2 DEF Seen, Waiting
    <3>. DEFINE e == m_pingTracker[n][s]
    <3>2. /\ e \in [dest : Node, age : Nat] /\ s \in DOMAIN m_pingTracker'[n]
          /\ m_pingTracker'[n][s] = [e EXCEPT !.age = @ + 1]
          /\ e.age + auditIn[n] <= 2 * PingTimeout - 1
          /\ auditIn[n] \in 0 .. PingTimeout /\ auditIn[n] > 0
      BY <1>1, <2>1, <3>1 DEF Tick, TrackerSound, TypesSound
    <3>3. e.age < 2 * PingTimeout - 1
      BY <3>2, PingTimeoutAssumption
    <3>4. m_pingTracker'[n][s].dest = p.to /\ m_pingTracker'[n][s].age = e.age + 1
      BY <3>1, <3>2
    <3>5. AgeOf(p) = e.age /\ AgeOf(p)' = e.age + 1
      BY <1>1, <3>1, <3>2, <3>4 DEF Seen
    <3>. QED  BY <2>1, <2>2, <3>3, <3>5
  <2>3. CASE StatusOf(p) # "pending"
    BY <1>1, <2>1, <2>3 DEF Seen
  <2>. QED  BY <2>1, <2>2, <2>3
<1>. QED  BY <1>3 DEF Service!Wait, Service!Pending

\* Nothing that the caller sees has changed.
LEMMA SameView ==
    ASSUME UNCHANGED <<m_pingTracker, asked, answers, expiries>>
    PROVE  UNCHANGED <<[p \in Ping |-> StatusOf(p)], [p \in Ping |-> AgeOf(p)]>>
BY DEF StatusOf, AgeOf, EntryOf, Waiting

LEMMA ServiceStep ==
    ASSUME Sound, Sound', [Next]_vars
    PROVE  [Service!Next]_<<[p \in Ping |-> StatusOf(p)], [p \in Ping |-> AgeOf(p)]>>
<1>1. CASE \E p \in Ping : ProcessCommand(p)
  <2>1. PICK p \in Ping : ProcessCommand(p)
    BY <1>1
  <2>2. {p} \in SUBSET Ping /\ Service!Send({p})
    BY <2>1, CommandSends
  <2>. QED  BY <2>2 DEF Service!Next
<1>2. ASSUME NEW d \in Links!InFlight, RecvLSMessage(d)
      PROVE  [Service!Next]_<<[p \in Ping |-> StatusOf(p)], [p \in Ping |-> AgeOf(p)]>>
  <2>1. CASE ProcessPingRsp(d)
    BY <2>1, AnswerSucceeds DEF Service!Next
  <2>2. CASE \/ Links!RecvLSMessage(d) /\ UNCHANGED pingVars
             \/ ProcessPingReq(d) \/ InvalidPingRsp(d)
    <3>1. UNCHANGED <<m_pingTracker, asked, answers, expiries>>
      BY <2>2 DEF pingVars, ProcessPingReq, InvalidPingRsp
    <3>. QED  BY <3>1, SameView
  <2>. QED  BY <1>2, <2>1, <2>2 DEF RecvLSMessage
<1>3. CASE \E n \in Node : AuditPings(n)
  BY <1>3, AuditFails DEF Service!Next
<1>4. CASE Tick
  BY <1>4, TickWaits DEF Service!Next
<1>5. CASE UNCHANGED vars
  BY <1>5, SameView DEF vars, pingVars
<1>. QED  BY <1>1, <1>2, <1>3, <1>4, <1>5 DEF Next

\* Whatever the links do, PING of LSRoutingProtocol keeps the promise that PingService
\* makes to the caller: one end for every ping, and a failure neither too soon nor too late.
THEOREM PingsKeepPromise == Spec => ServiceSpec
<1>1. Init => Service!Init
  <2>. SUFFICES ASSUME Init PROVE Service!Init
    OBVIOUS
  <2>1. ASSUME NEW p \in Ping PROVE StatusOf(p) = "unsent" /\ ~Waiting(p)
    BY PingAssumption DEF Init, StatusOf, Waiting, Nothing
  <2>. QED  BY <2>1 DEF Service!Init, AgeOf
<1>2. Sound /\ Sound' /\ [Next]_vars =>
        [Service!Next]_<<[p \in Ping |-> StatusOf(p)], [p \in Ping |-> AgeOf(p)]>>
  BY ServiceStep
<1>. QED  BY <1>1, <1>2, AlwaysSound, PTL DEF Spec, ServiceSpec, Service!Spec

-----------------------------------------------------------------------------
(* Discovery beside the pings.  Links and Tables name the same definitions,*)
(* and the pings touch no table, so that what LinkStateProofs proves of a  *)
(* step of discovery is still true here.                                   *)

LEMMA TablesAssumed ==
    /\ Node \subseteq Nat /\ Tables!IsFiniteSet(Node) /\ Tables!IsFiniteSet(Link)
    /\ Network \subseteq [attached : [Link -> SUBSET Node], lost : SUBSET (Node \X Tables!MessageType)]
BY LinksAssumption DEF Links!MessageType, Tables!MessageType, IsFiniteSet, Tables!IsFiniteSet

LEMMA SameTables ==
    ASSUME NEW n, NEW k, NEW told, NEW t
    PROVE  Links!TablesAfter(n, k, told, t) = Tables!TablesAfter(n, k, told, t)
BY Zenon DEF Tables!TablesAfter, Links!TablesAfter, Tables!rTableInsert, Links!rTableInsert,
    Tables!isNew, Links!isNew, Tables!Route, Links!Route,
    Tables!NoHop, Links!NoHop, Tables!Unwritten, Links!Unwritten

LEMMA SameNet ==
    ASSUME NEW b, NEW n, NEW m
    PROVE  /\ Links!BroadcastPacket(b, n, m) = Tables!BroadcastPacket(b, n, m)
           /\ Links!Take(b, m) = Tables!Take(b, m)
           /\ Links!InFlight = Tables!InFlight
           /\ Links!Heard(n, m) = Tables!Heard(n, m)
           /\ Links!IsABag(b) = Tables!IsABag(b)
           /\ Links!BagToSet(b) = Tables!BagToSet(b)
<1>1. Links!Heard(n, m) = Tables!Heard(n, m)
  BY Zenon DEF Links!Heard, Tables!Heard, Links!IsOwnAddress, Tables!IsOwnAddress
<1>2. Links!BroadcastPacket(b, n, m) = Tables!BroadcastPacket(b, n, m)
  BY Zenon, <1>1 DEF Links!BroadcastPacket, Tables!BroadcastPacket,
                     Links!SetToBag, Tables!SetToBag, Links!(+), Tables!(+)
<1>3. Links!Take(b, m) = Tables!Take(b, m)
  BY Zenon DEF Links!Take, Tables!Take, Links!SetToBag, Tables!SetToBag, Links!(-), Tables!(-)
<1>4. /\ Links!IsABag(b) = Tables!IsABag(b) /\ Links!BagToSet(b) = Tables!BagToSet(b)
      /\ Links!InFlight = Tables!InFlight
  BY Zenon DEF Links!IsABag, Tables!IsABag, Links!BagToSet, Tables!BagToSet,
               Links!InFlight, Tables!InFlight
<1>. QED  BY <1>1, <1>2, <1>3, <1>4

LEMMA SameHandlers ==
    ASSUME NEW d \in Links!InFlight, Links!RecvLSMessage(d)
    PROVE  Tables!Next
<1>1. Links!ProcessNdReq(d) => Tables!ProcessNdReq(d)
  BY SameNet DEF Links!ProcessNdReq, Tables!ProcessNdReq, Links!NdRsp, Tables!NdRsp
<1>2. Links!ProcessNdRsp(d) => Tables!ProcessNdRsp(d)
  <2>1. \A t : Links!Lsp(d.to, t) = Tables!Lsp(d.to, t)
    BY DEF Links!Lsp, Tables!Lsp
  <2>2. \A m : Links!BroadcastPacket(Links!Take(net, d), d.to, m)
                 = Tables!BroadcastPacket(Tables!Take(net, d), d.to, m)
    BY SameNet
  <2>. QED  BY <2>1, <2>2 DEF Links!ProcessNdRsp, Tables!ProcessNdRsp
<1>3. Links!ProcessLsp(d) => Tables!ProcessLsp(d)
  BY SameNet, SameTables, Zenon DEF Links!ProcessLsp, Tables!ProcessLsp
<1>. QED  BY <1>1, <1>2, <1>3, SameNet DEF Links!RecvLSMessage, Tables!RecvLSMessage, Tables!Next

LinksSound ==
    /\ network \in Network
    /\ Tables!Sound
    /\ Tables!RoutesSound

LEMMA LinksSoundInit == Init => LinksSound
<1>. SUFFICES ASSUME Init PROVE LinksSound
  OBVIOUS
<1>1. network \in Network
  BY DEF Init, Links!Init
<1>2. Tables!Init
  <2>1. \A n : Links!Heard(n, Links!NdReq(n)) = Tables!Heard(n, Tables!NdReq(n))
    BY SameNet DEF Links!NdReq, Tables!NdReq
  <2>2. net = Links!SetToBag(UNION {Links!Heard(n, Links!NdReq(n)) : n \in Node})
    BY DEF Init, Links!Init
  <2>3. net = Tables!SetToBag(UNION {Tables!Heard(n, Tables!NdReq(n)) : n \in Node})
    BY <2>1, <2>2 DEF Links!SetToBag, Tables!SetToBag
  <2>. QED  BY <2>3 DEF Init, Links!Init, Tables!Init
<1>. QED  BY <1>1, <1>2, TablesAssumed, Tables!SoundInit, Tables!RoutesInit DEF LinksSound

\* A ping message breaks nothing of what is said of discovery.
LEMMA PingTraffic ==
    ASSUME LinksSound, UNCHANGED <<network, nTable, rTable>>,
           NEW b, Tables!IsABag(b), Tables!BagToSet(b) \subseteq Tables!InFlight,
           NEW n \in Node, NEW m, m.from = n, m.type \in {"PING_REQ", "PING_RSP"},
           net' = b \/ net' = Tables!BroadcastPacket(b, n, m)
    PROVE  LinksSound'
<1>1. Tables!IsABag(net') /\ Tables!InFlight' \subseteq Tables!InFlight \cup Tables!Heard(n, m)
  BY TablesAssumed, Tables!BroadcastBag DEF Tables!InFlight
<1>2. ASSUME NEW d \in Tables!Heard(n, m)
      PROVE  Tables!CopySound(d) /\ d.msg.type \in Tables!MessageType /\ <<d.msg.from, d.msg.type>> \notin network.lost
  <2>1. /\ d.to \in Node \ {n} /\ d.link \in Link /\ d.msg = m
        /\ {n, d.to} \subseteq network.attached[d.link] /\ <<n, m.type>> \notin network.lost
    BY DEF Tables!Heard
  <2>. QED  BY <2>1 DEF Tables!CopySound, Tables!MessageType
<1>3. Tables!TablesSound'
  BY DEF LinksSound, Tables!Sound, Tables!TablesSound, Tables!Adjacent
<1>4. \A d : Tables!CopySound(d) => Tables!CopySound(d)'
  BY DEF Tables!CopySound
<1>5. Tables!Sound'
  BY <1>1, <1>2, <1>3, <1>4 DEF LinksSound, Tables!Sound
<1>6. Tables!RoutesLearnable'
  <2>1. Tables!TablesGrow
    BY DEF Tables!TablesGrow
  <2>2. \A x \in Node : \A i \in DOMAIN rTable'[x] : Tables!Learnable(x, rTable'[x][i])
    BY DEF LinksSound, Tables!RoutesSound, Tables!RoutesLearnable
  <2>. QED  BY <2>1, <2>2, TablesAssumed, Tables!LearnableKept
<1>7. Tables!RoutesSound'
  BY <1>1, <1>2, <1>6 DEF LinksSound, Tables!RoutesSound
<1>. QED  BY <1>5, <1>7 DEF LinksSound

LEMMA LinksSoundStep == LinksSound /\ Sound /\ [Next]_vars => LinksSound'
<1>. SUFFICES ASSUME LinksSound, Sound, [Next]_vars PROVE LinksSound'
  OBVIOUS
<1>0. Tables!IsABag(net) /\ Tables!InFlight = Tables!BagToSet(net)
  BY DEF LinksSound, Tables!Sound, Tables!InFlight
<1>1. ASSUME NEW d \in Links!InFlight, Links!RecvLSMessage(d) PROVE LinksSound'
  <2>1. Tables!Next
    BY <1>1, SameHandlers
  <2>2. network' = network
    BY <1>1 DEF Links!RecvLSMessage, Links!ProcessNdReq, Links!ProcessNdRsp, Links!ProcessLsp
  <2>. QED  BY <2>1, <2>2, TablesAssumed, Tables!SoundStep, Tables!RoutesStep DEF LinksSound
<1>2. ASSUME NEW d \in Links!InFlight, ProcessPingReq(d) \/ ProcessPingRsp(d) \/ InvalidPingRsp(d)
      PROVE  LinksSound'
  <2>. DEFINE m == PingRsp(d.to, d.msg.seq, d.msg.from)
              b == Tables!Take(net, d)
  <2>1. UNCHANGED <<network, nTable, rTable>> /\ (net' = b \/ net' = Tables!BroadcastPacket(b, d.to, m))
    BY <1>2, SameNet DEF ProcessPingReq, ProcessPingRsp, InvalidPingRsp
  <2>2. Tables!IsABag(b) /\ Tables!BagToSet(b) \subseteq Tables!InFlight
    BY <1>0, TablesAssumed, Tables!TakeBag
  <2>3. d.to \in Node
    BY DEF Sound, NetSound, CopySound
  <2>4. m.from = d.to /\ m.type = "PING_RSP"
    BY DEF PingRsp
  <2>. HIDE DEF m, b
  <2>. QED  BY <2>1, <2>2, <2>3, <2>4, PingTraffic
<1>3. ASSUME NEW p \in Ping, ProcessCommand(p) PROVE LinksSound'
  <2>. DEFINE m == PingReq(p.from, m_currentSequenceNumber[p.from], p.to)
  <2>1. UNCHANGED <<network, nTable, rTable>> /\ net' = Tables!BroadcastPacket(net, p.from, m)
    BY <1>3, SameNet DEF ProcessCommand
  <2>2. p.from \in Node /\ m.from = p.from /\ m.type = "PING_REQ"
    BY PingAssumption DEF PingReq
  <2>. HIDE DEF m
  <2>. QED  BY <1>0, <2>1, <2>2, PingTraffic
<1>4. ASSUME UNCHANGED linkVars PROVE LinksSound'
  <2>1. UNCHANGED Tables!vars
    BY <1>4 DEF linkVars, Tables!vars
  <2>. QED  BY <1>4, <2>1, TablesAssumed, Tables!SoundStep, Tables!RoutesStep DEF LinksSound, linkVars
<1>. QED  BY <1>1, <1>2, <1>3, <1>4 DEF Next, RecvLSMessage, AuditPings, Tick, vars

\* The variables keep their types: no number is given out that the counter does not
\* have, and no age reaches twice m_pingTimeout.
THEOREM TypeCorrect == Spec => []TypeOK
<1>1. LinksSound => Links!TypeOK
  <2>. SUFFICES ASSUME LinksSound PROVE Links!TypeOK
    OBVIOUS
  <2>1. ASSUME NEW n \in Node
        PROVE  /\ \A i \in DOMAIN nTable[n] : nTable[n][i] \in Links!nTableEntry
               /\ \A i \in DOMAIN rTable[n] : rTable[n][i] \in Links!rTableEntry
    <3>1. nTable[n] \in Seq(Tables!nTableEntry) /\ rTable[n] \in Seq(Tables!rTableEntry)
      BY DEF LinksSound, Tables!Sound, Tables!TablesSound, Tables!RoutesSound
    <3>2. Tables!nTableEntry = Links!nTableEntry /\ Tables!rTableEntry = Links!rTableEntry
      BY DEF Tables!nTableEntry, Links!nTableEntry, Tables!rTableEntry, Links!rTableEntry,
             Tables!NoHop, Links!NoHop, Tables!Unwritten, Links!Unwritten
    <3>. QED  BY <3>1, <3>2
  <2>2. ASSUME NEW d \in Links!InFlight
        PROVE  /\ d.to \in Node /\ d.link \in Link
               /\ d.msg.type \in Links!MessageType /\ d.msg.from \in Node
    BY SameNet DEF LinksSound, Tables!Sound, Tables!CopySound, Tables!RoutesSound,
                   Tables!MessageType, Links!MessageType
  <2>. QED  BY <2>1, <2>2 DEF LinksSound, Links!TypeOK
<1>2. ASSUME PingsSound, NEW n \in Node
      PROVE  /\ DOMAIN m_pingTracker[n] \subseteq SequenceNumber
             /\ \A s \in DOMAIN m_pingTracker[n] : m_pingTracker[n][s] \in PingRequest
  <2>1. TrackerSound(n) /\ TypesSound /\ m_currentSequenceNumber[n] \in SequenceNumber
        /\ auditIn[n] \in 0 .. PingTimeout
    BY <1>2 DEF PingsSound, TypesSound
  <2>2. Count(n) \in Nat /\ Count(n) <= SeqMod
    <3>1. IsFiniteSet({p \in Ping : p.from = n})
      BY PingAssumption, FS_Subset
    <3>2. {p \in asked : p.from = n} \subseteq {p \in Ping : p.from = n}
      BY <2>1 DEF TypesSound
    <3>3. IsFiniteSet({p \in asked : p.from = n})
          /\ Cardinality({p \in asked : p.from = n}) <= Cardinality({p \in Ping : p.from = n})
      BY <3>1, <3>2, FS_Subset
    <3>4. Cardinality({p \in asked : p.from = n}) \in Nat /\ Cardinality({p \in Ping : p.from = n}) \in Nat
      BY <3>1, <3>3, FS_CardinalityType
    <3>. QED  BY <3>3, <3>4, PingAssumption, SeqModAssumption DEF Count
  <2>3. \A j \in 1 .. Count(n) : Back(m_currentSequenceNumber[n], j) \in SequenceNumber
    BY <2>1, <2>2, SeqModAssumption DEF Back, SequenceNumber
  <2>4. DOMAIN m_pingTracker[n] \subseteq SequenceNumber
    BY <2>1, <2>3 DEF TrackerSound, Used
  <2>5. ASSUME NEW s \in DOMAIN m_pingTracker[n] PROVE m_pingTracker[n][s] \in PingRequest
    <3>. DEFINE e == m_pingTracker[n][s]
    <3>1. e \in [dest : Node, age : Nat] /\ e.age + auditIn[n] <= 2 * PingTimeout - 1
      BY <2>1 DEF TrackerSound
    <3>2. e.age \in 0 .. 2 * PingTimeout - 1
      BY <2>1, <3>1, PingTimeoutAssumption
    <3>. QED  BY <3>1, <3>2 DEF PingRequest
  <2>. QED  BY <2>4, <2>5
<1>3. LinksSound /\ Sound => TypeOK
  BY <1>1, <1>2 DEF Sound, PingsSound, TypesSound, TypeOK
<1>. QED  BY <1>3, AlwaysSound, LinksSoundInit, LinksSoundStep, PTL DEF Spec

-----------------------------------------------------------------------------
(* How many messages a ping makes.  As many requests are sent as the two   *)
(* nodes share links, and each of them is answered on every shared link.   *)

LEMMA CopyIn ==
    ASSUME NEW b, NEW type, NEW from, NEW dest
    PROVE  /\ \A x \in Copies(b, type, from, dest) : \E c, i :
                c \in Tables!BagToSet(b) /\ Runs(c.msg, type, from, dest) /\ i \in 1 .. b[c] /\ x = <<c, i>>
           /\ \A c \in Tables!BagToSet(b) : \A i \in 1 .. b[c] :
                Runs(c.msg, type, from, dest) => <<c, i>> \in Copies(b, type, from, dest)
BY DEF Copies, BagToSet, Tables!BagToSet

\* Receiving a copy removes one.
LEMMA TakeCopies ==
    ASSUME NEW b, Tables!IsABag(b), NEW d \in Tables!BagToSet(b), NEW type, NEW from, NEW dest
    PROVE  Copies(Tables!Take(b, d), type, from, dest) \subseteq Copies(b, type, from, dest) \ {<<d, b[d]>>}
<1>. DEFINE a == Tables!Take(b, d)
<1>1. /\ Tables!BagToSet(a) \subseteq Tables!BagToSet(b)
      /\ \A c \in Tables!BagToSet(a) : a[c] = IF c = d THEN b[c] - 1 ELSE b[c]
      /\ \A c \in Tables!BagToSet(b) : b[c] \in Nat
  BY DEF Tables!Take, Tables!IsABag, Tables!BagToSet, Tables!SetToBag, Tables!(-)
<1>. HIDE DEF a
<1>2. ASSUME NEW x \in Copies(a, type, from, dest)
      PROVE  x \in Copies(b, type, from, dest) \ {<<d, b[d]>>}
  <2>1. PICK c, i : c \in Tables!BagToSet(a) /\ Runs(c.msg, type, from, dest) /\ i \in 1 .. a[c] /\ x = <<c, i>>
    BY CopyIn
  <2>2. c \in Tables!BagToSet(b) /\ i \in 1 .. b[c] /\ <<c, i>> # <<d, b[d]>>
    BY <1>1, <2>1
  <2>. QED  BY <2>1, <2>2, CopyIn
<1>. QED  BY <1>2 DEF a

\* Broadcasting a message adds one copy for each that hears it.
LastCopies(b, n, m) == {<<c, Tables!BroadcastPacket(b, n, m)[c]>> : c \in Tables!Heard(n, m)}

LEMMA SendCopies ==
    ASSUME NEW b, Tables!IsABag(b), NEW n, NEW m, NEW type, NEW from, NEW dest
    PROVE  Copies(Tables!BroadcastPacket(b, n, m), type, from, dest)
             \subseteq Copies(b, type, from, dest)
                       \cup (IF Runs(m, type, from, dest) THEN LastCopies(b, n, m) ELSE {})
<1>. DEFINE H == Tables!Heard(n, m)
            a == Tables!BroadcastPacket(b, n, m)
<1>1. a = Tables!(+)(b, Tables!SetToBag(H)) /\ \A c \in H : c.msg = m
  BY DEF Tables!BroadcastPacket, Tables!Heard
<1>. HIDE DEF H, a
<1>2. /\ Tables!BagToSet(a) \subseteq Tables!BagToSet(b) \cup H
      /\ \A c \in Tables!BagToSet(b) \ H : a[c] = b[c]
      /\ \A c \in H \ Tables!BagToSet(b) : a[c] = 1
      /\ \A c \in Tables!BagToSet(b) \cap H : a[c] = b[c] + 1
      /\ \A c \in Tables!BagToSet(b) : b[c] \in Nat
  BY <1>1 DEF Tables!IsABag, Tables!BagToSet, Tables!SetToBag, Tables!(+)
<1>3. ASSUME NEW x \in Copies(a, type, from, dest)
      PROVE  \/ x \in Copies(b, type, from, dest)
             \/ Runs(m, type, from, dest) /\ x \in LastCopies(b, n, m)
  <2>1. PICK c, i : c \in Tables!BagToSet(a) /\ Runs(c.msg, type, from, dest) /\ i \in 1 .. a[c] /\ x = <<c, i>>
    BY CopyIn
  <2>2. CASE c \in Tables!BagToSet(b) /\ i \in 1 .. b[c]
    BY <2>1, <2>2, CopyIn
  <2>3. CASE ~(c \in Tables!BagToSet(b) /\ i \in 1 .. b[c])
    <3>1. c \in H /\ i = a[c]
      BY <1>2, <2>1, <2>3
    <3>. QED  BY <1>1, <2>1, <3>1 DEF LastCopies, H, a
  <2>. QED  BY <2>2, <2>3
<1>. QED  BY <1>3 DEF a

LEMMA SharedLinks ==
    ASSUME NEW n, NEW k
    PROVE  /\ IsFiniteSet(Links!Shared(n, k)) /\ Cardinality(Links!Shared(n, k)) \in Nat
           /\ Links!Shared(n, k) = Links!Shared(k, n)
<1>1. Links!Shared(n, k) \subseteq Link /\ Links!Shared(n, k) = Links!Shared(k, n)
  BY DEF Links!Shared
<1>. QED  BY <1>1, LinksAssumption, FS_Subset, FS_CardinalityType

\* A ping message is heard once on each link that its ends share.
LEMMA FewHear ==
    ASSUME NEW b, NEW n, NEW m, m.type \in {"PING_REQ", "PING_RSP"}
    PROVE  /\ IsFiniteSet(LastCopies(b, n, m))
           /\ Cardinality(LastCopies(b, n, m)) <= Cardinality(Links!Shared(n, m.dest))
<1>. DEFINE S == Links!Shared(n, m.dest)
            a == Tables!BroadcastPacket(b, n, m)
            copy(l) == [to |-> m.dest, link |-> l, msg |-> m]
            f == [l \in S |-> <<copy(l), a[copy(l)]>>]
            T == {f[l] : l \in S}
<1>1. LastCopies(b, n, m) \subseteq T
  <2>. SUFFICES ASSUME NEW c \in Tables!Heard(n, m) PROVE <<c, a[c]>> \in T
    BY DEF LastCopies
  <2>1. /\ c \in [to : Node \ {n}, link : Link, msg : {m}] /\ {n, c.to} \subseteq network.attached[c.link]
        /\ c.to = m.dest
    BY DEF Tables!Heard, Tables!IsOwnAddress
  <2>2. c = copy(c.link) /\ c.link \in S
    BY <2>1 DEF Links!Shared
  <2>. HIDE DEF copy, S, a
  <2>3. f[c.link] = <<c, a[c]>>
    BY <2>2
  <2>. QED  BY <2>2, <2>3
<1>. HIDE DEF S, f
<1>2. f \in Surjection(S, T)
  <2>1. f \in [S -> T]
    BY DEF f
  <2>. QED  BY <2>1, Fun_IsSurj
<1>3. IsFiniteSet(T) /\ Cardinality(T) <= Cardinality(S) /\ IsFiniteSet(S)
  BY <1>2, SharedLinks, FS_Surjection DEF S
<1>4. IsFiniteSet(LastCopies(b, n, m)) /\ Cardinality(LastCopies(b, n, m)) <= Cardinality(T)
  BY <1>1, <1>3, FS_Subset
<1>. HIDE DEF T
<1>5. /\ Cardinality(LastCopies(b, n, m)) \in Nat /\ Cardinality(T) \in Nat /\ Cardinality(S) \in Nat
  BY <1>3, <1>4, FS_CardinalityType
<1>6. Cardinality(LastCopies(b, n, m)) <= Cardinality(S)
  BY <1>3, <1>4, <1>5
<1>. QED  BY <1>4, <1>6 DEF S

Requests(p) == Copies(net, "PING_REQ", p.from, p.to)
Answers(p) == Copies(net, "PING_RSP", p.to, p.from)

\* Nothing travels of a ping that is not asked, and what travels of another is bounded
\* with every request counted for the answers it will have.
EchoSound(p) ==
    /\ IsFiniteSet(Requests(p)) /\ IsFiniteSet(Answers(p))
    /\ p \notin asked => Requests(p) = {} /\ Answers(p) = {}
    /\ LET shared == Cardinality(Links!Shared(p.from, p.to))
       IN  shared * Cardinality(Requests(p)) + Cardinality(Answers(p)) <= shared * shared

EchoesSound ==
    /\ \A d \in Links!InFlight : d.msg.type = "PING_REQ" => d.msg.dest = d.to
    /\ \A p \in Ping : EchoSound(p)

\* Fewer copies are within the bound, and so is an answer on every shared link in the
\* place of a request.
LEMMA Fewer ==
    ASSUME NEW h \in Nat, NEW q \in Nat, NEW r \in Nat, h * q + r <= h * h,
           NEW q1 \in Nat, NEW r1 \in Nat, q1 <= q, r1 <= r
    PROVE  h * q1 + r1 <= h * h
<1>1. h * q1 <= h * q /\ h * q1 \in Nat /\ h * q \in Nat /\ h * h \in Nat
  OBVIOUS
<1>. QED  BY <1>1

LEMMA Answered ==
    ASSUME NEW h \in Nat, NEW q \in Nat, NEW r \in Nat, h * q + r <= h * h,
           NEW q1 \in Nat, NEW r1 \in Nat, q1 <= q - 1, r1 <= r + h
    PROVE  h * q1 + r1 <= h * h
<1>1. h * q1 <= h * (q - 1) /\ h * (q - 1) = h * q - h
  OBVIOUS
<1>2. h * q1 \in Nat /\ h * q \in Nat /\ h * h \in Nat
  OBVIOUS
<1>. QED  BY <1>1, <1>2

LEMMA Asked ==
    ASSUME NEW h \in Nat, NEW q \in Nat, q <= h
    PROVE  h * q + 0 <= h * h
<1>1. h * q <= h * h /\ h * q \in Nat
  OBVIOUS
<1>. QED  BY <1>1

\* The links two nodes share depend on the network alone.
LEMMA SharedKept ==
    ASSUME network' = network, NEW p
    PROVE  /\ Cardinality(Links!Shared(p.from, p.to))' = Cardinality(Links!Shared(p.from, p.to))
           /\ Cardinality(Links!Shared(p.from, p.to)) \in Nat
<1>1. Links!Shared(p.from, p.to)' = Links!Shared(p.from, p.to)
  BY DEF Links!Shared
<1>. QED  BY <1>1, SharedLinks

LEMMA EchoKept ==
    ASSUME network' = network, NEW p, EchoSound(p), p \in asked => p \in asked',
           Requests(p)' \subseteq Requests(p), Answers(p)' \subseteq Answers(p)
    PROVE  EchoSound(p)'
<1>. DEFINE h == Cardinality(Links!Shared(p.from, p.to))
            q == Cardinality(Requests(p))
            r == Cardinality(Answers(p))
<1>1. /\ IsFiniteSet(Requests(p)') /\ IsFiniteSet(Answers(p)')
      /\ q' <= q /\ r' <= r /\ q \in Nat /\ r \in Nat /\ q' \in Nat /\ r' \in Nat
  BY FS_Subset, FS_CardinalityType DEF EchoSound
<1>2. h \in Nat /\ h' = h
  BY SharedKept
<1>2a. h * q + r <= h * h
  BY DEF EchoSound
<1>. HIDE DEF h, q, r
<1>3. h' * q' + r' <= h' * h'
  BY <1>1, <1>2, <1>2a, Fewer
<1>. QED  BY <1>1, <1>3 DEF EchoSound, h, q, r

LEMMA EchoInit == Init => EchoesSound
<1>. SUFFICES ASSUME Init PROVE EchoesSound
  OBVIOUS
<1>1. \A d \in Links!InFlight : d.msg.type = "ND_REQ"
  <2>. DEFINE H == UNION {Links!Heard(n, Links!NdReq(n)) : n \in Node}
  <2>1. net = Links!SetToBag(H)
    BY DEF Init, Links!Init
  <2>2. \A d \in H : d.msg.type = "ND_REQ"
    <3>1. SUFFICES ASSUME NEW n \in Node, NEW d \in Links!Heard(n, Links!NdReq(n))
                   PROVE  d.msg.type = "ND_REQ"
      BY Zenon
    <3>2. d.msg \in {Links!NdReq(n)}
      BY DEF Links!Heard
    <3>. QED  BY <3>2 DEF Links!NdReq
  <2>. HIDE DEF H
  <2>3. Links!InFlight = H
    BY <2>1 DEF Links!InFlight, Links!BagToSet, Links!SetToBag
  <2>. QED  BY <2>2, <2>3
<1>2. ASSUME NEW p \in Ping PROVE EchoSound(p)
  <2>1. Requests(p) = {} /\ Answers(p) = {}
    BY <1>1, CopyIn DEF Requests, Answers, Runs, Links!InFlight, Links!BagToSet, Tables!BagToSet
  <2>. DEFINE h == Cardinality(Links!Shared(p.from, p.to))
  <2>2. h \in Nat
    BY SharedLinks
  <2>. HIDE DEF h
  <2>3. h * 0 + 0 <= h * h
    BY <2>2
  <2>. QED  BY <2>1, <2>3, FS_EmptySet DEF EchoSound, h
<1>. QED  BY <1>1, <1>2 DEF EchoesSound

\* A message that is not of a ping, or is none at all, makes nothing longer.
LEMMA OtherTraffic ==
    ASSUME EchoesSound, Tables!IsABag(net), network' = network, asked \subseteq asked',
           NEW d \in Links!InFlight, NEW n \in Node, NEW m, m.type \notin {"PING_REQ", "PING_RSP"},
           \/ net' = Tables!Take(net, d)
           \/ net' = Tables!BroadcastPacket(Tables!Take(net, d), n, m)
    PROVE  EchoesSound'
<1>. DEFINE b == Tables!Take(net, d)
<1>1. d \in Tables!BagToSet(net)
  BY SameNet DEF Tables!InFlight
<1>2. Tables!IsABag(b) /\ Tables!BagToSet(b) \subseteq Tables!BagToSet(net)
  BY TablesAssumed, Tables!TakeBag
<1>3. Tables!BagToSet(net') \subseteq Tables!BagToSet(net) \cup Tables!Heard(n, m)
  BY <1>2, TablesAssumed, Tables!BroadcastBag
<1>4. \A c \in Tables!Heard(n, m) : c.msg = m
  BY DEF Tables!Heard
<1>5. \A c \in Links!InFlight' : c.msg.type = "PING_REQ" => c.msg.dest = c.to
  BY <1>3, <1>4 DEF EchoesSound, Links!InFlight, Links!BagToSet, Tables!BagToSet
<1>6. ASSUME NEW p \in Ping PROVE EchoSound(p)'
  <2>1. /\ Copies(b, "PING_REQ", p.from, p.to) \subseteq Requests(p)
        /\ Copies(b, "PING_RSP", p.to, p.from) \subseteq Answers(p)
    BY <1>1, TakeCopies DEF Requests, Answers
  <2>2. ~Runs(m, "PING_REQ", p.from, p.to) /\ ~Runs(m, "PING_RSP", p.to, p.from)
    BY DEF Runs
  <2>3. /\ Copies(net', "PING_REQ", p.from, p.to) \subseteq Copies(b, "PING_REQ", p.from, p.to)
        /\ Copies(net', "PING_RSP", p.to, p.from) \subseteq Copies(b, "PING_RSP", p.to, p.from)
    BY <1>2, <2>2, SendCopies
  <2>4. Requests(p)' \subseteq Requests(p) /\ Answers(p)' \subseteq Answers(p)
    BY <2>1, <2>3 DEF Requests, Answers
  <2>. QED  BY <2>4, EchoKept DEF EchoesSound
<1>. QED  BY <1>5, <1>6 DEF EchoesSound

LEMMA EchoReq ==
    ASSUME EchoesSound, Sound, Tables!IsABag(net), NEW d \in Links!InFlight, ProcessPingReq(d)
    PROVE  EchoesSound'
<1>. DEFINE b == Tables!Take(net, d)
            m == PingRsp(d.to, d.msg.seq, d.msg.from)
<1>1. /\ d \in Tables!BagToSet(net) /\ d.msg.type = "PING_REQ" /\ d.msg.dest = d.to
      /\ net' = Tables!BroadcastPacket(b, d.to, m) /\ network' = network /\ asked' = asked
  BY SameNet DEF Tables!InFlight, ProcessPingReq, pingVars, EchoesSound
<1>2. Tables!IsABag(b) /\ Tables!BagToSet(b) \subseteq Tables!BagToSet(net)
  BY TablesAssumed, Tables!TakeBag
<1>3. Tables!BagToSet(net') \subseteq Tables!BagToSet(net) \cup Tables!Heard(d.to, m)
  BY <1>1, <1>2, TablesAssumed, Tables!BroadcastBag
<1>4. (\A c \in Tables!Heard(d.to, m) : c.msg = m) /\ m.type = "PING_RSP" /\ m.from = d.to /\ m.dest = d.msg.from
  BY DEF Tables!Heard, PingRsp
<1>5. \A c \in Links!InFlight' : c.msg.type = "PING_REQ" => c.msg.dest = c.to
  BY <1>3, <1>4 DEF EchoesSound, Links!InFlight, Links!BagToSet, Tables!BagToSet
<1>. HIDE DEF b, m
<1>6. ASSUME NEW p \in Ping PROVE EchoSound(p)'
  <2>. DEFINE N == LastCopies(b, d.to, m)
              x == <<d, net[d]>>
              mine == Runs(d.msg, "PING_REQ", p.from, p.to)
  <2>1. /\ Copies(b, "PING_REQ", p.from, p.to) \subseteq Requests(p) \ {x}
        /\ Copies(b, "PING_RSP", p.to, p.from) \subseteq Answers(p)
    BY <1>1, TakeCopies DEF Requests, Answers, b
  <2>2. ~Runs(m, "PING_REQ", p.from, p.to) /\ (Runs(m, "PING_RSP", p.to, p.from) <=> mine)
    BY <1>1, <1>4 DEF Runs
  <2>3. /\ Copies(net', "PING_REQ", p.from, p.to) \subseteq Copies(b, "PING_REQ", p.from, p.to)
        /\ Copies(net', "PING_RSP", p.to, p.from)
             \subseteq Copies(b, "PING_RSP", p.to, p.from) \cup (IF mine THEN N ELSE {})
    BY <1>1, <1>2, <2>2, SendCopies
  <2>4. /\ Requests(p)' \subseteq Requests(p) \ {x}
        /\ Answers(p)' \subseteq Answers(p) \cup (IF mine THEN N ELSE {})
    BY <2>1, <2>3 DEF Requests, Answers
  <2>5. EchoSound(p)
    BY DEF EchoesSound
  <2>6. CASE ~mine
    BY <1>1, <2>4, <2>5, <2>6, EchoKept
  <2>7. CASE mine
    <3>. DEFINE h == Cardinality(Links!Shared(p.from, p.to))
                q == Cardinality(Requests(p))
                r == Cardinality(Answers(p))
    <3>1. x \in Requests(p)
      <4>1. net[d] \in Nat \ {0}
        BY <1>1 DEF Tables!IsABag, Tables!BagToSet
      <4>2. net[d] \in 1 .. net[d]
        BY <4>1
      <4>. QED  BY <1>1, <2>7, <4>2, CopyIn DEF Requests
    <3>2. p \in asked /\ IsFiniteSet(Requests(p)) /\ IsFiniteSet(Answers(p)) /\ h * q + r <= h * h
      BY <2>5, <3>1 DEF EchoSound
    <3>3. h \in Nat /\ q \in Nat /\ r \in Nat
      BY <3>2, SharedLinks, FS_CardinalityType
    <3>4. /\ IsFiniteSet(Requests(p) \ {x}) /\ Cardinality(Requests(p) \ {x}) = q - 1
      BY <3>1, <3>2, FS_RemoveElement
    <3>5. IsFiniteSet(Requests(p)') /\ q' <= q - 1 /\ q' \in Nat
      BY <2>4, <3>4, FS_Subset, FS_CardinalityType
    <3>6. IsFiniteSet(N) /\ Cardinality(N) <= h /\ Cardinality(N) \in Nat
      <4>1. d.to = p.to /\ m.dest = p.from
        BY <1>1, <1>4, <2>7 DEF Runs
      <4>2. h = Cardinality(Links!Shared(d.to, m.dest))
        BY <4>1, SharedLinks
      <4>. QED  BY <1>4, <4>2, FewHear, FS_CardinalityType
    <3>. HIDE DEF N
    <3>7. IsFiniteSet(Answers(p) \cup N) /\ Cardinality(Answers(p) \cup N) <= r + Cardinality(N)
      <4>1. /\ IsFiniteSet(Answers(p) \cup N) /\ IsFiniteSet(Answers(p) \cap N)
            /\ Cardinality(Answers(p) \cup N) = r + Cardinality(N) - Cardinality(Answers(p) \cap N)
        BY <3>2, <3>6, FS_Union, FS_Intersection
      <4>2. Cardinality(Answers(p) \cap N) \in Nat
        BY <4>1, FS_CardinalityType
      <4>. QED  BY <3>3, <3>6, <4>1, <4>2
    <3>8. IsFiniteSet(Answers(p)') /\ r' <= r + h /\ r' \in Nat
      <4>1. IsFiniteSet(Answers(p)') /\ r' <= Cardinality(Answers(p) \cup N)
        BY <2>4, <2>7, <3>7, FS_Subset
      <4>2. r' \in Nat /\ Cardinality(Answers(p) \cup N) \in Nat
        BY <3>7, <4>1, FS_CardinalityType
      <4>. QED  BY <3>3, <3>6, <3>7, <4>1, <4>2
    <3>9. h' = h /\ p \in asked'
      BY <1>1, <3>2 DEF Links!Shared
    <3>. HIDE DEF h, q, r
    <3>10. h' * q' + r' <= h' * h'
      BY <3>2, <3>3, <3>5, <3>8, <3>9, Answered
    <3>. QED  BY <3>5, <3>8, <3>9, <3>10 DEF EchoSound, h, q, r
  <2>. QED  BY <2>6, <2>7
<1>. QED  BY <1>5, <1>6 DEF EchoesSound

LEMMA EchoCommand ==
    ASSUME EchoesSound, Tables!IsABag(net), NEW p0 \in Ping, ProcessCommand(p0)
    PROVE  EchoesSound'
<1>. DEFINE n == p0.from
            m == PingReq(n, m_currentSequenceNumber[n], p0.to)
<1>1. /\ net' = Tables!BroadcastPacket(net, n, m) /\ network' = network
      /\ p0 \notin asked /\ asked' = asked \cup {p0}
  BY SameNet DEF ProcessCommand
<1>2. Tables!BagToSet(net') \subseteq Tables!BagToSet(net) \cup Tables!Heard(n, m)
  BY <1>1, TablesAssumed, Tables!BroadcastBag
<1>3. /\ m.type = "PING_REQ" /\ m.from = p0.from /\ m.dest = p0.to
      /\ \A c \in Tables!Heard(n, m) : c.msg = m /\ m.dest = c.to
  BY DEF Tables!Heard, Tables!IsOwnAddress, PingReq
<1>4. \A c \in Links!InFlight' : c.msg.type = "PING_REQ" => c.msg.dest = c.to
  BY <1>2, <1>3 DEF EchoesSound, Links!InFlight, Links!BagToSet, Tables!BagToSet
<1>. HIDE DEF m
<1>5. ASSUME NEW p \in Ping PROVE EchoSound(p)'
  <2>. DEFINE N == LastCopies(net, n, m)
              h == Cardinality(Links!Shared(p.from, p.to))
              q == Cardinality(Requests(p))
              r == Cardinality(Answers(p))
  <2>1. ~Runs(m, "PING_RSP", p.to, p.from) /\ (Runs(m, "PING_REQ", p.from, p.to) => p = p0)
    BY <1>3, PingAssumption DEF Runs
  <2>2. /\ Requests(p)' \subseteq Requests(p) \cup (IF p = p0 THEN N ELSE {})
        /\ Answers(p)' \subseteq Answers(p)
    BY <1>1, <2>1, SendCopies DEF Requests, Answers
  <2>3. EchoSound(p)
    BY DEF EchoesSound
  <2>4. CASE p # p0
    BY <1>1, <2>2, <2>3, <2>4, EchoKept
  <2>5. CASE p = p0
    <3>1. Requests(p)' \subseteq N /\ Answers(p)' = {}
      BY <1>1, <2>2, <2>3, <2>5 DEF EchoSound
    <3>2. IsFiniteSet(N) /\ Cardinality(N) <= h /\ Cardinality(N) \in Nat
      BY <1>3, <2>5, FewHear, FS_CardinalityType
    <3>. HIDE DEF N
    <3>3. /\ IsFiniteSet(Requests(p)') /\ IsFiniteSet(Answers(p)') /\ r' = 0
          /\ q' <= Cardinality(N) /\ q' \in Nat
      BY <3>1, <3>2, FS_Subset, FS_CardinalityType, FS_EmptySet
    <3>4. h' = h /\ h \in Nat /\ p \in asked'
      BY <1>1, <2>5, SharedKept
    <3>. HIDE DEF h, q, r
    <3>5. q' <= h
      BY <3>2, <3>3, <3>4
    <3>7. h * q' + 0 <= h * h
      BY <3>3, <3>4, <3>5, Asked
    <3>. QED  BY <3>3, <3>4, <3>7 DEF EchoSound, h, q, r
  <2>. QED  BY <2>4, <2>5
<1>. QED  BY <1>4, <1>5 DEF EchoesSound

LEMMA EchoStep == EchoesSound /\ Sound /\ LinksSound /\ [Next]_vars => EchoesSound'
<1>. SUFFICES ASSUME EchoesSound, Sound, LinksSound, [Next]_vars PROVE EchoesSound'
  OBVIOUS
<1>0. Tables!IsABag(net) /\ \A d \in Links!InFlight : d.to \in Node
  BY DEF LinksSound, Tables!Sound, Sound, NetSound, CopySound
<1>1. ASSUME UNCHANGED <<network, net>>, asked' = asked PROVE EchoesSound'
  BY <1>1 DEF EchoesSound, EchoSound, Requests, Answers, Links!InFlight, Links!Shared
<1>2. ASSUME NEW d \in Links!InFlight, Links!RecvLSMessage(d), asked' = asked PROVE EchoesSound'
  <2>1. network' = network
    BY <1>2 DEF Links!RecvLSMessage, Links!ProcessNdReq, Links!ProcessNdRsp, Links!ProcessLsp
  <2>2. PICK m : /\ m.type \notin {"PING_REQ", "PING_RSP"}
                 /\ \/ net' = Links!Take(net, d)
                    \/ net' = Links!BroadcastPacket(Links!Take(net, d), d.to, m)
    <3>1. /\ Links!NdRsp(d.to, d.msg.from).type = "ND_RSP"
          /\ Links!Lsp(d.to, nTable'[d.to]).type = "LSP"
      BY DEF Links!NdRsp, Links!Lsp
    <3>. QED  BY <1>2, <3>1 DEF Links!RecvLSMessage, Links!ProcessNdReq, Links!ProcessNdRsp, Links!ProcessLsp
  <2>. QED  BY <1>0, <1>2, <2>1, <2>2, SameNet, OtherTraffic
<1>3. ASSUME NEW d \in Links!InFlight, ProcessPingRsp(d) \/ InvalidPingRsp(d) PROVE EchoesSound'
  <2>. DEFINE m == [type |-> "LSP"]
  <2>1. network' = network /\ asked' = asked /\ net' = Tables!Take(net, d)
    BY <1>3, SameNet DEF ProcessPingRsp, InvalidPingRsp, pingVars
  <2>2. m.type \notin {"PING_REQ", "PING_RSP"}
    OBVIOUS
  <2>. QED  BY <1>0, <2>1, <2>2, OtherTraffic
<1>. QED  BY <1>0, <1>1, <1>2, <1>3, EchoReq, EchoCommand
          DEF Next, RecvLSMessage, AuditPings, Tick, vars, linkVars, pingVars

\* A ping never has more answers on the way, counting those that its requests will
\* cause, than the square of the links that its ends share (ProcessPingReq): a broadcast
\* echo does not breed, whatever is lost and however often the nodes meet.
THEOREM EchoesBounded == Spec => []EchoBounded
<1>1. EchoesSound => EchoBounded
  BY DEF EchoesSound, EchoSound, EchoBounded, CopyCount, Requests, Answers
<1>. QED  BY <1>1, AlwaysSound, LinksSoundInit, LinksSoundStep, EchoInit, EchoStep, PTL DEF Spec

=============================================================================
