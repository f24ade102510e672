-------------------------- MODULE LinkStateProofs --------------------------
(***************************************************************************)
(* Neighbour tables and the packets that tell them, for every network and  *)
(* every loss of whole message types.                                      *)
(***************************************************************************)
EXTENDS LinkState, Induction, FiniteSetTheorems, TLAPS

-----------------------------------------------------------------------------
(* The network.                                                            *)

\* Broadcasting adds the copies heard, and receiving adds nothing.
LEMMA BroadcastBag ==
    ASSUME NEW b, IsABag(b), NEW n, NEW m
    PROVE  /\ IsABag(BroadcastPacket(b, n, m))
           /\ BagToSet(BroadcastPacket(b, n, m)) \subseteq BagToSet(b) \cup Heard(n, m)
<1>. DEFINE H == Heard(n, m)
<1>1. BroadcastPacket(b, n, m) = b (+) SetToBag(H)
  BY DEF BroadcastPacket
<1>. HIDE DEF H
<1>2. IsABag(b (+) SetToBag(H)) /\ BagToSet(b (+) SetToBag(H)) \subseteq BagToSet(b) \cup H
  BY DEF IsABag, BagToSet, SetToBag, (+)
<1>. QED  BY <1>1, <1>2 DEF H

LEMMA TakeBag ==
    ASSUME NEW b, IsABag(b), NEW d
    PROVE  IsABag(Take(b, d)) /\ BagToSet(Take(b, d)) \subseteq BagToSet(b)
BY DEF Take, IsABag, BagToSet, SetToBag, (-)

LEMMA TakeLeaves ==
    ASSUME NEW b, IsABag(b), NEW d
    PROVE  BagToSet(b) \ {d} \subseteq BagToSet(Take(b, d))
<1>. SUFFICES ASSUME NEW c \in BagToSet(b), c # d PROVE c \in BagToSet(Take(b, d))
  OBVIOUS
<1>1. b[c] \in Nat \ {0}
  BY DEF IsABag, BagToSet
<1>. QED  BY <1>1 DEF Take, BagToSet, SetToBag, (-)

\* Who hears a copy: another node on the link, and the addressee of an answer.
LEMMA HeardBy ==
    ASSUME NEW n, NEW m, NEW d \in Heard(n, m)
    PROVE  /\ d.to \in Node \ {n} /\ d.link \in Link /\ d.msg = m
           /\ {n, d.to} \subseteq network.attached[d.link]
           /\ IsOwnAddress(d.to, m)
BY DEF Heard

-----------------------------------------------------------------------------
(* The invariant.                                                          *)

\* A node's entry names another node on the link of the entry.
Adjacent(n, e) == e.nodeNumber # n /\ {n, e.nodeNumber} \subseteq network.attached[e.iface]

TablesSound ==
    /\ nTable \in [Node -> Seq(nTableEntry)]
    /\ \A n \in Node : \A i \in DOMAIN nTable[n] : Adjacent(n, nTable[n][i])

\* A copy in flight, with the tables as they are: the sender is a neighbour on the
\* link, and what a packet tells is part of the sender's table.
CopySound(d) ==
    /\ d.to \in Node /\ d.link \in Link /\ d.msg.from \in Node \ {d.to}
    /\ {d.msg.from, d.to} \subseteq network.attached[d.link]
    /\ d.msg.type = "LSP" =>
         /\ d.msg.ntable \in Seq(nTableEntry)
         /\ IsPrefix(d.msg.ntable, nTable[d.msg.from])

Sound ==
    /\ TablesSound
    /\ IsABag(net)
    /\ \A d \in InFlight : CopySound(d)

\* A longer table has the prefixes of the shorter one.
LEMMA PrefixAppend ==
    ASSUME NEW S, NEW s \in Seq(S), NEW t \in Seq(S), NEW e \in S, IsPrefix(s, t)
    PROVE  IsPrefix(s, Append(t, e))
<1>1. Len(s) <= Len(t) /\ SubSeq(s, 1, Len(s)) = SubSeq(t, 1, Len(s)) /\ Len(s) \in Nat /\ Len(t) \in Nat
  BY DEF IsPrefix
<1>2. Len(Append(t, e)) = Len(t) + 1
  OBVIOUS
<1>3. SubSeq(Append(t, e), 1, Len(s)) = SubSeq(t, 1, Len(s))
  BY <1>1
<1>. QED  BY <1>1, <1>2, <1>3 DEF IsPrefix

LEMMA PrefixSelf ==
    ASSUME NEW S, NEW s \in Seq(S)
    PROVE  IsPrefix(s, s)
BY DEF IsPrefix

-----------------------------------------------------------------------------
(* Initially and in every step.                                            *)

LEMMA SoundInit == Init => Sound
<1>. SUFFICES ASSUME Init PROVE Sound
  OBVIOUS
<1>1. TablesSound
  BY DEF Init, TablesSound
<1>. DEFINE H == UNION {Heard(n, NdReq(n)) : n \in Node}
<1>2. net = SetToBag(H)
  BY DEF Init
<1>3. \A d \in H : CopySound(d)
  <2>. SUFFICES ASSUME NEW n \in Node, NEW d \in Heard(n, NdReq(n)) PROVE CopySound(d)
    OBVIOUS
  <2>1. d.msg = NdReq(n) /\ d.to \in Node \ {n} /\ d.link \in Link
        /\ {n, d.to} \subseteq network.attached[d.link]
    BY HeardBy
  <2>2. d.msg.from = n /\ d.msg.type = "ND_REQ"
    BY <2>1 DEF NdReq
  <2>. QED  BY <2>1, <2>2 DEF CopySound
<1>. HIDE DEF H
<1>4. IsABag(net) /\ InFlight = H
  BY <1>2 DEF IsABag, InFlight, BagToSet, SetToBag
<1>. QED  BY <1>1, <1>3, <1>4 DEF Sound

\* What a handler broadcasts for n is sound if the message is n's and, being a
\* packet, part of n's table.
LEMMA StepSound ==
    ASSUME Sound, NEW d \in InFlight, network' = network, TablesSound',
           \A c \in InFlight : CopySound(c) => CopySound(c)',
           NEW m, m.from = d.to,
           m.type = "LSP" => m.ntable \in Seq(nTableEntry) /\ IsPrefix(m.ntable, nTable'[d.to]),
           net' = BroadcastPacket(Take(net, d), d.to, m)
    PROVE  Sound'
<1>1. d.to \in Node
  BY DEF Sound, CopySound
<1>2. IsABag(Take(net, d)) /\ BagToSet(Take(net, d)) \subseteq InFlight
  BY TakeBag DEF Sound, InFlight
<1>3. IsABag(net') /\ BagToSet(net') \subseteq InFlight \cup Heard(d.to, m)
  BY <1>2, BroadcastBag
<1>4. ASSUME NEW c \in Heard(d.to, m) PROVE CopySound(c)'
  <2>1. /\ c.to \in Node \ {d.to} /\ c.link \in Link /\ c.msg = m
        /\ {d.to, c.to} \subseteq network.attached[c.link]
    BY HeardBy
  <2>. QED  BY <1>1, <2>1 DEF CopySound
<1>. QED  BY <1>3, <1>4 DEF Sound, InFlight

LEMMA SoundStep == Sound /\ [Next]_vars => Sound'
<1>. SUFFICES ASSUME Sound, [Next]_vars PROVE Sound'
  OBVIOUS
<1>1. CASE UNCHANGED vars
  BY <1>1 DEF vars, Sound, TablesSound, Adjacent, CopySound, InFlight
<1>2. ASSUME NEW d \in InFlight, ProcessNdReq(d) PROVE Sound'
  <2>1. network' = network /\ nTable' = nTable
    BY <1>2 DEF ProcessNdReq
  <2>2. NdRsp(d.to, d.msg.from).from = d.to /\ NdRsp(d.to, d.msg.from).type = "ND_RSP"
    BY DEF NdRsp
  <2>3. TablesSound' /\ \A c \in InFlight : CopySound(c) => CopySound(c)'
    BY <2>1 DEF Sound, TablesSound, Adjacent, CopySound
  <2>4. net' = BroadcastPacket(Take(net, d), d.to, NdRsp(d.to, d.msg.from))
    BY <1>2 DEF ProcessNdReq
  <2>. QED  BY <2>1, <2>2, <2>3, <2>4, StepSound
<1>3. ASSUME NEW d \in InFlight, ProcessNdRsp(d) PROVE Sound'
  <2>. DEFINE e == [nodeNumber |-> d.msg.from, iface |-> d.link]
              m == Lsp(d.to, nTable'[d.to])
  <2>1. network' = network /\ nTable' = [nTable EXCEPT ![d.to] = Append(@, e)]
        /\ net' = BroadcastPacket(Take(net, d), d.to, m)
    BY <1>3 DEF ProcessNdRsp
  <2>2. CopySound(d) /\ d.to \in Node /\ e \in nTableEntry /\ Adjacent(d.to, e)
    BY DEF Sound, CopySound, nTableEntry, Adjacent
  <2>. HIDE DEF e
  <2>3. /\ nTable' \in [Node -> Seq(nTableEntry)]
        /\ nTable'[d.to] = Append(nTable[d.to], e)
        /\ \A n \in Node \ {d.to} : nTable'[n] = nTable[n]
    BY <2>1, <2>2 DEF Sound, TablesSound
  <2>4. TablesSound'
    <3>1. ASSUME NEW n \in Node, NEW i \in DOMAIN nTable'[n] PROVE Adjacent(n, nTable'[n][i])
      <4>1. CASE n # d.to
        BY <2>3, <4>1 DEF Sound, TablesSound
      <4>2. CASE n = d.to
        <5>1. nTable[n] \in Seq(nTableEntry)
          BY DEF Sound, TablesSound
        <5>2. i \in 1 .. Len(nTable[n]) + 1 /\ nTable'[n] = Append(nTable[n], e)
          BY <2>2, <2>3, <4>2, <5>1
        <5>3. CASE i \in 1 .. Len(nTable[n])
          BY <5>1, <5>2, <5>3 DEF Sound, TablesSound
        <5>4. CASE i = Len(nTable[n]) + 1
          BY <2>2, <4>2, <5>1, <5>2, <5>4
        <5>. QED  BY <5>1, <5>2, <5>3, <5>4
      <4>. QED  BY <4>1, <4>2
    <3>. QED  BY <2>1, <2>3, <3>1 DEF TablesSound, Adjacent
  <2>5. ASSUME NEW c \in InFlight, CopySound(c) PROVE CopySound(c)'
    <3>1. CASE c.msg.type = "LSP" /\ c.msg.from = d.to
      <4>1. IsPrefix(c.msg.ntable, nTable'[c.msg.from])
        <5>1. c.msg.ntable \in Seq(nTableEntry) /\ IsPrefix(c.msg.ntable, nTable[d.to])
          BY <2>5, <3>1 DEF CopySound
        <5>2. nTable[d.to] \in Seq(nTableEntry)
          BY <2>2 DEF Sound, TablesSound
        <5>3. IsPrefix(c.msg.ntable, Append(nTable[d.to], e))
          BY <2>2, <5>1, <5>2, PrefixAppend
        <5>. QED  BY <2>3, <3>1, <5>3
      <4>. QED  BY <2>1, <2>5, <4>1 DEF CopySound
    <3>2. CASE ~(c.msg.type = "LSP" /\ c.msg.from = d.to)
      BY <2>1, <2>3, <2>5, <3>2 DEF CopySound
    <3>. QED  BY <3>1, <3>2
  <2>6. m.from = d.to /\ m.ntable = nTable'[d.to]
    BY DEF Lsp
  <2>7. m.ntable \in Seq(nTableEntry) /\ IsPrefix(m.ntable, nTable'[d.to])
    BY <2>2, <2>3, <2>6, PrefixSelf
  <2>. HIDE DEF m
  <2>. QED  BY <2>1, <2>4, <2>5, <2>6, <2>7, StepSound
<1>4. ASSUME NEW d \in InFlight, ProcessLsp(d) PROVE Sound'
  <2>1. network' = network /\ nTable' = nTable /\ net' = Take(net, d)
    BY <1>4 DEF ProcessLsp
  <2>2. IsABag(net') /\ BagToSet(net') \subseteq InFlight
    BY <2>1, TakeBag DEF Sound, InFlight
  <2>. QED  BY <2>1, <2>2 DEF Sound, TablesSound, Adjacent, CopySound, InFlight
<1>. QED  BY <1>1, <1>2, <1>3, <1>4 DEF Next, RecvLSMessage

-----------------------------------------------------------------------------
(* Theorems.                                                               *)

\* A packet in flight is a prefix of its sender's neighbour table (ProcessNdRsp).
THEOREM PacketsArePrefixes == Spec => []LspsArePrefixes
<1>1. Sound => LspsArePrefixes
  BY DEF Sound, CopySound, LspsArePrefixes
<1>. QED  BY <1>1, SoundInit, SoundStep, PTL DEF Spec

\* A node lists nobody but its neighbours, each under a link that they share: the
\* answers that others get never enter (the IsOwnAddress test of ProcessNdRsp).
THEOREM ListedAreNeighbours ==
    Spec => [](\A n \in Node : \A i \in DOMAIN nTable[n] :
                  /\ nTable[n][i].nodeNumber \in Neighbours(n)
                  /\ nTable[n][i].iface \in Shared(n, nTable[n][i].nodeNumber))
<1>. DEFINE I == \A n \in Node : \A i \in DOMAIN nTable[n] :
                  /\ nTable[n][i].nodeNumber \in Neighbours(n)
                  /\ nTable[n][i].iface \in Shared(n, nTable[n][i].nodeNumber)
<1>1. Sound => I
  <2>. SUFFICES ASSUME Sound, NEW n \in Node, NEW i \in DOMAIN nTable[n]
                PROVE  /\ nTable[n][i].nodeNumber \in Neighbours(n)
                       /\ nTable[n][i].iface \in Shared(n, nTable[n][i].nodeNumber)
    OBVIOUS
  <2>1. nTable[n][i] \in nTableEntry /\ Adjacent(n, nTable[n][i])
    BY DEF Sound, TablesSound
  <2>. QED  BY <2>1 DEF nTableEntry, Adjacent, Neighbours, Shared
<1>. HIDE DEF I
<1>2. Spec => []I
  BY <1>1, SoundInit, SoundStep, PTL DEF Spec
<1>. QED  BY <1>2 DEF I

-----------------------------------------------------------------------------
(* How often a neighbour is listed.  A node's request that its neighbour   *)
(* has not received, an answer that has not come back and an entry in the  *)
(* table are three states of the same thing; there were as many requests   *)
(* to the neighbour as the two share links, and each becomes one answer on *)
(* every link.                                                             *)

CopiesOf(c, b) == IF c \in BagToSet(b) THEN b[c] ELSE 0
ReqCopy(n, k, l) == [to |-> k, link |-> l, msg |-> NdReq(n)]
RspCopy(n, k, l) == [to |-> n, link |-> l, msg |-> NdRsp(k, n)]

Entries(n, k, l) == {i \in DOMAIN nTable[n] : nTable[n][i] = [nodeNumber |-> k, iface |-> l]}
Requests(n, k) == {l \in Link : ReqCopy(n, k, l) \in InFlight}

CountSound(n, k, l) ==
    Cardinality(Entries(n, k, l)) + CopiesOf(RspCopy(n, k, l), net) + Cardinality(Requests(n, k))
        <= Cardinality(Shared(n, k))

\* Requests are sent once only, and a copy is determined by its type and its ends.
FormSound(d) ==
    /\ d.msg.type = "ND_REQ" => d = ReqCopy(d.msg.from, d.to, d.link) /\ net[d] = 1
    /\ d.msg.type = "ND_RSP" => d = RspCopy(d.to, d.msg.from, d.link)

Counted ==
    /\ \A d \in InFlight : FormSound(d)
    /\ \A n, k \in Node, l \in Link : n # k /\ l \in Shared(n, k) => CountSound(n, k, l)

\* The copies in flight after d has been received and m broadcast by n.
LEMMA CopiesAfter ==
    ASSUME NEW b, IsABag(b), NEW d \in BagToSet(b), NEW n, NEW m
    PROVE  \A c : CopiesOf(c, BroadcastPacket(Take(b, d), n, m)) =
                    CopiesOf(c, b) - (IF c = d THEN 1 ELSE 0)
                                   + (IF c \in Heard(n, m) THEN 1 ELSE 0)
<1>. DEFINE H == Heard(n, m)
            a == Take(b, d)
<1>1. IsABag(a) /\ \A c : CopiesOf(c, a) = CopiesOf(c, b) - (IF c = d THEN 1 ELSE 0)
  BY DEF Take, IsABag, BagToSet, SetToBag, (-), CopiesOf
<1>2. BroadcastPacket(a, n, m) = a (+) SetToBag(H)
  BY DEF BroadcastPacket
<1>. HIDE DEF H, a
<1>3. \A c : CopiesOf(c, a (+) SetToBag(H)) = CopiesOf(c, a) + (IF c \in H THEN 1 ELSE 0)
  BY <1>1 DEF IsABag, BagToSet, SetToBag, (+), CopiesOf
<1>4. \A c : CopiesOf(c, b) \in Nat
  BY DEF IsABag, BagToSet, CopiesOf
<1>5. \A c : CopiesOf(c, BroadcastPacket(a, n, m)) =
               CopiesOf(c, b) - (IF c = d THEN 1 ELSE 0) + (IF c \in H THEN 1 ELSE 0)
  BY <1>1, <1>2, <1>3, <1>4
<1>. QED  BY <1>5 DEF H, a

LEMMA CopiesCount ==
    ASSUME NEW b, IsABag(b)
    PROVE  \A c : /\ CopiesOf(c, b) \in Nat
                  /\ c \in BagToSet(b) <=> CopiesOf(c, b) > 0
                  /\ c \in BagToSet(b) => CopiesOf(c, b) = b[c]
BY DEF IsABag, BagToSet, CopiesOf

\* All the sets that are counted are finite.
LEMMA PlacesFinite ==
    ASSUME NEW t \in Seq(nTableEntry), NEW S \in SUBSET DOMAIN t
    PROVE  IsFiniteSet(S) /\ Cardinality(S) \in Nat
<1>1. DOMAIN t = 1 .. Len(t) /\ Len(t) \in Nat
  OBVIOUS
<1>2. IsFiniteSet(1 .. Len(t))
  BY <1>1, FS_Interval
<1>. QED  BY <1>1, <1>2, FS_Subset, FS_CardinalityType

LEMMA OneMore ==
    ASSUME NEW S, IsFiniteSet(S), NEW x
    PROVE  /\ IsFiniteSet(S \cup {x}) /\ Cardinality(S) \in Nat
           /\ Cardinality(S \cup {x}) <= Cardinality(S) + 1
<1>1. Cardinality(S) \in Nat
  BY FS_CardinalityType
<1>2. /\ IsFiniteSet(S \cup {x})
      /\ Cardinality(S \cup {x}) = IF x \in S THEN Cardinality(S) ELSE Cardinality(S) + 1
  BY FS_AddElement
<1>. QED  BY <1>1, <1>2

LEMMA LinksFinite ==
    ASSUME NEW S \in SUBSET Link
    PROVE  IsFiniteSet(S) /\ Cardinality(S) \in Nat
BY LinkAssumption, FS_Subset, FS_CardinalityType

LEMMA CountedFinite ==
    ASSUME TablesSound, NEW n \in Node, NEW k \in Node, NEW l \in Link
    PROVE  /\ Cardinality(Entries(n, k, l)) \in Nat
           /\ IsFiniteSet(Requests(n, k)) /\ Cardinality(Requests(n, k)) \in Nat
           /\ IsFiniteSet(Shared(n, k)) /\ Cardinality(Shared(n, k)) \in Nat
<1>1. /\ Entries(n, k, l) \subseteq DOMAIN nTable[n] /\ nTable[n] \in Seq(nTableEntry)
      /\ Requests(n, k) \subseteq Link /\ Shared(n, k) \subseteq Link
  BY DEF Entries, Requests, Shared, TablesSound
<1>. QED  BY <1>1, PlacesFinite, LinksFinite

LEMMA CountedFiniteNext ==
    ASSUME TablesSound', NEW n \in Node, NEW k \in Node, NEW l \in Link
    PROVE  Cardinality(Entries(n, k, l)') \in Nat /\ Cardinality(Requests(n, k)') \in Nat
<1>1. /\ Entries(n, k, l)' \subseteq DOMAIN nTable'[n] /\ nTable'[n] \in Seq(nTableEntry)
      /\ Requests(n, k)' \subseteq Link
  BY DEF Entries, Requests, TablesSound
<1>. QED  BY <1>1, PlacesFinite, LinksFinite

LEMMA CountedInit == Init => Counted
<1>. SUFFICES ASSUME Init PROVE Counted
  OBVIOUS
<1>. DEFINE H == UNION {Heard(n, NdReq(n)) : n \in Node}
<1>1. net = SetToBag(H)
  BY DEF Init
<1>2. \A d \in H : /\ d = ReqCopy(d.msg.from, d.to, d.link) /\ d.msg.type = "ND_REQ"
                   /\ {d.msg.from, d.to} \subseteq network.attached[d.link]
  <2>. SUFFICES ASSUME NEW n \in Node, NEW d \in Heard(n, NdReq(n))
                PROVE  /\ d = ReqCopy(d.msg.from, d.to, d.link) /\ d.msg.type = "ND_REQ"
                       /\ {d.msg.from, d.to} \subseteq network.attached[d.link]
    OBVIOUS
  <2>1. d = ReqCopy(n, d.to, d.link) /\ {n, d.to} \subseteq network.attached[d.link]
    BY DEF Heard, ReqCopy
  <2>2. d.msg = NdReq(n)
    BY HeardBy
  <2>. QED  BY <2>1, <2>2 DEF NdReq
<1>. HIDE DEF H
<1>3. InFlight = H /\ (\A d \in H : net[d] = 1) /\ IsABag(net)
  BY <1>1 DEF InFlight, BagToSet, SetToBag, IsABag
<1>4. ASSUME NEW n \in Node, NEW k \in Node, NEW l \in Link
      PROVE  CountSound(n, k, l)
  <2>1. Entries(n, k, l) = {}
    BY DEF Init, Entries
  <2>2. CopiesOf(RspCopy(n, k, l), net) = 0
    <3>1. RspCopy(n, k, l) \notin H
      BY <1>2 DEF RspCopy, NdRsp
    <3>. QED  BY <1>3, <3>1 DEF CopiesOf, InFlight
  <2>3. Requests(n, k) \subseteq Shared(n, k)
    <3>. SUFFICES ASSUME NEW x \in Link, ReqCopy(n, k, x) \in H PROVE x \in Shared(n, k)
      BY <1>3 DEF Requests
    <3>1. ReqCopy(n, k, x).msg.from = n /\ ReqCopy(n, k, x).to = k /\ ReqCopy(n, k, x).link = x
      BY DEF ReqCopy, NdReq
    <3>. QED  BY <1>2, <3>1 DEF Shared
  <2>4. TablesSound
    BY SoundInit DEF Sound
  <2>5. Cardinality(Requests(n, k)) <= Cardinality(Shared(n, k))
    BY <2>3, <2>4, CountedFinite, FS_Subset
  <2>. QED  BY <2>1, <2>2, <2>4, <2>5, CountedFinite, FS_EmptySet DEF CountSound
<1>. QED  BY <1>2, <1>3, <1>4 DEF Counted, FormSound, ReqCopy, NdReq

\* A handler moves counts as follows, for every node n, neighbour k and shared link l.
LEMMA CountStep ==
    ASSUME Sound, Sound', Counted, network' = network, NEW d \in InFlight, NEW s, NEW m,
           net' = BroadcastPacket(Take(net, d), s, m),
           m.type # "ND_REQ",
           m.type = "ND_RSP" => m = NdRsp(s, m.dest) /\ d = ReqCopy(m.dest, s, d.link),
           \A n, k \in Node, l \in Link :
              Cardinality(Entries(n, k, l)') <=
                 Cardinality(Entries(n, k, l)) + (IF d = RspCopy(n, k, l) THEN 1 ELSE 0)
    PROVE  Counted'
<1>1. /\ InFlight = BagToSet(net) /\ InFlight' = BagToSet(net')
      /\ IsABag(net) /\ IsABag(net')
  BY DEF Sound, InFlight
<1>2. \A c : CopiesOf(c, net') = CopiesOf(c, net) - (IF c = d THEN 1 ELSE 0)
                                   + (IF c \in Heard(s, m) THEN 1 ELSE 0)
  BY <1>1, CopiesAfter
<1>3. \A c : /\ CopiesOf(c, net) \in Nat /\ CopiesOf(c, net') \in Nat
             /\ c \in InFlight <=> CopiesOf(c, net) > 0
             /\ c \in InFlight' <=> CopiesOf(c, net') > 0
             /\ c \in InFlight => CopiesOf(c, net) = net[c]
             /\ c \in InFlight' => CopiesOf(c, net') = net'[c]
  BY <1>1, CopiesCount
<1>4. \A c \in Heard(s, m) : c = [to |-> c.to, link |-> c.link, msg |-> m]
  BY DEF Heard
<1>5. \A n, k, l : ReqCopy(n, k, l) \notin Heard(s, m)
  <2>. SUFFICES ASSUME NEW n, NEW k, NEW l, ReqCopy(n, k, l) \in Heard(s, m) PROVE FALSE
    OBVIOUS
  <2>1. ReqCopy(n, k, l).msg = m
    BY HeardBy
  <2>. QED  BY <2>1 DEF ReqCopy, NdReq
<1>6. ASSUME NEW c \in InFlight' PROVE FormSound(c)'
  <2>1. CASE c \in Heard(s, m)
    <3>1. c.msg = m /\ c = [to |-> c.to, link |-> c.link, msg |-> m] /\ IsOwnAddress(c.to, m)
      BY <1>4, <2>1, HeardBy
    <3>2. m.type = "ND_RSP" => c.to = m.dest /\ m = NdRsp(m.from, m.dest)
      BY <3>1 DEF IsOwnAddress, NdRsp
    <3>. QED  BY <3>1, <3>2 DEF FormSound, RspCopy
  <2>2. CASE c \notin Heard(s, m)
    <3>1. c \in InFlight /\ CopiesOf(c, net') <= CopiesOf(c, net)
      BY <1>2, <1>3, <2>2
    <3>2. FormSound(c)
      BY <3>1 DEF Counted
    <3>3. net[c] = 1 => net'[c] = 1
      BY <1>3, <3>1
    <3>. QED  BY <3>2, <3>3 DEF FormSound
  <2>. QED  BY <2>1, <2>2
<1>7. ASSUME NEW n \in Node, NEW k \in Node, NEW l \in Link, n # k, l \in Shared(n, k)
      PROVE  CountSound(n, k, l)'
  <2>. DEFINE e == Cardinality(Entries(n, k, l))
              r == CopiesOf(RspCopy(n, k, l), net)
              q == Cardinality(Requests(n, k))
  <2>1. /\ e \in Nat /\ e' \in Nat /\ q \in Nat /\ q' \in Nat /\ IsFiniteSet(Requests(n, k))
        /\ Cardinality(Shared(n, k)) \in Nat /\ Shared(n, k)' = Shared(n, k)
        /\ r \in Nat /\ r' \in Nat
    BY <1>3, CountedFinite, CountedFiniteNext DEF Sound, Shared
  <2>2. e + r + q <= Cardinality(Shared(n, k))
    BY <1>7 DEF Counted, CountSound
  <2>3. e' <= e + (IF d = RspCopy(n, k, l) THEN 1 ELSE 0)
    OBVIOUS
  <2>4. r' = r - (IF RspCopy(n, k, l) = d THEN 1 ELSE 0)
               + (IF RspCopy(n, k, l) \in Heard(s, m) THEN 1 ELSE 0)
    BY <1>2
  <2>5. Requests(n, k)' \subseteq Requests(n, k)
    BY <1>2, <1>3, <1>5 DEF Requests
  <2>6. q' <= q
    BY <2>1, <2>5, FS_Subset
  <2>7. RspCopy(n, k, l) \in Heard(s, m) => q' <= q - 1
    <3>. SUFFICES ASSUME RspCopy(n, k, l) \in Heard(s, m) PROVE q' <= q - 1
      OBVIOUS
    <3>1. m = NdRsp(k, n)
      BY HeardBy DEF RspCopy
    <3>2. s = k /\ d = ReqCopy(n, k, d.link)
      BY <3>1 DEF NdRsp
    <3>3. d.link \in Link
      BY DEF Sound, CopySound
    <3>4. net[d] = 1
      <4>1. d.msg.type = "ND_REQ"
        BY <3>2 DEF ReqCopy, NdReq
      <4>. QED  BY <4>1 DEF Counted, FormSound
    <3>5. d \notin InFlight'
      BY <1>2, <1>3, <1>5, <3>2, <3>4
    <3>6. d.link \in Requests(n, k) /\ d.link \notin Requests(n, k)'
      BY <3>2, <3>3, <3>5 DEF Requests
    <3>7. Requests(n, k)' \subseteq Requests(n, k) \ {d.link}
      BY <2>5, <3>6
    <3>8. IsFiniteSet(Requests(n, k) \ {d.link}) /\ Cardinality(Requests(n, k) \ {d.link}) = q - 1
      BY <2>1, <3>6, FS_RemoveElement
    <3>. QED  BY <3>7, <3>8, FS_Subset
  <2>. HIDE DEF e, r, q
  <2>8. e' + r' + q' <= Cardinality(Shared(n, k))
    BY <2>1, <2>2, <2>3, <2>4, <2>6, <2>7
  <2>. QED  BY <2>1, <2>8 DEF CountSound, e, r, q
<1>. QED  BY <1>6, <1>7 DEF Counted, Shared

LEMMA CountedStep == Sound /\ Sound' /\ Counted /\ [Next]_vars => Counted'
<1>. SUFFICES ASSUME Sound, Sound', Counted, [Next]_vars PROVE Counted'
  OBVIOUS
<1>1. CASE UNCHANGED vars
  BY <1>1 DEF vars, Counted, FormSound, CountSound, Entries, Requests, Shared, InFlight
<1>2. ASSUME nTable' = nTable
      PROVE  \A n, k \in Node, l \in Link :
                /\ Cardinality(Entries(n, k, l)') = Cardinality(Entries(n, k, l))
                /\ Cardinality(Entries(n, k, l)) \in Nat
  BY <1>2, CountedFinite DEF Sound, Entries
<1>3. ASSUME NEW d \in InFlight, ProcessNdReq(d) PROVE Counted'
  <2>. DEFINE m == NdRsp(d.to, d.msg.from)
  <2>1. /\ network' = network /\ nTable' = nTable /\ d.msg.type = "ND_REQ"
        /\ net' = BroadcastPacket(Take(net, d), d.to, m)
    BY <1>3 DEF ProcessNdReq
  <2>2. m.type = "ND_RSP" /\ m.dest = d.msg.from /\ m = NdRsp(d.to, m.dest)
    BY DEF NdRsp
  <2>3. d = ReqCopy(m.dest, d.to, d.link)
    BY <2>1, <2>2 DEF Counted, FormSound
  <2>. HIDE DEF m
  <2>4. \A n, k \in Node, l \in Link :
           Cardinality(Entries(n, k, l)') <=
              Cardinality(Entries(n, k, l)) + (IF d = RspCopy(n, k, l) THEN 1 ELSE 0)
    BY <1>2, <2>1
  <2>. QED  BY <2>1, <2>2, <2>3, <2>4, CountStep
<1>4. ASSUME NEW d \in InFlight, ProcessNdRsp(d) PROVE Counted'
  <2>. DEFINE e == [nodeNumber |-> d.msg.from, iface |-> d.link]
              m == Lsp(d.to, nTable'[d.to])
              t == nTable[d.to]
              last == Len(t) + 1
  <2>1. /\ network' = network /\ d.msg.type = "ND_RSP"
        /\ nTable' = [nTable EXCEPT ![d.to] = Append(@, e)]
        /\ net' = BroadcastPacket(Take(net, d), d.to, m)
    BY <1>4 DEF ProcessNdRsp
  <2>2. m.type = "LSP"
    BY DEF Lsp
  <2>3. d.to \in Node /\ nTable \in [Node -> Seq(nTableEntry)] /\ e \in nTableEntry
    BY DEF Sound, TablesSound, CopySound, nTableEntry
  <2>4. d = RspCopy(d.to, d.msg.from, d.link)
    BY <2>1 DEF Counted, FormSound
  <2>5. ASSUME NEW n \in Node, NEW k \in Node, NEW l \in Link
        PROVE  Cardinality(Entries(n, k, l)') <=
                  Cardinality(Entries(n, k, l)) + (IF d = RspCopy(n, k, l) THEN 1 ELSE 0)
    <3>. DEFINE E == Entries(n, k, l)
    <3>0. IsFiniteSet(E) /\ Cardinality(E) \in Nat
      <4>1. E \subseteq DOMAIN nTable[n]
        BY DEF Entries
      <4>. QED  BY <2>3, <4>1, PlacesFinite
    <3>1. CASE n # d.to
      <4>1. Entries(n, k, l)' = E
        BY <2>1, <2>3, <3>1 DEF Entries
      <4>. QED  BY <3>0, <4>1
    <3>2. CASE n = d.to /\ e # [nodeNumber |-> k, iface |-> l]
      <4>1. Entries(n, k, l)' = E
        BY <2>1, <2>3, <3>2 DEF Entries
      <4>. QED  BY <3>0, <4>1
    <3>3. CASE n = d.to /\ e = [nodeNumber |-> k, iface |-> l]
      <4>1. Entries(n, k, l)' \subseteq E \cup {last}
        <5>1. nTable'[n] = Append(t, e) /\ t = nTable[n] /\ t \in Seq(nTableEntry)
          BY <2>1, <2>3, <3>3
        <5>2. \A i \in DOMAIN nTable'[n] : i = last \/ (i \in DOMAIN t /\ nTable'[n][i] = t[i])
          BY <2>3, <5>1
        <5>3. ASSUME NEW i \in Entries(n, k, l)', i # last PROVE i \in E
          <6>1. i \in DOMAIN nTable'[n] /\ nTable'[n][i] = [nodeNumber |-> k, iface |-> l]
            BY DEF Entries
          <6>2. i \in DOMAIN t /\ nTable'[n][i] = t[i]
            BY <5>2, <5>3, <6>1
          <6>. QED  BY <5>1, <6>1, <6>2 DEF Entries
        <5>. QED  BY <5>3
      <4>2. IsFiniteSet(E \cup {last}) /\ Cardinality(E \cup {last}) <= Cardinality(E) + 1
        BY <3>0, OneMore
      <4>3. d = RspCopy(n, k, l)
        BY <2>4, <3>3
      <4>4. Cardinality(Entries(n, k, l)') <= Cardinality(E \cup {last})
        BY <4>1, <4>2, FS_Subset
      <4>5. Cardinality(Entries(n, k, l)') \in Nat /\ Cardinality(E \cup {last}) \in Nat
        BY <4>1, <4>2, FS_Subset, FS_CardinalityType
      <4>. QED  BY <3>0, <4>2, <4>3, <4>4, <4>5
    <3>. QED  BY <3>1, <3>2, <3>3
  <2>. HIDE DEF e, m
  <2>. QED  BY <2>1, <2>2, <2>5, CountStep
<1>5. ASSUME NEW d \in InFlight, ProcessLsp(d) PROVE Counted'
  <2>1. network' = network /\ nTable' = nTable /\ net' = Take(net, d)
    BY <1>5 DEF ProcessLsp
  \* as if it had broadcast what nobody hears
  <2>. DEFINE m == [type |-> "PING_REQ", dest |-> d.to]
  <2>2. Heard(d.to, m) = {}
    BY HeardBy DEF IsOwnAddress
  <2>3. net' = BroadcastPacket(Take(net, d), d.to, m)
    <3>1. BroadcastPacket(Take(net, d), d.to, m) = Take(net, d) (+) SetToBag({})
      BY <2>2 DEF BroadcastPacket
    <3>2. IsABag(Take(net, d))
      BY TakeBag DEF Sound, InFlight
    <3>3. Take(net, d) (+) SetToBag({}) = Take(net, d)
      BY <3>2 DEF IsABag, SetToBag, (+)
    <3>. QED  BY <2>1, <3>1, <3>3
  <2>4. m.type = "PING_REQ"
    OBVIOUS
  <2>. HIDE DEF m
  <2>5. \A n, k \in Node, l \in Link :
           Cardinality(Entries(n, k, l)') <=
              Cardinality(Entries(n, k, l)) + (IF d = RspCopy(n, k, l) THEN 1 ELSE 0)
    BY <1>2, <2>1
  <2>. QED  BY <2>1, <2>3, <2>4, <2>5, CountStep
<1>. QED  BY <1>1, <1>3, <1>4, <1>5 DEF Next, RecvLSMessage

\* A node lists a neighbour under a link at most as often as they share links, so that
\* the broadcast answers make tables of a bounded length (ProcessNdReq, ProcessNdRsp).
THEOREM NeighboursAreCounted == Spec => []NeighboursCounted
<1>1. Sound /\ Counted => NeighboursCounted
  <2>. SUFFICES ASSUME Sound, Counted, NEW n \in Node, NEW k \in Node, NEW l \in Link
                PROVE  Cardinality(Entries(n, k, l))
                         <= IF k \in Neighbours(n) /\ l \in Shared(n, k)
                            THEN Cardinality(Shared(n, k)) ELSE 0
    BY DEF NeighboursCounted, Entries
  <2>1. /\ Cardinality(Entries(n, k, l)) \in Nat /\ Cardinality(Requests(n, k)) \in Nat
        /\ Cardinality(Shared(n, k)) \in Nat
        /\ CopiesOf(RspCopy(n, k, l), net) \in Nat
    BY CountedFinite, CopiesCount DEF Sound
  <2>2. CASE k \in Neighbours(n) /\ l \in Shared(n, k)
    <3>1. CountSound(n, k, l)
      BY <2>2 DEF Counted, Neighbours
    <3>. QED  BY <2>1, <2>2, <3>1 DEF CountSound
  <2>3. CASE ~(k \in Neighbours(n) /\ l \in Shared(n, k))
    <3>1. Entries(n, k, l) = {}
      <4>. SUFFICES ASSUME NEW i \in Entries(n, k, l) PROVE FALSE
        OBVIOUS
      <4>1. Adjacent(n, [nodeNumber |-> k, iface |-> l])
        BY DEF Entries, Sound, TablesSound
      <4>. QED  BY <2>3, <4>1 DEF Adjacent, Neighbours, Shared
    <3>. QED  BY <2>3, <3>1, FS_EmptySet
  <2>. QED  BY <2>2, <2>3
<1>. QED  BY <1>1, SoundInit, SoundStep, CountedInit, CountedStep, PTL DEF Spec

-----------------------------------------------------------------------------
(* What a packet makes of a route table: the tables after its first i      *)
(* entries, for i from 0 to all.                                           *)

Dests(t) == {t[i].dest : i \in DOMAIN t}

AreTables(f, j, n, k, told, t) ==
    f = [i \in 0 .. j |-> IF i = 0 THEN {t} ELSE rTableInsert(f[i-1], Route(n, k, told[i]))]

\* The recursive definition of TablesAfter does define a function.
LEMMA TablesExist ==
    ASSUME NEW n, NEW k, NEW told, NEW t, NEW m \in Nat
    PROVE  \E f : AreTables(f, m, n, k, told, t)
<1>. DEFINE S == {j \in Nat : \E f : AreTables(f, j, n, k, told, t)}
<1>1. 0 \in S
  <2>1. AreTables([i \in 0 .. 0 |-> {t}], 0, n, k, told, t)
    BY DEF AreTables
  <2>. QED  BY <2>1
<1>2. ASSUME NEW j \in Nat, j \in S PROVE j + 1 \in S
  <2>1. PICK f : AreTables(f, j, n, k, told, t)
    BY <1>2
  <2>. DEFINE g == [i \in 0 .. j + 1 |->
                      IF i <= j THEN f[i] ELSE rTableInsert(f[j], Route(n, k, told[j + 1]))]
  <2>2. ASSUME NEW i \in 0 .. j + 1
        PROVE  g[i] = IF i = 0 THEN {t} ELSE rTableInsert(g[i-1], Route(n, k, told[i]))
    <3>1. CASE i = 0
      BY <2>1, <3>1 DEF AreTables
    <3>2. CASE i \in 1 .. j
      <4>1. i - 1 \in 0 .. j + 1 /\ i - 1 <= j /\ i \in 0 .. j
        BY <3>2
      <4>2. f[i] = rTableInsert(f[i-1], Route(n, k, told[i]))
        BY <2>1, <3>2, <4>1 DEF AreTables
      <4>3. g[i] = f[i] /\ g[i-1] = f[i-1] /\ i # 0
        BY <3>2, <4>1
      <4>. QED  BY <4>2, <4>3
    <3>3. CASE i = j + 1
      BY <3>3
    <3>. QED  BY <3>1, <3>2, <3>3
  <2>3. AreTables(g, j + 1, n, k, told, t)
    BY <2>2 DEF AreTables
  <2>. QED  BY <2>3
<1>. HIDE DEF S
<1>3. m \in S
  BY <1>1, <1>2, AllNumbers
<1>. QED  BY <1>3 DEF S

LEMMA TablesAfterUnfolds ==
    ASSUME NEW n, NEW k, NEW told, NEW t, Len(told) \in Nat
    PROVE  \E f : /\ AreTables(f, Len(told), n, k, told, t)
                  /\ TablesAfter(n, k, told, t) = f[Len(told)]
<1>. DEFINE f == CHOOSE f : AreTables(f, Len(told), n, k, told, t)
<1>1. AreTables(f, Len(told), n, k, told, t)
  BY TablesExist
<1>2. TablesAfter(n, k, told, t) = f[Len(told)]
  BY DEF TablesAfter, AreTables
<1>. QED  BY <1>1, <1>2

\* An entry is appended unless there is one with its destination.
LEMMA InsertOne ==
    ASSUME NEW T, NEW e, NEW v \in rTableInsert(T, e)
    PROVE  \E u \in T : v = Append(u, e) \/ (v = u /\ e.dest \in Dests(u))
<1>1. PICK u \in T : \E new \in isNew(u, e) : v = IF new THEN Append(u, e) ELSE u
  BY DEF rTableInsert
<1>2. CASE {i \in DOMAIN u : u[i].dest = e.dest} = {}
  BY <1>1, <1>2 DEF isNew
<1>3. CASE {i \in DOMAIN u : u[i].dest = e.dest} # {}
  BY <1>1, <1>3 DEF Dests
<1>. QED  BY <1>2, <1>3

\* What u has taken of the first i entries told to t.
Taken(u, i, n, k, told, t) ==
    /\ u \in Seq(rTableEntry)
    /\ \A j \in DOMAIN u : \/ \E h \in DOMAIN t : u[j] = t[h]
                          \/ \E h \in 1 .. i : u[j] = Route(n, k, told[h])
    /\ Dests(t) \subseteq Dests(u)
    /\ \A h \in 1 .. i : Route(n, k, told[h]).dest \in Dests(u)

LEMMA TakenOne ==
    ASSUME NEW n, NEW k, NEW told, NEW t, NEW i \in Nat, NEW u, Taken(u, i, n, k, told, t),
           Route(n, k, told[i+1]) \in rTableEntry,
           NEW v, \/ v = Append(u, Route(n, k, told[i+1]))
                  \/ v = u /\ Route(n, k, told[i+1]).dest \in Dests(u)
    PROVE  Taken(v, i + 1, n, k, told, t)
<1>. DEFINE e == Route(n, k, told[i+1])
<1>1. u \in Seq(rTableEntry) /\ e \in rTableEntry
  BY DEF Taken
<1>2. \A h \in 1 .. i + 1 : h \in 1 .. i \/ h = i + 1
  OBVIOUS
<1>3. CASE v = u /\ e.dest \in Dests(u)
  BY <1>2, <1>3 DEF Taken
<1>4. CASE v = Append(u, e)
  <2>. HIDE DEF e
  <2>1. /\ v \in Seq(rTableEntry) /\ DOMAIN v = DOMAIN u \cup {Len(u) + 1}
        /\ \A j \in DOMAIN u : v[j] = u[j]
        /\ v[Len(u) + 1] = e
    BY <1>1, <1>4
  <2>2. Dests(u) \cup {e.dest} \subseteq Dests(v)
    BY <2>1 DEF Dests
  <2>3. \A j \in DOMAIN v : \/ \E h \in DOMAIN t : v[j] = t[h]
                          \/ \E h \in 1 .. i + 1 : v[j] = Route(n, k, told[h])
    <3>1. i + 1 \in 1 .. i + 1 /\ \A h \in 1 .. i : h \in 1 .. i + 1
      OBVIOUS
    <3>2. \A j \in DOMAIN u : \/ \E h \in DOMAIN t : u[j] = t[h]
                            \/ \E h \in 1 .. i : u[j] = Route(n, k, told[h])
      BY DEF Taken
    <3>. QED  BY <2>1, <3>1, <3>2 DEF e
  <2>4. \A h \in 1 .. i + 1 : Route(n, k, told[h]).dest \in Dests(v)
    BY <1>2, <2>2 DEF Taken, e
  <2>. QED  BY <2>1, <2>2, <2>3, <2>4 DEF Taken
<1>. QED  BY <1>3, <1>4

\* A packet as a whole adds routes from its entries only, and none of the destinations
\* is missing in the end.
LEMMA AllTaken ==
    ASSUME NEW n \in Node, NEW k \in Node, NEW told \in Seq(nTableEntry),
           NEW t \in Seq(rTableEntry), NEW u \in TablesAfter(n, k, told, t)
    PROVE  Taken(u, Len(told), n, k, told, t)
<1>1. Len(told) \in Nat
  OBVIOUS
<1>2. PICK f : /\ AreTables(f, Len(told), n, k, told, t)
               /\ TablesAfter(n, k, told, t) = f[Len(told)]
  BY <1>1, TablesAfterUnfolds
<1>. DEFINE S == {i \in 0 .. Len(told) : \A v \in f[i] : Taken(v, i, n, k, told, t)}
<1>3. 0 \in S
  <2>1. f[0] = {t}
    BY <1>1, <1>2 DEF AreTables
  <2>2. Taken(t, 0, n, k, told, t)
    BY DEF Taken
  <2>. QED  BY <1>1, <2>1, <2>2
<1>4. ASSUME NEW i \in 0 .. Len(told) - 1, i \in S PROVE i + 1 \in S
  <2>1. i + 1 \in 0 .. Len(told) /\ i + 1 \in DOMAIN told /\ i + 1 # 0 /\ (i + 1) - 1 = i /\ i \in Nat
    BY <1>1
  <2>2. f[i + 1] = rTableInsert(f[i], Route(n, k, told[i + 1]))
    BY <1>2, <2>1 DEF AreTables
  <2>3. Route(n, k, told[i + 1]) \in rTableEntry
    <3>1. told[i + 1] \in nTableEntry
      BY <2>1
    <3>. QED  BY <3>1 DEF Route, rTableEntry, nTableEntry
  <2>4. ASSUME NEW v \in f[i + 1] PROVE Taken(v, i + 1, n, k, told, t)
    <3>1. PICK w \in f[i] : \/ v = Append(w, Route(n, k, told[i + 1]))
                            \/ v = w /\ Route(n, k, told[i + 1]).dest \in Dests(w)
      BY <2>2, InsertOne
    <3>2. Taken(w, i, n, k, told, t)
      BY <1>4
    <3>. QED  BY <2>1, <2>3, <3>1, <3>2, TakenOne
  <2>. QED  BY <2>1, <2>4
<1>. HIDE DEF S
<1>5. \A i \in 0 .. Len(told) - 1 : i \in S => i + 1 \in S
  BY <1>4
<1>6. \A i \in 0 .. Len(told) : i \in S
  BY <1>1, <1>3, <1>5, UpTo
<1>7. Len(told) \in S
  BY <1>1, <1>6
<1>. QED  BY <1>2, <1>7 DEF S

-----------------------------------------------------------------------------
(* Where routes come from.                                                 *)

\* A route of n is made from what some neighbour has listed and been able to tell.
Learnable(n, r) ==
    \E k \in Tellers(n) : \E i \in DOMAIN nTable[k] : r = Route(n, k, nTable[k][i])

RoutesLearnable == \A n \in Node : \A i \in DOMAIN rTable[n] : Learnable(n, rTable[n][i])

RoutesSound ==
    /\ rTable \in [Node -> Seq(rTableEntry)]
    /\ RoutesLearnable
    /\ \A d \in InFlight :
         /\ d.msg.type \in MessageType
         /\ <<d.msg.from, d.msg.type>> \notin network.lost

\* No entry of a neighbour table changes or goes.
TablesGrow ==
    \A n \in Node : /\ DOMAIN nTable[n] \subseteq DOMAIN nTable'[n]
                    /\ \A i \in DOMAIN nTable[n] : nTable'[n][i] = nTable[n][i]

LEMMA GrowStep ==
    ASSUME Sound, [Next]_vars
    PROVE  TablesGrow /\ network' = network
<1>1. ASSUME NEW d \in InFlight, ProcessNdRsp(d) PROVE TablesGrow
  <2>. DEFINE e == [nodeNumber |-> d.msg.from, iface |-> d.link]
  <2>1. nTable' = [nTable EXCEPT ![d.to] = Append(@, e)]
    BY <1>1 DEF ProcessNdRsp
  <2>2. nTable \in [Node -> Seq(nTableEntry)] /\ e \in nTableEntry
    BY DEF Sound, TablesSound, CopySound, nTableEntry
  <2>. HIDE DEF e
  <2>3. \A n \in Node : nTable'[n] = nTable[n] \/ nTable'[n] = Append(nTable[n], e)
    BY <2>1, <2>2
  <2>4. ASSUME NEW n \in Node
        PROVE  DOMAIN nTable[n] \subseteq DOMAIN nTable'[n]
               /\ \A i \in DOMAIN nTable[n] : nTable'[n][i] = nTable[n][i]
    <3>1. nTable[n] \in Seq(nTableEntry)
      BY <2>2
    <3>2. CASE nTable'[n] = nTable[n]
      BY <3>2
    <3>3. CASE nTable'[n] = Append(nTable[n], e)
      <4>. DEFINE t == nTable[n]
                  u == Append(t, e)
      <4>1. t \in Seq(nTableEntry)
        BY <3>1
      <4>. HIDE DEF t
      <4>2. DOMAIN t \subseteq DOMAIN u /\ \A i \in DOMAIN t : u[i] = t[i]
        BY <2>2, <4>1
      <4>. QED  BY <3>3, <4>2 DEF t
    <3>. QED  BY <2>3, <3>2, <3>3
  <2>. QED  BY <2>4 DEF TablesGrow
<1>2. network' = network /\ (nTable' = nTable \/ \E d \in InFlight : ProcessNdRsp(d))
  BY DEF Next, RecvLSMessage, ProcessNdReq, ProcessNdRsp, ProcessLsp, vars
<1>. QED  BY <1>1, <1>2 DEF TablesGrow

LEMMA LearnableKept ==
    ASSUME TablesGrow, network' = network,
           \A n \in Node : \A i \in DOMAIN rTable'[n] : Learnable(n, rTable'[n][i])
    PROVE  RoutesLearnable'
<1>. SUFFICES ASSUME NEW n \in Node, NEW i \in DOMAIN rTable'[n]
              PROVE  \E k \in Tellers(n)' : \E j \in DOMAIN nTable'[k] :
                        rTable'[n][i] = Route(n, k, nTable'[k][j])
  BY DEF RoutesLearnable, Learnable
<1>1. Tellers(n)' = Tellers(n) /\ Tellers(n) \subseteq Node
  BY DEF Tellers, Neighbours
<1>2. PICK k \in Tellers(n) : \E j \in DOMAIN nTable[k] : rTable'[n][i] = Route(n, k, nTable[k][j])
  BY DEF Learnable
<1>. QED  BY <1>1, <1>2 DEF TablesGrow

\* A sound packet tells what its sender has listed.
LEMMA PacketTells ==
    ASSUME Sound, NEW d \in InFlight, d.msg.type = "LSP"
    PROVE  /\ d.to \in Node /\ d.msg.from \in Node /\ d.msg.from \in Neighbours(d.to)
           /\ d.msg.ntable \in Seq(nTableEntry)
           /\ \A h \in DOMAIN d.msg.ntable :
                h \in DOMAIN nTable[d.msg.from] /\ d.msg.ntable[h] = nTable[d.msg.from][h]
<1>. DEFINE s == d.msg.ntable
            t == nTable[d.msg.from]
<1>1. /\ d.to \in Node /\ d.link \in Link /\ d.msg.from \in Node \ {d.to}
      /\ {d.msg.from, d.to} \subseteq network.attached[d.link]
      /\ s \in Seq(nTableEntry) /\ IsPrefix(s, t)
  BY DEF Sound, CopySound
<1>2. t \in Seq(nTableEntry)
  BY <1>1 DEF Sound, TablesSound
<1>. HIDE DEF s, t
<1>3. \A h \in DOMAIN s : h \in DOMAIN t /\ s[h] = t[h]
  <2>1. Len(s) \in Nat /\ Len(t) \in Nat /\ Len(s) <= Len(t)
        /\ SubSeq(s, 1, Len(s)) = SubSeq(t, 1, Len(s))
    BY <1>1, <1>2 DEF IsPrefix
  <2>2. ASSUME NEW h \in DOMAIN s PROVE h \in DOMAIN t /\ s[h] = t[h]
    <3>1. h \in 1 .. Len(s) /\ DOMAIN t = 1 .. Len(t)
      BY <1>1, <1>2
    <3>2. SubSeq(s, 1, Len(s))[h] = s[h] /\ SubSeq(t, 1, Len(s))[h] = t[h]
      BY <1>1, <1>2, <2>1, <3>1
    <3>. QED  BY <2>1, <3>1, <3>2
  <2>. QED  BY <2>2
<1>. QED  BY <1>1, <1>3 DEF s, t, Neighbours

LEMMA RoutesInit == Init => RoutesSound
<1>. SUFFICES ASSUME Init PROVE RoutesSound
  OBVIOUS
<1>. DEFINE H == UNION {Heard(n, NdReq(n)) : n \in Node}
<1>1. net = SetToBag(H)
  BY DEF Init
<1>2. ASSUME NEW d \in H
      PROVE  d.msg.type \in MessageType /\ <<d.msg.from, d.msg.type>> \notin network.lost
  <2>1. PICK n \in Node : d \in Heard(n, NdReq(n))
    OBVIOUS
  <2>2. d.msg = NdReq(n) /\ <<n, NdReq(n).type>> \notin network.lost
    BY <2>1 DEF Heard
  <2>. QED  BY <2>2 DEF NdReq, MessageType
<1>. HIDE DEF H
<1>3. InFlight = H
  BY <1>1 DEF InFlight, BagToSet, SetToBag
<1>4. rTable \in [Node -> Seq(rTableEntry)] /\ \A n \in Node : rTable[n] = <<>>
  BY DEF Init
<1>. QED  BY <1>2, <1>3, <1>4 DEF RoutesSound, RoutesLearnable

LEMMA RoutesStep == Sound /\ RoutesSound /\ [Next]_vars => RoutesSound'
<1>. SUFFICES ASSUME Sound, RoutesSound, [Next]_vars PROVE RoutesSound'
  OBVIOUS
<1>1. TablesGrow /\ network' = network
  BY GrowStep
<1>2. ASSUME rTable' = rTable
      PROVE  /\ rTable' \in [Node -> Seq(rTableEntry)]
             /\ RoutesLearnable'
  BY <1>1, <1>2, LearnableKept DEF RoutesSound, RoutesLearnable
<1>3. ASSUME NEW d \in InFlight, NEW m, m.type \in MessageType, m.from = d.to,
             net' = BroadcastPacket(Take(net, d), d.to, m)
      PROVE  \A c \in InFlight' : /\ c.msg.type \in MessageType
                                 /\ <<c.msg.from, c.msg.type>> \notin network'.lost
  <2>1. InFlight' \subseteq InFlight \cup Heard(d.to, m)
    BY <1>3, TakeBag, BroadcastBag DEF Sound, InFlight
  <2>2. \A c \in Heard(d.to, m) : c.msg = m /\ <<d.to, m.type>> \notin network.lost
    BY DEF Heard
  <2>. QED  BY <1>1, <1>3, <2>1, <2>2 DEF RoutesSound
<1>4. CASE UNCHANGED vars
  <2>1. InFlight' = InFlight
    BY <1>4 DEF vars, InFlight
  <2>. QED  BY <1>1, <1>2, <1>4, <2>1 DEF RoutesSound, vars
<1>5. ASSUME NEW d \in InFlight, ProcessNdReq(d) PROVE RoutesSound'
  <2>1. /\ NdRsp(d.to, d.msg.from).type \in MessageType /\ NdRsp(d.to, d.msg.from).from = d.to
        /\ rTable' = rTable
    BY <1>5 DEF NdRsp, MessageType, ProcessNdReq
  <2>. QED  BY <1>2, <1>3, <1>5, <2>1 DEF ProcessNdReq, RoutesSound
<1>6. ASSUME NEW d \in InFlight, ProcessNdRsp(d) PROVE RoutesSound'
  <2>1. /\ Lsp(d.to, nTable'[d.to]).type \in MessageType /\ Lsp(d.to, nTable'[d.to]).from = d.to
        /\ rTable' = rTable
    BY <1>6 DEF Lsp, MessageType, ProcessNdRsp
  <2>. QED  BY <1>2, <1>3, <1>6, <2>1 DEF ProcessNdRsp, RoutesSound
<1>7. ASSUME NEW d \in InFlight, ProcessLsp(d) PROVE RoutesSound'
  <2>. DEFINE n == d.to
              k == d.msg.from
              told == d.msg.ntable
  <2>1. /\ n \in Node /\ k \in Node /\ k \in Neighbours(n) /\ told \in Seq(nTableEntry)
        /\ \A h \in DOMAIN told : h \in DOMAIN nTable[k] /\ told[h] = nTable[k][h]
    BY <1>7, PacketTells DEF ProcessLsp
  <2>2. PICK u \in TablesAfter(n, k, told, rTable[n]) : rTable' = [rTable EXCEPT ![n] = u]
    BY <1>7 DEF ProcessLsp
  <2>3. rTable \in [Node -> Seq(rTableEntry)]
    BY DEF RoutesSound
  <2>4. k \in Tellers(n)
    BY <1>7, <2>1 DEF RoutesSound, Tellers, ProcessLsp
  <2>. HIDE DEF n, k, told
  <2>5. Taken(u, Len(told), n, k, told, rTable[n])
    BY <2>1, <2>2, <2>3, AllTaken
  <2>6. /\ rTable' \in [Node -> Seq(rTableEntry)] /\ rTable'[n] = u
        /\ \A x \in Node : x # n => rTable'[x] = rTable[x]
    BY <2>1, <2>2, <2>3, <2>5 DEF Taken
  <2>7. ASSUME NEW i \in DOMAIN u PROVE Learnable(n, u[i])
    <3>1. CASE \E h \in DOMAIN rTable[n] : u[i] = rTable[n][h]
      BY <2>1, <3>1 DEF RoutesSound, RoutesLearnable
    <3>2. CASE \E h \in 1 .. Len(told) : u[i] = Route(n, k, told[h])
      <4>1. PICK h \in 1 .. Len(told) : u[i] = Route(n, k, told[h])
        BY <3>2
      <4>2. h \in DOMAIN told
        BY <2>1
      <4>. QED  BY <2>1, <2>4, <4>1, <4>2 DEF Learnable
    <3>. QED  BY <2>5, <3>1, <3>2 DEF Taken
  <2>8. RoutesLearnable'
    <3>1. ASSUME NEW x \in Node, NEW i \in DOMAIN rTable'[x] PROVE Learnable(x, rTable'[x][i])
      BY <2>6, <2>7 DEF RoutesSound, RoutesLearnable
    <3>. QED  BY <1>1, <3>1, LearnableKept
  <2>9. InFlight' \subseteq InFlight
    BY <1>7, TakeBag DEF ProcessLsp, Sound, InFlight
  <2>. QED  BY <1>1, <2>6, <2>8, <2>9 DEF RoutesSound
<1>. QED  BY <1>4, <1>5, <1>6, <1>7 DEF Next, RecvLSMessage

-----------------------------------------------------------------------------

\* All tables hold entries of their type and only known messages between nodes travel.
THEOREM TypeCorrect == Spec => []TypeOK
<1>1. Init => network \in Network
  BY DEF Init
<1>2. network \in Network /\ Sound /\ [Next]_vars => (network \in Network)'
  BY GrowStep
<1>3. network \in Network /\ Sound /\ RoutesSound => TypeOK
  <2>. SUFFICES ASSUME network \in Network, Sound, RoutesSound PROVE TypeOK
    OBVIOUS
  <2>1. ASSUME NEW n \in Node
        PROVE  /\ \A i \in DOMAIN nTable[n] : nTable[n][i] \in nTableEntry
               /\ \A i \in DOMAIN rTable[n] : rTable[n][i] \in rTableEntry
    <3>1. nTable[n] \in Seq(nTableEntry) /\ rTable[n] \in Seq(rTableEntry)
      BY DEF Sound, TablesSound, RoutesSound
    <3>. QED  BY <3>1
  <2>2. ASSUME NEW d \in InFlight
        PROVE  d.to \in Node /\ d.link \in Link /\ d.msg.type \in MessageType /\ d.msg.from \in Node
    BY DEF Sound, CopySound, RoutesSound
  <2>. QED  BY <2>1, <2>2 DEF TypeOK
<1>. QED  BY <1>1, <1>2, <1>3, SoundInit, SoundStep, RoutesInit, RoutesStep, PTL DEF Spec

\* A route of cost 1 leads to a neighbour that has listed this node, any other to
\* somebody whom a neighbour has listed, and none to the node itself: whatever is lost
\* and in whatever order packets are taken (ProcessLsp).
THEOREM RoutesAreWitnessed == Spec => []RoutesWitnessed
<1>1. Sound /\ RoutesSound => RoutesWitnessed
  <2>. SUFFICES ASSUME Sound, RoutesSound, NEW n \in Node, NEW i \in DOMAIN rTable[n]
                PROVE  LET r == rTable[n][i] IN
                       /\ r.dest # n
                       /\ IF r.cost = 1 THEN r.dest \in Neighbours(n) /\ n \in Listed(r.dest)
                          ELSE \E k \in Neighbours(n) : r.dest \in Listed(k)
    BY DEF RoutesWitnessed
  <2>1. PICK k \in Tellers(n) : \E h \in DOMAIN nTable[k] : rTable[n][i] = Route(n, k, nTable[k][h])
    BY DEF RoutesSound, RoutesLearnable, Learnable
  <2>2. PICK h \in DOMAIN nTable[k] : rTable[n][i] = Route(n, k, nTable[k][h])
    BY <2>1
  <2>3. k \in Neighbours(n) /\ k # n /\ nTable[k][h].nodeNumber \in Listed(k)
    BY DEF Tellers, Neighbours, Listed
  <2>4. CASE nTable[k][h].nodeNumber = n
    BY <2>2, <2>3, <2>4 DEF Route
  <2>5. CASE nTable[k][h].nodeNumber # n
    BY <2>2, <2>3, <2>5 DEF Route, Unwritten
  <2>. QED  BY <2>4, <2>5
<1>. QED  BY <1>1, SoundInit, SoundStep, RoutesInit, RoutesStep, PTL DEF Spec

-----------------------------------------------------------------------------
(* What is still to come.  A neighbour that is not listed is asked or has  *)
(* answered, and an entry whose destination a node does not know is told   *)
(* in a packet on its way to the node, be it the last packet or not.       *)

Discovered(n, k) ==
    \/ k \in Listed(n)
    \/ \E l \in Link : ReqCopy(n, k, l) \in InFlight \/ RspCopy(n, k, l) \in InFlight

ToldBy(c, n, k, i) ==
    c.to = n /\ c.msg.type = "LSP" /\ c.msg.from = k /\ i \in DOMAIN c.msg.ntable

Learnt(n, k, i) ==
    \/ Route(n, k, nTable[k][i]).dest \in Dests(rTable[n])
    \/ \E c \in InFlight : ToldBy(c, n, k, i)

Promised ==
    /\ NothingLost({"ND_REQ", "ND_RSP"}) =>
          \A n \in Node : \A k \in Neighbours(n) : Discovered(n, k)
    /\ \A n \in Node : \A k \in Tellers(n) : \A i \in DOMAIN nTable[k] : Learnt(n, k, i)

\* All copies but the one received are still in flight, with those newly broadcast.
LEMMA StillInFlight ==
    ASSUME Sound, NEW d \in InFlight, NEW s, NEW m, net' = BroadcastPacket(Take(net, d), s, m)
    PROVE  (InFlight \ {d}) \cup Heard(s, m) \subseteq InFlight'
<1>1. IsABag(net) /\ IsABag(Take(net, d)) /\ InFlight = BagToSet(net) /\ InFlight' = BagToSet(net')
  BY TakeBag DEF Sound, InFlight
<1>2. IsABag(net')
  BY <1>1, BroadcastBag
<1>3. \A c : CopiesOf(c, net') = CopiesOf(c, net) - (IF c = d THEN 1 ELSE 0)
                                   + (IF c \in Heard(s, m) THEN 1 ELSE 0)
  BY <1>1, CopiesAfter
<1>4. \A c : /\ CopiesOf(c, net) \in Nat
             /\ c \in InFlight <=> CopiesOf(c, net) > 0
             /\ c \in InFlight' <=> CopiesOf(c, net') > 0
  BY <1>1, <1>2, CopiesCount
<1>. QED  BY <1>3, <1>4

LEMMA PromisedInit == Init => Promised
<1>. SUFFICES ASSUME Init PROVE Promised
  OBVIOUS
<1>. DEFINE H == UNION {Heard(n, NdReq(n)) : n \in Node}
<1>1. net = SetToBag(H) /\ \A n \in Node : nTable[n] = <<>>
  BY DEF Init
<1>. HIDE DEF H
<1>2. InFlight = H
  BY <1>1 DEF InFlight, BagToSet, SetToBag
<1>3. ASSUME NothingLost({"ND_REQ", "ND_RSP"}), NEW n \in Node, NEW k \in Neighbours(n)
      PROVE  Discovered(n, k)
  <2>1. PICK l \in Link : {n, k} \subseteq network.attached[l]
    BY DEF Neighbours
  <2>2. k \in Node \ {n} /\ <<n, "ND_REQ">> \notin network.lost
    BY <1>3 DEF Neighbours, NothingLost
  <2>3. IsOwnAddress(k, NdReq(n)) /\ NdReq(n).type = "ND_REQ"
    BY DEF IsOwnAddress, NdReq
  <2>4. /\ ReqCopy(n, k, l) \in [to : Node \ {n}, link : Link, msg : {NdReq(n)}]
        /\ ReqCopy(n, k, l).to = k /\ ReqCopy(n, k, l).link = l
    BY <2>2 DEF ReqCopy
  <2>5. ReqCopy(n, k, l) \in Heard(n, NdReq(n))
    BY <2>1, <2>2, <2>3, <2>4 DEF Heard
  <2>. QED  BY <1>2, <2>5 DEF H, Discovered
<1>. QED  BY <1>1, <1>3 DEF Promised, Tellers, Neighbours

\* Whom a node has listed it keeps listed.
LEMMA ListedKept ==
    ASSUME TablesGrow, NEW n \in Node, NEW k \in Listed(n)
    PROVE  k \in Listed(n)'
BY DEF TablesGrow, Listed

LEMMA PromisedStep ==
    Sound /\ Counted /\ RoutesSound /\ Promised /\ [Next]_vars => Promised'
<1>. SUFFICES ASSUME Sound, Counted, RoutesSound, Promised, [Next]_vars PROVE Promised'
  OBVIOUS
<1>1. TablesGrow /\ network' = network
  BY GrowStep
<1>2. /\ NothingLost({"ND_REQ", "ND_RSP"})' = NothingLost({"ND_REQ", "ND_RSP"})
      /\ \A n : Neighbours(n)' = Neighbours(n) /\ Tellers(n)' = Tellers(n)
      /\ \A n : Tellers(n) \subseteq Neighbours(n) /\ Neighbours(n) \subseteq Node
  BY <1>1 DEF NothingLost, Neighbours, Tellers
\* A step that takes d has to make up for d only.
<1>3. ASSUME NEW d \in InFlight, InFlight \ {d} \subseteq InFlight',
             \A n \in Node : \A k \in Neighbours(n) : \A l \in Link :
                NothingLost({"ND_REQ", "ND_RSP"}) /\ d \in {ReqCopy(n, k, l), RspCopy(n, k, l)}
                   => Discovered(n, k)',
             \A n \in Node : \A k \in Tellers(n) : \A i \in DOMAIN nTable'[k] :
                \/ Learnt(n, k, i)'
                \/ /\ i \in DOMAIN nTable[k] /\ nTable'[k][i] = nTable[k][i]
                   /\ Dests(rTable[n]) \subseteq Dests(rTable'[n])
                   /\ ~ ToldBy(d, n, k, i)
      PROVE  Promised'
  <2>1. ASSUME NothingLost({"ND_REQ", "ND_RSP"}), NEW n \in Node, NEW k \in Neighbours(n)
        PROVE  Discovered(n, k)'
    <3>1. Discovered(n, k)
      BY <2>1 DEF Promised
    <3>2. CASE k \in Listed(n)
      BY <1>1, <3>2, ListedKept DEF Discovered
    <3>3. CASE \E l \in Link : ReqCopy(n, k, l) \in InFlight \/ RspCopy(n, k, l) \in InFlight
      <4>1. PICK l \in Link : \E c \in InFlight : c \in {ReqCopy(n, k, l), RspCopy(n, k, l)}
        BY <3>3
      <4>2. PICK c \in InFlight : c = ReqCopy(n, k, l) \/ c = RspCopy(n, k, l)
        BY <4>1
      <4>3. CASE c = d
        BY <1>3, <2>1, <4>2, <4>3
      <4>4. CASE c # d
        <5>1. ReqCopy(n, k, l) \in InFlight' \/ RspCopy(n, k, l) \in InFlight'
          BY <1>3, <4>2, <4>4
        <5>2. ReqCopy(n, k, l)' = ReqCopy(n, k, l) /\ RspCopy(n, k, l)' = RspCopy(n, k, l)
          BY DEF ReqCopy, RspCopy, NdReq, NdRsp
        <5>. QED  BY <5>1, <5>2 DEF Discovered
      <4>. QED  BY <4>3, <4>4
    <3>. QED  BY <3>1, <3>2, <3>3 DEF Discovered
  <2>2. ASSUME NEW n \in Node, NEW k \in Tellers(n), NEW i \in DOMAIN nTable'[k]
        PROVE  Learnt(n, k, i)'
    <3>. SUFFICES ASSUME i \in DOMAIN nTable[k], nTable'[k][i] = nTable[k][i],
                         Dests(rTable[n]) \subseteq Dests(rTable'[n]), ~ ToldBy(d, n, k, i)
                  PROVE  Learnt(n, k, i)'
      BY <1>3
    <3>1. Learnt(n, k, i)
      BY DEF Promised
    <3>2. CASE Route(n, k, nTable[k][i]).dest \in Dests(rTable[n])
      BY <3>2 DEF Learnt, Dests
    <3>3. CASE \E c \in InFlight : ToldBy(c, n, k, i)
      <4>1. PICK c \in InFlight : ToldBy(c, n, k, i)
        BY <3>3
      <4>2. c \in InFlight' /\ ToldBy(c, n, k, i)
        BY <1>3, <4>1
      <4>. QED  BY <4>2 DEF Learnt, ToldBy
    <3>. QED  BY <3>1, <3>2, <3>3 DEF Learnt
  <2>. QED  BY <1>2, <2>1, <2>2 DEF Promised
<1>4. CASE UNCHANGED vars
  <2>1. InFlight' = InFlight /\ nTable' = nTable /\ rTable' = rTable
    BY <1>4 DEF vars, InFlight
  <2>. QED  BY <1>2, <2>1 DEF Promised, Discovered, Learnt, Listed, Dests, ToldBy
<1>5. ASSUME NEW d \in InFlight, ProcessNdReq(d) PROVE Promised'
  <2>. DEFINE m == NdRsp(d.to, d.msg.from)
  <2>1. /\ nTable' = nTable /\ rTable' = rTable /\ d.msg.type = "ND_REQ"
        /\ net' = BroadcastPacket(Take(net, d), d.to, m)
    BY <1>5 DEF ProcessNdReq
  <2>2. InFlight \ {d} \subseteq InFlight' /\ Heard(d.to, m) \subseteq InFlight'
    BY <2>1, StillInFlight
  <2>3. ASSUME NothingLost({"ND_REQ", "ND_RSP"}), NEW n \in Node, NEW k \in Neighbours(n),
               NEW l \in Link, d \in {ReqCopy(n, k, l), RspCopy(n, k, l)}
        PROVE  Discovered(n, k)'
    <3>1. d = ReqCopy(n, k, l)
      BY <2>1, <2>3 DEF RspCopy, NdRsp
    <3>2. d.to = k /\ d.link = l /\ d.msg.from = n /\ m = NdRsp(k, n)
      BY <3>1 DEF ReqCopy, NdReq
    <3>3. k \in Node \ {n} /\ {k, n} \subseteq network.attached[l]
      BY <1>2, <3>2 DEF Sound, CopySound, Neighbours
    <3>4. IsOwnAddress(n, m) /\ m.type = "ND_RSP" /\ <<k, "ND_RSP">> \notin network.lost
      BY <2>3, <3>2, <3>3 DEF IsOwnAddress, NdRsp, NothingLost
    <3>5. /\ RspCopy(n, k, l) \in [to : Node \ {k}, link : Link, msg : {m}]
          /\ RspCopy(n, k, l).to = n /\ RspCopy(n, k, l).link = l
      BY <3>2, <3>3 DEF RspCopy
    <3>6. RspCopy(n, k, l) \in Heard(k, m)
      BY <3>3, <3>4, <3>5 DEF Heard
    <3>7. RspCopy(n, k, l) \in InFlight' /\ RspCopy(n, k, l)' = RspCopy(n, k, l)
      BY <2>2, <3>2, <3>6 DEF RspCopy, NdRsp
    <3>. QED  BY <3>7 DEF Discovered
  <2>4. \A n, k, i : ~ ToldBy(d, n, k, i)
    BY <2>1 DEF ToldBy
  <2>. QED  BY <1>3, <2>1, <2>2, <2>3, <2>4
<1>6. ASSUME NEW d \in InFlight, ProcessNdRsp(d) PROVE Promised'
  <2>. DEFINE e == [nodeNumber |-> d.msg.from, iface |-> d.link]
              m == Lsp(d.to, nTable'[d.to])
  <2>1. /\ nTable' = [nTable EXCEPT ![d.to] = Append(@, e)] /\ rTable' = rTable
        /\ d.msg.type = "ND_RSP"
        /\ net' = BroadcastPacket(Take(net, d), d.to, m)
    BY <1>6 DEF ProcessNdRsp
  <2>2. InFlight \ {d} \subseteq InFlight' /\ Heard(d.to, m) \subseteq InFlight'
    BY <2>1, StillInFlight
  <2>3. d.to \in Node /\ nTable \in [Node -> Seq(nTableEntry)] /\ e \in nTableEntry
    BY DEF Sound, TablesSound, CopySound, nTableEntry
  <2>4. nTable'[d.to] = Append(nTable[d.to], e) /\ \A k \in Node : k # d.to => nTable'[k] = nTable[k]
    BY <2>1, <2>3
  <2>5. ASSUME NEW n \in Node, NEW k \in Neighbours(n), NEW l \in Link,
               d \in {ReqCopy(n, k, l), RspCopy(n, k, l)}
        PROVE  Discovered(n, k)'
    <3>1. d = RspCopy(n, k, l)
      BY <2>1, <2>5 DEF ReqCopy, NdReq
    <3>2. d.to = n /\ d.msg.from = k
      BY <3>1 DEF RspCopy, NdRsp
    <3>. DEFINE t == nTable[n]
                u == Append(t, e)
    <3>3. nTable'[n] = u /\ t \in Seq(nTableEntry)
      BY <2>3, <2>4, <3>2
    <3>. HIDE DEF t, e
    <3>4. Len(t) + 1 \in DOMAIN u /\ u[Len(t) + 1] = e
      BY <2>3, <3>3
    <3>5. e.nodeNumber = k
      BY <3>2 DEF e
    <3>6. k \in Listed(n)'
      BY <3>3, <3>4, <3>5 DEF Listed
    <3>. QED  BY <3>6 DEF Discovered
  <2>. HIDE DEF e
  <2>6. ASSUME NEW n \in Node, NEW k \in Tellers(n), NEW i \in DOMAIN nTable'[k], k = d.to
        PROVE  Learnt(n, k, i)'
    <3>1. PICK l \in Link : {k, n} \subseteq network.attached[l]
      BY DEF Tellers, Neighbours
    <3>2. k \in Node \ {n} /\ n \in Node \ {k} /\ <<k, "LSP">> \notin network.lost
      BY DEF Tellers, Neighbours
    <3>3. /\ m.type = "LSP" /\ m.from = k /\ m.ntable = nTable'[k] /\ IsOwnAddress(n, m)
      BY <2>6 DEF Lsp, IsOwnAddress
    <3>. DEFINE c == [to |-> n, link |-> l, msg |-> m]
    <3>. HIDE DEF m
    <3>4. c \in [to : Node \ {k}, link : Link, msg : {m}] /\ c.to = n /\ c.link = l /\ c.msg = m
      BY <3>2
    <3>. HIDE DEF c
    <3>5. c \in Heard(k, m)
      BY <3>1, <3>2, <3>3, <3>4 DEF Heard
    <3>6. c \in InFlight' /\ ToldBy(c, n, k, i)
      BY <2>2, <2>6, <3>3, <3>4, <3>5 DEF ToldBy
    <3>. QED  BY <3>6 DEF Learnt, ToldBy
  <2>7. \A n, k, i : ~ ToldBy(d, n, k, i)
    BY <2>1 DEF ToldBy
  <2>8. ASSUME NEW n \in Node, NEW k \in Tellers(n), NEW i \in DOMAIN nTable'[k], k # d.to
        PROVE  i \in DOMAIN nTable[k] /\ nTable'[k][i] = nTable[k][i]
    BY <1>2, <2>4, <2>8
  <2>. QED  BY <1>3, <2>1, <2>2, <2>5, <2>6, <2>7, <2>8
<1>7. ASSUME NEW d \in InFlight, ProcessLsp(d) PROVE Promised'
  <2>. DEFINE n == d.to
              k == d.msg.from
              told == d.msg.ntable
  <2>1. /\ n \in Node /\ k \in Node /\ told \in Seq(nTableEntry)
        /\ \A h \in DOMAIN told : h \in DOMAIN nTable[k] /\ told[h] = nTable[k][h]
    BY <1>7, PacketTells DEF ProcessLsp
  <2>2. PICK u \in TablesAfter(n, k, told, rTable[n]) : rTable' = [rTable EXCEPT ![n] = u]
    BY <1>7 DEF ProcessLsp
  <2>3. /\ nTable' = nTable /\ net' = Take(net, d) /\ d.msg.type = "LSP"
        /\ rTable \in [Node -> Seq(rTableEntry)]
    BY <1>7 DEF ProcessLsp, RoutesSound
  <2>4. InFlight \ {d} \subseteq InFlight'
    BY <2>3, TakeLeaves DEF Sound, InFlight
  <2>5. \A x, y, l : d # ReqCopy(x, y, l) /\ d # RspCopy(x, y, l)
    BY <2>3 DEF ReqCopy, RspCopy, NdReq, NdRsp
  <2>6. Taken(u, Len(told), n, k, told, rTable[n])
    BY <2>1, <2>2, <2>3, AllTaken
  <2>7. rTable'[n] = u /\ \A x \in Node : x # n => rTable'[x] = rTable[x]
    BY <2>1, <2>2, <2>3
  <2>8. \A x \in Node : Dests(rTable[x]) \subseteq Dests(rTable'[x])
    BY <2>6, <2>7 DEF Taken
  <2>9. ASSUME NEW x \in Node, NEW y \in Tellers(x), NEW i \in DOMAIN nTable'[y], ToldBy(d, x, y, i)
        PROVE  Learnt(x, y, i)'
    <3>1. x = n /\ y = k /\ i \in DOMAIN told
      BY <2>9 DEF ToldBy
    <3>2. i \in 1 .. Len(told) /\ told[i] = nTable'[k][i]
      BY <2>1, <2>3, <3>1
    <3>3. Route(n, k, nTable'[k][i]).dest \in Dests(rTable'[n])
      BY <2>6, <2>7, <3>2 DEF Taken
    <3>. QED  BY <3>1, <3>3 DEF Learnt, Dests
  <2>. QED  BY <1>3, <2>3, <2>4, <2>5, <2>8, <2>9
<1>. QED  BY <1>4, <1>5, <1>6, <1>7 DEF Next, RecvLSMessage

\* When nothing travels any more and no request or answer was lost, every node has
\* listed exactly its neighbours, and has a route to exactly those that tell it their
\* table and to their other neighbours (ProcessNdReq, ProcessNdRsp, ProcessLsp).
THEOREM QuietTables == Spec => []QuietTablesComplete
<1>1. Sound /\ RoutesSound /\ Promised => QuietTablesComplete
  <2>. SUFFICES ASSUME Sound, RoutesSound, Promised, net = EmptyBag,
                       NothingLost({"ND_REQ", "ND_RSP"}), NEW n \in Node
                PROVE  /\ Listed(n) = Neighbours(n)
                       /\ Routed(n) = Tellers(n) \cup UNION {Neighbours(k) \ {n} : k \in Tellers(n)}
    BY DEF QuietTablesComplete
  <2>1. InFlight = {}
    BY DEF InFlight, BagToSet, EmptyBag, SetToBag
  <2>2. \A x \in Node : Listed(x) = Neighbours(x)
    <3>. SUFFICES ASSUME NEW x \in Node PROVE Listed(x) = Neighbours(x)
      OBVIOUS
    <3>1. Neighbours(x) \subseteq Listed(x)
      BY <2>1 DEF Promised, Discovered
    <3>2. ASSUME NEW i \in DOMAIN nTable[x] PROVE nTable[x][i].nodeNumber \in Neighbours(x)
      <4>1. nTable[x][i] \in nTableEntry /\ Adjacent(x, nTable[x][i])
        BY DEF Sound, TablesSound
      <4>. QED  BY <4>1 DEF nTableEntry, Adjacent, Neighbours
    <3>. QED  BY <3>1, <3>2 DEF Listed
  <2>3. /\ Routed(n) = Dests(rTable[n])
        /\ Tellers(n) \subseteq Neighbours(n) /\ Neighbours(n) \subseteq Node \ {n}
    BY DEF Routed, Dests, Tellers, Neighbours
  <2>4. \A k \in Tellers(n) : \A i \in DOMAIN nTable[k] : Route(n, k, nTable[k][i]).dest \in Routed(n)
    BY <2>1, <2>3 DEF Promised, Learnt
  <2>5. ASSUME NEW k \in Tellers(n) PROVE k \in Routed(n)
    <3>1. k \in Node /\ n \in Neighbours(k)
      BY DEF Tellers, Neighbours
    <3>2. PICK i \in DOMAIN nTable[k] : nTable[k][i].nodeNumber = n
      BY <2>2, <3>1 DEF Listed
    <3>. QED  BY <2>4, <3>2 DEF Route
  <2>6. ASSUME NEW k \in Tellers(n), NEW x \in Neighbours(k) \ {n} PROVE x \in Routed(n)
    <3>1. k \in Node
      BY <2>3
    <3>2. PICK i \in DOMAIN nTable[k] : nTable[k][i].nodeNumber = x
      BY <2>2, <3>1 DEF Listed
    <3>. QED  BY <2>4, <3>2 DEF Route
  <2>7. ASSUME NEW i \in DOMAIN rTable[n]
        PROVE  \/ rTable[n][i].dest \in Tellers(n)
               \/ \E k \in Tellers(n) : rTable[n][i].dest \in Neighbours(k) \ {n}
    <3>1. PICK k \in Tellers(n) : \E h \in DOMAIN nTable[k] : rTable[n][i] = Route(n, k, nTable[k][h])
      BY DEF RoutesSound, RoutesLearnable, Learnable
    <3>2. PICK h \in DOMAIN nTable[k] : rTable[n][i] = Route(n, k, nTable[k][h])
      BY <3>1
    <3>3. nTable[k][h].nodeNumber \in Neighbours(k)
      BY <2>2, <2>3 DEF Listed
    <3>. QED  BY <3>2, <3>3 DEF Route
  <2>8. Routed(n) \subseteq Tellers(n) \cup UNION {Neighbours(k) \ {n} : k \in Tellers(n)}
    BY <2>7 DEF Routed
  <2>. QED  BY <2>2, <2>5, <2>6, <2>8
<1>. QED  BY <1>1, SoundInit, SoundStep, CountedInit, CountedStep, RoutesInit, RoutesStep,
             PromisedInit, PromisedStep, PTL DEF Spec

=============================================================================
