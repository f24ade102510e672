------------------------- MODULE PingVerdictProofs -------------------------
(***************************************************************************)
(* The verdict of a ping and the refinement of PingService, as long as no  *)
(* transaction id is given out twice.                                      *)
(***************************************************************************)
EXTENDS PingProofs

-----------------------------------------------------------------------------
(* Transaction ids.                                                        *)

\* The id that the counter c has given out j pings ago, and the last n of them.
Back(c, j) == IF j <= c THEN c - j ELSE c - j + IdMod
Last(c, n) == {Back(c, j) : j \in 1 .. n}

LEMMA OneTurn ==
    ASSUME NEW c \in 0 .. IdMod - 1, NEW r \in 0 .. IdMod
    PROVE  (c + r) % IdMod = IF c + r < IdMod THEN c + r ELSE c + r - IdMod
BY IdModAssumption

\* All ids of a turn differ.
LEMMA BackInjective ==
    ASSUME NEW c \in 0 .. IdMod - 1, NEW i \in 1 .. IdMod, NEW j \in 1 .. IdMod,
           Back(c, i) = Back(c, j)
    PROVE  i = j
BY IdModAssumption DEF Back

\* Counting s pings on.
LEMMA BackShift ==
    ASSUME NEW c \in 0 .. IdMod - 1, NEW s \in 0 .. IdMod
    PROVE  LET e == (c + s) % IdMod
           IN  /\ e \in 0 .. IdMod - 1
               /\ \A r \in 0 .. s - 1 : (c + r) % IdMod = Back(e, s - r)
               /\ \A j \in 1 .. IdMod - s : Back(c, j) = Back(e, j + s)
<1>1. (c + s) % IdMod = IF c + s < IdMod THEN c + s ELSE c + s - IdMod
  BY OneTurn
<1>2. \A r \in 0 .. s - 1 : (c + r) % IdMod = IF c + r < IdMod THEN c + r ELSE c + r - IdMod
  BY OneTurn, IdModAssumption
<1>. QED  BY <1>1, <1>2, IdModAssumption DEF Back

\* The place of a peer among those of one command.
Place(p, S) == Cardinality({q \in S : q < p})

LEMMA PlacesDiffer ==
    ASSUME NEW S \in SUBSET Peer
    PROVE  /\ Cardinality(S) \in Nat
           /\ \A p \in S : Place(p, S) \in 0 .. Cardinality(S) - 1
           /\ \A p, q \in S : Place(p, S) = Place(q, S) => p = q
<1>1. IsFiniteSet(S) /\ S \subseteq Nat
  BY PeerAssumption, FS_Subset
<1>. DEFINE B(p) == {q \in S : q < p}
<1>2. Cardinality(S) \in Nat
  BY <1>1, FS_CardinalityType
<1>3. ASSUME NEW p \in S
      PROVE  /\ IsFiniteSet(B(p)) /\ Cardinality(B(p)) \in Nat
             /\ IsFiniteSet(B(p) \cup {p}) /\ Cardinality(B(p) \cup {p}) = Cardinality(B(p)) + 1
  <2>1. IsFiniteSet(B(p)) /\ p \notin B(p)
    BY <1>1, FS_Subset, B(p) \subseteq S
  <2>. HIDE DEF B
  <2>. QED  BY <2>1, FS_CardinalityType, FS_AddElement
<1>4. ASSUME NEW p \in S PROVE Cardinality(B(p)) < Cardinality(S)
  <2>1. B(p) \cup {p} \subseteq S
    OBVIOUS
  <2>2. Cardinality(B(p) \cup {p}) <= Cardinality(S)
    BY <1>1, <2>1, FS_Subset
  <2>. HIDE DEF B
  <2>. QED  BY <1>2, <1>3, <2>2
<1>5. ASSUME NEW p \in S, NEW q \in S, p < q PROVE Cardinality(B(p)) < Cardinality(B(q))
  <2>1. B(p) \cup {p} \subseteq B(q)
    <3>1. p \in Nat /\ q \in Nat /\ \A r \in S : r \in Nat
      BY <1>1
    <3>2. \A r \in S : r < p => r < q
      BY <1>5, <3>1
    <3>. QED  BY <1>5, <3>2
  <2>2. Cardinality(B(p) \cup {p}) <= Cardinality(B(q))
    BY <1>3, <2>1, FS_Subset
  <2>3. /\ Cardinality(B(p) \cup {p}) = Cardinality(B(p)) + 1
        /\ Cardinality(B(p)) \in Nat /\ Cardinality(B(q)) \in Nat
    BY <1>3
  <2>. HIDE DEF B
  <2>. QED  BY <2>2, <2>3
<1>6. \A p \in S : Place(p, S) = Cardinality(B(p))
  BY DEF Place
<1>. HIDE DEF B
<1>7. ASSUME NEW p \in S, NEW q \in S, Place(p, S) = Place(q, S) PROVE p = q
  <2>1. p \in Nat /\ q \in Nat
    BY <1>1
  <2>2. ~(p < q) /\ ~(q < p)
    <3>1. Cardinality(B(p)) = Cardinality(B(q)) /\ Cardinality(B(p)) \in Nat
      BY <1>3, <1>6, <1>7
    <3>. QED  BY <1>5, <3>1
  <2>. QED  BY <2>1, <2>2
<1>8. ASSUME NEW p \in S PROVE Place(p, S) \in 0 .. Cardinality(S) - 1
  <2>1. Cardinality(B(p)) \in Nat /\ Cardinality(B(p)) < Cardinality(S)
    BY <1>3, <1>4
  <2>. QED  BY <1>2, <1>6, <2>1
<1>. QED  BY <1>2, <1>7, <1>8

\* A command to the peers S takes Cardinality(S) ids, all different and none of them
\* among the last n, as long as there are enough.
LEMMA IdsAreFresh ==
    ASSUME NEW c \in 0 .. IdMod - 1, NEW S \in SUBSET Peer, NEW n \in Nat,
           n + Cardinality(S) <= IdMod
    PROVE  LET e == (c + Cardinality(S)) % IdMod
               id(p) == (c + Place(p, S)) % IdMod
           IN  /\ Last(c, n) \subseteq Last(e, n + Cardinality(S))
               /\ \A p \in S : id(p) \in Last(e, n + Cardinality(S)) \ Last(c, n)
               /\ \A p, q \in S : id(p) = id(q) => p = q
<1>. DEFINE s == Cardinality(S)
            e == (c + s) % IdMod
            id(p) == (c + Place(p, S)) % IdMod
<1>1. /\ s \in 0 .. IdMod
      /\ \A p \in S : Place(p, S) \in 0 .. s - 1
      /\ \A p, q \in S : Place(p, S) = Place(q, S) => p = q
  BY PlacesDiffer, IdModAssumption
<1>. HIDE DEF s
<1>2. /\ e \in 0 .. IdMod - 1
      /\ \A r \in 0 .. s - 1 : (c + r) % IdMod = Back(e, s - r)
      /\ \A j \in 1 .. IdMod - s : Back(c, j) = Back(e, j + s)
  BY <1>1, BackShift
<1>. HIDE DEF e
<1>3. n + s <= IdMod
  BY DEF s
<1>4. \A j \in 1 .. n : j + s \in 1 .. n + s /\ Back(c, j) = Back(e, j + s)
  BY <1>1, <1>2, <1>3, IdModAssumption
<1>5. \A p \in S : s - Place(p, S) \in 1 .. s /\ id(p) = Back(e, s - Place(p, S))
  BY <1>1, <1>2
<1>6. Last(c, n) \subseteq Last(e, n + s)
  BY <1>4 DEF Last
<1>7. ASSUME NEW p \in S PROVE id(p) \in Last(e, n + s) \ Last(c, n)
  <2>1. s - Place(p, S) \in 1 .. n + s
    BY <1>1, <1>5
  <2>2. \A j \in 1 .. n : s - Place(p, S) # j + s
    BY <1>1, <1>5
  <2>3. \A j \in 1 .. n : Back(e, s - Place(p, S)) # Back(e, j + s)
    <3>1. s - Place(p, S) \in 1 .. IdMod
      BY <1>1, <1>5, IdModAssumption
    <3>2. \A j \in 1 .. n : j + s \in 1 .. IdMod
      BY <1>1, <1>3, IdModAssumption
    <3>. QED  BY <1>2, <2>2, <3>1, <3>2, BackInjective
  <2>. QED  BY <1>4, <1>5, <2>1, <2>3 DEF Last
<1>8. ASSUME NEW p \in S, NEW q \in S, id(p) = id(q) PROVE p = q
  <2>1. s - Place(p, S) \in 1 .. IdMod /\ s - Place(q, S) \in 1 .. IdMod
    BY <1>1, <1>5, IdModAssumption
  <2>2. s - Place(p, S) = s - Place(q, S)
    BY <1>2, <1>5, <1>8, <2>1, BackInjective
  <2>. QED  BY <1>1, <2>2
<1>. QED  BY <1>6, <1>7, <1>8 DEF s, e

-----------------------------------------------------------------------------
(* The pings that take an id.                                              *)

LEMMA KeysCounted ==
    ASSUME NEW S \in SUBSET Peer, NEW t
    PROVE  LET keys == {Key(p, t) : p \in S}
           IN  IsFiniteSet(keys) /\ Cardinality(keys) = Cardinality(S)
<1>. DEFINE keys == {Key(p, t) : p \in S}
            f == [p \in S |-> Key(p, t)]
<1>1. IsFiniteSet(S)
  BY PeerAssumption, FS_Subset
<1>2. f \in Surjection(S, keys)
  BY DEF Surjection
<1>3. f \in Injection(S, keys)
  BY DEF Injection, IsInjective, Key
<1>. HIDE DEF f, keys
<1>. QED  BY <1>1, <1>2, <1>3, FS_Surjection DEF keys

LEMMA CommandCounts ==
    ASSUME asked \subseteq Ping, IsFiniteSet(asked), NEW S \in SUBSET Peer, NEW t \in Text,
           {Key(p, t) : p \in S} \cap asked = {}, asked' = asked \cup {Key(p, t) : p \in S}
    PROVE  /\ IsFiniteSet(asked') /\ Cardinality(Numbered) \in Nat
           /\ Cardinality(Numbered)' = Cardinality(Numbered) + Cardinality(S)
<1>. DEFINE keys == {Key(p, t) : p \in S}
<1>1. IsFiniteSet(keys) /\ Cardinality(keys) = Cardinality(S) /\ Cardinality(S) \in Nat
  BY KeysCounted, PlacesDiffer
<1>2. Numbered' = Numbered \cup keys
  BY DEF Numbered, Key
<1>3. Numbered \cap keys = {}
  BY DEF Numbered
<1>4. IsFiniteSet(Numbered) /\ Cardinality(Numbered) \in Nat
  BY FS_Subset, FS_CardinalityType, Numbered \subseteq asked DEF Numbered
<1>. HIDE DEF keys
<1>5. Cardinality(Numbered \cup keys) = Cardinality(Numbered) + Cardinality(keys)
  <2>1. Cardinality(Numbered \cup keys)
          = Cardinality(Numbered) + Cardinality(keys) - Cardinality(Numbered \cap keys)
    BY <1>1, <1>4, FS_Union
  <2>2. Cardinality(Numbered \cap keys) = 0
    BY <1>3, FS_EmptySet
  <2>. QED  BY <1>1, <1>4, <2>1, <2>2
<1>6. IsFiniteSet(asked')
  BY <1>1, FS_Union DEF keys
<1>7. Cardinality(Numbered)' = Cardinality(Numbered')
  OBVIOUS
<1>. QED  BY <1>1, <1>2, <1>4, <1>5, <1>6, <1>7

-----------------------------------------------------------------------------
(* The invariant.                                                          *)

\* The ids that GUChord has given out, if they have not wrapped around.
Spent == Cardinality(Numbered) + idsElsewhere
Given == Last(chordId, Spent)

\* Every outstanding id was given to a ping that has no other, and a datagram that
\* carries an outstanding id belongs to its ping.
Match(d) ==
    /\ d.id \in Given
    /\ d.id \in DOMAIN chordTracker => KeyAt(d.id) = Key(d.peer, d.text)
IdsSound ==
    /\ DOMAIN chordTracker \subseteq Given
    /\ \A i \in DOMAIN chordTracker :
         /\ KeyAt(i) \in asked
         /\ \A j \in DOMAIN chordTracker : KeyAt(j) = KeyAt(i) => j = i
    /\ \A d \in net : d.layer = "CHORD" => Match(d)

FatesSound ==
    /\ \A k \in Ping \ asked : successes[k] = 0 /\ failures[k] = 0
    /\ running => \A k \in asked :
         successes[k] + failures[k] = IF Chord!Tracked(k) THEN 0 ELSE 1
    /\ ~running => DOMAIN chordTracker = {}

VerdictInv ==
    /\ IsFiniteSet(asked)
    /\ NoWrap => IdsSound /\ FatesSound

LEMMA TrackedIs ==
    \A k \in Ping : Chord!Tracked(k) <=> \E i \in DOMAIN chordTracker : KeyAt(i) = k
BY DEF Chord!Tracked, Chord!Outstanding, KeyAt, Key, Ping

LEMMA TrackedIsNext ==
    \A k \in Ping : Chord!Tracked(k)' <=> \E i \in DOMAIN chordTracker' : KeyAt(i)' = k
BY DEF Chord!Tracked, Chord!Outstanding, KeyAt, Key, Ping

LEMMA VerdictInit == Init => VerdictInv
<1>. SUFFICES ASSUME Init PROVE VerdictInv
  OBVIOUS
<1>1. IsFiniteSet(asked)
  BY FS_EmptySet DEF Init
<1>2. DOMAIN chordTracker = {} /\ net = {} /\ asked = {} /\ running
  BY DEF Init, Chord!Init, Chord!Nothing
<1>3. \A k \in Ping : successes[k] = 0 /\ failures[k] = 0
  BY DEF Init
<1>. QED  BY <1>1, <1>2, <1>3 DEF VerdictInv, IdsSound, FatesSound

\* A step of the search layer, the network or time that tells the chord layer nothing.
Quiet ==
    /\ UNCHANGED <<chordId, running, asked, idsElsewhere, callbacks>>
    /\ DOMAIN chordTracker' = DOMAIN chordTracker
    /\ \A i \in DOMAIN chordTracker : KeyAt(i)' = KeyAt(i)
    /\ \A d \in net' : d.layer = "CHORD" =>
         \E e \in net : e.layer = "CHORD" /\ e.id = d.id /\ e.peer = d.peer /\ e.text = d.text

LEMMA QuietStep ==
    ASSUME PingInv, VerdictInv, Quiet
    PROVE  VerdictInv'
<1>1. Given' = Given /\ NoWrap' = NoWrap
  BY DEF Quiet, Given, Spent, NoWrap, Numbered
<1>2. \A k \in Ping : Chord!Tracked(k)' <=> Chord!Tracked(k)
  BY TrackedIs, TrackedIsNext DEF Quiet
<1>3. IdsSound => IdsSound'
  <2>. SUFFICES ASSUME IdsSound PROVE IdsSound'
    OBVIOUS
  <2>1. DOMAIN chordTracker' \subseteq Given'
    BY <1>1 DEF Quiet, IdsSound
  <2>2. ASSUME NEW i \in DOMAIN chordTracker'
        PROVE  /\ KeyAt(i)' \in asked'
               /\ \A j \in DOMAIN chordTracker' : KeyAt(j)' = KeyAt(i)' => j = i
    BY DEF Quiet, IdsSound
  <2>3. ASSUME NEW d \in net', d.layer = "CHORD" PROVE Match(d)'
    <3>1. PICK e \in net : e.layer = "CHORD" /\ e.id = d.id /\ e.peer = d.peer /\ e.text = d.text
      BY <2>3 DEF Quiet
    <3>2. Match(e)
      BY <3>1 DEF IdsSound
    <3>. QED  BY <1>1, <3>1, <3>2 DEF Quiet, Match
  <2>. QED  BY <2>1, <2>2, <2>3 DEF IdsSound
<1>4. FatesSound => FatesSound'
  BY <1>2 DEF Quiet, FatesSound, callbacks, PingInv
<1>. QED  BY <1>1, <1>3, <1>4 DEF VerdictInv, Quiet

\* What a command does to the chord layer while ids last: each ping has an entry of its
\* own, under an id that nothing outstanding and nothing in flight has.
LEMMA SendTracks ==
    ASSUME PingInv, VerdictInv, NEW S \in SUBSET Peer, NEW t \in Text, SendPing(S, t), NoWrap'
    PROVE  /\ NoWrap /\ Given \subseteq Given'
           /\ \A p \in S :
                LET i == Chord!IdOf(p, S)
                IN  /\ i \in Given' \ Given
                    /\ i \in DOMAIN chordTracker'
                    /\ chordTracker'[i] = [peer |-> p, text |-> t, age |-> 0]
           /\ \A p, q \in S : Chord!IdOf(p, S) = Chord!IdOf(q, S) => p = q
           /\ DOMAIN chordTracker' = DOMAIN chordTracker \cup {Chord!IdOf(p, S) : p \in S}
           /\ \A i \in DOMAIN chordTracker : chordTracker'[i] = chordTracker[i]
<1>1. /\ chordId \in 0 .. IdMod - 1 /\ asked \subseteq Ping /\ IsFiniteSet(asked)
      /\ Cardinality(S) \in Nat
  BY PlacesDiffer DEF PingInv, VerdictInv
<1>2. Spent \in Nat /\ Spent' = Spent + Cardinality(S)
  <2>1. /\ Cardinality(Numbered) \in Nat
        /\ Cardinality(Numbered)' = Cardinality(Numbered) + Cardinality(S)
    BY <1>1, CommandCounts DEF SendPing
  <2>. QED  BY <1>1, <2>1 DEF Spent, SendPing, PingInv
<1>3. Spent + Cardinality(S) <= IdMod /\ NoWrap
  BY <1>1, <1>2, IdModAssumption DEF NoWrap, Spent
<1>4. DOMAIN chordTracker \subseteq Given
  BY <1>3 DEF VerdictInv, IdsSound
<1>5. \A p \in S : Chord!IdOf(p, S) = (chordId + Place(p, S)) % IdMod
  BY SameCount DEF Chord!IdOf, Place
<1>6. chordId' = (chordId + Cardinality(S)) % IdMod
  BY SameCount DEF SendPing, Chord!Send
<1>7. Given' = Last((chordId + Cardinality(S)) % IdMod, Spent + Cardinality(S))
  BY <1>2, <1>6 DEF Given, Last, Back
<1>8. /\ Given \subseteq Given'
      /\ \A p \in S : Chord!IdOf(p, S) \in Given' \ Given
      /\ \A p, q \in S : Chord!IdOf(p, S) = Chord!IdOf(q, S) => p = q
  BY <1>1, <1>2, <1>3, <1>5, <1>7, IdsAreFresh DEF Given
<1>9. chordTracker' =
         [i \in DOMAIN chordTracker \cup {Chord!IdOf(p, S) : p \in S} |->
            IF i \in DOMAIN chordTracker THEN chordTracker[i]
            ELSE [peer |-> CHOOSE p \in S : Chord!IdOf(p, S) = i, text |-> t, age |-> 0]]
  BY DEF SendPing, Chord!Send, Chord!Outstanding
<1>10. ASSUME NEW p \in S PROVE (CHOOSE q \in S : Chord!IdOf(q, S) = Chord!IdOf(p, S)) = p
  BY <1>8
<1>11. ASSUME NEW p \in S
       PROVE  chordTracker'[Chord!IdOf(p, S)] = [peer |-> p, text |-> t, age |-> 0]
  BY <1>4, <1>8, <1>9, <1>10
<1>. QED  BY <1>3, <1>8, <1>9, <1>11

LEMMA SendStep ==
    ASSUME PingInv, VerdictInv, NEW S \in SUBSET Peer, NEW t \in Text, SendPing(S, t)
    PROVE  VerdictInv'
<1>. DEFINE keys == {Key(p, t) : p \in S}
            id(p) == Chord!IdOf(p, S)
<1>1. /\ asked \subseteq Ping /\ IsFiniteSet(asked) /\ asked' = asked \cup keys
      /\ keys \cap asked = {} /\ running /\ running' /\ UNCHANGED callbacks
      /\ net' = net \cup {Request("CHORD", id(p), p, t) : p \in S}
  BY DEF SendPing, PingInv, VerdictInv
<1>2. IsFiniteSet(asked')
  BY <1>1, CommandCounts
<1>3. SUFFICES ASSUME NoWrap' PROVE IdsSound' /\ FatesSound'
  BY <1>2 DEF VerdictInv
<1>4. /\ NoWrap /\ Given \subseteq Given'
      /\ \A p \in S : /\ id(p) \in Given' /\ id(p) \notin Given /\ id(p) \in DOMAIN chordTracker'
                      /\ chordTracker'[id(p)] = [peer |-> p, text |-> t, age |-> 0]
      /\ \A p, q \in S : id(p) = id(q) => p = q
      /\ DOMAIN chordTracker' = DOMAIN chordTracker \cup {id(p) : p \in S}
      /\ \A i \in DOMAIN chordTracker : chordTracker'[i] = chordTracker[i]
  BY <1>3, SendTracks
<1>5. IdsSound /\ FatesSound
  BY <1>4 DEF VerdictInv
<1>. HIDE DEF id
<1>6. ASSUME NEW i \in DOMAIN chordTracker'
      PROVE  \/ i \in DOMAIN chordTracker /\ i \in Given /\ KeyAt(i)' = KeyAt(i) /\ KeyAt(i) \in asked
             \/ \E p \in S : i = id(p) /\ i \notin Given /\ KeyAt(i)' = Key(p, t)
  <2>1. CASE i \in DOMAIN chordTracker
    BY <1>4, <1>5, <2>1 DEF IdsSound, KeyAt
  <2>2. ASSUME NEW p \in S, i = id(p) PROVE i \notin Given /\ KeyAt(i)' = Key(p, t)
    <3>1. i \notin Given /\ chordTracker'[i] = [peer |-> p, text |-> t, age |-> 0]
      BY <1>4, <2>2
    <3>. QED  BY <3>1 DEF KeyAt, Key
  <2>. QED  BY <1>4, <2>1, <2>2
<1>7. ASSUME NEW p \in S
      PROVE  \E i \in DOMAIN chordTracker' : i = id(p) /\ KeyAt(i)' = Key(p, t)
  <2>1. PICK i \in DOMAIN chordTracker' : i = id(p)
    BY <1>4
  <2>2. chordTracker'[i] = [peer |-> p, text |-> t, age |-> 0]
    BY <1>4, <2>1
  <2>3. KeyAt(i)' = Key(p, t)
    BY <2>2 DEF KeyAt, Key
  <2>. QED  BY <2>1, <2>3
<1>8. \A p, q \in S : Key(p, t) = Key(q, t) => p = q
  BY DEF Key
<1>9. \A p \in S : Key(p, t) \in keys /\ Key(p, t) \notin asked /\ Key(p, t) \in asked'
  BY <1>1
<1>10. IdsSound'
  <2>1. DOMAIN chordTracker' \subseteq Given'
    BY <1>4, <1>5 DEF IdsSound
  <2>2. ASSUME NEW i \in DOMAIN chordTracker' PROVE KeyAt(i)' \in asked'
    BY <1>1, <1>6, <1>9
  <2>3. ASSUME NEW i \in DOMAIN chordTracker', NEW j \in DOMAIN chordTracker', KeyAt(j)' = KeyAt(i)'
        PROVE  j = i
    <3>1. CASE i \in Given /\ j \in Given
      BY <1>5, <1>6, <2>3, <3>1 DEF IdsSound
    <3>2. CASE ~(i \in Given /\ j \in Given)
      BY <1>6, <1>8, <1>9, <2>3, <3>2
    <3>. QED  BY <3>1, <3>2
  <2>4. ASSUME NEW d \in net', d.layer = "CHORD" PROVE Match(d)'
    <3>1. CASE d \in net
      <4>1. Match(d)
        BY <1>5, <2>4, <3>1 DEF IdsSound
      <4>. QED  BY <1>4, <1>6, <4>1 DEF Match
    <3>2. ASSUME NEW p \in S, d = Request("CHORD", id(p), p, t) PROVE Match(d)'
      <4>1. d.id = id(p) /\ d.peer = p /\ d.text = t
        BY <3>2 DEF Request
      <4>2. d.id \in Given' /\ d.id \notin Given
        BY <1>4, <4>1
      <4>3. d.id \in DOMAIN chordTracker' => KeyAt(d.id)' = Key(d.peer, d.text)
        <5>1. chordTracker'[d.id] = [peer |-> d.peer, text |-> d.text, age |-> 0]
          BY <1>4, <4>1
        <5>. QED  BY <5>1 DEF KeyAt, Key
      <4>. QED  BY <4>2, <4>3 DEF Match
    <3>. QED  BY <1>1, <3>1, <3>2
  <2>. QED  BY <2>1, <2>2, <2>3, <2>4 DEF IdsSound
<1>11. FatesSound'
  <2>1. ASSUME NEW k \in asked'
        PROVE  (successes[k] + failures[k])' = IF Chord!Tracked(k)' THEN 0 ELSE 1
    <3>1. k \in Ping /\ successes'[k] = successes[k] /\ failures'[k] = failures[k]
      BY <1>1 DEF callbacks, Key, Ping
    <3>2. CASE k \in asked
      <4>1. Chord!Tracked(k)' <=> Chord!Tracked(k)
        <5>1. ASSUME NEW i \in DOMAIN chordTracker', KeyAt(i)' = k
              PROVE  i \in DOMAIN chordTracker /\ KeyAt(i) = k
          BY <1>6, <1>9, <3>2, <5>1
        <5>2. ASSUME NEW i \in DOMAIN chordTracker, KeyAt(i) = k
              PROVE  i \in DOMAIN chordTracker' /\ KeyAt(i)' = k
          BY <1>4, <5>2 DEF KeyAt
        <5>. QED  BY <3>1, <5>1, <5>2, TrackedIs, TrackedIsNext
      <4>. QED  BY <1>1, <1>5, <3>1, <3>2, <4>1 DEF FatesSound
    <3>3. CASE k \in keys
      <4>1. Chord!Tracked(k)'
        BY <1>7, <3>1, <3>3, TrackedIsNext
      <4>2. successes[k] = 0 /\ failures[k] = 0
        BY <1>1, <1>5, <3>1, <3>3 DEF FatesSound
      <4>. QED  BY <3>1, <4>1, <4>2
    <3>. QED  BY <1>1, <3>2, <3>3
  <2>2. \A k \in Ping \ asked' : successes'[k] = 0 /\ failures'[k] = 0
    BY <1>1, <1>5 DEF FatesSound, callbacks
  <2>. QED  BY <1>1, <2>1, <2>2 DEF FatesSound
<1>. QED  BY <1>10, <1>11

\* A name without an address takes no id and fails at once.
LEMMA NowhereStep ==
    ASSUME PingInv, VerdictInv, NEW t \in Text, SendPingNowhere(t)
    PROVE  VerdictInv'
<1>. DEFINE u == Key(Nowhere, t)
<1>1. /\ u \in Ping \ asked /\ asked' = asked \cup {u} /\ IsFiniteSet(asked)
      /\ failures' = [failures EXCEPT ![u] = @ + 1] /\ successes' = successes
      /\ UNCHANGED <<chordTracker, chordId, running, idsElsewhere, net>>
      /\ failures \in [Ping -> Nat] /\ successes \in [Ping -> Nat]
  BY DEF SendPingNowhere, chordVars, Key, Ping, PingInv, VerdictInv
<1>2. IsFiniteSet(asked')
  BY <1>1, FS_AddElement
<1>3. Numbered' = Numbered
  BY <1>1, NowhereAssumption DEF Numbered, Key
<1>4. Given' = Given /\ NoWrap' = NoWrap
  BY <1>1, <1>3 DEF Given, Spent, NoWrap
<1>5. SUFFICES ASSUME IdsSound, FatesSound PROVE IdsSound' /\ FatesSound'
  BY <1>2, <1>4 DEF VerdictInv
<1>6. \A i : KeyAt(i)' = KeyAt(i)
  BY <1>1 DEF KeyAt
<1>7. \A k \in Ping : Chord!Tracked(k)' <=> Chord!Tracked(k)
  BY <1>1, <1>6, TrackedIs, TrackedIsNext
<1>8. ~Chord!Tracked(u)
  BY <1>1, <1>5, TrackedIs DEF IdsSound
<1>9. successes'[u] + failures'[u] = 1
  BY <1>1, <1>5 DEF FatesSound
<1>10. \A k \in Ping : k # u => successes'[k] = successes[k] /\ failures'[k] = failures[k]
  BY <1>1
<1>11. IdsSound'
  BY <1>1, <1>4, <1>5, <1>6 DEF IdsSound, Match
<1>12. FatesSound'
  <2>1. \A k \in Ping \ asked' : successes'[k] = 0 /\ failures'[k] = 0
    BY <1>1, <1>5, <1>10 DEF FatesSound
  <2>2. ASSUME running, NEW k \in asked'
        PROVE  successes'[k] + failures'[k] = IF Chord!Tracked(k)' THEN 0 ELSE 1
    <3>1. CASE k = u
      BY <1>1, <1>7, <1>8, <1>9, <3>1
    <3>2. CASE k # u
      <4>1. k \in asked /\ k \in Ping
        BY <1>1, <3>2 DEF PingInv
      <4>. QED  BY <1>5, <1>7, <1>10, <2>2, <3>2, <4>1 DEF FatesSound
    <3>. QED  BY <3>1, <3>2
  <2>. QED  BY <1>1, <1>5, <2>1, <2>2 DEF FatesSound
<1>. QED  BY <1>11, <1>12

\* The answer that finds its id outstanding ends the ping that has the id.
LEMMA ChordAnswerStep ==
    ASSUME PingInv, VerdictInv, NEW d \in net, ChordPingRsp(d)
    PROVE  VerdictInv'
<1>. DEFINE u == Key(d.peer, d.text)
<1>1. /\ running /\ d.layer = "CHORD" /\ d.id \in DOMAIN chordTracker
      /\ DOMAIN chordTracker' = DOMAIN chordTracker \ {d.id}
      /\ \A i \in DOMAIN chordTracker' : chordTracker'[i] = chordTracker[i]
      /\ UNCHANGED <<chordId, running, asked, idsElsewhere, failures>>
      /\ successes' = [successes EXCEPT ![u] = @ + 1]
      /\ \A e \in net' : e.layer = "CHORD" => e \in net
  BY DEF ChordPingRsp, Chord!Answered, Chord!Without, Chord!Outstanding, Request
<1>2. Given' = Given /\ NoWrap' = NoWrap
  BY <1>1 DEF Given, Spent, NoWrap, Numbered
<1>3. SUFFICES ASSUME IdsSound, FatesSound PROVE IdsSound' /\ FatesSound'
  BY <1>1, <1>2 DEF VerdictInv
<1>4. \A i \in DOMAIN chordTracker' : KeyAt(i)' = KeyAt(i) /\ i \in DOMAIN chordTracker
  BY <1>1 DEF KeyAt
<1>5. IdsSound'
  <2>1. ASSUME NEW e \in net', e.layer = "CHORD" PROVE Match(e)'
    <3>1. Match(e)
      BY <1>1, <1>3, <2>1 DEF IdsSound
    <3>. QED  BY <1>2, <1>4, <3>1 DEF Match
  <2>. QED  BY <1>1, <1>2, <1>3, <1>4, <2>1 DEF IdsSound
<1>6. KeyAt(d.id) = u /\ u \in asked /\ u \in Ping
  BY <1>1, <1>3 DEF IdsSound, Match, PingInv
<1>7. FatesSound'
  <2>1. ASSUME NEW k \in asked
        PROVE  successes'[k] + failures'[k] = IF Chord!Tracked(k)' THEN 0 ELSE 1
    <3>1. /\ k \in Ping /\ successes[k] \in Nat /\ failures[k] \in Nat
          /\ successes[k] + failures[k] = IF Chord!Tracked(k) THEN 0 ELSE 1
      BY <1>1, <1>3 DEF FatesSound, PingInv
    <3>2. CASE k = u
      <4>1. Chord!Tracked(k)
        BY <1>1, <1>6, <3>1, <3>2, TrackedIs
      <4>2. ~Chord!Tracked(k)'
        BY <1>1, <1>3, <1>4, <1>6, <3>1, <3>2, TrackedIsNext DEF IdsSound
      <4>3. successes'[k] = successes[k] + 1 /\ failures'[k] = failures[k]
        BY <1>1, <3>1, <3>2 DEF PingInv
      <4>. QED  BY <3>1, <4>1, <4>2, <4>3
    <3>3. CASE k # u
      <4>1. Chord!Tracked(k)' <=> Chord!Tracked(k)
        <5>1. ASSUME NEW i \in DOMAIN chordTracker, KeyAt(i) = k
              PROVE  i \in DOMAIN chordTracker' /\ KeyAt(i)' = k
          BY <1>1, <1>4, <1>6, <3>3, <5>1
        <5>. QED  BY <1>4, <3>1, <5>1, TrackedIs, TrackedIsNext
      <4>2. successes'[k] = successes[k] /\ failures'[k] = failures[k]
        BY <1>1, <3>1, <3>3 DEF PingInv
      <4>. QED  BY <3>1, <4>1, <4>2
    <3>. QED  BY <3>2, <3>3
  <2>2. \A k \in Ping \ asked : successes'[k] = 0 /\ failures'[k] = 0
    BY <1>1, <1>3, <1>6 DEF FatesSound, PingInv
  <2>. QED  BY <1>1, <2>1, <2>2 DEF FatesSound
<1>. QED  BY <1>5, <1>7

\* The audit reports each ping whose entry it removes, and there is only one entry for it.
LEMMA ChordAuditStep ==
    ASSUME PingInv, VerdictInv, ChordAuditPings
    PROVE  VerdictInv'
<1>. DEFINE Gone(k) == {i \in Chord!Expired : KeyAt(i) = k}
<1>1. /\ running /\ UNCHANGED <<chordId, running, net, asked, idsElsewhere, successes>>
      /\ DOMAIN chordTracker' = DOMAIN chordTracker \ Chord!Expired
      /\ \A i \in DOMAIN chordTracker' : chordTracker'[i] = chordTracker[i]
      /\ Chord!Expired \subseteq DOMAIN chordTracker
      /\ failures' = [k \in Ping |-> failures[k] + Cardinality(Gone(k))]
      /\ failures \in [Ping -> Nat] /\ successes \in [Ping -> Nat] /\ asked \subseteq Ping
  BY DEF ChordAuditPings, Chord!AuditPings, Chord!Without, Chord!Outstanding, Chord!Expired,
         KeyAt, PingInv
<1>2. Given' = Given /\ NoWrap' = NoWrap
  BY <1>1 DEF Given, Spent, NoWrap, Numbered
<1>3. SUFFICES ASSUME IdsSound, FatesSound PROVE IdsSound' /\ FatesSound'
  BY <1>1, <1>2 DEF VerdictInv
<1>4. \A i \in DOMAIN chordTracker' : KeyAt(i)' = KeyAt(i) /\ i \in DOMAIN chordTracker
  BY <1>1 DEF KeyAt
<1>5. IdsSound'
  BY <1>1, <1>2, <1>3, <1>4 DEF IdsSound, Match
<1>6. ASSUME NEW k \in Ping, Gone(k) = {}
      PROVE  failures'[k] = failures[k] /\ (Chord!Tracked(k)' <=> Chord!Tracked(k))
  <2>1. Cardinality(Gone(k)) = 0
    BY <1>6, FS_EmptySet
  <2>2. failures'[k] = failures[k]
    BY <1>1, <2>1
  <2>3. ASSUME NEW i \in DOMAIN chordTracker, KeyAt(i) = k
        PROVE  i \in DOMAIN chordTracker' /\ KeyAt(i)' = k
    BY <1>1, <1>4, <1>6, <2>3
  <2>. QED  BY <1>4, <2>2, <2>3, TrackedIs, TrackedIsNext
<1>7. ASSUME NEW k \in Ping, Gone(k) # {}
      PROVE  k \in asked /\ Chord!Tracked(k) /\ ~Chord!Tracked(k)' /\ failures'[k] = failures[k] + 1
  <2>1. PICK i \in Chord!Expired : KeyAt(i) = k
    BY <1>7
  <2>2. \A j \in DOMAIN chordTracker : KeyAt(j) = k => j = i
    BY <1>1, <1>3, <2>1 DEF IdsSound
  <2>3. Gone(k) = {i}
    BY <1>1, <2>1, <2>2
  <2>4. Cardinality(Gone(k)) = 1
    BY <2>3, FS_Singleton
  <2>5. Chord!Tracked(k) /\ ~Chord!Tracked(k)'
    BY <1>1, <1>4, <2>1, <2>2, TrackedIs, TrackedIsNext
  <2>. QED  BY <1>1, <1>3, <2>1, <2>4, <2>5 DEF IdsSound
<1>. HIDE DEF Gone
<1>8. FatesSound'
  <2>1. ASSUME NEW k \in asked
        PROVE  successes'[k] + failures'[k] = IF Chord!Tracked(k)' THEN 0 ELSE 1
    <3>1. /\ k \in Ping /\ successes[k] \in Nat /\ failures[k] \in Nat /\ successes'[k] = successes[k]
          /\ successes[k] + failures[k] = IF Chord!Tracked(k) THEN 0 ELSE 1
      BY <1>1, <1>3 DEF FatesSound
    <3>. QED  BY <1>6, <1>7, <3>1
  <2>2. \A k \in Ping \ asked : successes'[k] = 0 /\ failures'[k] = 0
    BY <1>1, <1>3, <1>6, <1>7 DEF FatesSound
  <2>. QED  BY <1>1, <2>1, <2>2 DEF FatesSound
<1>. QED  BY <1>5, <1>8

LEMMA StopStep ==
    ASSUME PingInv, VerdictInv, StopApplication
    PROVE  VerdictInv'
<1>1. /\ ~running' /\ DOMAIN chordTracker' = {}
      /\ UNCHANGED <<chordId, net, asked, idsElsewhere, successes, failures>>
  BY DEF StopApplication, Chord!Clear, Chord!Nothing, callbacks
<1>2. Given' = Given /\ NoWrap' = NoWrap
  BY <1>1 DEF Given, Spent, NoWrap, Numbered
<1>3. IdsSound => IdsSound'
  BY <1>1, <1>2 DEF IdsSound, Match
<1>4. FatesSound => FatesSound'
  BY <1>1 DEF FatesSound
<1>. QED  BY <1>1, <1>2, <1>3, <1>4 DEF VerdictInv

\* An id taken for a message of the ring is lost to the pings, and that is all.
LEMMA RingIdStep ==
    ASSUME PingInv, VerdictInv, RingTakesId
    PROVE  VerdictInv'
<1>1. /\ chordId' = (chordId + 1) % IdMod /\ idsElsewhere' = idsElsewhere + 1
      /\ UNCHANGED <<chordTracker, running, net, asked, successes, failures>>
      /\ chordId \in 0 .. IdMod - 1 /\ idsElsewhere \in Nat /\ IsFiniteSet(asked)
  BY DEF RingTakesId, Chord!TakeId, callbacks, PingInv, VerdictInv
<1>2. Spent \in Nat /\ Spent' = Spent + 1
  <2>1. Cardinality(Numbered) \in Nat
    BY <1>1, FS_Subset, FS_CardinalityType, Numbered \subseteq asked DEF Numbered
  <2>2. Numbered' = Numbered
    BY <1>1 DEF Numbered
  <2>. QED  BY <1>1, <2>1, <2>2 DEF Spent
<1>3. NoWrap <=> Spent <= IdMod
  BY DEF NoWrap, Spent
<1>4. NoWrap' <=> Spent' <= IdMod
  BY DEF NoWrap, Spent
<1>5. NoWrap' => NoWrap
  BY <1>2, <1>3, <1>4, IdModAssumption
<1>6. SUFFICES ASSUME NoWrap' PROVE IdsSound' /\ FatesSound'
  BY <1>1, <1>5 DEF VerdictInv
<1>7. IdsSound /\ FatesSound
  BY <1>5, <1>6 DEF VerdictInv
<1>8. Given \subseteq Given'
  <2>1. \A j \in 1 .. IdMod - 1 : Back(chordId, j) = Back(chordId', j + 1)
    BY <1>1, BackShift, IdModAssumption
  <2>2. \A j \in 1 .. Spent : j \in 1 .. IdMod - 1 /\ j + 1 \in 1 .. Spent'
    BY <1>2, <1>4, <1>6, IdModAssumption
  <2>3. ASSUME NEW i \in Given PROVE i \in Given'
    <3>1. PICK j \in 1 .. Spent : i = Back(chordId, j)
      BY DEF Given, Last
    <3>2. i = Back(chordId', j + 1) /\ j + 1 \in 1 .. Spent'
      BY <2>1, <2>2, <3>1
    <3>3. Given' = {Back(chordId', k) : k \in 1 .. Spent'}
      BY DEF Given, Last, Back
    <3>. QED  BY <3>2, <3>3
  <2>. QED  BY <2>3
<1>9. \A i : KeyAt(i)' = KeyAt(i)
  BY <1>1 DEF KeyAt
<1>10. \A k \in Ping : Chord!Tracked(k)' <=> Chord!Tracked(k)
  BY <1>1, <1>9, TrackedIs, TrackedIsNext
<1>11. IdsSound'
  BY <1>1, <1>7, <1>8, <1>9 DEF IdsSound, Match
<1>12. FatesSound'
  BY <1>1, <1>7, <1>10 DEF FatesSound, PingInv
<1>. QED  BY <1>11, <1>12

LEMMA VerdictStep ==
    ASSUME PingInv, VerdictInv, [Next]_vars
    PROVE  VerdictInv'
<1>1. CASE \E t \in Text : SendPing(Peer, t) \/ \E p \in Peer : SendPing({p}, t)
  <2>1. PICK S \in SUBSET Peer, t \in Text : SendPing(S, t)
    BY <1>1
  <2>. QED  BY <2>1, SendStep
<1>2. ASSUME NEW d \in net, ProcessPingReq(d) PROVE VerdictInv'
  <2>. DEFINE e == [d EXCEPT !.type = "PING_RSP"]
  <2>1. e.layer = d.layer /\ e.id = d.id /\ e.peer = d.peer /\ e.text = d.text
    BY DEF PingInv, Datagram
  <2>. HIDE DEF e
  <2>2. net' \subseteq net \cup {e}
    BY <1>2 DEF ProcessPingReq, e
  <2>3. UNCHANGED <<chordTracker, chordId, running, asked, idsElsewhere, callbacks>>
    BY <1>2 DEF ProcessPingReq, chordVars
  <2>. QED  BY <2>1, <2>2, <2>3, QuietStep DEF Quiet, KeyAt
<1>3. ASSUME NEW d \in net, SearchPingRsp(d) \/ InvalidPingRsp(d) \/ Lose(d) PROVE VerdictInv'
  <2>1. net' \subseteq net /\ UNCHANGED <<chordTracker, chordId, running, asked, idsElsewhere, callbacks>>
    BY <1>3 DEF SearchPingRsp, InvalidPingRsp, Lose, chordVars
  <2>. QED  BY <2>1, QuietStep DEF Quiet, KeyAt
<1>4. CASE SearchAuditPings \/ UNCHANGED vars
  <2>1. net' \subseteq net /\ UNCHANGED <<chordTracker, chordId, running, asked, idsElsewhere, callbacks>>
    BY <1>4 DEF SearchAuditPings, chordVars, vars, callbacks
  <2>. QED  BY <2>1, QuietStep DEF Quiet, KeyAt
<1>5. CASE Tick
  <2>1. net' \subseteq net /\ UNCHANGED <<chordId, running, asked, idsElsewhere, callbacks>>
    BY <1>5 DEF Tick, Chord!Tick
  <2>2. /\ DOMAIN chordTracker' = DOMAIN chordTracker
        /\ \A i \in DOMAIN chordTracker : chordTracker'[i] = [chordTracker[i] EXCEPT !.age = @ + 1]
    BY <1>5 DEF Tick, Chord!Tick, Chord!Outstanding
  <2>3. ASSUME NEW i \in DOMAIN chordTracker PROVE KeyAt(i)' = KeyAt(i)
    <3>1. chordTracker[i] \in [peer : Peer, text : Text, age : 0 .. 2 * Timeout - 1]
      BY DEF PingInv, Sound
    <3>2. /\ chordTracker'[i].peer = chordTracker[i].peer
          /\ chordTracker'[i].text = chordTracker[i].text
      BY <2>2, <3>1
    <3>. QED  BY <3>2 DEF KeyAt, Key
  <2>. QED  BY <2>1, <2>2, <2>3, QuietStep DEF Quiet
<1>. QED
  BY <1>1, <1>2, <1>3, <1>4, <1>5, NowhereStep, ChordAnswerStep, ChordAuditStep, StopStep,
     RingIdStep
  DEF Next

LEMMA VerdictAlways == Spec => []VerdictInv
BY PingAlways, VerdictInit, VerdictStep, PTL DEF Spec

\* While transaction ids have not wrapped around, each ping of a running node is either
\* tracked or has had exactly one of the callbacks, for every loss and order of datagrams.
THEOREM PingsHaveOneVerdict == Spec => []OneVerdict
<1>1. VerdictInv => OneVerdict
  BY DEF VerdictInv, FatesSound, OneVerdict
<1>. QED  BY <1>1, VerdictAlways, PTL

-----------------------------------------------------------------------------
(* The refinement of PingService.                                          *)

Good == PingInv /\ VerdictInv /\ NoWrap

\* What the caller of the service sees of a ping.
Seen(k) ==
    /\ k \notin asked => StatusOf(k) = "unsent"
    /\ StatusOf(k) = "pending" <=> Chord!Tracked(k)
    /\ ~Chord!Tracked(k) => AgeOf(k) = 0
    /\ \A i \in DOMAIN chordTracker : KeyAt(i) = k => AgeOf(k) = chordTracker[i].age

LEMMA GoodSeen == Good => \A k \in Ping : Seen(k)
<1>. SUFFICES ASSUME Good, NEW k \in Ping PROVE Seen(k)
  OBVIOUS
<1>1. IdsSound /\ FatesSound /\ successes[k] \in Nat /\ failures[k] \in Nat /\ running \in BOOLEAN
  BY DEF Good, VerdictInv, PingInv
<1>2. Chord!Tracked(k) => k \in asked /\ successes[k] + failures[k] = 0
  BY <1>1, TrackedIs DEF IdsSound, FatesSound
<1>3. ASSUME NEW i \in DOMAIN chordTracker, KeyAt(i) = k
      PROVE  Chord!Tracked(k) /\ EntryOf(k) = i
  <2>1. \A j \in DOMAIN chordTracker : KeyAt(j) = k => j = i
    BY <1>1, <1>3 DEF IdsSound
  <2>. QED  BY <1>3, <2>1, TrackedIs DEF EntryOf, Chord!Outstanding
<1>4. k \notin asked => successes[k] = 0 /\ failures[k] = 0
  BY <1>1 DEF FatesSound
<1>. QED  BY <1>1, <1>2, <1>3, <1>4 DEF Seen, StatusOf, AgeOf

LEMMA GoodSeenNext == Good' => \A k \in Ping : Seen(k)'
<1>1. Good => \A k \in Ping : Seen(k)
  BY GoodSeen
<1>2. Good' => (\A k \in Ping : Seen(k))'
  BY <1>1, PTL
<1>. QED  BY <1>2

\* What is seen of a ping stays when its status and its entry do.
LEMMA SameAge ==
    ASSUME Good, Good', NEW k \in Ping, StatusOf(k)' = StatusOf(k),
           \A i \in DOMAIN chordTracker :
              KeyAt(i) = k => i \in DOMAIN chordTracker' /\ chordTracker'[i] = chordTracker[i]
    PROVE  AgeOf(k)' = AgeOf(k)
<1>1. Seen(k) /\ Seen(k)'
  BY GoodSeen, GoodSeenNext
<1>2. CASE Chord!Tracked(k)
  <2>1. PICK i \in DOMAIN chordTracker : KeyAt(i) = k
    BY <1>2, TrackedIs
  <2>2. KeyAt(i)' = k
    BY <2>1 DEF KeyAt, Key
  <2>. QED  BY <1>1, <2>1, <2>2 DEF Seen
<1>3. CASE ~Chord!Tracked(k)
  BY <1>1, <1>3 DEF Seen
<1>. QED  BY <1>2, <1>3

\* Nothing that the caller sees has changed.
LEMMA SameView ==
    ASSUME UNCHANGED <<chordTracker, asked, successes, failures>>
    PROVE  UNCHANGED <<[k \in Ping |-> StatusOf(k)], [k \in Ping |-> AgeOf(k)]>>
BY DEF StatusOf, AgeOf, EntryOf, KeyAt, Chord!Tracked, Chord!Outstanding

\* A command to any number of peers is one step of the service.
LEMMA SendSends ==
    ASSUME Good, Good', NEW S \in SUBSET Peer, NEW t \in Text, SendPing(S, t)
    PROVE  \E K \in SUBSET Ping : Service!Send(K)
<1>. DEFINE keys == {Key(p, t) : p \in S}
<1>1. /\ asked' = asked \cup keys /\ keys \cap asked = {} /\ keys \subseteq Ping
      /\ successes' = successes /\ failures' = failures
      /\ \A k \in Ping : Seen(k) /\ Seen(k)'
  BY GoodSeen, GoodSeenNext DEF SendPing, callbacks, Key, Ping
<1>2. /\ \A p \in S :
           LET i == Chord!IdOf(p, S)
           IN  i \in DOMAIN chordTracker' /\ chordTracker'[i] = [peer |-> p, text |-> t, age |-> 0]
      /\ DOMAIN chordTracker' = DOMAIN chordTracker \cup {Chord!IdOf(p, S) : p \in S}
      /\ \A i \in DOMAIN chordTracker : chordTracker'[i] = chordTracker[i]
  BY SendTracks DEF Good
<1>3. ASSUME NEW k \in keys
      PROVE  /\ StatusOf(k) = "unsent" /\ AgeOf(k) = 0
             /\ StatusOf(k)' = "pending" /\ AgeOf(k)' = 0
  <2>1. k \in Ping /\ k \notin asked
    BY <1>1
  <2>2. StatusOf(k) = "unsent" /\ AgeOf(k) = 0
    BY <1>1, <2>1 DEF Seen
  <2>3. PICK p \in S : k = Key(p, t)
    OBVIOUS
  <2>4. PICK i \in DOMAIN chordTracker' : chordTracker'[i] = [peer |-> p, text |-> t, age |-> 0]
    BY <1>2
  <2>5. KeyAt(i)' = k
    BY <2>3, <2>4 DEF KeyAt, Key
  <2>6. StatusOf(k)' = "pending"
    BY <1>1, <2>1, <2>5, TrackedIsNext DEF Seen
  <2>7. AgeOf(k)' = 0
    BY <1>1, <2>1, <2>4, <2>5 DEF Seen
  <2>. QED  BY <2>2, <2>6, <2>7
<1>4. ASSUME NEW k \in Ping, k \notin keys
      PROVE  StatusOf(k)' = StatusOf(k) /\ AgeOf(k)' = AgeOf(k)
  <2>1. Chord!Tracked(k)' <=> Chord!Tracked(k)
    <3>1. ASSUME NEW i \in DOMAIN chordTracker PROVE i \in DOMAIN chordTracker' /\ KeyAt(i)' = KeyAt(i)
      BY <1>2 DEF KeyAt
    <3>2. ASSUME NEW i \in DOMAIN chordTracker', KeyAt(i)' = k PROVE i \in DOMAIN chordTracker
      <4>1. ASSUME NEW p \in S, i = Chord!IdOf(p, S) PROVE FALSE
        <5>1. chordTracker'[i] = [peer |-> p, text |-> t, age |-> 0]
          BY <1>2, <4>1
        <5>2. KeyAt(i)' = Key(p, t)
          BY <5>1 DEF KeyAt, Key
        <5>. QED  BY <1>4, <3>2, <5>2
      <4>. QED  BY <1>2, <4>1
    <3>. QED  BY <3>1, <3>2, TrackedIs, TrackedIsNext
  <2>2. StatusOf(k)' = StatusOf(k)
    BY <1>1, <1>4, <2>1 DEF StatusOf
  <2>. QED  BY <1>2, <2>2, SameAge
<1>5. Service!Send(keys)
  <2>. HIDE DEF keys
  <2>. QED  BY <1>1, <1>3, <1>4 DEF Service!Send
<1>. QED  BY <1>1, <1>5

LEMMA NowhereRefused ==
    ASSUME Good, Good', NEW t \in Text, SendPingNowhere(t)
    PROVE  \E u \in Ping : Service!Refuse(u)
<1>. DEFINE u == Key(Nowhere, t)
<1>1. /\ u \in Ping \ asked /\ asked' = asked \cup {u} /\ chordTracker' = chordTracker
      /\ failures' = [failures EXCEPT ![u] = @ + 1] /\ successes' = successes
      /\ failures \in [Ping -> Nat]
      /\ \A k \in Ping : Seen(k) /\ Seen(k)'
      /\ successes[u] = 0
  BY GoodSeen, GoodSeenNext
     DEF SendPingNowhere, chordVars, Key, Ping, Good, PingInv, VerdictInv, FatesSound
<1>2. \A k \in Ping : Chord!Tracked(k)' <=> Chord!Tracked(k)
  BY <1>1, TrackedIs, TrackedIsNext DEF KeyAt
<1>3. StatusOf(u) = "unsent" /\ StatusOf(u)' = "failed"
  <2>1. failures'[u] > 0 /\ ~(successes'[u] > 0)
    BY <1>1
  <2>. QED  BY <1>1, <2>1 DEF Seen, StatusOf
<1>4. AgeOf(u) = 0 /\ AgeOf(u)' = 0
  BY <1>1, <1>3 DEF Seen
<1>5. ASSUME NEW k \in Ping, k # u
      PROVE  StatusOf(k)' = StatusOf(k) /\ AgeOf(k)' = AgeOf(k)
  <2>1. StatusOf(k)' = StatusOf(k)
    <3>1. failures'[k] = failures[k] /\ successes'[k] = successes[k] /\ (k \in asked' <=> k \in asked)
      BY <1>1, <1>5
    <3>. QED  BY <1>2, <3>1 DEF StatusOf
  <2>. QED  BY <1>1, <2>1, SameAge
<1>6. Service!Refuse(u)
  <2>. HIDE DEF u
  <2>. QED  BY <1>1, <1>3, <1>4, <1>5 DEF Service!Refuse
<1>. QED  BY <1>1, <1>6

LEMMA AnswerSucceeds ==
    ASSUME Good, Good', NEW d \in net, ChordPingRsp(d)
    PROVE  \E u \in Ping : Service!Succeed(u)
<1>. DEFINE u == Key(d.peer, d.text)
<1>1. /\ d.id \in DOMAIN chordTracker
      /\ DOMAIN chordTracker' = DOMAIN chordTracker \ {d.id}
      /\ \A i \in DOMAIN chordTracker' : chordTracker'[i] = chordTracker[i]
      /\ asked' = asked /\ failures' = failures
      /\ successes' = [successes EXCEPT ![u] = @ + 1] /\ successes \in [Ping -> Nat]
      /\ \A k \in Ping : Seen(k) /\ Seen(k)'
  BY GoodSeen, GoodSeenNext
     DEF ChordPingRsp, Chord!Answered, Chord!Without, Chord!Outstanding, Good, PingInv
<1>2. KeyAt(d.id) = u /\ u \in Ping
  BY <1>1 DEF ChordPingRsp, Good, PingInv, VerdictInv, IdsSound, Match
<1>3. StatusOf(u) = "pending"
  BY <1>1, <1>2, TrackedIs DEF Seen
<1>4. StatusOf(u)' = "succeeded"
  <2>1. successes'[u] > 0
    BY <1>1, <1>2
  <2>. QED  BY <2>1 DEF StatusOf
<1>5. AgeOf(u)' = 0
  BY <1>1, <1>2, <1>4 DEF Seen
<1>6. ASSUME NEW k \in Ping, k # u
      PROVE  StatusOf(k)' = StatusOf(k) /\ AgeOf(k)' = AgeOf(k)
  <2>1. ASSUME NEW i \in DOMAIN chordTracker, KeyAt(i) = k PROVE i \in DOMAIN chordTracker'
    BY <1>1, <1>2, <1>6, <2>1
  <2>2. \A i \in DOMAIN chordTracker' : KeyAt(i)' = KeyAt(i) /\ i \in DOMAIN chordTracker
    BY <1>1 DEF KeyAt
  <2>3. Chord!Tracked(k)' <=> Chord!Tracked(k)
    BY <2>1, <2>2, TrackedIs, TrackedIsNext
  <2>4. StatusOf(k)' = StatusOf(k)
    <3>1. successes'[k] = successes[k]
      BY <1>1, <1>6
    <3>. QED  BY <1>1, <2>3, <3>1 DEF StatusOf
  <2>. QED  BY <1>1, <2>1, <2>4, SameAge
<1>7. Service!Succeed(u)
  <2>. HIDE DEF u
  <2>. QED  BY <1>2, <1>3, <1>4, <1>5, <1>6 DEF Service!Succeed
<1>. QED  BY <1>2, <1>7

LEMMA AuditFails ==
    ASSUME Good, Good', ChordAuditPings
    PROVE  \E K \in SUBSET Ping : Service!Fail(K)
<1>. DEFINE Gone(k) == {i \in Chord!Expired : KeyAt(i) = k}
            K == {k \in Ping : Gone(k) # {}}
<1>1. /\ running /\ asked' = asked /\ successes' = successes
      /\ DOMAIN chordTracker' = DOMAIN chordTracker \ Chord!Expired
      /\ \A i \in DOMAIN chordTracker' : chordTracker'[i] = chordTracker[i]
      /\ \A i \in Chord!Expired : i \in DOMAIN chordTracker /\ chordTracker[i].age >= Timeout
      /\ failures' = [k \in Ping |-> failures[k] + Cardinality(Gone(k))]
      /\ failures \in [Ping -> Nat] /\ successes \in [Ping -> Nat]
      /\ IdsSound /\ FatesSound' /\ running' /\ failures' \in [Ping -> Nat]
  BY DEF ChordAuditPings, Chord!AuditPings, Chord!Without, Chord!Outstanding, Chord!Expired,
         KeyAt, Good, PingInv, VerdictInv
<1>2. \A k \in Ping : Seen(k) /\ Seen(k)'
  BY GoodSeen, GoodSeenNext
<1>3. \A i \in DOMAIN chordTracker' : KeyAt(i)' = KeyAt(i) /\ i \in DOMAIN chordTracker
  BY <1>1 DEF KeyAt
<1>4. ASSUME NEW k \in K
      PROVE  /\ StatusOf(k) = "pending" /\ AgeOf(k) >= Timeout
             /\ StatusOf(k)' = "failed" /\ AgeOf(k)' = 0
  <2>1. PICK i \in Chord!Expired : KeyAt(i) = k
    OBVIOUS
  <2>2. Chord!Tracked(k) /\ k \in asked
    BY <1>1, <2>1, TrackedIs DEF IdsSound
  <2>3. StatusOf(k) = "pending" /\ AgeOf(k) >= Timeout
    BY <1>1, <1>2, <2>1, <2>2 DEF Seen
  <2>4. ~Chord!Tracked(k)'
    BY <1>1, <1>3, <2>1, TrackedIsNext DEF IdsSound
  <2>5. ~(successes[k] > 0)
    BY <2>3 DEF StatusOf
  <2>6. failures'[k] > 0 /\ ~(successes'[k] > 0)
    <3>1. successes'[k] + failures'[k] = 1
      BY <1>1, <2>2, <2>4 DEF FatesSound
    <3>. QED  BY <1>1, <2>5, <3>1
  <2>7. StatusOf(k)' = "failed"
    BY <2>6 DEF StatusOf
  <2>. QED  BY <1>2, <2>3, <2>4, <2>7 DEF Seen
<1>5. ASSUME NEW k \in Ping, k \notin K
      PROVE  StatusOf(k)' = StatusOf(k) /\ AgeOf(k)' = AgeOf(k)
  <2>1. Gone(k) = {}
    BY <1>5
  <2>2. failures'[k] = failures[k]
    <3>1. Cardinality(Gone(k)) = 0
      BY <2>1, FS_EmptySet
    <3>. QED  BY <1>1, <3>1
  <2>3. ASSUME NEW i \in DOMAIN chordTracker, KeyAt(i) = k PROVE i \in DOMAIN chordTracker'
    BY <1>1, <2>1, <2>3
  <2>4. Chord!Tracked(k)' <=> Chord!Tracked(k)
    BY <1>3, <2>3, TrackedIs, TrackedIsNext
  <2>5. StatusOf(k)' = StatusOf(k)
    BY <1>1, <2>2, <2>4 DEF StatusOf
  <2>. QED  BY <1>1, <2>3, <2>5, SameAge
<1>. HIDE DEF Gone
<1>6. K \in SUBSET Ping
  OBVIOUS
<1>7. Service!Fail(K)
  <2>. HIDE DEF K
  <2>. QED  BY <1>4, <1>5, <1>6 DEF Service!Fail
<1>. QED  BY <1>6, <1>7

LEMMA TickWaits ==
    ASSUME Good, Good', Tick
    PROVE  Service!Wait
<1>1. /\ asked' = asked /\ successes' = successes /\ failures' = failures
      /\ DOMAIN chordTracker' = DOMAIN chordTracker /\ chordAudit > 0
      /\ \A i \in DOMAIN chordTracker : chordTracker'[i] = [chordTracker[i] EXCEPT !.age = @ + 1]
      /\ Sound(chordTracker, chordAudit)
  BY DEF Tick, Chord!Tick, Chord!Outstanding, callbacks, Good, PingInv
<1>2. \A k \in Ping : Seen(k) /\ Seen(k)'
  BY GoodSeen, GoodSeenNext
<1>3. ASSUME NEW i \in DOMAIN chordTracker
      PROVE  /\ KeyAt(i)' = KeyAt(i)
             /\ chordTracker'[i].age = chordTracker[i].age + 1
             /\ chordTracker[i].age < 2 * Timeout - 1
  <2>. DEFINE e == chordTracker[i]
  <2>1. /\ e \in [peer : Peer, text : Text, age : 0 .. 2 * Timeout - 1]
        /\ e.age + chordAudit <= 2 * Timeout - 1 /\ chordAudit \in 0 .. Timeout /\ chordAudit > 0
        /\ chordTracker'[i] = [e EXCEPT !.age = @ + 1]
    BY <1>1 DEF Sound
  <2>2. /\ chordTracker'[i].peer = e.peer /\ chordTracker'[i].text = e.text
        /\ chordTracker'[i].age = e.age + 1
    BY <2>1
  <2>3. e.age < 2 * Timeout - 1
    BY <2>1, TimeoutAssumption
  <2>4. KeyAt(i)' = KeyAt(i)
    BY <2>2 DEF KeyAt, Key
  <2>. QED  BY <2>2, <2>3, <2>4
<1>4. ASSUME NEW k \in Ping
      PROVE  /\ StatusOf(k)' = StatusOf(k)
             /\ StatusOf(k) = "pending" => AgeOf(k) < 2 * Timeout - 1 /\ AgeOf(k)' = AgeOf(k) + 1
             /\ StatusOf(k) # "pending" => AgeOf(k)' = AgeOf(k)
  <2>1. Chord!Tracked(k)' <=> Chord!Tracked(k)
    BY <1>1, <1>3, TrackedIs, TrackedIsNext
  <2>2. StatusOf(k)' = StatusOf(k)
    BY <1>1, <2>1 DEF StatusOf
  <2>3. CASE StatusOf(k) = "pending"
    <3>1. PICK i \in DOMAIN chordTracker : KeyAt(i) = k
      BY <1>2, <2>3, TrackedIs DEF Seen
    <3>2. i \in DOMAIN chordTracker' /\ KeyAt(i)' = k
      BY <1>1, <1>3, <3>1
    <3>3. AgeOf(k) = chordTracker[i].age /\ AgeOf(k)' = chordTracker'[i].age
      BY <1>2, <3>1, <3>2 DEF Seen
    <3>. QED  BY <1>3, <2>2, <2>3, <3>3
  <2>4. CASE StatusOf(k) # "pending"
    BY <1>2, <2>1, <2>2, <2>4 DEF Seen
  <2>. QED  BY <2>2, <2>3, <2>4
<1>. QED  BY <1>4 DEF Service!Wait, Service!Pending

LEMMA StopForgets ==
    ASSUME Good, Good', StopApplication
    PROVE  Service!Forget
<1>1. /\ DOMAIN chordTracker' = {} /\ asked' = asked
      /\ successes' = successes /\ failures' = failures
      /\ \A k \in Ping : Seen(k) /\ Seen(k)'
      /\ IdsSound
  BY GoodSeen, GoodSeenNext
     DEF StopApplication, Chord!Clear, Chord!Nothing, callbacks, Good, VerdictInv
<1>2. ASSUME NEW k \in Ping
      PROVE  /\ StatusOf(k) = "pending" => StatusOf(k)' = "forgotten"
             /\ StatusOf(k) # "pending" => StatusOf(k)' = StatusOf(k)
             /\ AgeOf(k)' = 0
  <2>1. ~Chord!Tracked(k)'
    BY <1>1, TrackedIsNext
  <2>2. CASE StatusOf(k) = "pending"
    <3>1. k \in asked /\ ~(successes[k] > 0) /\ ~(failures[k] > 0)
      BY <1>1, <2>2 DEF Seen, StatusOf
    <3>2. StatusOf(k)' = "forgotten"
      BY <1>1, <2>1, <3>1 DEF StatusOf
    <3>. QED  BY <1>1, <2>1, <2>2, <3>2 DEF Seen
  <2>3. CASE StatusOf(k) # "pending"
    <3>1. ~Chord!Tracked(k)
      BY <1>1, <2>3 DEF Seen
    <3>2. StatusOf(k)' = StatusOf(k)
      BY <1>1, <2>1, <3>1 DEF StatusOf
    <3>. QED  BY <1>1, <2>1, <2>3, <3>2 DEF Seen
  <2>. QED  BY <2>2, <2>3
<1>. QED  BY <1>2 DEF Service!Forget, Service!Pending

LEMMA ServiceStep ==
    ASSUME Good, Good', [Next]_vars
    PROVE  [Service!Next]_<<[k \in Ping |-> StatusOf(k)], [k \in Ping |-> AgeOf(k)]>>
<1>. DEFINE Shown == [Service!Next]_<<[k \in Ping |-> StatusOf(k)], [k \in Ping |-> AgeOf(k)]>>
<1>1. CASE \E t \in Text : SendPing(Peer, t) \/ \E p \in Peer : SendPing({p}, t)
  <2>1. PICK S \in SUBSET Peer, t \in Text : SendPing(S, t)
    BY <1>1
  <2>. QED  BY <2>1, SendSends DEF Service!Next
<1>2. CASE \E t \in Text : SendPingNowhere(t)
  BY <1>2, NowhereRefused DEF Service!Next
<1>3. ASSUME NEW d \in net, ProcessPingReq(d) \/ SearchPingRsp(d) \/ InvalidPingRsp(d) \/ Lose(d)
      PROVE  Shown
  <2>1. UNCHANGED <<chordTracker, asked, successes, failures>>
    BY <1>3 DEF ProcessPingReq, SearchPingRsp, InvalidPingRsp, Lose, chordVars, callbacks
  <2>. QED  BY <2>1, SameView
<1>4. ASSUME NEW d \in net, ChordPingRsp(d) PROVE Shown
  BY <1>4, AnswerSucceeds DEF Service!Next
<1>5. CASE ChordAuditPings
  BY <1>5, AuditFails DEF Service!Next
<1>6. CASE SearchAuditPings \/ RingTakesId \/ UNCHANGED vars
  <2>1. UNCHANGED <<chordTracker, asked, successes, failures>>
    BY <1>6 DEF SearchAuditPings, RingTakesId, Chord!TakeId, chordVars, callbacks, vars
  <2>. QED  BY <2>1, SameView
<1>7. CASE Tick
  BY <1>7, TickWaits DEF Service!Next
<1>8. CASE StopApplication
  BY <1>8, StopForgets DEF Service!Next
<1>. QED  BY <1>1, <1>2, <1>3, <1>4, <1>5, <1>6, <1>7, <1>8 DEF Next

\* As long as transaction ids do not wrap around, the ping facility with its two layers,
\* ids, datagrams, trackers and timers implements PingService.
THEOREM PingsImplementService == Spec /\ []NoWrap => ServiceSpec
<1>1. Init => Service!Init
  <2>. SUFFICES ASSUME Init PROVE Service!Init
    OBVIOUS
  <2>1. \A k \in Ping : ~Chord!Tracked(k)
    BY DEF Init, Chord!Init, Chord!Nothing, Chord!Tracked, Chord!Outstanding
  <2>2. \A k \in Ping : StatusOf(k) = "unsent" /\ AgeOf(k) = 0
    BY <2>1 DEF Init, StatusOf, AgeOf
  <2>. QED  BY <2>2 DEF Service!Init
<1>2. Good /\ Good' /\ [Next]_vars =>
        [Service!Next]_<<[k \in Ping |-> StatusOf(k)], [k \in Ping |-> AgeOf(k)]>>
  BY ServiceStep
<1>3. Spec /\ []NoWrap => []Good
  BY PingAlways, VerdictAlways, PTL DEF Good
<1>. QED  BY <1>1, <1>2, <1>3, PTL DEF Spec, ServiceSpec, Service!Spec

=============================================================================
