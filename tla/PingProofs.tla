----------------------------- MODULE PingProofs -----------------------------
(***************************************************************************)
(* Proofs about PingLayers, for every Peer, Text, Timeout and IdMod that   *)
(* its assumptions allow: the types, the bound on the age of an entry in   *)
(* either tracker, and the order in which the two layers ping a peer.      *)
(***************************************************************************)
EXTENDS PingLayers, FiniteSetTheorems, TLAPS

\* What holds of the tracker tr of a layer whose audit timer has au left.
Sound(tr, au) ==
    /\ DOMAIN tr \subseteq 0 .. IdMod - 1
    /\ \A i \in DOMAIN tr :
         /\ tr[i] \in [peer : Peer, text : Text, age : 0 .. 2 * Timeout - 1]
         /\ tr[i].age + au <= 2 * Timeout - 1
    /\ au \in 0 .. Timeout

\* Sending adds fresh entries of the peers and text of the command.
LEMMA SendSound ==
    ASSUME NEW tr, NEW au, Sound(tr, au), NEW S \in SUBSET Peer, NEW t \in Text,
           NEW new, DOMAIN new \subseteq 0 .. IdMod - 1,
           \A i \in DOMAIN new : \/ i \in DOMAIN tr /\ new[i] = tr[i]
                                \/ \E p \in S : new[i] = [peer |-> p, text |-> t, age |-> 0]
    PROVE  Sound(new, au)
<1>1. ASSUME NEW p \in S
      PROVE  LET r == [peer |-> p, text |-> t, age |-> 0]
             IN  /\ r \in [peer : Peer, text : Text, age : 0 .. 2 * Timeout - 1]
                 /\ r.age + au <= 2 * Timeout - 1
  BY TimeoutAssumption DEF Sound
<1>2. QED
  BY <1>1 DEF Sound

\* Entries may go at any time.
LEMMA WithoutSound ==
    ASSUME NEW tr, NEW au, Sound(tr, au), NEW ids
    PROVE  Sound([i \in DOMAIN tr \ ids |-> tr[i]], au)
BY DEF Sound

\* What an audit spares is younger than Timeout when the timer starts again.
LEMMA AuditSound ==
    ASSUME NEW tr, NEW au, Sound(tr, au)
    PROVE  Sound([i \in DOMAIN tr \ {j \in DOMAIN tr : tr[j].age >= Timeout} |-> tr[i]],
                 Timeout)
BY TimeoutAssumption DEF Sound

\* A tick makes every entry older by what it takes from the timer.
LEMMA TickSound ==
    ASSUME NEW tr, NEW au, Sound(tr, au), au > 0
    PROVE  Sound([i \in DOMAIN tr |-> [tr[i] EXCEPT !.age = @ + 1]], au - 1)
<1>1. au - 1 \in 0 .. Timeout
  BY TimeoutAssumption DEF Sound
<1>2. ASSUME NEW i \in DOMAIN tr
      PROVE  /\ [tr[i] EXCEPT !.age = @ + 1]
                  \in [peer : Peer, text : Text, age : 0 .. 2 * Timeout - 1]
             /\ [tr[i] EXCEPT !.age = @ + 1].age + (au - 1) <= 2 * Timeout - 1
  BY TimeoutAssumption DEF Sound
<1>3. QED
  BY <1>1, <1>2 DEF Sound

\* Ids stay below IdMod.
LEMMA IdsInRange ==
    ASSUME NEW c \in 0 .. IdMod - 1, NEW S \in SUBSET Peer
    PROVE  /\ (c + Cardinality(S)) % IdMod \in 0 .. IdMod - 1
           /\ \A p \in S : (c + Cardinality({q \in S : q < p})) % IdMod \in 0 .. IdMod - 1
<1>1. ASSUME NEW n \in Nat PROVE (c + n) % IdMod \in 0 .. IdMod - 1
  BY IdModAssumption
<1>2. IsFiniteSet(S)
  BY PeerAssumption, FS_Subset
<1>3. ASSUME NEW p \in S PROVE Cardinality({q \in S : q < p}) \in Nat
  <2>1. IsFiniteSet({q \in S : q < p})
    BY <1>2, FS_Subset, {q \in S : q < p} \subseteq S
  <2>2. QED BY <2>1, FS_CardinalityType
<1>4. QED
  BY <1>1, <1>2, <1>3, FS_CardinalityType

\* The instances count like this module does.
LEMMA SameCount ==
    /\ \A S : Chord!Cardinality(S) = Cardinality(S)
    /\ \A S : Search!Cardinality(S) = Cardinality(S)
BY DEF Chord!Cardinality, Search!Cardinality, Cardinality

\* The same for the numbers that a layer with tracker tr and counter c gives out.
LEMMA ChordSends ==
    ASSUME Sound(chordTracker, chordAudit), chordId \in 0 .. IdMod - 1,
           NEW S \in SUBSET Peer, NEW t \in Text, Chord!Send(S, t)
    PROVE  /\ Sound(chordTracker', chordAudit')
           /\ chordId' \in 0 .. IdMod - 1
<1>1. /\ chordId' \in 0 .. IdMod - 1
      /\ \A p \in S : Chord!IdOf(p, S) \in 0 .. IdMod - 1
  BY IdsInRange, SameCount DEF Chord!Send, Chord!IdOf
<1>2. DOMAIN chordTracker' \subseteq 0 .. IdMod - 1
  BY <1>1 DEF Sound, Chord!Send, Chord!Outstanding
<1>3. \A i \in DOMAIN chordTracker' :
         \/ i \in DOMAIN chordTracker /\ chordTracker'[i] = chordTracker[i]
         \/ \E p \in S : chordTracker'[i] = [peer |-> p, text |-> t, age |-> 0]
  BY DEF Chord!Send, Chord!Outstanding
<1>4. chordAudit' = chordAudit
  BY DEF Chord!Send
<1>5. QED
  BY <1>1, <1>2, <1>3, <1>4, SendSound

\* The search layer pings one peer at a time.
LEMMA SearchSends ==
    ASSUME Sound(searchTracker, searchAudit), searchId \in 0 .. IdMod - 1,
           NEW p \in Peer, NEW t \in Text, Search!Send({p}, t)
    PROVE  /\ Sound(searchTracker', searchAudit')
           /\ searchId' \in 0 .. IdMod - 1
           /\ Search!IdOf(p, {p}) \in 0 .. IdMod - 1
           /\ \A i \in DOMAIN searchTracker' :
                \/ i \in DOMAIN searchTracker /\ searchTracker'[i] = searchTracker[i]
                \/ searchTracker'[i] = [peer |-> p, text |-> t, age |-> 0]
<1>1. /\ searchId' \in 0 .. IdMod - 1
      /\ Search!IdOf(p, {p}) \in 0 .. IdMod - 1
  BY IdsInRange, SameCount DEF Search!Send, Search!IdOf
<1>2. DOMAIN searchTracker' \subseteq 0 .. IdMod - 1
  BY <1>1 DEF Sound, Search!Send, Search!Outstanding
<1>3. \A i \in DOMAIN searchTracker' :
         \/ i \in DOMAIN searchTracker /\ searchTracker'[i] = searchTracker[i]
         \/ searchTracker'[i] = [peer |-> p, text |-> t, age |-> 0]
  BY DEF Search!Send, Search!Outstanding
<1>4. searchAudit' = searchAudit
  BY DEF Search!Send
<1>5. QED
  BY <1>1, <1>2, <1>3, <1>4, SendSound, {p} \subseteq Peer

-----------------------------------------------------------------------------
(* The inductive invariant: the bound on the ages is what keeps the type   *)
(* of an entry, and the order of the layers needs the datagrams in flight. *)

PingInv ==
    /\ Sound(chordTracker, chordAudit) /\ chordId \in 0 .. IdMod - 1
    /\ Sound(searchTracker, searchAudit) /\ searchId \in 0 .. IdMod - 1
    /\ running \in BOOLEAN
    /\ net \subseteq Datagram
    /\ asked \subseteq Ping
    /\ idsElsewhere \in Nat
    /\ successes \in [Ping -> Nat]
    /\ failures \in [Ping -> Nat]
    /\ SearchAfterChord

LEMMA PingInit == Init => PingInv
<1> SUFFICES ASSUME Init PROVE PingInv
  OBVIOUS
<1>1. Sound(chordTracker, chordAudit) /\ chordId \in 0 .. IdMod - 1
  BY TimeoutAssumption DEF Init, Sound, Chord!Init, Chord!Nothing, Chord!Id
<1>2. Sound(searchTracker, searchAudit) /\ searchId \in 0 .. IdMod - 1
  BY TimeoutAssumption DEF Init, Sound, Search!Init, Search!Nothing, Search!Id
<1>3. SearchAfterChord
  BY DEF Init, SearchAfterChord, Search!Init, Search!Nothing, Search!Outstanding
<1>4. /\ running \in BOOLEAN /\ net \subseteq Datagram /\ asked \subseteq Ping /\ idsElsewhere \in Nat
      /\ successes \in [Ping -> Nat] /\ failures \in [Ping -> Nat]
  BY DEF Init
<1>5. QED
  BY <1>1, <1>2, <1>3, <1>4 DEF PingInv

\* A callback call is counted.
LEMMA CountUp ==
    ASSUME NEW f \in [Ping -> Nat], NEW k \in Ping
    PROVE  /\ [f EXCEPT ![k] = @ + 1] \in [Ping -> Nat]
           /\ [f EXCEPT ![k] = @ + 1][k] > 0
           /\ \A j \in Ping : f[j] > 0 => [f EXCEPT ![k] = @ + 1][j] > 0
OBVIOUS

LEMMA PingStep == PingInv /\ [Next]_vars => PingInv'
<1> SUFFICES ASSUME PingInv, [Next]_vars PROVE PingInv'
  OBVIOUS
<1> USE DEF PingInv
<1>1. ASSUME NEW S \in SUBSET Peer, NEW t \in Text, SendPing(S, t) PROVE PingInv'
  <2>1. Chord!Send(S, t) /\ UNCHANGED <<searchVars, running, idsElsewhere, callbacks>>
    BY <1>1 DEF SendPing
  <2>2. Sound(chordTracker', chordAudit') /\ chordId' \in 0 .. IdMod - 1
    BY <2>1, ChordSends
  <2>3. \A p \in S : Chord!IdOf(p, S) \in Chord!Id
    BY IdsInRange, SameCount DEF Chord!IdOf, Chord!Id
  <2>4. /\ net' \subseteq Datagram
        /\ \A d \in net' : d.layer = "SEARCH" => d \in net
    BY <1>1, <2>3 DEF SendPing, Request, Datagram
  <2>5. asked' \subseteq Ping
    BY <1>1 DEF SendPing, Key, Ping
  <2>6. SearchAfterChord'
    BY <2>1, <2>4 DEF SearchAfterChord, searchVars, callbacks, Search!Outstanding
  <2>7. QED
    BY <2>1, <2>2, <2>4, <2>5, <2>6 DEF searchVars, callbacks
<1>2. ASSUME NEW t \in Text, SendPingNowhere(t) PROVE PingInv'
  <2>1. Key(Nowhere, t) \in Ping
    BY DEF Key, Ping
  <2>2. failures' \in [Ping -> Nat] /\ asked' \subseteq Ping
    BY <1>2, <2>1 DEF SendPingNowhere
  <2>3. QED
    BY <1>2, <2>2 DEF SendPingNowhere, chordVars, searchVars, SearchAfterChord,
                      Search!Outstanding
<1>3. ASSUME NEW d \in net, ProcessPingReq(d) PROVE PingInv'
  <2>1. /\ d \in Datagram /\ [d EXCEPT !.type = "PING_RSP"] \in Datagram
        /\ [d EXCEPT !.type = "PING_RSP"].layer = d.layer
        /\ Key([d EXCEPT !.type = "PING_RSP"].peer, [d EXCEPT !.type = "PING_RSP"].text)
             = Key(d.peer, d.text)
    BY DEF Datagram, Key
  <2>2. net' \subseteq Datagram
    BY <1>3, <2>1 DEF ProcessPingReq
  <2>3. SearchAfterChord'
    BY <1>3, <2>1 DEF ProcessPingReq, SearchAfterChord, searchVars, callbacks,
                      Search!Outstanding
  <2>4. QED
    BY <1>3, <2>2, <2>3 DEF ProcessPingReq, chordVars, searchVars, callbacks
<1>4. ASSUME NEW d \in net, ChordPingRsp(d) PROVE PingInv'
  <2>1. d.peer \in Peer /\ d.text \in Text /\ Key(d.peer, d.text) \in Ping
    BY DEF Datagram, Key, Ping
  <2>2. Sound(chordTracker', chordAudit') /\ chordId' \in 0 .. IdMod - 1
    BY <1>4, WithoutSound
    DEF ChordPingRsp, Chord!Answered, Chord!Without, Chord!Outstanding
  <2>3. /\ Sound(searchTracker', searchAudit') /\ searchId' \in 0 .. IdMod - 1
        /\ Search!IdOf(d.peer, {d.peer}) \in 0 .. IdMod - 1
        /\ \A i \in DOMAIN searchTracker' :
             \/ i \in DOMAIN searchTracker /\ searchTracker'[i] = searchTracker[i]
             \/ searchTracker'[i] = [peer |-> d.peer, text |-> d.text, age |-> 0]
    BY <1>4, <2>1, SearchSends DEF ChordPingRsp
  <2>4. /\ successes' \in [Ping -> Nat]
        /\ successes'[Key(d.peer, d.text)] > 0
        /\ \A k \in Ping : successes[k] > 0 => successes'[k] > 0
    BY <1>4, <2>1, CountUp DEF ChordPingRsp
  <2>5. net' \subseteq Datagram
    <3>1. Request("SEARCH", Search!IdOf(d.peer, {d.peer}), d.peer, d.text) \in Datagram
      BY <2>1, <2>3 DEF Request, Datagram, Chord!Id
    <3>2. QED
      BY <1>4, <3>1 DEF ChordPingRsp
  <2>6. SearchAfterChord'
    <3>1. ASSUME NEW i \in DOMAIN searchTracker'
          PROVE  successes'[Key(searchTracker'[i].peer, searchTracker'[i].text)] > 0
      <4>1. CASE i \in DOMAIN searchTracker /\ searchTracker'[i] = searchTracker[i]
        <5>1. Key(searchTracker[i].peer, searchTracker[i].text) \in Ping
          BY <4>1 DEF Sound, Key, Ping
        <5>2. QED
          BY <4>1, <5>1, <2>4 DEF SearchAfterChord, Search!Outstanding
      <4>2. CASE searchTracker'[i] = [peer |-> d.peer, text |-> d.text, age |-> 0]
        BY <4>2, <2>4
      <4>3. QED
        BY <2>3, <4>1, <4>2
    <3>2. ASSUME NEW e \in net', e.layer = "SEARCH"
          PROVE  successes'[Key(e.peer, e.text)] > 0
      <4>1. CASE e \in net
        BY <3>2, <4>1, <2>4 DEF SearchAfterChord, Datagram, Key, Ping
      <4>2. CASE e \notin net
        BY <1>4, <4>2, <2>4 DEF ChordPingRsp, Request
      <4>3. QED
        BY <4>1, <4>2
    <3>3. QED
      BY <3>1, <3>2 DEF SearchAfterChord, Search!Outstanding
  <2>7. QED
    BY <1>4, <2>2, <2>3, <2>4, <2>5, <2>6 DEF ChordPingRsp
<1>5. ASSUME NEW d \in net, SearchPingRsp(d) PROVE PingInv'
  <2>1. searchTracker' = [i \in DOMAIN searchTracker \ {d.id} |-> searchTracker[i]]
    BY <1>5 DEF SearchPingRsp, Search!Answered, Search!Without, Search!Outstanding
  <2>2. Sound(searchTracker', searchAudit')
    BY <1>5, <2>1, WithoutSound DEF SearchPingRsp
  <2>3. SearchAfterChord'
    BY <1>5, <2>1 DEF SearchPingRsp, SearchAfterChord, callbacks, Search!Outstanding
  <2>4. QED
    BY <1>5, <2>2, <2>3 DEF SearchPingRsp, chordVars, callbacks
<1>6. ASSUME NEW d \in net, InvalidPingRsp(d) \/ Lose(d) PROVE PingInv'
  BY <1>6 DEF InvalidPingRsp, Lose, chordVars, searchVars, callbacks, SearchAfterChord,
              Search!Outstanding
<1>7. CASE ChordAuditPings
  <2>1. Sound(chordTracker', chordAudit')
    BY <1>7, AuditSound
    DEF ChordAuditPings, Chord!AuditPings, Chord!Without, Chord!Expired, Chord!Outstanding
  <2>2. failures' \in [Ping -> Nat]
    <3>1. IsFiniteSet(DOMAIN chordTracker)
      <4>1. IsFiniteSet(0 .. IdMod - 1)
        BY IdModAssumption, FS_Interval
      <4>2. QED
        BY <4>1, FS_Subset DEF Sound
    <3>2. ASSUME NEW P \in SUBSET DOMAIN chordTracker PROVE Cardinality(P) \in Nat
      BY <3>1, FS_Subset, FS_CardinalityType
    <3>3. \A k \in Ping :
            Cardinality({i \in Chord!Expired :
                Key(chordTracker[i].peer, chordTracker[i].text) = k}) \in Nat
      BY <3>2 DEF Chord!Expired, Chord!Outstanding
    <3>4. QED
      BY <1>7, <3>3 DEF ChordAuditPings
  <2>3. QED
    BY <1>7, <2>1, <2>2 DEF ChordAuditPings, Chord!AuditPings, searchVars, SearchAfterChord,
                            Search!Outstanding
<1>8. CASE SearchAuditPings
  <2>1. searchTracker' = [i \in DOMAIN searchTracker \
                            {j \in DOMAIN searchTracker : searchTracker[j].age >= Timeout}
                            |-> searchTracker[i]]
    BY <1>8 DEF SearchAuditPings, Search!AuditPings, Search!Without, Search!Expired,
                Search!Outstanding
  <2>2. Sound(searchTracker', searchAudit')
    BY <1>8, <2>1, AuditSound DEF SearchAuditPings, Search!AuditPings
  <2>3. SearchAfterChord'
    BY <1>8, <2>1 DEF SearchAuditPings, SearchAfterChord, callbacks, Search!Outstanding
  <2>4. QED
    BY <1>8, <2>2, <2>3 DEF SearchAuditPings, Search!AuditPings, chordVars, callbacks
<1>9. CASE Tick
  <2>1. Sound(chordTracker', chordAudit')
    BY <1>9, TickSound DEF Tick, Chord!Tick, Chord!Outstanding
  <2>2. Sound(searchTracker', searchAudit')
    BY <1>9, TickSound DEF Tick, Search!Tick, Search!Outstanding
  <2>3. SearchAfterChord'
    BY <1>9 DEF Tick, Search!Tick, SearchAfterChord, callbacks, Search!Outstanding, Sound
  <2>4. QED
    BY <1>9, <2>1, <2>2, <2>3 DEF Tick, Chord!Tick, Search!Tick, callbacks
<1>10. CASE StopApplication
  BY <1>10 DEF StopApplication, Chord!Clear, Search!Clear, Chord!Nothing, Search!Nothing,
               Sound, callbacks, SearchAfterChord, Search!Outstanding
<1>11. CASE RingTakesId
  <2>1. chordId' \in 0 .. IdMod - 1
    BY <1>11, IdModAssumption DEF RingTakesId, Chord!TakeId
  <2>2. SearchAfterChord'
    BY <1>11 DEF RingTakesId, SearchAfterChord, searchVars, callbacks, Search!Outstanding
  <2>3. QED
    BY <1>11, <2>1, <2>2 DEF RingTakesId, Chord!TakeId, searchVars, callbacks
<1>12. CASE UNCHANGED vars
  BY <1>12 DEF vars, SearchAfterChord, Search!Outstanding
<1>13. QED
  BY <1>1, <1>2, <1>3, <1>4, <1>5, <1>6, <1>7, <1>8, <1>9, <1>10, <1>11, <1>12 DEF Next

LEMMA PingAlways == Spec => []PingInv
BY PingInit, PingStep, PTL DEF Spec

\* The variables of both layers keep their types: in particular no entry of a
\* tracker is ever twice as old as the timeout, whatever is lost or comes late.
THEOREM PingTypes == Spec => []TypeOK
<1>1. PingInv => TypeOK
  BY DEF PingInv, Sound, TypeOK, Chord!TypeOK, Search!TypeOK, Chord!Outstanding,
         Search!Outstanding, Chord!Id, Search!Id, Chord!PingRequest, Search!PingRequest
<1>2. QED
  BY <1>1, PingAlways, PTL

\* AuditPings removes an entry of either layer before it is twice as old as m_pingTimeout.
THEOREM PingAges == Spec => []AgesBounded
<1>1. PingInv => AgesBounded
  BY DEF PingInv, Sound, AgesBounded, Chord!AgeBound, Search!AgeBound, Chord!Outstanding,
         Search!Outstanding
<1>2. QED
  BY <1>1, PingAlways, PTL

\* GUSearch pings only peers for which HandleChordPingSuccess has been called.
THEOREM SearchFollowsChord == Spec => []SearchAfterChord
<1>1. PingInv => SearchAfterChord
  BY DEF PingInv
<1>2. QED
  BY <1>1, PingAlways, PTL

=============================================================================
