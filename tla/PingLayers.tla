----------------------------- MODULE PingLayers -----------------------------
(***************************************************************************)
(* PING through the two layers of one node.  GUSearch hands the command to *)
(* GUChord, which pings the peer's GUChord; the callback of a successful   *)
(* answer makes GUSearch ping the peer's GUSearch in the same event.  Each *)
(* layer tracks its own pings (PingTracker) and audits them by itself.     *)
(*                                                                         *)
(* Pings of different nodes share nothing, so one node and the network     *)
(* around it are enough; a peer's handler only sends the answer.           *)
(***************************************************************************)
EXTENDS Integers, FiniteSets

CONSTANTS Peer, Text, Timeout, IdMod,
          Nowhere,      \* the number of a node whose address is unknown
          MaxElsewhere  \* bound: transaction ids taken for other messages

\* PING * numbers at most IdMod pings at once: the program's IdMod is 2^32.
ASSUME PeerAssumption == Peer \subseteq Nat /\ IsFiniteSet(Peer)
ASSUME TimeoutAssumption == Timeout \in Nat \ {0}
ASSUME IdModAssumption == IdMod \in Nat \ {0} /\ Cardinality(Peer) <= IdMod
ASSUME NowhereAssumption == Nowhere \in Nat \ Peer
ASSUME ElsewhereAssumption == MaxElsewhere \in Nat

VARIABLES
    chordTracker, chordId, chordAudit,       \* GUChord's PingTracker
    searchTracker, searchId, searchAudit,    \* GUSearch's PingTracker
    running,                                 \* the application has not been stopped
    net,                                     \* datagrams in flight
    asked,                                   \* pings commanded so far
    idsElsewhere,                            \* ids GUChord has taken for other messages
    successes, failures                      \* calls of the two callbacks, by ping

chordVars == <<chordTracker, chordId, chordAudit>>
searchVars == <<searchTracker, searchId, searchAudit>>
callbacks == <<successes, failures>>
vars == <<chordTracker, chordId, chordAudit, searchTracker, searchId, searchAudit,
          running, net, asked, idsElsewhere, successes, failures>>

Chord == INSTANCE PingTracker WITH
    m_pingTracker <- chordTracker, m_currentTransactionId <- chordId, auditIn <- chordAudit
Search == INSTANCE PingTracker WITH
    m_pingTracker <- searchTracker, m_currentTransactionId <- searchId, auditIn <- searchAudit

Ping == [peer : Peer \cup {Nowhere}, text : Text]
Datagram == [layer : {"CHORD", "SEARCH"}, type : {"PING_REQ", "PING_RSP"},
             id : Chord!Id, peer : Peer, text : Text]

Key(p, t) == [peer |-> p, text |-> t]
Request(l, i, p, t) == [layer |-> l, type |-> "PING_REQ", id |-> i, peer |-> p, text |-> t]

Init ==
    /\ Chord!Init /\ Search!Init
    /\ running = TRUE
    /\ net = {}
    /\ asked = {}
    /\ idsElsewhere = 0
    /\ successes = [k \in Ping |-> 0]
    /\ failures = [k \in Ping |-> 0]

\* Faulty variant of SendPing: the search layer's ping does not wait for the answer.
SendPingBoth(S, t) ==
    LET keys == {Key(p, t) : p \in S}
    IN  /\ running
        /\ keys \cap asked = {}
        /\ asked' = asked \cup keys
        /\ Chord!Send(S, t) /\ Search!Send(S, t)
        /\ net' = net \cup {Request("CHORD", Chord!IdOf(p, S), p, t) : p \in S}
                      \cup {Request("SEARCH", Search!IdOf(p, S), p, t) : p \in S}
        /\ UNCHANGED <<running, idsElsewhere, callbacks>>

\* PING <node> or PING *: every node of S in one event.  The bound: a text is
\* sent to a peer once.  After StopApplication the socket is gone and the command
\* ends the program (CommandWithoutSocket of ChordRing).
SendPing(S, t) ==
    LET keys == {Key(p, t) : p \in S}
    IN  /\ running
        /\ keys \cap asked = {}
        /\ asked' = asked \cup keys
        /\ Chord!Send(S, t)
        /\ net' = net \cup {Request("CHORD", Chord!IdOf(p, S), p, t) : p \in S}
        /\ UNCHANGED <<searchVars, running, idsElsewhere, callbacks>>

\* An address that does not resolve is a failure at once.
SendPingNowhere(t) ==
    /\ Key(Nowhere, t) \notin asked
    /\ asked' = asked \cup {Key(Nowhere, t)}
    /\ failures' = [failures EXCEPT ![Key(Nowhere, t)] = @ + 1]
    /\ UNCHANGED <<chordVars, searchVars, running, idsElsewhere, net, successes>>

\* The ring protocol numbers the messages it begins with the same counter: JOIN,
\* RINGSTATE and Stabilize take an id each, LEAVE two, here one after the other.
RingTakesId ==
    /\ running
    /\ idsElsewhere < MaxElsewhere
    /\ idsElsewhere' = idsElsewhere + 1
    /\ Chord!TakeId
    /\ UNCHANGED <<searchVars, running, net, asked, callbacks>>

\* ProcessPingReq of either layer at the peer.
ProcessPingReq(d) ==
    /\ d.type = "PING_REQ"
    /\ net' = (net \ {d}) \cup {[d EXCEPT !.type = "PING_RSP"]}
    /\ UNCHANGED <<chordVars, searchVars, running, idsElsewhere, asked, callbacks>>

\* Faulty variant of ChordPingRsp: the tracker is not asked whether it knows the id.
ChordPingRspUnchecked(d) ==
    /\ running /\ d.type = "PING_RSP" /\ d.layer = "CHORD"
    /\ chordTracker' = Chord!Without({d.id})
    /\ UNCHANGED <<chordId, chordAudit>>
    /\ successes' = [successes EXCEPT ![Key(d.peer, d.text)] = @ + 1]
    /\ Search!Send({d.peer}, d.text)
    /\ net' = (net \ {d}) \cup {Request("SEARCH", searchId, d.peer, d.text)}
    /\ UNCHANGED <<running, idsElsewhere, asked, failures>>

\* GUChord::ProcessPingRsp, and in its callback HandleChordPingSuccess, which
\* pings the search layer of the peer.
ChordPingRsp(d) ==
    /\ running /\ d.type = "PING_RSP" /\ d.layer = "CHORD"
    /\ Chord!Answered(d.id) /\ UNCHANGED <<chordId, chordAudit>>
    /\ successes' = [successes EXCEPT ![Key(d.peer, d.text)] = @ + 1]
    /\ Search!Send({d.peer}, d.text)
    /\ net' = (net \ {d}) \cup {Request("SEARCH", Search!IdOf(d.peer, {d.peer}), d.peer, d.text)}
    /\ UNCHANGED <<running, idsElsewhere, asked, failures>>

\* GUSearch::ProcessPingRsp tells nobody.
SearchPingRsp(d) ==
    /\ running /\ d.type = "PING_RSP" /\ d.layer = "SEARCH"
    /\ Search!Answered(d.id) /\ UNCHANGED <<searchId, searchAudit>>
    /\ net' = net \ {d}
    /\ UNCHANGED <<chordVars, running, idsElsewhere, asked, callbacks>>

\* "Received invalid PING_RSP!" in either layer.
InvalidPingRsp(d) ==
    /\ running /\ d.type = "PING_RSP"
    /\ d.id \notin IF d.layer = "CHORD" THEN Chord!Outstanding ELSE Search!Outstanding
    /\ net' = net \ {d}
    /\ UNCHANGED <<chordVars, searchVars, running, idsElsewhere, asked, callbacks>>

\* UDP loses datagrams, and a stopped application receives none.
Lose(d) ==
    /\ net' = net \ {d}
    /\ UNCHANGED <<chordVars, searchVars, running, idsElsewhere, asked, callbacks>>

\* Faulty variant of ChordAuditPings: stale entries go without a callback.
ChordAuditPingsSilent ==
    /\ running
    /\ Chord!AuditPings
    /\ UNCHANGED <<searchVars, running, idsElsewhere, net, asked, callbacks>>

\* Every stale chord ping is reported, whatever the search layer still waits for.
ChordAuditPings ==
    /\ running
    /\ Chord!AuditPings
    /\ failures' = [k \in Ping |->
          failures[k] + Cardinality({i \in Chord!Expired :
              Key(chordTracker[i].peer, chordTracker[i].text) = k})]
    /\ UNCHANGED <<searchVars, running, idsElsewhere, net, asked, successes>>

SearchAuditPings ==
    /\ running
    /\ Search!AuditPings
    /\ UNCHANGED <<chordVars, running, idsElsewhere, net, asked, callbacks>>

Tick ==
    /\ running
    /\ Chord!Tick /\ Search!Tick
    /\ UNCHANGED <<running, idsElsewhere, net, asked, callbacks>>

\* GUSearch::StopApplication stops GUChord, then itself.
StopApplication ==
    /\ running
    /\ running' = FALSE
    /\ Chord!Clear /\ Search!Clear
    /\ UNCHANGED <<net, asked, idsElsewhere, callbacks>>

Next ==
    \/ \E t \in Text : \/ \E p \in Peer : SendPing({p}, t)
                       \/ SendPing(Peer, t)
                       \/ SendPingNowhere(t)
    \/ RingTakesId
    \/ \E d \in net : \/ ProcessPingReq(d)
                      \/ ChordPingRsp(d)
                      \/ SearchPingRsp(d)
                      \/ InvalidPingRsp(d)
                      \/ Lose(d)
    \/ ChordAuditPings
    \/ SearchAuditPings
    \/ Tick
    \/ StopApplication

Spec == Init /\ [][Next]_vars

\* Simulated time passes and due timers fire; nothing else is promised.
FairSpec ==
    /\ Spec
    /\ WF_vars(Tick) /\ WF_vars(ChordAuditPings) /\ WF_vars(SearchAuditPings)

-----------------------------------------------------------------------------
(* Properties.                                                             *)

\* The variables keep their types; an age never reaches twice the timeout.
TypeOK ==
    /\ Chord!TypeOK /\ Search!TypeOK
    /\ running \in BOOLEAN
    /\ net \subseteq Datagram
    /\ asked \subseteq Ping
    /\ idsElsewhere \in Nat
    /\ successes \in [Ping -> Nat] /\ failures \in [Ping -> Nat]

\* In both layers an entry and the audit timer stand to each other such that the
\* audit removes the entry before it is twice as old as the timeout.
AgesBounded == Chord!AgeBound /\ Search!AgeBound

\* The pings that have taken a transaction id, and that the ids given out so far, to
\* pings and to the messages of the ring, are all different.
Numbered == {k \in asked : k.peer \in Peer}
NoWrap == Cardinality(Numbered) + idsElsewhere <= IdMod

\* While transaction ids have not wrapped around, a commanded ping of a running
\* node is either tracked or has had exactly one verdict, never both: no answer
\* racing the audit produces a second call, none is dropped without one.
OneVerdict ==
    (running /\ NoWrap) =>
        \A k \in asked : successes[k] + failures[k] = IF Chord!Tracked(k) THEN 0 ELSE 1

\* The search layer pings nobody whom the chord layer has not reached.
SearchAfterChord ==
    /\ \A i \in Search!Outstanding :
         successes[Key(searchTracker[i].peer, searchTracker[i].text)] > 0
    /\ \A d \in net : d.layer = "SEARCH" => successes[Key(d.peer, d.text)] > 0

\* Every commanded ping gets its verdict, or the application is stopped.
VerdictComes ==
    \A k \in Ping : (k \in asked) ~> (successes[k] + failures[k] > 0 \/ ~running)

\* The layers implement the promise of PingService.
StatusOf(k) ==
    IF successes[k] > 0 THEN "succeeded"
    ELSE IF failures[k] > 0 THEN "failed"
    ELSE IF Chord!Tracked(k) THEN "pending"
    ELSE IF k \in asked THEN "forgotten" ELSE "unsent"
KeyAt(i) == Key(chordTracker[i].peer, chordTracker[i].text)
EntryOf(k) == CHOOSE i \in Chord!Outstanding : KeyAt(i) = k
AgeOf(k) == IF Chord!Tracked(k) THEN chordTracker[EntryOf(k)].age ELSE 0
Service == INSTANCE PingService WITH
    status <- [k \in Ping |-> StatusOf(k)],
    waited <- [k \in Ping |-> AgeOf(k)]
ServiceSpec == Service!Spec

=============================================================================
