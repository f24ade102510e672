---------------------------- MODULE PingTracker ----------------------------
(***************************************************************************)
(* The bookkeeping of outstanding pings, which GUChord and GUSearch hold   *)
(* each for themselves with the same code: a map from transaction id to    *)
(* PingRequest, the counter of transaction ids and the audit timer.        *)
(*                                                                         *)
(* Time is counted in the milliseconds the code compares.  A PingRequest   *)
(* carries its age instead of its timestamp, and auditIn is the time left  *)
(* on m_auditPingsTimer, so no clock grows without bound.                  *)
(***************************************************************************)
EXTENDS Integers, FiniteSets

CONSTANTS
    Peer,      \* numbers of the nodes that can be pinged
    Text,      \* ping messages
    Timeout,   \* m_pingTimeout, both the life of a ping and the audit period
    IdMod      \* transaction ids count modulo this (2^32 in the program)

VARIABLES m_pingTracker, m_currentTransactionId, auditIn

Id == 0 .. IdMod - 1
PingRequest == [peer : Peer, text : Text, age : 0 .. 2 * Timeout - 1]
Nothing == [i \in {} |-> 0]

\* The counter starts at a random number.
Init ==
    /\ m_pingTracker = Nothing
    /\ m_currentTransactionId \in Id
    /\ auditIn = Timeout

Outstanding == DOMAIN m_pingTracker
Tracked(k) == \E i \in Outstanding :
                  m_pingTracker[i].peer = k.peer /\ m_pingTracker[i].text = k.text
Without(ids) == [i \in Outstanding \ ids |-> m_pingTracker[i]]

\* The pings of one command are numbered in the order of the node numbers.
IdOf(p, S) == (m_currentTransactionId + Cardinality({q \in S : q < p})) % IdMod

\* SendPing for every node of S; map::insert keeps an entry that has the id already.
Send(S, t) ==
    /\ m_pingTracker' =
         [i \in Outstanding \cup {IdOf(p, S) : p \in S} |->
            IF i \in Outstanding THEN m_pingTracker[i]
            ELSE [peer |-> CHOOSE p \in S : IdOf(p, S) = i, text |-> t, age |-> 0]]
    /\ m_currentTransactionId' = (m_currentTransactionId + Cardinality(S)) % IdMod
    /\ UNCHANGED auditIn

\* GetNextTransactionId, for a message that is not a ping.
TakeId ==
    /\ m_currentTransactionId' = (m_currentTransactionId + 1) % IdMod
    /\ UNCHANGED <<m_pingTracker, auditIn>>

\* ProcessPingRsp: a PING_RSP with a known id ends the ping, any other is ignored.
Answered(i) ==
    /\ i \in Outstanding
    /\ m_pingTracker' = Without({i})

\* AuditPings: the entries that have lived for Timeout are stale.  The faulty
\* variants take the limit itself for young enough, or every entry for stale.
ExpiredAll == Outstanding
ExpiredLate == {i \in Outstanding : m_pingTracker[i].age > Timeout}
Expired == {i \in Outstanding : m_pingTracker[i].age >= Timeout}

\* The timer is scheduled again whatever the audit finds.
AuditPings ==
    /\ auditIn = 0
    /\ m_pingTracker' = Without(Expired)
    /\ auditIn' = Timeout
    /\ UNCHANGED m_currentTransactionId

\* A millisecond passes; a timer that is due fires first.
Tick ==
    /\ auditIn > 0
    /\ auditIn' = auditIn - 1
    /\ m_pingTracker' = [i \in Outstanding |-> [m_pingTracker[i] EXCEPT !.age = @ + 1]]
    /\ UNCHANGED m_currentTransactionId

Clear ==
    /\ m_pingTracker' = Nothing
    /\ UNCHANGED <<m_currentTransactionId, auditIn>>

\* No entry outlives two audit periods: what the next audit spares is younger than
\* Timeout by then.
AgeBound == \A i \in Outstanding : m_pingTracker[i].age + auditIn <= 2 * Timeout - 1

TypeOK ==
    /\ Outstanding \subseteq Id
    /\ \A i \in Outstanding : m_pingTracker[i] \in PingRequest
    /\ m_currentTransactionId \in Id
    /\ auditIn \in 0 .. Timeout

=============================================================================
