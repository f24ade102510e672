------------------------------ MODULE ChordRing ------------------------------
(***************************************************************************)
(* The ring-maintenance protocol of GUChord (src/Chord/gu-chord.cc): every *)
(* node keeps the name of its predecessor and successor and three SHA-1    *)
(* digests, reacts to the commands JOIN, LEAVE and RINGSTATE, to eight     *)
(* kinds of UDP message and to the stabilisation timer.  A handler runs to *)
(* completion inside one simulator event, so one action is one handler.    *)
(*                                                                         *)
(* A name is the decimal node number the code keeps in a std::string; the  *)
(* empty string of a node that was never told to join is NoNode.  The      *)
(* digest of a name is abstracted to its rank, which is all memcmp sees.   *)
(***************************************************************************)
EXTENDS Integers, FiniteSets, Bags

CONSTANTS
    Node,         \* the nodes of the simulated topology
    NoNode,       \* the empty std::string
    Hash,         \* rank of the SHA-1 digest of a name
    NameLen,      \* length of a name in characters
    Contact,      \* the names a JOIN command may give to a node
    Limit,        \* bound: how often a command is issued to a node
    Lossy,        \* whether the network may lose a datagram
    MaxInFlight   \* bound: stabilisation waits while so many datagrams travel

Name == Node \cup {NoNode}
Command == {"CREATE", "JOIN", "LEAVE", "RINGSTATE", "STOP"}
MessageType == {"JOIN_REQ", "JOIN_RSP", "FIND_SUC_REQ", "NOTIFY_PRED", "NOTIFY_SUC",
                "GET_PRED_SUC_REQ", "GET_PRED_SUC_RSP", "RINGSTATE"}

ASSUME NoNodeAssumption == NoNode \notin Node
ASSUME HashAssumption ==
    /\ Hash \in [Name -> Nat]
    /\ \A a, b \in Name : Hash[a] = Hash[b] => a = b
ASSUME NameLenAssumption == NameLen \in [Name -> Nat]
ASSUME BoundAssumption ==
    /\ Contact \in [Node -> SUBSET Name]
    /\ Limit \in [Node -> [Command -> Nat]]
    /\ Lossy \in BOOLEAN
    /\ MaxInFlight \in Nat

(***************************************************************************)
(* Bytes no statement has written (the digest arrays are not initialised   *)
(* by the constructor), or that SHA1 read from beyond the wanted name.     *)
(***************************************************************************)
Indeterminate == -1
Digest == Nat \cup {Indeterminate}

VARIABLES
    m_pred, m_suc,                      \* names of the two neighbours
    m_pred_hash, m_suc_hash, m_my_hash, \* digests kept beside them
    m_stabilizeTimer,                   \* is the timer pending?
    m_socket,                           \* is the socket open?
    net,                                \* bag of datagrams in flight
    issued,                             \* commands given to each node so far
    usedStopped,                        \* nodes given a command after STOP
    aborted                             \* the simulator process has died

pointers == <<m_pred, m_suc>>
digests == <<m_pred_hash, m_suc_hash, m_my_hash>>
control == <<m_stabilizeTimer, m_socket, aborted>>
scenario == <<issued, usedStopped>>
vars == <<m_pred, m_suc, m_pred_hash, m_suc_hash, m_my_hash,
          m_stabilizeTimer, m_socket, net, issued, usedStopped, aborted>>

-----------------------------------------------------------------------------
(* Datagrams.  name is the NodeId (SNodeId) of the payload, pname the      *)
(* PNodeId of a JOIN_RSP.                                                  *)

Message == [type : MessageType, src : Node, dst : Node, name : Name, pname : Name]

Datagram(t, from, to, a) == [type |-> t, src |-> from, dst |-> to, name |-> a, pname |-> NoNode]
JoinRsp(from, to, s, p) == [type |-> "JOIN_RSP", src |-> from, dst |-> to, name |-> s, pname |-> p]

\* Faulty variant of Post: the empty name is taken for an address.
PostAnywhere(b, m) == b (+) SetToBag({m})

\* SendTo: a datagram for the unresolvable name goes to 0.0.0.0, which has no route.
Post(b, m) == IF m.dst = NoNode THEN b ELSE b (+) SetToBag({m})
Take(b, m) == b (-) SetToBag({m})
InFlight == BagToSet(net)

\* The three outcomes of memcmp; indeterminate bytes allow every one of them.
MayBeEqual(h, k) == h = k \/ Indeterminate \in {h, k}
MayExceed(h, k) == h > k \/ Indeterminate \in {h, k}

-----------------------------------------------------------------------------
Init ==
    /\ m_pred = [n \in Node |-> NoNode]
    /\ m_suc = [n \in Node |-> NoNode]
    /\ m_pred_hash = [n \in Node |-> Indeterminate]
    /\ m_suc_hash = [n \in Node |-> Indeterminate]
    /\ m_my_hash = [n \in Node |-> Indeterminate]
    /\ m_stabilizeTimer = [n \in Node |-> FALSE]
    /\ m_socket = [n \in Node |-> TRUE]
    /\ net = EmptyBag
    /\ issued = [n \in Node |-> [c \in Command |-> 0]]
    /\ usedStopped = {}
    /\ aborted = FALSE

SetPred(n, p) ==
    /\ m_pred' = [m_pred EXCEPT ![n] = p]
    /\ m_pred_hash' = [m_pred_hash EXCEPT ![n] = Hash[p]]

SetSuc(n, s) ==
    /\ m_suc' = [m_suc EXCEPT ![n] = s]
    /\ m_suc_hash' = [m_suc_hash EXCEPT ![n] = Hash[s]]

-----------------------------------------------------------------------------
(* Commands of the scenario, dispatched by ProcessCommand.  What has been  *)
(* issued bounds the scenario; usedStopped is a history variable that only *)
(* the properties read.                                                    *)

Issue(n, c) ==
    /\ ~aborted
    /\ issued[n][c] < Limit[n][c]
    /\ issued' = [issued EXCEPT ![n][c] = @ + 1]
    /\ usedStopped' = IF c = "STOP" \/ m_socket[n] THEN usedStopped ELSE usedStopped \cup {n}

\* JOIN with the node's own number.  Scheduling a pending timer is fatal in ns-3.
CreateChord(n) ==
    /\ Issue(n, "CREATE")
    /\ \/ /\ m_stabilizeTimer[n]
          /\ aborted' = TRUE
          /\ UNCHANGED <<pointers, digests, m_stabilizeTimer>>
       \/ /\ ~m_stabilizeTimer[n]
          /\ m_stabilizeTimer' = [m_stabilizeTimer EXCEPT ![n] = TRUE]
          /\ SetPred(n, n)
          /\ SetSuc(n, n)
          /\ m_my_hash' = [m_my_hash EXCEPT ![n] = Hash[n]]
          /\ UNCHANGED aborted
    /\ UNCHANGED <<m_socket, net>>

\* Faulty variants of JoinChord: the digest is never computed; the stabilisation
\* timer is scheduled here too.
JoinChordUnhashed(n, target) ==
    /\ m_socket[n] /\ Issue(n, "JOIN")
    /\ target # n
    /\ net' = Post(net, Datagram("JOIN_REQ", n, target, n))
    /\ UNCHANGED <<pointers, digests, control>>

JoinChordScheduling(n, target) ==
    /\ m_socket[n] /\ Issue(n, "JOIN")
    /\ target # n
    /\ m_my_hash' = [m_my_hash EXCEPT ![n] = Hash[n]]
    /\ m_stabilizeTimer' = [m_stabilizeTimer EXCEPT ![n] = TRUE]
    /\ net' = Post(net, Datagram("JOIN_REQ", n, target, n))
    /\ UNCHANGED <<pointers, m_pred_hash, m_suc_hash, m_socket, aborted>>

\* JOIN with another node's number (or one that resolves to no address).
JoinChord(n, target) ==
    /\ m_socket[n] /\ Issue(n, "JOIN")
    /\ target # n
    /\ m_my_hash' = [m_my_hash EXCEPT ![n] = Hash[n]]
    /\ net' = Post(net, Datagram("JOIN_REQ", n, target, n))
    /\ UNCHANGED <<pointers, m_pred_hash, m_suc_hash, control>>

StartRingstate(n) ==
    /\ m_socket[n] /\ Issue(n, "RINGSTATE")
    /\ net' = Post(net, Datagram("RINGSTATE", n, m_suc[n], n))
    /\ UNCHANGED <<pointers, digests, control>>

\* Both pointers are reset before they are used as destinations, and both
\* copies go into the node's own digest.
NodeLeave(n) ==
    /\ m_socket[n] /\ Issue(n, "LEAVE")
    /\ m_suc' = [m_suc EXCEPT ![n] = n]
    /\ m_pred' = [m_pred EXCEPT ![n] = n]
    /\ m_my_hash' = [m_my_hash EXCEPT ![n] = m_pred_hash[n]]
    /\ net' = Post(Post(net, Datagram("NOTIFY_PRED", n, m_pred'[n], m_suc'[n])),
                   Datagram("NOTIFY_SUC", n, m_suc'[n], m_pred'[n]))
    /\ UNCHANGED <<m_pred_hash, m_suc_hash, control>>

\* The stabilisation timer is not among the timers StopApplication cancels.
StopApplication(n) ==
    /\ Issue(n, "STOP")
    /\ m_socket' = [m_socket EXCEPT ![n] = FALSE]
    /\ UNCHANGED <<pointers, digests, m_stabilizeTimer, net, aborted>>

\* Every other command sends, and without a socket dereferences a null pointer.
CommandWithoutSocket(n) ==
    /\ ~m_socket[n]
    /\ \E c \in {"JOIN", "LEAVE", "RINGSTATE"} : Issue(n, c)
    /\ aborted' = TRUE
    /\ UNCHANGED <<pointers, digests, m_stabilizeTimer, m_socket, net>>

-----------------------------------------------------------------------------
(* Message handlers: m has been received by m.dst.                         *)

\* Faulty variant of ProcessJoinReq: a node without a successor admits joiners too.
ProcessJoinReqEager(m) ==
    /\ m.type = "JOIN_REQ"
    /\ LET n == m.dst
           reply == IF m_suc[n] \in {n, NoNode}
                    THEN JoinRsp(n, m.src, n, n)
                    ELSE Datagram("FIND_SUC_REQ", n, m_suc[n], m.name)
       IN  net' = Post(Take(net, m), reply)
    /\ UNCHANGED <<pointers, digests>>

ProcessJoinReq(m) ==
    /\ m.type = "JOIN_REQ"
    /\ LET n == m.dst
           reply == IF m_suc[n] = n
                    THEN JoinRsp(n, m.src, n, n)
                    ELSE Datagram("FIND_SUC_REQ", n, m_suc[n], m.name)
       IN  net' = Post(Take(net, m), reply)
    /\ UNCHANGED <<pointers, digests>>

\* The searched node already knows this node's digest as its own.
FindSucReqSelf(m) ==
    /\ m.type = "FIND_SUC_REQ"
    /\ MayBeEqual(Hash[m.name], m_my_hash[m.dst])
    /\ net' = Take(net, m)
    /\ UNCHANGED <<pointers, digests>>

\* Greater than this node, which lies above its predecessor: m_pred moves, its
\* digest does not.
FindSucReqAbove(m) ==
    /\ m.type = "FIND_SUC_REQ"
    /\ MayExceed(Hash[m.name], m_my_hash[m.dst])
    /\ MayExceed(m_my_hash[m.dst], m_pred_hash[m.dst])
    /\ m_pred' = [m_pred EXCEPT ![m.dst] = m.name]
    /\ net' = Post(Take(net, m), JoinRsp(m.dst, m.name, m.dst, m_suc[m.dst]))
    /\ UNCHANGED <<m_suc, digests>>

\* Faulty variant of FindSucReqForward: the search is not passed on.
FindSucReqSwallowed(m) ==
    /\ m.type = "FIND_SUC_REQ"
    /\ MayExceed(Hash[m.name], m_my_hash[m.dst])
    /\ \/ MayExceed(m_pred_hash[m.dst], m_my_hash[m.dst])
       \/ MayBeEqual(m_pred_hash[m.dst], m_my_hash[m.dst])
    /\ net' = Take(net, m)
    /\ UNCHANGED <<pointers, digests>>

\* Greater than this node, which takes itself for the smallest: passed on.
FindSucReqForward(m) ==
    /\ m.type = "FIND_SUC_REQ"
    /\ MayExceed(Hash[m.name], m_my_hash[m.dst])
    /\ \/ MayExceed(m_pred_hash[m.dst], m_my_hash[m.dst])
       \/ MayBeEqual(m_pred_hash[m.dst], m_my_hash[m.dst])
    /\ net' = Post(Take(net, m), Datagram("FIND_SUC_REQ", m.dst, m_suc[m.dst], m.name))
    /\ UNCHANGED <<pointers, digests>>

\* Faulty variants of FindSucReqBelow: m_pred is assigned before the answer is
\* composed; the search is answered and passed on as well.
FindSucReqBelowLate(m) ==
    /\ m.type = "FIND_SUC_REQ"
    /\ MayExceed(m_my_hash[m.dst], Hash[m.name])
    /\ SetPred(m.dst, m.name)
    /\ net' = Post(Take(net, m), JoinRsp(m.dst, m.name, m.dst, m.name))
    /\ UNCHANGED <<m_suc, m_suc_hash, m_my_hash>>

FindSucReqBelowTwice(m) ==
    /\ m.type = "FIND_SUC_REQ"
    /\ MayExceed(m_my_hash[m.dst], Hash[m.name])
    /\ SetPred(m.dst, m.name)
    /\ net' = Post(Post(Take(net, m), JoinRsp(m.dst, m.name, m.dst, m_pred[m.dst])),
                   Datagram("FIND_SUC_REQ", m.dst, m_suc[m.dst], m.name))
    /\ UNCHANGED <<m_suc, m_suc_hash, m_my_hash>>

\* Smaller than this node: it becomes the predecessor, whatever the old one was.
FindSucReqBelow(m) ==
    /\ m.type = "FIND_SUC_REQ"
    /\ MayExceed(m_my_hash[m.dst], Hash[m.name])
    /\ SetPred(m.dst, m.name)
    /\ net' = Post(Take(net, m), JoinRsp(m.dst, m.name, m.dst, m_pred[m.dst]))
    /\ UNCHANGED <<m_suc, m_suc_hash, m_my_hash>>

ProcessFindSucReq(m) ==
    \/ FindSucReqSelf(m)
    \/ FindSucReqAbove(m)
    \/ FindSucReqForward(m)
    \/ FindSucReqBelow(m)

ProcessJoinRsp(m) ==
    /\ m.type = "JOIN_RSP"
    /\ SetSuc(m.dst, m.name)
    /\ SetPred(m.dst, m.pname)
    /\ net' = Post(Take(net, m), Datagram("NOTIFY_PRED", m.dst, m.pname, m.dst))
    /\ UNCHANGED m_my_hash

\* Faulty variant of ProcessNotifyPred: a lone node does not adopt a predecessor.
ProcessNotifyPredOneSided(m) ==
    /\ m.type = "NOTIFY_PRED"
    /\ SetSuc(m.dst, m.name)
    /\ net' = Take(net, m)
    /\ UNCHANGED <<m_pred, m_pred_hash, m_my_hash>>

ProcessNotifyPred(m) ==
    /\ m.type = "NOTIFY_PRED"
    /\ SetSuc(m.dst, m.name)
    /\ IF m_pred[m.dst] = m.dst
       THEN SetPred(m.dst, m.name)
       ELSE UNCHANGED <<m_pred, m_pred_hash>>
    /\ net' = Take(net, m)
    /\ UNCHANGED m_my_hash

ProcessNotifySuc(m) ==
    /\ m.type = "NOTIFY_SUC"
    /\ SetPred(m.dst, m.name)
    /\ IF m_suc[m.dst] = m.dst
       THEN SetSuc(m.dst, m.name)
       ELSE UNCHANGED <<m_suc, m_suc_hash>>
    /\ net' = Take(net, m)
    /\ UNCHANGED m_my_hash

\* Faulty variant of ProcessRingstate: the walk does not stop at its origin.
ProcessRingstateEndless(m) ==
    /\ m.type = "RINGSTATE"
    /\ net' = Post(Take(net, m), Datagram("RINGSTATE", m.dst, m_suc[m.dst], m.name))
    /\ UNCHANGED <<pointers, digests>>

ProcessRingstate(m) ==
    /\ m.type = "RINGSTATE"
    /\ net' = IF m.name = m.dst
              THEN Take(net, m)
              ELSE Post(Take(net, m), Datagram("RINGSTATE", m.dst, m_suc[m.dst], m.name))
    /\ UNCHANGED <<pointers, digests>>

ProcessGetPredSucReq(m) ==
    /\ m.type = "GET_PRED_SUC_REQ"
    /\ net' = Post(Take(net, m), Datagram("GET_PRED_SUC_RSP", m.dst, m.src, m_pred[m.dst]))
    /\ UNCHANGED <<pointers, digests>>

\* SHA1(m_pred.c_str(), m_suc.size(), m_suc_hash): the bytes of the predecessor's
\* name, as many as the new successor's name has.
MixedHash(p, s) == IF NameLen[p] = NameLen[s] THEN Hash[p] ELSE Indeterminate

\* The successor's predecessor lies above this node: adopt it and notify it.
GetPredSucRspAbove(m) ==
    /\ MayExceed(Hash[m.name], m_my_hash[m.dst])
    /\ m_suc' = [m_suc EXCEPT ![m.dst] = m.name]
    /\ m_suc_hash' = [m_suc_hash EXCEPT ![m.dst] = MixedHash(m_pred[m.dst], m.name)]
    /\ net' = Post(Take(net, m), Datagram("NOTIFY_SUC", m.dst, m.name, m.dst))
    /\ UNCHANGED <<m_pred, m_pred_hash, m_my_hash>>

\* It is this node itself, or lies below it: nothing is done.
GetPredSucRspIgnored(m) ==
    /\ \/ MayBeEqual(Hash[m.name], m_my_hash[m.dst])
       \/ MayExceed(m_my_hash[m.dst], Hash[m.name])
    /\ net' = Take(net, m)
    /\ UNCHANGED <<pointers, digests>>

ProcessGetPredSucRsp(m) ==
    /\ m.type = "GET_PRED_SUC_RSP"
    /\ GetPredSucRspAbove(m) \/ GetPredSucRspIgnored(m)

RecvMessage(m) ==
    /\ ~aborted
    /\ m_socket[m.dst]
    /\ \/ ProcessJoinReq(m)
       \/ ProcessFindSucReq(m)
       \/ ProcessJoinRsp(m)
       \/ ProcessNotifyPred(m)
       \/ ProcessNotifySuc(m)
       \/ ProcessRingstate(m)
       \/ ProcessGetPredSucReq(m)
       \/ ProcessGetPredSucRsp(m)
    /\ UNCHANGED <<control, scenario>>

\* UDP gives no guarantee, and a closed socket receives nothing.
Lose(m) ==
    /\ ~aborted
    /\ Lossy \/ ~m_socket[m.dst]
    /\ net' = Take(net, m)
    /\ UNCHANGED <<pointers, digests, control, scenario>>

-----------------------------------------------------------------------------
\* The timer expires: ask the successor for its predecessor and rearm.  Without
\* a socket the handler dereferences a null pointer.
Stabilize(n) ==
    /\ ~aborted
    /\ m_stabilizeTimer[n]
    /\ \/ /\ m_socket[n]
          /\ BagCardinality(net) < MaxInFlight
          /\ net' = Post(net, Datagram("GET_PRED_SUC_REQ", n, m_suc[n], n))
          /\ UNCHANGED aborted
       \/ /\ ~m_socket[n]
          /\ aborted' = TRUE
          /\ UNCHANGED net
    /\ UNCHANGED <<pointers, digests, m_stabilizeTimer, m_socket, scenario>>

ProcessCommand(n) ==
    \/ CreateChord(n)
    \/ \E target \in Contact[n] : JoinChord(n, target)
    \/ StartRingstate(n)
    \/ NodeLeave(n)
    \/ CommandWithoutSocket(n)

Next ==
    \/ \E n \in Node : ProcessCommand(n) \/ StopApplication(n) \/ Stabilize(n)
    \/ \E m \in InFlight : RecvMessage(m) \/ Lose(m)

Spec == Init /\ [][Next]_vars

\* The datagrams of type t that travel to n; one kind may not starve another.
Deliver(n, t) == \E m \in InFlight : m.dst = n /\ m.type = t /\ RecvMessage(m)

\* The simulator fires every pending timer and delivers every datagram it does
\* not drop; nothing obliges the scenario to issue a command.
Fairness ==
    /\ \A n \in Node : WF_vars(Stabilize(n))
    /\ \A n \in Node, t \in MessageType : WF_vars(Deliver(n, t))
FairSpec == Spec /\ Fairness

\* The scenarios in which each command waits until the network is silent.
CalmNext == Next /\ (issued' # issued => net = EmptyBag)
CalmSpec == Init /\ [][CalmNext]_vars /\ Fairness

-----------------------------------------------------------------------------
(* Vocabulary of the properties.                                           *)

Commanded(n, C) == \E c \in C : issued[n][c] > 0
Entered == {n \in Node : Commanded(n, {"CREATE", "JOIN", "LEAVE"})}
Founders == {n \in Node : Commanded(n, {"CREATE"})}
Joiners == {n \in Node : Commanded(n, {"JOIN"})}
InRing == {n \in Node : m_suc[n] # NoNode}

\* The nodes met by following m_suc from n once or more: those in every set that holds
\* the successor of n and, with each node, its successor.
Downstream(n) ==
    {x \in Node : \A S \in SUBSET Node :
        (\A y \in S \cup {n} : m_suc[y] \in S \cup {NoNode}) => x \in S}

\* How many datagrams in flight, copies included, belong to a walk started for n.
Walks(m, n, T) == m.type \in T /\ n = IF m.type = "JOIN_RSP" THEN m.dst ELSE m.name
WalkCopies(b, n, T) == UNION {{m} \X (1 .. b[m]) : m \in {k \in BagToSet(b) : Walks(k, n, T)}}
Travelling(n, T) == Cardinality(WalkCopies(net, n, T))

-----------------------------------------------------------------------------
(* Safety.                                                                 *)

\* Every variable keeps its type, whatever handlers interleave.
TypeOK ==
    /\ m_pred \in [Node -> Name]
    /\ m_suc \in [Node -> Name]
    /\ m_pred_hash \in [Node -> Digest]
    /\ m_suc_hash \in [Node -> Digest]
    /\ m_my_hash \in [Node -> Digest]
    /\ m_stabilizeTimer \in [Node -> BOOLEAN]
    /\ m_socket \in [Node -> BOOLEAN]
    /\ IsABag(net) /\ InFlight \subseteq Message
    /\ issued \in [Node -> [Command -> Nat]]
    /\ usedStopped \subseteq Node
    /\ aborted \in BOOLEAN

\* A node nobody told to join, found or leave stays out of the ring, even when it
\* is asked to admit a joiner: no node points at it, no datagram names it, it
\* sends nothing, and the only thing it is ever sent is a JOIN_REQ.
BystandersStayOut ==
    /\ \A n \in Node :
         /\ {m_pred[n], m_suc[n]} \subseteq Entered \cup {NoNode}
         /\ n \notin Entered => m_pred[n] = NoNode /\ m_suc[n] = NoNode
    /\ \A m \in InFlight :
         /\ m.src \in Entered
         /\ {m.name, m.pname} \subseteq Entered \cup {NoNode}
         /\ m.dst \in Entered \/ m.type = "JOIN_REQ"

\* Until some node founds a ring (or a LEAVE makes it its own ring) no JOIN can
\* put a node into one: the search is passed to an empty successor and vanishes.
RingNeedsFounder ==
    (\A n \in Node : ~Commanded(n, {"CREATE", "LEAVE"}))
        => InRing = {} /\ \A m \in InFlight : m.type = "JOIN_REQ"

\* A node that never left compares searches with the digest of its own name,
\* and one that was never told to join compares with bytes nobody wrote.
MyHashIsOwn ==
    aborted \/ \A n \in Node : ~Commanded(n, {"LEAVE"}) =>
        m_my_hash[n] = IF n \in Entered THEN Hash[n] ELSE Indeterminate

\* The process dies for one of three reasons: a node was told to found twice, a node
\* was given a command after its StopApplication, or a node that founded was stopped.
\* The last is no misuse but the timer that StopApplication leaves pending
\* (StoppedTimersCancelled).  No message, however late, and no other order of
\* commands ends the process.
AbortHasCause ==
    aborted => \E n \in Node : \/ issued[n]["CREATE"] > 1
                               \/ n \in usedStopped
                               \/ Commanded(n, {"CREATE"}) /\ Commanded(n, {"STOP"})

\* One JOIN command has at most one datagram travelling for it, be it the request,
\* the search passed from node to node or the answer; likewise one RINGSTATE.
OneWalkPerCommand ==
    \A n \in Node :
        /\ Travelling(n, {"JOIN_REQ", "FIND_SUC_REQ", "JOIN_RSP"}) <= issued[n]["JOIN"]
        /\ Travelling(n, {"RINGSTATE"}) <= issued[n]["RINGSTATE"]

\* While every node joins at most once and none leaves, only a founder can be its
\* own successor: no joiner is cut off into a ring of one, however searches, answers
\* and stabilisation cross and whatever is lost.
EachJoinsOnce == \A n \in Node : issued[n]["JOIN"] <= 1 /\ issued[n]["LEAVE"] = 0
OnlyFounderAlone == EachJoinsOnce => \A n \in Node : m_suc[n] = n => n \in Founders

\* As long as there is one founder and at most two nodes are told to join, once, in
\* whatever order their messages and stabilisation's arrive, following successors from
\* any node that has one leads to the founder.  (With three joiners it need not.)
TwoJoinsKeepRing ==
    \A f, a, b \in Node :
        (EachJoinsOnce /\ Founders = {f} /\ Joiners \subseteq {a, b})
            => \A n \in InRing \ {f} : f \in Downstream(n)

-----------------------------------------------------------------------------
(* Liveness.                                                               *)

\* A JOIN_REQ on its way to a node of the ring ends with the sender in the ring,
\* however joins overlap, provided the digest of the only founder is the greatest:
\* then every search meets a node it lies below.  (Under another founder the
\* search of the greatest node may circle for ever.)
GreatestFounded == \E f \in Node : Founders = {f} /\ \A n \in Node : Hash[n] <= Hash[f]
JoinAnswered ==
    \A n \in Node :
        (/\ GreatestFounded
         /\ \E m \in InFlight : m.type = "JOIN_REQ" /\ m.src = n /\ m.dst \in InRing)
            ~> n \in InRing

\* When two joins do not overlap, stabilisation ends with one ring through every
\* joined node in which predecessor and successor mirror each other.  (A third
\* join can break it.)
PerfectRing ==
    \A n \in InRing : m_pred[m_suc[n]] = n /\ Downstream(n) = InRing
TwoCalmJoinsFormRing == <>[]PerfectRing

\* In a ring of calm joins a RINGSTATE walk ends.
RingstateEnds ==
    (\E m \in InFlight : m.type = "RINGSTATE") ~> (\A m \in InFlight : m.type # "RINGSTATE")

-----------------------------------------------------------------------------
(* What comments of the code say and the code does not do.                 *)

\* m_pred_hash is printed as Hash(m_pred).
PredHashMatches == \A n \in InRing : m_pred_hash[n] = Hash[m_pred[n]]

\* After LEAVE, "current node leaves the chord": when a node of a perfect ring is told
\* to leave, the others have another successor some day, unless it joins again.
OthersPassBy(n) == \A k \in Node \ {n} : m_suc[k] # n
LeaversForgotten ==
    \A n \in Node : \A j \in 0 .. Limit[n]["JOIN"] :
        [](( /\ PerfectRing /\ m_suc[n] \notin {n, NoNode}
             /\ issued[n]["LEAVE"] = 0 /\ issued[n]["JOIN"] = j )
           => [](Commanded(n, {"LEAVE"}) => <>(OthersPassBy(n) \/ issued[n]["JOIN"] > j)))

\* StopApplication cancels the timers: none is pending at a node that was stopped and
\* has been given no command since.
StoppedTimersCancelled ==
    \A n \in Node : ~m_socket[n] /\ n \notin usedStopped => ~m_stabilizeTimer[n]

=============================================================================
