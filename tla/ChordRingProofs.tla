-------------------------- MODULE ChordRingProofs --------------------------
(***************************************************************************)
(* Safety of ChordRing for every set of nodes, every injective digest,     *)
(* every choice of join contacts and every number of commands.             *)
(***************************************************************************)
EXTENDS ChordRing, TLAPS

-----------------------------------------------------------------------------
(* The network: what sending and receiving do to the datagrams in flight.  *)

\* Sending keeps the network a bag and adds at most the datagram sent.
LEMMA PostBag ==
    ASSUME NEW b, IsABag(b), NEW m
    PROVE  /\ IsABag(Post(b, m))
           /\ BagToSet(Post(b, m)) \subseteq BagToSet(b) \cup {m}
           /\ m.dst = NoNode => Post(b, m) = b
<1>1. CASE m.dst = NoNode
  BY <1>1 DEF Post
<1>2. CASE m.dst # NoNode
  BY <1>2 DEF Post, IsABag, BagToSet, SetToBag, (+)
<1>. QED  BY <1>1, <1>2

\* Receiving keeps the network a bag and adds nothing.
LEMMA TakeBag ==
    ASSUME NEW b, IsABag(b), NEW m
    PROVE  /\ IsABag(Take(b, m))
           /\ BagToSet(Take(b, m)) \subseteq BagToSet(b)
BY DEF Take, IsABag, BagToSet, SetToBag, (-)

LEMMA EmptyNet == IsABag(EmptyBag) /\ BagToSet(EmptyBag) = {}
BY DEF IsABag, BagToSet, EmptyBag, SetToBag

\* A network whose datagrams all lie in S.
Within(b, S) == IsABag(b) /\ BagToSet(b) \subseteq S

LEMMA PostWithin ==
    ASSUME NEW b, NEW S, Within(b, S), NEW m, m.dst = NoNode \/ m \in S
    PROVE  Within(Post(b, m), S)
BY PostBag DEF Within

LEMMA TakeWithin ==
    ASSUME NEW b, NEW S, Within(b, S), NEW m
    PROVE  Within(Take(b, m), S)
BY TakeBag DEF Within

\* What the handlers send is a message, unless it goes to the empty name.
LEMMA DatagramTyped ==
    ASSUME NEW t \in MessageType, NEW from \in Node, NEW to \in Name, NEW a \in Name
    PROVE  Datagram(t, from, to, a).dst = NoNode \/ Datagram(t, from, to, a) \in Message
BY DEF Datagram, Message, Name

LEMMA JoinRspTyped ==
    ASSUME NEW from \in Node, NEW to \in Name, NEW s \in Name, NEW p \in Name
    PROVE  JoinRsp(from, to, s, p).dst = NoNode \/ JoinRsp(from, to, s, p) \in Message
BY DEF JoinRsp, Message, Name, MessageType

-----------------------------------------------------------------------------
(* Types.                                                                  *)

LEMMA HashTyped == \A x \in Name : Hash[x] \in Digest
BY HashAssumption DEF Digest

LEMMA MixedHashTyped == \A p, s \in Name : MixedHash(p, s) \in Digest
BY HashTyped DEF MixedHash, Digest

\* The state a handler or a command of node n leaves well typed.
LEMMA SetPredTyped ==
    ASSUME TypeOK, NEW n \in Node, NEW p \in Name, SetPred(n, p)
    PROVE  m_pred' \in [Node -> Name] /\ m_pred_hash' \in [Node -> Digest]
BY HashTyped DEF TypeOK, SetPred

LEMMA SetSucTyped ==
    ASSUME TypeOK, NEW n \in Node, NEW s \in Name, SetSuc(n, s)
    PROVE  m_suc' \in [Node -> Name] /\ m_suc_hash' \in [Node -> Digest]
BY HashTyped DEF TypeOK, SetSuc

LEMMA IssueTyped ==
    ASSUME TypeOK, NEW n \in Node, NEW c \in Command, Issue(n, c)
    PROVE  issued' \in [Node -> [Command -> Nat]] /\ usedStopped' \subseteq Node
BY DEF TypeOK, Issue

LEMMA NodeIsName == Node \subseteq Name /\ NoNode \in Name
BY DEF Name

LEMMA InFlightTyped ==
    ASSUME TypeOK, NEW m \in InFlight
    PROVE  /\ m.src \in Node /\ m.dst \in Node /\ m.name \in Name /\ m.pname \in Name
           /\ m.type \in MessageType
BY DEF TypeOK, Message

LEMMA CommandTyped ==
    ASSUME TypeOK, NEW n \in Node, ProcessCommand(n)
    PROVE  TypeOK'
<1>. USE NodeIsName, HashTyped
<1>. Within(net, Message)
  BY DEF TypeOK, Within, InFlight
<1>1. CASE CreateChord(n)
  <2>1. issued' \in [Node -> [Command -> Nat]] /\ usedStopped' \subseteq Node
    BY <1>1, IssueTyped DEF CreateChord, Command
  <2>2. /\ m_pred' \in [Node -> Name] /\ m_pred_hash' \in [Node -> Digest]
        /\ m_suc' \in [Node -> Name] /\ m_suc_hash' \in [Node -> Digest]
    BY <1>1, SetPredTyped, SetSucTyped DEF CreateChord, TypeOK, pointers, digests
  <2>. QED  BY <1>1, <2>1, <2>2 DEF CreateChord, TypeOK, digests, InFlight
<1>2. CASE \E target \in Contact[n] : JoinChord(n, target)
  <2>. PICK target \in Contact[n] : JoinChord(n, target)
    BY <1>2
  <2>1. target \in Name
    BY BoundAssumption
  <2>2. Within(net', Message)
    BY <2>1, PostWithin, DatagramTyped DEF JoinChord, MessageType
  <2>3. issued' \in [Node -> [Command -> Nat]] /\ usedStopped' \subseteq Node
    BY IssueTyped DEF JoinChord, Command
  <2>. QED  BY <2>2, <2>3 DEF JoinChord, TypeOK, Within, InFlight, pointers, control
<1>3. CASE StartRingstate(n)
  <2>1. Within(net', Message)
    BY <1>3, PostWithin, DatagramTyped DEF StartRingstate, MessageType, TypeOK
  <2>2. issued' \in [Node -> [Command -> Nat]] /\ usedStopped' \subseteq Node
    BY <1>3, IssueTyped DEF StartRingstate, Command
  <2>. QED  BY <1>3, <2>1, <2>2 DEF StartRingstate, TypeOK, Within, InFlight, pointers, digests, control
<1>4. CASE NodeLeave(n)
  <2>1. m_suc' \in [Node -> Name] /\ m_pred' \in [Node -> Name]
    BY <1>4 DEF NodeLeave, TypeOK
  <2>2. Within(net', Message)
    BY <1>4, <2>1, PostWithin, DatagramTyped DEF NodeLeave, MessageType
  <2>3. issued' \in [Node -> [Command -> Nat]] /\ usedStopped' \subseteq Node
    BY <1>4, IssueTyped DEF NodeLeave, Command
  <2>. QED  BY <1>4, <2>1, <2>2, <2>3 DEF NodeLeave, TypeOK, Within, InFlight, control
<1>5. CASE CommandWithoutSocket(n)
  <2>1. issued' \in [Node -> [Command -> Nat]] /\ usedStopped' \subseteq Node
    BY <1>5, IssueTyped DEF CommandWithoutSocket, Command
  <2>. QED  BY <1>5, <2>1 DEF CommandWithoutSocket, TypeOK, InFlight, pointers, digests
<1>. QED  BY <1>1, <1>2, <1>3, <1>4, <1>5 DEF ProcessCommand

LEMMA RecvTyped ==
    ASSUME TypeOK, NEW m \in InFlight, RecvMessage(m)
    PROVE  TypeOK'
<1>. USE NodeIsName, HashTyped, InFlightTyped
<1>1. Within(net, Message)
  BY DEF TypeOK, Within, InFlight
<1>2. Within(Take(net, m), Message)
  BY <1>1, TakeWithin
<1>3. UNCHANGED <<m_stabilizeTimer, m_socket, aborted, issued, usedStopped>>
  BY DEF RecvMessage, control, scenario
<1>4. CASE ProcessJoinReq(m)
  <2>1. Within(net', Message)
    BY <1>2, <1>4, PostWithin, DatagramTyped, JoinRspTyped DEF ProcessJoinReq, MessageType, TypeOK
  <2>. QED  BY <1>3, <1>4, <2>1 DEF ProcessJoinReq, TypeOK, Within, InFlight, pointers, digests
<1>5. CASE ProcessFindSucReq(m)
  <2>1. CASE FindSucReqSelf(m)
    BY <1>2, <1>3, <2>1 DEF FindSucReqSelf, TypeOK, Within, InFlight, pointers, digests
  <2>2. CASE FindSucReqAbove(m)
    <3>1. Within(net', Message)
      BY <1>2, <2>2, PostWithin, JoinRspTyped DEF FindSucReqAbove, TypeOK
    <3>. QED  BY <1>3, <2>2, <3>1 DEF FindSucReqAbove, TypeOK, Within, InFlight, digests
  <2>3. CASE FindSucReqForward(m)
    <3>1. Within(net', Message)
      BY <1>2, <2>3, PostWithin, DatagramTyped DEF FindSucReqForward, MessageType, TypeOK
    <3>. QED  BY <1>3, <2>3, <3>1 DEF FindSucReqForward, TypeOK, Within, InFlight, pointers, digests
  <2>4. CASE FindSucReqBelow(m)
    <3>1. Within(net', Message)
      BY <1>2, <2>4, PostWithin, JoinRspTyped DEF FindSucReqBelow, TypeOK
    <3>. QED  BY <1>3, <2>4, <3>1, SetPredTyped DEF FindSucReqBelow, TypeOK, Within, InFlight
  <2>. QED  BY <1>5, <2>1, <2>2, <2>3, <2>4 DEF ProcessFindSucReq
<1>6. CASE ProcessJoinRsp(m)
  <2>1. Within(net', Message)
    BY <1>2, <1>6, PostWithin, DatagramTyped DEF ProcessJoinRsp, MessageType
  <2>. QED  BY <1>3, <1>6, <2>1, SetPredTyped, SetSucTyped DEF ProcessJoinRsp, TypeOK, Within, InFlight
<1>7. CASE ProcessNotifyPred(m)
  BY <1>2, <1>3, <1>7, SetPredTyped, SetSucTyped DEF ProcessNotifyPred, TypeOK, Within, InFlight
<1>8. CASE ProcessNotifySuc(m)
  BY <1>2, <1>3, <1>8, SetPredTyped, SetSucTyped DEF ProcessNotifySuc, TypeOK, Within, InFlight
<1>9. CASE ProcessRingstate(m)
  <2>1. Within(net', Message)
    BY <1>2, <1>9, PostWithin, DatagramTyped DEF ProcessRingstate, MessageType, TypeOK
  <2>. QED  BY <1>3, <1>9, <2>1 DEF ProcessRingstate, TypeOK, Within, InFlight, pointers, digests
<1>10. CASE ProcessGetPredSucReq(m)
  <2>1. Within(net', Message)
    BY <1>2, <1>10, PostWithin, DatagramTyped DEF ProcessGetPredSucReq, MessageType, TypeOK
  <2>. QED  BY <1>3, <1>10, <2>1 DEF ProcessGetPredSucReq, TypeOK, Within, InFlight, pointers, digests
<1>11. CASE ProcessGetPredSucRsp(m)
  <2>1. CASE GetPredSucRspAbove(m)
    <3>1. Within(net', Message)
      BY <1>2, <2>1, PostWithin, DatagramTyped DEF GetPredSucRspAbove, MessageType, TypeOK
    <3>2. MixedHash(m_pred[m.dst], m.name) \in Digest
      BY MixedHashTyped DEF TypeOK
    <3>. QED  BY <1>3, <2>1, <3>1, <3>2 DEF GetPredSucRspAbove, TypeOK, Within, InFlight
  <2>2. CASE GetPredSucRspIgnored(m)
    BY <1>2, <1>3, <2>2 DEF GetPredSucRspIgnored, TypeOK, Within, InFlight, pointers, digests
  <2>. QED  BY <1>11, <2>1, <2>2 DEF ProcessGetPredSucRsp
<1>. QED  BY <1>4, <1>5, <1>6, <1>7, <1>8, <1>9, <1>10, <1>11 DEF RecvMessage

\* The type invariant: whatever commands, datagrams, losses and timers interleave,
\* every pointer is a name and every datagram in flight has a node to go to.
THEOREM TypeCorrect == Spec => []TypeOK
<1>1. Init => TypeOK
  <2>. SUFFICES ASSUME Init PROVE TypeOK
    OBVIOUS
  <2>1. IsABag(net) /\ InFlight \subseteq Message
    BY EmptyNet DEF Init, InFlight
  <2>. QED  BY <2>1 DEF Init, TypeOK, Name, Digest
<1>2. TypeOK /\ [Next]_vars => TypeOK'
  <2>. SUFFICES ASSUME TypeOK, [Next]_vars PROVE TypeOK'
    OBVIOUS
  <2>0. Within(net, Message)
    BY DEF TypeOK, Within, InFlight
  <2>1. ASSUME NEW n \in Node, ProcessCommand(n) PROVE TypeOK'
    BY <2>1, CommandTyped
  <2>2. ASSUME NEW n \in Node, StopApplication(n) PROVE TypeOK'
    <3>1. issued' \in [Node -> [Command -> Nat]] /\ usedStopped' \subseteq Node
      BY <2>2, IssueTyped DEF StopApplication, Command
    <3>. QED  BY <2>2, <3>1 DEF StopApplication, TypeOK, InFlight, pointers, digests
  <2>3. ASSUME NEW n \in Node, Stabilize(n) PROVE TypeOK'
    <3>1. Within(net', Message)
      BY <2>0, <2>3, PostWithin, DatagramTyped, NodeIsName DEF Stabilize, MessageType, TypeOK
    <3>. QED  BY <2>3, <3>1 DEF Stabilize, TypeOK, Within, InFlight, pointers, digests, scenario
  <2>4. ASSUME NEW m \in InFlight, RecvMessage(m) PROVE TypeOK'
    BY <2>4, RecvTyped
  <2>5. ASSUME NEW m \in InFlight, Lose(m) PROVE TypeOK'
    <3>1. Within(net', Message)
      BY <2>0, <2>5, TakeWithin DEF Lose
    <3>. QED  BY <2>5, <3>1 DEF Lose, TypeOK, Within, InFlight, pointers, digests, control, scenario
  <2>6. CASE UNCHANGED vars
    BY <2>6 DEF vars, TypeOK, InFlight
  <2>. QED  BY <2>1, <2>2, <2>3, <2>4, <2>5, <2>6 DEF Next
<1>. QED  BY <1>1, <1>2, PTL DEF Spec


-----------------------------------------------------------------------------
(* Commands only accumulate.                                               *)

LEMMA IssueGrows ==
    ASSUME TypeOK, NEW n \in Node, NEW c \in Command, Issue(n, c)
    PROVE  /\ issued'[n][c] = issued[n][c] + 1
           /\ \A d \in Command \ {c} : issued'[n][d] = issued[n][d]
           /\ \A k \in Node \ {n} : issued'[k] = issued[k]
BY DEF TypeOK, Issue

\* No step forgets that a node was told to enter.
LEMMA EnteredGrows ==
    ASSUME TypeOK, NEW n \in Node, NEW c \in Command, Issue(n, c)
    PROVE  /\ Entered \subseteq Entered'
           /\ c \in {"CREATE", "JOIN", "LEAVE"} => n \in Entered'
<1>1. \A k \in Node, d \in Command : issued'[k][d] \in Nat /\ issued[k][d] \in Nat
  BY IssueTyped DEF TypeOK
<1>2. \A k \in Node, d \in Command : issued'[k][d] >= issued[k][d]
  BY <1>1, IssueGrows
<1>3. {"CREATE", "JOIN", "LEAVE"} \subseteq Command
  BY DEF Command
<1>4. Entered \subseteq Entered'
  <2>. SUFFICES ASSUME NEW k \in Entered PROVE k \in Entered'
    OBVIOUS
  <2>. PICK d \in {"CREATE", "JOIN", "LEAVE"} : issued[k][d] > 0
    BY DEF Entered, Commanded
  <2>1. k \in Node /\ issued'[k][d] > 0
    BY <1>1, <1>2, <1>3 DEF Entered
  <2>. QED  BY <2>1 DEF Entered, Commanded
<1>5. ASSUME c \in {"CREATE", "JOIN", "LEAVE"} PROVE n \in Entered'
  <2>1. issued'[n][c] > 0
    BY <1>1, IssueGrows
  <2>. QED  BY <1>5, <2>1 DEF Entered, Commanded
<1>. QED  BY <1>4, <1>5

-----------------------------------------------------------------------------
(* Bystanders.  E stands for the nodes that were told to enter.            *)

PointersInside(pred, suc, E) ==
    \A n \in Node : /\ pred[n] \in E \cup {NoNode} /\ suc[n] \in E \cup {NoNode}
                    /\ n \notin E => pred[n] = NoNode /\ suc[n] = NoNode

Inside(E) ==
    {m \in Message : /\ m.src \in E
                     /\ m.name \in E \cup {NoNode} /\ m.pname \in E \cup {NoNode}
                     /\ m.dst \in E \/ m.type = "JOIN_REQ"}

LEMMA StayOutShape ==
    ASSUME TypeOK
    PROVE  BystandersStayOut <=> /\ PointersInside(m_pred, m_suc, Entered)
                                 /\ Within(net, Inside(Entered))
BY DEF TypeOK, BystandersStayOut, PointersInside, Within, Inside, InFlight

LEMMA InsideGrows ==
    ASSUME NEW E, NEW F, E \subseteq F
    PROVE  /\ \A p, s : PointersInside(p, s, E) => PointersInside(p, s, F)
           /\ \A b : Within(b, Inside(E)) => Within(b, Inside(F))
BY DEF PointersInside, Within, Inside

\* A datagram between entered nodes that names entered nodes only.
LEMMA DatagramInside ==
    ASSUME NEW E, E \subseteq Node, NEW t \in MessageType, NEW from \in E,
           NEW to \in E \cup {NoNode}, NEW a \in E \cup {NoNode}
    PROVE  Datagram(t, from, to, a).dst = NoNode \/ Datagram(t, from, to, a) \in Inside(E)
BY DEF Datagram, Inside, Message, Name

LEMMA JoinRspInside ==
    ASSUME NEW E, E \subseteq Node, NEW from \in E, NEW to \in E \cup {NoNode},
           NEW s \in E \cup {NoNode}, NEW p \in E \cup {NoNode}
    PROVE  JoinRsp(from, to, s, p).dst = NoNode \/ JoinRsp(from, to, s, p) \in Inside(E)
BY DEF JoinRsp, Inside, Message, Name, MessageType

\* Receiving: a bystander can only be asked to admit a joiner, and its search
\* goes to the empty name.
LEMMA RecvInside ==
    ASSUME TypeOK, NEW E, E \subseteq Node, PointersInside(m_pred, m_suc, E),
           Within(net, Inside(E)), NEW m \in InFlight, RecvMessage(m)
    PROVE  PointersInside(m_pred', m_suc', E) /\ Within(net', Inside(E))
<1>1. Within(Take(net, m), Inside(E))
  BY TakeWithin
<1>2. /\ m \in Message /\ m.src \in E /\ m.name \in E \cup {NoNode}
      /\ m.pname \in E \cup {NoNode}
      /\ (m.dst \in E \/ m.type = "JOIN_REQ")
  BY DEF Within, Inside, InFlight
<1>3. m.dst \in Node
  BY <1>2 DEF Message
<1>4. m_pred[m.dst] \in E \cup {NoNode} /\ m_suc[m.dst] \in E \cup {NoNode}
  BY <1>3 DEF PointersInside
<1>5. m.type # "JOIN_REQ" => m.dst \in E
  BY <1>2
<1>6. \A p, k : p \in E \cup {NoNode} /\ k \in E =>
          /\ PointersInside([m_pred EXCEPT ![k] = p], m_suc, E)
          /\ PointersInside(m_pred, [m_suc EXCEPT ![k] = p], E)
          /\ \A q \in E \cup {NoNode} :
               PointersInside([m_pred EXCEPT ![k] = q], [m_suc EXCEPT ![k] = p], E)
  BY DEF PointersInside, TypeOK
<1>7. CASE ProcessJoinReq(m)
  <2>1. CASE m.dst \in E
    BY <1>1, <1>2, <1>4, <1>7, <2>1, PostWithin, DatagramInside, JoinRspInside
       DEF ProcessJoinReq, MessageType, pointers
  <2>2. CASE m.dst \notin E
    <3>1. m_suc[m.dst] = NoNode /\ NoNode # m.dst
      BY <1>3, <2>2, NoNodeAssumption DEF PointersInside
    <3>2. net' = Post(Take(net, m), Datagram("FIND_SUC_REQ", m.dst, NoNode, m.name))
      BY <1>7, <3>1 DEF ProcessJoinReq
    <3>3. Within(net', Inside(E))
      BY <1>1, <3>2, PostWithin DEF Datagram
    <3>. QED  BY <1>7, <3>3 DEF ProcessJoinReq, pointers
  <2>. QED  BY <2>1, <2>2
<1>8. CASE ProcessFindSucReq(m)
  <2>0. m.dst \in E
    BY <1>5, <1>8 DEF ProcessFindSucReq, FindSucReqSelf, FindSucReqAbove, FindSucReqForward,
                      FindSucReqBelow
  <2>1. CASE FindSucReqSelf(m)
    BY <1>1, <2>1 DEF FindSucReqSelf, pointers
  <2>2. CASE FindSucReqAbove(m)
    BY <1>1, <1>2, <1>4, <1>6, <2>0, <2>2, PostWithin, JoinRspInside DEF FindSucReqAbove
  <2>3. CASE FindSucReqForward(m)
    BY <1>1, <1>2, <1>4, <2>0, <2>3, PostWithin, DatagramInside
       DEF FindSucReqForward, MessageType, pointers
  <2>4. CASE FindSucReqBelow(m)
    BY <1>1, <1>2, <1>4, <1>6, <2>0, <2>4, PostWithin, JoinRspInside
       DEF FindSucReqBelow, SetPred
  <2>. QED  BY <1>8, <2>1, <2>2, <2>3, <2>4 DEF ProcessFindSucReq
<1>9. CASE ProcessJoinRsp(m)
  <2>1. m.dst \in E
    BY <1>5, <1>9 DEF ProcessJoinRsp
  <2>2. Within(net', Inside(E))
    BY <1>1, <1>2, <1>9, <2>1, PostWithin, DatagramInside DEF ProcessJoinRsp, MessageType
  <2>. QED  BY <1>2, <1>6, <1>9, <2>1, <2>2 DEF ProcessJoinRsp, SetPred, SetSuc
<1>10. CASE ProcessNotifyPred(m)
  <2>1. m.dst \in E
    BY <1>5, <1>10 DEF ProcessNotifyPred
  <2>2. Within(net', Inside(E))
    BY <1>1, <1>10 DEF ProcessNotifyPred
  <2>3. CASE m_pred[m.dst] = m.dst
    <3>1. m_pred' = [m_pred EXCEPT ![m.dst] = m.name] /\ m_suc' = [m_suc EXCEPT ![m.dst] = m.name]
      BY <1>10, <2>3 DEF ProcessNotifyPred, SetPred, SetSuc
    <3>. QED  BY <1>2, <1>6, <2>1, <2>2, <3>1
  <2>4. CASE m_pred[m.dst] # m.dst
    <3>1. m_pred' = m_pred /\ m_suc' = [m_suc EXCEPT ![m.dst] = m.name]
      BY <1>10, <2>4 DEF ProcessNotifyPred, SetPred, SetSuc
    <3>. QED  BY <1>2, <1>6, <2>1, <2>2, <3>1
  <2>. QED  BY <2>3, <2>4
<1>11. CASE ProcessNotifySuc(m)
  <2>1. m.dst \in E
    BY <1>5, <1>11 DEF ProcessNotifySuc
  <2>2. Within(net', Inside(E))
    BY <1>1, <1>11 DEF ProcessNotifySuc
  <2>3. CASE m_suc[m.dst] = m.dst
    <3>1. m_suc' = [m_suc EXCEPT ![m.dst] = m.name] /\ m_pred' = [m_pred EXCEPT ![m.dst] = m.name]
      BY <1>11, <2>3 DEF ProcessNotifySuc, SetPred, SetSuc
    <3>. QED  BY <1>2, <1>6, <2>1, <2>2, <3>1
  <2>4. CASE m_suc[m.dst] # m.dst
    <3>1. m_suc' = m_suc /\ m_pred' = [m_pred EXCEPT ![m.dst] = m.name]
      BY <1>11, <2>4 DEF ProcessNotifySuc, SetPred, SetSuc
    <3>. QED  BY <1>2, <1>6, <2>1, <2>2, <3>1
  <2>. QED  BY <2>3, <2>4
<1>12. CASE ProcessRingstate(m)
  <2>1. m.dst \in E
    BY <1>5, <1>12 DEF ProcessRingstate
  <2>. QED  BY <1>1, <1>2, <1>4, <1>12, <2>1, PostWithin, DatagramInside
               DEF ProcessRingstate, MessageType, pointers
<1>13. CASE ProcessGetPredSucReq(m)
  <2>1. m.dst \in E
    BY <1>5, <1>13 DEF ProcessGetPredSucReq
  <2>. QED  BY <1>1, <1>2, <1>4, <1>13, <2>1, PostWithin, DatagramInside
               DEF ProcessGetPredSucReq, MessageType, pointers
<1>14. CASE ProcessGetPredSucRsp(m)
  <2>1. m.dst \in E
    BY <1>5, <1>14 DEF ProcessGetPredSucRsp
  <2>2. CASE GetPredSucRspAbove(m)
    BY <1>1, <1>2, <1>6, <2>1, <2>2, PostWithin, DatagramInside
       DEF GetPredSucRspAbove, MessageType
  <2>3. CASE GetPredSucRspIgnored(m)
    BY <1>1, <2>3 DEF GetPredSucRspIgnored, pointers
  <2>. QED  BY <1>14, <2>2, <2>3 DEF ProcessGetPredSucRsp
<1>. QED  BY <1>7, <1>8, <1>9, <1>10, <1>11, <1>12, <1>13, <1>14 DEF RecvMessage


\* Commands: a bystander's RINGSTATE goes to the empty name, and every other
\* command makes the node one that was told to enter.
LEMMA CommandInside ==
    ASSUME TypeOK, NEW n \in Node, ProcessCommand(n), BystandersStayOut
    PROVE  PointersInside(m_pred', m_suc', Entered') /\ Within(net', Inside(Entered'))
<1>1. PointersInside(m_pred, m_suc, Entered) /\ Within(net, Inside(Entered))
  BY StayOutShape
<1>2. Entered' \subseteq Node
  BY DEF Entered
<1>3. ASSUME NEW c \in Command, Issue(n, c)
      PROVE  PointersInside(m_pred, m_suc, Entered') /\ Within(net, Inside(Entered'))
  BY <1>1, <1>3, EnteredGrows, InsideGrows
<1>4. CASE CreateChord(n)
  <2>1. /\ n \in Entered'
        /\ PointersInside(m_pred, m_suc, Entered') /\ Within(net, Inside(Entered'))
    BY <1>3, <1>4, EnteredGrows DEF CreateChord, Command
  <2>2. \/ m_pred' = m_pred /\ m_suc' = m_suc
        \/ m_pred' = [m_pred EXCEPT ![n] = n] /\ m_suc' = [m_suc EXCEPT ![n] = n]
    BY <1>4 DEF CreateChord, pointers, SetPred, SetSuc
  <2>3. net' = net
    BY <1>4 DEF CreateChord
  <2>. QED  BY <2>1, <2>2, <2>3 DEF PointersInside, TypeOK
<1>5. CASE \E target \in Contact[n] : JoinChord(n, target)
  <2>. PICK target \in Contact[n] : JoinChord(n, target)
    BY <1>5
  <2>1. /\ n \in Entered'
        /\ PointersInside(m_pred, m_suc, Entered') /\ Within(net, Inside(Entered'))
    BY <1>3, EnteredGrows DEF JoinChord, Command
  <2>2. \/ Datagram("JOIN_REQ", n, target, n).dst = NoNode
        \/ Datagram("JOIN_REQ", n, target, n) \in Inside(Entered')
    BY <2>1, BoundAssumption DEF Datagram, Inside, Message, MessageType, Name
  <2>3. Within(net', Inside(Entered'))
    BY <2>1, <2>2, PostWithin DEF JoinChord
  <2>. QED  BY <2>1, <2>3 DEF JoinChord, pointers
<1>6. CASE StartRingstate(n)
  <2>1. PointersInside(m_pred, m_suc, Entered') /\ Within(net, Inside(Entered'))
    BY <1>3, <1>6 DEF StartRingstate, Command
  <2>2. CASE n \in Entered'
    <3>1. m_suc[n] \in Entered' \cup {NoNode}
      BY <2>1 DEF PointersInside
    <3>. QED  BY <1>2, <1>6, <2>1, <2>2, <3>1, PostWithin, DatagramInside
                 DEF StartRingstate, MessageType, pointers
  <2>3. CASE n \notin Entered'
    <3>1. Datagram("RINGSTATE", n, m_suc[n], n).dst = NoNode
      BY <2>1, <2>3 DEF PointersInside, Datagram
    <3>. QED  BY <1>6, <2>1, <3>1, PostWithin DEF StartRingstate, pointers
  <2>. QED  BY <2>2, <2>3
<1>7. CASE NodeLeave(n)
  <2>1. /\ n \in Entered'
        /\ PointersInside(m_pred, m_suc, Entered') /\ Within(net, Inside(Entered'))
    BY <1>3, <1>7, EnteredGrows DEF NodeLeave, Command
  <2>2. m_pred' = [m_pred EXCEPT ![n] = n] /\ m_suc' = [m_suc EXCEPT ![n] = n]
    BY <1>7 DEF NodeLeave
  <2>3. m_pred'[n] = n /\ m_suc'[n] = n
    BY <2>2 DEF TypeOK
  <2>4. Within(net', Inside(Entered'))
    BY <1>2, <1>7, <2>1, <2>3, PostWithin, DatagramInside DEF NodeLeave, MessageType
  <2>. QED  BY <2>1, <2>2, <2>4 DEF PointersInside, TypeOK
<1>8. CASE CommandWithoutSocket(n)
  BY <1>3, <1>8 DEF CommandWithoutSocket, Command, pointers
<1>. QED  BY <1>4, <1>5, <1>6, <1>7, <1>8 DEF ProcessCommand

\* Nodes nobody told to enter stay outside the ring: for every number of nodes, of
\* commands and of datagrams.  BystandersStayOut is inductive beside the types.
THEOREM BystandersSafe == Spec => []BystandersStayOut
<1>1. Init => BystandersStayOut
  BY EmptyNet DEF Init, BystandersStayOut, InFlight
<1>2. TypeOK /\ TypeOK' /\ BystandersStayOut /\ [Next]_vars => BystandersStayOut'
  <2>. SUFFICES ASSUME TypeOK, TypeOK', BystandersStayOut, [Next]_vars
                PROVE  BystandersStayOut'
    OBVIOUS
  <2>0. PointersInside(m_pred, m_suc, Entered) /\ Within(net, Inside(Entered))
    BY StayOutShape
  <2>. SUFFICES PointersInside(m_pred', m_suc', Entered') /\ Within(net', Inside(Entered'))
    BY DEF TypeOK, BystandersStayOut, PointersInside, Within, Inside, InFlight
  <2>1. ASSUME NEW n \in Node, ProcessCommand(n)
        PROVE  PointersInside(m_pred', m_suc', Entered') /\ Within(net', Inside(Entered'))
    BY <2>1, CommandInside
  <2>2. ASSUME NEW n \in Node, StopApplication(n)
        PROVE  PointersInside(m_pred', m_suc', Entered') /\ Within(net', Inside(Entered'))
    BY <2>0, <2>2, EnteredGrows, InsideGrows DEF StopApplication, Command, pointers
  <2>. Entered \subseteq Node
    BY DEF Entered
  <2>3. ASSUME NEW n \in Node, Stabilize(n)
        PROVE  PointersInside(m_pred', m_suc', Entered') /\ Within(net', Inside(Entered'))
    <3>1. Entered' = Entered
      BY <2>3 DEF Stabilize, Entered, Commanded, scenario
    <3>2. CASE m_socket[n] /\ n \in Entered
      <4>1. m_suc[n] \in Entered \cup {NoNode}
        BY <2>0 DEF PointersInside
      <4>. QED  BY <2>0, <2>3, <3>1, <3>2, <4>1, PostWithin, DatagramInside
                   DEF Stabilize, MessageType, pointers
    <3>3. CASE m_socket[n] /\ n \notin Entered
      <4>1. Datagram("GET_PRED_SUC_REQ", n, m_suc[n], n).dst = NoNode
        BY <2>0, <3>3 DEF PointersInside, Datagram
      <4>. QED  BY <2>0, <2>3, <3>1, <3>3, <4>1, PostWithin DEF Stabilize, pointers
    <3>4. CASE ~m_socket[n]
      BY <2>0, <2>3, <3>1, <3>4 DEF Stabilize, pointers
    <3>. QED  BY <3>2, <3>3, <3>4
  <2>4. ASSUME NEW m \in InFlight, RecvMessage(m)
        PROVE  PointersInside(m_pred', m_suc', Entered') /\ Within(net', Inside(Entered'))
    <3>1. Entered' = Entered
      BY <2>4 DEF RecvMessage, Entered, Commanded, scenario
    <3>. QED  BY <2>0, <2>4, <3>1, RecvInside
  <2>5. ASSUME NEW m \in InFlight, Lose(m)
        PROVE  PointersInside(m_pred', m_suc', Entered') /\ Within(net', Inside(Entered'))
    <3>1. Entered' = Entered
      BY <2>5 DEF Lose, Entered, Commanded, scenario
    <3>. QED  BY <2>0, <2>5, <3>1, TakeWithin DEF Lose, pointers
  <2>6. CASE UNCHANGED vars
    <3>1. Entered' = Entered
      BY <2>6 DEF vars, Entered, Commanded
    <3>. QED  BY <2>0, <2>6, <3>1 DEF vars
  <2>. QED  BY <2>1, <2>2, <2>3, <2>4, <2>5, <2>6 DEF Next
<1>. QED  BY <1>1, <1>2, TypeCorrect, PTL DEF Spec


-----------------------------------------------------------------------------
(* A ring needs a founder.                                                 *)

Unfounded == \A n \in Node : ~Commanded(n, {"CREATE", "LEAVE"})
Requests == {m \in Message : m.type = "JOIN_REQ"}

LEMMA NeedsFounderShape ==
    ASSUME TypeOK
    PROVE  RingNeedsFounder <=>
             (Unfounded => (\A n \in Node : m_suc[n] = NoNode) /\ Within(net, Requests))
BY DEF RingNeedsFounder, Unfounded, Requests, InRing, TypeOK, Within, InFlight

\* A step that ends without a founder started without one, and was no founding.
LEMMA StillUnfounded ==
    ASSUME TypeOK, NEW n \in Node, NEW c \in Command, Issue(n, c), Unfounded'
    PROVE  Unfounded /\ c \notin {"CREATE", "LEAVE"}
<1>1. \A k \in Node, d \in Command : issued'[k][d] \in Nat /\ issued[k][d] \in Nat
  BY IssueTyped DEF TypeOK
<1>2. \A k \in Node, d \in Command : issued'[k][d] >= issued[k][d]
  BY <1>1, IssueGrows
<1>3. {"CREATE", "LEAVE"} \subseteq Command
  BY DEF Command
<1>4. \A k \in Node, d \in {"CREATE", "LEAVE"} : ~(issued'[k][d] > 0)
  BY DEF Unfounded, Commanded
<1>5. Unfounded
  BY <1>1, <1>2, <1>3, <1>4 DEF Unfounded, Commanded
<1>6. issued'[n][c] > 0
  BY <1>1, IssueGrows
<1>. QED  BY <1>4, <1>5, <1>6

\* Before anything founds a ring, JOIN puts no node into one.
THEOREM FounderNeeded == Spec => []RingNeedsFounder
<1>1. Init => RingNeedsFounder
  BY EmptyNet DEF Init, RingNeedsFounder, InRing, InFlight
<1>2. TypeOK /\ TypeOK' /\ RingNeedsFounder /\ [Next]_vars => RingNeedsFounder'
  <2>. SUFFICES ASSUME TypeOK, TypeOK', RingNeedsFounder, [Next]_vars, Unfounded'
                PROVE  (\A n \in Node : m_suc'[n] = NoNode) /\ Within(net', Requests)
    BY DEF TypeOK, RingNeedsFounder, Unfounded, InRing, Within, Requests, InFlight
  <2>. DEFINE Empty == (\A n \in Node : m_suc[n] = NoNode) /\ Within(net, Requests)
  <2>1. Unfounded => Empty
    BY NeedsFounderShape
  <2>2. ASSUME NEW n \in Node, NEW c \in Command, Issue(n, c)
        PROVE  Empty /\ c \notin {"CREATE", "LEAVE"}
    BY <2>1, <2>2, StillUnfounded
  <2>3. (UNCHANGED issued) => Empty
    BY <2>1 DEF Unfounded, Commanded
  <2>4. ASSUME NEW b, Within(b, Requests), NEW m, m.dst = NoNode PROVE Within(Post(b, m), Requests)
    BY <2>4, PostWithin
  <2>5. ASSUME NEW n \in Node, ProcessCommand(n)
        PROVE  (\A k \in Node : m_suc'[k] = NoNode) /\ Within(net', Requests)
    <3>1. ~CreateChord(n) /\ ~NodeLeave(n)
      BY <2>2 DEF CreateChord, NodeLeave, Command
    <3>2. CASE \E target \in Contact[n] : JoinChord(n, target)
      <4>. PICK target \in Contact[n] : JoinChord(n, target)
        BY <3>2
      <4>1. Empty
        BY <2>2 DEF JoinChord, Command
      <4>2. \/ Datagram("JOIN_REQ", n, target, n).dst = NoNode
            \/ Datagram("JOIN_REQ", n, target, n) \in Requests
        BY BoundAssumption DEF Datagram, Requests, Message, MessageType, Name
      <4>. QED  BY <4>1, <4>2, PostWithin DEF JoinChord, pointers
    <3>3. CASE StartRingstate(n)
      <4>1. Empty
        BY <2>2, <3>3 DEF StartRingstate, Command
      <4>2. Datagram("RINGSTATE", n, m_suc[n], n).dst = NoNode
        BY <4>1 DEF Datagram
      <4>. QED  BY <2>4, <3>3, <4>1, <4>2 DEF StartRingstate, pointers
    <3>4. CASE CommandWithoutSocket(n)
      BY <2>2, <3>4 DEF CommandWithoutSocket, Command, pointers
    <3>. QED  BY <2>5, <3>1, <3>2, <3>3, <3>4 DEF ProcessCommand
  <2>6. ASSUME NEW n \in Node, StopApplication(n)
        PROVE  (\A k \in Node : m_suc'[k] = NoNode) /\ Within(net', Requests)
    BY <2>2, <2>6 DEF StopApplication, Command, pointers
  <2>7. ASSUME NEW n \in Node, Stabilize(n)
        PROVE  (\A k \in Node : m_suc'[k] = NoNode) /\ Within(net', Requests)
    <3>1. Empty
      BY <2>3, <2>7 DEF Stabilize, scenario
    <3>2. Datagram("GET_PRED_SUC_REQ", n, m_suc[n], n).dst = NoNode
      BY <3>1 DEF Datagram
    <3>. QED  BY <2>4, <2>7, <3>1, <3>2 DEF Stabilize, pointers
  <2>8. ASSUME NEW m \in InFlight, RecvMessage(m)
        PROVE  (\A k \in Node : m_suc'[k] = NoNode) /\ Within(net', Requests)
    <3>1. Empty
      BY <2>3, <2>8 DEF RecvMessage, scenario
    <3>2. m.type = "JOIN_REQ" /\ m.dst \in Node
      BY <3>1 DEF Within, Requests, InFlight, Message
    <3>3. ProcessJoinReq(m)
      BY <2>8, <3>2 DEF RecvMessage, ProcessFindSucReq, FindSucReqSelf, FindSucReqAbove,
         FindSucReqForward, FindSucReqBelow, ProcessJoinRsp, ProcessNotifyPred,
         ProcessNotifySuc, ProcessRingstate, ProcessGetPredSucReq, ProcessGetPredSucRsp
    <3>4. m_suc[m.dst] = NoNode /\ m_suc[m.dst] # m.dst
      BY <3>1, <3>2, NoNodeAssumption
    <3>5. net' = Post(Take(net, m), Datagram("FIND_SUC_REQ", m.dst, NoNode, m.name))
      BY <3>3, <3>4 DEF ProcessJoinReq
    <3>6. Within(net', Requests)
      BY <2>4, <3>1, <3>5, TakeWithin DEF Datagram
    <3>. QED  BY <3>1, <3>3, <3>6 DEF ProcessJoinReq, pointers
  <2>9. ASSUME NEW m \in InFlight, Lose(m)
        PROVE  (\A k \in Node : m_suc'[k] = NoNode) /\ Within(net', Requests)
    <3>1. Empty
      BY <2>3, <2>9 DEF Lose, scenario
    <3>. QED  BY <2>9, <3>1, TakeWithin DEF Lose, pointers
  <2>10. CASE UNCHANGED vars
    BY <2>3, <2>10 DEF vars
  <2>. QED  BY <2>5, <2>6, <2>7, <2>8, <2>9, <2>10 DEF Next
<1>. QED  BY <1>1, <1>2, TypeCorrect, PTL DEF Spec


-----------------------------------------------------------------------------
(* The digest a node compares searches with.                               *)

\* Until it leaves, a node that was told to enter holds the digest of its name,
\* and any other node holds bytes nobody wrote.
OwnHash(k, hash, cmd) ==
    ~(cmd["LEAVE"] > 0) =>
        hash = IF \E c \in {"CREATE", "JOIN", "LEAVE"} : cmd[c] > 0 THEN Hash[k] ELSE Indeterminate

LEMMA OwnHashShape ==
    MyHashIsOwn <=> (aborted \/ \A k \in Node : OwnHash(k, m_my_hash[k], issued[k]))
BY DEF MyHashIsOwn, OwnHash, Commanded, Entered

\* Only JOIN, with any argument, writes the digest before LEAVE spoils it.
THEOREM MyHashOwn == Spec => []MyHashIsOwn
<1>1. Init => MyHashIsOwn
  <2>. SUFFICES ASSUME Init PROVE MyHashIsOwn
    OBVIOUS
  <2>1. \A n \in Node, c \in Command : issued[n][c] = 0
    BY DEF Init
  <2>2. Entered = {}
    BY <2>1 DEF Entered, Commanded, Command
  <2>. QED  BY <2>2 DEF Init, MyHashIsOwn
<1>2. TypeOK /\ MyHashIsOwn /\ [Next]_vars => MyHashIsOwn'
  <2>. SUFFICES ASSUME TypeOK, MyHashIsOwn, [Next]_vars, ~aborted', NEW k \in Node
                PROVE  OwnHash(k, m_my_hash'[k], issued'[k])
    BY DEF MyHashIsOwn, OwnHash, Commanded, Entered
  <2>0. UNCHANGED vars \/ ~aborted
    BY DEF Next, ProcessCommand, CreateChord, JoinChord, StartRingstate, NodeLeave,
       CommandWithoutSocket, StopApplication, Stabilize, RecvMessage, Lose, Issue, vars
  <2>1. OwnHash(k, m_my_hash[k], issued[k])
    BY <2>0, OwnHashShape DEF vars
  <2>2. ASSUME NEW n \in Node, NEW c \in Command, Issue(n, c),
               m_my_hash' = m_my_hash \/ (k # n /\ m_my_hash'[k] = m_my_hash[k]),
               c \in {"RINGSTATE", "STOP"} \/ k # n
        PROVE  OwnHash(k, m_my_hash'[k], issued'[k])
    <3>1. \A d \in {"CREATE", "JOIN", "LEAVE"} : issued'[k][d] = issued[k][d]
      BY <2>2, IssueGrows DEF Command
    <3>. QED  BY <2>1, <2>2, <3>1 DEF OwnHash
  <2>3. ASSUME NEW n \in Node, CreateChord(n) PROVE OwnHash(k, m_my_hash'[k], issued'[k])
    <3>1. m_my_hash' = [m_my_hash EXCEPT ![n] = Hash[n]] /\ Issue(n, "CREATE")
      BY <2>3 DEF CreateChord
    <3>2. CASE k # n
      BY <2>2, <3>1, <3>2 DEF TypeOK, Command
    <3>3. CASE k = n
      <4>1. m_my_hash'[k] = Hash[k]
        BY <3>1, <3>3 DEF TypeOK
      <4>2. issued'[k]["CREATE"] > 0
        BY <3>1, <3>3, IssueGrows, IssueTyped DEF TypeOK, Command
      <4>. QED  BY <4>1, <4>2 DEF OwnHash
    <3>. QED  BY <3>2, <3>3
  <2>4. ASSUME NEW n \in Node, NEW target \in Contact[n], JoinChord(n, target)
        PROVE  OwnHash(k, m_my_hash'[k], issued'[k])
    <3>1. m_my_hash' = [m_my_hash EXCEPT ![n] = Hash[n]] /\ Issue(n, "JOIN")
      BY <2>4 DEF JoinChord
    <3>2. CASE k # n
      BY <2>2, <3>1, <3>2 DEF TypeOK, Command
    <3>3. CASE k = n
      <4>1. m_my_hash'[k] = Hash[k]
        BY <3>1, <3>3 DEF TypeOK
      <4>2. issued'[k]["JOIN"] > 0
        BY <3>1, <3>3, IssueGrows, IssueTyped DEF TypeOK, Command
      <4>. QED  BY <4>1, <4>2 DEF OwnHash
    <3>. QED  BY <3>2, <3>3
  <2>5. ASSUME NEW n \in Node, StartRingstate(n) PROVE OwnHash(k, m_my_hash'[k], issued'[k])
    BY <2>2, <2>5 DEF StartRingstate, digests, Command
  <2>6. ASSUME NEW n \in Node, NodeLeave(n) PROVE OwnHash(k, m_my_hash'[k], issued'[k])
    <3>1. Issue(n, "LEAVE") /\ m_my_hash' = [m_my_hash EXCEPT ![n] = m_pred_hash[n]]
      BY <2>6 DEF NodeLeave
    <3>2. CASE k # n
      BY <2>2, <3>1, <3>2 DEF TypeOK, Command
    <3>3. CASE k = n
      <4>1. issued'[k]["LEAVE"] > 0
        BY <3>1, <3>3, IssueGrows, IssueTyped DEF TypeOK, Command
      <4>. QED  BY <4>1 DEF OwnHash
    <3>. QED  BY <3>2, <3>3
  <2>7. ASSUME NEW n \in Node, StopApplication(n) PROVE OwnHash(k, m_my_hash'[k], issued'[k])
    BY <2>2, <2>7 DEF StopApplication, digests, Command
  <2>8. ASSUME UNCHANGED <<m_my_hash, issued>> PROVE OwnHash(k, m_my_hash'[k], issued'[k])
    BY <2>1, <2>8
  <2>9. ASSUME NEW m \in InFlight, RecvMessage(m) PROVE UNCHANGED <<m_my_hash, issued>>
    BY <2>9 DEF RecvMessage, ProcessJoinReq, ProcessFindSucReq, FindSucReqSelf, FindSucReqAbove,
       FindSucReqForward, FindSucReqBelow, ProcessJoinRsp, ProcessNotifyPred, ProcessNotifySuc,
       ProcessRingstate, ProcessGetPredSucReq, ProcessGetPredSucRsp, GetPredSucRspAbove,
       GetPredSucRspIgnored, digests, scenario
  <2>10. \A n \in Node : ~CommandWithoutSocket(n)
    BY DEF CommandWithoutSocket
  <2>. QED  BY <2>3, <2>4, <2>5, <2>6, <2>7, <2>8, <2>9, <2>10
            DEF Next, ProcessCommand, Stabilize, Lose, digests, scenario, vars
<1>. QED  BY <1>1, <1>2, TypeCorrect, PTL DEF Spec

-----------------------------------------------------------------------------
(* What can kill the process.                                              *)

\* The strengthening: a pending timer remembers a CREATE, a closed socket a STOP.
CauseInv ==
    /\ AbortHasCause
    /\ \A n \in Node : m_stabilizeTimer[n] => issued[n]["CREATE"] > 0
    /\ \A n \in Node : ~m_socket[n] => issued[n]["STOP"] > 0

LEMMA CauseGrows ==
    ASSUME TypeOK, NEW n \in Node, NEW c \in Command, Issue(n, c), CauseInv
    PROVE  /\ \A k \in Node : m_stabilizeTimer[k] => issued'[k]["CREATE"] > 0
           /\ \A k \in Node : ~m_socket[k] => issued'[k]["STOP"] > 0
           /\ issued'[n][c] > 0
           /\ c = "CREATE" /\ m_stabilizeTimer[n] => issued'[n]["CREATE"] > 1
<1>1. \A k \in Node, d \in Command : issued'[k][d] \in Nat /\ issued[k][d] \in Nat
  BY IssueTyped DEF TypeOK
<1>2. \A k \in Node, d \in Command : issued'[k][d] >= issued[k][d]
  BY <1>1, IssueGrows
<1>3. "CREATE" \in Command /\ "STOP" \in Command
  BY DEF Command
<1>4. \A k \in Node, d \in Command : issued[k][d] > 0 => issued'[k][d] > 0
  BY <1>1, <1>2
<1>. QED  BY <1>1, <1>3, <1>4, IssueGrows DEF CauseInv

\* The simulator dies only of founding twice, of a command to a stopped node, or of the
\* timer that a founder keeps when it is stopped.
THEOREM AbortCaused == Spec => []AbortHasCause
<1>1. Init => CauseInv
  BY DEF Init, CauseInv, AbortHasCause
<1>2. TypeOK /\ CauseInv /\ [Next]_vars => CauseInv'
  <2>. SUFFICES ASSUME TypeOK, CauseInv, [Next]_vars PROVE CauseInv'
    OBVIOUS
  <2>1. CASE UNCHANGED vars
    BY <2>1 DEF vars, CauseInv, AbortHasCause, Commanded
  <2>. SUFFICES ASSUME Next PROVE CauseInv'
    BY <2>1
  <2>2. ASSUME NEW n \in Node, CreateChord(n) PROVE CauseInv'
    <3>1. Issue(n, "CREATE") /\ m_socket' = m_socket /\ ~aborted
      BY <2>2 DEF CreateChord, Issue
    <3>2. \A k \in Node : ~m_socket'[k] => issued'[k]["STOP"] > 0
      BY <3>1, CauseGrows DEF Command
    <3>3. \A k \in Node : m_stabilizeTimer'[k] => issued'[k]["CREATE"] > 0
      BY <2>2, <3>1, CauseGrows DEF CreateChord, Command, TypeOK
    <3>4. aborted' => m_stabilizeTimer[n]
      BY <2>2, <3>1 DEF CreateChord
    <3>5. aborted' => issued'[n]["CREATE"] > 1
      BY <3>1, <3>4, CauseGrows DEF Command
    <3>. QED  BY <3>2, <3>3, <3>5 DEF CauseInv, AbortHasCause
  <2>3. ASSUME NEW n \in Node, NEW c \in Command, Issue(n, c), UNCHANGED <<m_stabilizeTimer, m_socket>>,
               aborted' => c # "STOP" /\ ~m_socket[n]
        PROVE  CauseInv'
    <3>1. /\ \A k \in Node : m_stabilizeTimer'[k] => issued'[k]["CREATE"] > 0
          /\ \A k \in Node : ~m_socket'[k] => issued'[k]["STOP"] > 0
      BY <2>3, CauseGrows
    <3>2. aborted' => n \in usedStopped'
      BY <2>3 DEF Issue
    <3>. QED  BY <3>1, <3>2 DEF CauseInv, AbortHasCause
  <2>4. ASSUME NEW n \in Node, NodeLeave(n) \/ StartRingstate(n) PROVE CauseInv'
    BY <2>3, <2>4 DEF NodeLeave, StartRingstate, Issue, control, Command
  <2>5. ASSUME NEW n \in Node, NEW target \in Contact[n], JoinChord(n, target) PROVE CauseInv'
    BY <2>3, <2>5 DEF JoinChord, Issue, control, Command
  <2>6. ASSUME NEW n \in Node, CommandWithoutSocket(n) PROVE CauseInv'
    BY <2>3, <2>6 DEF CommandWithoutSocket, Command
  <2>7. ASSUME NEW n \in Node, StopApplication(n) PROVE CauseInv'
    <3>1. /\ Issue(n, "STOP") /\ m_stabilizeTimer' = m_stabilizeTimer /\ ~aborted'
          /\ m_socket' = [m_socket EXCEPT ![n] = FALSE]
      BY <2>7 DEF StopApplication, Issue
    <3>2. /\ \A k \in Node : m_stabilizeTimer[k] => issued'[k]["CREATE"] > 0
          /\ \A k \in Node : ~m_socket[k] => issued'[k]["STOP"] > 0
          /\ issued'[n]["STOP"] > 0
      BY <3>1, CauseGrows DEF Command
    <3>. QED  BY <3>1, <3>2 DEF CauseInv, AbortHasCause, TypeOK
  <2>8. ASSUME NEW n \in Node, Stabilize(n) PROVE CauseInv'
    <3>1. /\ UNCHANGED <<m_stabilizeTimer, m_socket, issued>> /\ m_stabilizeTimer[n] /\ ~aborted
          /\ aborted' => ~m_socket[n]
      BY <2>8 DEF Stabilize, scenario
    <3>2. aborted' => Commanded(n, {"CREATE"})' /\ Commanded(n, {"STOP"})'
      BY <3>1 DEF CauseInv, Commanded
    <3>. QED  BY <3>1, <3>2 DEF CauseInv, AbortHasCause
  <2>9. ASSUME UNCHANGED <<control, scenario>> PROVE CauseInv'
    BY <2>9 DEF CauseInv, AbortHasCause, Commanded, control, scenario
  <2>. QED  BY <2>2, <2>4, <2>5, <2>6, <2>7, <2>8, <2>9 DEF Next, ProcessCommand, RecvMessage, Lose
<1>3. CauseInv => AbortHasCause
  BY DEF CauseInv
<1>. QED  BY <1>1, <1>2, <1>3, TypeCorrect, PTL DEF Spec

=============================================================================
