-------------------------- MODULE ChordSearchProofs --------------------------
(***************************************************************************)
(* The searches of ChordRing.  As long as a node that joins once is        *)
(* searched for, nobody knows it: no pointer and no datagram but the one   *)
(* of its search names it.  So the node that answers the search cannot     *)
(* tell the joiner that it is its own neighbour, and no joiner ends up in  *)
(* a ring of its own.                                                      *)
(*                                                                         *)
(* With one founder and two such joiners the ring is kept whole.           *)
(*                                                                         *)
(* Nor are walks multiplied: the datagrams of a search, from the request   *)
(* to the answer, and those of a RINGSTATE are counted with their copies,  *)
(* and a handler that sends one has received one of the same walk.         *)
(***************************************************************************)
EXTENDS ChordRingProofs, FiniteSetTheorems

-----------------------------------------------------------------------------
(* How many copies of a datagram are in flight.                            *)

\* Sending changes the number of no other datagram.
LEMMA PostCount ==
    ASSUME NEW b, IsABag(b), NEW r
    PROVE  /\ \A k \in BagToSet(Post(b, r)) :
                k # r => k \in BagToSet(b) /\ Post(b, r)[k] = b[k]
           /\ r \notin BagToSet(b) /\ r.dst # NoNode => Post(b, r)[r] = 1
BY DEF Post, IsABag, BagToSet, SetToBag, (+)

\* Receiving changes the number of no other datagram and removes a single one.
LEMMA TakeCount ==
    ASSUME NEW b, IsABag(b), NEW m \in BagToSet(b)
    PROVE  /\ \A k \in BagToSet(Take(b, m)) :
                k # m => k \in BagToSet(b) /\ Take(b, m)[k] = b[k]
           /\ b[m] = 1 => m \notin BagToSet(Take(b, m))
BY DEF Take, IsABag, BagToSet, SetToBag, (-)

-----------------------------------------------------------------------------
(* The invariant.                                                          *)

IsSearch(m, j) == m.type \in {"JOIN_REQ", "FIND_SUC_REQ"} /\ m.name = j

\* Only searches name j, and it is sent nothing but requests of other joiners.
Unknown(j) ==
    /\ m_suc[j] = NoNode
    /\ \A k \in Node : m_pred[k] # j /\ m_suc[k] # j
    /\ \A m \in InFlight :
         /\ IsSearch(m, j) \/ (m.src # j /\ m.name # j /\ m.pname # j)
         /\ m.dst = j => m.type = "JOIN_REQ" /\ m.name # j

\* While j is searched for it is unknown, and the search is one datagram.
SearchSound(j) ==
    \A m \in InFlight : IsSearch(m, j) =>
        /\ Unknown(j)
        /\ net[m] = 1
        /\ \A k \in InFlight : IsSearch(k, j) => k = m

\* Nobody but a founder is told its own name; only founders stabilise.
DatagramSound(m, F) ==
    /\ m.type = "JOIN_REQ" => m.src = m.name /\ m.dst # m.name
    /\ m.type = "JOIN_RSP" /\ m.dst \notin F => m.name # m.dst /\ m.pname # m.dst
    /\ m.type = "NOTIFY_PRED" /\ m.dst \notin F => m.name # m.dst
    /\ m.type = "GET_PRED_SUC_REQ" => m.src \in F
    /\ m.type = "GET_PRED_SUC_RSP" => m.dst \in F

AloneSound ==
    /\ \A n \in Node : m_suc[n] = n => n \in Founders
    /\ \A n \in Node : m_stabilizeTimer[n] => n \in Founders
    /\ \A m \in InFlight : DatagramSound(m, Founders)
    /\ \A j \in Node \ Founders : SearchSound(j)

AloneInv == EachJoinsOnce => AloneSound

-----------------------------------------------------------------------------
(* What a handler does, as far as the invariant can tell: the datagram m   *)
(* is answered by r, which goes to the empty name where nothing is sent.   *)

ReplyNames(m) == {m.dst, m.src, m.name, m.pname, m_pred[m.dst], m_suc[m.dst], NoNode}

\* Where the reply's fields come from.
ReplySound(m, r) ==
    /\ {r.src, r.dst, r.name, r.pname} \subseteq ReplyNames(m)
    /\ r.type \notin {"JOIN_REQ", "GET_PRED_SUC_REQ"}
    /\ r.type = "FIND_SUC_REQ" => IsSearch(m, r.name) /\ r.src = m.dst /\ r.dst = m_suc[m.dst]
    /\ r.type = "JOIN_RSP" =>
         /\ m.type \in {"JOIN_REQ", "FIND_SUC_REQ"}
         /\ r.dst = IF m.type = "JOIN_REQ" THEN m.src ELSE m.name
         /\ r.src = m.dst /\ r.name = m.dst
         /\ r.pname \in {m_pred[m.dst], m_suc[m.dst]}
         /\ m.type = "JOIN_REQ" => m_suc[m.dst] = m.dst /\ r.pname = m.dst
    /\ r.type = "NOTIFY_PRED" => m.type = "JOIN_RSP" /\ r.name = m.dst /\ r.dst = m.pname
    /\ r.type = "GET_PRED_SUC_RSP" =>
         m.type = "GET_PRED_SUC_REQ" /\ r.dst = m.src /\ r.name = m_pred[m.dst]
    /\ r.type = "NOTIFY_SUC" => m.type = "GET_PRED_SUC_RSP" /\ r.name = m.dst
    /\ r.type = "RINGSTATE" /\ r.dst # NoNode => m.type = "RINGSTATE" /\ r.name = m.name
    /\ m.type = "JOIN_REQ" /\ m_suc[m.dst] = NoNode => r.dst = NoNode

\* What becomes of the pointers.
PointersSound(m) ==
    /\ \A k \in Node \ {m.dst} : m_pred'[k] = m_pred[k] /\ m_suc'[k] = m_suc[k]
    /\ m_pred'[m.dst] \in {m_pred[m.dst], m.name, m.pname}
    /\ \/ m_suc'[m.dst] = m_suc[m.dst]
       \/ m.type \in {"JOIN_RSP", "NOTIFY_PRED"} /\ m_suc'[m.dst] = m.name
       \/ /\ m.type = "GET_PRED_SUC_RSP" /\ m_suc'[m.dst] = m.name
          /\ MayExceed(Hash[m.name], m_my_hash[m.dst])
       \/ m.type = "NOTIFY_SUC" /\ m_suc[m.dst] = m.dst /\ m_suc'[m.dst] = m.name
    /\ m.type \in {"JOIN_RSP", "NOTIFY_PRED"} => m_suc'[m.dst] = m.name
    /\ m.type = "JOIN_REQ" => UNCHANGED pointers

\* What becomes of the predecessor and its digest.
PredecessorSound(m) ==
    /\ \A k \in Node \ {m.dst} : m_pred_hash'[k] = m_pred_hash[k]
    /\ \/ m_pred'[m.dst] = m_pred[m.dst] /\ m_pred_hash'[m.dst] = m_pred_hash[m.dst]
       \/ /\ m.type \in {"NOTIFY_PRED", "NOTIFY_SUC"}
          /\ m_pred'[m.dst] = m.name /\ m_pred_hash'[m.dst] = Hash[m.name]
       \/ m.type = "JOIN_RSP" /\ m_pred'[m.dst] = m.pname
       \/ /\ m.type = "FIND_SUC_REQ" /\ m_pred'[m.dst] = m.name
          /\ \/ MayExceed(m_my_hash[m.dst], Hash[m.name])
             \/ MayExceed(m_my_hash[m.dst], m_pred_hash[m.dst])

\* A search that is not answered changes nothing.
Answered(m) ==
    /\ PointersSound(m) /\ PredecessorSound(m)
    /\ \E r : /\ ReplySound(m, r) /\ net' = Post(Take(net, m), r)
              /\ m.type \in {"JOIN_REQ", "FIND_SUC_REQ"} /\ r.type # "JOIN_RSP"
                   => UNCHANGED <<pointers, m_pred_hash>>

\* No answer is one to the empty name.
LEMMA Unanswered ==
    ASSUME NEW m, net' = Take(net, m), PointersSound(m), PredecessorSound(m),
           m.type \in {"JOIN_REQ", "FIND_SUC_REQ"} => UNCHANGED <<pointers, m_pred_hash>>
    PROVE  Answered(m)
<1>. DEFINE r == Datagram("RINGSTATE", m.dst, NoNode, NoNode)
<1>1. ReplySound(m, r)
  BY DEF ReplySound, ReplyNames, Datagram
<1>2. net' = Post(Take(net, m), r)
  BY DEF Post, Datagram
<1>. HIDE DEF r
<1>. QED  BY <1>1, <1>2 DEF Answered

LEMMA Reply ==
    ASSUME TypeOK, NEW m \in InFlight, RecvMessage(m)
    PROVE  Answered(m)
<1>. USE NoNodeAssumption, InFlightTyped DEF pointers, digests
<1>0. /\ m.dst \in Node
      /\ DOMAIN m_pred = Node /\ DOMAIN m_suc = Node /\ DOMAIN m_pred_hash = Node
  BY DEF TypeOK
<1>1. ASSUME UNCHANGED <<pointers, m_pred_hash>>, m.type \notin {"JOIN_RSP", "NOTIFY_PRED"}
      PROVE  PointersSound(m) /\ PredecessorSound(m)
  BY <1>1 DEF PointersSound, PredecessorSound
<1>2. CASE ProcessJoinReq(m)
  <2>0. UNCHANGED <<pointers, m_pred_hash>> /\ m.type = "JOIN_REQ"
    BY <1>2 DEF ProcessJoinReq
  <2>1. CASE m_suc[m.dst] = m.dst
    <3>1. net' = Post(Take(net, m), JoinRsp(m.dst, m.src, m.dst, m.dst))
      BY <1>2, <2>1 DEF ProcessJoinReq
    <3>2. ReplySound(m, JoinRsp(m.dst, m.src, m.dst, m.dst))
      BY <1>0, <1>2, <2>1 DEF ProcessJoinReq, JoinRsp, ReplySound, ReplyNames
    <3>. QED  BY <1>1, <2>0, <3>1, <3>2 DEF Answered
  <2>2. CASE m_suc[m.dst] # m.dst
    <3>1. net' = Post(Take(net, m), Datagram("FIND_SUC_REQ", m.dst, m_suc[m.dst], m.name))
      BY <1>2, <2>2 DEF ProcessJoinReq
    <3>2. ReplySound(m, Datagram("FIND_SUC_REQ", m.dst, m_suc[m.dst], m.name))
      BY <1>0, <1>2 DEF ProcessJoinReq, Datagram, ReplySound, ReplyNames, IsSearch
    <3>. QED  BY <1>1, <2>0, <3>1, <3>2 DEF Answered
  <2>. QED  BY <2>1, <2>2
<1>3. CASE ProcessFindSucReq(m)
  <2>1. CASE FindSucReqSelf(m)
    <3>1. net' = Take(net, m) /\ UNCHANGED <<pointers, m_pred_hash>> /\ m.type = "FIND_SUC_REQ"
      BY <2>1 DEF FindSucReqSelf
    <3>. QED  BY <1>1, <3>1, Unanswered
  <2>2. CASE FindSucReqAbove(m)
    <3>1. ReplySound(m, JoinRsp(m.dst, m.name, m.dst, m_suc[m.dst]))
      BY <1>0, <2>2 DEF FindSucReqAbove, JoinRsp, ReplySound, ReplyNames
    <3>2. PointersSound(m)
      BY <1>0, <2>2 DEF FindSucReqAbove, PointersSound
    <3>3. PredecessorSound(m)
      BY <1>0, <2>2 DEF FindSucReqAbove, PredecessorSound
    <3>. QED  BY <2>2, <3>1, <3>2, <3>3 DEF FindSucReqAbove, Answered, JoinRsp
  <2>3. CASE FindSucReqForward(m)
    <3>1. ReplySound(m, Datagram("FIND_SUC_REQ", m.dst, m_suc[m.dst], m.name))
      BY <1>0, <2>3 DEF FindSucReqForward, Datagram, ReplySound, ReplyNames, IsSearch
    <3>. QED  BY <1>1, <2>3, <3>1 DEF FindSucReqForward, Answered
  <2>4. CASE FindSucReqBelow(m)
    <3>1. ReplySound(m, JoinRsp(m.dst, m.name, m.dst, m_pred[m.dst]))
      BY <1>0, <2>4 DEF FindSucReqBelow, JoinRsp, ReplySound, ReplyNames
    <3>2. PointersSound(m)
      BY <1>0, <2>4 DEF FindSucReqBelow, SetPred, PointersSound
    <3>3. PredecessorSound(m)
      BY <1>0, <2>4 DEF FindSucReqBelow, SetPred, PredecessorSound
    <3>. QED  BY <2>4, <3>1, <3>2, <3>3 DEF FindSucReqBelow, Answered, JoinRsp
  <2>. QED  BY <1>3, <2>1, <2>2, <2>3, <2>4 DEF ProcessFindSucReq
<1>4. CASE ProcessJoinRsp(m)
  <2>1. ReplySound(m, Datagram("NOTIFY_PRED", m.dst, m.pname, m.dst))
    BY <1>0, <1>4 DEF ProcessJoinRsp, Datagram, ReplySound, ReplyNames
  <2>2. PointersSound(m)
    BY <1>0, <1>4 DEF ProcessJoinRsp, SetPred, SetSuc, PointersSound
  <2>3. PredecessorSound(m)
    BY <1>0, <1>4 DEF ProcessJoinRsp, SetPred, PredecessorSound
  <2>. QED  BY <1>4, <2>1, <2>2, <2>3 DEF ProcessJoinRsp, Answered, Datagram
<1>5. CASE ProcessNotifyPred(m)
  <2>1. \/ SetPred(m.dst, m.name)
        \/ UNCHANGED <<m_pred, m_pred_hash>>
    BY <1>5 DEF ProcessNotifyPred
  <2>2. PointersSound(m) /\ PredecessorSound(m)
    BY <1>0, <1>5, <2>1 DEF ProcessNotifyPred, SetPred, SetSuc, PointersSound, PredecessorSound
  <2>3. net' = Take(net, m) /\ m.type \notin {"JOIN_REQ", "FIND_SUC_REQ"}
    BY <1>5 DEF ProcessNotifyPred
  <2>. QED  BY <2>2, <2>3, Unanswered
<1>6. CASE ProcessNotifySuc(m)
  <2>1. \/ m_suc[m.dst] = m.dst /\ m_suc' = [m_suc EXCEPT ![m.dst] = m.name]
        \/ m_suc' = m_suc
    BY <1>6 DEF ProcessNotifySuc, SetSuc
  <2>2. PointersSound(m) /\ PredecessorSound(m)
    BY <1>0, <1>6, <2>1 DEF ProcessNotifySuc, SetPred, PointersSound, PredecessorSound
  <2>3. net' = Take(net, m) /\ m.type \notin {"JOIN_REQ", "FIND_SUC_REQ"}
    BY <1>6 DEF ProcessNotifySuc
  <2>. QED  BY <2>2, <2>3, Unanswered
<1>7. CASE ProcessRingstate(m)
  <2>0. UNCHANGED <<pointers, m_pred_hash>> /\ m.type = "RINGSTATE"
    BY <1>7 DEF ProcessRingstate
  <2>1. CASE m.name = m.dst
    BY <1>1, <1>7, <2>0, <2>1, Unanswered DEF ProcessRingstate
  <2>2. CASE m.name # m.dst
    <3>1. ReplySound(m, Datagram("RINGSTATE", m.dst, m_suc[m.dst], m.name))
      BY <1>0, <1>7 DEF ProcessRingstate, Datagram, ReplySound, ReplyNames
    <3>. QED  BY <1>1, <1>7, <2>0, <2>2, <3>1 DEF ProcessRingstate, Answered
  <2>. QED  BY <2>1, <2>2
<1>8. CASE ProcessGetPredSucReq(m)
  <2>1. ReplySound(m, Datagram("GET_PRED_SUC_RSP", m.dst, m.src, m_pred[m.dst]))
    BY <1>0, <1>8 DEF ProcessGetPredSucReq, Datagram, ReplySound, ReplyNames
  <2>. QED  BY <1>1, <1>8, <2>1 DEF ProcessGetPredSucReq, Answered
<1>9. CASE ProcessGetPredSucRsp(m)
  <2>1. CASE GetPredSucRspAbove(m)
    <3>1. ReplySound(m, Datagram("NOTIFY_SUC", m.dst, m.name, m.dst))
      BY <1>0, <1>9 DEF ProcessGetPredSucRsp, Datagram, ReplySound, ReplyNames
    <3>2. PointersSound(m) /\ PredecessorSound(m)
      BY <1>0, <1>9, <2>1
      DEF ProcessGetPredSucRsp, GetPredSucRspAbove, PointersSound, PredecessorSound
    <3>. QED  BY <1>9, <2>1, <3>1, <3>2 DEF ProcessGetPredSucRsp, GetPredSucRspAbove, Answered
  <2>2. CASE GetPredSucRspIgnored(m)
    <3>1. net' = Take(net, m) /\ UNCHANGED <<pointers, m_pred_hash>> /\ m.type = "GET_PRED_SUC_RSP"
      BY <1>9, <2>2 DEF ProcessGetPredSucRsp, GetPredSucRspIgnored
    <3>. QED  BY <1>1, <3>1, Unanswered
  <2>. QED  BY <1>9, <2>1, <2>2 DEF ProcessGetPredSucRsp
<1>. QED  BY <1>2, <1>3, <1>4, <1>5, <1>6, <1>7, <1>8, <1>9 DEF RecvMessage

-----------------------------------------------------------------------------
(* A received datagram.                                                    *)

\* A datagram in flight after an answer was there before, or is the answer.
LEMMA AfterReply ==
    ASSUME NEW m \in InFlight, IsABag(net), NEW r, net' = Post(Take(net, m), r)
    PROVE  /\ InFlight' \subseteq InFlight \cup {r}
           /\ r.dst = NoNode => InFlight' \subseteq InFlight
           /\ \A k \in InFlight' : k # m /\ k # r => net'[k] = net[k]
           /\ net[m] = 1 => InFlight' \subseteq (InFlight \ {m}) \cup {r}
           /\ net[m] = 1 /\ r.dst = NoNode => InFlight' \subseteq InFlight \ {m}
           /\ net[m] = 1 /\ r.dst # NoNode /\ r \notin InFlight \ {m} => net'[r] = 1
<1>. DEFINE b == Take(net, m)
<1>1. IsABag(b) /\ BagToSet(b) \subseteq InFlight
  BY TakeBag DEF InFlight
<1>2. /\ \A k \in BagToSet(b) : k # m => b[k] = net[k]
      /\ net[m] = 1 => m \notin BagToSet(b)
  BY TakeCount DEF InFlight
<1>3. net' = Post(b, r) /\ InFlight' = BagToSet(net')
  BY DEF InFlight
<1>. HIDE DEF b
<1>4. /\ BagToSet(net') \subseteq BagToSet(b) \cup {r}
      /\ r.dst = NoNode => net' = b
  BY <1>1, <1>3, PostBag
<1>5. /\ \A k \in BagToSet(net') : k # r => k \in BagToSet(b) /\ net'[k] = b[k]
      /\ r \notin BagToSet(b) /\ r.dst # NoNode => net'[r] = 1
  BY <1>1, <1>3, PostCount
<1>. QED  BY <1>1, <1>2, <1>3, <1>4, <1>5

\* Another datagram than its search does not make a joiner known.
LEMMA StaysUnknown ==
    ASSUME TypeOK, NEW m \in InFlight, Answered(m), NEW j \in Node, Unknown(j), ~IsSearch(m, j)
    PROVE  Unknown(j)'
<1>. PICK r : ReplySound(m, r) /\ net' = Post(Take(net, m), r)
  BY DEF Answered
<1>1. /\ PointersSound(m)
      /\ m.dst \in Node /\ j # NoNode
  BY NoNodeAssumption, InFlightTyped DEF Answered
<1>2. /\ InFlight' \subseteq InFlight \cup {r}
      /\ r.dst = NoNode => InFlight' \subseteq InFlight
  BY AfterReply DEF TypeOK
<1>3. CASE m.dst = j
  <2>1. m.type = "JOIN_REQ" /\ m_suc[j] = NoNode
    BY <1>3 DEF Unknown
  <2>2. UNCHANGED pointers /\ InFlight' \subseteq InFlight
    BY <1>1, <1>2, <1>3, <2>1 DEF PointersSound, ReplySound
  <2>. QED  BY <2>2 DEF Unknown, pointers, IsSearch
<1>4. CASE m.dst # j
  <2>1. j \notin ReplyNames(m)
    BY <1>1, <1>4 DEF Unknown, ReplyNames
  <2>2. m_suc'[j] = NoNode /\ \A k \in Node : m_pred'[k] # j /\ m_suc'[k] # j
    BY <1>1, <1>4, <2>1 DEF Unknown, PointersSound, ReplyNames
  <2>3. r.src # j /\ r.dst # j /\ r.name # j /\ r.pname # j
    BY <2>1 DEF ReplySound
  <2>. QED  BY <1>2, <2>2, <2>3 DEF Unknown, IsSearch
<1>. QED  BY <1>3, <1>4

\* Nor does the search itself while it is passed on.
LEMMA SearchSounds ==
    ASSUME TypeOK, NEW m \in InFlight, Answered(m), NEW j \in Node, SearchSound(j),
           DatagramSound(m, Founders)
    PROVE  SearchSound(j)'
<1>. PICK r : /\ ReplySound(m, r) /\ net' = Post(Take(net, m), r)
              /\ r.type = "FIND_SUC_REQ" => UNCHANGED pointers
  BY DEF Answered, ReplySound, IsSearch
<1>1. j # NoNode /\ IsABag(net)
  BY NoNodeAssumption DEF TypeOK
<1>2. CASE ~IsSearch(m, j)
  <2>1. ~IsSearch(r, j)
    BY <1>2 DEF ReplySound, IsSearch
  <2>2. ASSUME NEW k \in InFlight', IsSearch(k, j)
        PROVE  k \in InFlight /\ net'[k] = net[k]
    BY <1>1, <1>2, <2>1, <2>2, AfterReply
  <2>. QED  BY <1>2, <2>2, StaysUnknown DEF SearchSound, IsSearch
<1>3. CASE IsSearch(m, j)
  <2>1. /\ Unknown(j) /\ net[m] = 1
        /\ \A k \in InFlight : IsSearch(k, j) => k = m
    BY <1>3 DEF SearchSound
  <2>2. /\ InFlight' \subseteq (InFlight \ {m}) \cup {r}
        /\ r.dst = NoNode => InFlight' \subseteq InFlight \ {m}
        /\ r.dst # NoNode /\ r \notin InFlight \ {m} => net'[r] = 1
    BY <1>1, <2>1, AfterReply
  <2>3. CASE r.dst = NoNode \/ ~IsSearch(r, j)
    BY <2>1, <2>2, <2>3 DEF SearchSound, IsSearch
  <2>4. CASE r.dst # NoNode /\ IsSearch(r, j)
    <3>1. r \notin InFlight \ {m}
      BY <2>1, <2>4
    <3>2. \A k \in InFlight' : IsSearch(k, j) => k = r /\ net'[k] = 1
      BY <2>1, <2>2, <2>4, <3>1
    <3>3. r.type = "FIND_SUC_REQ" /\ UNCHANGED pointers /\ r.dst = m_suc[m.dst]
      BY <2>4 DEF ReplySound, IsSearch
    <3>4. m_suc[m.dst] # j
      BY <2>1, InFlightTyped DEF Unknown
    <3>5. Unknown(j)'
      BY <2>1, <2>2, <2>4, <3>3, <3>4 DEF Unknown, pointers, IsSearch
    <3>. QED  BY <3>2, <3>5 DEF SearchSound, IsSearch
  <2>. QED  BY <2>3, <2>4
<1>. QED  BY <1>2, <1>3

\* The answer to a sound datagram is sound, because who is searched for is unknown.
LEMMA ReplyDatagramSound ==
    ASSUME TypeOK, AloneSound, NEW m \in InFlight, NEW r, ReplySound(m, r), r.dst \in Node
    PROVE  DatagramSound(r, Founders)
<1>. DEFINE j == r.dst
<1>1. DatagramSound(m, Founders)
  BY DEF AloneSound
<1>2. ASSUME r.type = "JOIN_RSP", j \notin Founders
      PROVE  r.name # j /\ r.pname # j
  <2>1. IsSearch(m, j)
    BY <1>1, <1>2 DEF ReplySound, DatagramSound, IsSearch
  <2>2. Unknown(j)
    BY <1>2, <2>1 DEF AloneSound, SearchSound
  <2>3. m.dst \in Node /\ m.dst # j
    BY <2>1, <2>2, InFlightTyped DEF Unknown, IsSearch
  <2>4. m_pred[m.dst] # j /\ m_suc[m.dst] # j
    BY <2>2, <2>3 DEF Unknown
  <2>. QED  BY <1>2, <2>3, <2>4 DEF ReplySound
<1>3. r.type = "NOTIFY_PRED" /\ j \notin Founders => r.name # j
  BY <1>1 DEF ReplySound, DatagramSound
<1>. QED  BY <1>1, <1>2, <1>3 DEF ReplySound, DatagramSound

LEMMA RecvAlone ==
    ASSUME TypeOK, TypeOK', AloneSound, NEW m \in InFlight, RecvMessage(m)
    PROVE  AloneSound'
<1>. PICK r : ReplySound(m, r) /\ net' = Post(Take(net, m), r)
  BY Reply DEF Answered
<1>1. Answered(m) /\ PointersSound(m) /\ DatagramSound(m, Founders) /\ m.dst \in Node
  BY Reply, InFlightTyped DEF Answered, AloneSound
<1>2. Founders' = Founders /\ m_stabilizeTimer' = m_stabilizeTimer
  BY DEF RecvMessage, Founders, Commanded, control, scenario
<1>3. \A j \in Node \ Founders : SearchSound(j)'
  BY <1>1, SearchSounds DEF AloneSound
<1>4. ASSUME NEW k \in InFlight' PROVE DatagramSound(k, Founders)
  <2>1. k \in InFlight \/ (k = r /\ r.dst # NoNode)
    BY AfterReply DEF TypeOK
  <2>2. k.dst \in Node
    BY DEF TypeOK, Message
  <2>. QED  BY <2>1, <2>2, ReplyDatagramSound DEF AloneSound
<1>5. ASSUME NEW n \in Node, m_suc'[n] = n PROVE n \in Founders
  <2>1. CASE m_suc'[n] = m_suc[n]
    BY <1>5, <2>1 DEF AloneSound
  <2>2. CASE m_suc'[n] # m_suc[n]
    <3>1. n = m.dst
      BY <1>1, <2>2 DEF PointersSound
    <3>. QED  BY <1>1, <1>5, <2>2, <3>1 DEF PointersSound, DatagramSound, AloneSound
  <2>. QED  BY <2>1, <2>2
<1>. QED  BY <1>2, <1>3, <1>4, <1>5 DEF AloneSound

-----------------------------------------------------------------------------
(* Commands, the timer and losses.                                         *)

\* A lost datagram makes nobody known and every search that is left is the old one.
LEMMA LoseAlone ==
    ASSUME TypeOK, AloneSound, NEW m \in InFlight, Lose(m)
    PROVE  AloneSound'
<1>1. /\ UNCHANGED pointers /\ Founders' = Founders /\ m_stabilizeTimer' = m_stabilizeTimer
      /\ net' = Take(net, m)
  BY DEF Lose, Founders, Commanded, control, scenario
<1>2. /\ InFlight' \subseteq InFlight
      /\ \A k \in InFlight' : k # m => net'[k] = net[k]
      /\ net[m] = 1 => m \notin InFlight'
  BY <1>1, TakeBag, TakeCount DEF TypeOK, InFlight
<1>3. ASSUME NEW j \in Node \ Founders PROVE SearchSound(j)'
  <2>1. SearchSound(j)
    BY DEF AloneSound
  <2>2. Unknown(j) => Unknown(j)'
    BY <1>1, <1>2 DEF Unknown, pointers, IsSearch
  <2>. QED  BY <1>2, <2>1, <2>2 DEF SearchSound, IsSearch
<1>. QED  BY <1>1, <1>2, <1>3 DEF AloneSound, pointers

LEMMA AfterSend ==
    ASSUME IsABag(net), NEW r, net' = Post(net, r)
    PROVE  /\ InFlight' \subseteq InFlight \cup {r}
           /\ r.dst = NoNode => InFlight' \subseteq InFlight
           /\ \A k \in InFlight' : k # r => net'[k] = net[k]
           /\ r \notin InFlight /\ r.dst # NoNode => net'[r] = 1
<1>1. InFlight' = BagToSet(net') /\ InFlight = BagToSet(net)
  BY DEF InFlight
<1>2. /\ BagToSet(net') \subseteq BagToSet(net) \cup {r}
      /\ r.dst = NoNode => net' = net
  BY PostBag
<1>3. /\ \A k \in BagToSet(net') : k # r => net'[k] = net[k]
      /\ r \notin BagToSet(net) /\ r.dst # NoNode => net'[r] = 1
  BY PostCount
<1>. QED  BY <1>1, <1>2, <1>3

\* Sending a datagram that is no search, and that the empty pointer of an unknown
\* sender takes nowhere.
LEMMA SendAlone ==
    ASSUME TypeOK, AloneSound, NEW n \in Node, NEW t \in {"RINGSTATE", "GET_PRED_SUC_REQ"},
           t = "GET_PRED_SUC_REQ" => n \in Founders,
           net' = Post(net, Datagram(t, n, m_suc[n], n)),
           UNCHANGED pointers, Founders' = Founders, m_stabilizeTimer' = m_stabilizeTimer
    PROVE  AloneSound'
<1>. DEFINE r == Datagram(t, n, m_suc[n], n)
<1>1. /\ r.type = t /\ r.src = n /\ r.dst = m_suc[n] /\ r.name = n /\ r.pname = NoNode
      /\ net' = Post(net, r)
  BY DEF Datagram
<1>. HIDE DEF r
<1>2. /\ InFlight' \subseteq InFlight \cup {r}
      /\ r.dst = NoNode => InFlight' \subseteq InFlight
      /\ \A k \in InFlight' : k # r => net'[k] = net[k]
  BY <1>1, AfterSend DEF TypeOK
<1>3. ASSUME NEW j \in Node \ Founders PROVE SearchSound(j)'
  <2>1. SearchSound(j) /\ j # NoNode /\ ~IsSearch(r, j)
    BY <1>1, NoNodeAssumption DEF AloneSound, IsSearch
  <2>2. Unknown(j) => Unknown(j)'
    BY <1>1, <1>2, <2>1 DEF Unknown, pointers, IsSearch
  <2>. QED  BY <1>2, <2>1, <2>2 DEF SearchSound, IsSearch
<1>4. DatagramSound(r, Founders)
  BY <1>1 DEF DatagramSound
<1>. QED  BY <1>2, <1>3, <1>4 DEF AloneSound, pointers

\* A node that is told to join for the first time is unknown, as all bystanders are.
LEMMA JoinAlone ==
    ASSUME TypeOK, TypeOK', BystandersStayOut, AloneSound, EachJoinsOnce', NEW n \in Node,
           NEW target \in Contact[n], JoinChord(n, target)
    PROVE  AloneSound'
<1>. DEFINE r == Datagram("JOIN_REQ", n, target, n)
<1>1. /\ r.type = "JOIN_REQ" /\ r.src = n /\ r.dst = target /\ r.name = n /\ r.pname = NoNode
      /\ net' = Post(net, r) /\ target # n
  BY DEF JoinChord, Datagram
<1>. HIDE DEF r
<1>2. /\ InFlight' \subseteq InFlight \cup {r}
      /\ \A k \in InFlight' : k # r => net'[k] = net[k]
      /\ r.dst = NoNode => InFlight' \subseteq InFlight
      /\ r \notin InFlight /\ r.dst # NoNode => net'[r] = 1
  BY <1>1, AfterSend DEF TypeOK
<1>3. /\ UNCHANGED pointers /\ m_stabilizeTimer' = m_stabilizeTimer /\ Issue(n, "JOIN")
  BY DEF JoinChord, control
<1>4. /\ issued'[n]["JOIN"] = issued[n]["JOIN"] + 1
      /\ \A k \in Node, c \in Command \ {"JOIN"} : issued'[k][c] = issued[k][c]
      /\ \A k \in Node, c \in Command : issued[k][c] \in Nat
  BY <1>3, IssueGrows DEF Command, TypeOK
<1>5. Founders' = Founders
  BY <1>4 DEF Founders, Commanded, Command
<1>6. ASSUME n \notin Founders
      PROVE  n \notin Entered
  <2>1. issued[n]["JOIN"] = 0 /\ issued[n]["LEAVE"] = 0
    BY <1>4 DEF EachJoinsOnce, Command
  <2>. QED  BY <1>6, <2>1 DEF Entered, Founders, Commanded
<1>7. ASSUME n \notin Founders
      PROVE  /\ Unknown(n)'
             /\ r \notin InFlight
             /\ \A k \in InFlight : ~IsSearch(k, n)
  <2>1. n \notin Entered /\ n # NoNode
    BY <1>6, <1>7, NoNodeAssumption
  <2>2. /\ m_suc[n] = NoNode
        /\ \A k \in Node : m_pred[k] # n /\ m_suc[k] # n
    BY <2>1 DEF BystandersStayOut
  <2>3. \A k \in InFlight : /\ k.src # n /\ k.name # n /\ k.pname # n
                            /\ k.dst = n => k.type = "JOIN_REQ"
    BY <2>1 DEF BystandersStayOut
  <2>4. r \notin InFlight /\ \A k \in InFlight : ~IsSearch(k, n)
    BY <1>1, <2>3 DEF IsSearch
  <2>5. Unknown(n)'
    BY <1>1, <1>2, <1>3, <2>2, <2>3 DEF Unknown, pointers, IsSearch
  <2>. QED  BY <2>4, <2>5
<1>8. ASSUME NEW j \in Node \ Founders PROVE SearchSound(j)'
  <2>1. CASE j = n
    BY <1>2, <1>7, <2>1 DEF SearchSound, IsSearch
  <2>2. CASE j # n
    <3>1. SearchSound(j) /\ j # NoNode /\ ~IsSearch(r, j)
      BY <1>1, <2>2, NoNodeAssumption DEF AloneSound, IsSearch
    <3>2. Unknown(j) => Unknown(j)'
      BY <1>1, <1>2, <1>3, <2>2, <3>1 DEF Unknown, pointers, IsSearch
    <3>. QED  BY <1>2, <3>1, <3>2 DEF SearchSound, IsSearch
  <2>. QED  BY <2>1, <2>2
<1>9. DatagramSound(r, Founders)
  BY <1>1 DEF DatagramSound
<1>. QED  BY <1>2, <1>3, <1>5, <1>8, <1>9 DEF AloneSound, pointers

\* Who founds is its own successor, and leaves the nodes that are searched for.
LEMMA CreateAlone ==
    ASSUME TypeOK, AloneSound, NEW n \in Node, CreateChord(n)
    PROVE  AloneSound'
<1>1. Issue(n, "CREATE") /\ net' = net
  BY DEF CreateChord
<1>2. /\ issued'[n]["CREATE"] > 0
      /\ \A k \in Node \ {n} : issued'[k] = issued[k]
  BY <1>1, IssueGrows DEF TypeOK, Command
<1>3. Founders' = Founders \cup {n}
  BY <1>2 DEF Founders, Commanded
<1>4. /\ \A k \in Node \ {n} : /\ m_suc'[k] = m_suc[k] /\ m_pred'[k] = m_pred[k]
                               /\ m_stabilizeTimer'[k] = m_stabilizeTimer[k]
      /\ \/ m_suc'[n] = n /\ m_pred'[n] = n
         \/ UNCHANGED pointers
  BY DEF CreateChord, SetPred, SetSuc, TypeOK, pointers
<1>5. InFlight' = InFlight
  BY <1>1 DEF InFlight
<1>6. ASSUME NEW j \in Node \ Founders' PROVE SearchSound(j)'
  <2>1. j # n /\ SearchSound(j)
    BY <1>3 DEF AloneSound
  <2>2. Unknown(j) => Unknown(j)'
    BY <1>4, <1>5, <2>1 DEF Unknown, pointers, IsSearch
  <2>. QED  BY <1>1, <1>5, <2>1, <2>2 DEF SearchSound, IsSearch
<1>7. \A m \in InFlight' : DatagramSound(m, Founders')
  BY <1>3, <1>5 DEF AloneSound, DatagramSound
<1>8. \A k \in Node : (m_suc'[k] = k \/ m_stabilizeTimer'[k]) => k \in Founders'
  BY <1>3, <1>4 DEF AloneSound
<1>. QED  BY <1>6, <1>7, <1>8 DEF AloneSound

\* Nothing that the invariant speaks of changes.
LEMMA StutterAlone ==
    ASSUME AloneSound, UNCHANGED <<pointers, net, m_stabilizeTimer>>, Founders' = Founders
    PROVE  AloneSound'
<1>1. InFlight' = InFlight /\ \A j : Unknown(j)' <=> Unknown(j)
  BY DEF InFlight, Unknown, pointers, IsSearch
<1>2. \A j : SearchSound(j)' <=> SearchSound(j)
  BY <1>1 DEF SearchSound, IsSearch
<1>. QED  BY <1>1, <1>2 DEF AloneSound, pointers

-----------------------------------------------------------------------------

\* EachJoinsOnce was true before if it is now.
LEMMA OnceBefore ==
    ASSUME TypeOK, [Next]_vars, EachJoinsOnce'
    PROVE  EachJoinsOnce
<1>1. CASE issued' = issued
  BY <1>1 DEF EachJoinsOnce
<1>2. ASSUME NEW n \in Node, NEW c \in Command, Issue(n, c)
      PROVE  EachJoinsOnce
  <2>1. \A k \in Node, d \in Command :
          issued[k][d] \in Nat /\ (issued'[k][d] = issued[k][d] \/ issued'[k][d] = issued[k][d] + 1)
    BY <1>2, IssueGrows DEF TypeOK
  <2>. QED  BY <2>1 DEF EachJoinsOnce, Command
<1>3. \/ issued' = issued
      \/ \E n \in Node, c \in Command : Issue(n, c)
  BY DEF Next, vars, ProcessCommand, CreateChord, JoinChord, StartRingstate, NodeLeave,
         CommandWithoutSocket, StopApplication, Stabilize, RecvMessage, Lose, Command, scenario
<1>. QED  BY <1>1, <1>2, <1>3

LEMMA AlwaysAlone == Spec => []AloneInv
<1>1. Init => AloneInv
  <2>. SUFFICES ASSUME Init PROVE AloneSound
    BY DEF AloneInv
  <2>1. InFlight = {}
    BY EmptyNet DEF Init, InFlight
  <2>2. \A n \in Node : m_suc[n] # n /\ ~m_stabilizeTimer[n]
    BY NoNodeAssumption DEF Init
  <2>. QED  BY <2>1, <2>2 DEF AloneSound, SearchSound
<1>2. TypeOK /\ TypeOK' /\ BystandersStayOut /\ AloneInv /\ [Next]_vars => AloneInv'
  <2>. SUFFICES ASSUME TypeOK, TypeOK', BystandersStayOut, AloneInv, [Next]_vars, EachJoinsOnce'
                PROVE  AloneSound'
    BY DEF AloneInv
  <2>0. AloneSound
    BY OnceBefore DEF AloneInv
  <2>1. ASSUME NEW n \in Node, NEW c \in Command, c # "CREATE", Issue(n, c)
        PROVE  Founders' = Founders
    BY <2>1, IssueGrows DEF Founders, Commanded, Command
  <2>2. ASSUME NEW n \in Node, NodeLeave(n) PROVE FALSE
    <3>1. issued'[n]["LEAVE"] = issued[n]["LEAVE"] + 1 /\ issued[n]["LEAVE"] \in Nat
      BY <2>2, IssueGrows DEF NodeLeave, Command, TypeOK
    <3>. QED  BY <3>1 DEF EachJoinsOnce
  <2>3. ASSUME NEW n \in Node, ProcessCommand(n) PROVE AloneSound'
    <3>1. CASE CreateChord(n)
      BY <2>0, <3>1, CreateAlone
    <3>2. CASE \E target \in Contact[n] : JoinChord(n, target)
      BY <2>0, <3>2, JoinAlone
    <3>3. CASE StartRingstate(n)
      <4>1. Founders' = Founders
        BY <2>1, <3>3 DEF StartRingstate, Command
      <4>. QED  BY <2>0, <3>3, <4>1, SendAlone DEF StartRingstate, control
    <3>4. CASE CommandWithoutSocket(n)
      <4>1. Founders' = Founders
        BY <2>1, <3>4 DEF CommandWithoutSocket, Command
      <4>. QED  BY <2>0, <3>4, <4>1, StutterAlone DEF CommandWithoutSocket
    <3>. QED  BY <2>2, <2>3, <3>1, <3>2, <3>3, <3>4 DEF ProcessCommand
  <2>4. ASSUME NEW n \in Node, StopApplication(n) PROVE AloneSound'
    <3>1. Founders' = Founders
      BY <2>1, <2>4 DEF StopApplication, Command
    <3>. QED  BY <2>0, <2>4, <3>1, StutterAlone DEF StopApplication
  <2>5. ASSUME NEW n \in Node, Stabilize(n) PROVE AloneSound'
    <3>1. Founders' = Founders /\ n \in Founders
      BY <2>0, <2>5 DEF Stabilize, Founders, Commanded, AloneSound, scenario
    <3>. QED  BY <2>0, <2>5, <3>1, SendAlone, StutterAlone DEF Stabilize
  <2>6. CASE UNCHANGED vars
    <3>1. Founders' = Founders
      BY <2>6 DEF vars, Founders, Commanded
    <3>. QED  BY <2>0, <2>6, <3>1, StutterAlone DEF vars, pointers
  <2>. QED  BY <2>0, <2>3, <2>4, <2>5, <2>6, RecvAlone, LoseAlone DEF Next
<1>. QED  BY <1>1, <1>2, TypeCorrect, BystandersSafe, PTL DEF Spec

\* While every node joins at most once and none leaves, nobody but a founder becomes
\* its own successor: for every number of nodes and datagrams, every order of digests
\* and whatever is lost, stopped or founded beside it.
THEOREM FounderAlone == Spec => []OnlyFounderAlone
<1>1. AloneInv => OnlyFounderAlone
  BY DEF AloneInv, AloneSound, OnlyFounderAlone
<1>. QED  BY <1>1, AlwaysAlone, PTL


-----------------------------------------------------------------------------
(* A founder and two joiners.  At most one of the joiners is ever told     *)
(* that the other one is its successor, and that one has the founder for a *)
(* successor and keeps it: a search can meet it only when its own has been *)
(* answered.                                                               *)

\* Each of the two joins once.
Trio(f, a, b) ==
    /\ f # a /\ f # b /\ a # b
    /\ EachJoinsOnce /\ Founders \subseteq {f} /\ Joiners \subseteq {a, b}

\* The search for j has not been answered or lost.
Waiting(j) == issued[j]["JOIN"] = 0 \/ \E m \in InFlight : IsSearch(m, j)

\* a has b for a successor, or has been told so.
Taught(a, b) ==
    \/ m_suc[a] = b
    \/ \E m \in InFlight : m.type \in {"JOIN_RSP", "NOTIFY_PRED"} /\ m.dst = a /\ m.name = b

\* Or b is going to tell it.
Points(a, b) == Taught(a, b) \/ \E m \in InFlight : m.type = "JOIN_RSP" /\ m.dst = b /\ m.pname = a

\* While a is searched for, no search gets to b before b has a successor, nor can the
\* founder be told to make b its own.
AwayFrom(f, b, m) ==
    /\ m.type = "FIND_SUC_REQ" => m.dst # b
    /\ m.type = "GET_PRED_SUC_RSP" /\ Hash[b] > Hash[f] => m.name # b
BehindAnswered(f, a, b) ==
    Waiting(a) /\ m_suc[b] = NoNode =>
        /\ m_suc[f] # b
        /\ Hash[b] > Hash[f] => m_pred[f] # b
        /\ \A m \in InFlight : AwayFrom(f, b, m)

PairSound(f, a, b) ==
    /\ m_pred[a] # a
    /\ Points(a, b) => ~Points(b, a)
    /\ Taught(a, b) => m_suc[b] = f
    /\ BehindAnswered(f, a, b)
    /\ Waiting(a) /\ Waiting(b) /\ f \in Founders => m_pred_hash[f] = Hash[f]

\* Who is searched for and who notifies its predecessor joins; the latter has a successor.
TrioMessage(f, a, b, m) ==
    /\ m.type \in {"JOIN_REQ", "FIND_SUC_REQ", "NOTIFY_PRED"} => m.name \in Joiners
    /\ m.type = "JOIN_RSP" => /\ m.dst \in Joiners /\ m.name # NoNode
                              /\ m.pname \in {a, b} => m.name = f
    /\ m.type = "NOTIFY_PRED" => m_suc[m.name] # NoNode
    /\ m.type = "NOTIFY_SUC" => m.name = f

TrioSound(f, a, b) ==
    /\ PairSound(f, a, b) /\ PairSound(f, b, a)
    /\ \A m \in InFlight : TrioMessage(f, a, b, m)

TrioInv == \A f, a, b \in Node : Trio(f, a, b) => TrioSound(f, a, b)

-----------------------------------------------------------------------------
(* What the invariants proved so far say of the three nodes.               *)

Known(f, a, b) ==
    /\ NoNode \notin {f, a, b}
    /\ \A k \in Node : /\ m_suc[k] \in {f, a, b, NoNode} /\ m_pred[k] \in {f, a, b, NoNode}
                       /\ k \notin {f, a, b} => m_suc[k] = NoNode /\ m_pred[k] = NoNode
    /\ m_suc[a] # a /\ m_suc[b] # b
    /\ \A j \in Joiners : j \in {a, b} /\ j \in Node \ Founders /\ issued[j]["JOIN"] # 0
    /\ \A m \in InFlight :
         /\ m.name \in {f, a, b, NoNode} /\ m.pname \in {f, a, b, NoNode}
         /\ m.type # "JOIN_REQ" => m.dst \in {f, a, b} /\ f \in Founders
    /\ \A j \in {a, b} : Waiting(j) => Unknown(j)
    /\ f \in Founders /\ ~aborted => m_my_hash[f] = Hash[f]

LEMMA TrioKnown ==
    ASSUME TypeOK, AloneSound, BystandersStayOut, RingNeedsFounder, MyHashIsOwn,
           NEW f \in Node, NEW a \in Node, NEW b \in Node, Trio(f, a, b)
    PROVE  Known(f, a, b)
<1>1. Entered \subseteq {f, a, b} /\ Entered = Founders \cup Joiners
  BY DEF Trio, Entered, Founders, Joiners, Commanded, EachJoinsOnce, TypeOK, Command
<1>2. NoNode \notin {f, a, b}
  BY NoNodeAssumption
<1>3. \A k \in Node : /\ m_suc[k] \in {f, a, b, NoNode} /\ m_pred[k] \in {f, a, b, NoNode}
                      /\ k \notin {f, a, b} => m_suc[k] = NoNode /\ m_pred[k] = NoNode
  BY <1>1 DEF BystandersStayOut
<1>4. m_suc[a] # a /\ m_suc[b] # b
  BY DEF AloneSound, Trio
<1>5. \A j \in Joiners : j \in {a, b} /\ j \in Node \ Founders /\ issued[j]["JOIN"] # 0
  BY DEF Trio, Joiners, Commanded
<1>6. ASSUME NEW m \in InFlight
      PROVE  /\ m.name \in {f, a, b, NoNode} /\ m.pname \in {f, a, b, NoNode}
             /\ m.type # "JOIN_REQ" => m.dst \in {f, a, b} /\ f \in Founders
  <2>1. \A n \in Node : ~Commanded(n, {"LEAVE"})
    BY DEF Commanded, Trio, EachJoinsOnce
  <2>2. m.type # "JOIN_REQ" => Founders # {}
    BY <2>1 DEF RingNeedsFounder, Founders, Commanded
  <2>. QED  BY <1>1, <2>2 DEF BystandersStayOut, Trio
<1>7. ASSUME NEW j \in {a, b}, Waiting(j) PROVE Unknown(j)
  <2>1. CASE issued[j]["JOIN"] = 0
    <3>1. j \notin Entered /\ j # NoNode
      BY <1>1, <1>2, <2>1 DEF Trio, Joiners, Commanded
    <3>. QED  BY <3>1 DEF BystandersStayOut, Unknown
  <2>2. CASE \E m \in InFlight : IsSearch(m, j)
    BY <2>2 DEF AloneSound, SearchSound, Trio
  <2>. QED  BY <1>7, <2>1, <2>2 DEF Waiting
<1>8. f \in Founders /\ ~aborted => m_my_hash[f] = Hash[f]
  <2>1. ~Commanded(f, {"LEAVE"})
    BY DEF Commanded, Trio, EachJoinsOnce
  <2>. QED  BY <1>1, <2>1 DEF MyHashIsOwn
<1>. QED  BY <1>2, <1>3, <1>4, <1>5, <1>6, <1>7, <1>8 DEF Known

\* Nobody points at or is told of who is unknown.
LEMMA UnknownPoints ==
    ASSUME NEW a \in Node, NEW b \in Node, a # b, Unknown(a)
    PROVE  ~Points(a, b) /\ ~Points(b, a)
<1>1. a # NoNode /\ b # NoNode
  BY NoNodeAssumption
<1>2. ~Taught(a, b) /\ ~Taught(b, a)
  BY <1>1 DEF Unknown, Taught, IsSearch
<1>. QED  BY <1>1, <1>2 DEF Unknown, Points, IsSearch

-----------------------------------------------------------------------------
(* A step keeps what has been commanded, and who waits has waited before.  *)

LEMMA WaitingBefore ==
    ASSUME TypeOK, TypeOK', [Next]_vars, EachJoinsOnce', NEW j \in Node, Waiting(j)'
    PROVE  Waiting(j)
<1>1. /\ \A k \in Node : issued[k]["JOIN"] \in Nat /\ issued'[k]["JOIN"] \in Nat
      /\ issued'[j]["JOIN"] <= 1
  BY DEF TypeOK, EachJoinsOnce, Command
<1>2. \A n \in Node, c \in Command : Issue(n, c) =>
         \/ issued'[j]["JOIN"] = issued[j]["JOIN"]
         \/ n = j /\ c = "JOIN" /\ issued'[j]["JOIN"] = issued[j]["JOIN"] + 1
  BY IssueGrows DEF Command
<1>3. CASE issued[j]["JOIN"] = 0
  BY <1>3 DEF Waiting
<1>4. CASE issued[j]["JOIN"] # 0
  <2>1. issued'[j]["JOIN"] # 0
    BY <1>1, <1>2, <1>4
    DEF Next, vars, ProcessCommand, CreateChord, JoinChord, StartRingstate, NodeLeave,
        CommandWithoutSocket, StopApplication, Stabilize, RecvMessage, Lose, Command, scenario
  <2>2. ~\E target \in Contact[j] : JoinChord(j, target)
    BY <1>1, <1>4, IssueGrows DEF JoinChord, Command
  <2>3. PICK k \in InFlight' : IsSearch(k, j)
    BY <2>1 DEF Waiting, IsSearch
  <2>4. SUFFICES ASSUME k \notin InFlight PROVE \E m \in InFlight : IsSearch(m, j)
    BY <2>3 DEF Waiting
  <2>5. ASSUME NEW r, net' = Post(net, r) PROVE k = r
    BY <2>4, <2>5, AfterSend DEF TypeOK
  <2>6. net' # net
    BY <2>4 DEF InFlight
  <2>7. ASSUME NEW n \in Node, NEW target \in Contact[n], JoinChord(n, target) PROVE FALSE
    <3>1. k = Datagram("JOIN_REQ", n, target, n)
      BY <2>5, <2>7 DEF JoinChord
    <3>2. k.name = n
      BY <3>1 DEF Datagram
    <3>. QED  BY <2>2, <2>3, <2>7, <3>2 DEF IsSearch
  <2>8. ASSUME NEW n \in Node, StartRingstate(n) PROVE FALSE
    <3>1. k = Datagram("RINGSTATE", n, m_suc[n], n)
      BY <2>5, <2>8 DEF StartRingstate
    <3>. QED  BY <2>3, <3>1 DEF IsSearch, Datagram
  <2>9. ASSUME NEW n \in Node, NodeLeave(n) PROVE FALSE
    <3>1. issued'[n]["LEAVE"] = issued[n]["LEAVE"] + 1 /\ issued[n]["LEAVE"] \in Nat
      BY <2>9, IssueGrows DEF NodeLeave, Command, TypeOK
    <3>. QED  BY <3>1 DEF EachJoinsOnce
  <2>10. ASSUME NEW n \in Node, Stabilize(n) PROVE FALSE
    <3>1. k = Datagram("GET_PRED_SUC_REQ", n, m_suc[n], n)
      BY <2>5, <2>6, <2>10 DEF Stabilize
    <3>. QED  BY <2>3, <3>1 DEF IsSearch, Datagram
  <2>11. ASSUME NEW m \in InFlight, RecvMessage(m) PROVE IsSearch(m, j)
    <3>1. PICK r : ReplySound(m, r) /\ net' = Post(Take(net, m), r)
      BY <2>11, Reply DEF Answered
    <3>2. k = r
      BY <2>4, <3>1, AfterReply DEF TypeOK
    <3>. QED  BY <2>3, <3>1, <3>2 DEF ReplySound, IsSearch
  <2>12. ASSUME NEW m \in InFlight, Lose(m) PROVE FALSE
    BY <2>4, <2>12, TakeBag DEF Lose, InFlight, TypeOK
  <2>. QED  BY <2>6, <2>7, <2>8, <2>9, <2>10, <2>11, <2>12
       DEF Next, vars, ProcessCommand, CreateChord, CommandWithoutSocket, StopApplication
<1>. QED  BY <1>3, <1>4

\* The search that is answered is over.
LEMMA SearchOver ==
    ASSUME TypeOK, NEW m \in InFlight, NEW j, IsSearch(m, j), SearchSound(j),
           NEW r, net' = Post(Take(net, m), r), r.type = "JOIN_RSP",
           issued' = issued, issued[j]["JOIN"] # 0
    PROVE  ~Waiting(j)'
<1>1. net[m] = 1 /\ \A k \in InFlight : IsSearch(k, j) => k = m
  BY DEF SearchSound
<1>2. InFlight' \subseteq (InFlight \ {m}) \cup {r}
  BY <1>1, AfterReply DEF TypeOK
<1>. QED  BY <1>1, <1>2 DEF Waiting, IsSearch

LEMMA TrioBefore ==
    ASSUME TypeOK, TypeOK', [Next]_vars, NEW f, NEW a, NEW b, Trio(f, a, b)'
    PROVE  /\ Trio(f, a, b)
           /\ Founders \subseteq Founders' /\ Joiners \subseteq Joiners'
<1>1. \A n \in Node, c \in Command : issued[n][c] \in Nat /\ issued'[n][c] \in Nat
  BY DEF TypeOK
<1>2. \/ issued' = issued
      \/ \E n \in Node, c \in Command : Issue(n, c)
  BY DEF Next, vars, ProcessCommand, CreateChord, JoinChord, StartRingstate, NodeLeave,
         CommandWithoutSocket, StopApplication, Stabilize, RecvMessage, Lose, Command, scenario
<1>3. \A n \in Node, c \in Command : issued[n][c] > 0 => issued'[n][c] > 0
  BY <1>1, <1>2, IssueGrows
<1>4. Founders \subseteq Founders' /\ Joiners \subseteq Joiners'
  BY <1>3 DEF Founders, Joiners, Commanded, Command
<1>. QED  BY <1>4, OnceBefore DEF Trio

-----------------------------------------------------------------------------
(* A received datagram.  Each lemma takes one part of the invariant from   *)
(* the whole of it.                                                        *)

Context(f, a, b) ==
    /\ TypeOK /\ AloneSound /\ Trio(f, a, b) /\ Known(f, a, b) /\ TrioSound(f, a, b)
    /\ {f, a, b} \subseteq Node

\* A node that has a successor keeps one.
LEMMA SuccessorKept ==
    ASSUME NEW f, NEW a, NEW b, Context(f, a, b), NEW m \in InFlight, PointersSound(m),
           NEW j \in {a, b}, m_suc[j] # NoNode
    PROVE  m_suc'[j] # NoNode
<1>1. m.dst \in Node /\ j \in Node /\ j \notin Founders /\ DatagramSound(m, Founders)
  BY InFlightTyped DEF Context, AloneSound, Trio
<1>2. CASE m.dst = j /\ m_suc'[j] # m_suc[j]
  <2>1. m.type \in {"JOIN_RSP", "NOTIFY_PRED"} /\ m_suc'[j] = m.name
    BY <1>1, <1>2 DEF PointersSound, DatagramSound, Context, AloneSound
  <2>2. m.type = "NOTIFY_PRED" => m.name \in {a, b}
    BY DEF Context, TrioSound, TrioMessage, Known
  <2>. QED  BY <2>1, <2>2 DEF Context, Known, TrioSound, TrioMessage
<1>3. CASE m.dst # j
  BY <1>1, <1>3 DEF PointersSound
<1>. QED  BY <1>2, <1>3

LEMMA RecvMessages ==
    ASSUME NEW f, NEW a, NEW b, Context(f, a, b), NEW m \in InFlight, NEW r,
           PointersSound(m), ReplySound(m, r), net' = Post(Take(net, m), r), issued' = issued
    PROVE  \A k \in InFlight' : TrioMessage(f, a, b, k)'
<1>0. /\ TypeOK /\ {f, a, b} \subseteq Node /\ m.dst \in Node /\ DatagramSound(m, Founders)
      /\ Joiners' = Joiners /\ TrioMessage(f, a, b, m)
  BY InFlightTyped DEF Context, AloneSound, Joiners, Commanded, TrioSound
<1>1. ASSUME NEW j \in Joiners, m_suc[j] # NoNode PROVE m_suc'[j] # NoNode
  BY <1>1, SuccessorKept DEF Context, Known
<1>2. ASSUME NEW k \in InFlight PROVE TrioMessage(f, a, b, k)'
  BY <1>0, <1>1 DEF Context, TrioSound, TrioMessage
<1>3. ASSUME r.dst # NoNode PROVE TrioMessage(f, a, b, r)'
  <2>1. r.type = "FIND_SUC_REQ" => r.name \in Joiners
    BY <1>0 DEF ReplySound, IsSearch, TrioMessage
  <2>2. ASSUME r.type = "NOTIFY_PRED" PROVE r.name \in Joiners /\ m_suc'[r.name] # NoNode
    BY <1>0, <2>2 DEF ReplySound, TrioMessage, PointersSound
  <2>3. ASSUME r.type = "NOTIFY_SUC" PROVE r.name = f
    BY <1>0, <2>3 DEF ReplySound, DatagramSound, Context, Trio
  <2>4. ASSUME r.type = "JOIN_RSP"
        PROVE  r.dst \in Joiners /\ r.name # NoNode /\ (r.pname \in {a, b} => r.name = f)
    <3>1. r.dst = m.name /\ IsSearch(m, r.dst) /\ r.name = m.dst
      BY <1>0, <2>4 DEF ReplySound, DatagramSound, IsSearch
    <3>2. r.dst \in Joiners /\ r.dst \in {a, b} /\ m.dst # NoNode
      BY <1>0, <3>1, NoNodeAssumption DEF TrioMessage, IsSearch, Context, Known
    <3>3. Unknown(r.dst)
      BY <3>1, <3>2 DEF Context, Known, AloneSound, SearchSound
    <3>4. CASE m.type = "JOIN_REQ"
      BY <1>0, <2>4, <3>1, <3>2, <3>4 DEF ReplySound, Context, AloneSound, Trio
    <3>5. CASE m.type = "FIND_SUC_REQ"
      <4>1. m.dst \in {f, a, b} /\ m.dst # r.dst
        BY <3>1, <3>3, <3>5 DEF Context, Known, Unknown
      <4>2. m_pred[m.dst] # r.dst /\ m_suc[m.dst] # r.dst
        BY <1>0, <3>3 DEF Unknown
      <4>3. m.dst # f => m_pred[m.dst] # m.dst /\ m_suc[m.dst] # m.dst
        BY <4>1 DEF Context, Known, TrioSound, PairSound
      <4>. QED  BY <2>4, <3>1, <3>2, <4>1, <4>2, <4>3 DEF ReplySound
    <3>. QED  BY <3>1, <3>4, <3>5 DEF IsSearch
  <2>5. r.type # "JOIN_REQ"
    BY DEF ReplySound
  <2>. QED  BY <1>0, <2>1, <2>2, <2>3, <2>4, <2>5 DEF TrioMessage
<1>. QED  BY <1>0, <1>2, <1>3, AfterReply DEF TypeOK

\* The only new ways in which a can be told of b.
LEMMA TaughtNext ==
    ASSUME NEW f, NEW a, NEW b, Context(f, a, b), NEW m \in InFlight, NEW r,
           PointersSound(m), ReplySound(m, r), net' = Post(Take(net, m), r), Taught(a, b)'
    PROVE  \/ Taught(a, b)
           \/ m.type = "FIND_SUC_REQ" /\ m.name = a /\ m.dst = b /\ r.type = "JOIN_RSP"
           \/ m.type = "JOIN_RSP" /\ m.dst = b /\ m.pname = a
<1>0. /\ TypeOK /\ {f, a, b} \subseteq Node /\ m.dst \in Node /\ DatagramSound(m, Founders)
      /\ a \notin Founders /\ b \notin Founders /\ NoNode \notin {a, b}
  BY InFlightTyped DEF Context, AloneSound, Trio, Known
<1>1. CASE m_suc'[a] = b
  <2>1. CASE m.dst = a /\ m_suc[a] # b
    <3>1. m.type \in {"JOIN_RSP", "NOTIFY_PRED"} /\ m.name = b
      BY <1>0, <1>1, <2>1 DEF PointersSound, DatagramSound, Context, AloneSound
    <3>. QED  BY <2>1, <3>1 DEF Taught
  <2>2. CASE m.dst # a
    BY <1>0, <1>1, <2>2 DEF PointersSound, Taught
  <2>. QED  BY <2>1, <2>2 DEF Taught
<1>2. ASSUME NEW k \in InFlight', k.type \in {"JOIN_RSP", "NOTIFY_PRED"}, k.dst = a, k.name = b
      PROVE  \/ Taught(a, b)
             \/ m.type = "FIND_SUC_REQ" /\ m.name = a /\ m.dst = b /\ r.type = "JOIN_RSP"
             \/ m.type = "JOIN_RSP" /\ m.dst = b /\ m.pname = a
  <2>1. CASE k \in InFlight
    BY <1>2, <2>1 DEF Taught
  <2>2. CASE k = r
    <3>1. CASE r.type = "JOIN_RSP"
      BY <1>0, <1>2, <2>2, <3>1 DEF ReplySound, Context, AloneSound
    <3>2. CASE r.type = "NOTIFY_PRED"
      BY <1>2, <2>2, <3>2 DEF ReplySound
    <3>. QED  BY <1>2, <2>2, <3>1, <3>2
  <2>. QED  BY <1>0, <1>2, <2>1, <2>2, AfterReply DEF TypeOK
<1>. QED  BY <1>1, <1>2 DEF Taught

\* A pair of joiners becomes neighbours only when one of them is searched for, by the answer
\* of the other or of the founder.
LEMMA PointsNext ==
    ASSUME NEW f, NEW a, NEW b, Context(f, a, b), NEW m \in InFlight, NEW r,
           PointersSound(m), ReplySound(m, r), net' = Post(Take(net, m), r),
           \A k \in InFlight' : TrioMessage(f, a, b, k)', Points(a, b)'
    PROVE  \/ Points(a, b)
           \/ IsSearch(m, a) /\ m.dst = b
           \/ IsSearch(m, b) /\ m.dst = f
<1>0. /\ TypeOK /\ {f, a, b} \subseteq Node /\ m.dst \in Node /\ DatagramSound(m, Founders)
      /\ a # b
  BY InFlightTyped DEF Context, AloneSound, Trio
<1>1. CASE Taught(a, b)'
  BY <1>1, TaughtNext DEF Points, IsSearch
<1>2. ASSUME NEW k \in InFlight', k.type = "JOIN_RSP", k.dst = b, k.pname = a
      PROVE  Points(a, b) \/ (IsSearch(m, b) /\ m.dst = f)
  <2>1. CASE k \in InFlight
    BY <1>2, <2>1 DEF Points
  <2>2. CASE k = r
    <3>1. m.name = b /\ IsSearch(m, b) /\ r.name = m.dst
      BY <1>0, <1>2, <2>2 DEF ReplySound, DatagramSound, IsSearch
    <3>2. r.name = f
      BY <1>2, <2>2 DEF TrioMessage
    <3>. QED  BY <3>1, <3>2
  <2>. QED  BY <1>0, <2>1, <2>2, AfterReply DEF TypeOK
<1>. QED  BY <1>1, <1>2 DEF Points

LEMMA RecvPoints ==
    ASSUME NEW f, NEW a, NEW b, Context(f, a, b), Context(f, b, a), NEW m \in InFlight, NEW r,
           PointersSound(m), ReplySound(m, r), net' = Post(Take(net, m), r),
           \A k \in InFlight' : TrioMessage(f, a, b, k)' /\ TrioMessage(f, b, a, k)',
           Points(a, b)', Points(b, a)'
    PROVE  FALSE
<1>0. f # a /\ f # b /\ a # b /\ {a, b} \subseteq Node
  BY DEF Context, Trio
<1>1. \/ Points(a, b)
      \/ IsSearch(m, a) /\ m.dst = b
      \/ IsSearch(m, b) /\ m.dst = f
  BY PointsNext
<1>2. \/ Points(b, a)
      \/ IsSearch(m, b) /\ m.dst = a
      \/ IsSearch(m, a) /\ m.dst = f
  BY PointsNext
<1>3. \A j \in {a, b} : IsSearch(m, j) => Unknown(j)
  BY DEF Context, Known, Waiting
<1>4. \A j \in {a, b} : IsSearch(m, j) => ~Points(a, b) /\ ~Points(b, a)
  BY <1>0, <1>3, UnknownPoints
<1>5. ~(Points(a, b) /\ Points(b, a))
  BY DEF Context, TrioSound, PairSound
<1>. QED  BY <1>0, <1>1, <1>2, <1>4, <1>5 DEF IsSearch

\* The successor of a's successor is the founder.
LEMMA RecvTaught ==
    ASSUME NEW f, NEW a, NEW b, Context(f, a, b), NEW m \in InFlight, NEW r,
           PointersSound(m), ReplySound(m, r), net' = Post(Take(net, m), r), Taught(a, b)'
    PROVE  m_suc'[b] = f
<1>0. /\ {f, a, b} \subseteq Node /\ m.dst \in Node /\ DatagramSound(m, Founders)
      /\ a # b /\ b \notin Founders /\ TrioMessage(f, a, b, m) /\ NoNode \notin {f, a, b}
      /\ m_suc[b] \in {f, a, NoNode}
  BY InFlightTyped DEF Context, AloneSound, Trio, TrioSound, Known
<1>1. CASE Taught(a, b)
  <2>1. m_suc[b] = f /\ ~Points(b, a)
    BY <1>1 DEF Context, TrioSound, PairSound, Points
  <2>2. CASE m.dst = b /\ m_suc'[b] # m_suc[b]
    <3>1. m.type \in {"JOIN_RSP", "NOTIFY_PRED"} /\ m_suc'[b] = m.name
      BY <1>0, <2>2 DEF PointersSound, DatagramSound, Context, AloneSound
    <3>2. m.name # a
      BY <2>1, <2>2, <3>1 DEF Points, Taught
    <3>3. m.name # b /\ m.name # NoNode
      BY <1>0, <2>2, <3>1 DEF DatagramSound, TrioMessage, Context, Known
    <3>. QED  BY <3>1, <3>2, <3>3 DEF Context, Known
  <2>. QED  BY <1>0, <2>1, <2>2 DEF PointersSound
<1>2. CASE m.type = "FIND_SUC_REQ" /\ m.name = a /\ m.dst = b /\ r.type = "JOIN_RSP"
  <2>1. Waiting(a) /\ IsSearch(m, a)
    BY <1>2 DEF Waiting, IsSearch
  <2>2. Unknown(a)
    BY <2>1 DEF Context, Known
  <2>3. m_suc[b] # NoNode
    BY <1>2, <2>1 DEF Context, TrioSound, PairSound, BehindAnswered, AwayFrom
  <2>4. m_suc[b] = f
    BY <1>0, <2>2, <2>3 DEF Unknown
  <2>. QED  BY <1>0, <1>2, <2>4 DEF PointersSound
<1>3. CASE m.type = "JOIN_RSP" /\ m.dst = b /\ m.pname = a
  BY <1>0, <1>3 DEF PointersSound, TrioMessage
<1>. QED  BY <1>1, <1>2, <1>3, TaughtNext

\* Who is searched for lags behind the other one.
LEMMA RecvBehind ==
    ASSUME NEW f, NEW a, NEW b, Context(f, a, b), NEW m \in InFlight, NEW r, ~aborted,
           PointersSound(m), PredecessorSound(m), ReplySound(m, r),
           net' = Post(Take(net, m), r), Waiting(a), m_suc'[b] = NoNode
    PROVE  /\ m_suc'[f] # b
           /\ Hash[b] > Hash[f] => m_pred'[f] # b
           /\ \A k \in InFlight' : AwayFrom(f, b, k)
<1>0. /\ TypeOK /\ {f, a, b} \subseteq Node /\ m.dst \in Node /\ DatagramSound(m, Founders)
      /\ f # a /\ f # b /\ a # b /\ TrioMessage(f, a, b, m) /\ NoNode \notin {f, a, b}
      /\ f \notin Joiners /\ Founders \subseteq {f} /\ Unknown(a) /\ m_pred[b] # b
  BY InFlightTyped DEF Context, AloneSound, Trio, TrioSound, Known, PairSound
<1>1. m_suc[b] = NoNode
  BY SuccessorKept
<1>2. /\ m_suc[f] # b
      /\ Hash[b] > Hash[f] => m_pred[f] # b
      /\ \A k \in InFlight : AwayFrom(f, b, k)
  BY <1>1 DEF Context, TrioSound, PairSound, BehindAnswered
<1>3. Hash[b] \in Nat /\ Hash[f] \in Nat /\ Indeterminate \notin Nat
  BY <1>0, HashAssumption DEF Name, Indeterminate
<1>4. m_suc'[f] # b
  <2>. SUFFICES ASSUME m_suc'[f] = b, m.dst = f PROVE FALSE
    BY <1>0, <1>2 DEF PointersSound
  <2>1. m.type # "NOTIFY_PRED" \/ m.name # b
    BY <1>0, <1>1 DEF TrioMessage
  <2>2. m.type # "JOIN_RSP"
    BY <1>0 DEF TrioMessage
  <2>3. m.type = "NOTIFY_SUC" => m.name # b
    BY <1>0 DEF TrioMessage
  <2>4. ASSUME m.type = "GET_PRED_SUC_RSP", m.name = b, MayExceed(Hash[b], m_my_hash[f]) PROVE FALSE
    <3>1. m_my_hash[f] = Hash[f]
      BY <1>0, <2>4 DEF DatagramSound, Context, Known
    <3>2. Hash[b] > Hash[f]
      BY <1>3, <2>4, <3>1 DEF MayExceed
    <3>. QED  BY <1>2, <2>4, <3>2 DEF AwayFrom
  <2>. QED  BY <1>2, <2>1, <2>2, <2>3, <2>4 DEF PointersSound
<1>5. ASSUME Hash[b] > Hash[f] PROVE m_pred'[f] # b
  <2>. SUFFICES ASSUME m_pred'[f] = b, m.dst = f PROVE FALSE
    BY <1>0, <1>2, <1>5 DEF PointersSound
  <2>1. m.type \in {"NOTIFY_PRED", "NOTIFY_SUC"} => m.name # b
    BY <1>0, <1>1 DEF TrioMessage
  <2>2. m.type # "JOIN_RSP"
    BY <1>0 DEF TrioMessage
  <2>3. ASSUME m.type = "FIND_SUC_REQ", m.name = b PROVE FALSE
    <3>1. f \in Founders /\ Waiting(b)
      BY <2>3 DEF Context, Known, Waiting, IsSearch
    <3>2. m_my_hash[f] = Hash[f] /\ m_pred_hash[f] = Hash[f]
      BY <3>1 DEF Context, Known, TrioSound, PairSound
    <3>3. ~MayExceed(m_my_hash[f], Hash[b]) /\ ~MayExceed(m_my_hash[f], m_pred_hash[f])
      BY <1>3, <1>5, <3>2 DEF MayExceed
    <3>. QED  BY <1>2, <1>5, <2>3, <3>3 DEF PredecessorSound
  <2>. QED  BY <1>2, <1>5, <2>1, <2>2, <2>3 DEF PredecessorSound
<1>6. ASSUME r.dst # NoNode PROVE AwayFrom(f, b, r)
  <2>1. \A k \in Node \ {f} : m_suc[k] # b
    BY <1>0, <1>1 DEF Context, Known, Unknown
  <2>2. ASSUME r.type = "FIND_SUC_REQ" PROVE r.dst # b
    BY <1>0, <1>2, <2>1, <2>2 DEF ReplySound
  <2>3. ASSUME r.type = "GET_PRED_SUC_RSP", Hash[b] > Hash[f] PROVE r.name # b
    <3>1. m.type = "GET_PRED_SUC_REQ" /\ r.name = m_pred[m.dst]
      BY <2>3 DEF ReplySound
    <3>2. m.dst \in {f, b}
      BY <1>0, <3>1 DEF Context, Known, Unknown
    <3>. QED  BY <1>0, <1>2, <2>3, <3>1, <3>2
  <2>. QED  BY <2>2, <2>3 DEF AwayFrom
<1>. QED  BY <1>0, <1>2, <1>4, <1>5, <1>6, AfterReply DEF TypeOK

\* The founder's predecessor moves only for a search that is over then.
LEMMA RecvHash ==
    ASSUME NEW f, NEW a, NEW b, Context(f, a, b), NEW m \in InFlight, Answered(m), issued' = issued,
           Waiting(a), Waiting(b), Waiting(a)', Waiting(b)', f \in Founders
    PROVE  m_pred_hash'[f] = Hash[f]
<1>. PICK r : /\ ReplySound(m, r) /\ net' = Post(Take(net, m), r)
              /\ m.type \in {"JOIN_REQ", "FIND_SUC_REQ"} /\ r.type # "JOIN_RSP"
                   => UNCHANGED <<pointers, m_pred_hash>>
  BY DEF Answered
<1>0. /\ TypeOK /\ {f, a, b} \subseteq Node /\ m.dst \in Node /\ TrioMessage(f, a, b, m)
      /\ f \notin Joiners /\ Unknown(a) /\ Unknown(b) /\ m_pred_hash[f] = Hash[f]
      /\ \A j \in Joiners : j \in {a, b} /\ j \in Node \ Founders /\ issued[j]["JOIN"] # 0
  BY InFlightTyped DEF Context, TrioSound, Known, PairSound
<1>. SUFFICES ASSUME m_pred_hash'[f] # Hash[f], m.dst = f PROVE FALSE
  BY <1>0 DEF Answered, PredecessorSound
<1>1. m.type = "NOTIFY_PRED" => m.name \notin {a, b}
  BY <1>0 DEF Unknown, IsSearch
<1>2. m.type # "NOTIFY_PRED" /\ m.type # "JOIN_RSP"
  BY <1>0, <1>1 DEF TrioMessage
<1>3. m.type = "NOTIFY_SUC" => m.name = f
  BY <1>0 DEF TrioMessage
<1>4. ASSUME m.type = "FIND_SUC_REQ" PROVE FALSE
  <2>1. r.type = "JOIN_RSP"
    BY <1>0, <1>4
  <2>2. m.name \in Joiners /\ IsSearch(m, m.name)
    BY <1>0, <1>4 DEF TrioMessage, IsSearch
  <2>3. SearchSound(m.name)
    BY <1>0, <2>2 DEF Context, AloneSound
  <2>4. ~Waiting(m.name)'
    BY <1>0, <2>1, <2>2, <2>3, SearchOver
  <2>. QED  BY <1>0, <2>2, <2>4
<1>. QED  BY <1>0, <1>2, <1>3, <1>4 DEF Answered, PredecessorSound

LEMMA RecvPair ==
    ASSUME NEW f, NEW a, NEW b, Context(f, a, b), Context(f, b, a), NEW m \in InFlight,
           Answered(m), ~aborted, issued' = issued,
           \A j \in {a, b} : Waiting(j)' => Waiting(j)
    PROVE  PairSound(f, a, b)' /\ \A k \in InFlight' : TrioMessage(f, a, b, k)'
<1>. PICK r : ReplySound(m, r) /\ net' = Post(Take(net, m), r)
  BY DEF Answered
<1>0. /\ PointersSound(m) /\ PredecessorSound(m)
      /\ a \in Node /\ f # a /\ m.dst \in Node /\ DatagramSound(m, Founders) /\ TrioMessage(f, a, b, m)
      /\ a \notin Founders /\ m_pred[a] # a
  BY InFlightTyped DEF Answered, Context, AloneSound, Trio, TrioSound, PairSound
<1>1. \A k \in InFlight' : TrioMessage(f, a, b, k)' /\ TrioMessage(f, b, a, k)'
  BY <1>0, RecvMessages
<1>2. m_pred'[a] # a
  <2>. SUFFICES ASSUME m.dst = a PROVE m_pred'[a] # a
    BY <1>0 DEF PointersSound
  <2>1. m.type \in {"NOTIFY_PRED", "NOTIFY_SUC"} => m.name # a
    BY <1>0 DEF DatagramSound, TrioMessage
  <2>2. m.type = "JOIN_RSP" => m.pname # a
    BY <1>0 DEF DatagramSound
  <2>3. m.type = "FIND_SUC_REQ" => m.name # a
    BY <1>0 DEF Context, AloneSound, SearchSound, IsSearch, Unknown
  <2>. QED  BY <1>0, <2>1, <2>2, <2>3 DEF PredecessorSound
<1>3. ~(Points(a, b)' /\ Points(b, a)')
  BY <1>0, <1>1, RecvPoints
<1>4. Taught(a, b)' => m_suc'[b] = f
  BY <1>0, RecvTaught
<1>5. BehindAnswered(f, a, b)'
  <2>1. ASSUME Waiting(a)', m_suc'[b] = NoNode
        PROVE  /\ m_suc'[f] # b
               /\ Hash[b] > Hash[f] => m_pred'[f] # b
               /\ \A k \in InFlight' : AwayFrom(f, b, k)
    BY <1>0, <2>1, RecvBehind
  <2>. QED  BY <2>1 DEF BehindAnswered
<1>6. Founders' = Founders
  BY DEF Founders, Commanded
<1>7. Waiting(a)' /\ Waiting(b)' /\ f \in Founders' => m_pred_hash'[f] = Hash[f]
  BY <1>6, RecvHash
<1>. QED  BY <1>1, <1>2, <1>3, <1>4, <1>5, <1>7 DEF PairSound

-----------------------------------------------------------------------------
(* The other steps.                                                        *)

\* Nothing is learnt from a command, a lost datagram or an expired timer.
LEMMA QuietTrio ==
    ASSUME NEW f, NEW a, NEW b, TrioSound(f, a, b), NEW r,
           UNCHANGED <<m_pred, m_suc, m_pred_hash>>, InFlight' \subseteq InFlight \cup {r},
           r.type \in {"JOIN_REQ", "RINGSTATE", "GET_PRED_SUC_REQ"},
           r.type = "JOIN_REQ" => r.name \in Joiners',
           Founders' = Founders, Joiners \subseteq Joiners',
           \A j \in {a, b} : Waiting(j)' => Waiting(j)
    PROVE  TrioSound(f, a, b)'
<1>1. ASSUME NEW k \in InFlight' PROVE TrioMessage(f, a, b, k)'
  <2>1. CASE k \in InFlight
    BY <2>1 DEF TrioSound, TrioMessage
  <2>2. CASE k = r
    BY <2>2 DEF TrioMessage
  <2>. QED  BY <2>1, <2>2
<1>2. ASSUME NEW x, NEW y PROVE (Taught(x, y)' => Taught(x, y)) /\ (Points(x, y)' => Points(x, y))
  BY DEF Taught, Points
<1>3. \A x, y : \A k \in InFlight' : k \in InFlight \/ AwayFrom(x, y, k)
  BY DEF AwayFrom
<1>4. ASSUME NEW x \in {a, b}, NEW y \in {a, b}, PairSound(f, x, y) PROVE PairSound(f, x, y)'
  BY <1>2, <1>3, <1>4 DEF PairSound, BehindAnswered
<1>. QED  BY <1>1, <1>4 DEF TrioSound

\* Who founds is its own successor and predecessor, and the joiners are left as they were.
LEMMA CreateTrio ==
    ASSUME TypeOK, NEW f \in Node, NEW a \in Node, NEW b \in Node, f # a, f # b, TrioSound(f, a, b),
           AloneSound, CreateChord(f), Joiners \subseteq Joiners',
           \A j \in {a, b} : Waiting(j)' => Waiting(j)
    PROVE  TrioSound(f, a, b)'
<1>1. /\ \A k \in Node \ {f} : m_suc'[k] = m_suc[k] /\ m_pred'[k] = m_pred[k]
      /\ \/ m_suc'[f] = f /\ m_pred'[f] = f /\ m_pred_hash'[f] = Hash[f]
         \/ UNCHANGED <<m_pred, m_suc, m_pred_hash>> /\ f \in Founders
      /\ InFlight' = InFlight
  BY DEF CreateChord, SetPred, SetSuc, TypeOK, pointers, digests, AloneSound, InFlight
<1>2. ASSUME NEW k \in InFlight PROVE TrioMessage(f, a, b, k)'
  <2>1. k.type = "NOTIFY_PRED" => m_suc'[k.name] # NoNode
    <3>1. k.type = "NOTIFY_PRED" => k.name \in Node /\ m_suc[k.name] # NoNode
      BY DEF TrioSound, TrioMessage, Joiners
    <3>. QED  BY <1>1, <3>1, NoNodeAssumption
  <2>. QED  BY <2>1 DEF TrioSound, TrioMessage
<1>3. ASSUME NEW x \in {a, b}, NEW y \in {a, b}, PairSound(f, x, y) PROVE PairSound(f, x, y)'
  <2>1. (Taught(x, y)' <=> Taught(x, y)) /\ (Points(x, y)' <=> Points(x, y))
    BY <1>1 DEF Taught, Points
  <2>2. (Taught(y, x)' <=> Taught(y, x)) /\ (Points(y, x)' <=> Points(y, x))
    BY <1>1 DEF Taught, Points
  <2>3. \A k \in InFlight : AwayFrom(f, y, k)' <=> AwayFrom(f, y, k)
    BY DEF AwayFrom
  <2>4. BehindAnswered(f, x, y)'
    BY <1>1, <1>3, <2>3 DEF PairSound, BehindAnswered
  <2>5. Waiting(x)' /\ Waiting(y)' => m_pred_hash'[f] = Hash[f]
    BY <1>1, <1>3 DEF PairSound
  <2>. QED  BY <1>1, <1>3, <2>1, <2>2, <2>4, <2>5 DEF PairSound
<1>. QED  BY <1>1, <1>2, <1>3 DEF TrioSound

LEMMA TrioStep ==
    ASSUME TypeOK, TypeOK', AloneSound, BystandersStayOut, RingNeedsFounder, MyHashIsOwn, [Next]_vars,
           NEW f \in Node, NEW a \in Node, NEW b \in Node, Trio(f, a, b)', TrioSound(f, a, b)
    PROVE  TrioSound(f, a, b)'
<1>1. Trio(f, a, b) /\ Founders \subseteq Founders' /\ Joiners \subseteq Joiners' /\ EachJoinsOnce'
  BY TrioBefore DEF Trio
<1>2. \A j \in {a, b} : Waiting(j)' => Waiting(j)
  BY <1>1, WaitingBefore
<1>3. ASSUME NEW n \in Node, NEW c \in Command, c # "CREATE", Issue(n, c)
      PROVE  Founders' = Founders
  BY <1>3, IssueGrows DEF Founders, Commanded, Command
<1>. DEFINE Sent(r) == /\ InFlight' \subseteq InFlight \cup {r}
                       /\ r.type \in {"JOIN_REQ", "RINGSTATE", "GET_PRED_SUC_REQ"}
                       /\ r.type = "JOIN_REQ" => r.name \in Joiners'
<1>4. ASSUME UNCHANGED <<m_pred, m_suc, m_pred_hash>>, Founders' = Founders,
             NEW r, Sent(r)
      PROVE  TrioSound(f, a, b)'
  BY <1>1, <1>2, <1>4, QuietTrio
<1>5. ASSUME UNCHANGED <<m_pred, m_suc, m_pred_hash>>, Founders' = Founders, net' = net
      PROVE  TrioSound(f, a, b)'
  <2>1. Sent([type |-> "RINGSTATE"])
    BY <1>5 DEF InFlight
  <2>. QED  BY <1>4, <1>5, <2>1
<1>6. ASSUME NEW n \in Node, ProcessCommand(n) PROVE TrioSound(f, a, b)'
  <2>1. CASE CreateChord(n)
    <3>1. n \in Founders'
      BY <2>1, IssueGrows DEF CreateChord, Founders, Commanded, Command, TypeOK
    <3>2. n = f /\ f # a /\ f # b
      BY <3>1 DEF Trio
    <3>. QED  BY <1>1, <1>2, <2>1, <3>2, CreateTrio
  <2>2. ASSUME NEW target \in Contact[n], JoinChord(n, target) PROVE TrioSound(f, a, b)'
    <3>1. Issue(n, "JOIN") /\ UNCHANGED <<m_pred, m_suc, m_pred_hash>>
      BY <2>2 DEF JoinChord, pointers
    <3>2. n \in Joiners'
      BY <3>1, IssueGrows DEF Joiners, Commanded, Command, TypeOK
    <3>3. Sent(Datagram("JOIN_REQ", n, target, n))
      BY <2>2, <3>2, AfterSend DEF JoinChord, Datagram, TypeOK
    <3>4. Founders' = Founders
      BY <1>3, <3>1 DEF Command
    <3>. QED  BY <1>4, <3>1, <3>3, <3>4
  <2>3. CASE StartRingstate(n)
    <3>1. Sent(Datagram("RINGSTATE", n, m_suc[n], n))
      BY <2>3, AfterSend DEF StartRingstate, Datagram, TypeOK
    <3>2. Founders' = Founders /\ UNCHANGED <<m_pred, m_suc, m_pred_hash>>
      BY <1>3, <2>3 DEF StartRingstate, Command, pointers, digests
    <3>. QED  BY <1>4, <3>1, <3>2
  <2>4. CASE NodeLeave(n)
    <3>1. issued'[n]["LEAVE"] = issued[n]["LEAVE"] + 1 /\ issued[n]["LEAVE"] \in Nat
      BY <2>4, IssueGrows DEF NodeLeave, Command, TypeOK
    <3>. QED  BY <1>1, <3>1 DEF EachJoinsOnce
  <2>5. CASE CommandWithoutSocket(n)
    <3>1. Founders' = Founders
      BY <1>3, <2>5 DEF CommandWithoutSocket, Command
    <3>. QED  BY <1>5, <2>5, <3>1 DEF CommandWithoutSocket, pointers, digests
  <2>. QED  BY <1>6, <2>1, <2>2, <2>3, <2>4, <2>5 DEF ProcessCommand
<1>7. ASSUME NEW n \in Node, StopApplication(n) PROVE TrioSound(f, a, b)'
  <2>1. Founders' = Founders
    BY <1>3, <1>7 DEF StopApplication, Command
  <2>. QED  BY <1>5, <1>7, <2>1 DEF StopApplication, pointers, digests
<1>8. ASSUME NEW n \in Node, Stabilize(n) PROVE TrioSound(f, a, b)'
  <2>1. Founders' = Founders /\ UNCHANGED <<m_pred, m_suc, m_pred_hash>>
    BY <1>8 DEF Stabilize, Founders, Commanded, pointers, digests, scenario
  <2>2. CASE net' = net
    BY <1>5, <2>1, <2>2
  <2>3. CASE net' # net
    <3>1. Sent(Datagram("GET_PRED_SUC_REQ", n, m_suc[n], n))
      BY <1>8, <2>3, AfterSend DEF Stabilize, Datagram, TypeOK
    <3>. QED  BY <1>4, <2>1, <3>1
  <2>. QED  BY <2>2, <2>3
<1>9. ASSUME NEW m \in InFlight, RecvMessage(m) PROVE TrioSound(f, a, b)'
  <2>1. Context(f, a, b) /\ Context(f, b, a)
    <3>1. Trio(f, b, a) /\ TrioSound(f, b, a)
      BY <1>1 DEF Trio, TrioSound, TrioMessage
    <3>. QED  BY <1>1, <3>1, TrioKnown DEF Context
  <2>2. Answered(m) /\ ~aborted /\ issued' = issued
    BY <1>9, Reply DEF RecvMessage, scenario
  <2>3. PairSound(f, a, b)' /\ \A k \in InFlight' : TrioMessage(f, a, b, k)'
    BY <1>2, <2>1, <2>2, RecvPair
  <2>4. PairSound(f, b, a)'
    BY <1>2, <2>1, <2>2, RecvPair
  <2>. QED  BY <2>3, <2>4 DEF TrioSound
<1>10. ASSUME NEW m \in InFlight, Lose(m) PROVE TrioSound(f, a, b)'
  <2>1. Founders' = Founders /\ UNCHANGED <<m_pred, m_suc, m_pred_hash>>
    BY <1>10 DEF Lose, Founders, Commanded, pointers, digests, scenario
  <2>2. Sent([type |-> "RINGSTATE"])
    BY <1>10, TakeBag DEF Lose, InFlight, TypeOK
  <2>. QED  BY <1>4, <2>1, <2>2
<1>11. CASE UNCHANGED vars
  BY <1>5, <1>11 DEF vars, Founders, Commanded
<1>. QED  BY <1>6, <1>7, <1>8, <1>9, <1>10, <1>11 DEF Next

\* A founder and two nodes that join once, at any time, whatever else happens to their messages
\* and to other nodes: from each of them that has a successor, successors lead to the founder.
THEOREM RingKept == Spec => []TwoJoinsKeepRing
<1>1. Init => TrioInv
  <2>. SUFFICES ASSUME Init, NEW f \in Node, NEW a \in Node, NEW b \in Node
                PROVE  TrioSound(f, a, b)
    BY DEF TrioInv
  <2>1. InFlight = {}
    BY EmptyNet DEF Init, InFlight
  <2>2. \A n \in Node : m_suc[n] = NoNode /\ m_pred[n] = NoNode /\ n # NoNode
    BY NoNodeAssumption DEF Init
  <2>3. f \notin Founders
    BY DEF Init, Founders, Commanded, Command
  <2>4. \A x, y \in Node : ~Points(x, y) /\ ~Taught(x, y)
    BY <2>1, <2>2 DEF Points, Taught
  <2>. QED  BY <2>1, <2>2, <2>3, <2>4 DEF TrioSound, PairSound, BehindAnswered
<1>2. TypeOK /\ TypeOK' /\ AloneInv /\ BystandersStayOut /\ RingNeedsFounder /\ MyHashIsOwn
         /\ TrioInv /\ [Next]_vars => TrioInv'
  <2>. SUFFICES ASSUME TypeOK, TypeOK', AloneInv, BystandersStayOut, RingNeedsFounder, MyHashIsOwn,
                       TrioInv, [Next]_vars
                PROVE  TrioInv'
    OBVIOUS
  <2>1. ASSUME NEW f \in Node, NEW a \in Node, NEW b \in Node, Trio(f, a, b)'
        PROVE  TrioSound(f, a, b)'
    <3>1. Trio(f, a, b)
      BY <2>1, TrioBefore
    <3>2. AloneSound /\ TrioSound(f, a, b)
      BY <3>1 DEF AloneInv, TrioInv, Trio
    <3>. QED  BY <2>1, <3>2, TrioStep
  <2>. QED  BY <2>1 DEF TrioInv
<1>3. TypeOK /\ AloneInv /\ BystandersStayOut /\ TrioInv => TwoJoinsKeepRing
  <2>. SUFFICES ASSUME TypeOK, AloneInv, BystandersStayOut, TrioInv, NEW f \in Node, NEW a \in Node,
                       NEW b \in Node, EachJoinsOnce, Founders = {f}, Joiners \subseteq {a, b},
                       NEW n \in InRing \ {f}
                PROVE  f \in Downstream(n)
    BY DEF TwoJoinsKeepRing
  <2>1. Entered \subseteq {f} \cup Joiners
    BY DEF Entered, Founders, Joiners, Commanded, EachJoinsOnce, TypeOK, Command
  <2>2. /\ n \in Node /\ m_suc[n] # NoNode /\ m_suc[n] # n /\ m_suc[n] \in Entered
        /\ n \in Joiners
    BY <2>1 DEF InRing, BystandersStayOut, AloneInv, AloneSound
  <2>3. CASE m_suc[n] = f
    BY <2>2, <2>3, NoNodeAssumption DEF Downstream
  <2>4. CASE m_suc[n] # f
    <3>1. PICK k \in {a, b} : m_suc[n] = k /\ k # n /\ k # f /\ k \in Node /\ Joiners \subseteq {n, k}
      BY <2>1, <2>2, <2>4
    <3>2. Trio(f, n, k)
      BY <2>2, <3>1 DEF Trio
    <3>3. m_suc[k] = f
      BY <2>2, <3>1, <3>2 DEF TrioInv, TrioSound, PairSound, Taught
    <3>4. ASSUME NEW S \in SUBSET Node, \A y \in S \cup {n} : m_suc[y] \in S \cup {NoNode}
          PROVE  f \in S
      <4>1. k \in S
        BY <2>2, <3>1, <3>4
      <4>. QED  BY <3>3, <3>4, <4>1, NoNodeAssumption
    <3>. QED  BY <3>4 DEF Downstream
  <2>. QED  BY <2>3, <2>4
<1>. QED  BY <1>1, <1>2, <1>3, TypeCorrect, AlwaysAlone, BystandersSafe, FounderNeeded, MyHashOwn, PTL
     DEF Spec

-----------------------------------------------------------------------------
(* Counting the copies of a walk's datagrams.                              *)

\* A copy in flight is a datagram with a number up to the number of its copies.
LEMMA WalkCopy ==
    ASSUME NEW b, NEW n, NEW T
    PROVE  \A x : x \in WalkCopies(b, n, T) <=>
                    \E m \in BagToSet(b) : Walks(m, n, T) /\ \E i \in 1 .. b[m] : x = <<m, i>>
BY DEF WalkCopies

LEMMA WalkCopyOf ==
    ASSUME NEW b, NEW n, NEW T, NEW m, NEW i
    PROVE  <<m, i>> \in WalkCopies(b, n, T) <=> m \in BagToSet(b) /\ Walks(m, n, T) /\ i \in 1 .. b[m]
BY WalkCopy

\* Receiving a datagram removes its last copy.
LEMMA TakeCopies ==
    ASSUME NEW b, IsABag(b), NEW m \in BagToSet(b), NEW n, NEW T
    PROVE  WalkCopies(Take(b, m), n, T) \subseteq WalkCopies(b, n, T) \ {<<m, b[m]>>}
<1>. DEFINE c == Take(b, m)
<1>1. /\ BagToSet(c) \subseteq BagToSet(b)
      /\ \A k \in BagToSet(c) : c[k] = IF k = m THEN b[k] - 1 ELSE b[k]
      /\ \A k \in BagToSet(b) : b[k] \in Nat
  BY DEF Take, IsABag, BagToSet, SetToBag, (-)
<1>. HIDE DEF c
<1>2. ASSUME NEW k \in BagToSet(c), Walks(k, n, T), NEW i, i \in 1 .. c[k]
      PROVE  k \in BagToSet(b) /\ i \in 1 .. b[k] /\ <<k, i>> # <<m, b[m]>>
  BY <1>1, <1>2
<1>3. ASSUME NEW x \in WalkCopies(c, n, T)
      PROVE  x \in WalkCopies(b, n, T) \ {<<m, b[m]>>}
  <2>1. PICK k, i : k \in BagToSet(c) /\ i \in 1 .. c[k] /\ Walks(k, n, T) /\ x = <<k, i>>
    BY WalkCopy
  <2>. QED  BY <1>2, <2>1, WalkCopyOf
<1>. QED  BY <1>3 DEF c

\* Sending one adds one copy to its walk and nothing to another.
LEMMA PostCopies ==
    ASSUME NEW b, IsABag(b), NEW r, NEW n, NEW T
    PROVE  /\ \E x : WalkCopies(Post(b, r), n, T) \subseteq WalkCopies(b, n, T) \cup {x}
           /\ r.dst = NoNode \/ ~Walks(r, n, T)
                => WalkCopies(Post(b, r), n, T) \subseteq WalkCopies(b, n, T)
<1>. DEFINE c == Post(b, r)
            x == <<r, c[r]>>
<1>0. r.dst = NoNode => c = b
  BY DEF Post
<1>1. CASE r.dst # NoNode
  <2>1. /\ BagToSet(c) \subseteq BagToSet(b) \cup {r}
        /\ \A k \in BagToSet(c) : k # r => c[k] = b[k]
        /\ r \in BagToSet(b) => c[r] = b[r] + 1
        /\ r \notin BagToSet(b) => c[r] = 1
        /\ \A k \in BagToSet(b) : b[k] \in Nat
    BY <1>1 DEF Post, IsABag, BagToSet, SetToBag, (+)
  <2>. HIDE DEF c
  <2>2. ASSUME NEW k \in BagToSet(c), NEW i, i \in 1 .. c[k], <<k, i>> # x
        PROVE  k \in BagToSet(b) /\ i \in 1 .. b[k]
    BY <2>1, <2>2
  <2>3. ASSUME NEW y \in WalkCopies(c, n, T), y # x
        PROVE  y \in WalkCopies(b, n, T)
    <3>1. PICK k, i : k \in BagToSet(c) /\ i \in 1 .. c[k] /\ Walks(k, n, T) /\ y = <<k, i>>
      BY WalkCopy
    <3>. QED  BY <2>2, <2>3, <3>1, WalkCopyOf
  <2>4. x \in WalkCopies(c, n, T) => Walks(r, n, T)
    BY WalkCopyOf
  <2>5. /\ \E y : WalkCopies(c, n, T) \subseteq WalkCopies(b, n, T) \cup {y}
        /\ ~Walks(r, n, T) => WalkCopies(c, n, T) \subseteq WalkCopies(b, n, T)
    BY <2>3, <2>4
  <2>. QED  BY <1>1, <2>5 DEF c
<1>. QED  BY <1>0, <1>1

\* The same as numbers.
LEMMA TakeTravelling ==
    ASSUME NEW b, IsABag(b), NEW m \in BagToSet(b), NEW n, NEW T, IsFiniteSet(WalkCopies(b, n, T))
    PROVE  /\ IsFiniteSet(WalkCopies(Take(b, m), n, T))
           /\ Cardinality(WalkCopies(Take(b, m), n, T)) \in Nat
           /\ Cardinality(WalkCopies(Take(b, m), n, T))
                <= Cardinality(WalkCopies(b, n, T)) - (IF Walks(m, n, T) THEN 1 ELSE 0)
<1>. DEFINE W == WalkCopies(b, n, T)
            V == WalkCopies(Take(b, m), n, T)
            x == <<m, b[m]>>
<1>1. V \subseteq W \ {x}
  BY TakeCopies
<1>2. Walks(m, n, T) => x \in W
  <2>1. b[m] \in Nat \ {0}
    BY DEF IsABag, BagToSet
  <2>. QED  BY <2>1, WalkCopyOf
<1>. HIDE DEF W, V, x
<1>3. /\ IsFiniteSet(W \ {x}) /\ Cardinality(W) \in Nat
      /\ Cardinality(W \ {x}) = IF x \in W THEN Cardinality(W) - 1 ELSE Cardinality(W)
  BY FS_RemoveElement, FS_CardinalityType DEF W
<1>4. /\ IsFiniteSet(V) /\ Cardinality(V) \in Nat
      /\ Cardinality(V) <= Cardinality(W \ {x})
  BY <1>1, <1>3, FS_Subset, FS_CardinalityType
<1>5. Cardinality(V) <= Cardinality(W) - (IF Walks(m, n, T) THEN 1 ELSE 0)
  BY <1>2, <1>3, <1>4
<1>. QED  BY <1>4, <1>5 DEF W, V

LEMMA PostTravelling ==
    ASSUME NEW b, IsABag(b), NEW r, NEW n, NEW T, IsFiniteSet(WalkCopies(b, n, T))
    PROVE  /\ IsFiniteSet(WalkCopies(Post(b, r), n, T))
           /\ Cardinality(WalkCopies(Post(b, r), n, T)) \in Nat
           /\ Cardinality(WalkCopies(Post(b, r), n, T))
                <= Cardinality(WalkCopies(b, n, T))
                     + (IF r.dst # NoNode /\ Walks(r, n, T) THEN 1 ELSE 0)
<1>. DEFINE W == WalkCopies(b, n, T)
            V == WalkCopies(Post(b, r), n, T)
<1>1. PICK x : V \subseteq W \cup {x}
  BY PostCopies
<1>2. r.dst = NoNode \/ ~Walks(r, n, T) => V \subseteq W
  BY PostCopies
<1>. HIDE DEF W, V
<1>3. /\ IsFiniteSet(W) /\ Cardinality(W) \in Nat /\ IsFiniteSet(W \cup {x})
      /\ Cardinality(W \cup {x}) = IF x \in W THEN Cardinality(W) ELSE Cardinality(W) + 1
  BY FS_AddElement, FS_CardinalityType DEF W
<1>4. /\ IsFiniteSet(V) /\ Cardinality(V) \in Nat
      /\ Cardinality(V) <= Cardinality(W) + 1
      /\ V \subseteq W => Cardinality(V) <= Cardinality(W)
  BY <1>1, <1>3, FS_Subset, FS_CardinalityType
<1>5. Cardinality(V) <= Cardinality(W) + (IF r.dst # NoNode /\ Walks(r, n, T) THEN 1 ELSE 0)
  BY <1>2, <1>3, <1>4
<1>. QED  BY <1>4, <1>5 DEF W, V

-----------------------------------------------------------------------------
(* The invariant on walks.                                                 *)

SearchTypes == {"JOIN_REQ", "FIND_SUC_REQ", "JOIN_RSP"}

\* The walks of types T that the commands c of n have started.
WalkBounded(n, T, c) ==
    /\ IsFiniteSet(WalkCopies(net, n, T))
    /\ Travelling(n, T) <= issued[n][c]

\* A request is its sender's, so that the answer, which goes to the sender, belongs to
\* the same walk.
WalkSound ==
    /\ \A m \in InFlight : m.type = "JOIN_REQ" => m.src = m.name
    /\ \A n \in Node : /\ WalkBounded(n, SearchTypes, "JOIN")
                       /\ WalkBounded(n, {"RINGSTATE"}, "RINGSTATE")

\* What is sent without a command being given belongs to the walk of what is received.
LEMMA ReplyBounded ==
    ASSUME TypeOK, NEW m \in InFlight, NEW r, net' = Post(Take(net, m), r), issued' = issued,
           NEW n \in Node, NEW T, NEW c \in Command, WalkBounded(n, T, c),
           r.dst # NoNode /\ Walks(r, n, T) => Walks(m, n, T)
    PROVE  WalkBounded(n, T, c)'
<1>. DEFINE b == Take(net, m)
<1>1. IsABag(net) /\ m \in BagToSet(net) /\ IsFiniteSet(WalkCopies(net, n, T))
  BY DEF TypeOK, InFlight, WalkBounded
<1>2. /\ IsABag(b) /\ IsFiniteSet(WalkCopies(b, n, T)) /\ Cardinality(WalkCopies(b, n, T)) \in Nat
      /\ Cardinality(WalkCopies(b, n, T)) <= Travelling(n, T) - (IF Walks(m, n, T) THEN 1 ELSE 0)
  BY <1>1, TakeBag, TakeTravelling DEF Travelling
<1>. HIDE DEF b
<1>3. /\ IsFiniteSet(WalkCopies(Post(b, r), n, T))
      /\ Cardinality(WalkCopies(Post(b, r), n, T)) \in Nat
      /\ Cardinality(WalkCopies(Post(b, r), n, T)) <=
           Cardinality(WalkCopies(b, n, T)) + (IF r.dst # NoNode /\ Walks(r, n, T) THEN 1 ELSE 0)
  BY <1>2, PostTravelling
<1>4. Travelling(n, T) \in Nat /\ issued[n][c] \in Nat
  BY <1>1, FS_CardinalityType DEF Travelling, TypeOK
<1>5. net' = Post(b, r)
  BY DEF b
<1>6. Travelling(n, T) <= issued[n][c]
  BY DEF WalkBounded
<1>7. Cardinality(WalkCopies(Post(b, r), n, T)) <= issued[n][c]
  BY <1>2, <1>3, <1>4, <1>6
<1>. QED  BY <1>3, <1>5, <1>7 DEF WalkBounded, Travelling

\* What is sent for a command is counted with it.
LEMMA SendBounded ==
    ASSUME TypeOK, NEW r, net' = Post(net, r), NEW n \in Node, NEW T, NEW c \in Command,
           WalkBounded(n, T, c), issued'[n][c] \in Nat,
           issued[n][c] + (IF r.dst # NoNode /\ Walks(r, n, T) THEN 1 ELSE 0) <= issued'[n][c]
    PROVE  WalkBounded(n, T, c)'
<1>1. IsABag(net) /\ IsFiniteSet(WalkCopies(net, n, T))
  BY DEF TypeOK, WalkBounded
<1>2. /\ IsFiniteSet(WalkCopies(Post(net, r), n, T))
      /\ Cardinality(WalkCopies(Post(net, r), n, T)) \in Nat
      /\ Cardinality(WalkCopies(Post(net, r), n, T)) <=
           Travelling(n, T) + (IF r.dst # NoNode /\ Walks(r, n, T) THEN 1 ELSE 0)
  BY <1>1, PostTravelling DEF Travelling
<1>3. Travelling(n, T) \in Nat /\ issued[n][c] \in Nat /\ Travelling(n, T) <= issued[n][c]
  BY <1>1, FS_CardinalityType DEF Travelling, TypeOK, WalkBounded
<1>4. Cardinality(WalkCopies(Post(net, r), n, T)) <= issued'[n][c]
  BY <1>2, <1>3
<1>. QED  BY <1>2, <1>4 DEF WalkBounded, Travelling

LEMMA RecvWalk ==
    ASSUME TypeOK, WalkSound, NEW m \in InFlight, RecvMessage(m)
    PROVE  WalkSound'
<1>. PICK r : ReplySound(m, r) /\ net' = Post(Take(net, m), r)
  BY Reply DEF Answered
<1>1. issued' = issued
  BY DEF RecvMessage, scenario
<1>2. InFlight' \subseteq InFlight \cup {r} /\ r.type # "JOIN_REQ"
  BY AfterReply DEF TypeOK, ReplySound
<1>3. ASSUME NEW n, r.dst # NoNode, Walks(r, n, SearchTypes)
      PROVE  Walks(m, n, SearchTypes)
  <2>1. CASE r.type = "FIND_SUC_REQ"
    BY <1>3, <2>1 DEF Walks, ReplySound, IsSearch, SearchTypes
  <2>2. CASE r.type = "JOIN_RSP"
    BY <1>3, <2>2 DEF Walks, ReplySound, SearchTypes, WalkSound
  <2>. QED  BY <1>2, <1>3, <2>1, <2>2 DEF Walks, SearchTypes
<1>4. ASSUME NEW n, r.dst # NoNode, Walks(r, n, {"RINGSTATE"})
      PROVE  Walks(m, n, {"RINGSTATE"})
  BY <1>4 DEF Walks, ReplySound
<1>5. \A n \in Node : WalkBounded(n, SearchTypes, "JOIN")' /\ WalkBounded(n, {"RINGSTATE"}, "RINGSTATE")'
  BY <1>1, <1>3, <1>4, ReplyBounded DEF WalkSound, Command
<1>. QED  BY <1>2, <1>5 DEF WalkSound

LEMMA LoseWalk ==
    ASSUME TypeOK, WalkSound, NEW m \in InFlight, Lose(m)
    PROVE  WalkSound'
\* as if it had been answered to the empty name
<1>. DEFINE r == Datagram("RINGSTATE", m.dst, NoNode, NoNode)
<1>1. r.dst = NoNode /\ net' = Post(Take(net, m), r) /\ issued' = issued
  BY DEF Lose, Post, Datagram, scenario
<1>. HIDE DEF r
<1>2. InFlight' \subseteq InFlight
  BY <1>1, AfterReply DEF TypeOK
<1>3. \A n \in Node : WalkBounded(n, SearchTypes, "JOIN")' /\ WalkBounded(n, {"RINGSTATE"}, "RINGSTATE")'
  BY <1>1, ReplyBounded DEF WalkSound, Command
<1>. QED  BY <1>2, <1>3 DEF WalkSound

\* A datagram that is no search and, being a walk of n, started by a command to n.
LEMMA SendWalk ==
    ASSUME TypeOK, TypeOK', WalkSound, NEW r, net' = Post(net, r),
           r.type = "JOIN_REQ" => r.src = r.name,
           r.type \notin {"FIND_SUC_REQ", "JOIN_RSP"},
           \A n \in Node, c \in Command : issued[n][c] <= issued'[n][c],
           r.type \in {"JOIN_REQ", "RINGSTATE"} /\ r.name \in Node =>
              issued'[r.name][IF r.type = "JOIN_REQ" THEN "JOIN" ELSE "RINGSTATE"] =
                 issued[r.name][IF r.type = "JOIN_REQ" THEN "JOIN" ELSE "RINGSTATE"] + 1
    PROVE  WalkSound'
<1>1. InFlight' \subseteq InFlight \cup {r}
  BY AfterSend DEF TypeOK
<1>2. \A n \in Node, c \in Command : issued[n][c] \in Nat /\ issued'[n][c] \in Nat
  BY DEF TypeOK
<1>3. ASSUME NEW n \in Node PROVE WalkBounded(n, SearchTypes, "JOIN")'
  <2>1. Walks(r, n, SearchTypes) => r.type = "JOIN_REQ" /\ r.name = n
    BY DEF Walks, SearchTypes
  <2>2. issued[n]["JOIN"] + (IF r.dst # NoNode /\ Walks(r, n, SearchTypes) THEN 1 ELSE 0)
          <= issued'[n]["JOIN"]
    BY <1>2, <2>1 DEF Command
  <2>. QED  BY <1>2, <2>2, SendBounded DEF WalkSound, Command
<1>4. ASSUME NEW n \in Node PROVE WalkBounded(n, {"RINGSTATE"}, "RINGSTATE")'
  <2>1. Walks(r, n, {"RINGSTATE"}) => r.type = "RINGSTATE" /\ r.name = n
    BY DEF Walks
  <2>2. issued[n]["RINGSTATE"] + (IF r.dst # NoNode /\ Walks(r, n, {"RINGSTATE"}) THEN 1 ELSE 0)
          <= issued'[n]["RINGSTATE"]
    BY <1>2, <2>1 DEF Command
  <2>. QED  BY <1>2, <2>2, SendBounded DEF WalkSound, Command
<1>. QED  BY <1>1, <1>3, <1>4 DEF WalkSound

\* LEAVE sends two datagrams that belong to no walk.
LEMMA LeaveWalk ==
    ASSUME TypeOK, TypeOK', WalkSound, NEW n \in Node, NodeLeave(n)
    PROVE  WalkSound'
<1>. DEFINE r == Datagram("NOTIFY_PRED", n, m_pred'[n], m_suc'[n])
            s == Datagram("NOTIFY_SUC", n, m_suc'[n], m_pred'[n])
            b == Post(net, r)
<1>1. net' = Post(b, s) /\ r.type = "NOTIFY_PRED" /\ s.type = "NOTIFY_SUC"
  BY DEF NodeLeave, Datagram
<1>2. \A k \in Node, c \in Command :
         issued[k][c] \in Nat /\ issued'[k][c] \in Nat /\ issued[k][c] <= issued'[k][c]
  BY IssueGrows DEF NodeLeave, TypeOK, Command
<1>. HIDE DEF r, s
<1>3. IsABag(net) /\ IsABag(b) /\ BagToSet(b) \subseteq BagToSet(net) \cup {r}
  BY PostBag DEF TypeOK
<1>4. BagToSet(net') \subseteq BagToSet(b) \cup {s}
  BY <1>1, <1>3, PostBag
<1>5. ASSUME NEW k \in Node, NEW c \in Command,
             NEW T, "NOTIFY_PRED" \notin T, "NOTIFY_SUC" \notin T, WalkBounded(k, T, c)
      PROVE  WalkBounded(k, T, c)'
  <2>1. ~Walks(r, k, T) /\ ~Walks(s, k, T)
    BY <1>1, <1>5 DEF Walks
  <2>2. /\ IsFiniteSet(WalkCopies(net, k, T)) /\ Cardinality(WalkCopies(net, k, T)) <= issued[k][c]
        /\ Cardinality(WalkCopies(net, k, T)) \in Nat
    BY <1>5, FS_CardinalityType DEF WalkBounded, Travelling
  <2>3. /\ IsFiniteSet(WalkCopies(b, k, T)) /\ Cardinality(WalkCopies(b, k, T)) \in Nat
        /\ Cardinality(WalkCopies(b, k, T)) <= Cardinality(WalkCopies(net, k, T)) + 0
    BY <1>3, <2>1, <2>2, PostTravelling
  <2>. HIDE DEF b
  <2>4. /\ IsFiniteSet(WalkCopies(net', k, T)) /\ Cardinality(WalkCopies(net', k, T)) \in Nat
        /\ Cardinality(WalkCopies(net', k, T)) <= Cardinality(WalkCopies(b, k, T)) + 0
    BY <1>1, <1>3, <2>1, <2>3, PostTravelling
  <2>5. Cardinality(WalkCopies(net', k, T)) <= issued'[k][c]
    BY <1>2, <2>2, <2>3, <2>4
  <2>. QED  BY <2>4, <2>5 DEF WalkBounded, Travelling
<1>6. \A k \in Node : WalkBounded(k, SearchTypes, "JOIN")' /\ WalkBounded(k, {"RINGSTATE"}, "RINGSTATE")'
  BY <1>5 DEF WalkSound, Command, SearchTypes
<1>. QED  BY <1>1, <1>3, <1>4, <1>6 DEF WalkSound, InFlight

\* Nothing is sent and no count of commands falls.
LEMMA QuietWalk ==
    ASSUME TypeOK, TypeOK', WalkSound, net' = net,
           \A n \in Node, c \in Command : issued[n][c] <= issued'[n][c]
    PROVE  WalkSound'
<1>. DEFINE r == Datagram("NOTIFY_SUC", NoNode, NoNode, NoNode)
<1>1. net' = Post(net, r) /\ r.type = "NOTIFY_SUC"
  BY DEF Post, Datagram
<1>. HIDE DEF r
<1>. QED  BY <1>1, SendWalk

LEMMA WalkStep == TypeOK /\ TypeOK' /\ WalkSound /\ [Next]_vars => WalkSound'
<1>. SUFFICES ASSUME TypeOK, TypeOK', WalkSound, [Next]_vars PROVE WalkSound'
  OBVIOUS
<1>1. ASSUME issued' = issued PROVE \A n \in Node, c \in Command : issued[n][c] <= issued'[n][c]
  BY <1>1 DEF TypeOK
<1>2. ASSUME NEW n \in Node, NEW c \in Command, Issue(n, c)
      PROVE  \A k \in Node, d \in Command : issued[k][d] <= issued'[k][d]
  <2>1. \A k \in Node, d \in Command : issued[k][d] \in Nat /\ issued'[k][d] \in Nat
    BY DEF TypeOK
  <2>2. \A k \in Node, d \in Command :
           issued'[k][d] = issued[k][d] \/ issued'[k][d] = issued[k][d] + 1
    BY <1>2, IssueGrows
  <2>. QED  BY <2>1, <2>2
<1>3. ASSUME NEW n \in Node, ProcessCommand(n) PROVE WalkSound'
  <2>1. CASE CreateChord(n)
    BY <1>2, <2>1, QuietWalk DEF CreateChord, Command
  <2>2. ASSUME NEW target \in Contact[n], JoinChord(n, target) PROVE WalkSound'
    <3>. DEFINE r == Datagram("JOIN_REQ", n, target, n)
    <3>1. net' = Post(net, r) /\ r.type = "JOIN_REQ" /\ r.src = n /\ r.name = n /\ Issue(n, "JOIN")
      BY <2>2 DEF JoinChord, Datagram
    <3>. HIDE DEF r
    <3>2. issued'[n]["JOIN"] = issued[n]["JOIN"] + 1
      BY <3>1, IssueGrows DEF Command
    <3>. QED  BY <1>2, <3>1, <3>2, SendWalk DEF Command
  <2>3. CASE StartRingstate(n)
    <3>. DEFINE r == Datagram("RINGSTATE", n, m_suc[n], n)
    <3>1. net' = Post(net, r) /\ r.type = "RINGSTATE" /\ r.name = n /\ Issue(n, "RINGSTATE")
      BY <2>3 DEF StartRingstate, Datagram
    <3>. HIDE DEF r
    <3>2. issued'[n]["RINGSTATE"] = issued[n]["RINGSTATE"] + 1
      BY <3>1, IssueGrows DEF Command
    <3>. QED  BY <1>2, <3>1, <3>2, SendWalk DEF Command
  <2>4. CASE CommandWithoutSocket(n)
    BY <1>2, <2>4, QuietWalk DEF CommandWithoutSocket, Command
  <2>. QED  BY <1>3, <2>1, <2>2, <2>3, <2>4, LeaveWalk DEF ProcessCommand
<1>4. ASSUME NEW n \in Node, StopApplication(n) PROVE WalkSound'
  BY <1>2, <1>4, QuietWalk DEF StopApplication, Command
<1>5. ASSUME NEW n \in Node, Stabilize(n) PROVE WalkSound'
  <2>1. CASE net' = net
    BY <1>1, <1>5, <2>1, QuietWalk DEF Stabilize, scenario
  <2>2. CASE net' # net
    <3>. DEFINE r == Datagram("GET_PRED_SUC_REQ", n, m_suc[n], n)
    <3>1. net' = Post(net, r) /\ r.type = "GET_PRED_SUC_REQ" /\ issued' = issued
      BY <1>5, <2>2 DEF Stabilize, Datagram, scenario
    <3>. HIDE DEF r
    <3>. QED  BY <1>1, <3>1, SendWalk
  <2>. QED  BY <2>1, <2>2
<1>6. CASE UNCHANGED vars
  BY <1>1, <1>6, QuietWalk DEF vars
<1>. QED  BY <1>3, <1>4, <1>5, <1>6, RecvWalk, LoseWalk DEF Next

\* A JOIN command never has more than one datagram travelling for it, and neither has a
\* RINGSTATE, in every ring and however its handlers interleave.
THEOREM OneWalk == Spec => []OneWalkPerCommand
<1>1. Init => WalkSound
  <2>. SUFFICES ASSUME Init PROVE WalkSound
    OBVIOUS
  <2>1. InFlight = {}
    BY EmptyNet DEF Init, InFlight
  <2>2. \A n, T : IsFiniteSet(WalkCopies(net, n, T)) /\ Travelling(n, T) = 0
    BY <2>1, FS_EmptySet DEF WalkCopies, InFlight, Travelling
  <2>3. \A n \in Node, c \in Command : issued[n][c] = 0
    BY DEF Init
  <2>. QED  BY <2>1, <2>2, <2>3 DEF WalkSound, WalkBounded, Command
<1>2. WalkSound => OneWalkPerCommand
  BY DEF WalkSound, WalkBounded, OneWalkPerCommand, SearchTypes
<1>. QED  BY <1>1, <1>2, WalkStep, TypeCorrect, PTL DEF Spec

=============================================================================
