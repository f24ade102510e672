---------------------------- MODULE MCChordRing ----------------------------
(***************************************************************************)
(* Scenarios for ChordRing.  Nodes are numbered as in the topology, 0      *)
(* stands for the empty name, and a rank is made of the first two bytes of *)
(* the SHA-1 digest of the decimal name, so that the order is the order    *)
(* the program meets: 4 < 1 < 3 < 5 < (empty) < 2.                             *)
(***************************************************************************)
EXTENDS ChordRing

CONSTANTS
    CreateAt, JoinAt, LeaveAt, RingstateAt, StopAt, \* nodes that get the command
    AgainAt,                                        \* nodes that may get it twice
    Contacts                                        \* the arguments of JOIN

Sha1Prefix == <<13674, 55883, 30686, 7012, 44084>>
MCHash == [x \in Name |-> IF x = NoNode THEN 55865 ELSE Sha1Prefix[x]]
MCNameLen == [x \in Name |-> IF x = NoNode THEN 0 ELSE 1]

At == [c \in Command |-> CASE c = "CREATE" -> CreateAt
                           [] c = "JOIN" -> JoinAt
                           [] c = "LEAVE" -> LeaveAt
                           [] c = "RINGSTATE" -> RingstateAt
                           [] c = "STOP" -> StopAt]
MCLimit == [n \in Node |-> [c \in Command |->
                IF n \notin At[c] THEN 0
                ELSE IF n \in AgainAt /\ c \in {"CREATE", "JOIN"} THEN 2 ELSE 1]]
MCContact == [n \in Node |-> Contacts]

=============================================================================
