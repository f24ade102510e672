---------------------------- MODULE MCLinkState ----------------------------
(***************************************************************************)
(* Small networks for LinkState: lines of three and of four nodes, one     *)
(* subnet with three nodes, and two nodes joined by two links.  In the     *)
(* last two one node's packets are lost: two senders are enough for        *)
(* packets to race, and a third makes the orders too many.                 *)
(***************************************************************************)
EXTENDS LinkState

Wire(ends, lost) ==
    [attached |-> [l \in Link |-> IF l \in DOMAIN ends THEN ends[l] ELSE {}], lost |-> lost]
Packets(N) == N \X {"LSP"}

Line == Wire(<<{1, 2}, {2, 3}>>, {})
LongLine == Wire(<<{1, 2}, {2, 3}, {3, 4}>>, {})
Bus == Wire(<<{1, 2, 3}>>, Packets({3}))
Doubled == Wire(<<{1, 2}, {1, 2}>>, Packets({2}))

SmallNetworks == {Line, Bus, Doubled}
FourInLine == {LongLine}

=============================================================================
