----------------------------- MODULE MCLinkPing -----------------------------
(***************************************************************************)
(* Small networks for LinkPing.  Discovery runs beside the pings on a      *)
(* single link only, where answers are lost; elsewhere its requests are,   *)
(* because it shares nothing with the pings but the counter, which starts  *)
(* anywhere.  The pings of 1 to 3 and of 3 to 1 meet a neighbour, a node   *)
(* two hops away or nobody, as the network has it.                         *)
(***************************************************************************)
EXTENDS LinkPing, Sequences

Wire(ends, lost) ==
    [attached |-> [l \in Link |-> IF l \in DOMAIN ends THEN ends[l] ELSE {}], lost |-> lost]
NoDiscovery == Node \X {"ND_REQ"}

Line == Wire(<<{1, 2}, {2, 3}>>, NoDiscovery)
Bus == Wire(<<{1, 2, 3}>>, NoDiscovery)
Doubled == Wire(<<{1, 2}, {1, 2}>>, NoDiscovery)
Single == Wire(<<{1, 2}>>, {<<2, "ND_REQ">>, <<1, "LSP">>, <<2, "PING_RSP">>})

PingNetworks == {Line, Bus, Doubled, Single}

P(n, k) == [from |-> n, to |-> k]
Pings == {P(1, 2), P(1, 3), P(3, 1)}

=============================================================================
