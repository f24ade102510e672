------------------------------- MODULE MCData -------------------------------
(***************************************************************************)
(* The two parts of the program that only compute: the formats of messages *)
(* and the index.  They share nothing, so the instance below either sends  *)
(* a message or reads files.                                               *)
(***************************************************************************)
EXTENDS MessageCodec, SearchIndex

Init == CodecInit /\ IndexInit
Next ==
    \/ CodecNext /\ tabled = <<>> /\ UNCHANGED indexVars
    \/ IndexNext /\ stage = "idle" /\ UNCHANGED codecVars
Spec == Init /\ [][Next]_<<codecVars, indexVars>>

-----------------------------------------------------------------------------
(* Messages, with a byte of 17 values: a number, a name and a text each    *)
(* from a few that fill their bytes differently.  The lengths of texts are *)
(* on both sides of what a datagram takes and of what two bytes can tell.  *)

Numbers == {0, 5, 4000, Base^4 - 1}
Names == {<<>>, <<5>>, <<1, 16, 0>>}
TextOf(n) == [i \in 1 .. n |-> (i * i) % Base]
Texts == {TextOf(n) : n \in {0, 1, 20, 244, 245, 253, 254, 288, 289, 292}}
Entry == {<<3, 4000, 0>>, <<Base^4 - 1, 1, 7>>}
Tables == {<<>>} \cup {<<e>> : e \in Entry} \cup {<<e, f>> : e \in Entry, f \in Entry}

Pings(class) == {[class |-> class, fields |-> <<y, t, x>>] : y \in {1, 2}, t \in Numbers, x \in Texts}
ChordNames ==
    {[class |-> "CHORD", fields |-> <<y, t, x>>] :
        y \in {5, 6, 7, 8, 9, 11}, t \in Numbers, x \in Names}
    \cup {[class |-> "CHORD", fields |-> <<y, 4000, x, z>>] : y \in {3, 12}, x \in Names, z \in Names}
    \cup {[class |-> "CHORD", fields |-> <<4, 4000, x, z, w>>] : x \in Names, z \in Names, w \in Names}
LSMessages ==
    {[class |-> "LS", fields |-> <<y, t, 16, 4000, a, x>>] :
        y \in {1, 2}, t \in Numbers, a \in {0, 4000}, x \in Texts}
    \cup {[class |-> "LS", fields |-> <<3, t, 1, a, TextOf(5)>>] : t \in Numbers, a \in Numbers}
    \cup {[class |-> "LS", fields |-> <<4, 5, 16, 4000, a, b, i, TextOf(11)>>] :
            a \in Numbers, b \in Numbers, i \in Numbers}
    \cup {[class |-> "LS", fields |-> <<5, t, 16, 4000, e, a>>] : t \in Numbers, a \in Numbers, e \in Tables}

Messages == Pings("CHORD") \cup Pings("SEARCH") \cup ChordNames \cup LSMessages

-----------------------------------------------------------------------------
(* Files of one line of up to five words and spaces, and one of two lines. *)

Words == {"a", "b"}
Lines ==
    UNION {{l \in [1 .. n -> Words \cup {Space}] :
              \A i \in 2 .. n : Space \in {l[i-1], l[i]}} : n \in 0 .. 5}
Files == {<<>>, <<<<"b", Space, "a", Space>>, <<"a", Space, "a", Space, "b", Space>>>>}
         \cup {<<l>> : l \in Lines}

=============================================================================
