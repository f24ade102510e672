---------------------------- MODULE MessageCodec ----------------------------
(***************************************************************************)
(* How messages travel: GUChordMessage, GUSearchMessage and LSMessage are  *)
(* ns-3 headers, written into a packet by Serialize after GetSerializedSize*)
(* has told how much room to make, and read back by Deserialize.           *)
(*                                                                         *)
(* The three methods of a payload are written separately in the code and   *)
(* are given separately here, as the kinds of the fields that each of them *)
(* goes through:                                                           *)
(*    u8      a byte                                                       *)
(*    net32   WriteHtonU32, ReadNtohU32: four bytes, the high one first    *)
(*    host32  WriteU32, ReadU32: four bytes, the low one first             *)
(*    str     the length in two bytes (WriteU16), then the characters      *)
(*    table   a net32 length, then three host32 for each entry             *)
(***************************************************************************)
EXTENDS Integers, SequencesExt

CONSTANTS
    Base,        \* the number of values of a byte (256 in the program)
    Overhead,    \* length of the IP and UDP headers (28)
    Message      \* the messages to be sent

ASSUME BaseAssumption == Base \in Nat \ {0, 1}
ASSUME OverheadAssumption == Overhead \in 0 .. Base * Base - 1

\* The longest datagram, of which the length has to fit into 16 bits.
MaxPayload == Base * Base - 1 - Overhead

VARIABLES
    stage,       \* what has been done with the message
    message,     \* the message sent
    room,        \* the room made for it in the packet
    packet,      \* the bytes written
    received     \* what has been read, and the size that Deserialize returns

codecVars == <<stage, message, room, packet, received>>

-----------------------------------------------------------------------------
(* Numbers, strings and tables as bytes.                                   *)

\* The two, or four, lowest digits of v, the lowest first: any higher ones are lost.
HostU16(v) == <<v % Base, (v \div Base) % Base>>
HostU32(v) == HostU16(v) \o HostU16((v \div Base) \div Base)
NetU32(v) == LET b == HostU32(v) IN <<b[4], b[3], b[2], b[1]>>

ReadU16(b) == b[1] + Base * b[2]
ReadU32(b) == b[1] + Base * (b[2] + Base * (b[3] + Base * b[4]))
ReadNtohU32(b) == ReadU32(<<b[4], b[3], b[2], b[1]>>)

\* What a field can hold; the length of a table is far from its limit of 32 bits.
Byte == 0 .. Base - 1
U32 == 0 .. Base * Base * Base * Base - 1
Values(kind) ==
    CASE kind = "u8" -> Byte
      [] kind \in {"net32", "host32"} -> U32
      [] kind = "str" -> Seq(Byte)
      [] kind = "table" -> Seq(U32 \X U32 \X U32)

EncodeEntry(e) == HostU32(e[1]) \o HostU32(e[2]) \o HostU32(e[3])
Encode(kind, v) ==
    CASE kind = "u8" -> <<v>>
      [] kind = "net32" -> NetU32(v)
      [] kind = "host32" -> HostU32(v)
      [] kind = "str" -> HostU16(Len(v)) \o v
      [] kind = "table" -> NetU32(Len(v)) \o FlattenSeq([i \in DOMAIN v |-> EncodeEntry(v[i])])

Size(kind, v) ==
    CASE kind = "u8" -> 1
      [] kind \in {"net32", "host32"} -> 4
      [] kind = "str" -> 2 + Len(v)
      [] kind = "table" -> 4 + 12 * Len(v)

\* The n bytes of b from position p; what lies beyond the packet is taken for zero.
Bytes(b, p, n) == [i \in 1 .. n |-> IF p + i - 1 \in DOMAIN b THEN b[p + i - 1] ELSE 0]

\* The value read at p, and the position behind it.
DecodeEntry(b, p) ==
    <<ReadU32(Bytes(b, p, 4)), ReadU32(Bytes(b, p + 4, 4)), ReadU32(Bytes(b, p + 8, 4))>>
Decode(kind, b, p) ==
    CASE kind = "u8" -> [value |-> Bytes(b, p, 1)[1], next |-> p + 1]
      [] kind = "net32" -> [value |-> ReadNtohU32(Bytes(b, p, 4)), next |-> p + 4]
      [] kind = "host32" -> [value |-> ReadU32(Bytes(b, p, 4)), next |-> p + 4]
      [] kind = "str" ->
           LET n == ReadU16(Bytes(b, p, 2))
           IN  [value |-> Bytes(b, p + 2, n), next |-> p + 2 + n]
      [] kind = "table" ->
           LET n == ReadNtohU32(Bytes(b, p, 4))
           IN  [value |-> [i \in 1 .. n |-> DecodeEntry(b, p + 4 + 12 * (i - 1))],
                next |-> p + 4 + 12 * n]

-----------------------------------------------------------------------------
(* Payloads: what GetSerializedSize adds up, Serialize writes, Deserialize *)
(* reads.                                                                  *)

Payload(size, write, read) == [size |-> size, write |-> write, read |-> read]
Strings(n) == LET f == [i \in 1 .. n |-> "str"] IN Payload(f, f, f)
AddressAndText == LET f == <<"net32", "str">> IN Payload(f, f, f)

ChordPingReq == Strings(1)
ChordPingRsp == Strings(1)
FindSucReq == Strings(2)      \* NodeId, HNodeId
FindSucRsp == Strings(3)      \* NodeId, SNodeId, PNodeId
GetPredSucReq == Strings(1)
GetPredSucRsp == Strings(1)
Ringstate == Strings(1)
NotifySuc == Strings(1)
NotifyPred == Strings(1)
JoinReq == Strings(1)
JoinRsp == Strings(2)         \* SNodeId, PNodeId

SearchPingReq == Strings(1)
SearchPingRsp == Strings(1)

LSPingReq == AddressAndText
LSPingRsp == AddressAndText
NdReq == Strings(1)

\* sourceAddress, destinationAddress, nodeId, ndMessage; nothing ever writes nodeId,
\* so its value is arbitrary.  The faulty variant reads the destination in the other
\* order of bytes.
NdRspSwapped == Payload(<<"net32", "host32", "host32", "str">>,
                        <<"net32", "host32", "host32", "str">>,
                        <<"net32", "net32", "host32", "str">>)
NdRsp == Payload(<<"net32", "host32", "host32", "str">>,
                 <<"net32", "host32", "host32", "str">>,
                 <<"net32", "host32", "host32", "str">>)

\* ntable, sourceAddress; the time stamps of the entries are not sent.  The faulty
\* variants forget the address in the size, and do not read it.
LspShort == Payload(<<"table">>, <<"table", "host32">>, <<"table", "host32">>)
LspUnread == Payload(<<"table", "host32">>, <<"table", "host32">>, <<"table">>)
Lsp == Payload(<<"table", "host32">>, <<"table", "host32">>, <<"table", "host32">>)

\* By MessageType; DHASH_LOOK, the tenth of GUChordMessage, has no payload and is not sent.
ChordPayload == <<ChordPingReq, ChordPingRsp, FindSucReq, FindSucRsp, GetPredSucReq,
                  GetPredSucRsp, Ringstate, NotifySuc, NotifyPred, Strings(0), JoinReq, JoinRsp>>
SearchPayload == <<SearchPingReq, SearchPingRsp>>
LSPayload == <<LSPingReq, LSPingRsp, NdReq, NdRsp, Lsp>>

PayloadOf(class, type) ==
    CASE class = "CHORD" -> ChordPayload[type]
      [] class = "SEARCH" -> SearchPayload[type]
      [] class = "LS" -> LSPayload[type]

\* MessageType and transaction id; in an LSMessage MessageType, sequence number, TTL
\* and originator.
HeaderOf(class) ==
    IF class = "LS" THEN <<"u8", "net32", "u8", "net32">> ELSE <<"u8", "net32">>

\* GUChordMessage::Deserialize adds the size of PING_REQ, PING_RSP and JOIN_RSP only:
\* what it returns is short of the other payloads, which stay in the packet.
Counted(class, type) == class # "CHORD" \/ type \in {1, 2, 12}

-----------------------------------------------------------------------------
(* Whole messages: [class, fields], the header's fields before the payload's. *)

TypeOf(m) == m.fields[1]
Kinds(m) == HeaderOf(m.class) \o PayloadOf(m.class, TypeOf(m)).write

\* The sizes of the fields of these kinds, added up.
SizeOf(kinds, fields) ==
    LET sum[i \in 0 .. Len(kinds)] ==
            IF i = 0 THEN 0 ELSE sum[i-1] + Size(kinds[i], fields[i])
    IN  sum[Len(kinds)]

GetSerializedSize(m) ==
    SizeOf(HeaderOf(m.class) \o PayloadOf(m.class, TypeOf(m)).size, m.fields)

Serialize(m) == FlattenSeq([i \in DOMAIN Kinds(m) |-> Encode(Kinds(m)[i], m.fields[i])])

\* The fields of these kinds read one after the other, and the position behind the last.
ReadFields(kinds, b) ==
    LET read[i \in 0 .. Len(kinds)] ==
            IF i = 0 THEN [fields |-> <<>>, next |-> 1]
            ELSE LET d == Decode(kinds[i], b, read[i-1].next)
                 IN  [fields |-> Append(read[i-1].fields, d.value), next |-> d.next]
    IN  read[Len(kinds)]

\* The type, which is the first byte, tells which payload follows the header.  Besides
\* what has been read there is the size that Deserialize returns: what GetSerializedSize
\* says of the header and, if it is counted, of the payload just read.
Deserialize(class, b) ==
    LET type == Bytes(b, 1, 1)[1]
        payload == PayloadOf(class, type)
        all == ReadFields(HeaderOf(class) \o payload.read, b)
        counted == HeaderOf(class) \o (IF Counted(class, type) THEN payload.size ELSE <<>>)
    IN  [fields |-> all.fields, next |-> all.next, returned |-> SizeOf(counted, all.fields)]

\* The program sends messages of the types it has, with a value in every field.
ASSUME MessageAssumption ==
    \A m \in Message :
        /\ \/ m.class = "CHORD" /\ TypeOf(m) \in 1 .. 12 \ {10}
           \/ m.class = "SEARCH" /\ TypeOf(m) \in 1 .. 2
           \/ m.class = "LS" /\ TypeOf(m) \in 1 .. 5
        /\ m.fields = [i \in DOMAIN Kinds(m) |-> m.fields[i]]
        /\ \A i \in DOMAIN Kinds(m) : m.fields[i] \in Values(Kinds(m)[i])

Nothing == [fields |-> <<>>, next |-> 1, returned |-> 0]

CodecInit ==
    /\ stage = "idle"
    /\ message = Nothing
    /\ room = 0
    /\ packet = <<>>
    /\ received = Nothing

\* Packet::AddHeader.
AddHeader(m) ==
    /\ stage = "idle"
    /\ stage' = "packed"
    /\ message' = m
    /\ room' = GetSerializedSize(m)
    /\ packet' = Serialize(m)
    /\ UNCHANGED received

\* Socket::SendTo; the callers do not look at what it returns.  The faulty variant has no limit.
SendToUnlimited ==
    /\ stage = "packed"
    /\ stage' = "sent"
    /\ UNCHANGED <<message, room, packet, received>>

SendTo ==
    /\ stage = "packed"
    /\ stage' = IF Len(packet) <= MaxPayload THEN "sent" ELSE "refused"
    /\ UNCHANGED <<message, room, packet, received>>

\* Packet::RemoveHeader at the receiver.
RemoveHeader ==
    /\ stage = "sent"
    /\ stage' = "received"
    /\ received' = Deserialize(message.class, packet)
    /\ UNCHANGED <<message, room, packet>>

CodecNext ==
    \/ \E m \in Message : AddHeader(m)
    \/ SendTo
    \/ RemoveHeader

CodecSpec == CodecInit /\ [][CodecNext]_codecVars

-----------------------------------------------------------------------------
(* Properties.                                                             *)

\* The room that GetSerializedSize makes is what Serialize fills, so that it neither
\* writes beyond it nor leaves bytes unwritten.
SizesAgree == stage # "idle" => room = Len(packet)

\* A message is received with the fields it was sent with, or not at all: a text whose
\* length does not fit into its two bytes makes the datagram too long to be sent.
ArrivesAsSent == stage = "received" => received.fields = message.fields

\* Deserialize reads all that is there and nothing beyond, and does not return more
\* than there is to remove from the packet.
ReadsWhatIsThere ==
    stage = "received" => received.next = Len(packet) + 1 /\ received.returned <= Len(packet)

=============================================================================
