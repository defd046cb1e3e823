--------------------------------- MODULE Wire ---------------------------------
(***************************************************************************)
(* IPv4 and TCP packets as bytes, on the CPU side (src/packet/wire.rs and  *)
(* classify_http_request of src/packet/mod.rs): parsing, the key the       *)
(* scheduler reads, building, and the validation of checksums.             *)
(*                                                                         *)
(* A packet is a sequence of bytes; offsets count from 0 as in the code.   *)
(* A 32-bit number is the pair of its halves.  The words of the request    *)
(* line are stand-ins of one or two bytes.                                 *)
(***************************************************************************)
EXTENDS Checksum, FiniteSets, SequencesExt

CONSTANTS
    NoFlow,      \* None
    Responses    \* PACKET_RESPONSES, which ids index from 0

\* There are five responses, of which validate_config sees to it that each fits
\* a packet of MAX_RAW_PACKET_BYTES, and None is not a flow key.
ASSUME WireAssumption ==
    /\ Responses \in Seq(Seq(0 .. 255)) /\ Len(Responses) = 5
    /\ \A i \in DOMAIN Responses : 40 + Len(Responses[i]) <= 1536
    /\ NoFlow \notin [src : Nat \X Nat, dst : Nat \X Nat, sport : Nat, dport : Nat]

LF == 10
CR == 13
SP == 32
Question == 63
Get == <<71>>
Versions == {<<86>>, <<87>>}
PlaintextPath == <<47, 112>>
HealthPath == <<47, 104>>

PLAINTEXT == 0
HEALTH == 1
BAD_REQUEST == 2
NOT_FOUND == 3
METHOD_NOT_ALLOWED == 4
NoResponse == 5   \* any id that is not in the table: no payload

Byte(packet, offset) == packet[offset + 1]
U16(packet, offset) == (packet[offset + 1] * 256) + packet[offset + 2]
U32(packet, offset) == <<U16(packet, offset), U16(packet, offset + 2)>>

IsTcp4(packet) == Byte(packet, 0) \div 16 = 4 /\ Byte(packet, 9) = 6
IpHeaderLen(packet) == (Byte(packet, 0) % 16) * 4

FlowKey(packet, tcp) ==
    [src |-> U32(packet, 12), dst |-> U32(packet, 16),
     sport |-> U16(packet, tcp), dport |-> U16(packet, tcp + 2)]

\* Mutant: a header without options is taken for granted.
SchedulingKeyFixed(packet) ==
    IF Len(packet) < 24 \/ ~IsTcp4(packet) THEN NoFlow ELSE FlowKey(packet, 20)

\* scheduling_flow_key: as much of the packet as says whose it is.
SchedulingFlowKey(packet) ==
    IF \/ Len(packet) < 24 \/ ~IsTcp4(packet)
       \/ IpHeaderLen(packet) < 20 \/ IpHeaderLen(packet) + 4 > Len(packet)
    THEN NoFlow ELSE FlowKey(packet, IpHeaderLen(packet))

-----------------------------------------------------------------------------
NoView == [ok |-> FALSE, key |-> NoFlow, seq |-> <<0, 0>>, ack |-> <<0, 0>>, flags |-> 0, payload |-> <<>>]

\* parse_ipv4_tcp
ParseIpv4Tcp(packet) ==
    LET tcp == IpHeaderLen(packet)
        total == U16(packet, 2)
        offset == (Byte(packet, tcp + 12) \div 16) * 4
    IN IF \/ Len(packet) < 40 \/ ~IsTcp4(packet)
          \/ tcp < 20 \/ tcp + 20 > Len(packet)
          \/ U16(packet, 6) % 16384 # 0            \* a fragment
          \/ total < tcp + 20 \/ total > Len(packet)
          \/ offset < 20 \/ tcp + offset > total
       THEN NoView
       ELSE [ok |-> TRUE, key |-> FlowKey(packet, tcp),
             seq |-> U32(packet, tcp + 4), ack |-> U32(packet, tcp + 8),
             flags |-> Byte(packet, tcp + 13),
             payload |-> SubSeq(packet, tcp + offset + 1, total)]

\* classify_http_request: the line split at its spaces.
ClassifyHttpRequest(payload) ==
    LET ends == {i \in 1 .. Len(payload) - 1 : payload[i] = CR /\ payload[i + 1] = LF}
        line == SubSeq(payload, 1, Min(ends) - 1)
        spaces == {i \in DOMAIN line : line[i] = SP}
        first == Min(spaces)
        second == Max(spaces)
        target == SubSeq(line, first + 1, second - 1)
        mark == SelectInSeq(target, LAMBDA b : b = Question)
        path == IF mark = 0 THEN target ELSE SubSeq(target, 1, mark - 1)
    IN IF \/ ends = {} \/ Cardinality(spaces) # 2 \/ target = <<>>
          \/ SubSeq(line, second + 1, Len(line)) \notin Versions
       THEN BAD_REQUEST
       ELSE IF SubSeq(line, 1, first - 1) # Get THEN METHOD_NOT_ALLOWED
       ELSE IF path = PlaintextPath THEN PLAINTEXT
       ELSE IF path = HealthPath THEN HEALTH
       ELSE NOT_FOUND

-----------------------------------------------------------------------------
Put16(value) == <<value \div 256, value % 256>>
Put32(value) == Put16(value[1]) \o Put16(value[2])

IpHeader(len, key, sum) ==
    <<69, 0>> \o Put16(len) \o <<0, 0, 64, 0, 64, 6>> \o Put16(sum) \o Put32(key.src) \o Put32(key.dst)

TcpHeader(spec, sum) ==
    Put16(spec.key.sport) \o Put16(spec.key.dport) \o Put32(spec.seq) \o Put32(spec.ack)
    \o <<80, spec.flags, 255, 255>> \o Put16(sum) \o <<0, 0>>

\* checksum, and tcp_checksum with its pseudo header; clear leaves the
\* checksum field out.
IpChecksum(header) == FoldChecksum(Sum16(header))

TcpChecksum(packet, tcp, clear) ==
    LET segment == SubSeq(packet, tcp + 1, Len(packet))
        counted == IF clear THEN [segment EXCEPT ![17] = 0, ![18] = 0] ELSE segment
    IN FoldChecksum(Sum16(SubSeq(packet, 13, 20)) + 6 + Len(segment) + Sum16(counted))

\* build_ipv4_tcp_packet.  validate_config sees to it that a packet with a
\* response has fewer than MAX_RAW_PACKET_BYTES; a longer one is an error.
BuildIpv4TcpPacket(spec) ==
    LET len == 40 + Len(spec.payload)
        ip == IpHeader(len, spec.key, 0)
        tcp == TcpHeader(spec, 0) \o spec.payload
    IN IpHeader(len, spec.key, IpChecksum(ip))
       \o TcpHeader(spec, TcpChecksum(ip \o tcp, 20, TRUE)) \o spec.payload

\* validate_ipv4_tcp_checksums
ChecksumsValid(packet) ==
    LET tcp == IpHeaderLen(packet)
        total == U16(packet, 2)
    IN /\ Len(packet) >= 40 /\ tcp \in 20 .. Len(packet) /\ total <= Len(packet)
       /\ IpChecksum(SubSeq(packet, 1, tcp)) = 0
       /\ TcpChecksum(SubSeq(packet, 1, total), tcp, FALSE) = 0
=============================================================================
