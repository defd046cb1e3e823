----------------------------- MODULE MCPacketWire -----------------------------
(***************************************************************************)
(* Five kinds of traffic for PacketWire:                                   *)
(*   flows    batches of up to three packets of three flows that collide   *)
(*            in the set of the scheduler;                                 *)
(*   shapes   packets with every combination of a few IP and TCP headers,  *)
(*            lengths and ports;                                           *)
(*   pairs    a few of these after one another, all of one flow;           *)
(*   lines    requests whose first line is put together of a few words,    *)
(*            spaces and line ends in every order;                         *)
(*   replies  requests for each response, with numbers that make the sum   *)
(*            of the reply fall on either side of a carry, in a wave with  *)
(*            another packet or after it.                                  *)
(***************************************************************************)
EXTENDS PacketWire, TLC

MCPort == 8080

\* Responses of even and odd length, with sums that carry.
MCResponses == <<<<255, 255, 255, 254, 7>>, <<1>>, <<128, 0, 255, 255>>, <<250, 251, 252>>,
                 <<0, 0, 255, 255, 255, 255, 255, 255>>>>

Client(port) == [src |-> <<2637, 65535>>, dst |-> <<2637, 1>>, sport |-> port, dport |-> MCPort]

Segment(port, ack, flags, payload) ==
    [key |-> Client(port), seq |-> <<1, 65000>>, ack |-> ack, flags |-> flags, payload |-> payload]

Plain(port) == BuildIpv4TcpPacket(Segment(port, <<0, 0>>, 16, <<>>))
Request(line) == BuildIpv4TcpPacket(Segment(1, <<0, 7>>, 24, line))

Flows == {SubSeq(three, 1, n) : three \in [1 .. 3 -> {Plain(1), Plain(3), Plain(7)}], n \in 1 .. 3}

\* A packet of the given header bytes, cut short or with bytes of its own.
Shape(ihl, protocol, fragment, total, offset, port, len) ==
    LET base == [Request(<<71, 32, 47, 112, 32, 86, 13, 10, 71, 32, 13, 10>>) EXCEPT
                    ![1] = ihl, ![3] = 0, ![4] = total, ![7] = fragment, ![10] = protocol,
                    ![23] = port \div 256, ![24] = port % 256, ![33] = offset]
        \* with options, which look like ports, TCP starts a word later
        shifted == SubSeq(base, 1, 20) \o <<0, 1, 0, 80>> \o SubSeq(base, 21, Len(base))
    IN SubSeq(IF ihl = 70 THEN shifted ELSE base, 1, len)

Shapes == {Shape(ihl, protocol, fragment, total, offset, port, len) :
             ihl \in {69, 70, 68, 101}, protocol \in {6, 17}, fragment \in {0, 64, 32, 128},
             total \in {39, 40, 44, 48, 52}, offset \in {80, 96, 64, 240},
             port \in {MCPort, 80}, len \in {23, 24, 40, 48, 52}}

FewShapes == {Shape(ihl, 6, 64, total, 80, MCPort, len) :
                ihl \in {69, 70}, total \in {40, 48, 53}, len \in {27, 49, 52}}

Words == {<<71>>, <<32>>, <<63>>, <<13>>, <<47, 112>>, <<47, 104>>}
Starts == UNION {[1 .. n -> Words] : n \in 0 .. 4}
Ends == {<<>>, <<32, 86, 13, 10>>, <<32, 87, 10>>, <<13, 10, 32, 13, 10>>}
Lines == {FlattenSeq(start) \o end : start \in Starts, end \in Ends} \ {<<>>}

\* A request of each class, and what it is answered with.
Classes == <<<<71, 32, 47, 112, 32, 86, 13, 10>>, <<71, 32, 47, 104, 63, 32, 87, 13, 10>>, <<71>>,
             <<71, 32, 47, 32, 86, 13, 10>>, <<80, 32, 47, 112, 32, 86, 13, 10>>>>

\* What the low half of the acknowledged number must be for the sum of the
\* reply to end in 65535.
Carry(class) ==
    U16(BuildIpv4TcpPacket([key |-> [src |-> Client(1).dst, dst |-> Client(1).src,
                                     sport |-> MCPort, dport |-> 1],
                            seq |-> <<65535, 0>>, ack |-> <<1, 65000>>, flags |-> 24,
                            payload |-> MCResponses[class]]), 36)

Replies == {BuildIpv4TcpPacket(Segment(1, <<65535, (Carry(class) + near) % 65536>>, 24, Classes[class])) :
              class \in 1 .. 5, near \in -3 .. 3}

ShapeBatches == {<<p>> : p \in Shapes}
PairBatches == {<<p, q>> : p \in FewShapes, q \in FewShapes}
LineBatches == {<<Request(line)>> : line \in Lines}
ReplyBatches == {<<Plain(port), p>> : port \in {1, 3}, p \in Replies}

MCTraffic == [flows |-> Flows, shapes |-> ShapeBatches, pairs |-> PairBatches,
              lines |-> LineBatches, replies |-> ReplyBatches]

MCKeys == {Client(1), Client(3), Client(7), [Client(1) EXCEPT !.dport = 80]}
MCHash == [key \in MCKeys |-> key.sport]
MCGarbage == <<222, 173, 190, 239>>
=============================================================================
