---------------------------- MODULE PacketEngines ----------------------------
(***************************************************************************)
(* The two packet engines side by side: the compute shader and the CPU     *)
(* reference receive the same segments of one flow.  They "implement the   *)
(* same deliberately narrow TCP/HTTP semantics" (docs/PROOF.md): same      *)
(* replies, same connections, for every sequence of segments.  The names   *)
(* are kept apart from those of FlowSession: TcpProofs extends both.       *)
(***************************************************************************)
EXTENDS GpuFlow, CpuFlow

CONSTANTS
    Segments,     \* the segments the peer may send
    SynRst,       \* TRUE: a segment may carry SYN and RST together
    NewIsn        \* TRUE: a peer may restart a handshake with another number

ASSUME EngineAssumption ==
    /\ Segments \subseteq Segment
    /\ SynRst \in BOOLEAN /\ NewIsn \in BOOLEAN

VARIABLES gpu_slot,   \* the shader's flow slot
          flow,       \* the CPU engine's flow
          gpu_reply,  \* the packets they answered the last segment with
          cpu_reply

engineVars == <<gpu_slot, flow, gpu_reply, cpu_reply>>

EnginesInit ==
    /\ gpu_slot = ClosedSlot /\ flow = Removed
    /\ gpu_reply = NoReply /\ cpu_reply = NoReply

IsSyn(p) == "SYN" \in p.flags /\ "ACK" \notin p.flags

\* What the two engines are not expected to agree on (SynRst, NewIsn).
Conforming(p) ==
    /\ SynRst \/ ~({"SYN", "RST"} \subseteq p.flags)
    /\ NewIsn \/ ~(/\ IsSyn(p)
                   /\ flow.state = "SYN_RECEIVED"
                   /\ flow.recv_next # Add(p.seq, 1))

\* Both engines process segment p; a new flow finds room in both or in none.
BothReceive(p, room) ==
    /\ Conforming(p)
    /\ LET gpu == GpuStep(gpu_slot, p, room)
           cpu == CpuStep(flow, p, room)
       IN  /\ gpu_slot' = gpu.slot /\ gpu_reply' = gpu.reply
           /\ flow' = cpu.flow /\ cpu_reply' = cpu.reply

EnginesNext == \E p \in Segments, room \in BOOLEAN : BothReceive(p, room)

EnginesSpec == EnginesInit /\ [][EnginesNext]_engineVars

-----------------------------------------------------------------------------
Lasts == {NoLast} \cup
        [none : {FALSE}, client_seq : SeqNumbers, client_len : SeqNumbers,
         response_seq : SeqNumbers, response_ack : SeqNumbers, response_id : Responses]

Flow == [state : {"CLOSED", "SYN_RECEIVED", "ESTABLISHED"},
         recv_next : SeqNumbers, send_next : SeqNumbers, send_unacked : SeqNumbers,
         last : Lasts]

EnginesTypeOK ==
    /\ gpu_slot \in Slot /\ flow \in Flow
    /\ gpu_reply \in Reply /\ cpu_reply \in Reply

\* The CPU flow that a slot stands for.
FlowOf(s) ==
    [state |-> s.state, recv_next |-> s.recv_next, send_next |-> s.send_next,
     send_unacked |-> s.send_unacked,
     last |-> IF s.last_response_len = 0 THEN NoLast
              ELSE [none |-> FALSE, client_seq |-> s.last_client_seq,
                    client_len |-> s.last_client_len,
                    response_seq |-> s.last_response_seq,
                    response_ack |-> s.last_response_ack,
                    response_id |-> s.last_response_id]]

\* "Both backends receive the same generated raw packets and implement the
\* same deliberately narrow TCP/HTTP semantics": the two engines answer every
\* segment with the same packet.
SameReplies == gpu_reply = cpu_reply

\* ... because their connections agree after any history, although one keeps
\* zeroed fields and lengths and the other an Option.
SameFlow == flow = FlowOf(gpu_slot)

\* What a retransmitted request is answered with, the response kept in the
\* slot, ends the stream the peer has been sent and acknowledges all of the
\* stream received: replaying it never moves the connection.
LastResponseEndsStream ==
    gpu_slot.last_response_len # 0 =>
        /\ Add(gpu_slot.last_response_seq, gpu_slot.last_response_len) = gpu_slot.send_next
        /\ gpu_slot.last_response_ack = gpu_slot.recv_next
        /\ Add(gpu_slot.last_client_seq, gpu_slot.last_client_len) = gpu_slot.recv_next
        /\ gpu_slot.last_client_seq # gpu_slot.recv_next

\* A connection's streams only move when its next request is answered: then
\* the response starts exactly where the stream sent so far ended, and the
\* stream received has grown by the request.  Nothing else, no duplicate, no
\* segment out of order, no bare ACK, moves either.
StreamsMoveTogether ==
    [][ gpu_slot.state # "CLOSED" /\ gpu_slot'.state # "CLOSED" =>
          \/ gpu_slot'.send_next = gpu_slot.send_next /\ gpu_slot'.recv_next = gpu_slot.recv_next
          \/ /\ gpu_reply'.kind = "DATA"
             /\ gpu_reply'.seq = gpu_slot.send_next
             /\ gpu_slot'.send_next = Add(gpu_slot.send_next, ResponseLength[gpu_reply'.id])
             /\ gpu_reply'.ack = gpu_slot'.recv_next
             /\ gpu_slot'.last_client_seq = gpu_slot.recv_next ]_engineVars
=============================================================================
