------------------------------- MODULE CpuFlow -------------------------------
(***************************************************************************)
(* What the CPU reference makes of one segment of one flow:                *)
(* process_packet of src/packet/cpu.rs.  A flow that is not in the map has *)
(* state CLOSED; last is Option<LastResponse>.                             *)
(***************************************************************************)
EXTENDS TcpSegments

NoLast == [none |-> TRUE]

\* The flow is not in the map.
Removed == [state |-> "CLOSED", recv_next |-> 0, send_next |-> 0,
            send_unacked |-> 0, last |-> NoLast]

CpuResult(flow, reply) == [flow |-> flow, reply |-> reply]

NewFlow(p) == [state |-> "SYN_RECEIVED", recv_next |-> Add(p.seq, 1),
               send_next |-> Add(Isn, 1), send_unacked |-> Isn, last |-> NoLast]

\* room: the map holds fewer than flow_capacity flows.  A handshake starts
\* again when the SYN has another sequence number.
CpuSyn(flow, p, room) ==
    IF flow.state = "CLOSED" /\ ~room
    THEN CpuResult(flow, NoReply)
    ELSE LET f == IF \/ flow.state = "CLOSED"
                     \/ flow.state = "SYN_RECEIVED" /\ flow.recv_next # Add(p.seq, 1)
                  THEN NewFlow(p) ELSE flow
         IN  CpuResult(f, IF f.state = "SYN_RECEIVED"
                          THEN SynAck(Sub(f.send_next, 1), f.recv_next)
                          ELSE Ack(f.send_next, f.recv_next))

\* Mutant: any acknowledgement of the SYN completes the handshake.
CpuHandshakeAcked(flow, p) == "ACK" \in p.flags /\ p.ack = flow.send_next

CpuHandshakeDone(flow, p) ==
    "ACK" \in p.flags /\ p.ack = flow.send_next /\ p.seq = flow.recv_next

\* The peer has acknowledged all that was sent.
CpuAcked(flow, p) ==
    IF "ACK" \in p.flags /\ p.ack = flow.send_next /\ p.ack # flow.send_unacked
    THEN [flow EXCEPT !.send_unacked = p.ack] ELSE flow

\* The next request of the stream.
CpuRequest(flow, p) ==
    LET fin_advance == IF "FIN" \in p.flags THEN 1 ELSE 0
        next_ack == Add(Add(p.seq, p.len), fin_advance)
        answered == [flow EXCEPT
            !.recv_next = next_ack,
            !.send_next = Add(@, ResponseLength[p.request]),
            !.last = [none |-> FALSE, client_seq |-> p.seq, client_len |-> p.len,
                      response_seq |-> flow.send_next, response_ack |-> next_ack,
                      response_id |-> p.request]]
    IN  CpuResult(IF "FIN" \in p.flags THEN Removed ELSE answered,
                  Response(p.request, flow.send_next, next_ack))

\* From the sequence check on.
CpuData(flow, p) ==
    LET again == /\ ~flow.last.none
                 /\ p.seq = flow.last.client_seq
                 /\ p.len = flow.last.client_len
    IN  CASE p.seq # flow.recv_next /\ again ->
                CpuResult(flow, Response(flow.last.response_id, flow.last.response_seq,
                                         flow.last.response_ack))
          [] p.seq # flow.recv_next /\ ~again ->
                CpuResult(flow, Ack(flow.send_next, flow.recv_next))
          [] p.seq = flow.recv_next /\ p.len = 0 /\ "FIN" \notin p.flags ->
                CpuResult(flow, NoReply)
          [] p.seq = flow.recv_next /\ p.len = 0 /\ "FIN" \in p.flags ->
                CpuResult(Removed, Ack(flow.send_next, Add(p.seq, 1)))
          [] p.seq = flow.recv_next /\ p.len # 0 -> CpuRequest(flow, p)

CpuStep(flow, p, room) ==
    CASE "RST" \in p.flags -> CpuResult(Removed, NoReply)
      [] "RST" \notin p.flags /\ "SYN" \in p.flags /\ "ACK" \notin p.flags ->
            CpuSyn(flow, p, room)
      [] "RST" \notin p.flags /\ ("SYN" \notin p.flags \/ "ACK" \in p.flags) ->
            CASE flow.state = "CLOSED" -> CpuResult(flow, NoReply)
              [] flow.state = "ESTABLISHED" -> CpuData(CpuAcked(flow, p), p)
              [] flow.state = "SYN_RECEIVED" ->
                    IF CpuHandshakeDone(flow, p)
                    THEN LET f == [flow EXCEPT !.state = "ESTABLISHED",
                                               !.send_unacked = p.ack]
                         IN  CpuData(CpuAcked(f, p), p)
                    ELSE CpuResult(flow, NoReply)
=============================================================================
