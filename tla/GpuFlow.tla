------------------------------- MODULE GpuFlow -------------------------------
(***************************************************************************)
(* What the compute shader makes of one segment of one flow: main of       *)
(* src/packet/packet.wgsl from the flags check to its end.  FlowTable      *)
(* models how the slot is found; here it is a record, CLOSED when the flow *)
(* has none.  flow_claim clears a slot before it is published, so a closed *)
(* slot's numbers are 0.                                                   *)
(***************************************************************************)
EXTENDS TcpSegments

Slot == [state : {"CLOSED", "SYN_RECEIVED", "ESTABLISHED"},
         recv_next : SeqNumbers, send_next : SeqNumbers, send_unacked : SeqNumbers,
         last_client_seq : SeqNumbers, last_client_len : SeqNumbers,
         last_response_seq : SeqNumbers, last_response_ack : SeqNumbers,
         last_response_id : Responses \cup {0}, last_response_len : SeqNumbers]

ClosedSlot ==
    [state |-> "CLOSED", recv_next |-> 0, send_next |-> 0, send_unacked |-> 0,
     last_client_seq |-> 0, last_client_len |-> 0, last_response_seq |-> 0,
     last_response_ack |-> 0, last_response_id |-> 0, last_response_len |-> 0]

\* The slot afterwards and the output packet.
GpuResult(slot, reply) == [slot |-> slot, reply |-> reply]

OpenedSlot(p) == [ClosedSlot EXCEPT !.state = "SYN_RECEIVED",
                                    !.recv_next = Add(p.seq, 1),
                                    !.send_next = Add(Isn, 1),
                                    !.send_unacked = Isn]

\* Mutant: a SYN opens the flow anew, whatever its state.
GpuSynReopens(slot, p, room) ==
    IF room THEN GpuResult(OpenedSlot(p), SynAck(Isn, Add(p.seq, 1)))
    ELSE GpuResult(slot, NoReply)

\* A SYN without ACK.  room: flow_claim finds a slot for a new flow.
GpuSyn(slot, p, room) ==
    LET opened == IF slot.state = "CLOSED" /\ room THEN OpenedSlot(p) ELSE slot
    IN  CASE opened.state = "CLOSED" -> GpuResult(slot, NoReply)
          [] opened.state = "SYN_RECEIVED" ->
                GpuResult(opened, SynAck(Sub(opened.send_next, 1), opened.recv_next))
          [] opened.state = "ESTABLISHED" ->
                GpuResult(opened, Ack(opened.send_next, opened.recv_next))

\* Mutant: a segment out of order moves the window.
GpuOutOfOrderAccepted(slot, p) ==
    LET moved == [slot EXCEPT !.recv_next = Add(p.seq, p.len)]
    IN  GpuResult(moved, Ack(slot.send_next, moved.recv_next))

\* Mutant: a segment behind the stream is only acknowledged.
GpuOutOfOrderAcked(slot, p) == GpuResult(slot, Ack(slot.send_next, slot.recv_next))

\* A segment ahead of or behind the stream: the last request again gets the
\* last response again, anything else an acknowledgement.
GpuOutOfOrder(slot, p) ==
    IF /\ p.seq = slot.last_client_seq
       /\ p.len = slot.last_client_len
       /\ slot.last_response_len > 0
    THEN GpuResult(slot, Response(slot.last_response_id, slot.last_response_seq,
                                  slot.last_response_ack))
    ELSE GpuResult(slot, Ack(slot.send_next, slot.recv_next))

\* Mutant: the response is kept with the sequence number that follows it.
GpuRequestKeptLate(slot, p) ==
    LET next_ack == Add(p.seq, p.len)
        sent == Add(slot.send_next, ResponseLength[p.request])
    IN  GpuResult([slot EXCEPT !.recv_next = next_ack, !.send_next = sent,
                               !.last_client_seq = p.seq, !.last_client_len = p.len,
                               !.last_response_seq = sent, !.last_response_ack = next_ack,
                               !.last_response_id = p.request,
                               !.last_response_len = ResponseLength[p.request]],
                  Response(p.request, slot.send_next, next_ack))

\* The next request of the stream.
GpuRequest(slot, p) ==
    LET fin == "FIN" \in p.flags
        next_ack == Add(Add(p.seq, p.len), IF fin THEN 1 ELSE 0)
        answered == [slot EXCEPT
            !.recv_next = next_ack,
            !.send_next = Add(@, ResponseLength[p.request]),
            !.last_client_seq = p.seq,
            !.last_client_len = p.len,
            !.last_response_seq = slot.send_next,
            !.last_response_ack = next_ack,
            !.last_response_id = p.request,
            !.last_response_len = ResponseLength[p.request]]
    IN  GpuResult(IF fin THEN ClosedSlot ELSE answered,
                  Response(p.request, slot.send_next, next_ack))

\* The peer has acknowledged all that was sent.
GpuAcked(slot, p) == IF "ACK" \in p.flags /\ p.ack = slot.send_next
                     THEN [slot EXCEPT !.send_unacked = p.ack] ELSE slot

\* Mutant: a FIN is acknowledged and the flow kept.
GpuDataKept(slot, p) ==
    CASE p.seq # slot.recv_next -> GpuOutOfOrder(slot, p)
      [] p.seq = slot.recv_next /\ p.len > 0 -> GpuRequest(slot, p)
      [] OTHER -> GpuResult(slot, IF "FIN" \in p.flags THEN Ack(slot.send_next, Add(p.seq, 1))
                                  ELSE NoReply)

\* A segment of an established flow, from the sequence check on.
GpuData(slot, p) ==
    CASE p.seq # slot.recv_next -> GpuOutOfOrder(slot, p)
      [] p.seq = slot.recv_next /\ p.len > 0 -> GpuRequest(slot, p)
      [] p.seq = slot.recv_next /\ p.len = 0 ->
            IF "FIN" \in p.flags
            THEN GpuResult(ClosedSlot, Ack(slot.send_next, Add(p.seq, 1)))
            ELSE GpuResult(slot, NoReply)

GpuStep(slot, p, room) ==
    CASE "SYN" \in p.flags /\ "ACK" \notin p.flags -> GpuSyn(slot, p, room)
      [] OTHER ->
          CASE slot.state = "CLOSED" -> GpuResult(slot, NoReply)
            [] slot.state # "CLOSED" /\ "RST" \in p.flags -> GpuResult(ClosedSlot, NoReply)
            [] slot.state = "ESTABLISHED" /\ "RST" \notin p.flags -> GpuData(GpuAcked(slot, p), p)
            [] slot.state = "SYN_RECEIVED" /\ "RST" \notin p.flags ->
                  IF /\ "ACK" \in p.flags
                     /\ p.ack = slot.send_next
                     /\ p.seq = slot.recv_next
                  THEN LET s == [slot EXCEPT !.state = "ESTABLISHED",
                                             !.send_unacked = p.ack]
                       IN  GpuData(GpuAcked(s, p), p)
                  ELSE GpuResult(slot, NoReply)
=============================================================================
