------------------------------- MODULE TcpProofs -------------------------------
(***************************************************************************)
(* The connection of the packet engines.                                   *)
(*                                                                         *)
(* FlowSession: for every client, response table and order of losses,      *)
(* repetitions and overtakings, no answer is taken for another request's,  *)
(* and while the client is open it and the engine agree how far the        *)
(* connection is.                                                          *)
(*                                                                         *)
(* PacketEngines: for every sequence space, response table and set of      *)
(* segments, on segments both engines define alike, the compute shader and *)
(* the CPU reference keep the same connection and send the same packets.   *)
(***************************************************************************)
EXTENDS FlowSession, PacketEngines, Inductions

(***************************************************************************)
(* The session: the invariant.                                             *)
(***************************************************************************)

\* The engine has served n requests; the response kept is the n-th.
At(s, n) ==
    /\ s.recv_next = RequestEnd[n]
    /\ s.send_next = ResponseEnd[n]
    /\ s.state = "SYN_RECEIVED" => n = 0
    /\ s.last_response_len > 0 =>
            /\ n > 0
            /\ s.last_response_id = Requests[n].request
            /\ s.last_response_seq = ResponseEnd[n - 1]
            /\ s.last_response_ack = RequestEnd[n]

\* What a client that has sent top requests may have put into the network: no
\* other request, and nothing that ends the stream before it closes.
SegmentSound(p, top, closing) ==
    /\ \/ p.flags = {"SYN"} /\ p.seq = ClientIsn
       \/ p.flags \in {{"ACK"}, {"ACK", "FIN"}} /\ p.len = 0
       \/ /\ p.flags \in {{"ACK"}, {"ACK", "FIN"}}
          /\ \E k \in 1 .. top : /\ p.seq = RequestEnd[k - 1]
                                  /\ p.len = Requests[k].len
                                  /\ p.request = Requests[k].request
    /\ "FIN" \in p.flags => closing

\* A response is that of a request sent, at its place in the stream.
ReplySound(r, top) ==
    /\ r.kind = "SYN_ACK" => r.seq = Isn
    /\ r.kind = "DATA" => \E k \in 1 .. top : /\ r.id = Requests[k].request
                                               /\ r.seq = ResponseEnd[k - 1]

\* A reply of an engine that has served n requests, none of them the last.
ReplyUpTo(r, n) ==
    /\ \E k \in 0 .. n : r.ack = RequestEnd[k]
    /\ r.kind = "DATA" => \E k \in 1 .. n : r.seq = ResponseEnd[k - 1]

Carried(channel) == {channel[i] : i \in DOMAIN channel}
Closing == peer \in {"fin_sent", "closed"}

EngineSound == slot.state # "CLOSED" => \E n \in 0 .. sent : At(slot, n)
NetworkSound == /\ \A p \in Carried(segments) : SegmentSound(p, sent, Closing)
                /\ \A r \in Carried(replies) : ReplySound(r, sent)
ClientSound ==
    /\ FinOnLast /\ sent = Total => Closing
    /\ IF peer = "syn_sent" THEN sent = 0 /\ acked = 0 /\ log = <<>>
       ELSE expected = ResponseEnd[Len(log)]

\* Until the handshake there is nothing but it, ...
HandshakeSound ==
    peer = "syn_sent" =>
        /\ slot.state # "ESTABLISHED"
        /\ \A p \in Carried(segments) : p.flags = {"SYN"}
        /\ \A r \in Carried(replies) : slot.state # "CLOSED" /\ ReplyUpTo(r, 0)

\* ... and until the client closes, the engine's flow is not released.
OpenSound ==
    peer = "open" =>
        /\ slot.state # "CLOSED"
        /\ \E n \in Len(log) .. sent :
              /\ acked <= n /\ At(slot, n)
              /\ \A r \in Carried(replies) : ReplyUpTo(r, n)

IInv == /\ TypeOK /\ AnswersMatch
        /\ EngineSound /\ NetworkSound /\ ClientSound /\ HandshakeSound /\ OpenSound

-----------------------------------------------------------------------------
(***************************************************************************)
(* Sequence numbers.                                                       *)
(***************************************************************************)

LEMMA ConstantTypes ==
    /\ SeqNumbers \subseteq Nat /\ 0 \in SeqNumbers /\ Isn \in SeqNumbers
    /\ ClientIsn \in SeqNumbers /\ Lens \subseteq SeqNumbers /\ 0 \in Lens
    /\ \A id \in Responses : ResponseLength[id] \in SeqNumbers /\ ResponseLength[id] > 0
  BY SegmentAssumption, SessionAssumption DEF SeqNumbers

LEMMA AddType ==
    ASSUME NEW a \in Nat, NEW b \in Nat PROVE Add(a, b) \in SeqNumbers
<1>1. a + b \in Nat /\ SeqSpace \in Nat /\ SeqSpace > 0
  BY SegmentAssumption
<1> QED BY <1>1 DEF Add, SeqNumbers

\* The two cases of a sum.
LEMMA AddCases ==
    ASSUME NEW a \in SeqNumbers, NEW b \in SeqNumbers
    PROVE  Add(a, b) = IF a + b < SeqSpace THEN a + b ELSE a + b - SeqSpace
<1>1. SeqSpace \in Nat /\ SeqSpace > 0
  BY SegmentAssumption
<1>2. a \in Nat /\ b \in Nat /\ a < SeqSpace /\ b < SeqSpace
  BY <1>1 DEF SeqNumbers
<1> QED BY <1>1, <1>2 DEF Add

LEMMA AddZero == ASSUME NEW a \in SeqNumbers PROVE Add(a, 0) = a
<1>1. SeqSpace \in Nat /\ a \in Nat /\ a < SeqSpace
  BY SegmentAssumption DEF SeqNumbers
<1> QED BY <1>1, ConstantTypes, AddCases

\* The SYN-ACK starts the response stream where the client is to expect it.
LEMMA SynAckSeq == Sub(Add(Isn, 1), 1) = Isn /\ Add(Isn, 1) \in SeqNumbers
<1>1. SeqSpace \in Nat /\ SeqSpace > 1 /\ Isn \in Nat /\ Isn < SeqSpace
  BY SegmentAssumption
<1>2. 1 \in SeqNumbers
  BY <1>1 DEF SeqNumbers
<1>3. Add(Isn, 1) = IF Isn + 1 < SeqSpace THEN Isn + 1 ELSE Isn + 1 - SeqSpace
  BY <1>2, ConstantTypes, AddCases
<1>4. Add(Isn, 1) \in SeqNumbers
  BY <1>1, AddType
<1>5. CASE Isn + 1 < SeqSpace
  <2>1. Sub(Add(Isn, 1), 1) = (Isn + SeqSpace) % SeqSpace
    BY <1>1, <1>3, <1>5 DEF Sub
  <2>2. Add(Isn, SeqSpace - 1) = IF Isn + (SeqSpace - 1) < SeqSpace
                               THEN Isn + (SeqSpace - 1) ELSE Isn + (SeqSpace - 1) - SeqSpace
    <3>1. SeqSpace - 1 \in SeqNumbers
      BY <1>1 DEF SeqNumbers
    <3> QED BY <3>1, ConstantTypes, AddCases
  <2> QED BY <1>1, <1>4, <2>1
<1>6. CASE Isn + 1 >= SeqSpace
  <2>1. Isn = SeqSpace - 1 /\ Add(Isn, 1) = 0
    BY <1>1, <1>3, <1>6
  <2>2. Sub(0, 1) = (SeqSpace - 1) % SeqSpace
    BY <1>1 DEF Sub
  <2> QED BY <1>1, <1>4, <2>1, <2>2
<1> QED BY <1>1, <1>5, <1>6

RequestLen == [n \in 1 .. Total |-> Requests[n].len]
ResponseLen == [n \in 1 .. Total |-> ResponseLength[Requests[n].request]]

LEMMA RequestTypes ==
    /\ Total \in Nat
    /\ \A n \in 1 .. Total : /\ Requests[n].len \in Lens /\ Requests[n].len \in SeqNumbers
                             /\ Requests[n].len > 0 /\ Requests[n].request \in Responses
<1>1. Total \in Nat /\ \A n \in 1 .. Total : Requests[n] \in [len : Lens \ {0}, request : Responses]
  <2> DEFINE R == [len : Lens \ {0}, request : Responses]
  <2>1. Requests \in Seq(R)
    BY SessionAssumption
  <2> HIDE DEF R
  <2>2. Len(Requests) \in Nat /\ \A n \in 1 .. Len(Requests) : Requests[n] \in R
    BY <2>1
  <2> QED BY <2>2 DEF Total, R
<1>2. ASSUME NEW n \in 1 .. Total
      PROVE  /\ Requests[n].len \in Lens /\ Requests[n].len \in SeqNumbers
             /\ Requests[n].len > 0 /\ Requests[n].request \in Responses
  <2>1. Requests[n].len \in Lens \ {0} /\ Requests[n].request \in Responses
    BY <1>1
  <2>2. Requests[n].len \in SeqNumbers
    BY <2>1, ConstantTypes
  <2>3. Requests[n].len \in Nat /\ Requests[n].len # 0
    BY <2>1, <2>2, ConstantTypes
  <2> QED BY <2>1, <2>2, <2>3
<1> QED BY <1>1, <1>2

\* Adding lengths up from a first number: there is such a function ...
LEMMA EndsExist ==
    ASSUME NEW N \in Nat, NEW first \in SeqNumbers, NEW len \in [1 .. N -> SeqNumbers]
    PROVE  \E g : g = [n \in 0 .. N |-> IF n = 0 THEN first ELSE Add(g[n - 1], len[n])]
<1> DEFINE steps == [n \in 1 .. N |-> [x \in SeqNumbers |-> Add(x, len[n])]]
<1>1. \A n \in 1 .. N : \A x \in SeqNumbers : Add(x, len[n]) \in SeqNumbers
  BY ConstantTypes, AddType
<1>2. steps \in [1 .. N -> [SeqNumbers -> SeqNumbers]]
  BY <1>1
<1>3. PICK g : Iterates(g, N, SeqNumbers, first, steps)
  <2> HIDE DEF steps
  <2> QED BY <1>2, Iteration
<1> DEFINE h == [n \in 0 .. N |-> IF n = 0 THEN first ELSE Add(g[n - 1], len[n])]
<1>4. g \in [0 .. N -> SeqNumbers] /\ g[0] = first
  BY <1>3 DEF Iterates
<1>5. ASSUME NEW n \in 0 .. N PROVE g[n] = h[n]
  <2>1. CASE n = 0
    BY <1>4, <2>1
  <2>2. CASE n # 0
    <3>1. n - 1 \in 0 .. N - 1 /\ n - 1 \in 0 .. N /\ (n - 1) + 1 = n /\ n \in 1 .. N
      BY <2>2
    <3>2. g[(n - 1) + 1] = steps[(n - 1) + 1][g[n - 1]]
      <4> HIDE DEF steps
      <4> QED BY <1>3, <3>1 DEF Iterates
    <3>3. g[n - 1] \in SeqNumbers
      BY <1>4, <3>1
    <3>4. steps[n][g[n - 1]] = Add(g[n - 1], len[n])
      BY <3>1, <3>3
    <3> HIDE DEF steps
    <3> QED BY <2>2, <3>1, <3>2, <3>4
  <2> QED BY <2>1, <2>2
<1>6. g = h
  <2> HIDE DEF steps
  <2> QED BY <1>4, <1>5
<1> QED BY <1>6

\* ... and all its values are sequence numbers.
LEMMA EndsTypes ==
    ASSUME NEW N \in Nat, NEW first \in SeqNumbers, NEW len \in [1 .. N -> SeqNumbers], NEW f,
           \A n \in 0 .. N : f[n] = IF n = 0 THEN first ELSE Add(f[n - 1], len[n])
    PROVE  \A n \in 0 .. N : f[n] \in SeqNumbers
<1> DEFINE S == {n \in Nat : n <= N => f[n] \in SeqNumbers}
<1>4. 0 \in S
  OBVIOUS
<1>5. ASSUME NEW n \in Nat, n \in S PROVE n + 1 \in S
  <2> SUFFICES ASSUME n + 1 <= N PROVE f[n + 1] \in SeqNumbers
    OBVIOUS
  <2>1. f[n] \in SeqNumbers /\ len[n + 1] \in SeqNumbers /\ n + 1 \in 0 .. N /\ n + 1 # 0
    BY <1>5
  <2>2. f[n + 1] = Add(f[n], len[n + 1])
    BY <2>1
  <2> QED BY <2>1, <2>2, ConstantTypes, AddType
<1> HIDE DEF S
<1>6. Nat \subseteq S
  BY <1>4, <1>5, Induction
<1> QED BY <1>6 DEF S

\* The places of the request stream ...
LEMMA RequestEnds ==
    /\ RequestEnd[0] = Add(ClientIsn, 1)
    /\ \A n \in 0 .. Total : RequestEnd[n] \in SeqNumbers
    /\ \A n \in 1 .. Total : RequestEnd[n] = Add(RequestEnd[n - 1], Requests[n].len)
<1> DEFINE first == Add(ClientIsn, 1)
<1>1. first \in SeqNumbers
  BY ConstantTypes, AddType
<1>2. RequestLen \in [1 .. Total -> SeqNumbers] /\ Total \in Nat
  BY RequestTypes DEF RequestLen
<1>3. PICK g : g = [n \in 0 .. Total |-> IF n = 0 THEN first ELSE Add(g[n - 1], RequestLen[n])]
  <2> HIDE DEF first
  <2> QED BY <1>1, <1>2, EndsExist
<1>4. g = [n \in 0 .. Total |-> IF n = 0 THEN first ELSE Add(g[n - 1], Requests[n].len)]
  <2> DEFINE h == [n \in 0 .. Total |-> IF n = 0 THEN first ELSE Add(g[n - 1], Requests[n].len)]
             k == [n \in 0 .. Total |-> IF n = 0 THEN first ELSE Add(g[n - 1], RequestLen[n])]
  <2>1. \A n \in 0 .. Total : h[n] = k[n]
    BY DEF RequestLen
  <2>2. h = k
    BY <2>1
  <2> QED BY <1>3, <2>2
<1>5. RequestEnd = [n \in 0 .. Total |->
                       IF n = 0 THEN first ELSE Add(RequestEnd[n - 1], Requests[n].len)]
  BY <1>4 DEF RequestEnd
<1> HIDE DEF first
<1>6. \A n \in 0 .. Total :
          RequestEnd[n] = IF n = 0 THEN first ELSE Add(RequestEnd[n - 1], Requests[n].len)
  BY <1>5, Zenon
<1>7. \A n \in 0 .. Total :
          RequestEnd[n] = IF n = 0 THEN first ELSE Add(RequestEnd[n - 1], RequestLen[n])
  BY <1>6 DEF RequestLen
<1>8. \A n \in 0 .. Total : RequestEnd[n] \in SeqNumbers
  BY <1>1, <1>2, <1>7, EndsTypes
<1> QED BY <1>2, <1>6, <1>8 DEF first
\* ... and of the response stream.
LEMMA ResponseEnds ==
    /\ ResponseEnd[0] = Add(Isn, 1)
    /\ \A n \in 0 .. Total : ResponseEnd[n] \in SeqNumbers
    /\ \A n \in 1 .. Total : ResponseEnd[n] = Add(ResponseEnd[n - 1], ResponseLength[Requests[n].request])
<1> DEFINE first == Add(Isn, 1)
<1>1. first \in SeqNumbers
  BY ConstantTypes, AddType
<1>2. ResponseLen \in [1 .. Total -> SeqNumbers] /\ Total \in Nat
  BY RequestTypes, ConstantTypes DEF ResponseLen
<1>3. PICK g : g = [n \in 0 .. Total |-> IF n = 0 THEN first ELSE Add(g[n - 1], ResponseLen[n])]
  <2> HIDE DEF first
  <2> QED BY <1>1, <1>2, EndsExist
<1>4. g = [n \in 0 .. Total |-> IF n = 0 THEN first ELSE Add(g[n - 1], ResponseLength[Requests[n].request])]
  <2> DEFINE h == [n \in 0 .. Total |-> IF n = 0 THEN first ELSE Add(g[n - 1], ResponseLength[Requests[n].request])]
             k == [n \in 0 .. Total |-> IF n = 0 THEN first ELSE Add(g[n - 1], ResponseLen[n])]
  <2>1. \A n \in 0 .. Total : h[n] = k[n]
    BY DEF ResponseLen
  <2>2. h = k
    BY <2>1
  <2> QED BY <1>3, <2>2
<1>5. ResponseEnd = [n \in 0 .. Total |->
                       IF n = 0 THEN first ELSE Add(ResponseEnd[n - 1], ResponseLength[Requests[n].request])]
  BY <1>4 DEF ResponseEnd
<1> HIDE DEF first
<1>6. \A n \in 0 .. Total :
          ResponseEnd[n] = IF n = 0 THEN first ELSE Add(ResponseEnd[n - 1], ResponseLength[Requests[n].request])
  BY <1>5, Zenon
<1>7. \A n \in 0 .. Total :
          ResponseEnd[n] = IF n = 0 THEN first ELSE Add(ResponseEnd[n - 1], ResponseLen[n])
  BY <1>6 DEF ResponseLen
<1>8. \A n \in 0 .. Total : ResponseEnd[n] \in SeqNumbers
  BY <1>1, <1>2, <1>7, EndsTypes
<1> QED BY <1>2, <1>6, <1>8, SMTT(60) DEF first

-----------------------------------------------------------------------------
(***************************************************************************)
(* What the engine makes of a segment of the session.                      *)
(***************************************************************************)

\* An engine that has served n requests processes segment p of the session.
Progress(top, n, p, s, result) ==
    /\ result.slot \in Slot
    /\ result.reply \in Reply
    /\ result.reply = NoReply \/ ReplySound(result.reply, top)
    /\ "FIN" \notin p.flags => result.slot.state # "CLOSED"
    /\ result.slot.state # "CLOSED" =>
          \E m \in n .. top :
              /\ At(result.slot, m)
              /\ result.reply = NoReply \/ ReplyUpTo(result.reply, m)
    /\ p.flags = {"SYN"} => result.slot = s

LEMMA ClosedSlotType == ClosedSlot \in Slot /\ ClosedSlot.state = "CLOSED"
  BY ConstantTypes DEF ClosedSlot, Slot

LEMMA ResultParts ==
    ASSUME NEW result, NEW s, NEW reply, result = GpuResult(s, reply)
    PROVE  result.slot = s /\ result.reply = reply
  BY DEF GpuResult

LEMMA ResponseType ==
    ASSUME NEW id \in Responses, NEW seq \in SeqNumbers, NEW ack \in SeqNumbers
    PROVE  /\ Response(id, seq, ack) \in Reply
           /\ Response(id, seq, ack).kind = "DATA"
           /\ Response(id, seq, ack).id = id /\ Response(id, seq, ack).seq = seq
           /\ Response(id, seq, ack).ack = ack
  BY DEF Response, Reply

LEMMA ControlType ==
    ASSUME NEW seq \in SeqNumbers, NEW ack \in SeqNumbers
    PROVE  /\ Ack(seq, ack) \in Reply /\ Ack(seq, ack).kind = "ACK" /\ Ack(seq, ack).ack = ack
           /\ SynAck(seq, ack) \in Reply /\ SynAck(seq, ack).kind = "SYN_ACK"
           /\ SynAck(seq, ack).seq = seq /\ SynAck(seq, ack).ack = ack
  BY DEF Ack, SynAck, Reply

\* The slot stays and the reply acknowledges what it has received.
LEMMA StandsStill ==
    ASSUME NEW s \in Slot, s.state # "CLOSED", NEW top \in 0 .. Total, NEW n \in 0 .. top, At(s, n),
           NEW p, NEW reply \in {NoReply, Ack(s.send_next, s.recv_next)}
    PROVE  Progress(top, n, p, s, GpuResult(s, reply))
<1>1. s.send_next \in SeqNumbers /\ s.recv_next \in SeqNumbers
  BY DEF Slot
<1>2. reply \in Reply
  BY <1>1, ControlType DEF Reply
<1>3. reply = NoReply \/ (reply.kind = "ACK" /\ reply.ack = RequestEnd[n])
  BY <1>1, ControlType DEF At
<1>4. reply = NoReply \/ ReplySound(reply, top)
  BY <1>3 DEF ReplySound
<1>5. n \in 0 .. n /\ n \in n .. top
  OBVIOUS
<1>6. reply = NoReply \/ ReplyUpTo(reply, n)
  BY <1>3, <1>5 DEF ReplyUpTo
<1>7. GpuResult(s, reply).slot = s /\ GpuResult(s, reply).reply = reply
  BY DEF GpuResult
<1> QED BY <1>2, <1>4, <1>5, <1>6, <1>7 DEF Progress

\* The last response again.
LEMMA SendsAgain ==
    ASSUME NEW s \in Slot, s.state # "CLOSED", NEW top \in 0 .. Total, NEW n \in 0 .. top, At(s, n),
           NEW p, s.last_response_len > 0
    PROVE  Progress(top, n, p, s, GpuResult(s, Response(s.last_response_id, s.last_response_seq,
                                                   s.last_response_ack)))
<1> DEFINE reply == Response(s.last_response_id, s.last_response_seq, s.last_response_ack)
<1>1. /\ n > 0 /\ s.last_response_id = Requests[n].request
      /\ s.last_response_seq = ResponseEnd[n - 1] /\ s.last_response_ack = RequestEnd[n]
  BY DEF At
<1>2. n \in 1 .. top /\ n \in 1 .. Total /\ n \in 1 .. n /\ n \in 0 .. n /\ n \in n .. top
  BY <1>1, RequestTypes
<1>3. s.last_response_seq \in SeqNumbers /\ s.last_response_ack \in SeqNumbers
  BY DEF Slot
<1>4. s.last_response_id \in Responses
  BY <1>1, <1>2, RequestTypes
<1>5. /\ reply \in Reply /\ reply.kind = "DATA" /\ reply.id = Requests[n].request
      /\ reply.seq = ResponseEnd[n - 1] /\ reply.ack = RequestEnd[n]
  BY <1>1, <1>3, <1>4, ResponseType
<1> HIDE DEF reply
<1>6. ReplySound(reply, top)
  BY <1>2, <1>5 DEF ReplySound
<1>7. ReplyUpTo(reply, n)
  BY <1>2, <1>5 DEF ReplyUpTo
<1>8. GpuResult(s, reply).slot = s /\ GpuResult(s, reply).reply = reply
  BY DEF GpuResult
<1>9. Progress(top, n, p, s, GpuResult(s, reply))
  BY <1>2, <1>5, <1>6, <1>7, <1>8 DEF Progress
<1> QED BY <1>9 DEF reply

\* A FIN releases the slot.
LEMMA Releases ==
    ASSUME NEW top, NEW n, NEW p, "FIN" \in p.flags, NEW s,
           NEW reply \in Reply, ReplySound(reply, top)
    PROVE  Progress(top, n, p, s, GpuResult(ClosedSlot, reply))
<1>1. p.flags # {"SYN"}
  OBVIOUS
<1>2. GpuResult(ClosedSlot, reply).slot = ClosedSlot /\ GpuResult(ClosedSlot, reply).reply = reply
  BY DEF GpuResult
<1> QED BY <1>1, <1>2, ClosedSlotType DEF Progress

\* The request that follows those served is the next one of the client, and
\* its response the next one of the stream.
LEMMA RequestServed ==
    ASSUME ShortSession, NEW top \in 0 .. Total,
           NEW s \in Slot, s.state = "ESTABLISHED", NEW n \in 0 .. top, At(s, n),
           NEW p \in Segment, NEW closing, SegmentSound(p, top, closing), p.flags # {"SYN"},
           p.seq = s.recv_next, p.len > 0
    PROVE  Progress(top, n, p, s, GpuRequest(s, p))
<1>1. PICK k \in 1 .. top : /\ p.seq = RequestEnd[k - 1] /\ p.len = Requests[k].len
                             /\ p.request = Requests[k].request
  BY DEF SegmentSound
<1>2. k = n + 1 /\ k \in 1 .. Total /\ k - 1 = n /\ n \in 0 .. Total
  <2>1. k - 1 \in 0 .. Total /\ n \in 0 .. Total /\ k \in 1 .. Total
    BY RequestTypes
  <2>2. RequestEnd[k - 1] = RequestEnd[n]
    BY <1>1 DEF At
  <2>3. k - 1 = n
    BY <2>1, <2>2 DEF ShortSession
  <2> QED BY <2>1, <2>3
<1> DEFINE end == Add(p.seq, p.len)
           next_ack == Add(end, IF "FIN" \in p.flags THEN 1 ELSE 0)
           sent_to == Add(s.send_next, ResponseLength[p.request])
           reply == Response(p.request, s.send_next, next_ack)
<1>3. /\ p.seq \in SeqNumbers /\ p.len \in SeqNumbers /\ p.request \in Responses
      /\ s.send_next \in SeqNumbers /\ s.send_next = ResponseEnd[n]
  BY ConstantTypes DEF Segment, Slot, At
<1>4. end = RequestEnd[k] /\ end \in SeqNumbers
  BY <1>1, <1>2, RequestEnds
<1>5. sent_to = ResponseEnd[k] /\ sent_to \in SeqNumbers
  BY <1>1, <1>2, <1>3, ResponseEnds
<1>6. next_ack \in SeqNumbers
  <2>1. end \in Nat /\ (IF "FIN" \in p.flags THEN 1 ELSE 0) \in Nat
    BY <1>4, ConstantTypes
  <2> QED BY <2>1, AddType
<1>7. /\ reply \in Reply /\ reply.kind = "DATA" /\ reply.id = Requests[k].request
      /\ reply.seq = ResponseEnd[k - 1] /\ reply.ack = next_ack
  BY <1>1, <1>2, <1>3, <1>6, ResponseType
<1> HIDE DEF reply
<1>8. ReplySound(reply, top)
  BY <1>7 DEF ReplySound
<1>9. CASE "FIN" \in p.flags
  <2>1. GpuRequest(s, p) = GpuResult(ClosedSlot, reply)
    BY <1>9 DEF GpuRequest, reply
  <2> QED BY <1>7, <1>8, <1>9, <2>1, Releases
<1>10. CASE "FIN" \notin p.flags
  <2> DEFINE t == [s EXCEPT
            !.recv_next = next_ack,
            !.send_next = sent_to,
            !.last_client_seq = p.seq,
            !.last_client_len = p.len,
            !.last_response_seq = s.send_next,
            !.last_response_ack = next_ack,
            !.last_response_id = p.request,
            !.last_response_len = ResponseLength[p.request]]
  <2>1. GpuRequest(s, p) = GpuResult(t, reply)
    BY <1>10 DEF GpuRequest, reply
  <2>2. next_ack = RequestEnd[k]
    BY <1>4, <1>10, AddZero
  <2>3. ResponseLength[p.request] \in SeqNumbers
    BY <1>3, ConstantTypes
  <2> HIDE DEF next_ack, sent_to
  <2>4. t \in Slot
    BY <1>3, <1>5, <1>6, <2>3 DEF Slot
  <2>5. /\ t.state = "ESTABLISHED" /\ t.recv_next = next_ack /\ t.send_next = sent_to
        /\ t.last_response_seq = s.send_next /\ t.last_response_ack = next_ack
        /\ t.last_response_id = p.request
    BY DEF Slot
  <2> HIDE DEF t
  <2>6. k > 0 /\ k \in n .. top /\ k \in 0 .. k /\ k \in 1 .. k
    BY <1>2
  <2>7. At(t, k)
    BY <1>1, <1>2, <1>3, <1>5, <2>2, <2>5, <2>6 DEF At
  <2>8. ReplyUpTo(reply, k)
    BY <1>7, <2>2, <2>6 DEF ReplyUpTo
  <2>9. GpuRequest(s, p).slot = t /\ GpuRequest(s, p).reply = reply
    BY <2>1 DEF GpuResult
  <2> QED BY <1>7, <1>8, <2>4, <2>5, <2>6, <2>7, <2>8, <2>9 DEF Progress
<1> QED BY <1>9, <1>10

\* A segment of the session at an established flow.
LEMMA DataServed ==
    ASSUME ShortSession, NEW top \in 0 .. Total,
           NEW s \in Slot, s.state = "ESTABLISHED", NEW n \in 0 .. top, At(s, n),
           NEW p \in Segment, NEW closing, SegmentSound(p, top, closing), p.flags # {"SYN"}
    PROVE  Progress(top, n, p, s, GpuData(s, p))
<1>1. p.len \in Nat /\ p.seq \in SeqNumbers /\ s.send_next \in SeqNumbers
  BY ConstantTypes DEF Segment, Slot
<1>2. CASE p.seq # s.recv_next
  <2> DEFINE again == /\ p.seq = s.last_client_seq /\ p.len = s.last_client_len
                      /\ s.last_response_len > 0
  <2>1. CASE again
    <3>1. GpuData(s, p) = GpuResult(s, Response(s.last_response_id, s.last_response_seq,
                                                s.last_response_ack))
      BY <1>2, <2>1 DEF GpuData, GpuOutOfOrder
    <3> QED BY <2>1, <3>1, SendsAgain
  <2>2. CASE ~again
    <3>1. GpuData(s, p) = GpuResult(s, Ack(s.send_next, s.recv_next))
      BY <1>2, <2>2 DEF GpuData, GpuOutOfOrder
    <3> QED BY <3>1, StandsStill
  <2> QED BY <2>1, <2>2
<1>3. CASE p.seq = s.recv_next /\ p.len > 0
  <2>1. GpuData(s, p) = GpuRequest(s, p)
    BY <1>3 DEF GpuData
  <2> QED BY <1>3, <2>1, RequestServed
<1>4. CASE p.seq = s.recv_next /\ p.len = 0 /\ "FIN" \in p.flags
  <2> DEFINE reply == Ack(s.send_next, Add(p.seq, 1))
  <2>1. GpuData(s, p) = GpuResult(ClosedSlot, reply)
    BY <1>4 DEF GpuData
  <2>2. Add(p.seq, 1) \in SeqNumbers
    BY <1>1, ConstantTypes, AddType
  <2>3. reply \in Reply /\ reply.kind = "ACK"
    BY <1>1, <2>2, ControlType
  <2> HIDE DEF reply
  <2>4. ReplySound(reply, top)
    BY <2>3 DEF ReplySound
  <2> QED BY <1>4, <2>1, <2>3, <2>4, Releases
<1>5. CASE p.seq = s.recv_next /\ p.len = 0 /\ "FIN" \notin p.flags
  <2>1. GpuData(s, p) = GpuResult(s, NoReply)
    BY <1>5 DEF GpuData
  <2> QED BY <2>1, StandsStill
<1> QED BY <1>1, <1>2, <1>3, <1>4, <1>5

\* An acknowledgement, also the one that completes the handshake.
LEMMA AckedServed ==
    ASSUME ShortSession, NEW top \in 0 .. Total,
           NEW s \in Slot, NEW t \in Slot, t.state = "ESTABLISHED",
           NEW n \in 0 .. top, At(t, n),
           NEW p \in Segment, NEW closing, SegmentSound(p, top, closing), p.flags # {"SYN"}
    PROVE  Progress(top, n, p, s, GpuData(GpuAcked(t, p), p))
<1> DEFINE u == GpuAcked(t, p)
<1>1. u \in Slot /\ u.state = "ESTABLISHED"
  BY DEF GpuAcked, Slot, Segment
<1>2. /\ u.recv_next = t.recv_next /\ u.send_next = t.send_next
      /\ u.last_response_len = t.last_response_len /\ u.last_response_id = t.last_response_id
      /\ u.last_response_seq = t.last_response_seq /\ u.last_response_ack = t.last_response_ack
  BY DEF GpuAcked, Slot
<1>3. At(u, n)
  BY <1>1, <1>2 DEF At
<1> HIDE DEF u
<1>4. Progress(top, n, p, u, GpuData(u, p))
  BY <1>1, <1>3, DataServed
<1>5. Progress(top, n, p, s, GpuData(u, p))
  BY <1>4 DEF Progress
<1> QED BY <1>5 DEF u

\* The segments of a session carry few flags.
LEMMA SessionFlags ==
    ASSUME NEW p, NEW top, NEW closing, SegmentSound(p, top, closing)
    PROVE  /\ p.flags = {"SYN"} => "SYN" \in p.flags /\ "ACK" \notin p.flags /\ "FIN" \notin p.flags
           /\ p.flags # {"SYN"} => "SYN" \notin p.flags /\ "RST" \notin p.flags
  BY DEF SegmentSound

\* The SYN-ACK of a handshake that has not been completed.
LEMMA AcksSyn ==
    ASSUME NEW top \in 0 .. Total, NEW s \in Slot, At(s, 0)
    PROVE  LET reply == SynAck(Sub(s.send_next, 1), s.recv_next)
           IN  /\ reply \in Reply /\ reply # NoReply /\ ReplySound(reply, top) /\ ReplyUpTo(reply, 0)
<1> DEFINE reply == SynAck(Sub(s.send_next, 1), s.recv_next)
<1>1. Sub(s.send_next, 1) = Isn /\ Isn \in SeqNumbers
  BY SynAckSeq, ResponseEnds, ConstantTypes DEF At
<1>2. s.recv_next \in SeqNumbers /\ s.recv_next = RequestEnd[0]
  BY DEF At, Slot
<1>3. reply \in Reply /\ reply.kind = "SYN_ACK" /\ reply.seq = Isn /\ reply.ack = RequestEnd[0]
  BY <1>1, <1>2, ControlType
<1>4. reply # NoReply
  BY <1>3 DEF NoReply
<1> HIDE DEF reply
<1>5. ReplySound(reply, top)
  BY <1>3 DEF ReplySound
<1>6. 0 \in 0 .. 0
  OBVIOUS
<1>7. ReplyUpTo(reply, 0)
  BY <1>3, <1>6 DEF ReplyUpTo
<1> QED BY <1>3, <1>4, <1>5, <1>7 DEF reply

\* Any segment of the session at a flow in use.
LEMMA FlowServes ==
    ASSUME ShortSession, NEW top \in 0 .. Total,
           NEW s \in Slot, s.state # "CLOSED", NEW n \in 0 .. top, At(s, n),
           NEW p \in Segment, NEW closing, SegmentSound(p, top, closing)
    PROVE  Progress(top, n, p, s, GpuStep(s, p, TRUE))
<1>1. s.state \in {"SYN_RECEIVED", "ESTABLISHED"}
  BY DEF Slot
<1>2. CASE p.flags = {"SYN"}
  <2>1. GpuStep(s, p, TRUE) = GpuSyn(s, p, TRUE)
    BY <1>2 DEF GpuStep
  <2>2. CASE s.state = "ESTABLISHED"
    <3>1. GpuSyn(s, p, TRUE) = GpuResult(s, Ack(s.send_next, s.recv_next))
      BY <2>2 DEF GpuSyn
    <3> QED BY <2>1, <3>1, StandsStill
  <2>3. CASE s.state = "SYN_RECEIVED"
    <3> DEFINE reply == SynAck(Sub(s.send_next, 1), s.recv_next)
    <3>0. GpuStep(s, p, TRUE) = GpuResult(s, reply)
      BY <2>1, <2>3 DEF GpuSyn
    <3>1. GpuStep(s, p, TRUE).slot = s /\ GpuStep(s, p, TRUE).reply = reply
      BY <3>0, ResultParts
    <3>2. n = 0 /\ 0 \in n .. top
      BY <2>3 DEF At
    <3>3. At(s, 0)
      BY <3>2
    <3>4. reply \in Reply /\ ReplySound(reply, top) /\ ReplyUpTo(reply, 0)
      BY <3>3, AcksSyn
    <3> HIDE DEF reply
    <3> QED BY <3>1, <3>2, <3>3, <3>4, SessionFlags DEF Progress
  <2> QED BY <1>1, <2>2, <2>3
<1>3. CASE p.flags # {"SYN"}
  <2>1. "SYN" \notin p.flags /\ "RST" \notin p.flags
    BY <1>3, SessionFlags
  <2>2. CASE s.state = "ESTABLISHED"
    <3>1. GpuStep(s, p, TRUE) = GpuData(GpuAcked(s, p), p)
      BY <2>1, <2>2 DEF GpuStep
    <3> QED BY <1>3, <2>2, <3>1, AckedServed
  <2>3. CASE s.state = "SYN_RECEIVED"
    <3> DEFINE ok == "ACK" \in p.flags /\ p.ack = s.send_next /\ p.seq = s.recv_next
               t == [s EXCEPT !.state = "ESTABLISHED", !.send_unacked = p.ack]
    <3>1. CASE ok
      <4>1. GpuStep(s, p, TRUE) = GpuData(GpuAcked(t, p), p)
        BY <2>1, <2>3, <3>1 DEF GpuStep
      <4>2. t \in Slot /\ t.state = "ESTABLISHED"
        BY DEF Slot, Segment
      <4>3. /\ t.recv_next = s.recv_next /\ t.send_next = s.send_next
            /\ t.last_response_len = s.last_response_len /\ t.last_response_id = s.last_response_id
            /\ t.last_response_seq = s.last_response_seq /\ t.last_response_ack = s.last_response_ack
        BY DEF Slot
      <4> HIDE DEF t
      <4>4. At(t, n)
        BY <4>2, <4>3 DEF At
      <4> QED BY <1>3, <4>1, <4>2, <4>4, AckedServed
    <3>2. CASE ~ok
      <4>1. GpuStep(s, p, TRUE) = GpuResult(s, NoReply)
        BY <2>1, <2>3, <3>2 DEF GpuStep
      <4> QED BY <4>1, StandsStill
    <3> QED BY <3>1, <3>2
  <2> QED BY <1>1, <2>2, <2>3
<1> QED BY <1>2, <1>3

\* ... and where there is none: only a SYN opens one.
Opening(top, p, s, result) ==
    /\ p.flags = {"SYN"} =>
            /\ result.slot \in Slot /\ result.slot.state = "SYN_RECEIVED"
            /\ At(result.slot, 0)
            /\ result.reply \in Reply /\ result.reply # NoReply
            /\ ReplySound(result.reply, top) /\ ReplyUpTo(result.reply, 0)
    /\ p.flags # {"SYN"} => result.slot = s /\ result.reply = NoReply

LEMMA ClosedServes ==
    ASSUME NEW top \in 0 .. Total, NEW s \in Slot, s.state = "CLOSED",
           NEW p \in Segment, NEW closing, SegmentSound(p, top, closing)
    PROVE  Opening(top, p, s, GpuStep(s, p, TRUE))
<1>1. CASE p.flags = {"SYN"}
  <2> DEFINE o == OpenedSlot(p)
             reply == SynAck(Sub(o.send_next, 1), o.recv_next)
  <2>1. p.seq = ClientIsn /\ ClientIsn \in SeqNumbers
    BY <1>1, ConstantTypes DEF SegmentSound
  <2>2. Add(p.seq, 1) \in SeqNumbers /\ Add(Isn, 1) \in SeqNumbers
    BY <2>1, ConstantTypes, AddType
  <2>3. /\ o.state = "SYN_RECEIVED" /\ o.recv_next = Add(p.seq, 1)
        /\ o.send_next = Add(Isn, 1) /\ o.last_response_len = 0
    BY DEF OpenedSlot, ClosedSlot
  <2>4. o \in Slot
    BY <2>2, ClosedSlotType, ConstantTypes DEF OpenedSlot, Slot
  <2>5. GpuStep(s, p, TRUE) = GpuSyn(s, p, TRUE)
    BY <1>1 DEF GpuStep
  <2>6. GpuSyn(s, p, TRUE) = GpuResult(o, reply)
    <3>1. (IF s.state = "CLOSED" /\ TRUE THEN OpenedSlot(p) ELSE s) = o
      OBVIOUS
    <3>2. GpuSyn(s, p, TRUE) =
            CASE o.state = "CLOSED" -> GpuResult(s, NoReply)
              [] o.state = "SYN_RECEIVED" ->
                    GpuResult(o, SynAck(Sub(o.send_next, 1), o.recv_next))
              [] o.state = "ESTABLISHED" -> GpuResult(o, Ack(o.send_next, o.recv_next))
      BY <3>1, Zenon DEF GpuSyn
    <3> HIDE DEF o
    <3> QED BY <2>3, <3>2
  <2> HIDE DEF o
  <2>7. At(o, 0)
    BY <2>1, <2>3, RequestEnds, ResponseEnds DEF At
  <2>8. reply \in Reply /\ reply # NoReply /\ ReplySound(reply, top) /\ ReplyUpTo(reply, 0)
    BY <2>4, <2>7, AcksSyn
  <2>9. GpuStep(s, p, TRUE).slot = o /\ GpuStep(s, p, TRUE).reply = reply
    BY <2>5, <2>6, ResultParts
  <2> HIDE DEF reply
  <2> QED BY <1>1, <2>3, <2>4, <2>7, <2>8, <2>9 DEF Opening
<1>2. CASE p.flags # {"SYN"}
  <2>1. GpuStep(s, p, TRUE) = GpuResult(s, NoReply)
    BY <1>2, SessionFlags DEF GpuStep
  <2>2. GpuStep(s, p, TRUE).slot = s /\ GpuStep(s, p, TRUE).reply = NoReply
    BY <2>1, ResultParts
  <2> QED BY <1>2, <2>2 DEF Opening
<1> QED BY <1>1, <1>2

-----------------------------------------------------------------------------
(***************************************************************************)
(* The network.                                                            *)
(***************************************************************************)

LEMMA Joined ==
    ASSUME NEW S, NEW a \in Seq(S), NEW b \in Seq(S)
    PROVE  /\ a \o b \in Seq(S)
           /\ Len(a \o b) = Len(a) + Len(b)
           /\ \A j \in 1 .. Len(a) : (a \o b)[j] = a[j]
           /\ \A j \in 1 .. Len(b) : (a \o b)[Len(a) + j] = b[j]
  OBVIOUS

LEMMA WithoutType ==
    ASSUME NEW S, NEW c \in Seq(S), NEW i \in DOMAIN c
    PROVE  /\ Without(c, i) \in Seq(S)
           /\ Len(Without(c, i)) <= Len(c)
           /\ Carried(Without(c, i)) \subseteq Carried(c)
<1> DEFINE d == Without(c, i)
<1>1. i \in 1 .. Len(c) /\ Len(c) \in Nat
  OBVIOUS
<1>2. /\ d \in Seq(S) /\ Len(d) = Len(c) - 1
      /\ \A j \in 1 .. Len(c) - 1 : d[j] = IF j < i THEN c[j] ELSE c[j + 1]
  <2> DEFINE a == SubSeq(c, 1, i - 1)
             b == SubSeq(c, i + 1, Len(c))
  <2>1. a \in Seq(S) /\ Len(a) = i - 1 /\ \A j \in 1 .. i - 1 : a[j] = c[j]
    BY <1>1
  <2>2. b \in Seq(S) /\ Len(b) = Len(c) - i /\ \A j \in 1 .. Len(c) - i : b[j] = c[j + i]
    BY <1>1
  <2>3. d = a \o b
    BY DEF Without
  <2> HIDE DEF a, b, d
  <2>4. /\ d \in Seq(S) /\ Len(d) = Len(a) + Len(b)
        /\ \A j \in 1 .. Len(a) : d[j] = a[j]
        /\ \A j \in 1 .. Len(b) : d[Len(a) + j] = b[j]
    <3>1. a \in Seq(S) /\ b \in Seq(S)
      BY <2>1, <2>2
    <3>2. /\ a \o b \in Seq(S) /\ Len(a \o b) = Len(a) + Len(b)
          /\ \A j \in 1 .. Len(a) : (a \o b)[j] = a[j]
          /\ \A j \in 1 .. Len(b) : (a \o b)[Len(a) + j] = b[j]
      BY <3>1, Joined
    <3> QED BY <2>3, <3>2, Zenon
  <2>5. ASSUME NEW j \in 1 .. Len(c) - 1 PROVE d[j] = IF j < i THEN c[j] ELSE c[j + 1]
    <3>1. CASE j < i
      <4>1. j \in 1 .. i - 1 /\ d[j] = a[j]
        BY <1>1, <2>1, <2>4, <3>1
      <4> QED BY <2>1, <3>1, <4>1
    <3>2. CASE ~(j < i)
      <4> DEFINE l == j - (i - 1)
      <4>1. l \in 1 .. Len(c) - i /\ (i - 1) + l = j /\ l + i = j + 1
        BY <1>1, <3>2
      <4> HIDE DEF l
      <4>2. d[(i - 1) + l] = b[l]
        BY <2>1, <2>2, <2>4, <4>1
      <4>3. b[l] = c[l + i]
        BY <2>2, <4>1
      <4> QED BY <3>2, <4>1, <4>2, <4>3
    <3> QED BY <3>1, <3>2
  <2> QED BY <1>1, <2>1, <2>2, <2>4, <2>5
<1> HIDE DEF d
<1>3. ASSUME NEW j \in DOMAIN d PROVE d[j] \in Carried(c)
  <2>1. j \in 1 .. Len(c) - 1
    BY <1>2
  <2>2. j \in DOMAIN c /\ j + 1 \in DOMAIN c
    BY <1>1, <2>1
  <2> QED BY <1>2, <2>1, <2>2 DEF Carried
<1>4. Carried(d) \subseteq Carried(c)
  BY <1>3 DEF Carried
<1> QED BY <1>1, <1>2, <1>4 DEF d

LEMMA AppendType ==
    ASSUME NEW S, NEW c \in Seq(S), NEW m \in S
    PROVE  /\ Append(c, m) \in Seq(S)
           /\ Len(Append(c, m)) = Len(c) + 1
           /\ Carried(Append(c, m)) \subseteq Carried(c) \cup {m}
  BY DEF Carried

LEMMA PutType ==
    ASSUME NEW S, NEW c \in Seq(S), Len(c) <= InFlight, NEW m \in S
    PROVE  /\ Put(c, m) \in Seq(S)
           /\ Len(Put(c, m)) <= InFlight
           /\ Carried(Put(c, m)) \subseteq Carried(c) \cup {m}
<1>1. InFlight \in Nat /\ Len(c) \in Nat
  BY SessionAssumption
<1>2. CASE Len(c) < InFlight
  <2>1. Put(c, m) = Append(c, m)
    BY <1>2 DEF Put
  <2> QED BY <1>1, <1>2, <2>1, AppendType
<1>3. CASE ~(Len(c) < InFlight)
  <2>1. Put(c, m) = c
    BY <1>3 DEF Put
  <2> QED BY <1>1, <2>1
<1> QED BY <1>2, <1>3

LEMMA CarriedType == ASSUME NEW S, NEW c \in Seq(S) PROVE Carried(c) \subseteq S
  BY DEF Carried

\* What is sound stays so when the client has sent more, or closes.
LEMMA SoundGrows ==
    ASSUME NEW top \in Nat, NEW more \in Nat, top <= more
    PROVE  /\ \A p : \A closing, closes : (closing => closes) /\ SegmentSound(p, top, closing)
                                              => SegmentSound(p, more, closes)
           /\ \A r : ReplySound(r, top) => ReplySound(r, more)
           /\ \A r : ReplyUpTo(r, top) => ReplyUpTo(r, more)
<1>1. 1 .. top \subseteq 1 .. more /\ 0 .. top \subseteq 0 .. more
  OBVIOUS
<1>2. ASSUME NEW p, NEW closing, NEW closes, closing => closes, SegmentSound(p, top, closing)
      PROVE  SegmentSound(p, more, closes)
  BY <1>1, <1>2 DEF SegmentSound
<1>3. ASSUME NEW r, ReplySound(r, top) PROVE ReplySound(r, more)
  BY <1>1, <1>3 DEF ReplySound
<1>4. ASSUME NEW r, ReplyUpTo(r, top) PROVE ReplyUpTo(r, more)
  BY <1>1, <1>4 DEF ReplyUpTo
<1> QED BY <1>2, <1>3, <1>4

-----------------------------------------------------------------------------
(***************************************************************************)
(* The client.                                                             *)
(***************************************************************************)

ClientFlags == {{"SYN"}, {"ACK"}, {"ACK", "FIN"}}

LEMMA ControlSegment ==
    ASSUME NEW flags \in ClientFlags, NEW seq \in SeqNumbers,
           NEW ack \in SeqNumbers
    PROVE  /\ Control(flags, seq, ack) \in Segment
           /\ Control(flags, seq, ack).flags = flags /\ Control(flags, seq, ack).len = 0
           /\ Control(flags, seq, ack).seq = seq
<1>1. (CHOOSE id \in Responses : TRUE) \in Responses
  BY SegmentAssumption
<1>2. flags \in Flags
  BY DEF Flags, ClientFlags
<1> QED BY <1>1, <1>2, ConstantTypes DEF Control, Segment

LEMMA SynSound == Syn \in Segment /\ Syn.flags = {"SYN"} /\ \A top, c : SegmentSound(Syn, top, c)
<1>1. Syn \in Segment /\ Syn.flags = {"SYN"} /\ Syn.seq = ClientIsn
  <2> DEFINE flags == {"SYN"}
  <2>1. flags \in ClientFlags
    BY DEF ClientFlags
  <2> HIDE DEF flags
  <2>2. /\ Control(flags, ClientIsn, 0) \in Segment
        /\ Control(flags, ClientIsn, 0).flags = flags
        /\ Control(flags, ClientIsn, 0).seq = ClientIsn
    BY <2>1, ControlSegment, ConstantTypes
  <2> QED BY <2>2 DEF Syn, flags
<1>2. "FIN" \notin Syn.flags
  BY <1>1
<1> QED BY <1>1, <1>2 DEF SegmentSound

LEMMA FinSound == ASSUME expected \in SeqNumbers
                  PROVE  Fin \in Segment /\ \A top : SegmentSound(Fin, top, TRUE)
<1>1. Total \in 0 .. Total
  BY RequestTypes
<1>2. Fin \in Segment /\ Fin.flags = {"ACK", "FIN"} /\ Fin.len = 0
  <2>1. {"ACK", "FIN"} \in ClientFlags
    BY DEF ClientFlags
  <2> DEFINE flags == {"ACK", "FIN"}
  <2> HIDE DEF flags
  <2>2. /\ Control(flags, RequestEnd[Total], expected) \in Segment
        /\ Control(flags, RequestEnd[Total], expected).flags = flags
        /\ Control(flags, RequestEnd[Total], expected).len = 0
    BY <1>1, <2>1, ControlSegment, RequestEnds DEF flags
  <2> QED BY <2>2 DEF Fin, flags
<1> QED BY <1>2 DEF SegmentSound

LEMMA DataSound ==
    ASSUME expected \in SeqNumbers, NEW top \in 0 .. Total, NEW k \in 1 .. top, NEW closing,
           FinOnLast /\ k = Total => closing
    PROVE  Data(k) \in Segment /\ SegmentSound(Data(k), top, closing)
<1>1. k \in 1 .. Total /\ k - 1 \in 0 .. Total
  BY RequestTypes
<1>2. /\ RequestEnd[k - 1] \in SeqNumbers /\ Requests[k].len \in Lens
      /\ Requests[k].request \in Responses
  BY <1>1, RequestEnds, RequestTypes
<1> DEFINE flags == IF FinOnLast /\ k = Total THEN {"ACK", "FIN"} ELSE {"ACK"}
<1>3. flags \in Flags /\ flags \in {{"ACK"}, {"ACK", "FIN"}} /\ ("FIN" \in flags => closing)
  BY DEF Flags
<1>4. Data(k) = [flags |-> flags, seq |-> RequestEnd[k - 1], ack |-> expected,
                 len |-> Requests[k].len, request |-> Requests[k].request]
  BY DEF Data
<1> HIDE DEF flags
<1>5. Data(k) \in Segment
  BY <1>2, <1>3, <1>4 DEF Segment
<1>6. /\ Data(k).flags = flags /\ Data(k).seq = RequestEnd[k - 1]
      /\ Data(k).len = Requests[k].len /\ Data(k).request = Requests[k].request
  BY <1>4
<1>7. SegmentSound(Data(k), top, closing)
  BY <1>3, <1>6 DEF SegmentSound
<1> QED BY <1>5, <1>7

\* What the client sends again.
LEMMA UnackedSound ==
    ASSUME TypeOK, ClientSound, NEW p \in Unacked
    PROVE  /\ p \in Segment /\ SegmentSound(p, sent, Closing)
           /\ peer = "syn_sent" => p.flags = {"SYN"}
<1>1. /\ peer \in {"syn_sent", "open", "fin_sent", "closed"} /\ expected \in SeqNumbers
      /\ sent \in 0 .. Total /\ acked \in 0 .. sent
  BY DEF TypeOK
<1>2. CASE peer = "syn_sent"
  <2>1. p = Syn
    BY <1>2 DEF Unacked
  <2> QED BY <2>1, SynSound
<1>3. CASE peer \in {"open", "fin_sent"} /\ acked < sent
  <2>1. p = Data(acked + 1)
    <3>1. peer # "syn_sent" /\ acked # sent
      BY <1>1, <1>3, RequestTypes
    <3> QED BY <1>3, <3>1 DEF Unacked
  <2>2. acked + 1 \in 1 .. sent
    BY <1>1, <1>3, RequestTypes
  <2>3. FinOnLast /\ acked + 1 = Total => Closing
    <3>1. acked + 1 = Total => sent = Total
      BY <1>1, <2>2, RequestTypes
    <3> QED BY <3>1 DEF ClientSound
  <2>4. Data(acked + 1) \in Segment /\ SegmentSound(Data(acked + 1), sent, Closing)
    BY <1>1, <2>2, <2>3, DataSound
  <2> QED BY <1>3, <2>1, <2>4
<1>4. CASE peer = "fin_sent" /\ ~(acked < sent)
  <2>1. acked = sent
    BY <1>1, <1>4, RequestTypes
  <2>2. p = Fin
    BY <1>4, <2>1 DEF Unacked
  <2>3. Closing = TRUE
    BY <1>4 DEF Closing
  <2> QED BY <1>1, <1>4, <2>2, <2>3, FinSound
<1>5. CASE peer = "open" /\ ~(acked < sent)
  BY <1>5 DEF Unacked
<1>6. CASE peer = "closed"
  BY <1>6 DEF Unacked
<1> QED BY <1>1, <1>2, <1>3, <1>4, <1>5, <1>6

-----------------------------------------------------------------------------
(***************************************************************************)
(* The invariant, action by action.                                        *)
(***************************************************************************)

LEMMA ServeStep ==
    ASSUME ShortSession, IInv, NEW i \in DOMAIN segments, Serve(i)
    PROVE  IInv'
<1> DEFINE p == segments[i]
           result == GpuStep(slot, p, TRUE)
<1>1. /\ segments \in Seq(Segment) /\ Len(segments) <= InFlight
      /\ replies \in Seq(Reply \ {NoReply}) /\ Len(replies) <= InFlight
      /\ slot \in Slot /\ sent \in 0 .. Total /\ slot.state \in {"CLOSED", "SYN_RECEIVED", "ESTABLISHED"}
  BY DEF IInv, TypeOK, Slot
<1>2. p \in Segment /\ p \in Carried(segments)
  BY <1>1 DEF Carried
<1>3. SegmentSound(p, sent, Closing)
  BY <1>2 DEF IInv, NetworkSound
<1>4. /\ slot' = result.slot
      /\ replies' = IF result.reply = NoReply THEN replies ELSE Put(replies, result.reply)
      /\ segments' = Without(segments, i)
      /\ UNCHANGED <<fifo, window, peer, sent, acked, expected, log>>
  BY DEF Serve, peerVars
<1> HIDE DEF p
<1>5. ASSUME slot.state = "CLOSED"
      PROVE  Opening(sent, p, slot, result)
  BY <1>1, <1>2, <1>3, <1>5, ClosedServes
<1>6. ASSUME slot.state # "CLOSED", NEW n \in 0 .. sent, At(slot, n)
      PROVE  Progress(sent, n, p, slot, result)
  BY <1>1, <1>2, <1>3, <1>6, FlowServes
<1>7. slot.state # "CLOSED" => \E n \in 0 .. sent : At(slot, n)
  BY DEF IInv, EngineSound
<1> HIDE DEF result
<1>8. /\ result.slot \in Slot /\ result.reply \in Reply
      /\ result.reply = NoReply \/ ReplySound(result.reply, sent)
  <2>1. CASE slot.state = "CLOSED"
    BY <1>1, <1>5, <2>1 DEF Reply, Opening
  <2>2. CASE slot.state # "CLOSED"
    BY <1>6, <1>7, <2>2 DEF Progress
  <2> QED BY <2>1, <2>2
<1>9. /\ segments' \in Seq(Segment) /\ Len(segments') <= InFlight
      /\ Carried(segments') \subseteq Carried(segments)
  <2>1. InFlight \in Nat /\ Len(segments) \in Nat /\ Len(segments') \in Nat
    BY <1>1, <1>4, WithoutType, SessionAssumption
  <2> QED BY <1>1, <1>4, <2>1, WithoutType
<1>10. /\ replies' \in Seq(Reply \ {NoReply}) /\ Len(replies') <= InFlight
       /\ Carried(replies') \subseteq Carried(replies) \cup ({result.reply} \ {NoReply})
  <2>1. CASE result.reply = NoReply
    BY <1>1, <1>4, <2>1
  <2>2. CASE result.reply # NoReply
    <3>1. result.reply \in Reply \ {NoReply}
      BY <1>8, <2>2
    <3>2. replies' = Put(replies, result.reply)
      BY <1>4, <2>2
    <3>3. /\ Put(replies, result.reply) \in Seq(Reply \ {NoReply})
          /\ Len(Put(replies, result.reply)) <= InFlight
          /\ Carried(Put(replies, result.reply)) \subseteq Carried(replies) \cup {result.reply}
      <4> DEFINE S == Reply \ {NoReply}
      <4>1. replies \in Seq(S) /\ result.reply \in S
        BY <1>1, <3>1
      <4> HIDE DEF S
      <4> QED BY <1>1, <4>1, PutType DEF S
    <3> QED BY <2>2, <3>2, <3>3
  <2> QED BY <2>1, <2>2
<1>11. TypeOK'
  BY <1>4, <1>8, <1>9, <1>10 DEF IInv, TypeOK
<1>12. AnswersMatch'
  BY <1>4 DEF IInv, AnswersMatch
<1>13. EngineSound'
  <2>1. CASE slot.state = "CLOSED"
    <3>1. 0 \in 0 .. sent
      BY <1>1, RequestTypes
    <3> QED BY <1>4, <1>5, <2>1, <3>1 DEF EngineSound, Opening
  <2>2. CASE slot.state # "CLOSED"
    <3>1. PICK n \in 0 .. sent : At(slot, n)
      BY <1>7, <2>2
    <3>2. Progress(sent, n, p, slot, result)
      BY <1>6, <2>2, <3>1
    <3>3. n .. sent \subseteq 0 .. sent
      OBVIOUS
    <3> QED BY <1>4, <3>2, <3>3 DEF Progress, EngineSound
  <2> QED BY <2>1, <2>2
<1>14. NetworkSound'
  BY <1>4, <1>8, <1>9, <1>10 DEF IInv, NetworkSound, Closing
<1>15. ClientSound'
  BY <1>4 DEF IInv, ClientSound, Closing
<1>16. HandshakeSound'
  <2> SUFFICES ASSUME peer = "syn_sent"
               PROVE  /\ slot'.state # "ESTABLISHED"
                      /\ \A q \in Carried(segments') : q.flags = {"SYN"}
                      /\ \A r \in Carried(replies') : slot'.state # "CLOSED" /\ ReplyUpTo(r, 0)
    BY <1>4 DEF HandshakeSound
  <2>1. /\ slot.state # "ESTABLISHED"
        /\ \A q \in Carried(segments) : q.flags = {"SYN"}
        /\ \A r \in Carried(replies) : slot.state # "CLOSED" /\ ReplyUpTo(r, 0)
    BY DEF IInv, HandshakeSound
  <2>2. p.flags = {"SYN"} /\ sent = 0
    BY <1>2, <2>1 DEF IInv, ClientSound
  <2>3. /\ slot'.state = "SYN_RECEIVED"
        /\ result.reply = NoReply \/ ReplyUpTo(result.reply, 0)
    <3>1. CASE slot.state = "CLOSED"
      BY <1>4, <1>5, <2>2, <3>1 DEF Opening
    <3>2. CASE slot.state # "CLOSED"
      <4>1. PICK n \in 0 .. sent : At(slot, n)
        BY <1>7, <3>2
      <4>2. Progress(sent, n, p, slot, result)
        BY <1>6, <3>2, <4>1
      <4>3. n = 0 /\ n .. sent = {0}
        BY <2>2
      <4>4. result.slot = slot
        BY <2>2, <4>2 DEF Progress
      <4>5. slot'.state = "SYN_RECEIVED"
        BY <1>1, <1>4, <2>1, <3>2, <4>4
      <4> QED BY <1>4, <4>2, <4>3, <4>5 DEF Progress
    <3> QED BY <3>1, <3>2
  <2> QED BY <1>9, <1>10, <2>1, <2>3
<1>17. OpenSound'
  <2> SUFFICES ASSUME peer = "open"
               PROVE  /\ slot'.state # "CLOSED"
                      /\ \E n \in Len(log) .. sent :
                            /\ acked <= n /\ At(slot', n)
                            /\ \A r \in Carried(replies') : ReplyUpTo(r, n)
    BY <1>4 DEF OpenSound
  <2>1. slot.state # "CLOSED"
    BY DEF IInv, OpenSound
  <2>2. PICK n \in Len(log) .. sent : /\ acked <= n /\ At(slot, n)
                                      /\ \A r \in Carried(replies) : ReplyUpTo(r, n)
    BY DEF IInv, OpenSound
  <2>3. Len(log) \in Nat /\ sent \in Nat /\ n \in 0 .. sent /\ acked \in Nat
    BY <1>1, RequestTypes DEF IInv, TypeOK
  <2>4. Progress(sent, n, p, slot, result)
    BY <1>6, <2>1, <2>2, <2>3
  <2>5. "FIN" \notin p.flags
    BY <1>3 DEF SegmentSound, Closing
  <2>6. slot'.state # "CLOSED"
    BY <1>4, <2>4, <2>5 DEF Progress
  <2>7. PICK m \in n .. sent : /\ At(slot', m)
                               /\ result.reply = NoReply \/ ReplyUpTo(result.reply, m)
    BY <1>4, <2>4, <2>6 DEF Progress
  <2>8. m \in Len(log) .. sent /\ acked <= m /\ m \in Nat /\ n \in Nat /\ n <= m
    BY <2>2, <2>3
  <2>9. \A r \in Carried(replies') : ReplyUpTo(r, m)
    <3>1. \A r : ReplyUpTo(r, n) => ReplyUpTo(r, m)
      BY <2>8, SoundGrows
    <3> QED BY <1>10, <2>2, <2>7, <3>1
  <2> QED BY <2>6, <2>7, <2>8, <2>9
<1> QED BY <1>11, <1>12, <1>13, <1>14, <1>15, <1>16, <1>17 DEF IInv

\* Losing anything changes nothing.
LEMMA LoseStep ==
    ASSUME IInv,
           \/ \E i \in DOMAIN segments : LoseSegment(i)
           \/ \E i \in DOMAIN replies : LoseReply(i)
    PROVE  IInv'
<1>1. /\ segments \in Seq(Segment) /\ Len(segments) <= InFlight
      /\ replies \in Seq(Reply \ {NoReply}) /\ Len(replies) <= InFlight
      /\ Len(segments) \in Nat /\ Len(replies) \in Nat /\ InFlight \in Nat
  BY SessionAssumption DEF IInv, TypeOK
<1>2. /\ segments' \in Seq(Segment) /\ Len(segments') <= InFlight
      /\ replies' \in Seq(Reply \ {NoReply}) /\ Len(replies') <= InFlight
      /\ Carried(segments') \subseteq Carried(segments)
      /\ Carried(replies') \subseteq Carried(replies)
      /\ UNCHANGED <<fifo, window, slot, peer, sent, acked, expected, log>>
  <2>1. CASE \E i \in DOMAIN segments : LoseSegment(i)
    <3>1. PICK i \in DOMAIN segments : LoseSegment(i)
      BY <2>1
    <3>2. /\ segments' = Without(segments, i)
          /\ UNCHANGED <<replies, fifo, window, slot, peer, sent, acked, expected, log>>
      BY <3>1 DEF LoseSegment, peerVars
    <3>3. /\ segments' \in Seq(Segment) /\ Len(segments') <= Len(segments)
          /\ Carried(segments') \subseteq Carried(segments)
      BY <1>1, <3>2, WithoutType
    <3>4. Len(segments') \in Nat
      BY <3>3
    <3>5. Len(segments') <= InFlight
      BY <1>1, <3>3, <3>4
    <3> QED BY <1>1, <3>2, <3>3, <3>5
  <2>2. CASE \E i \in DOMAIN replies : LoseReply(i)
    <3>1. PICK i \in DOMAIN replies : LoseReply(i)
      BY <2>2
    <3>2. /\ replies' = Without(replies, i)
          /\ UNCHANGED <<segments, fifo, window, slot, peer, sent, acked, expected, log>>
      BY <3>1 DEF LoseReply, peerVars
    <3>3. /\ replies' \in Seq(Reply \ {NoReply}) /\ Len(replies') <= Len(replies)
          /\ Carried(replies') \subseteq Carried(replies)
      BY <1>1, <3>2, WithoutType
    <3>4. Len(replies') \in Nat
      BY <3>3
    <3>5. Len(replies') <= InFlight
      BY <1>1, <3>3, <3>4
    <3> QED BY <1>1, <3>2, <3>3, <3>5
  <2> QED BY <2>1, <2>2
<1>3. TypeOK'
  BY <1>2 DEF IInv, TypeOK
<1>4. AnswersMatch' /\ EngineSound' /\ ClientSound'
  BY <1>2 DEF IInv, AnswersMatch, EngineSound, ClientSound, Closing
<1>5. NetworkSound'
  BY <1>2 DEF IInv, NetworkSound, Closing
<1>6. HandshakeSound'
  BY <1>2 DEF IInv, HandshakeSound
<1>7. OpenSound'
  BY <1>2 DEF IInv, OpenSound
<1> QED BY <1>3, <1>4, <1>5, <1>6, <1>7 DEF IInv

\* The client puts another segment of its session into the network.
LEMMA ClientSends ==
    ASSUME IInv, NEW p \in Segment, NEW channel \in {Append(segments, p), Put(segments, p)},
           channel = Append(segments, p) => Len(segments) < InFlight
    PROVE  /\ channel \in Seq(Segment) /\ Len(channel) <= InFlight
           /\ Carried(channel) \subseteq Carried(segments) \cup {p}
<1>1. /\ segments \in Seq(Segment) /\ Len(segments) <= InFlight
      /\ Len(segments) \in Nat /\ InFlight \in Nat
  BY SessionAssumption DEF IInv, TypeOK
<1>2. CASE channel = Append(segments, p)
  BY <1>1, <1>2, AppendType
<1>3. CASE channel = Put(segments, p)
  BY <1>1, <1>3, PutType
<1> QED BY <1>2, <1>3

LEMMA SendRequestStep == ASSUME IInv, SendRequest PROVE IInv'
<1>1. /\ peer = "open" /\ sent < Total /\ Len(segments) < InFlight /\ sent' = sent + 1
      /\ segments' = Append(segments, Data(sent + 1))
      /\ peer' = IF FinOnLast /\ sent' = Total THEN "fin_sent" ELSE peer
      /\ UNCHANGED <<fifo, window, slot, replies, acked, expected, log>>
  BY DEF SendRequest
<1>2. /\ sent \in 0 .. Total /\ expected \in SeqNumbers /\ acked \in 0 .. sent
      /\ Total \in Nat /\ sent \in Nat
  BY RequestTypes DEF IInv, TypeOK
<1>3. /\ sent' \in 1 .. Total /\ sent' \in 0 .. Total /\ sent' \in 1 .. sent' /\ sent \in Nat
      /\ sent' \in Nat /\ sent <= sent'
  BY <1>1, <1>2
<1>4. peer' \in {"open", "fin_sent"} /\ (FinOnLast /\ sent' = Total => Closing') /\ ~Closing
  BY <1>1 DEF Closing
<1>5. Data(sent + 1) \in Segment /\ SegmentSound(Data(sent + 1), sent', Closing')
  <2> DEFINE k == sent + 1
  <2>1. k = sent' /\ k \in 1 .. sent' /\ (FinOnLast /\ k = Total => Closing')
    BY <1>1, <1>3, <1>4
  <2> HIDE DEF k
  <2>2. Data(k) \in Segment /\ SegmentSound(Data(k), sent', Closing')
    BY <1>2, <1>3, <2>1, DataSound
  <2> QED BY <2>2 DEF k
<1>6. /\ segments' \in Seq(Segment) /\ Len(segments') <= InFlight
      /\ Carried(segments') \subseteq Carried(segments) \cup {Data(sent + 1)}
  BY <1>1, <1>5, ClientSends
<1>7. TypeOK'
  <2>1. acked' \in 0 .. sent'
    BY <1>1, <1>2
  <2> QED BY <1>1, <1>3, <1>4, <1>6, <2>1 DEF IInv, TypeOK
<1>8. AnswersMatch'
  <2>1. Len(log) \in Nat /\ Len(log) <= sent
    BY DEF IInv, TypeOK, AnswersMatch
  <2>2. Len(log') <= sent'
    BY <1>1, <1>3, <2>1
  <2> QED BY <1>1, <2>2 DEF IInv, AnswersMatch
<1>9. EngineSound'
  <2>1. 0 .. sent \subseteq 0 .. sent'
    BY <1>3
  <2> QED BY <1>1, <2>1 DEF IInv, EngineSound
<1>10. NetworkSound'
  <2>1. /\ \A p \in Carried(segments) : SegmentSound(p, sent, Closing)
        /\ \A r \in Carried(replies) : ReplySound(r, sent)
    BY DEF IInv, NetworkSound
  <2>2. /\ \A p : SegmentSound(p, sent, Closing) => SegmentSound(p, sent', Closing')
        /\ \A r : ReplySound(r, sent) => ReplySound(r, sent')
    BY <1>3, <1>4, SoundGrows
  <2> QED BY <1>1, <1>5, <1>6, <2>1, <2>2 DEF NetworkSound
<1>11. ClientSound'
  BY <1>1, <1>4 DEF IInv, ClientSound
<1>12. HandshakeSound'
  BY <1>4 DEF HandshakeSound
<1>13. OpenSound'
  <2>1. Len(log) .. sent \subseteq Len(log) .. sent'
    <3>1. Len(log) \in Nat
      BY DEF IInv, TypeOK
    <3> QED BY <1>3, <3>1
  <2> QED BY <1>1, <2>1 DEF IInv, OpenSound
<1> QED BY <1>7, <1>8, <1>9, <1>10, <1>11, <1>12, <1>13 DEF IInv

LEMMA SendFinStep == ASSUME IInv, SendFin PROVE IInv'
<1>1. /\ peer = "open" /\ peer' = "fin_sent" /\ segments' = Put(segments, Fin)
      /\ UNCHANGED <<fifo, window, slot, replies, sent, acked, expected, log>>
  BY DEF SendFin
<1>2. expected \in SeqNumbers /\ sent \in Nat /\ Closing' = TRUE
  BY <1>1, RequestTypes DEF IInv, TypeOK, Closing
<1>3. Fin \in Segment /\ SegmentSound(Fin, sent, TRUE)
  BY <1>2, FinSound
<1>4. /\ segments' \in Seq(Segment) /\ Len(segments') <= InFlight
      /\ Carried(segments') \subseteq Carried(segments) \cup {Fin}
  <2> DEFINE channel == Put(segments, Fin)
  <2>1. channel \in {Append(segments, Fin), Put(segments, Fin)}
    OBVIOUS
  <2>2. channel = Append(segments, Fin) => Len(segments) < InFlight
    <3>1. segments \in Seq(Segment)
      BY DEF IInv, TypeOK
    <3>2. Len(Append(segments, Fin)) = Len(segments) + 1 /\ Len(segments) \in Nat
      BY <1>3, <3>1
    <3> QED BY <3>2 DEF Put
  <2> HIDE DEF channel
  <2>3. /\ channel \in Seq(Segment) /\ Len(channel) <= InFlight
        /\ Carried(channel) \subseteq Carried(segments) \cup {Fin}
    BY <1>3, <2>1, <2>2, ClientSends
  <2> QED BY <1>1, <2>3 DEF channel
<1>5. TypeOK'
  BY <1>1, <1>4 DEF IInv, TypeOK
<1>6. AnswersMatch' /\ EngineSound' /\ HandshakeSound' /\ OpenSound'
  BY <1>1 DEF IInv, AnswersMatch, EngineSound, HandshakeSound, OpenSound
<1>7. ClientSound'
  BY <1>1, <1>2 DEF IInv, ClientSound
<1>8. NetworkSound'
  <2>1. \A p : SegmentSound(p, sent, Closing) => SegmentSound(p, sent, TRUE)
    BY DEF SegmentSound
  <2> QED BY <1>1, <1>2, <1>3, <1>4, <2>1 DEF IInv, NetworkSound
<1> QED BY <1>5, <1>6, <1>7, <1>8 DEF IInv

LEMMA RetransmitStep == ASSUME IInv, Retransmit PROVE IInv'
<1>1. PICK p \in Unacked : segments' = Append(segments, p)
  BY DEF Retransmit
<1>2. /\ Len(segments) < InFlight
      /\ UNCHANGED <<fifo, window, slot, replies, peer, sent, acked, expected, log>>
  BY DEF Retransmit, peerVars
<1>3. /\ p \in Segment /\ SegmentSound(p, sent, Closing)
      /\ peer = "syn_sent" => p.flags = {"SYN"}
  BY UnackedSound DEF IInv
<1>4. /\ segments' \in Seq(Segment) /\ Len(segments') <= InFlight
      /\ Carried(segments') \subseteq Carried(segments) \cup {p}
  BY <1>1, <1>2, <1>3, ClientSends
<1>5. TypeOK'
  BY <1>2, <1>4 DEF IInv, TypeOK
<1>6. AnswersMatch' /\ EngineSound' /\ ClientSound' /\ OpenSound'
  BY <1>2 DEF IInv, AnswersMatch, EngineSound, ClientSound, Closing, OpenSound
<1>7. NetworkSound'
  BY <1>2, <1>3, <1>4 DEF IInv, NetworkSound, Closing
<1>8. HandshakeSound'
  BY <1>2, <1>3, <1>4 DEF IInv, HandshakeSound
<1> QED BY <1>5, <1>6, <1>7, <1>8 DEF IInv

\* An acknowledgement covers requests the client has sent, ...
LEMMA NowAckedType ==
    ASSUME sent \in 0 .. Total, acked \in 0 .. sent, NEW ack
    PROVE  NowAcked(ack) \in acked .. sent
<1>1. acked \in Nat /\ sent \in Nat /\ Total \in Nat
  BY RequestTypes
<1>2. Covered(ack) \subseteq acked + 1 .. sent
  BY DEF Covered
<1>3. CASE Covered(ack) = {}
  BY <1>1, <1>3 DEF NowAcked
<1>4. CASE Covered(ack) # {}
  <2>1. NowAcked(ack) \in Covered(ack)
    BY <1>4 DEF NowAcked
  <2> QED BY <1>1, <1>2, <2>1
<1> QED BY <1>3, <1>4

\* ... and until it closes none the engine has not served.
LEMMA NowAckedServed ==
    ASSUME ShortSession, sent \in 0 .. Total, acked \in 0 .. sent, peer # "fin_sent",
           NEW n \in acked .. sent, NEW k \in 0 .. n
    PROVE  NowAcked(RequestEnd[k]) \in acked .. n
<1>1. acked \in Nat /\ sent \in Nat /\ Total \in Nat /\ n \in Nat
  BY RequestTypes
<1> DEFINE C == Covered(RequestEnd[k])
<1>2. ASSUME NEW m \in C PROVE m = k /\ m \in acked + 1 .. sent
  <2>1. m \in acked + 1 .. sent /\ RequestEnd[k] = RequestEnd[m]
    BY DEF Covered, FinAcked
  <2>2. m \in 0 .. Total /\ k \in 0 .. Total
    BY <1>1, <2>1
  <2> QED BY <2>1, <2>2 DEF ShortSession
<1> HIDE DEF C
<1>3. NowAcked(RequestEnd[k]) = IF C = {} THEN acked ELSE CHOOSE m \in C : TRUE
  BY DEF NowAcked, C
<1>4. CASE C = {}
  BY <1>1, <1>3, <1>4
<1>5. CASE C # {}
  <2>1. NowAcked(RequestEnd[k]) \in C
    BY <1>3, <1>5
  <2> QED BY <1>1, <1>2, <2>1
<1> QED BY <1>4, <1>5

\* The three ways a reply moves the client.
LEMMA ReceiveMoves ==
    ASSUME ShortSession, IInv, NEW i \in DOMAIN replies, Receive(i),
           NEW r, r = replies[i]
    PROVE  /\ peer' \in {peer, "open", "closed"}
           /\ peer' = "open" => peer \in {"syn_sent", "open"}
           /\ peer' = "syn_sent" => peer = "syn_sent" /\ r.kind # "SYN_ACK"
           /\ \/ /\ peer = "syn_sent" /\ r.kind = "SYN_ACK"
                 /\ expected' = ResponseEnd[0] /\ log' = log
              \/ /\ peer # "syn_sent" /\ r.kind = "DATA" /\ Len(log) + 1 \in 1 .. sent
                 /\ r.seq = ResponseEnd[Len(log)]
                 /\ expected' = ResponseEnd[Len(log) + 1]
                 /\ log' = Append(log, Requests[Len(log) + 1].request)
              \/ expected' = expected /\ log' = log /\ ~(peer = "syn_sent" /\ r.kind = "SYN_ACK")
<1>1. /\ peer \in {"syn_sent", "open", "fin_sent", "closed"} /\ sent \in 0 .. Total
      /\ log \in Seq(Responses) /\ Len(log) \in Nat /\ Len(log) <= sent
      /\ Total \in Nat /\ sent \in Nat
  BY RequestTypes DEF IInv, TypeOK, AnswersMatch
<1>2. ReplySound(r, sent)
  BY DEF IInv, NetworkSound, Carried
<1>3. peer' = CASE peer = "syn_sent" /\ r.kind = "SYN_ACK" -> "open"
                [] FinAcked(r.ack) -> "closed"
                [] OTHER -> peer
  BY DEF Receive
<1>4. expected' = CASE InOrder(r) /\ r.kind = "SYN_ACK" -> Add(r.seq, 1)
                    [] InOrder(r) /\ r.kind = "DATA" -> Add(r.seq, ResponseLength[r.id])
                    [] OTHER -> expected
  BY DEF Receive
<1>5. log' = IF InOrder(r) /\ r.kind = "DATA" THEN Append(log, r.id) ELSE log
  BY DEF Receive
<1>6. FinAcked(r.ack) => peer = "fin_sent"
  BY DEF FinAcked
<1>7. /\ peer' \in {peer, "open", "closed"}
      /\ peer' = "open" => peer \in {"syn_sent", "open"}
      /\ peer' = "syn_sent" => peer = "syn_sent" /\ r.kind # "SYN_ACK"
  BY <1>1, <1>3, <1>6
<1>8. CASE peer = "syn_sent" /\ r.kind = "SYN_ACK"
  <2>1. InOrder(r) /\ r.seq = Isn
    BY <1>2, <1>8 DEF InOrder, ReplySound
  <2>2. expected' = ResponseEnd[0]
    BY <1>4, <1>8, <2>1, ResponseEnds
  <2>3. log' = log
    BY <1>5, <1>8
  <2> QED BY <1>7, <1>8, <2>2, <2>3
<1>9. CASE peer # "syn_sent" /\ r.kind = "DATA" /\ r.seq = expected
  <2>1. InOrder(r)
    BY <1>9 DEF InOrder
  <2>2. PICK k \in 1 .. sent : r.id = Requests[k].request /\ r.seq = ResponseEnd[k - 1]
    BY <1>2, <1>9 DEF ReplySound
  <2>3. expected = ResponseEnd[Len(log)]
    BY <1>9 DEF IInv, ClientSound
  <2>4. k - 1 \in 0 .. Total /\ Len(log) \in 0 .. Total /\ k \in 1 .. Total
    BY <1>1
  <2>5. ResponseEnd[k - 1] = ResponseEnd[Len(log)]
    BY <1>9, <2>2, <2>3
  <2>6. k - 1 = Len(log)
    BY <2>4, <2>5 DEF ShortSession
  <2>7. k = Len(log) + 1
    BY <2>4, <2>6
  <2>8. expected' = Add(r.seq, ResponseLength[r.id])
    BY <1>4, <1>9, <2>1
  <2>9. expected' = ResponseEnd[k]
    BY <2>2, <2>4, <2>8, ResponseEnds
  <2>10. log' = Append(log, r.id)
    BY <1>5, <1>9, <2>1
  <2> QED BY <1>7, <1>9, <2>2, <2>3, <2>7, <2>9, <2>10
<1>10. CASE /\ ~(peer = "syn_sent" /\ r.kind = "SYN_ACK")
            /\ ~(peer # "syn_sent" /\ r.kind = "DATA" /\ r.seq = expected)
  <2>1. ~InOrder(r)
    BY <1>10 DEF InOrder
  <2>2. expected' = expected /\ log' = log
    BY <1>4, <1>5, <2>1
  <2> QED BY <1>7, <1>10, <2>2
<1> QED BY <1>8, <1>9, <1>10

LEMMA ReceiveStep ==
    ASSUME ShortSession, IInv, NEW i \in DOMAIN replies, Receive(i)
    PROVE  IInv'
<1> DEFINE K == Control({"ACK"}, NextSeq, expected')
<1>0. PICK r : r = replies[i]
  OBVIOUS
<1>1. /\ peer \in {"syn_sent", "open", "fin_sent", "closed"}
      /\ sent \in 0 .. Total /\ acked \in 0 .. sent /\ expected \in SeqNumbers
      /\ segments \in Seq(Segment) /\ Len(segments) <= InFlight
      /\ replies \in Seq(Reply \ {NoReply}) /\ Len(replies) <= InFlight
      /\ log \in Seq(Responses) /\ Len(log) \in Nat /\ Len(log) <= sent
      /\ Total \in Nat /\ sent \in Nat
  BY RequestTypes DEF IInv, TypeOK, AnswersMatch
<1>2. /\ replies' = Without(replies, i)
      /\ acked' = NowAcked(r.ack)
      /\ segments' = IF r.kind = "ACK" THEN segments ELSE Put(segments, K)
      /\ UNCHANGED <<fifo, window, slot, sent>>
  BY <1>0 DEF Receive
<1>3. r \in Carried(replies) /\ r \in Reply \ {NoReply}
  BY <1>0, <1>1 DEF Carried
<1>4. /\ peer' \in {peer, "open", "closed"}
      /\ peer' = "open" => peer \in {"syn_sent", "open"}
      /\ peer' = "syn_sent" => peer = "syn_sent" /\ r.kind # "SYN_ACK"
  BY <1>0, ReceiveMoves
<1>5. \/ /\ peer = "syn_sent" /\ r.kind = "SYN_ACK"
         /\ expected' = ResponseEnd[0] /\ log' = log
      \/ /\ peer # "syn_sent" /\ r.kind = "DATA" /\ Len(log) + 1 \in 1 .. sent
         /\ r.seq = ResponseEnd[Len(log)]
         /\ expected' = ResponseEnd[Len(log) + 1]
         /\ log' = Append(log, Requests[Len(log) + 1].request)
      \/ expected' = expected /\ log' = log /\ ~(peer = "syn_sent" /\ r.kind = "SYN_ACK")
  BY <1>0, ReceiveMoves
<1>6. acked' \in acked .. sent /\ acked' \in 0 .. sent'
  <2>1. acked' \in acked .. sent
    BY <1>1, <1>2, NowAckedType
  <2> QED BY <1>1, <1>2, <2>1
<1>7. /\ expected' \in SeqNumbers /\ log' \in Seq(Responses)
      /\ Len(log') <= sent /\ \A n \in DOMAIN log' : log'[n] = Requests[n].request
  <2>1. Len(log) <= sent /\ \A n \in DOMAIN log : log[n] = Requests[n].request
    BY DEF IInv, AnswersMatch
  <2>2. CASE log' = log
    <3>1. 0 \in 0 .. Total /\ (Len(log) + 1 \in 1 .. sent => Len(log) + 1 \in 0 .. Total)
      BY <1>1
    <3>2. expected' \in SeqNumbers
      BY <1>1, <1>5, <3>1, ResponseEnds
    <3> QED BY <1>1, <2>1, <2>2, <3>2
  <2>3. CASE log' # log
    <3> DEFINE n == Len(log) + 1
    <3>1. n \in 1 .. sent /\ expected' = ResponseEnd[n] /\ log' = Append(log, Requests[n].request)
      BY <1>5, <2>3
    <3>2. n \in 1 .. Total /\ n \in 0 .. Total
      BY <1>1, <3>1
    <3>3. Requests[n].request \in Responses /\ expected' \in SeqNumbers
      BY <3>1, <3>2, RequestTypes, ResponseEnds
    <3>4. /\ log' \in Seq(Responses) /\ Len(log') = n /\ log'[n] = Requests[n].request
          /\ \A m \in 1 .. Len(log) : log'[m] = log[m]
      BY <1>1, <3>1, <3>3
    <3>5. ASSUME NEW m \in DOMAIN log' PROVE log'[m] = Requests[m].request
      <4>1. m \in 1 .. n
        BY <3>4
      <4>2. CASE m = n
        BY <3>4, <4>2
      <4>3. CASE m # n
        <5>1. m \in 1 .. Len(log) /\ m \in DOMAIN log
          BY <1>1, <4>1, <4>3
        <5> QED BY <2>1, <3>4, <5>1
      <4> QED BY <4>2, <4>3
    <3>6. Len(log') <= sent
      BY <1>1, <3>1, <3>4
    <3> QED BY <3>3, <3>4, <3>5, <3>6
  <2> QED BY <2>2, <2>3
<1>8. K \in Segment /\ \A c : SegmentSound(K, sent, c)
  <2>1. sent \in 0 .. Total /\ RequestEnd[sent] \in SeqNumbers /\ RequestEnd[sent] \in Nat
    BY <1>1, RequestEnds, ConstantTypes
  <2>2. NextSeq \in SeqNumbers
    BY <2>1, AddType DEF NextSeq
  <2> DEFINE flags == {"ACK"}
  <2>3. flags \in ClientFlags
    BY DEF ClientFlags
  <2> HIDE DEF flags
  <2>4. /\ Control(flags, NextSeq, expected') \in Segment
        /\ Control(flags, NextSeq, expected').flags = flags
        /\ Control(flags, NextSeq, expected').len = 0
    <3>1. expected' \in SeqNumbers
      BY <1>7
    <3> QED BY <2>2, <2>3, <3>1, ControlSegment
  <2>5. K = Control(flags, NextSeq, expected') /\ flags = {"ACK"}
    BY DEF flags
  <2>6. K \in Segment /\ K.flags = {"ACK"} /\ K.len = 0
    <3> HIDE DEF K
    <3> QED BY <2>4, <2>5
  <2> HIDE DEF K
  <2> QED BY <2>6 DEF SegmentSound
<1> HIDE DEF K
<1>9. /\ segments' \in Seq(Segment) /\ Len(segments') <= InFlight
      /\ Carried(segments') \subseteq Carried(segments) \cup {K}
      /\ r.kind = "ACK" => segments' = segments
  <2>1. CASE r.kind = "ACK"
    BY <1>1, <1>2, <2>1
  <2>2. CASE r.kind # "ACK"
    <3>1. /\ Put(segments, K) \in Seq(Segment) /\ Len(Put(segments, K)) <= InFlight
          /\ Carried(Put(segments, K)) \subseteq Carried(segments) \cup {K}
      BY <1>1, <1>8, PutType
    <3> QED BY <1>2, <2>2, <3>1
  <2> QED BY <2>1, <2>2
<1>10. /\ replies' \in Seq(Reply \ {NoReply}) /\ Len(replies') <= InFlight
       /\ Carried(replies') \subseteq Carried(replies)
  <2>1. /\ replies' \in Seq(Reply \ {NoReply}) /\ Len(replies') <= Len(replies)
        /\ Carried(replies') \subseteq Carried(replies)
    BY <1>1, <1>2, WithoutType
  <2>2. Len(replies') \in Nat /\ Len(replies) \in Nat /\ InFlight \in Nat
    BY <1>1, <2>1, SessionAssumption
  <2> QED BY <1>1, <2>1, <2>2
<1>11. TypeOK'
  BY <1>1, <1>2, <1>4, <1>6, <1>7, <1>9, <1>10 DEF IInv, TypeOK
<1>12. AnswersMatch'
  BY <1>2, <1>7 DEF AnswersMatch
<1>13. EngineSound'
  BY <1>2 DEF IInv, EngineSound
<1>14. Closing => Closing'
  BY <1>4 DEF Closing
<1>15. NetworkSound'
  <2>1. /\ \A p \in Carried(segments) : SegmentSound(p, sent, Closing)
        /\ \A q \in Carried(replies) : ReplySound(q, sent)
    BY DEF IInv, NetworkSound
  <2>2. \A p : SegmentSound(p, sent, Closing) => SegmentSound(p, sent, Closing')
    BY <1>14 DEF SegmentSound
  <2> QED BY <1>2, <1>8, <1>9, <1>10, <2>1, <2>2 DEF NetworkSound
<1>16. ClientSound'
  <2>1. FinOnLast /\ sent = Total => Closing'
    BY <1>14 DEF IInv, ClientSound
  <2>2. CASE peer' = "syn_sent"
    <3>1. sent = 0 /\ acked = 0 /\ log = <<>> /\ peer = "syn_sent" /\ r.kind # "SYN_ACK"
      BY <1>4, <2>2 DEF IInv, ClientSound
    <3>2. acked' = 0
      BY <1>6, <3>1
    <3> QED BY <1>2, <1>5, <2>1, <2>2, <3>1, <3>2 DEF ClientSound
  <2>3. CASE peer' # "syn_sent"
    <3>1. expected' = ResponseEnd[Len(log')]
      <4>1. CASE peer = "syn_sent" /\ r.kind = "SYN_ACK"
        <5>1. log = <<>>
          BY <4>1 DEF IInv, ClientSound
        <5> QED BY <1>5, <4>1, <5>1
      <4>2. CASE log' = Append(log, Requests[Len(log) + 1].request) /\ expected' = ResponseEnd[Len(log) + 1]
        <5>1. Len(log') = Len(log) + 1
          BY <1>1, <4>2
        <5> QED BY <4>2, <5>1
      <4>3. CASE expected' = expected /\ log' = log /\ ~(peer = "syn_sent" /\ r.kind = "SYN_ACK")
        <5>1. peer # "syn_sent"
          <6>1. peer = "syn_sent" => peer' = "syn_sent"
            BY <1>0, <4>3 DEF Receive, FinAcked
          <6> QED BY <2>3, <6>1
        <5> QED BY <4>3, <5>1 DEF IInv, ClientSound
      <4> QED BY <1>5, <4>1, <4>2, <4>3
    <3> QED BY <1>2, <2>1, <2>3, <3>1 DEF ClientSound
  <2> QED BY <2>2, <2>3
<1>17. HandshakeSound'
  <2> SUFFICES ASSUME peer' = "syn_sent" PROVE HandshakeSound'
    BY DEF HandshakeSound
  <2>1. peer = "syn_sent" /\ r.kind # "SYN_ACK"
    BY <1>4
  <2>2. /\ slot.state # "ESTABLISHED"
        /\ \A p \in Carried(segments) : p.flags = {"SYN"}
        /\ \A q \in Carried(replies) : slot.state # "CLOSED" /\ ReplyUpTo(q, 0)
    BY <2>1 DEF IInv, HandshakeSound
  <2>3. r.kind # "DATA"
    BY <1>3, <2>2 DEF ReplyUpTo
  <2>4. r.kind = "ACK"
    BY <1>3, <2>1, <2>3 DEF Reply
  <2> QED BY <1>2, <1>9, <1>10, <2>2, <2>4 DEF HandshakeSound
<1>18. OpenSound'
  <2> SUFFICES ASSUME peer' = "open"
               PROVE  /\ slot.state # "CLOSED"
                      /\ \E n \in Len(log') .. sent :
                            /\ acked' <= n /\ At(slot, n)
                            /\ \A q \in Carried(replies') : ReplyUpTo(q, n)
    BY <1>2 DEF OpenSound
  <2>1. \E n \in Len(log) .. sent :
            /\ slot.state # "CLOSED" /\ acked <= n /\ At(slot, n)
            /\ \A q \in Carried(replies) : ReplyUpTo(q, n)
    <3>1. CASE peer = "open"
      BY <3>1 DEF IInv, OpenSound
    <3>2. CASE peer = "syn_sent"
      <4>1. sent = 0 /\ acked = 0 /\ log = <<>>
        BY <3>2 DEF IInv, ClientSound
      <4>2. slot.state # "CLOSED" /\ \A q \in Carried(replies) : ReplyUpTo(q, 0)
        BY <1>3, <3>2 DEF IInv, HandshakeSound
      <4>3. PICK n \in 0 .. sent : At(slot, n)
        BY <4>2 DEF IInv, EngineSound
      <4>4. n = 0 /\ 0 \in Len(log) .. sent
        BY <4>1
      <4> QED BY <4>1, <4>2, <4>3, <4>4
    <3> QED BY <1>4, <3>1, <3>2
  <2>2. PICK n \in Len(log) .. sent :
            /\ slot.state # "CLOSED" /\ acked <= n /\ At(slot, n)
            /\ \A q \in Carried(replies) : ReplyUpTo(q, n)
    BY <2>1
  <2>3. ReplyUpTo(r, n) /\ n \in Nat /\ n \in acked .. sent /\ n \in 0 .. Total
    BY <1>1, <1>3, <2>2
  <2>4. acked' <= n
    <3>1. PICK k \in 0 .. n : r.ack = RequestEnd[k]
      BY <2>3 DEF ReplyUpTo
    <3>2. peer # "fin_sent"
      BY <1>4
    <3>3. NowAcked(RequestEnd[k]) \in acked .. n
      BY <1>1, <2>3, <3>1, <3>2, NowAckedServed
    <3> QED BY <1>1, <1>2, <2>3, <3>1, <3>3
  <2>5. n \in Len(log') .. sent
    <3>1. CASE log' = log
      BY <2>2, <3>1
    <3>2. CASE log' # log
      <4>1. /\ r.kind = "DATA" /\ r.seq = ResponseEnd[Len(log)] /\ Len(log) + 1 \in 1 .. sent
            /\ log' = Append(log, Requests[Len(log) + 1].request)
        BY <1>5, <3>2
      <4>2. PICK k \in 1 .. n : r.seq = ResponseEnd[k - 1]
        BY <2>3, <4>1 DEF ReplyUpTo
      <4>3. k - 1 \in 0 .. Total /\ Len(log) \in 0 .. Total /\ ResponseEnd[k - 1] = ResponseEnd[Len(log)]
        BY <1>1, <2>3, <4>1, <4>2
      <4>4. k - 1 = Len(log)
        BY <4>3 DEF ShortSession
      <4>5. Len(log') = Len(log) + 1
        BY <1>1, <4>1
      <4> QED BY <1>1, <2>2, <2>3, <4>2, <4>4, <4>5
    <3> QED BY <3>1, <3>2
  <2> QED BY <1>10, <2>2, <2>4, <2>5
<1> QED BY <1>11, <1>12, <1>13, <1>15, <1>16, <1>17, <1>18 DEF IInv

-----------------------------------------------------------------------------
LEMMA InitSound == Init => IInv
<1> SUFFICES ASSUME Init PROVE IInv
  OBVIOUS
<1>1. /\ fifo \in BOOLEAN /\ window \in 1 .. Total /\ slot = ClosedSlot
      /\ segments = <<Syn>> /\ replies = <<>>
      /\ peer = "syn_sent" /\ sent = 0 /\ acked = 0 /\ expected = 0 /\ log = <<>>
  BY DEF Init
<1>2. Total \in Nat /\ 0 # Total /\ 0 \in 0 .. Total /\ 0 \in 0 .. 0
  BY <1>1, RequestTypes
<1>3. InFlight \in Nat /\ 1 <= InFlight
  BY SessionAssumption
<1>4. /\ segments \in Seq(Segment) /\ Len(segments) = 1 /\ Carried(segments) = {Syn}
  BY <1>1, SynSound DEF Carried
<1>5. replies \in Seq(Reply \ {NoReply}) /\ Len(replies) = 0 /\ Carried(replies) = {}
  BY <1>1 DEF Carried
<1>6. TypeOK
  BY <1>1, <1>2, <1>3, <1>4, <1>5, ClosedSlotType, ConstantTypes DEF TypeOK
<1>7. AnswersMatch /\ EngineSound /\ ClientSound /\ OpenSound
  BY <1>1, <1>2, ClosedSlotType DEF AnswersMatch, EngineSound, ClientSound, OpenSound
<1>8. NetworkSound
  BY <1>4, <1>5, SynSound DEF NetworkSound
<1>9. HandshakeSound
  BY <1>1, <1>4, <1>5, SynSound, ClosedSlotType DEF HandshakeSound
<1> QED BY <1>6, <1>7, <1>8, <1>9 DEF IInv

\* The invariant holds in every state of every session shorter than the
\* sequence space, whatever the network does.
THEOREM SessionInvariance == ASSUME ShortSession PROVE Spec => []IInv
<1>1. ASSUME IInv, Next PROVE IInv'
  <2>1. CASE Engine
    BY <1>1, <2>1, ServeStep DEF Engine, Exits
  <2>2. CASE Client
    BY <1>1, <2>2, SendRequestStep, SendFinStep, RetransmitStep DEF Client
  <2>3. CASE Deliver
    BY <1>1, <2>3, ReceiveStep DEF Deliver, Exits
  <2>4. CASE Lose
    BY <1>1, <2>4, LoseStep DEF Lose, Exits
  <2>5. CASE Done
    BY <1>1, <2>5 DEF Done, vars, peerVars, IInv, TypeOK, AnswersMatch, EngineSound,
                      NetworkSound, ClientSound, HandshakeSound, OpenSound, Closing
  <2> QED BY <1>1, <2>1, <2>2, <2>3, <2>4, <2>5 DEF Next
<1>2. ASSUME IInv, UNCHANGED vars PROVE IInv'
  BY <1>2 DEF vars, peerVars, IInv, TypeOK, AnswersMatch, EngineSound,
              NetworkSound, ClientSound, HandshakeSound, OpenSound, Closing
<1>3. IInv /\ [Next]_vars => IInv'
  BY <1>1, <1>2
<1> QED BY <1>3, InitSound, PTL DEF Spec

\* No answer is taken for another request's, whatever was lost, repeated or
\* overtaken on the way, and whether or not the flow was opened anew since.
THEOREM AnswersAreTheirOwn == ASSUME ShortSession PROVE Spec => []AnswersMatch
<1>1. IInv => AnswersMatch
  BY DEF IInv
<1> QED BY <1>1, SessionInvariance, PTL

\* Until the client closes, the engine has served each request once, at least
\* those the client has answers or acknowledgements for.
THEOREM EndsInStep == ASSUME ShortSession PROVE Spec => []InStep
<1>1. IInv => InStep
  <2> SUFFICES ASSUME IInv, peer = "open" PROVE InStep
    BY DEF InStep
  <2>1. PICK n \in Len(log) .. sent : acked <= n /\ At(slot, n)
    BY DEF IInv, OpenSound
  <2>2. slot.state \in {"SYN_RECEIVED", "ESTABLISHED"}
    BY DEF IInv, OpenSound, TypeOK, Slot
  <2>3. slot.state = "ESTABLISHED" \/ n = 0
    BY <2>1, <2>2 DEF At
  <2> QED BY <2>1, <2>3 DEF At, InStep
<1> QED BY <1>1, SessionInvariance, PTL

-----------------------------------------------------------------------------
(***************************************************************************)
(* The two engines side by side.                                           *)
(***************************************************************************)

CommonGround == SynRst = FALSE /\ NewIsn = FALSE

\* A slot that has been released or never used is cleared before its next use.
ClosedIsClear == gpu_slot.state = "CLOSED" => gpu_slot = ClosedSlot

EInv == gpu_slot \in Slot /\ ClosedIsClear /\ SameFlow /\ SameReplies

-----------------------------------------------------------------------------
\* A sum of sequence numbers wraps at most once.
LEMMA AddMoves ==
    ASSUME NEW a \in SeqNumbers, NEW b \in SeqNumbers
    PROVE  /\ Add(a, 0) = a
           /\ b > 0 => Add(a, b) # a
<1>1. SeqSpace \in Nat /\ SeqSpace > 0
  BY SegmentAssumption
<1>2. a \in Nat /\ b \in Nat /\ a < SeqSpace /\ b < SeqSpace
  BY <1>1 DEF SeqNumbers
<1>3. Add(a, 0) = a
  BY <1>1, <1>2 DEF Add
<1>4. CASE a + b < SeqSpace
  <2>1. Add(a, b) = a + b
    BY <1>1, <1>2, <1>4 DEF Add
  <2> QED BY <1>2, <1>3, <2>1
<1>5. CASE a + b >= SeqSpace
  <2>1. Add(a, b) = a + b - SeqSpace
    BY <1>1, <1>2, <1>5 DEF Add
  <2> QED BY <1>1, <1>2, <1>3, <2>1
<1> QED BY <1>1, <1>2, <1>4, <1>5

\* The CPU skips the acknowledgement that would change nothing.
LEMMA AckedAgrees ==
    ASSUME NEW s \in Slot, NEW p \in Segment
    PROVE  /\ GpuAcked(s, p) \in Slot
           /\ GpuAcked(s, p).state = s.state
           /\ CpuAcked(FlowOf(s), p) = FlowOf(GpuAcked(s, p))
  BY DEF GpuAcked, CpuAcked, FlowOf, Slot, Segment

\* The result of the shader is the CPU's, as the flow its slot stands for.
Agrees(gpu, cpu) ==
    /\ gpu.slot \in Slot
    /\ gpu.slot.state = "CLOSED" => gpu.slot = ClosedSlot
    /\ cpu.flow = FlowOf(gpu.slot)
    /\ cpu.reply = gpu.reply

LEMMA RemovedAgrees ==
    ASSUME NEW reply PROVE Agrees(GpuResult(ClosedSlot, reply), CpuResult(Removed, reply))
<1>1. FlowOf(ClosedSlot) = Removed
  BY DEF FlowOf, ClosedSlot, Removed
<1> QED BY <1>1, ClosedSlotType DEF Agrees, GpuResult, CpuResult

LEMMA KeptAgrees ==
    ASSUME NEW s \in Slot, s.state # "CLOSED", NEW reply
    PROVE  Agrees(GpuResult(s, reply), CpuResult(FlowOf(s), reply))
  BY DEF Agrees, GpuResult, CpuResult

\* The next request of the stream is answered alike.
LEMMA RequestAgrees ==
    ASSUME NEW s \in Slot, s.state # "CLOSED", NEW p \in Segment
    PROVE  Agrees(GpuRequest(s, p), CpuRequest(FlowOf(s), p))
<1> DEFINE fin_advance == IF "FIN" \in p.flags THEN 1 ELSE 0
           next_ack == Add(Add(p.seq, p.len), fin_advance)
           new_send == Add(s.send_next, ResponseLength[p.request])
<1>1. /\ p.seq \in SeqNumbers /\ p.len \in SeqNumbers /\ p.request \in Responses
      /\ s.send_next \in SeqNumbers
      /\ ResponseLength[p.request] \in SeqNumbers /\ ResponseLength[p.request] # 0
  <2>1. p.seq \in SeqNumbers /\ p.len \in Lens /\ p.request \in Responses
    BY DEF Segment
  <2>2. s.send_next \in SeqNumbers
    BY DEF Slot
  <2>3. ResponseLength[p.request] \in SeqNumbers /\ ResponseLength[p.request] > 0
    BY <2>1, ConstantTypes
  <2>4. ResponseLength[p.request] # 0
    BY <2>3
  <2> QED BY <2>1, <2>2, <2>3, <2>4, ConstantTypes
<1>2. Add(p.seq, p.len) \in SeqNumbers
  BY <1>1, ConstantTypes, AddType
<1>3. next_ack \in SeqNumbers
  <2>1. fin_advance \in Nat /\ Add(p.seq, p.len) \in Nat
    BY <1>2, ConstantTypes
  <2> QED BY <2>1, AddType
<1>4. new_send \in SeqNumbers
  BY <1>1, ConstantTypes, AddType
<1>5. FlowOf(s).send_next = s.send_next
  BY DEF FlowOf
<1>6. CASE "FIN" \in p.flags
  <2>1. GpuRequest(s, p) = GpuResult(ClosedSlot, Response(p.request, s.send_next, next_ack))
    BY <1>6 DEF GpuRequest
  <2>2. CpuRequest(FlowOf(s), p) = CpuResult(Removed, Response(p.request, s.send_next, next_ack))
    BY <1>5, <1>6 DEF CpuRequest
  <2> QED BY <2>1, <2>2, RemovedAgrees
<1>7. CASE "FIN" \notin p.flags
  <2> DEFINE t == [s EXCEPT
            !.recv_next = next_ack,
            !.send_next = new_send,
            !.last_client_seq = p.seq,
            !.last_client_len = p.len,
            !.last_response_seq = s.send_next,
            !.last_response_ack = next_ack,
            !.last_response_id = p.request,
            !.last_response_len = ResponseLength[p.request]]
             u == [FlowOf(s) EXCEPT
            !.recv_next = next_ack,
            !.send_next = new_send,
            !.last = [none |-> FALSE, client_seq |-> p.seq, client_len |-> p.len,
                      response_seq |-> s.send_next, response_ack |-> next_ack,
                      response_id |-> p.request]]
  <2>1. GpuRequest(s, p) = GpuResult(t, Response(p.request, s.send_next, next_ack))
    BY <1>7 DEF GpuRequest
  <2>2. CpuRequest(FlowOf(s), p) = CpuResult(u, Response(p.request, s.send_next, next_ack))
    BY <1>5, <1>7 DEF CpuRequest
  <2> HIDE DEF next_ack, new_send
  <2>3. t \in Slot /\ t.state = s.state
    BY <1>1, <1>3, <1>4 DEF Slot
  <2>4. u = FlowOf(t)
    <3> DEFINE v == [state |-> s.state, recv_next |-> next_ack, send_next |-> new_send,
                     send_unacked |-> s.send_unacked,
                     last |-> [none |-> FALSE, client_seq |-> p.seq, client_len |-> p.len,
                               response_seq |-> s.send_next, response_ack |-> next_ack,
                               response_id |-> p.request]]
    <3>1. u = v
      <4> DEFINE Free == [state : {s.state}, recv_next : SeqNumbers, send_next : SeqNumbers,
                          send_unacked : {s.send_unacked}, last : {FlowOf(s).last, v.last}]
      <4>1. s.recv_next \in SeqNumbers /\ s.send_next \in SeqNumbers
        BY DEF Slot
      <4>2. FlowOf(s) \in Free
        BY <4>1 DEF FlowOf
      <4>3. v \in Free
        BY <1>3, <1>4
      <4>4. u \in Free
        BY <4>2, <1>3, <1>4
      <4>5. /\ u.state = v.state /\ u.recv_next = v.recv_next /\ u.send_next = v.send_next
            /\ u.send_unacked = v.send_unacked /\ u.last = v.last
        BY <4>2
      <4> HIDE DEF u, v
      <4> QED BY <4>3, <4>4, <4>5
    <3>2. /\ t.state = s.state /\ t.recv_next = next_ack /\ t.send_next = new_send
          /\ t.send_unacked = s.send_unacked /\ t.last_client_seq = p.seq
          /\ t.last_client_len = p.len /\ t.last_response_seq = s.send_next
          /\ t.last_response_ack = next_ack /\ t.last_response_id = p.request
          /\ t.last_response_len = ResponseLength[p.request]
      BY DEF Slot
    <3> HIDE DEF t
    <3>3. FlowOf(t) = v
      BY <3>2, <1>1 DEF FlowOf
    <3> QED BY <3>1, <3>3
  <2> HIDE DEF t, u
  <2> QED BY <2>1, <2>2, <2>3, <2>4, KeptAgrees
<1> QED BY <1>6, <1>7

\* A segment of an established flow.
LEMMA DataAgrees ==
    ASSUME NEW s \in Slot, s.state # "CLOSED", NEW p \in Segment
    PROVE  Agrees(GpuData(s, p), CpuData(FlowOf(s), p))
<1>1. /\ FlowOf(s).send_next = s.send_next /\ FlowOf(s).recv_next = s.recv_next
      /\ FlowOf(s).last.none <=> s.last_response_len = 0
  BY DEF FlowOf, NoLast
<1>2. s.last_response_len \in Nat /\ p.len \in Nat
  BY ConstantTypes DEF Slot, Segment
<1>3. CASE p.seq # s.recv_next
  <2> DEFINE again == /\ p.seq = s.last_client_seq /\ p.len = s.last_client_len
                      /\ s.last_response_len > 0
  <2>1. CASE again
    <3> DEFINE reply == Response(s.last_response_id, s.last_response_seq, s.last_response_ack)
    <3>1. GpuData(s, p) = GpuResult(s, reply)
      BY <1>3, <2>1 DEF GpuData, GpuOutOfOrder
    <3>2. FlowOf(s).last = [none |-> FALSE, client_seq |-> s.last_client_seq,
                            client_len |-> s.last_client_len,
                            response_seq |-> s.last_response_seq,
                            response_ack |-> s.last_response_ack,
                            response_id |-> s.last_response_id]
      BY <1>2, <2>1 DEF FlowOf
    <3>3. CpuData(FlowOf(s), p) = CpuResult(FlowOf(s), reply)
      BY <1>1, <1>3, <2>1, <3>2 DEF CpuData
    <3> QED BY <3>1, <3>3, KeptAgrees
  <2>2. CASE ~again
    <3> DEFINE reply == Ack(s.send_next, s.recv_next)
    <3>1. GpuData(s, p) = GpuResult(s, reply)
      BY <1>3, <2>2 DEF GpuData, GpuOutOfOrder
    <3>2. ~(/\ ~FlowOf(s).last.none /\ p.seq = FlowOf(s).last.client_seq
            /\ p.len = FlowOf(s).last.client_len)
      BY <1>1, <1>2, <2>2 DEF FlowOf
    <3>3. CpuData(FlowOf(s), p) = CpuResult(FlowOf(s), reply)
      BY <1>1, <1>3, <3>2 DEF CpuData
    <3> QED BY <3>1, <3>3, KeptAgrees
  <2> QED BY <2>1, <2>2
<1>4. CASE p.seq = s.recv_next /\ p.len # 0
  <2>1. GpuData(s, p) = GpuRequest(s, p)
    BY <1>2, <1>4 DEF GpuData
  <2>2. CpuData(FlowOf(s), p) = CpuRequest(FlowOf(s), p)
    BY <1>1, <1>4 DEF CpuData
  <2> QED BY <2>1, <2>2, RequestAgrees
<1>5. CASE p.seq = s.recv_next /\ p.len = 0 /\ "FIN" \in p.flags
  <2>1. GpuData(s, p) = GpuResult(ClosedSlot, Ack(s.send_next, Add(p.seq, 1)))
    BY <1>5 DEF GpuData
  <2>2. CpuData(FlowOf(s), p) = CpuResult(Removed, Ack(s.send_next, Add(p.seq, 1)))
    BY <1>1, <1>5 DEF CpuData
  <2> QED BY <2>1, <2>2, RemovedAgrees
<1>6. CASE p.seq = s.recv_next /\ p.len = 0 /\ "FIN" \notin p.flags
  <2>1. GpuData(s, p) = GpuResult(s, NoReply)
    BY <1>6 DEF GpuData
  <2>2. CpuData(FlowOf(s), p) = CpuResult(FlowOf(s), NoReply)
    BY <1>1, <1>6 DEF CpuData
  <2> QED BY <2>1, <2>2, KeptAgrees
<1> QED BY <1>3, <1>4, <1>5, <1>6

\* A SYN without ACK or RST, of a peer that keeps its initial number.
LEMMA SynAgrees ==
    ASSUME NEW s \in Slot, NEW p \in Segment, NEW room \in BOOLEAN,
           s.state = "CLOSED" => s = ClosedSlot,
           ~(s.state = "SYN_RECEIVED" /\ s.recv_next # Add(p.seq, 1))
    PROVE  Agrees(GpuSyn(s, p, room), CpuSyn(FlowOf(s), p, room))
<1>1. /\ FlowOf(s).state = s.state /\ FlowOf(s).recv_next = s.recv_next
      /\ FlowOf(s).send_next = s.send_next
  BY DEF FlowOf
<1>2. s.state \in {"CLOSED", "SYN_RECEIVED", "ESTABLISHED"}
  BY DEF Slot
<1>3. CASE s.state = "CLOSED" /\ ~room
  <2>1. GpuSyn(s, p, room) = GpuResult(ClosedSlot, NoReply)
    BY <1>3 DEF GpuSyn
  <2>2. FlowOf(s) = Removed
    BY <1>3 DEF FlowOf, ClosedSlot, Removed
  <2>3. CpuSyn(FlowOf(s), p, room) = CpuResult(Removed, NoReply)
    BY <1>1, <1>3, <2>2 DEF CpuSyn
  <2> QED BY <2>1, <2>3, RemovedAgrees
<1>4. CASE s.state = "CLOSED" /\ room
  <2> DEFINE o == OpenedSlot(p)
             reply == SynAck(Sub(o.send_next, 1), o.recv_next)
  <2>1. p.seq \in SeqNumbers
    BY DEF Segment
  <2>2. Add(p.seq, 1) \in SeqNumbers /\ Add(Isn, 1) \in SeqNumbers
    BY <2>1, ConstantTypes, AddType
  <2>3. /\ o.state = "SYN_RECEIVED" /\ o.recv_next = Add(p.seq, 1)
        /\ o.send_next = Add(Isn, 1) /\ o.send_unacked = Isn /\ o.last_response_len = 0
    BY DEF OpenedSlot, ClosedSlot
  <2>4. o \in Slot
    BY <2>2, ClosedSlotType, ConstantTypes DEF OpenedSlot, Slot
  <2>5. FlowOf(o) = NewFlow(p)
    BY <2>3 DEF FlowOf, NewFlow
  <2>6. GpuSyn(s, p, room) = GpuResult(o, reply)
    BY <1>4, <2>3 DEF GpuSyn
  <2>7. CpuSyn(FlowOf(s), p, room) = CpuResult(NewFlow(p), SynAck(Sub(NewFlow(p).send_next, 1), NewFlow(p).recv_next))
    BY <1>1, <1>4 DEF CpuSyn, NewFlow
  <2>8. NewFlow(p).send_next = o.send_next /\ NewFlow(p).recv_next = o.recv_next
    BY <2>3 DEF NewFlow
  <2>9. o.state # "CLOSED"
    BY <2>3
  <2> HIDE DEF o
  <2>10. CpuSyn(FlowOf(s), p, room) = CpuResult(FlowOf(o), reply)
    BY <2>5, <2>7, <2>8
  <2> QED BY <2>4, <2>6, <2>9, <2>10, KeptAgrees
<1>5. CASE s.state = "SYN_RECEIVED"
  <2> DEFINE reply == SynAck(Sub(s.send_next, 1), s.recv_next)
  <2>1. GpuSyn(s, p, room) = GpuResult(s, reply)
    BY <1>5 DEF GpuSyn
  <2>2. CpuSyn(FlowOf(s), p, room) = CpuResult(FlowOf(s), reply)
    BY <1>1, <1>5 DEF CpuSyn
  <2> QED BY <1>5, <2>1, <2>2, KeptAgrees
<1>6. CASE s.state = "ESTABLISHED"
  <2> DEFINE reply == Ack(s.send_next, s.recv_next)
  <2>1. GpuSyn(s, p, room) = GpuResult(s, reply)
    BY <1>6 DEF GpuSyn
  <2>2. CpuSyn(FlowOf(s), p, room) = CpuResult(FlowOf(s), reply)
    BY <1>1, <1>6 DEF CpuSyn
  <2> QED BY <1>6, <2>1, <2>2, KeptAgrees
<1> QED BY <1>2, <1>3, <1>4, <1>5, <1>6

\* The last segment of the handshake, on either engine.
LEMMA HandshakeAgrees ==
    ASSUME NEW s \in Slot, NEW p \in Segment, s.state # "CLOSED"
    PROVE  LET t == [s EXCEPT !.state = "ESTABLISHED", !.send_unacked = p.ack]
               f == [FlowOf(s) EXCEPT !.state = "ESTABLISHED", !.send_unacked = p.ack]
           IN  t \in Slot /\ t.state = "ESTABLISHED" /\ f = FlowOf(t)
<1> DEFINE t == [s EXCEPT !.state = "ESTABLISHED", !.send_unacked = p.ack]
           f == [FlowOf(s) EXCEPT !.state = "ESTABLISHED", !.send_unacked = p.ack]
           Free == [state : {s.state, "ESTABLISHED"}, recv_next : {s.recv_next},
                    send_next : {s.send_next}, send_unacked : {s.send_unacked, p.ack},
                    last : {FlowOf(s).last}]
<1>1. t \in Slot /\ t.state = "ESTABLISHED" /\ t.send_unacked = p.ack
  BY DEF Slot, Segment
<1>2. /\ t.recv_next = s.recv_next /\ t.send_next = s.send_next
      /\ t.last_client_seq = s.last_client_seq /\ t.last_client_len = s.last_client_len
      /\ t.last_response_seq = s.last_response_seq /\ t.last_response_ack = s.last_response_ack
      /\ t.last_response_id = s.last_response_id /\ t.last_response_len = s.last_response_len
  BY DEF Slot
<1>3. FlowOf(s) \in Free
  BY DEF FlowOf
<1>4. f \in Free
  BY <1>3
<1> HIDE DEF t
<1>5. FlowOf(t) = [state |-> "ESTABLISHED", recv_next |-> s.recv_next,
                   send_next |-> s.send_next, send_unacked |-> p.ack,
                   last |-> FlowOf(s).last]
  BY <1>1, <1>2 DEF FlowOf
<1>6. FlowOf(t) \in Free
  BY <1>5
<1>7. /\ f.state = "ESTABLISHED" /\ f.recv_next = s.recv_next /\ f.send_next = s.send_next
      /\ f.send_unacked = p.ack /\ f.last = FlowOf(s).last
  BY <1>3
<1>8. /\ FlowOf(t).state = "ESTABLISHED" /\ FlowOf(t).recv_next = s.recv_next
      /\ FlowOf(t).send_next = s.send_next /\ FlowOf(t).send_unacked = p.ack
      /\ FlowOf(t).last = FlowOf(s).last
  BY <1>5
<1> HIDE DEF f
<1>9. f = FlowOf(t)
  BY <1>4, <1>6, <1>7, <1>8
<1> QED BY <1>1, <1>9 DEF f, t

\* Every conforming segment, on every connection.
LEMMA StepAgrees ==
    ASSUME CommonGround, SameFlow, gpu_slot \in Slot, ClosedIsClear,
           NEW p \in Segment, NEW room \in BOOLEAN, Conforming(p)
    PROVE  Agrees(GpuStep(gpu_slot, p, room), CpuStep(flow, p, room))
<1>1. /\ flow = FlowOf(gpu_slot) /\ flow.state = gpu_slot.state /\ flow.recv_next = gpu_slot.recv_next
      /\ flow.send_next = gpu_slot.send_next
  BY DEF SameFlow, FlowOf
<1>2. gpu_slot.state \in {"CLOSED", "SYN_RECEIVED", "ESTABLISHED"}
  BY DEF Slot
<1>3. gpu_slot.state = "CLOSED" => gpu_slot = ClosedSlot /\ flow = Removed
  BY <1>1 DEF ClosedIsClear, FlowOf, ClosedSlot, Removed
<1>4. CASE "SYN" \in p.flags /\ "ACK" \notin p.flags
  <2>1. "RST" \notin p.flags
    BY <1>4 DEF Conforming, CommonGround
  <2>2. GpuStep(gpu_slot, p, room) = GpuSyn(gpu_slot, p, room)
    BY <1>4 DEF GpuStep
  <2>3. CpuStep(flow, p, room) = CpuSyn(flow, p, room)
    BY <1>4, <2>1 DEF CpuStep
  <2>4. ~(gpu_slot.state = "SYN_RECEIVED" /\ gpu_slot.recv_next # Add(p.seq, 1))
    BY <1>1, <1>4 DEF Conforming, CommonGround, IsSyn
  <2> QED BY <1>1, <1>3, <2>2, <2>3, <2>4, SynAgrees
<1>5. CASE ~("SYN" \in p.flags /\ "ACK" \notin p.flags)
  <2>1. CASE gpu_slot.state = "CLOSED"
    <3>1. GpuStep(gpu_slot, p, room) = GpuResult(ClosedSlot, NoReply)
      BY <1>3, <1>5, <2>1 DEF GpuStep
    <3>2. CpuStep(flow, p, room) = CpuResult(Removed, NoReply)
      BY <1>1, <1>3, <1>5, <2>1 DEF CpuStep
    <3> QED BY <3>1, <3>2, RemovedAgrees
  <2>2. CASE gpu_slot.state # "CLOSED" /\ "RST" \in p.flags
    <3>1. GpuStep(gpu_slot, p, room) = GpuResult(ClosedSlot, NoReply)
      BY <1>5, <2>2 DEF GpuStep
    <3>2. CpuStep(flow, p, room) = CpuResult(Removed, NoReply)
      BY <2>2 DEF CpuStep
    <3> QED BY <3>1, <3>2, RemovedAgrees
  <2>3. CASE gpu_slot.state = "ESTABLISHED" /\ "RST" \notin p.flags
    <3>1. GpuStep(gpu_slot, p, room) = GpuData(GpuAcked(gpu_slot, p), p)
      BY <1>5, <2>3 DEF GpuStep
    <3>2. CpuStep(flow, p, room) = CpuData(CpuAcked(FlowOf(gpu_slot), p), p)
      BY <1>1, <1>5, <2>3 DEF CpuStep
    <3>3. /\ GpuAcked(gpu_slot, p) \in Slot /\ GpuAcked(gpu_slot, p).state # "CLOSED"
          /\ CpuAcked(FlowOf(gpu_slot), p) = FlowOf(GpuAcked(gpu_slot, p))
      BY <2>3, AckedAgrees
    <3> QED BY <3>1, <3>2, <3>3, DataAgrees
  <2>4. CASE gpu_slot.state = "SYN_RECEIVED" /\ "RST" \notin p.flags
    <3> DEFINE ok == "ACK" \in p.flags /\ p.ack = gpu_slot.send_next /\ p.seq = gpu_slot.recv_next
               t == [gpu_slot EXCEPT !.state = "ESTABLISHED", !.send_unacked = p.ack]
               f == [FlowOf(gpu_slot) EXCEPT !.state = "ESTABLISHED", !.send_unacked = p.ack]
    <3>1. CASE ok
      <4>1. GpuStep(gpu_slot, p, room) = GpuData(GpuAcked(t, p), p)
        BY <1>5, <2>4, <3>1 DEF GpuStep
      <4>2. CpuHandshakeDone(flow, p)
        BY <1>1, <3>1 DEF CpuHandshakeDone
      <4>3. CpuStep(flow, p, room) = CpuData(CpuAcked(f, p), p)
        BY <1>1, <1>5, <2>4, <4>2 DEF CpuStep
      <4>4. t \in Slot /\ t.state = "ESTABLISHED" /\ f = FlowOf(t)
        BY <2>4, HandshakeAgrees
      <4> HIDE DEF t, f
      <4>5. /\ GpuAcked(t, p) \in Slot /\ GpuAcked(t, p).state # "CLOSED"
            /\ CpuAcked(f, p) = FlowOf(GpuAcked(t, p))
        BY <4>4, AckedAgrees
      <4> QED BY <4>1, <4>3, <4>5, DataAgrees
    <3>2. CASE ~ok
      <4>1. GpuStep(gpu_slot, p, room) = GpuResult(gpu_slot, NoReply)
        BY <1>5, <2>4, <3>2 DEF GpuStep
      <4>2. ~CpuHandshakeDone(flow, p)
        BY <1>1, <3>2 DEF CpuHandshakeDone
      <4>3. CpuStep(flow, p, room) = CpuResult(FlowOf(gpu_slot), NoReply)
        BY <1>1, <1>5, <2>4, <4>2 DEF CpuStep
      <4> QED BY <2>4, <4>1, <4>3, KeptAgrees
    <3> QED BY <3>1, <3>2
  <2> QED BY <1>2, <2>1, <2>2, <2>3, <2>4
<1> QED BY <1>4, <1>5

-----------------------------------------------------------------------------
\* The two engines hold the same connection after every sequence of segments.
THEOREM EnginesInvariance == ASSUME CommonGround PROVE EnginesSpec => []EInv
<1>1. ASSUME EnginesInit PROVE EInv
  <2>1. FlowOf(ClosedSlot) = Removed
    BY DEF FlowOf, ClosedSlot, Removed
  <2> QED BY <1>1, <2>1, ClosedSlotType DEF EnginesInit, EInv, ClosedIsClear, SameFlow, SameReplies
<1>2. ASSUME EInv, EnginesNext PROVE EInv'
  <2>1. PICK p \in Segments, room \in BOOLEAN : BothReceive(p, room)
    BY <1>2 DEF EnginesNext
  <2>2. p \in Segment
    BY EngineAssumption
  <2>3. Agrees(GpuStep(gpu_slot, p, room), CpuStep(flow, p, room))
    BY <1>2, <2>1, <2>2, StepAgrees DEF EInv, BothReceive
  <2>4. /\ gpu_slot' = GpuStep(gpu_slot, p, room).slot /\ gpu_reply' = GpuStep(gpu_slot, p, room).reply
        /\ flow' = CpuStep(flow, p, room).flow /\ cpu_reply' = CpuStep(flow, p, room).reply
    BY <2>1 DEF BothReceive
  <2>5. gpu_slot' \in Slot /\ ClosedIsClear'
    BY <2>3, <2>4 DEF Agrees, ClosedIsClear
  <2>6. flow' = FlowOf(gpu_slot') /\ gpu_reply' = cpu_reply'
    BY <2>3, <2>4 DEF Agrees
  <2> QED BY <2>5, <2>6 DEF EInv, SameFlow, SameReplies, FlowOf
<1>3. ASSUME EInv, UNCHANGED engineVars PROVE EInv'
  BY <1>3 DEF EInv, engineVars, ClosedIsClear, SameFlow, SameReplies, FlowOf
<1>4. EInv /\ [EnginesNext]_engineVars => EInv'
  BY <1>2, <1>3
<1> QED BY <1>1, <1>4, PTL DEF EnginesSpec

\* Both engines answer every segment with the same packet.
THEOREM RepliesAgree == ASSUME CommonGround PROVE EnginesSpec => []SameReplies
<1>1. EInv => SameReplies
  BY DEF EInv
<1> QED BY <1>1, EnginesInvariance, PTL

\* ... and keep the same connection.
THEOREM FlowsAgree == ASSUME CommonGround PROVE EnginesSpec => []SameFlow
<1>1. EInv => SameFlow
  BY DEF EInv
<1> QED BY <1>1, EnginesInvariance, PTL
-----------------------------------------------------------------------------
(***************************************************************************)
(* The streams of the shader's connection, on any segments at all.         *)
(***************************************************************************)

\* LastResponseEndsStream of a slot.
ResponseEndsStream(s) ==
    s.last_response_len # 0 =>
        /\ Add(s.last_response_seq, s.last_response_len) = s.send_next
        /\ s.last_response_ack = s.recv_next
        /\ Add(s.last_client_seq, s.last_client_len) = s.recv_next
        /\ s.last_client_seq # s.recv_next

\* StreamsMoveTogether of the step from slot s to slot t.
MoveTogether(s, t, reply) ==
    \/ t.send_next = s.send_next /\ t.recv_next = s.recv_next
    \/ /\ reply.kind = "DATA"
       /\ reply.seq = s.send_next
       /\ t.send_next = Add(s.send_next, ResponseLength[reply.id])
       /\ reply.ack = t.recv_next
       /\ t.last_client_seq = s.recv_next

\* What a step makes of a slot.
Follows(s, result) ==
    /\ result.slot \in Slot
    /\ ResponseEndsStream(s) => ResponseEndsStream(result.slot)
    /\ s.state # "CLOSED" /\ result.slot.state # "CLOSED" =>
            MoveTogether(s, result.slot, result.reply)

SameStreams(s, t) ==
    /\ s.recv_next = t.recv_next /\ s.send_next = t.send_next
    /\ s.last_client_seq = t.last_client_seq /\ s.last_client_len = t.last_client_len
    /\ s.last_response_seq = t.last_response_seq /\ s.last_response_ack = t.last_response_ack
    /\ s.last_response_len = t.last_response_len

LEMMA ReleasedFollows == ASSUME NEW s, NEW reply PROVE Follows(s, GpuResult(ClosedSlot, reply))
<1>1. ClosedSlot.last_response_len = 0 /\ ClosedSlot.state = "CLOSED"
  BY DEF ClosedSlot
<1> QED BY <1>1, ClosedSlotType DEF Follows, GpuResult, ResponseEndsStream

LEMMA SameFollows ==
    ASSUME NEW s, NEW t \in Slot, SameStreams(s, t), NEW reply
    PROVE  Follows(s, GpuResult(t, reply))
  BY DEF Follows, GpuResult, ResponseEndsStream, MoveTogether, SameStreams

LEMMA FollowsSame ==
    ASSUME NEW s, NEW t, SameStreams(s, t), t.state # "CLOSED", NEW result, Follows(t, result)
    PROVE  Follows(s, result)
  BY DEF Follows, ResponseEndsStream, MoveTogether, SameStreams

\* The next request of the stream: the response kept is the one that ends it.
LEMMA RequestFollows ==
    ASSUME NEW s \in Slot, NEW p \in Segment, p.seq = s.recv_next, p.len > 0
    PROVE  Follows(s, GpuRequest(s, p))
<1> DEFINE end == Add(p.seq, p.len)
           next_ack == Add(end, 0)
           answered == Add(s.send_next, ResponseLength[p.request])
<1>1. /\ p.seq \in SeqNumbers /\ p.len \in SeqNumbers /\ p.request \in Responses
      /\ s.send_next \in SeqNumbers
  BY ConstantTypes DEF Segment, Slot
<1>2. ResponseLength[p.request] \in SeqNumbers
  BY <1>1, ConstantTypes
<1>3. end \in SeqNumbers /\ answered \in SeqNumbers
  BY <1>1, <1>2, ConstantTypes, AddType
<1>4. next_ack = end /\ end # p.seq
  <2>1. next_ack = end
    BY <1>3, AddMoves
  <2> QED BY <1>1, <2>1, AddMoves
<1>5. CASE "FIN" \in p.flags
  <2>1. PICK reply : GpuRequest(s, p) = GpuResult(ClosedSlot, reply)
    BY <1>5 DEF GpuRequest
  <2> QED BY <2>1, ReleasedFollows
<1>6. CASE "FIN" \notin p.flags
  <2> DEFINE t == [s EXCEPT
            !.recv_next = next_ack,
            !.send_next = answered,
            !.last_client_seq = p.seq,
            !.last_client_len = p.len,
            !.last_response_seq = s.send_next,
            !.last_response_ack = next_ack,
            !.last_response_id = p.request,
            !.last_response_len = ResponseLength[p.request]]
             reply == Response(p.request, s.send_next, next_ack)
  <2>1. GpuRequest(s, p) = GpuResult(t, reply)
    BY <1>6 DEF GpuRequest
  <2>2. reply.kind = "DATA" /\ reply.seq = s.send_next /\ reply.ack = next_ack /\ reply.id = p.request
    BY DEF Response
  <2> HIDE DEF end, answered, next_ack, reply
  <2>3. t \in Slot
    BY <1>1, <1>2, <1>3, <1>4 DEF Slot
  <2>4. /\ t.recv_next = next_ack /\ t.send_next = answered
        /\ t.last_client_seq = p.seq /\ t.last_client_len = p.len
        /\ t.last_response_seq = s.send_next /\ t.last_response_ack = next_ack
        /\ t.last_response_len = ResponseLength[p.request]
    BY DEF Slot
  <2> HIDE DEF t
  <2>5. ResponseEndsStream(t)
    BY <1>4, <2>4 DEF ResponseEndsStream, end, answered
  <2>6. MoveTogether(s, t, reply)
    BY <2>2, <2>4 DEF MoveTogether, answered
  <2> QED BY <2>1, <2>3, <2>5, <2>6 DEF Follows, GpuResult
<1> QED BY <1>5, <1>6

LEMMA DataFollows ==
    ASSUME NEW s \in Slot, NEW p \in Segment PROVE Follows(s, GpuData(s, p))
<1>1. SameStreams(s, s)
  BY DEF SameStreams
<1>2. p.len \in Nat
  BY ConstantTypes DEF Segment
<1>3. CASE p.seq # s.recv_next
  <2>1. PICK reply : GpuData(s, p) = GpuResult(s, reply)
    BY <1>3 DEF GpuData, GpuOutOfOrder
  <2> QED BY <1>1, <2>1, SameFollows
<1>4. CASE p.seq = s.recv_next /\ p.len > 0
  <2>1. GpuData(s, p) = GpuRequest(s, p)
    BY <1>4 DEF GpuData
  <2> QED BY <1>4, <2>1, RequestFollows
<1>5. CASE p.seq = s.recv_next /\ p.len = 0
  <2>1. PICK reply : GpuData(s, p) \in {GpuResult(s, reply), GpuResult(ClosedSlot, reply)}
    BY <1>5 DEF GpuData
  <2> QED BY <1>1, <2>1, SameFollows, ReleasedFollows
<1> QED BY <1>2, <1>3, <1>4, <1>5

LEMMA AckedDataFollows ==
    ASSUME NEW s \in Slot, NEW t \in Slot, SameStreams(s, t), t.state # "CLOSED", NEW p \in Segment
    PROVE  Follows(s, GpuData(GpuAcked(t, p), p))
<1>1. /\ GpuAcked(t, p) \in Slot /\ GpuAcked(t, p).state # "CLOSED"
  BY AckedAgrees
<1>2. SameStreams(s, GpuAcked(t, p))
  BY DEF SameStreams, GpuAcked, Slot
<1>3. Follows(GpuAcked(t, p), GpuData(GpuAcked(t, p), p))
  BY <1>1, DataFollows
<1> QED BY <1>1, <1>2, <1>3, FollowsSame

LEMMA SynFollows ==
    ASSUME NEW s \in Slot, NEW p \in Segment, NEW room \in BOOLEAN
    PROVE  Follows(s, GpuSyn(s, p, room))
<1>1. SameStreams(s, s)
  BY DEF SameStreams
<1>2. CASE s.state = "CLOSED" /\ room
  <2> DEFINE o == OpenedSlot(p)
  <2>1. p.seq \in SeqNumbers
    BY DEF Segment
  <2>2. Add(p.seq, 1) \in SeqNumbers /\ Add(Isn, 1) \in SeqNumbers
    BY <2>1, ConstantTypes, AddType
  <2>3. o.state = "SYN_RECEIVED" /\ o.last_response_len = 0
    BY DEF OpenedSlot, ClosedSlot
  <2>4. o \in Slot
    BY <2>2, ClosedSlotType, ConstantTypes DEF OpenedSlot, Slot
  <2>5. PICK reply : GpuSyn(s, p, room) = GpuResult(o, reply)
    BY <1>2, <2>3 DEF GpuSyn
  <2> HIDE DEF o
  <2>6. ResponseEndsStream(o)
    BY <2>3 DEF ResponseEndsStream
  <2>7. GpuSyn(s, p, room).slot = o
    BY <2>5 DEF GpuResult
  <2> QED BY <1>2, <2>4, <2>6, <2>7 DEF Follows
<1>3. CASE s.state = "CLOSED" /\ ~room
  <2>1. GpuSyn(s, p, room) = GpuResult(s, NoReply)
    BY <1>3 DEF GpuSyn
  <2> QED BY <1>1, <2>1, SameFollows
<1>4. CASE s.state = "SYN_RECEIVED"
  <2>1. GpuSyn(s, p, room) = GpuResult(s, SynAck(Sub(s.send_next, 1), s.recv_next))
    BY <1>4 DEF GpuSyn
  <2> QED BY <1>1, <2>1, SameFollows
<1>5. CASE s.state = "ESTABLISHED"
  <2>1. GpuSyn(s, p, room) = GpuResult(s, Ack(s.send_next, s.recv_next))
    BY <1>5 DEF GpuSyn
  <2> QED BY <1>1, <2>1, SameFollows
<1>6. s.state \in {"CLOSED", "SYN_RECEIVED", "ESTABLISHED"}
  BY DEF Slot
<1> QED BY <1>2, <1>3, <1>4, <1>5, <1>6

\* Every segment, in any state of the connection.
LEMMA StepFollows ==
    ASSUME NEW s \in Slot, NEW p \in Segment, NEW room \in BOOLEAN
    PROVE  Follows(s, GpuStep(s, p, room))
<1>1. SameStreams(s, s)
  BY DEF SameStreams
<1>2. s.state \in {"CLOSED", "SYN_RECEIVED", "ESTABLISHED"}
  BY DEF Slot
<1>3. CASE "SYN" \in p.flags /\ "ACK" \notin p.flags
  <2>1. GpuStep(s, p, room) = GpuSyn(s, p, room)
    BY <1>3 DEF GpuStep
  <2> QED BY <2>1, SynFollows
<1>4. CASE ~("SYN" \in p.flags /\ "ACK" \notin p.flags)
  <2>1. CASE s.state = "CLOSED"
    <3>1. GpuStep(s, p, room) = GpuResult(s, NoReply)
      BY <1>4, <2>1 DEF GpuStep
    <3> QED BY <1>1, <3>1, SameFollows
  <2>2. CASE s.state # "CLOSED" /\ "RST" \in p.flags
    <3>1. GpuStep(s, p, room) = GpuResult(ClosedSlot, NoReply)
      BY <1>4, <2>2 DEF GpuStep
    <3> QED BY <3>1, ReleasedFollows
  <2>3. CASE s.state = "ESTABLISHED" /\ "RST" \notin p.flags
    <3>1. GpuStep(s, p, room) = GpuData(GpuAcked(s, p), p)
      BY <1>4, <2>3 DEF GpuStep
    <3> QED BY <1>1, <2>3, <3>1, AckedDataFollows
  <2>4. CASE s.state = "SYN_RECEIVED" /\ "RST" \notin p.flags
    <3> DEFINE ok == "ACK" \in p.flags /\ p.ack = s.send_next /\ p.seq = s.recv_next
               t == [s EXCEPT !.state = "ESTABLISHED", !.send_unacked = p.ack]
    <3>1. CASE ok
      <4>1. GpuStep(s, p, room) = GpuData(GpuAcked(t, p), p)
        BY <1>4, <2>4, <3>1 DEF GpuStep
      <4>2. t \in Slot /\ t.state = "ESTABLISHED"
        BY DEF Slot, Segment
      <4>3. SameStreams(s, t)
        BY DEF Slot, SameStreams
      <4> HIDE DEF t
      <4> QED BY <4>1, <4>2, <4>3, AckedDataFollows
    <3>2. CASE ~ok
      <4>1. GpuStep(s, p, room) = GpuResult(s, NoReply)
        BY <1>4, <2>4, <3>2 DEF GpuStep
      <4> QED BY <1>1, <4>1, SameFollows
    <3> QED BY <3>1, <3>2
  <2> QED BY <1>2, <2>1, <2>2, <2>3, <2>4
<1> QED BY <1>3, <1>4

StreamsInv == gpu_slot \in Slot /\ LastResponseEndsStream

LEMMA StepKeepsStreams ==
    ASSUME gpu_slot \in Slot, NEW p \in Segments, NEW room \in BOOLEAN, BothReceive(p, room)
    PROVE  Follows(gpu_slot, [slot |-> gpu_slot', reply |-> gpu_reply'])
<1>1. p \in Segment
  BY EngineAssumption
<1>2. gpu_slot' = GpuStep(gpu_slot, p, room).slot /\ gpu_reply' = GpuStep(gpu_slot, p, room).reply
  BY DEF BothReceive
<1>3. Follows(gpu_slot, GpuStep(gpu_slot, p, room))
  BY <1>1, StepFollows
<1> QED BY <1>2, <1>3 DEF Follows

\* The response kept for retransmissions ends the stream in every state, on
\* any segments, with SYN and RST together or a handshake started anew as well.
THEOREM StreamsInvariance == EnginesSpec => []StreamsInv
<1>1. ASSUME EnginesInit PROVE StreamsInv
  <2>1. ClosedSlot.last_response_len = 0
    BY DEF ClosedSlot
  <2> QED BY <1>1, <2>1, ClosedSlotType DEF EnginesInit, StreamsInv, LastResponseEndsStream
<1>2. ASSUME StreamsInv, EnginesNext PROVE StreamsInv'
  <2>1. PICK p \in Segments, room \in BOOLEAN : BothReceive(p, room)
    BY <1>2 DEF EnginesNext
  <2>2. Follows(gpu_slot, [slot |-> gpu_slot', reply |-> gpu_reply'])
    BY <1>2, <2>1, StepKeepsStreams DEF StreamsInv
  <2>3. ResponseEndsStream(gpu_slot)
    BY <1>2 DEF StreamsInv, LastResponseEndsStream, ResponseEndsStream
  <2>4. gpu_slot' \in Slot /\ ResponseEndsStream(gpu_slot')
    BY <2>2, <2>3 DEF Follows
  <2> QED BY <2>4 DEF StreamsInv, LastResponseEndsStream, ResponseEndsStream
<1>3. ASSUME StreamsInv, UNCHANGED engineVars PROVE StreamsInv'
  BY <1>3 DEF StreamsInv, engineVars, LastResponseEndsStream
<1>4. StreamsInv /\ [EnginesNext]_engineVars => StreamsInv'
  BY <1>2, <1>3
<1> QED BY <1>1, <1>4, PTL DEF EnginesSpec

\* Replaying the response kept never moves the connection.
THEOREM ResponseKeptEndsStream == EnginesSpec => []LastResponseEndsStream
<1>1. StreamsInv => LastResponseEndsStream
  BY DEF StreamsInv
<1> QED BY <1>1, StreamsInvariance, PTL

\* Both streams move only when the next request is answered, and then both.
THEOREM StreamsMove == EnginesSpec => StreamsMoveTogether
<1> DEFINE Moved == gpu_slot.state # "CLOSED" /\ gpu_slot'.state # "CLOSED" =>
                        MoveTogether(gpu_slot, gpu_slot', gpu_reply')
<1>1. ASSUME StreamsInv, EnginesNext PROVE Moved
  <2>1. PICK p \in Segments, room \in BOOLEAN : BothReceive(p, room)
    BY <1>1 DEF EnginesNext
  <2>2. Follows(gpu_slot, [slot |-> gpu_slot', reply |-> gpu_reply'])
    BY <1>1, <2>1, StepKeepsStreams DEF StreamsInv
  <2> QED BY <2>2 DEF Follows
<1>2. StreamsInv /\ [EnginesNext]_engineVars => [Moved]_engineVars
  BY <1>1
<1>3. [][Moved]_engineVars => StreamsMoveTogether
  BY PTL DEF StreamsMoveTogether, MoveTogether
<1> QED BY <1>2, <1>3, StreamsInvariance, PTL DEF EnginesSpec
=============================================================================
