------------------------------ MODULE FlowSession ------------------------------
(***************************************************************************)
(* One connection of the GPU packet engine and a TCP client, over a        *)
(* network that loses segments, and may reorder them.  The engine has no   *)
(* timers: it only answers, so everything that gets lost comes back by the *)
(* client's retransmission of a segment that has not been acknowledged.    *)
(* The client and the network are external.                                *)
(***************************************************************************)
EXTENDS GpuFlow, Sequences

CONSTANTS
    ClientIsn,   \* the client's first sequence number
    Requests,    \* what it will ask, one request a segment
    FinOnLast,   \* TRUE: the last request carries the FIN
    InFlight     \* bound on the segments in the network, each way

ASSUME SessionAssumption ==
    /\ ClientIsn \in SeqNumbers
    /\ Requests \in Seq([len : Lens \ {0}, request : Responses])
    /\ 0 \in Lens   \* an acknowledgement carries no payload
    /\ FinOnLast \in BOOLEAN
    /\ InFlight \in Nat \ {0}

VARIABLES
    fifo,      \* the network keeps the order
    window,    \* requests the client sends ahead of their responses
    slot,      \* the engine's flow slot
    segments,  \* on their way to the engine
    replies,   \* ... and back
    peer,      \* the client's state
    sent,      \* requests it has sent at least once
    acked,     \* requests acknowledged
    expected,  \* the sequence number it expects next
    log        \* the responses it has accepted

peerVars == <<peer, sent, acked, expected, log>>
vars == <<fifo, window, slot, segments, replies, peerVars>>

Total == Len(Requests)

\* The sequence number that follows n requests, and n responses.
RequestEnd[n \in 0 .. Total] ==
    IF n = 0 THEN Add(ClientIsn, 1) ELSE Add(RequestEnd[n - 1], Requests[n].len)
ResponseEnd[n \in 0 .. Total] ==
    IF n = 0 THEN Add(Isn, 1)
    ELSE Add(ResponseEnd[n - 1], ResponseLength[Requests[n].request])

\* Sequence numbers tell where a segment belongs only as long as no number
\* comes back: no two places in a stream have the same one.  That the network
\* keeps nothing for longer is TCP's own assumption; the engine has no
\* timestamps to do without it.
ShortSession ==
    /\ \A m, n \in 0 .. Total : RequestEnd[m] = RequestEnd[n] => m = n
    /\ \A m, n \in 0 .. Total : ResponseEnd[m] = ResponseEnd[n] => m = n

Control(flags, seq, ack) ==
    [flags |-> flags, seq |-> seq, ack |-> ack, len |-> 0,
     request |-> CHOOSE id \in Responses : TRUE]

Syn == Control({"SYN"}, ClientIsn, 0)
Fin == Control({"ACK", "FIN"}, RequestEnd[Total], expected)
Data(n) == [flags |-> IF FinOnLast /\ n = Total THEN {"ACK", "FIN"} ELSE {"ACK"},
            seq |-> RequestEnd[n - 1], ack |-> expected,
            len |-> Requests[n].len, request |-> Requests[n].request]

Without(channel, i) == SubSeq(channel, 1, i - 1) \o SubSeq(channel, i + 1, Len(channel))

\* A channel that is full loses what is put into it.
Put(channel, m) == IF Len(channel) < InFlight THEN Append(channel, m) ELSE channel

\* The places of a channel where a segment can come out.
Exits(channel) == IF fifo THEN {i \in DOMAIN channel : i = 1} ELSE DOMAIN channel

Init ==
    /\ fifo \in BOOLEAN /\ window \in 1 .. Total
    /\ slot = ClosedSlot
    /\ segments = <<Syn>> /\ replies = <<>>
    /\ peer = "syn_sent" /\ sent = 0 /\ acked = 0 /\ expected = 0 /\ log = <<>>

-----------------------------------------------------------------------------
\* The engine processes the segment at place i of its channel.
Serve(i) ==
    LET result == GpuStep(slot, segments[i], TRUE)
    IN  /\ slot' = result.slot
        /\ replies' = IF result.reply = NoReply THEN replies
                      ELSE Put(replies, result.reply)
        /\ segments' = Without(segments, i)
        /\ UNCHANGED <<fifo, window, peerVars>>

LoseSegment(i) ==
    /\ segments' = Without(segments, i)
    /\ UNCHANGED <<fifo, window, slot, replies, peerVars>>
LoseReply(i) ==
    /\ replies' = Without(replies, i)
    /\ UNCHANGED <<fifo, window, slot, segments, peerVars>>

-----------------------------------------------------------------------------
\* The client sends its next request ...
SendRequest ==
    /\ peer = "open" /\ sent < Total /\ sent < Len(log) + window
    /\ Len(segments) < InFlight
    /\ sent' = sent + 1
    /\ segments' = Append(segments, Data(sent'))
    /\ peer' = IF FinOnLast /\ sent' = Total THEN "fin_sent" ELSE peer
    /\ UNCHANGED <<fifo, window, slot, replies, acked, expected, log>>

\* ... closes when it has all responses ...
SendFin ==
    /\ peer = "open" /\ Len(log) = Total /\ ~FinOnLast
    /\ peer' = "fin_sent"
    /\ segments' = Put(segments, Fin)
    /\ UNCHANGED <<fifo, window, slot, replies, sent, acked, expected, log>>

\* ... and sends again the oldest segment that has not been acknowledged.
Unacked == CASE peer = "syn_sent" -> {Syn}
             [] peer \in {"open", "fin_sent"} /\ acked < sent -> {Data(acked + 1)}
             [] peer = "fin_sent" /\ acked = sent -> IF FinOnLast THEN {} ELSE {Fin}
             [] OTHER -> {}

Retransmit ==
    /\ Len(segments) < InFlight
    /\ \E p \in Unacked : segments' = Append(segments, p)
    /\ UNCHANGED <<fifo, window, slot, replies, peerVars>>

\* What an acknowledgement number tells the client: the requests it covers.
FinAcked(ack) == peer = "fin_sent" /\ ack = Add(RequestEnd[Total], 1)
Covered(ack) == {n \in acked + 1 .. sent :
                    ack = RequestEnd[n] \/ (n = Total /\ FinAcked(ack))}
NowAcked(ack) == IF Covered(ack) = {} THEN acked ELSE CHOOSE n \in Covered(ack) : TRUE

\* A reply that carries on where the client is.
InOrder(r) == \/ peer = "syn_sent" /\ r.kind = "SYN_ACK"
              \/ peer # "syn_sent" /\ r.kind = "DATA" /\ r.seq = expected

\* The sequence number of what the client would send next.
NextSeq == Add(RequestEnd[sent], IF peer = "fin_sent" THEN 1 ELSE 0)

\* The client receives the reply at place i.  It acknowledges data, also old
\* data, with an empty segment.
Receive(i) ==
    LET r == replies[i] IN
    /\ replies' = Without(replies, i)
    /\ acked' = NowAcked(r.ack)
    /\ peer' = CASE peer = "syn_sent" /\ r.kind = "SYN_ACK" -> "open"
                 [] FinAcked(r.ack) -> "closed"
                 [] OTHER -> peer
    /\ expected' = CASE InOrder(r) /\ r.kind = "SYN_ACK" -> Add(r.seq, 1)
                     [] InOrder(r) /\ r.kind = "DATA" -> Add(r.seq, ResponseLength[r.id])
                     [] OTHER -> expected
    /\ log' = IF InOrder(r) /\ r.kind = "DATA" THEN Append(log, r.id) ELSE log
    /\ segments' = IF r.kind = "ACK" THEN segments
                   ELSE Put(segments, Control({"ACK"}, NextSeq, expected'))
    /\ UNCHANGED <<fifo, window, slot, sent>>

-----------------------------------------------------------------------------
Engine == \E i \in Exits(segments) : Serve(i)
Client == SendRequest \/ SendFin \/ Retransmit
Deliver == \E i \in Exits(replies) : Receive(i)
Lose == \/ \E i \in Exits(segments) : LoseSegment(i)
        \/ \E i \in Exits(replies) : LoseReply(i)

\* The network is empty and the client closed, or its request acknowledged and
\* the response lost for good: see EveryRequestAnswered.
Done ==
    /\ segments = <<>> /\ replies = <<>>
    /\ peer = "closed" \/ Len(log) < acked
    /\ UNCHANGED vars

Next == Engine \/ Client \/ Deliver \/ Lose \/ Done

Spec == Init /\ [][Next]_vars

ServeUnacked == \E i \in Exits(segments) : segments[i] \in Unacked /\ Serve(i)
ReceiveInOrder == \E i \in Exits(replies) : InOrder(replies[i]) /\ Receive(i)

\* The client's timers run, what is in the network leaves it, and a segment
\* that is sent again and again gets through in the end.
FairSpec ==
    /\ Spec
    /\ WF_vars(Client)
    /\ WF_vars(Engine \/ \E i \in Exits(segments) : LoseSegment(i))
    /\ WF_vars(Deliver \/ \E i \in Exits(replies) : LoseReply(i))
    /\ SF_vars(ServeUnacked) /\ SF_vars(ReceiveInOrder)

-----------------------------------------------------------------------------
TypeOK ==
    /\ fifo \in BOOLEAN /\ window \in 1 .. Total
    /\ slot \in Slot
    /\ segments \in Seq(Segment) /\ Len(segments) <= InFlight
    /\ replies \in Seq(Reply \ {NoReply}) /\ Len(replies) <= InFlight
    /\ peer \in {"syn_sent", "open", "fin_sent", "closed"}
    /\ acked \in 0 .. sent /\ sent \in 0 .. Total
    /\ expected \in SeqNumbers
    /\ log \in Seq(Responses)

\* What the client takes for the answer to its n-th request is that answer,
\* whatever was lost, repeated or overtaken on the way.
AnswersMatch ==
    /\ Len(log) <= sent
    /\ \A n \in DOMAIN log : log[n] = Requests[n].request

\* Until the client closes, both ends agree how far they are: the engine has
\* served a number of requests, each of them once, at least those the client
\* has answers or acknowledgements for.
InStep ==
    peer = "open" =>
        \E n \in Len(log) .. sent :
            /\ acked <= n
            /\ slot.recv_next = RequestEnd[n]
            /\ slot.send_next = ResponseEnd[n]
            /\ slot.state = "ESTABLISHED" \/ n = 0

\* "Duplicate SYN/data recovery": over a network that only loses segments,
\* every request is answered in the end, when the client waits for one answer
\* before it asks again: only the last response can be sent again.
EveryRequestAnswered == fifo /\ window = 1 ~> Len(log) = Total

\* "FIN and RST cleanup": once the client has closed the slot is released, and
\* nothing that is still on its way takes it again.  (Where segments overtake
\* each other an old SYN may: the engine keeps nothing of a released flow.)
SlotReleased == fifo /\ peer = "fin_sent" ~> [](slot.state = "CLOSED")
=============================================================================
