----------------------------- MODULE TcpSegments -----------------------------
(***************************************************************************)
(* The TCP segments the packet engines exchange with one peer, after the   *)
(* headers have been checked and the four-tuple looked up.  Sequence       *)
(* numbers are integers modulo SeqSpace (2^32 in the code); a payload is its *)
(* length and the response its request is classified to.                   *)
(***************************************************************************)
EXTENDS Integers

CONSTANTS
    SeqSpace,          \* size of the sequence number space
    Lens,            \* payload lengths of segments
    Responses,       \* response identifiers
    ResponseLength,  \* RESPONSE_LENGTHS: bytes of every response
    Isn              \* flow_hash(key) ^ 0xa5a55a5a: the server's first number

ASSUME SegmentAssumption ==
    /\ SeqSpace \in Nat /\ SeqSpace > 1
    /\ Lens \subseteq 0 .. SeqSpace - 1
    /\ Responses # {}
    /\ ResponseLength \in [Responses -> 1 .. SeqSpace - 1]
    /\ Isn \in 0 .. SeqSpace - 1

SeqNumbers == 0 .. SeqSpace - 1

\* wrapping_add and wrapping_sub on u32; WGSL arithmetic wraps.
Add(a, b) == (a + b) % SeqSpace
Sub(a, b) == (a + SeqSpace - b) % SeqSpace

Flags == SUBSET {"SYN", "ACK", "RST", "FIN"}

Segment == [flags : Flags, seq : SeqNumbers, ack : SeqNumbers,
            len : Lens, request : Responses]

\* A reply is a control segment or a response; "none": no output packet.
NoReply == [kind |-> "none", seq |-> 0, ack |-> 0]
SynAck(seq, ack) == [kind |-> "SYN_ACK", seq |-> seq, ack |-> ack]
Ack(seq, ack) == [kind |-> "ACK", seq |-> seq, ack |-> ack]
Response(id, seq, ack) == [kind |-> "DATA", seq |-> seq, ack |-> ack, id |-> id]

Reply == {NoReply} \cup [kind : {"SYN_ACK", "ACK"}, seq : SeqNumbers, ack : SeqNumbers]
         \cup [kind : {"DATA"}, seq : SeqNumbers, ack : SeqNumbers, id : Responses]
=============================================================================
