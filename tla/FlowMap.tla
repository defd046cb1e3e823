------------------------------- MODULE FlowMap -------------------------------
(***************************************************************************)
(* What the packet engine's connection table promises to the packets of    *)
(* one dispatch: every flow (four-tuple) has ONE connection state, and a   *)
(* packet reads and changes the state of its own flow only, in one atomic  *)
(* step.  The table may refuse a new flow (it is bounded), but it never    *)
(* loses, duplicates or mixes up the flows it holds.  FlowTable implements *)
(* this specification with an open-addressed table that the invocations of *)
(* a compute dispatch probe and claim concurrently.                        *)
(***************************************************************************)
CONSTANT Keys

VARIABLES flow,     \* flow[k]: connection state of flow k
          packet,   \* packet[k]: the packet of flow k still to be served
          emitted   \* emitted[k]: the last packet of flow k got a reply packet

vars == <<flow, packet, emitted>>

\* The segments the table can tell apart: payload and flags, not numbers.
Packets == {"SYN", "RST", "ACK", "DATA", "FIN"}

Init == /\ flow = [k \in Keys |-> "CLOSED"]
        /\ packet = [k \in Keys |-> "none"]
        /\ emitted = [k \in Keys |-> FALSE]

\* A dispatch brings at most one packet of each flow.
Dispatch == /\ \A k \in Keys : packet[k] = "none"
            /\ packet' \in [Keys -> Packets \cup {"none"}]
            /\ emitted' = [k \in Keys |-> FALSE]
            /\ UNCHANGED flow

\* Serving the packet of flow k leaves the flow in state st, with or without
\* a reply.
Serve(k, st, reply) == /\ flow' = [flow EXCEPT ![k] = st]
                       /\ packet' = [packet EXCEPT ![k] = "none"]
                       /\ emitted' = [emitted EXCEPT ![k] = reply]

\* A new flow is opened first and its SYN answered afterwards, as the last ACK
\* of a handshake, which may carry data or a FIN, establishes the flow before
\* the rest of the packet is served.
Open(k) == /\ packet[k] = "SYN"
           /\ flow[k] = "CLOSED"
           /\ flow' = [flow EXCEPT ![k] = "SYN_RECEIVED"]
           /\ UNCHANGED <<packet, emitted>>

Establish(k) == /\ packet[k] \in {"ACK", "DATA", "FIN"}
                /\ flow[k] = "SYN_RECEIVED"
                /\ flow' = [flow EXCEPT ![k] = "ESTABLISHED"]
                /\ UNCHANGED <<packet, emitted>>

\* The SYN of a flow the table holds is answered; a SYN without an answer is
\* one the full table refused.
Syn(k) == /\ packet[k] = "SYN"
          /\ Serve(k, flow[k], flow[k] # "CLOSED")

Rst(k) == /\ packet[k] = "RST"
          /\ Serve(k, "CLOSED", FALSE)

\* Data and FIN on an established flow always get an answer.
Segment(k) ==
    /\ packet[k] \in {"ACK", "DATA", "FIN"}
    /\ \/ flow[k] # "ESTABLISHED" /\ Serve(k, flow[k], FALSE)
       \/ /\ flow[k] = "ESTABLISHED"
          /\ \E reply \in (IF packet[k] = "ACK" THEN BOOLEAN ELSE {TRUE}) :
                Serve(k, "ESTABLISHED", reply)
       \/ /\ flow[k] = "ESTABLISHED" /\ packet[k] = "FIN"
          /\ Serve(k, "CLOSED", TRUE)

Next == Dispatch \/ \E k \in Keys : Open(k) \/ Syn(k) \/ Rst(k) \/ Establish(k) \/ Segment(k)

Spec == Init /\ [][Next]_vars
=============================================================================
