----------------------------- MODULE MCFlowSession -----------------------------
(***************************************************************************)
(* FlowSession with two requests, answered differently, and two segments   *)
(* in flight each way.  Both streams wrap around.                          *)
(***************************************************************************)
EXTENDS FlowSession, TLC

MCRequests == <<[len |-> 2, request |-> 1], [len |-> 1, request |-> 2]>>
MCResponseLength == 1 :> 2 @@ 2 :> 3

\* What the proofs of TcpProofs assume of the instance.
ASSUME SessionIsShort == ShortSession
=============================================================================
