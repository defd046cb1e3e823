-------------------------- MODULE MCPacketEngines --------------------------
(***************************************************************************)
(* PacketEngines with four sequence numbers, requests of one and two bytes  *)
(* and responses of two and three, so that both streams wrap around.       *)
(***************************************************************************)
EXTENDS PacketEngines, TLC

MCResponseLength == 1 :> 2 @@ 2 :> 3
MCSegments ==
    [flags : {{"SYN"}, {"SYN", "RST"}, {"SYN", "ACK"}, {"RST"}, {"ACK"}, {"ACK", "FIN"}, {"FIN"}, {}},
     seq : SeqNumbers, ack : SeqNumbers, len : Lens, request : Responses]
=============================================================================
