---------------------------- MODULE MCPacketDaemon ----------------------------
(***************************************************************************)
(* PacketDaemon with the instance of MCWaveScheduler: batches of a direct  *)
(* caller of up to three packets of two flows or none, one or two words    *)
(* long; the daemon reads four packets in batches of up to two, so that it *)
(* uses buffers again.                                                     *)
(***************************************************************************)
EXTENDS PacketDaemon

CONSTANTS f1, f2

MCFlows == {f1, f2}
=============================================================================
