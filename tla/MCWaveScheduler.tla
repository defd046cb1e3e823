--------------------------- MODULE MCWaveScheduler ---------------------------
(***************************************************************************)
(* WaveScheduler on batches of up to three packets of two flows, and       *)
(* packets of none, of one or two words.  Waves take two packets; the      *)
(* device binds a buffer for both, for one of them, or one word more.      *)
(***************************************************************************)
EXTENDS WaveScheduler

CONSTANTS f1, f2

MCFlows == {f1, f2}
=============================================================================
