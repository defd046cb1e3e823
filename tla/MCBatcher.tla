------------------------------ MODULE MCBatcher ------------------------------
(***************************************************************************)
(* Batcher with a queue of two, batches of two and two clients with three  *)
(* submits each: a client that gives up and submits again fills the queue, *)
(* so that a submit is refused, while the worker holds a batch.            *)
(***************************************************************************)
EXTENDS Batcher, TLC

CONSTANTS c1, c2

Clients2 == {c1, c2}
=============================================================================
