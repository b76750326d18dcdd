------------------------ MODULE MCCompletionDelivery ------------------------
(* A small instance of CompletionDelivery for TLC. *)
EXTENDS CompletionDelivery

CONSTANTS w1, w2, q1
=============================================================================
