---------------------------- MODULE MCRunManager ----------------------------
(* Instances of RunManager: one busy Session. *)
EXTENDS RunManager

CONSTANTS s1, d1, d2, t1

SessionOfOne == [i \in Inputs |-> s1]
=============================================================================
