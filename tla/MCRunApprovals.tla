-------------------------- MODULE MCRunApprovals --------------------------
(* A call that wants to read and one that wants to write, of one Run that  *)
(* two observers follow.                                                   *)
EXTENDS RunApprovals

CONSTANTS c1, c2, r1, w1, w2, read, write

MCRunOf == [c \in Calls |-> r1]
MCFollows == [w \in Observers |-> r1]
MCWants == [c \in Calls |-> IF c = c1 THEN read ELSE write]
\* Rejecting the read excludes the write, not the other way round.
MCCovers == {<<read, read>>, <<write, write>>, <<read, write>>}
===========================================================================
