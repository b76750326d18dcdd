--------------------------- MODULE MCSharedRefresh ---------------------------
(* Three calls and two runs are enough for one that starts a run, one that  *)
(* joins it and one that waits behind it; nobody is refused for want of a   *)
(* task but a call that would start a third run.                            *)
EXTENDS SharedRefresh
=============================================================================
