---------------------------- MODULE MCWorkerPool ----------------------------
(* One loop with more calls than threads, and a second one that shares the *)
(* threads.                                                                *)
EXTENDS WorkerPool, TLC
CONSTANTS main, other, c1, c2, c3, c4

MCLoopOf == c1 :> main @@ c2 :> main @@ c3 :> main @@ c4 :> other
=============================================================================
