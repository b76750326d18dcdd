------------------------- MODULE MCSnapshotBarrier -------------------------
(* A full snapshot, and a configuration backup that copies the documents. *)
EXTENDS SnapshotBarrier

CONSTANTS worker, task, full, backup, documents, agents, sessions, usage

MCCopied == [c \in Captures |-> IF c = full THEN Members ELSE {documents}]
=============================================================================
