------------------------- MODULE MCAdmissionGuards -------------------------
(* An Agent of Project p1 with two Sessions, and an Identity Agent. *)
EXTENDS AdmissionGuards

CONSTANTS s1, s2, s3, builder, main, p1, p2, c1, c2

MCAgentOf == [s \in Sessions |-> IF s = s3 THEN main ELSE builder]
MCAnchorOf == [s \in Sessions |-> IF s = s3 THEN None ELSE p1]
=============================================================================
