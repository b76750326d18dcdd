---------------------------- MODULE MCOnceFire ----------------------------
(* Instances of OnceFire: two instants, two attempts.                      *)
EXTENDS OnceFire
===========================================================================
