---------------------------- MODULE MCCoalesce ----------------------------
(* Instances of Coalesce for TLC. *)
EXTENDS Coalesce

CONSTANTS w1, w2, c1, c2, s1, s2
=============================================================================
