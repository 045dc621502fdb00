---------------------------- MODULE MCSelfUpdate ----------------------------
(* SelfUpdate on small sets. *)
EXTENDS SelfUpdate
=============================================================================
