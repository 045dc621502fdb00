--------------------------- MODULE MCSupervisor ---------------------------
(* Instances of Supervisor for TLC. *)
EXTENDS Supervisor

CONSTANT k1
=============================================================================
