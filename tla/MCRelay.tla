------------------------------ MODULE MCRelay ------------------------------
(* An instance of Relay for TLC. *)
EXTENDS Relay

(* Two pieces one way, so that order matters, and an answer.               *)
MCMaxData == [up |-> 2, down |-> 1]
=============================================================================
