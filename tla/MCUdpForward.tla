--------------------------- MODULE MCUdpForward ---------------------------
(* Instances of UdpForward for TLC. *)
EXTENDS UdpForward, TLC

CONSTANTS c1, c2, c3

(* Client addresses are interchangeable. *)
ClientSymmetry == Permutations(Clients)
=============================================================================
