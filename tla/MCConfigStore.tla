--------------------------- MODULE MCConfigStore ---------------------------
(* An instance of ConfigStore for TLC. *)
EXTENDS ConfigStore, TLC

CONSTANTS h1, h2

Svc(n, a, s) == [name |-> n, listen |-> a, auto |-> s]

(* One service, and two of which one starts by itself.                     *)
MCInitial == {<<Svc("m", "p", FALSE), Absent>>,
              <<Svc("m", "none", TRUE), Svc("n", "p", FALSE)>>}

HandlerSymmetry == Permutations(Handlers)
=============================================================================
