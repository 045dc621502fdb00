----------------------------- MODULE MCWorkers -----------------------------
(* Workers on small sets. *)
EXTENDS Workers, TLC

Symmetry == Permutations(Pids)
=============================================================================
