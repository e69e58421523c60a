------------------------------- MODULE MCCache -------------------------------
(* Symmetry for the configuration of Cache. *)
EXTENDS Cache, TLC

Symmetry == Permutations(Procs)
=============================================================================
