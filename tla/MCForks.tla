------------------------------- MODULE MCForks -------------------------------
(* The instance the runs of Forks check. *)
EXTENDS Forks, TLC

Symmetry == Permutations(Callers)
=============================================================================
