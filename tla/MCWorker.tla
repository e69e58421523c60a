------------------------------ MODULE MCWorker ------------------------------
(* Symmetry for the safety runs of Worker. *)
EXTENDS Worker, TLC

Symmetry == Permutations(Callers) \cup Permutations(Keys \ Slots)
=============================================================================
