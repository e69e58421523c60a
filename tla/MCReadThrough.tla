--------------------------- MODULE MCReadThrough ---------------------------
(* ReadThrough with the values fetch.cfg gives its constants: the run checks *)
(* liveness, so no symmetry.                                                 *)
EXTENDS ReadThrough
=============================================================================
