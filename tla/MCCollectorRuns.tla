--------------------------- MODULE MCCollectorRuns ---------------------------
(* Model-checking instance of CollectorRuns. *)
EXTENDS CollectorRuns, TLC
=============================================================================
