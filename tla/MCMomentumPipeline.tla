------------------------- MODULE MCMomentumPipeline --------------------------
(* Instance of MomentumPipeline for TLC: one score in every band.          *)
EXTENDS MomentumPipeline

MCScore == {0, 1, 2, 3}
=============================================================================
