-------------------------- MODULE MCSymbolUniverse --------------------------
(* Model-checking instance of SymbolUniverse. *)
EXTENDS SymbolUniverse, TLC
=============================================================================
