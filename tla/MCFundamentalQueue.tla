------------------------- MODULE MCFundamentalQueue -------------------------
(* Model-checking instance of FundamentalQueue: three rows, two of them of  *)
(* one symbol (it is a candidate of two scanners).                          *)
EXTENDS FundamentalQueue, TLC
MCRow == 1..3
MCSymbolOf == [r \in MCRow |-> IF r = 3 THEN "B" ELSE "A"]
Symmetry == Permutations(Proc) \cup Permutations(Slot)
MCRank == [r \in MCRow |-> r]
=============================================================================
