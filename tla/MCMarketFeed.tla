---------------------------- MODULE MCMarketFeed ----------------------------
(* Model-checking instance of MarketFeed. *)
EXTENDS MarketFeed, TLC
=============================================================================
