-------------------------- MODULE MCMarketStreams --------------------------
(* A symbol of each consumer, the first of them the default, and a second  *)
(* hub connection beside a leaked one.                                     *)
EXTENDS MarketStreams
CONSTANTS eur, btc, c1, c2
=============================================================================
