---------------------------- MODULE MCTradeStream ---------------------------
(* Small instances of TradeStream for TLC. *)
EXTENDS TradeStream, TLC

CONSTANT a1

\* Every print is of the one token.
OneAsset == [p \in Prints |-> a1]
=============================================================================
