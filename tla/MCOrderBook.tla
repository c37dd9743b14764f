----------------------------- MODULE MCOrderBook -----------------------------
(* The order book on a small instance, for TLC.                            *)
EXTENDS OrderBook

CONSTANT i1
=============================================================================
