---------------------------- MODULE MCOrderbook ----------------------------
(* Instance of the order book for TLC. *)
EXTENDS Orderbook, TLC

\* Ids are interchangeable in Orderbook: no operation compares two of them.
OrderIdSymmetry == Permutations(OrderId)
=============================================================================
