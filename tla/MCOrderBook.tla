---------------------------- MODULE MCOrderBook ----------------------------
(***************************************************************************)
(* OrderBook for TLC: the orders are alike.                                *)
(***************************************************************************)
EXTENDS OrderBook

AlikeOrders == Permutations(Orders)
=============================================================================
