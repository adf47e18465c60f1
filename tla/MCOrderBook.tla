---------------------------- MODULE MCOrderBook ----------------------------
(***************************************************************************)
(* OrderBook for TLC.  Three orders let a level hold several and a book    *)
(* hold several levels; three prices are one more than the levels of a     *)
(* side; an erase in the order table may move any other order.             *)
(***************************************************************************)
EXTENDS OrderBook

CONSTANTS o1, o2, o3
MCIds == {o1, o2, o3}
Symmetric == Permutations(MCIds)
AllChained == MCIds \X MCIds
=============================================================================
