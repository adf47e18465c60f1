---------------------------- MODULE MCMpscQueue ----------------------------
(***************************************************************************)
(* MpscQueue for TLC.  Two slots and two laps of pushes let a producer with *)
(* an old head meet the slot's next lap while the other goes round; two     *)
(* items show the order.                                                    *)
(***************************************************************************)
EXTENDS MpscQueue

CONSTANTS a, b, p1, p2
MCItem == {a, b}
MCProducers == {p1, p2}
=============================================================================
