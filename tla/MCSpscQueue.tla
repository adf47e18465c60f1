---------------------------- MODULE MCSpscQueue ----------------------------
(***************************************************************************)
(* SpscQueue for TLC: two items, so that a swapped or repeated one shows,  *)
(* and counters that wrap after two laps of the ring, so that the state    *)
(* space is finite without a bound on the number of calls.                 *)
(***************************************************************************)
EXTENDS SpscQueue

CONSTANTS a, b
MCItem == {a, b}
=============================================================================
