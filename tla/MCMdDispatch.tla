---------------------------- MODULE MCMdDispatch ----------------------------
(***************************************************************************)
(* MdDispatch for TLC: two workers with a book each and a symbol that has  *)
(* none, one reader, and a second start after any end of the first.        *)
(***************************************************************************)
EXTENDS MdDispatch

CONSTANT r
MCSlots == 0 .. 1
=============================================================================
