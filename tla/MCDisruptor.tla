---------------------------- MODULE MCDisruptor ----------------------------
(***************************************************************************)
(* Disruptor for TLC: two slots and two consumers, each of which may       *)
(* subscribe before, during or after the first lap, or never.              *)
(***************************************************************************)
EXTENDS Disruptor

CONSTANTS c1, c2
MCConsumers == {c1, c2}
=============================================================================
