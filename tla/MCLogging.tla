----------------------------- MODULE MCLogging -----------------------------
(***************************************************************************)
(* Logging for TLC: three threads and a registration queue of two places,  *)
(* so that a registration can be refused, or wait behind another; as many  *)
(* log statements as fill one ring, or two places of each queue, and one   *)
(* more.                                                                   *)
(***************************************************************************)
EXTENDS Logging

CONSTANTS t1, t2, t3
MCThreads == {t1, t2, t3}
=============================================================================
