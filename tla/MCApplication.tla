--------------------------- MODULE MCApplication ----------------------------
(***************************************************************************)
(* Application for TLC: three modules, two signals and a crash.            *)
(***************************************************************************)
EXTENDS Application
=============================================================================
