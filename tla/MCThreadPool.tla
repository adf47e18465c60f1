---------------------------- MODULE MCThreadPool ----------------------------
(***************************************************************************)
(* ThreadPool for TLC: the owner submits two tasks, so that one stream has  *)
(* an order, another thread one, so that a submit can be under way when the *)
(* pool stops; two workers, alone or in groups; queues of two, so that      *)
(* tasks are refused; a stop, a restart and a second stop.                  *)
(***************************************************************************)
EXTENDS ThreadPool

CONSTANTS main, feed
MCSubmitters == {main, feed}
MCMaxTasks == main :> 2 @@ feed :> 1
=============================================================================
