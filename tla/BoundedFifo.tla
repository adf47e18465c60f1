---------------------------- MODULE BoundedFifo ----------------------------
(***************************************************************************)
(* What a single-consumer queue promises its two callers: items come out   *)
(* in the order they went in, each exactly once, and never more than       *)
(* Capacity of them are held.  A refused try_push or try_pop leaves both   *)
(* variables alone, so it is a stuttering step here.                       *)
(***************************************************************************)
EXTENDS Naturals, Sequences

CONSTANTS Capacity, \* slots of the ring
          Item,     \* values pushed
          NoItem    \* content of the caller's variable before the first pop

VARIABLES queue,    \* items accepted and not yet delivered, oldest first
          out       \* last item delivered

fifoVars == <<queue, out>>

FifoInit == queue = <<>> /\ out = NoItem

Push(x) ==
    /\ Len(queue) < Capacity
    /\ queue' = Append(queue, x)
    /\ UNCHANGED out

Pop ==
    /\ queue # <<>>
    /\ out' = Head(queue)
    /\ queue' = Tail(queue)

FifoNext == Pop \/ \E x \in Item : Push(x)

FifoSpec == FifoInit /\ [][FifoNext]_fifoVars

\* The same promise for a consumer that keeps polling: nothing stays queued.
FifoFairSpec == FifoSpec /\ WF_fifoVars(Pop)
=============================================================================
