----------------------------- MODULE Disruptor -----------------------------
(***************************************************************************)
(* include/lockfree/disruptor.h: one producer publishes events into a ring *)
(* and every consumer reads all of them.  An event is named by its number. *)
(* A load of another thread's cursor may return an old value; the producer *)
(* keeps the last value it read of each in view.  An old producer_ only    *)
(* makes wait() turn again and try_consume() return nullptr, which change  *)
(* nothing.  num_consumers_ is not atomic, so subscribe() is called while  *)
(* no publish() runs; it may be called late.                               *)
(***************************************************************************)
EXTENDS Integers

CONSTANTS Consumers, \* at most MaxConsumers of them, which subscribe() asserts
          Capacity,  \* N
          MaxEvents, \* bound: events published
          Unwritten  \* content of a slot while it is assigned, and at first

ASSUME DisruptorAssumption ==
    Capacity \in Nat \ {0} /\ MaxEvents \in Nat /\ Unwritten \notin Nat

VARIABLES producer,   \* producer_: last event published
          slots,      \* slots_: which event each holds
          subscribed, \* the consumers with a token, num_consumers_ of them
          inTime,     \* history: those that subscribed before the ring was reused
          cursor,     \* consumers_[c]: last event consumed
          view,       \* the value of consumers_[c] the producer read last
          ppc,        \* where publish() is: "idle", "gate", "write" or "commit"
          next,       \* tok.next
          holding     \* between wait() or try_consume() and consumed()

producerVars == <<producer, slots, view, ppc>>
consumerVars == <<cursor, next, holding>>
vars == <<producerVars, subscribed, inTime, consumerVars>>

Events == 0 .. MaxEvents - 1
SlotOf(e) == e % Capacity

Init ==
    /\ producer = -1
    /\ slots = [i \in 0 .. Capacity - 1 |-> Unwritten]
    /\ subscribed = {} /\ inTime = {}
    /\ cursor = [c \in Consumers |-> -1]
    /\ view = [c \in Consumers |-> -1]
    /\ ppc = "idle"
    /\ next = [c \in Consumers |-> 0]
    /\ holding = [c \in Consumers |-> FALSE]

-----------------------------------------------------------------------------
\* subscribe(): a new token, which starts at event 0 whatever was published.
Subscribe(c) ==
    /\ ppc = "idle" /\ c \notin subscribed
    /\ subscribed' = subscribed \cup {c}
    /\ inTime' = IF producer < Capacity THEN inTime \cup {c} ELSE inTime
    /\ UNCHANGED <<producerVars, consumerVars>>

\* publish(): enters next_slot().
PublishBegin ==
    /\ ppc = "idle" /\ producer + 1 < MaxEvents
    /\ ppc' = "gate"
    /\ UNCHANGED <<producer, slots, view, subscribed, inTime, consumerVars>>

LoadCursorOnce(c) ==                    \* mutant: loaded before the loop only
    /\ ppc = "gate" /\ c \in subscribed /\ view[c] = -1
    /\ \E seen \in view[c] .. cursor[c] : view' = [view EXCEPT ![c] = seen]
    /\ UNCHANGED <<producer, slots, ppc, subscribed, inTime, consumerVars>>

\* min_consumer_seq(): one load of its loop.
LoadCursor(c) ==
    /\ ppc = "gate" /\ c \in subscribed
    /\ \E seen \in view[c] .. cursor[c] : view' = [view EXCEPT ![c] = seen]
    /\ UNCHANGED <<producer, slots, ppc, subscribed, inTime, consumerVars>>

\* The slot of the event after producer is no longer needed by consumer c.
Room(c) == producer + 1 - view[c] <= Capacity

GateNewest ==                           \* mutant: the maximum of the cursors
    /\ ppc = "gate"
    /\ subscribed # {} => \E c \in subscribed : Room(c)
    /\ slots' = [slots EXCEPT ![SlotOf(producer + 1)] = Unwritten]
    /\ ppc' = "write"
    /\ UNCHANGED <<producer, view, subscribed, inTime, consumerVars>>

\* next_slot() returns and the assignment to the slot begins.
Gate ==
    /\ ppc = "gate"
    /\ \A c \in subscribed : Room(c)
    /\ slots' = [slots EXCEPT ![SlotOf(producer + 1)] = Unwritten]
    /\ ppc' = "write"
    /\ UNCHANGED <<producer, view, subscribed, inTime, consumerVars>>

\* The assignment ends.
Write ==
    /\ ppc = "write"
    /\ slots' = [slots EXCEPT ![SlotOf(producer + 1)] = producer + 1]
    /\ ppc' = "commit"
    /\ UNCHANGED <<producer, view, subscribed, inTime, consumerVars>>

\* commit(), and publish() returns.
Commit ==
    /\ ppc = "commit"
    /\ producer' = producer + 1
    /\ ppc' = "idle"
    /\ UNCHANGED <<slots, view, subscribed, inTime, consumerVars>>

TakeStrict(c) ==                        \* mutant: waits for one event more
    /\ c \in subscribed /\ ~holding[c] /\ producer > next[c]
    /\ holding' = [holding EXCEPT ![c] = TRUE]
    /\ UNCHANGED <<producerVars, subscribed, inTime, cursor, next>>

TakeReleases(c) ==                      \* mutant: the cursor moves too soon
    /\ c \in subscribed /\ ~holding[c] /\ producer >= next[c]
    /\ holding' = [holding EXCEPT ![c] = TRUE]
    /\ cursor' = [cursor EXCEPT ![c] = next[c]]
    /\ UNCHANGED <<producerVars, subscribed, inTime, next>>

\* wait() or try_consume() returns a reference to the slot of tok.next.
Take(c) ==
    /\ c \in subscribed /\ ~holding[c] /\ producer >= next[c]
    /\ holding' = [holding EXCEPT ![c] = TRUE]
    /\ UNCHANGED <<producerVars, subscribed, inTime, cursor, next>>

\* consumed(): gives the slot back.
Consumed(c) ==
    /\ holding[c]
    /\ holding' = [holding EXCEPT ![c] = FALSE]
    /\ cursor' = [cursor EXCEPT ![c] = next[c]]
    /\ next' = [next EXCEPT ![c] = @ + 1]
    /\ UNCHANGED <<producerVars, subscribed, inTime>>

Next ==
    \/ PublishBegin \/ Gate \/ Write \/ Commit
    \/ \E c \in Consumers :
         Subscribe(c) \/ LoadCursor(c) \/ Take(c) \/ Consumed(c)

Spec == Init /\ [][Next]_vars

\* publish(), once called, is run to its end; nothing is said of the consumers.
ProducerSpec ==
    /\ Spec
    /\ WF_vars(Gate \/ Write \/ Commit)
    /\ \A c \in Consumers : WF_vars(LoadCursor(c))

\* Consumer c keeps calling wait() and consumed().
Polls(c) == WF_vars(Take(c)) /\ WF_vars(Consumed(c))

-----------------------------------------------------------------------------
\* The types of the variables.
TypeOK ==
    /\ producer \in {-1} \cup Events
    /\ slots \in [0 .. Capacity - 1 -> Events \cup {Unwritten}]
    /\ subscribed \subseteq Consumers /\ inTime \subseteq subscribed
    /\ cursor \in [Consumers -> {-1} \cup Events]
    /\ view \in [Consumers -> {-1} \cup Events]
    /\ ppc \in {"idle", "gate", "write", "commit"}
    /\ next \in [Consumers -> 0 .. MaxEvents]
    /\ holding \in [Consumers -> BOOLEAN]

(***************************************************************************)
(* "All consumers see every event" (disruptor.h:22), for a consumer that   *)
(* subscribed before the ring was reused: what wait() and try_consume()    *)
(* hand it is the event its token counts, so none is skipped, repeated,    *)
(* lapped by the producer or half assigned.                                *)
(***************************************************************************)
HandedInOrder ==
    \A c \in inTime : holding[c] => slots[SlotOf(next[c])] = next[c]

\* The gate of next_slot(): what was published and is not consumed by such a
\* consumer is still in the ring, also while the producer assigns a slot.
EventsKept ==
    \A c \in inTime : \A e \in next[c] .. producer : slots[SlotOf(e)] = e

\* No consumer takes what is not published, and none that is in time, or that the
\* gate waited for, is more than a full buffer behind.
Window ==
    /\ \A c \in Consumers :
         /\ next[c] = cursor[c] + 1
         /\ view[c] <= cursor[c] /\ cursor[c] <= producer
         /\ holding[c] => c \in subscribed /\ next[c] <= producer
         /\ c \notin subscribed => cursor[c] = -1
    /\ \A c \in subscribed :
         ppc \in {"write", "commit"} => producer + 1 - cursor[c] <= Capacity
    /\ \A c \in inTime : producer - cursor[c] <= Capacity
    /\ ppc # "idle" => producer + 1 < MaxEvents

\* The last Capacity events are in their slots, but for the one being replaced.
Storage ==
    /\ \A e \in Events :
         (/\ e <= producer /\ producer < e + Capacity
          /\ ppc \in {"write", "commit"} => producer + 1 < e + Capacity)
         => slots[SlotOf(e)] = e
    /\ ppc = "commit" => slots[SlotOf(producer + 1)] = producer + 1

\* The inductive invariant of the proof: how far apart the producer, the gate and
\* the consumers can be, and what the ring then holds.
RingInv == TypeOK /\ Window /\ Storage

(***************************************************************************)
(* The reference that wait() or try_consume() returned to any consumer, in *)
(* time or late, is to a slot nobody assigns until its consumed(): it is   *)
(* read without a lock.                                                    *)
(***************************************************************************)
HeldSlotStill ==
    [][\A c \in Consumers :
         holding[c] /\ holding'[c] =>
           slots'[SlotOf(next[c])] = slots[SlotOf(next[c])]]_vars

\* "The producer stalls only when the slowest consumer is a full buffer behind"
\* (disruptor.h:22-23): a publish() leaves the gate, whatever the consumers do
\* from then on, once none is that far behind.
StallsOnlyWhenFull ==
    (ppc = "gate" /\ \A c \in subscribed : producer + 1 - cursor[c] <= Capacity)
      ~> ppc = "idle"

\* A consumer that keeps polling gets every event published, whether or not the
\* other consumers take theirs.
EventsDelivered ==
    \A c \in Consumers : Polls(c) =>
      \A e \in Events : (c \in subscribed /\ producer >= e) ~> next[c] > e
=============================================================================
