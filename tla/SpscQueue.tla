----------------------------- MODULE SpscQueue -----------------------------
(***************************************************************************)
(* include/lockfree/spsc_queue.h: one producer thread and one consumer     *)
(* thread over a ring of Capacity slots.  A step is one access to shared   *)
(* memory: a load or store of one of the two counters, or one access to a  *)
(* slot's storage.  An acquire load returns any value the other counter    *)
(* has held since the value this thread saw last (the C++ memory model     *)
(* promises no more); the release store it reads from makes the slot       *)
(* accesses before that store visible, so a slot is never read stale.      *)
(* Counters are unsigned and wrap at CounterModulus (2^64 in the build).   *)
(***************************************************************************)
EXTENDS Integers, FiniteSets

CONSTANTS Capacity,       \* template parameter N
          CounterModulus, \* number of values of std::size_t
          Item,           \* values of T
          Raw,            \* storage that holds no constructed T
          MayThrow        \* TRUE when T's constructor or move assignment can throw

ASSUME CapacityAssumption ==
    /\ Capacity \in Nat \ {0}
    /\ CounterModulus \in Nat
    /\ CounterModulus % Capacity = 0 /\ CounterModulus >= 2 * Capacity
ASSUME ItemAssumption == Raw \notin Item
ASSUME MayThrowAssumption == MayThrow \in BOOLEAN

VARIABLES producer, \* producer_.value
          consumer, \* consumer_.value
          slots,    \* slots_[i].storage
          ppc,      \* next access of the producer thread's try_push
          ptail,    \* its local tail: the last consumer_ value it loaded
          pitem,    \* the argument of that try_push
          cpc,      \* next access of the consumer thread's try_pop
          chead,    \* its local head: the last producer_ value it loaded
          out       \* the caller's variable that try_pop assigns

producerVars == <<ppc, ptail, pitem>>
consumerVars == <<cpc, chead, out>>
vars == <<producer, consumer, slots, ppc, ptail, pitem, cpc, chead, out>>

Counter == 0 .. CounterModulus - 1
Slot == 0 .. Capacity - 1

SlotOf(c) == c % Capacity
Succ(c) == IF c + 1 = CounterModulus THEN 0 ELSE c + 1
Distance(head, tail) ==
    IF head >= tail THEN head - tail ELSE head - tail + CounterModulus

\* The values a load of a counter can return: what the thread saw last, the
\* counter's present value, or anything the counter was in between.
Visible(seen, now) == {c \in Counter : Distance(c, seen) <= Distance(now, seen)}

FullLate(tail) == Distance(producer, tail) > Capacity        \* mutant: off by one
Full(tail) == Distance(producer, tail) >= Capacity

EmptyEarly(head) == Distance(head, consumer) <= 1            \* mutant: off by one
Empty(head) == head = consumer

Init ==
    /\ producer = 0 /\ consumer = 0
    /\ slots = [s \in Slot |-> Raw]
    /\ ppc = "idle" /\ ptail = 0 /\ pitem = Raw
    /\ cpc = "idle" /\ chead = 0 /\ out = Raw

-----------------------------------------------------------------------------
\* bool try_push(args): the two loads and the full test ...
PushBegin(x) ==
    /\ ppc = "idle"
    /\ ptail' \in Visible(ptail, consumer)
    /\ IF Full(ptail')
         THEN UNCHANGED <<ppc, pitem>>                       \* return false
         ELSE ppc' = "construct" /\ pitem' = x
    /\ UNCHANGED <<producer, consumer, slots, consumerVars>>

\* ... std::construct_at ...
PushConstruct ==
    /\ ppc = "construct"
    /\ slots' = [slots EXCEPT ![SlotOf(producer)] = pitem]
    /\ ppc' = "publish"
    /\ UNCHANGED <<producer, consumer, ptail, pitem, consumerVars>>

\* ... which may throw, leaving try_push before the store ...
PushThrow ==
    /\ MayThrow
    /\ ppc = "construct"
    /\ ppc' = "idle"
    /\ UNCHANGED <<producer, consumer, slots, ptail, pitem, consumerVars>>

\* ... and the release store of head + 1.
PushPublish ==
    /\ ppc = "publish"
    /\ producer' = Succ(producer)
    /\ ppc' = "idle"
    /\ UNCHANGED <<consumer, slots, ptail, pitem, consumerVars>>

-----------------------------------------------------------------------------
\* bool try_pop(T& out): the two loads and the empty test ...
PopBegin ==
    /\ cpc = "idle"
    /\ chead' \in Visible(chead, producer)
    /\ cpc' = IF Empty(chead') THEN "idle" ELSE "move"
    /\ UNCHANGED <<producer, consumer, slots, out, producerVars>>

\* ... out = std::move(*ptr) ...
PopMove ==
    /\ cpc = "move"
    /\ out' = slots[SlotOf(consumer)]
    /\ cpc' = "destroy"
    /\ UNCHANGED <<producer, consumer, slots, chead, producerVars>>

PopThrow ==
    /\ MayThrow
    /\ cpc = "move"
    /\ cpc' = "idle"
    /\ UNCHANGED <<producer, consumer, slots, chead, out, producerVars>>

\* ... std::destroy_at(ptr) ...
PopDestroyOmitted ==                           \* mutant: moved from, not destroyed
    /\ cpc = "destroy"
    /\ cpc' = "publish"
    /\ UNCHANGED <<producer, consumer, slots, chead, out, producerVars>>

PopDestroy ==
    /\ cpc = "destroy"
    /\ slots' = [slots EXCEPT ![SlotOf(consumer)] = Raw]
    /\ cpc' = "publish"
    /\ UNCHANGED <<producer, consumer, chead, out, producerVars>>

\* ... and the release store of tail + 1.
PopPublish ==
    /\ cpc = "publish"
    /\ consumer' = Succ(consumer)
    /\ cpc' = "idle"
    /\ UNCHANGED <<producer, slots, chead, out, producerVars>>

-----------------------------------------------------------------------------
Push == PushConstruct \/ PushThrow \/ PushPublish \/ \E x \in Item : PushBegin(x)
Pop == PopBegin \/ PopMove \/ PopThrow \/ PopDestroy \/ PopPublish
Next == Push \/ Pop

Spec == Init /\ [][Next]_vars

\* The consumer keeps polling (as the drain thread of core/logging/src/drain.cpp
\* does), sees a store in finite time and does not throw for ever; the producer
\* may stop anywhere.
FreshPop == chead' = producer /\ PopBegin
PollSpec == Spec /\ WF_vars(Pop) /\ SF_vars(FreshPop) /\ SF_vars(PopMove)

-----------------------------------------------------------------------------
\* Types; the locals start out as the values the constructor leaves.
TypeOK ==
    /\ producer \in Counter /\ consumer \in Counter
    /\ slots \in [Slot -> Item \cup {Raw}]
    /\ ppc \in {"idle", "construct", "publish"}
    /\ cpc \in {"idle", "move", "destroy", "publish"}
    /\ ptail \in Counter /\ chead \in Counter
    /\ pitem \in Item \cup {Raw} /\ out \in Item \cup {Raw}

\* The slot s lies between the counters, so the consumer may look for an item in it.
Published(s) == \E c \in Counter : /\ Distance(c, consumer) < Distance(producer, consumer)
                                  /\ s = SlotOf(c)

\* No T is overwritten, leaked or destroyed twice: a slot holds a constructed
\* item exactly when it is published (and the running pop has not destroyed it)
\* or the running push has just constructed it.  This is what lets the
\* destructor free everything by popping (spsc_queue.h:35).
LiveSlots == \A s \in Slot :
    slots[s] # Raw <=> \/ Published(s) /\ ~(cpc = "publish" /\ s = SlotOf(consumer))
                       \/ ppc = "publish" /\ s = SlotOf(producer)

\* The storage of a slot is never accessed by both threads at once, and each
\* thread finds it as it needs it: raw to construct in, constructed to move from.
SlotHandover ==
    /\ ppc = "construct" => slots[SlotOf(producer)] = Raw
    /\ cpc \in {"move", "destroy"} => slots[SlotOf(consumer)] \in Item
    /\ (ppc \in {"construct", "publish"} /\ cpc \in {"move", "destroy", "publish"})
          => SlotOf(producer) # SlotOf(consumer)

\* size() as the producer or the consumer thread may compute it, from its own
\* counter and any value of the other one it can load, never exceeds the
\* capacity and never wraps below zero (spsc_queue.h:70-73).
OwnerSizeInRange ==
    /\ \A c \in Visible(ptail, consumer) : Distance(producer, c) \in 0 .. Capacity
    /\ \A c \in Visible(chead, producer) : Distance(c, consumer) \in 0 .. Capacity

\* The strengthening that makes the three invariants above inductive.  Window: the
\* producer's view of the consumer lags behind it by no more than the ring allows,
\* and the consumer's view of the producer lies in what is published.  Storage:
\* LiveSlots told by counter value instead of by slot.
Window ==
    /\ Distance(producer, ptail) <= Capacity
    /\ Distance(consumer, ptail) <= Distance(producer, ptail)
    /\ Distance(chead, consumer) <= Distance(producer, consumer)
    /\ ppc # "idle" => Distance(producer, ptail) < Capacity /\ pitem \in Item
    /\ cpc # "idle" => chead # consumer

Constructed(c) ==
    \/ /\ Distance(c, consumer) < Distance(producer, consumer)
       /\ ~(cpc = "publish" /\ c = consumer)
    \/ ppc = "publish" /\ c = producer

Storage == \A c \in Counter :
    Distance(c, consumer) < Capacity => (slots[SlotOf(c)] # Raw <=> Constructed(c))

RingInv == TypeOK /\ Window /\ Storage

-----------------------------------------------------------------------------
\* The ring read as a sequence: the published items, less the one that the
\* running pop has already moved out.
Taken == IF cpc \in {"destroy", "publish"} THEN 1 ELSE 0
Queued == [i \in 1 .. Distance(producer, consumer) - Taken |->
              slots[SlotOf(consumer + Taken + i - 1)]]

Fifo == INSTANCE BoundedFifo WITH queue <- Queued, NoItem <- Raw

\* Every try_push that returns true appends one item and every try_pop that
\* returns true takes the oldest one: order kept, nothing lost or duplicated.  And
\* a consumer that keeps polling is handed everything queued, the last item
\* included, though the producer may be silent ever after and a load may show an
\* old counter any finite number of times.
ImplementsFifo == Fifo!FifoFairSpec

=============================================================================
