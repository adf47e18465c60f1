----------------------------- MODULE MpscQueue -----------------------------
(***************************************************************************)
(* include/lockfree/mpsc_queue.h: producers claim positions of a ring by   *)
(* CAS on producer_ and publish them through the slot's sequence number;   *)
(* one consumer takes them in order.  A step is one access to shared       *)
(* memory.  A relaxed load of producer_ may return an old value, never one *)
(* older than the thread has seen; compare_exchange_weak may fail without  *)
(* a reason.  Sequence numbers are 64 bits wide and do not wrap here:      *)
(* MaxPushes, which no part of the code has, bounds them.                  *)
(***************************************************************************)
EXTENDS Integers, FiniteSets

CONSTANTS Capacity,  \* template parameter N
          Producers, \* threads that push
          Item, Raw, \* values of T; storage without one
          Nobody, Lost, \* see TicketQueue
          MayThrow,  \* TRUE when T's constructor or move assignment can throw
          MaxPushes  \* no push begins after so many positions are claimed

\* N >= 2: with one slot, "published" and "free for the next lap" are one number.
ASSUME RingAssumption == Capacity \in Nat /\ Capacity >= 2 /\ MaxPushes \in Nat
ASSUME MpscAssumption == /\ Raw \notin Item /\ MayThrow \in BOOLEAN
                         /\ Nobody # Lost /\ {Nobody, Lost} \cap Producers = {}

VARIABLES producer, \* producer_.value: the next position to claim
          consumer, \* consumer_.value: the next position to pop
          seq,      \* slots_[i].seq
          slots,    \* slots_[i].storage
          pc, head, arg, \* per producer: next access, local head, argument
          cpc,      \* next access of the consumer's try_pop
          out       \* the caller's variable that try_pop assigns

ringVars == <<producer, seq, slots>>
pushVars == <<pc, head, arg>>
popVars == <<consumer, cpc, out>>
vars == <<ringVars, pushVars, popVars>>

Slot == 0 .. Capacity - 1
SlotOf(pos) == pos % Capacity

Init ==
    /\ producer = 0 /\ consumer = 0
    /\ seq = [s \in Slot |-> s]
    /\ slots = [s \in Slot |-> Raw]
    /\ pc = [p \in Producers |-> "idle"]
    /\ head = [p \in Producers |-> 0]
    /\ arg = [p \in Producers |-> Raw]
    /\ cpc = "idle" /\ out = Raw

Goto(p, label) == pc' = [pc EXCEPT ![p] = label]

-----------------------------------------------------------------------------
\* try_push: the first load of producer_ ...
PushBegin(p, x) ==
    /\ pc[p] = "idle" /\ producer < MaxPushes
    /\ \E h \in head[p] .. producer : head' = [head EXCEPT ![p] = h]
    /\ arg' = [arg EXCEPT ![p] = x]
    /\ Goto(p, "seq")
    /\ UNCHANGED <<ringVars, popVars>>

\* ... the slot's sequence number decides: claim, give up, or look again ...
Lag(p) == seq[SlotOf(head[p])] - head[p]

PushLoadSeqNoReload(p) ==        \* mutant: a slot that moved on is taken for full
    /\ pc[p] = "seq"
    /\ IF Lag(p) = 0 THEN Goto(p, "cas") ELSE Goto(p, "idle")
    /\ UNCHANGED <<ringVars, head, arg, popVars>>

PushLoadSeq(p) ==
    /\ pc[p] = "seq"
    /\ \/ Lag(p) = 0 /\ Goto(p, "cas")
       \/ Lag(p) < 0 /\ Goto(p, "idle")                      \* return false
       \/ Lag(p) > 0 /\ Goto(p, "reload")
    /\ UNCHANGED <<ringVars, head, arg, popVars>>

PushReload(p) ==
    /\ pc[p] = "reload"
    /\ \E h \in head[p] .. producer : head' = [head EXCEPT ![p] = h]
    /\ Goto(p, "seq")
    /\ UNCHANGED <<ringVars, arg, popVars>>

\* ... compare_exchange_weak(head, head + 1) ...
PushClaimNoCompare(p) ==         \* mutant: a store instead of the CAS
    /\ pc[p] = "cas"
    /\ producer' = head[p] + 1
    /\ Goto(p, "construct")
    /\ UNCHANGED <<seq, slots, head, arg, popVars>>

PushClaim(p) ==
    /\ pc[p] = "cas"
    /\ producer = head[p]
    /\ producer' = producer + 1
    /\ Goto(p, "construct")
    /\ UNCHANGED <<seq, slots, head, arg, popVars>>

PushClaimFails(p) ==
    /\ pc[p] = "cas"
    /\ head' = [head EXCEPT ![p] = producer]
    /\ Goto(p, "seq")
    /\ UNCHANGED <<ringVars, arg, popVars>>

\* ... construct_at, which may throw out of try_push with the slot claimed ...
PushConstruct(p) ==
    /\ pc[p] = "construct"
    /\ slots' = [slots EXCEPT ![SlotOf(head[p])] = arg[p]]
    /\ Goto(p, "publish")
    /\ UNCHANGED <<producer, seq, head, arg, popVars>>

PushThrow(p) ==
    /\ MayThrow
    /\ pc[p] = "construct"
    /\ Goto(p, "idle")
    /\ UNCHANGED <<ringVars, head, arg, popVars>>

\* ... and seq.store(head + 1).
PushPublishUnmarked(p) ==        \* mutant: head for head + 1
    /\ pc[p] = "publish"
    /\ Goto(p, "idle")
    /\ UNCHANGED <<ringVars, head, arg, popVars>>

PushPublish(p) ==
    /\ pc[p] = "publish"
    /\ seq' = [seq EXCEPT ![SlotOf(head[p])] = head[p] + 1]
    /\ Goto(p, "idle")
    /\ UNCHANGED <<producer, slots, head, arg, popVars>>

-----------------------------------------------------------------------------
\* try_pop: is the slot at consumer_ published?
ReadyTooSoon == seq[SlotOf(consumer)] >= consumer    \* mutant: claimed is enough
Ready == seq[SlotOf(consumer)] = consumer + 1

PopBegin ==
    /\ cpc = "idle"
    /\ cpc' = IF Ready THEN "move" ELSE "idle"               \* else return false
    /\ UNCHANGED <<ringVars, pushVars, consumer, out>>

PopMove ==
    /\ cpc = "move"
    /\ out' = slots[SlotOf(consumer)]
    /\ cpc' = "destroy"
    /\ UNCHANGED <<ringVars, pushVars, consumer>>

PopThrow ==
    /\ MayThrow
    /\ cpc = "move"
    /\ cpc' = "idle"
    /\ UNCHANGED <<ringVars, pushVars, consumer, out>>

PopDestroy ==
    /\ cpc = "destroy"
    /\ slots' = [slots EXCEPT ![SlotOf(consumer)] = Raw]
    /\ cpc' = "free"
    /\ UNCHANGED <<producer, seq, pushVars, consumer, out>>

\* seq.store(tail + N) gives the slot to the next lap ...
PopFree ==
    /\ cpc = "free"
    /\ seq' = [seq EXCEPT ![SlotOf(consumer)] = consumer + Capacity]
    /\ cpc' = "advance"
    /\ UNCHANGED <<producer, slots, pushVars, consumer, out>>

\* ... before consumer_.store(tail + 1).
PopAdvance ==
    /\ cpc = "advance"
    /\ consumer' = consumer + 1
    /\ cpc' = "idle"
    /\ UNCHANGED <<ringVars, pushVars, out>>

-----------------------------------------------------------------------------
\* A try_push that has begun; beginning one is the caller's choice.
PushStep(p) ==
    \/ PushLoadSeq(p) \/ PushReload(p) \/ PushClaim(p) \/ PushClaimFails(p)
    \/ PushConstruct(p) \/ PushThrow(p) \/ PushPublish(p)
Pop == PopBegin \/ PopMove \/ PopThrow \/ PopDestroy \/ PopFree \/ PopAdvance

Next == Pop \/ \E p \in Producers : PushStep(p) \/ \E x \in Item : PushBegin(p, x)

Spec == Init /\ [][Next]_vars

\* Threads that are in a call are scheduled, and the consumer polls.  A weak CAS
\* that can succeed does so in the end, a reload sees the present value, and a
\* move assignment does not throw for ever.
FreshReload(p) == PushReload(p) /\ head'[p] = producer

Fairness ==
    /\ WF_vars(Pop) /\ SF_vars(PopMove)
    /\ \A p \in Producers : /\ WF_vars(PushStep(p))
                            /\ SF_vars(PushClaim(p)) /\ SF_vars(FreshReload(p))

FairSpec == Spec /\ Fairness

-----------------------------------------------------------------------------
Holds(p) == pc[p] \in {"construct", "publish"}

\* The first position whose slot the consumer has not given back.
Unfreed == IF cpc = "advance" THEN consumer + 1 ELSE consumer

\* Two producers never hold the same slot, and none holds the slot the consumer
\* is moving from, however the claims, retries and laps interleave; what each
\* finds there is what it needs.
ExclusiveSlots ==
    /\ \A p, q \in Producers : p # q /\ Holds(p) /\ Holds(q)
                                 => SlotOf(head[p]) # SlotOf(head[q])
    /\ \A p \in Producers : Holds(p) /\ cpc \in {"move", "destroy", "free"}
                                 => SlotOf(head[p]) # SlotOf(consumer)
    /\ \A p \in Producers : pc[p] = "construct" => slots[SlotOf(head[p])] = Raw
    /\ cpc \in {"move", "destroy"} => slots[SlotOf(consumer)] \in Item

\* try_push gives up only when Capacity positions are claimed and not given
\* back, although it looks at one slot, through a head that may be old.
RefusedOnlyWhenFull ==
    [][\A p \in Producers : pc[p] = "seq" /\ pc'[p] = "idle"
                              => producer - Unfreed >= Capacity]_vars

-----------------------------------------------------------------------------
\* The tickets are the positions from the first one not taken to producer_.
FirstTicket == IF cpc \in {"destroy", "free", "advance"} THEN consumer + 1 ELSE consumer

Ticket(pos) ==
    IF seq[SlotOf(pos)] = pos + 1
      THEN [item |-> slots[SlotOf(pos)], by |-> Nobody]
      ELSE LET owners == {p \in Producers : Holds(p) /\ head[p] = pos}
           IN  IF owners = {} THEN [item |-> Raw, by |-> Lost]
               ELSE LET p == CHOOSE q \in owners : TRUE IN [item |-> arg[p], by |-> p]

Tickets == [i \in 1 .. producer - FirstTicket |-> Ticket(FirstTicket + i - 1)]

Queue == INSTANCE TicketQueue WITH tickets <- Tickets, NoItem <- Raw

\* Items are delivered in the order in which their slots were claimed, each once,
\* and the value delivered is the one pushed.  A constructor that throws after the
\* claim costs every later item: its ticket is never filled (mpsc_queue.h:63-65).
ImplementsTickets == Queue!TicketSpec

\* A claimed position is delivered in the end, unless a constructor threw at it
\* or at one before it: neither a slow producer nor the order in which slots are
\* published can lose it.
Thrown(pos) ==
    /\ pos < producer /\ seq[SlotOf(pos)] = pos /\ slots[SlotOf(pos)] = Raw
    /\ ~\E p \in Producers : Holds(p) /\ head[p] = pos
ClaimedDelivered ==
    \A n \in 0 .. MaxPushes - 1 : (producer > n) ~> (consumer > n \/ \E pos \in FirstTicket .. n : Thrown(pos))

-----------------------------------------------------------------------------
\* The inductive invariant behind ExclusiveSlots and RefusedOnlyWhenFull.  It
\* speaks of positions, one lap from the first that is not given back, where the
\* code has slots and numbers.
Window == Unfreed .. Unfreed + Capacity - 1
Publishing(pos) == \E p \in Producers : pc[p] = "publish" /\ head[p] = pos

TypeOK ==
    /\ producer \in Nat /\ consumer \in Nat
    /\ seq \in [Slot -> Nat] /\ slots \in [Slot -> Item \cup {Raw}]
    /\ pc \in [Producers -> {"idle", "seq", "reload", "cas", "construct", "publish"}]
    /\ head \in [Producers -> Nat] /\ arg \in [Producers -> Item \cup {Raw}]
    /\ cpc \in {"idle", "move", "destroy", "free", "advance"}

Positions ==
    /\ Unfreed <= producer /\ producer <= Unfreed + Capacity
    /\ \A p \in Producers : head[p] <= producer

\* A slot's number is the position to be claimed, or claimed and not yet filled,
\* or one more when it is published.
Numbers ==
    \A pos \in Window :
        \/ seq[SlotOf(pos)] = pos
        \/ seq[SlotOf(pos)] = pos + 1 /\ pos < producer

\* What a producer knows: one that is about to claim has seen room, and room is
\* not lost by waiting.
Claims ==
    \A p \in Producers :
        /\ pc[p] # "idle" => arg[p] \in Item
        /\ pc[p] = "cas" => head[p] < Unfreed + Capacity
        /\ Holds(p) => /\ head[p] >= Unfreed /\ head[p] < producer
                       /\ seq[SlotOf(head[p])] = head[p]
        /\ pc[p] = "publish" => slots[SlotOf(head[p])] = arg[p]
        /\ \A q \in Producers : p # q /\ Holds(p) /\ Holds(q) => head[p] # head[q]

Storage ==
    \A pos \in Window :
        /\ seq[SlotOf(pos)] = pos => slots[SlotOf(pos)] = Raw \/ Publishing(pos)
        /\ seq[SlotOf(pos)] = pos + 1 =>
              slots[SlotOf(pos)] \in Item \/ (pos = consumer /\ cpc = "free")

Taking ==
    /\ cpc \in {"move", "destroy", "free"} =>
          consumer < producer /\ seq[SlotOf(consumer)] = consumer + 1
    /\ cpc = "free" => slots[SlotOf(consumer)] = Raw

RingInv == TypeOK /\ Positions /\ Numbers /\ Claims /\ Storage /\ Taking

=============================================================================
