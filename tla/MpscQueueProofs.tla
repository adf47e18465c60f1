-------------------------- MODULE MpscQueueProofs --------------------------
(***************************************************************************)
(* The safety of MpscQueue for every capacity of at least two, every set   *)
(* of producers and items, and any number of pushes.                       *)
(***************************************************************************)
EXTENDS MpscQueue, SequenceTheorems, TLAPS

(* ---- arithmetic of the ring ------------------------------------------ *)

\* kMask maps every position to a slot.
LEMMA SlotOfType ==
    \A x \in Nat : /\ SlotOf(x) \in Slot
                   /\ x \div Capacity \in Nat
                   /\ x = Capacity * (x \div Capacity) + SlotOf(x)
  BY RingAssumption DEF SlotOf, Slot

\* Two positions less than a lap apart have different slots.
LEMMA OtherSlot ==
    ASSUME NEW x \in Nat, NEW y \in Nat, x < y, y < x + Capacity
    PROVE  SlotOf(x) # SlotOf(y)
<1> SUFFICES ASSUME SlotOf(x) = SlotOf(y) PROVE FALSE
  OBVIOUS
<1> DEFINE k == x \div Capacity
           l == y \div Capacity
           r == SlotOf(x)
<1>1. /\ k \in Nat /\ l \in Nat /\ r \in Nat /\ Capacity \in Nat /\ Capacity > 0
      /\ x = Capacity * k + r /\ y = Capacity * l + r
  BY SlotOfType, RingAssumption DEF Slot
<1> HIDE DEF k, l, r
<1>2. y - x = Capacity * (l - k)
  BY <1>1
<1>3. ~(l - k <= 0) /\ ~(l - k >= 1)
  BY <1>1, <1>2
<1> QED
  BY <1>1, <1>3

\* The remainder of a multiple of the capacity plus a slot is the slot.
LEMMA RemainderOfSum ==
    ASSUME NEW k \in Nat, NEW s \in Slot
    PROVE  Capacity * k + s \in Nat /\ SlotOf(Capacity * k + s) = s
<1> DEFINE x == Capacity * k + s
           l == x \div Capacity
           r == SlotOf(x)
<1>1. Capacity \in Nat /\ Capacity > 0 /\ s \in Nat /\ s < Capacity
  BY RingAssumption DEF Slot
<1>2. x \in Nat
  BY <1>1
<1>3. l \in Nat /\ r \in Nat /\ r < Capacity /\ Capacity * l + r = Capacity * k + s
  BY <1>2, SlotOfType, RingAssumption DEF Slot
<1>4. l = k
  <2> HIDE DEF x, l, r
  <2>1. Capacity * (l - k) = s - r /\ Capacity * (k - l) = r - s
    BY <1>1, <1>3
  <2>2. ~(l - k >= 1) /\ ~(k - l >= 1)
    BY <1>1, <1>3, <2>1
  <2> QED
    BY <1>3, <2>2
<1>5. r = s
  <2> HIDE DEF l, r
  <2> QED
    BY <1>1, <1>3, <1>4
<1> QED
  BY <1>2, <1>5

\* The position one lap later has the same slot.
LEMMA NextLap ==
    ASSUME NEW x \in Nat
    PROVE  SlotOf(x + Capacity) = SlotOf(x)
<1>1. PICK k \in Nat, s \in Slot : x = Capacity * k + s /\ s = SlotOf(x)
  BY SlotOfType
<1>2. x + Capacity = Capacity * (k + 1) + s
  BY <1>1, RingAssumption DEF Slot
<1>3. k + 1 \in Nat
  OBVIOUS
<1>4. SlotOf(Capacity * (k + 1) + s) = s
  BY <1>3, RemainderOfSum
<1> QED
  BY <1>1, <1>2, <1>4

\* Every slot has a position in the lap that begins at u.
LEMMA EverySlot ==
    ASSUME NEW u \in Nat, NEW s \in Slot
    PROVE  \E pos \in u .. u + Capacity - 1 : SlotOf(pos) = s
<1> DEFINE k == u \div Capacity
<1>1. /\ k \in Nat /\ SlotOf(u) \in Nat /\ SlotOf(u) < Capacity /\ u = Capacity * k + SlotOf(u)
      /\ Capacity \in Nat /\ Capacity >= 2 /\ s \in Nat /\ s < Capacity
  <2>1. k \in Nat /\ SlotOf(u) \in Slot /\ u = Capacity * k + SlotOf(u)
    BY SlotOfType
  <2> QED
    BY <2>1, RingAssumption DEF Slot
<1> HIDE DEF k
<1>2. CASE s >= SlotOf(u)
  <2>1. Capacity * k + s \in u .. u + Capacity - 1
    <3>1. Capacity * k \in Nat
      BY <1>1
    <3> QED
      BY <1>1, <1>2, <3>1
  <2> QED
    BY <1>1, <2>1, RemainderOfSum
<1>3. CASE s < SlotOf(u)
  <2>1. k + 1 \in Nat /\ Capacity * (k + 1) = Capacity * k + Capacity /\ Capacity * k \in Nat
    BY <1>1
  <2>2. Capacity * (k + 1) + s \in u .. u + Capacity - 1
    BY <1>1, <1>3, <2>1
  <2> QED
    BY <2>1, <2>2, RemainderOfSum
<1> QED
  BY <1>1, <1>2, <1>3

(* ---- the lap that is in use ------------------------------------------ *)

\* Its positions have different slots.
LEMMA LapSlots ==
    ASSUME TypeOK
    PROVE  /\ Unfreed \in Nat /\ Capacity \in Nat /\ Capacity >= 2 /\ Window \subseteq Nat
           /\ \A x \in Window : SlotOf(x) \in Slot
           /\ \A x, y \in Window : x # y => SlotOf(x) # SlotOf(y)
<1>1. Unfreed \in Nat /\ Capacity \in Nat /\ Capacity >= 2
  BY RingAssumption DEF TypeOK, Unfreed
<1>2. Window \subseteq Nat
  BY <1>1 DEF Window
<1>3. \A x \in Window : SlotOf(x) \in Slot
  BY <1>2, SlotOfType
<1>4. ASSUME NEW x \in Window, NEW y \in Window, x # y PROVE SlotOf(x) # SlotOf(y)
  <2>1. CASE x < y
    BY <1>1, <1>2, <2>1, OtherSlot DEF Window
  <2>2. CASE y < x
    BY <1>1, <1>2, <2>2, OtherSlot DEF Window
  <2> QED
    BY <1>2, <1>4, <2>1, <2>2
<1> QED
  BY <1>1, <1>2, <1>3, <1>4

\* A producer holds a position of it, the consumer another.
LEMMA HeldPositions ==
    ASSUME RingInv, NEW p \in Producers, Holds(p)
    PROVE  /\ head[p] \in Window /\ seq[SlotOf(head[p])] = head[p]
           /\ \A q \in Producers : p # q /\ Holds(q) => head[p] # head[q]
           /\ cpc \in {"move", "destroy", "free"} => head[p] # consumer
<1>1. head[p] \in Nat /\ producer \in Nat /\ consumer \in Nat
  BY DEF RingInv, TypeOK
<1>2. head[p] >= Unfreed /\ head[p] < producer /\ seq[SlotOf(head[p])] = head[p]
  BY DEF RingInv, Claims
<1>3. producer <= Unfreed + Capacity /\ Unfreed \in Nat /\ Capacity \in Nat
  BY LapSlots DEF RingInv, Positions
<1>4. head[p] \in Window
  BY <1>1, <1>2, <1>3 DEF Window
<1>5. \A q \in Producers : p # q /\ Holds(q) => head[p] # head[q]
  BY DEF RingInv, Claims
<1>6. cpc \in {"move", "destroy", "free"} => head[p] # consumer
  BY <1>1, <1>2 DEF RingInv, Taking
<1> QED
  BY <1>2, <1>4, <1>5, <1>6

\* While the consumer is at a position, that is the first of the lap.
LEMMA TakenPosition ==
    ASSUME RingInv, cpc # "advance"
    PROVE  consumer \in Window /\ consumer = Unfreed
<1>1. consumer = Unfreed
  BY DEF Unfreed
<1> QED
  BY <1>1, LapSlots DEF RingInv, Window

(* ---- the inductive invariant ----------------------------------------- *)

\* The state after the constructor.
LEMMA RingInvInit == Init => RingInv
<1> SUFFICES ASSUME Init PROVE RingInv
  OBVIOUS
<1>1. Unfreed = 0 /\ Window = Slot /\ Capacity \in Nat /\ Capacity >= 2
  BY RingAssumption DEF Init, Unfreed, Window, Slot
<1>2. TypeOK
  BY <1>1 DEF Init, TypeOK, Slot
<1>3. \A pos \in Window : SlotOf(pos) = pos
  BY <1>1 DEF SlotOf, Slot
<1>4. Positions
  BY <1>1 DEF Init, Positions
<1>5. Numbers /\ Storage
  BY <1>1, <1>3 DEF Init, Numbers, Storage, Slot
<1>6. Claims /\ Taking
  BY DEF Init, Claims, Taking, Holds
<1> QED
  BY <1>2, <1>4, <1>5, <1>6 DEF RingInv

\* Steps of a producer that leave the ring alone and do not move it past the
\* claim: it looks, gives up, or throws.
LEMMA LookingKeeps ==
    ASSUME RingInv, NEW p \in Producers, UNCHANGED <<ringVars, popVars>>,
           pc' = [pc EXCEPT ![p] = pc'[p]], head' = [head EXCEPT ![p] = head'[p]],
           arg' = [arg EXCEPT ![p] = arg'[p]],
           pc[p] # "publish", pc'[p] \in {"idle", "seq", "reload", "cas"},
           head'[p] \in Nat, head'[p] <= producer, arg'[p] \in Item \cup {Raw},
           pc'[p] # "idle" => arg'[p] \in Item,
           pc'[p] = "cas" => head'[p] < Unfreed + Capacity
    PROVE  RingInv'
<1>1. Unfreed' = Unfreed /\ Window' = Window
  BY DEF Unfreed, Window, ringVars, popVars
<1>2. TypeOK'
  BY DEF RingInv, TypeOK, ringVars, popVars
<1>3. Positions'
  BY <1>1 DEF RingInv, TypeOK, Positions, ringVars, popVars
<1>4. Numbers'
  BY <1>1 DEF RingInv, Numbers, ringVars, popVars
<1>5. /\ pc'[p] \notin {"construct", "publish"}
      /\ \A q \in Producers : q # p => pc'[q] = pc[q] /\ head'[q] = head[q] /\ arg'[q] = arg[q]
  BY DEF RingInv, TypeOK
<1>6. Claims'
  BY <1>1, <1>5 DEF RingInv, TypeOK, Claims, Holds, ringVars, popVars
<1>7. \A pos : Publishing(pos) => Publishing(pos)'
  BY <1>5 DEF Publishing
<1>8. Storage'
  BY <1>1, <1>7 DEF RingInv, Storage, ringVars, popVars
<1>9. Taking'
  BY DEF RingInv, Taking, ringVars, popVars
<1> QED
  BY <1>2, <1>3, <1>4, <1>6, <1>8, <1>9 DEF RingInv

\* A slot whose number is the head of a producer has room for it: the number of
\* the slot one lap further on would be less, as there are two slots at least.
LEMMA RoomSeen ==
    ASSUME RingInv, NEW p \in Producers, seq[SlotOf(head[p])] = head[p]
    PROVE  head[p] < Unfreed + Capacity
<1>1. /\ head[p] \in Nat /\ head[p] <= Unfreed + Capacity
      /\ Unfreed \in Nat /\ Capacity \in Nat /\ Capacity >= 2
  BY LapSlots DEF RingInv, TypeOK, Positions
<1>2. CASE head[p] = Unfreed + Capacity
  <2>1. SlotOf(head[p]) = SlotOf(Unfreed) /\ Unfreed \in Window
    BY <1>1, <1>2, NextLap DEF Window
  <2>2. seq[SlotOf(Unfreed)] \in {Unfreed, Unfreed + 1}
    BY <2>1 DEF RingInv, Numbers
  <2> QED
    BY <1>1, <1>2, <2>1, <2>2
<1> QED
  BY <1>1, <1>2

\* A slot whose number is less than the head shows a full ring.
LEMMA FullSeen ==
    ASSUME RingInv, NEW p \in Producers, Lag(p) < 0
    PROVE  producer - Unfreed >= Capacity
<1>1. /\ head[p] \in Nat /\ head[p] <= producer /\ producer \in Nat
      /\ Unfreed \in Nat /\ Capacity \in Nat /\ SlotOf(head[p]) \in Slot /\ Window \subseteq Nat
  BY LapSlots, SlotOfType DEF RingInv, TypeOK, Positions
<1>2. PICK pos \in Window : SlotOf(pos) = SlotOf(head[p])
  BY <1>1, EverySlot DEF Window
<1>3. pos \in Nat /\ pos >= Unfreed /\ pos < Unfreed + Capacity
  BY <1>1 DEF Window
<1>4. seq[SlotOf(pos)] \in {pos, pos + 1}
  BY DEF RingInv, Numbers
<1>5. head[p] > pos
  BY <1>1, <1>2, <1>3, <1>4 DEF Lag
<1>6. ~(head[p] < pos + Capacity)
  BY <1>1, <1>2, <1>3, <1>5, OtherSlot
<1> QED
  BY <1>1, <1>3, <1>6

\* try_push up to the claim.
LEMMA LooksKeep ==
    ASSUME RingInv, NEW p \in Producers,
           \/ PushLoadSeq(p) \/ PushReload(p) \/ PushClaimFails(p) \/ PushThrow(p)
           \/ \E x \in Item : PushBegin(p, x)
    PROVE  RingInv'
<1>1. TypeOK /\ Positions /\ Claims
  BY DEF RingInv
<1>2. CASE \E x \in Item : PushBegin(p, x)
  <2>1. PICK x \in Item, h \in head[p] .. producer :
          /\ head' = [head EXCEPT ![p] = h] /\ arg' = [arg EXCEPT ![p] = x]
          /\ pc' = [pc EXCEPT ![p] = "seq"] /\ pc[p] = "idle" /\ UNCHANGED <<ringVars, popVars>>
    BY <1>2 DEF PushBegin, Goto
  <2>2. h \in Nat /\ h <= producer /\ head'[p] = h /\ arg'[p] = x /\ pc'[p] = "seq"
    BY <1>1, <2>1 DEF TypeOK
  <2> QED
    BY <2>1, <2>2, LookingKeeps
<1>3. CASE PushLoadSeq(p)
  <2>1. pc'[p] = "cas" => head[p] < Unfreed + Capacity
    BY <1>1, <1>3, RoomSeen, SlotOfType DEF PushLoadSeq, Goto, Lag, TypeOK
  <2> QED
    BY <1>1, <1>3, <2>1, LookingKeeps DEF PushLoadSeq, Goto, TypeOK, Positions, Claims
<1>4. CASE PushReload(p)
  <2>1. PICK h \in head[p] .. producer :
          /\ head' = [head EXCEPT ![p] = h] /\ pc' = [pc EXCEPT ![p] = "seq"] /\ pc[p] = "reload"
          /\ UNCHANGED <<ringVars, arg, popVars>>
    BY <1>4 DEF PushReload, Goto
  <2>2. /\ h \in Nat /\ h <= producer /\ head'[p] = h /\ pc'[p] = "seq"
        /\ arg' = [arg EXCEPT ![p] = arg'[p]] /\ arg'[p] \in Item
    BY <1>1, <2>1 DEF TypeOK, Claims
  <2> QED
    BY <2>1, <2>2, LookingKeeps
<1>5. CASE PushClaimFails(p)
  <2>1. /\ head' = [head EXCEPT ![p] = producer] /\ pc' = [pc EXCEPT ![p] = "seq"] /\ pc[p] = "cas"
        /\ UNCHANGED <<ringVars, arg, popVars>>
    BY <1>5 DEF PushClaimFails, Goto
  <2>2. /\ producer \in Nat /\ producer <= producer /\ head'[p] = producer /\ pc'[p] = "seq"
        /\ arg' = [arg EXCEPT ![p] = arg'[p]] /\ arg'[p] \in Item
    BY <1>1, <2>1 DEF TypeOK, Claims
  <2> QED
    BY <2>1, <2>2, LookingKeeps
<1>6. CASE PushThrow(p)
  BY <1>1, <1>6, LookingKeeps DEF PushThrow, Goto, TypeOK, Positions
<1> QED
  BY <1>2, <1>3, <1>4, <1>5, <1>6

\* The CAS gives the position to one producer.
LEMMA ClaimKeeps ==
    ASSUME RingInv, NEW p \in Producers, PushClaim(p)
    PROVE  RingInv'
<1>1. /\ TypeOK /\ Positions /\ Numbers /\ Claims /\ Storage /\ Taking
      /\ Unfreed \in Nat /\ Capacity \in Nat /\ Window \subseteq Nat
  BY LapSlots DEF RingInv
<1>2. /\ Unfreed' = Unfreed /\ Window' = Window /\ producer' = producer + 1 /\ head[p] = producer
      /\ UNCHANGED <<seq, slots, head, arg, popVars>> /\ pc' = [pc EXCEPT ![p] = "construct"]
      /\ pc[p] = "cas"
  BY DEF PushClaim, Goto, popVars, Unfreed, Window
<1>3. producer < Unfreed + Capacity /\ producer \in Window /\ producer \in Nat
  BY <1>1, <1>2 DEF Claims, Positions, TypeOK, Window
<1>4. seq[SlotOf(producer)] = producer
  BY <1>3, <1>1 DEF Numbers
<1>5. TypeOK'
  BY <1>1, <1>2 DEF TypeOK, popVars
<1>6. Positions'
  BY <1>1, <1>2, <1>3 DEF TypeOK, Positions
<1>7. Numbers'
  BY <1>1, <1>2, <1>3 DEF Numbers
<1>8. Claims'
  <2>1. \A q \in Producers : q # p => pc'[q] = pc[q] /\ (Holds(q)' <=> Holds(q))
    BY <1>1, <1>2 DEF TypeOK, Holds
  <2>2. pc'[p] = "construct" /\ arg[p] \in Item
    BY <1>1, <1>2 DEF TypeOK, Claims
  <2>3. \A q \in Producers : Holds(q) => head[q] # producer /\ head[q] < producer + 1
    BY <1>1, <1>3 DEF Claims, TypeOK
  <2> QED
    BY <1>1, <1>2, <1>3, <1>4, <2>1, <2>2, <2>3 DEF Claims, Positions
<1>9. \A pos : Publishing(pos) => Publishing(pos)'
  BY <1>1, <1>2 DEF Publishing, TypeOK
<1>10. Storage'
  BY <1>1, <1>2, <1>9 DEF Storage, popVars
<1>11. Taking'
  BY <1>1, <1>2, <1>3 DEF Taking, popVars, TypeOK
<1> QED
  BY <1>5, <1>6, <1>7, <1>8, <1>10, <1>11 DEF RingInv

\* The slot is filled by the one producer that holds it.
LEMMA ConstructKeeps ==
    ASSUME RingInv, NEW p \in Producers, PushConstruct(p)
    PROVE  RingInv'
<1>1. /\ TypeOK /\ Positions /\ Numbers /\ Claims /\ Storage /\ Taking
      /\ \A x \in Window : SlotOf(x) \in Slot
      /\ \A x, y \in Window : x # y => SlotOf(x) # SlotOf(y)
  BY LapSlots DEF RingInv
<1>2. /\ Unfreed' = Unfreed /\ Window' = Window /\ pc[p] = "construct"
      /\ slots' = [slots EXCEPT ![SlotOf(head[p])] = arg[p]]
      /\ UNCHANGED <<producer, seq, head, arg, popVars>> /\ pc' = [pc EXCEPT ![p] = "publish"]
  BY DEF PushConstruct, Goto, popVars, Unfreed, Window
<1>3. /\ Holds(p) /\ head[p] \in Window /\ seq[SlotOf(head[p])] = head[p] /\ arg[p] \in Item
      /\ \A q \in Producers : p # q /\ Holds(q) => head[p] # head[q]
      /\ cpc \in {"move", "destroy", "free"} => head[p] # consumer
  BY <1>1, <1>2, HeldPositions DEF Holds, Claims
<1>4. /\ slots'[SlotOf(head[p])] = arg[p]
      /\ \A x \in Window : x # head[p] => slots'[SlotOf(x)] = slots[SlotOf(x)]
  BY <1>1, <1>2, <1>3 DEF TypeOK
<1>5. TypeOK'
  BY <1>1, <1>2, <1>3 DEF TypeOK, popVars
<1>6. Positions' /\ Numbers'
  BY <1>1, <1>2 DEF Positions, Numbers
<1>7. /\ pc'[p] = "publish" /\ Holds(p)'
      /\ \A q \in Producers : q # p => pc'[q] = pc[q] /\ (Holds(q)' <=> Holds(q))
  BY <1>1, <1>2 DEF TypeOK, Holds
<1>8. Claims'
  <2>1. \A q \in Producers : pc'[q] = "publish" => slots'[SlotOf(head[q])] = arg[q]
    BY <1>1, <1>3, <1>4, <1>7, HeldPositions DEF Claims, Holds
  <2> QED
    BY <1>1, <1>2, <1>3, <1>7, <2>1 DEF Claims
<1>9. /\ \A pos : Publishing(pos) => Publishing(pos)'
      /\ Publishing(head[p])'
  BY <1>2, <1>7 DEF Publishing
<1>10. Storage'
  BY <1>1, <1>2, <1>3, <1>4, <1>9 DEF Storage, popVars, TypeOK
<1>11. Taking'
  BY <1>1, <1>2, <1>3, <1>4, TakenPosition DEF Taking, popVars
<1> QED
  BY <1>5, <1>6, <1>8, <1>10, <1>11 DEF RingInv

\* Its number says that it is filled.
LEMMA PublishKeeps ==
    ASSUME RingInv, NEW p \in Producers, PushPublish(p)
    PROVE  RingInv'
<1>1. /\ TypeOK /\ Positions /\ Numbers /\ Claims /\ Storage /\ Taking
      /\ \A x \in Window : SlotOf(x) \in Slot
      /\ \A x, y \in Window : x # y => SlotOf(x) # SlotOf(y)
  BY LapSlots DEF RingInv
<1>2. /\ Unfreed' = Unfreed /\ Window' = Window /\ pc[p] = "publish"
      /\ seq' = [seq EXCEPT ![SlotOf(head[p])] = head[p] + 1]
      /\ UNCHANGED <<producer, slots, head, arg, popVars>> /\ pc' = [pc EXCEPT ![p] = "idle"]
  BY DEF PushPublish, Goto, popVars, Unfreed, Window
<1>3. /\ Holds(p) /\ head[p] \in Window /\ seq[SlotOf(head[p])] = head[p] /\ head[p] \in Nat
      /\ \A q \in Producers : p # q /\ Holds(q) => head[p] # head[q]
      /\ cpc \in {"move", "destroy", "free"} => head[p] # consumer
      /\ head[p] < producer /\ slots[SlotOf(head[p])] \in Item
  BY <1>1, <1>2, HeldPositions DEF Holds, Claims, TypeOK
<1>4. /\ seq'[SlotOf(head[p])] = head[p] + 1
      /\ \A x \in Window : x # head[p] => seq'[SlotOf(x)] = seq[SlotOf(x)]
  BY <1>1, <1>2, <1>3 DEF TypeOK
<1>5. TypeOK'
  BY <1>1, <1>2, <1>3 DEF TypeOK, popVars
<1>6. Positions' /\ Numbers'
  BY <1>1, <1>2, <1>3, <1>4 DEF Positions, Numbers
<1>7. /\ pc'[p] = "idle" /\ ~Holds(p)'
      /\ \A q \in Producers : q # p => pc'[q] = pc[q] /\ (Holds(q)' <=> Holds(q))
  BY <1>1, <1>2 DEF TypeOK, Holds
<1>8. Claims'
  <2>1. \A q \in Producers : Holds(q)' => q # p /\ head[q] \in Window /\ seq'[SlotOf(head[q])] = head[q]
    BY <1>3, <1>4, <1>7, HeldPositions
  <2> QED
    BY <1>1, <1>2, <1>3, <1>7, <2>1 DEF Claims
<1>9. \A pos : Publishing(pos) /\ pos # head[p] => Publishing(pos)'
  BY <1>2, <1>7 DEF Publishing
<1>10. Storage'
  BY <1>1, <1>2, <1>3, <1>4, <1>9 DEF Storage, popVars, TypeOK
<1>11. Taking'
  BY <1>1, <1>2, <1>3, <1>4, TakenPosition DEF Taking, popVars
<1> QED
  BY <1>5, <1>6, <1>8, <1>10, <1>11 DEF RingInv

\* try_pop but for the store that gives the slot back.
LEMMA PopKeeps ==
    ASSUME RingInv, PopBegin \/ PopMove \/ PopThrow \/ PopDestroy \/ PopAdvance
    PROVE  RingInv'
<1>1. /\ TypeOK /\ Positions /\ Numbers /\ Claims /\ Storage /\ Taking
      /\ \A x \in Window : SlotOf(x) \in Slot
      /\ \A x, y \in Window : x # y => SlotOf(x) # SlotOf(y)
  BY LapSlots DEF RingInv
<1>2. /\ Unfreed' = Unfreed /\ Window' = Window
      /\ UNCHANGED <<producer, seq, pushVars>>
  BY <1>1 DEF PopBegin, PopMove, PopThrow, PopDestroy, PopAdvance, ringVars, Unfreed, Window
<1>3. Positions' /\ Numbers'
  BY <1>1, <1>2 DEF Positions, Numbers, pushVars
<1>4. \A pos : Publishing(pos)' <=> Publishing(pos)
  BY <1>2 DEF Publishing, pushVars
<1>5. CASE PopBegin
  <2>1. /\ cpc = "idle" /\ UNCHANGED <<slots, consumer>> /\ cpc' \in {"idle", "move"}
        /\ cpc' = "move" => seq[SlotOf(consumer)] = consumer + 1
    BY <1>5 DEF PopBegin, Ready, ringVars
  <2>2. consumer \in Window
    BY <2>1, TakenPosition
  <2>3. cpc' = "move" => consumer < producer
    BY <1>1, <2>1, <2>2 DEF Numbers, TypeOK
  <2>4. TypeOK' /\ Claims' /\ Storage' /\ Taking'
    BY <1>1, <1>2, <1>4, <2>1, <2>3 DEF TypeOK, Claims, Holds, Storage, Taking, pushVars
  <2> QED
    BY <1>3, <2>4 DEF RingInv
<1>6. CASE PopMove \/ PopThrow
  <2>1. cpc = "move" /\ UNCHANGED <<slots, consumer>> /\ cpc' \in {"idle", "destroy"}
    BY <1>6 DEF PopMove, PopThrow, ringVars
  <2>2. TypeOK' /\ Claims' /\ Storage' /\ Taking'
    BY <1>1, <1>2, <1>4, <2>1 DEF TypeOK, Claims, Holds, Storage, Taking, pushVars
  <2> QED
    BY <1>3, <2>2 DEF RingInv
<1>7. CASE PopDestroy
  <2>1. /\ cpc = "destroy" /\ cpc' = "free" /\ UNCHANGED consumer
        /\ slots' = [slots EXCEPT ![SlotOf(consumer)] = Raw]
    BY <1>7 DEF PopDestroy
  <2>2. consumer \in Window /\ consumer < producer /\ seq[SlotOf(consumer)] = consumer + 1
    BY <1>1, <2>1, TakenPosition DEF Taking
  <2>3. /\ slots'[SlotOf(consumer)] = Raw
        /\ \A x \in Window : x # consumer => slots'[SlotOf(x)] = slots[SlotOf(x)]
    BY <1>1, <2>1, <2>2 DEF TypeOK
  <2>4. TypeOK'
    BY <1>1, <1>2, <2>1 DEF TypeOK, pushVars
  <2>5. \A p \in Producers : pc[p] = "publish" => slots'[SlotOf(head[p])] = arg[p]
    BY <1>1, <2>1, <2>3, HeldPositions DEF Claims, Holds
  <2>6. Claims'
    BY <1>1, <1>2, <2>5 DEF Claims, Holds, pushVars
  <2>7. Storage'
    BY <1>1, <1>2, <1>4, <2>1, <2>2, <2>3 DEF Storage, TypeOK
  <2>8. Taking'
    BY <1>2, <2>1, <2>2, <2>3 DEF Taking
  <2> QED
    BY <1>3, <2>4, <2>6, <2>7, <2>8 DEF RingInv
<1>8. CASE PopAdvance
  <2>1. cpc = "advance" /\ cpc' = "idle" /\ UNCHANGED slots /\ consumer' = consumer + 1
    BY <1>8 DEF PopAdvance, ringVars
  <2>2. TypeOK' /\ Claims' /\ Storage' /\ Taking'
    BY <1>1, <1>2, <1>4, <2>1 DEF TypeOK, Claims, Holds, Storage, Taking, pushVars
  <2> QED
    BY <1>3, <2>2 DEF RingInv
<1> QED
  BY <1>5, <1>6, <1>7, <1>8

\* The slot goes to the position one lap later, and the lap moves on by one.
LEMMA FreeKeeps ==
    ASSUME RingInv, PopFree
    PROVE  RingInv'
<1>1. /\ TypeOK /\ Positions /\ Numbers /\ Claims /\ Storage /\ Taking
      /\ \A x \in Window : SlotOf(x) \in Slot
      /\ \A x, y \in Window : x # y => SlotOf(x) # SlotOf(y)
      /\ Capacity \in Nat /\ Capacity >= 2 /\ Window \subseteq Nat
  BY LapSlots DEF RingInv
<1>2. /\ cpc = "free" /\ cpc' = "advance" /\ UNCHANGED <<producer, slots, pushVars, consumer>>
      /\ seq' = [seq EXCEPT ![SlotOf(consumer)] = consumer + Capacity]
  BY DEF PopFree
<1>3. /\ consumer \in Nat /\ consumer \in Window /\ Unfreed = consumer /\ Unfreed' = consumer + 1
      /\ consumer < producer /\ slots[SlotOf(consumer)] = Raw /\ producer \in Nat
      /\ seq[SlotOf(consumer)] = consumer + 1
  BY <1>1, <1>2, TakenPosition DEF Taking, Unfreed, TypeOK
<1>4. /\ \A x \in Window : x # consumer => seq'[SlotOf(x)] = seq[SlotOf(x)]
      /\ SlotOf(consumer + Capacity) = SlotOf(consumer)
      /\ seq'[SlotOf(consumer + Capacity)] = consumer + Capacity
  BY <1>1, <1>2, <1>3, NextLap DEF TypeOK
<1>5. \A x \in Window' : x = consumer + Capacity \/ (x \in Window /\ x # consumer)
  BY <1>1, <1>3 DEF Window
<1>6. TypeOK'
  BY <1>1, <1>2, <1>3 DEF TypeOK, pushVars
<1>7. Positions'
  BY <1>1, <1>2, <1>3 DEF Positions, pushVars
<1>8. Numbers'
  BY <1>1, <1>2, <1>4, <1>5 DEF Numbers
<1>9. \A p \in Producers : Holds(p) => /\ head[p] \in Window /\ head[p] # consumer
                                      /\ seq'[SlotOf(head[p])] = head[p]
  BY <1>2, <1>4, HeldPositions
<1>10. Claims'
  BY <1>1, <1>2, <1>3, <1>9 DEF Claims, Holds, pushVars, TypeOK, Window
<1>11. \A pos : Publishing(pos)' <=> Publishing(pos)
  BY <1>2 DEF Publishing, pushVars
<1>12. Storage'
  <2> SUFFICES ASSUME NEW x \in Window'
               PROVE  /\ seq'[SlotOf(x)] = x => slots[SlotOf(x)] = Raw \/ Publishing(x)
                      /\ seq'[SlotOf(x)] = x + 1 => slots[SlotOf(x)] \in Item
    BY <1>2, <1>11 DEF Storage
  <2>1. CASE x = consumer + Capacity
    <3>1. x \in Nat /\ seq'[SlotOf(x)] = x /\ slots[SlotOf(x)] = Raw
      BY <1>1, <1>3, <1>4, <2>1
    <3> QED
      BY <3>1
  <2>2. CASE x \in Window /\ x # consumer
    BY <1>1, <1>4, <2>2 DEF Storage
  <2> QED
    BY <1>5, <2>1, <2>2
<1>13. Taking'
  BY <1>2 DEF Taking
<1> QED
  BY <1>6, <1>7, <1>8, <1>10, <1>12, <1>13 DEF RingInv

\* The positions of one lap, what their numbers say and what lies in their slots.
THEOREM RingInvariant == Spec => []RingInv
<1>1. RingInv /\ [Next]_vars => RingInv'
  <2> SUFFICES ASSUME RingInv, [Next]_vars PROVE RingInv'
    OBVIOUS
  <2>1. CASE UNCHANGED vars
    BY <2>1 DEF vars, ringVars, pushVars, popVars, RingInv, TypeOK, Positions, Numbers, Claims,
                Holds, Storage, Publishing, Taking, Unfreed, Window
  <2>2. CASE Pop
    BY <2>2, PopKeeps, FreeKeeps DEF Pop
  <2>3. ASSUME NEW p \in Producers, PushStep(p) \/ \E x \in Item : PushBegin(p, x)
        PROVE  RingInv'
    BY <2>3, LooksKeep, ClaimKeeps, ConstructKeeps, PublishKeeps DEF PushStep
  <2> QED
    BY <2>1, <2>2, <2>3 DEF Next
<1> QED
  BY <1>1, RingInvInit, PTL DEF Spec

\* Every variable of the queue keeps its type.
THEOREM TypeCorrect == Spec => []TypeOK
<1>1. RingInv => TypeOK
  BY DEF RingInv
<1> QED
  BY <1>1, RingInvariant, PTL

\* No slot is in the hands of two producers, or of a producer and the consumer.
THEOREM NoSlotShared == Spec => []ExclusiveSlots
<1>1. RingInv => ExclusiveSlots
  <2> SUFFICES ASSUME RingInv PROVE ExclusiveSlots
    OBVIOUS
  <2>1. /\ Claims /\ Storage /\ Taking
        /\ \A x, y \in Window : x # y => SlotOf(x) # SlotOf(y)
    BY LapSlots DEF RingInv
  <2>2. \A p, q \in Producers : p # q /\ Holds(p) /\ Holds(q) => SlotOf(head[p]) # SlotOf(head[q])
    BY <2>1, HeldPositions
  <2>3. \A p \in Producers : Holds(p) /\ cpc \in {"move", "destroy", "free"}
                               => SlotOf(head[p]) # SlotOf(consumer)
    BY <2>1, HeldPositions, TakenPosition
  <2>4. ASSUME NEW p \in Producers, pc[p] = "construct" PROVE slots[SlotOf(head[p])] = Raw
    <3>1. /\ head[p] \in Window /\ seq[SlotOf(head[p])] = head[p]
          /\ \A q \in Producers : p # q /\ Holds(q) => head[p] # head[q]
      BY <2>4, HeldPositions DEF Holds
    <3>2. ~Publishing(head[p])
      BY <2>4, <3>1 DEF Publishing, Holds
    <3> QED
      BY <2>1, <3>1, <3>2 DEF Storage
  <2>5. cpc \in {"move", "destroy"} => slots[SlotOf(consumer)] \in Item
    BY <2>1, TakenPosition DEF Taking, Storage
  <2> QED
    BY <2>2, <2>3, <2>4, <2>5 DEF ExclusiveSlots
<1> QED
  BY <1>1, RingInvariant, PTL

\* try_push refuses only a full ring, however old the head it looks through.
THEOREM RefusalMeansFull == Spec => RefusedOnlyWhenFull
<1> DEFINE Refused == \A p \in Producers : pc[p] = "seq" /\ pc'[p] = "idle"
                                            => producer - Unfreed >= Capacity
<1>1. RingInv /\ [Next]_vars => [Refused]_vars
  <2> SUFFICES ASSUME RingInv, Next, NEW p \in Producers, pc[p] = "seq", pc'[p] = "idle"
               PROVE  producer - Unfreed >= Capacity
    BY DEF RefusedOnlyWhenFull
  <2>1. pc \in [Producers -> {"idle", "seq", "reload", "cas", "construct", "publish"}]
    BY DEF RingInv, TypeOK
  <2>2. PushLoadSeq(p)
    BY <2>1 DEF Next, Pop, PopBegin, PopMove, PopThrow, PopDestroy, PopFree, PopAdvance, pushVars,
                PushStep, PushBegin, PushLoadSeq, PushReload, PushClaim, PushClaimFails,
                PushConstruct, PushThrow, PushPublish, Goto
  <2>3. Lag(p) < 0
    BY <2>1, <2>2 DEF PushLoadSeq, Goto
  <2> QED
    BY <2>3, FullSeen
<1> QED
  BY <1>1, RingInvariant, PTL DEF Spec, RefusedOnlyWhenFull

(* ---- what the queue promises ----------------------------------------- *)

\* The tickets stand for positions of the lap.
LEMMA TicketPositions ==
    ASSUME RingInv
    PROVE  /\ FirstTicket \in Nat /\ producer \in Nat /\ FirstTicket <= producer
           /\ producer - FirstTicket <= Capacity
           /\ FirstTicket .. producer - 1 \subseteq Window
           /\ cpc \in {"destroy", "free", "advance"} => consumer \notin FirstTicket .. producer - 1
<1>1. Unfreed \in Nat /\ Capacity \in Nat
  BY LapSlots DEF RingInv
<1>2. FirstTicket \in Nat /\ FirstTicket <= producer /\ FirstTicket >= Unfreed
  BY DEF RingInv, TypeOK, Positions, Taking, FirstTicket, Unfreed
<1>3. producer \in Nat /\ producer <= Unfreed + Capacity
  BY DEF RingInv, TypeOK, Positions
<1>4. cpc \in {"destroy", "free", "advance"} => consumer < FirstTicket /\ consumer \in Nat
  BY DEF RingInv, TypeOK, FirstTicket
<1> QED
  BY <1>1, <1>2, <1>3, <1>4 DEF Window

\* A published position, one that a producer fills in, one that nobody does.
LEMMA TicketKinds ==
    ASSUME RingInv, NEW pos \in FirstTicket .. producer - 1
    PROVE  /\ seq[SlotOf(pos)] = pos + 1 =>
                Ticket(pos) = [item |-> slots[SlotOf(pos)], by |-> Nobody]
           /\ \A p \in Producers : Holds(p) /\ head[p] = pos =>
                seq[SlotOf(pos)] = pos /\ Ticket(pos) = [item |-> arg[p], by |-> p]
           /\ seq[SlotOf(pos)] = pos /\ ~(\E p \in Producers : Holds(p) /\ head[p] = pos) =>
                Ticket(pos) = [item |-> Raw, by |-> Lost]
           /\ seq[SlotOf(pos)] \in {pos, pos + 1}
<1>1. pos \in Window /\ pos \in Nat
  BY TicketPositions
<1>2. seq[SlotOf(pos)] \in {pos, pos + 1}
  BY <1>1 DEF RingInv, Numbers
<1>3. ASSUME NEW p \in Producers, Holds(p), head[p] = pos
      PROVE  seq[SlotOf(pos)] = pos /\ Ticket(pos) = [item |-> arg[p], by |-> p]
  <2>1. seq[SlotOf(pos)] = pos
    BY <1>3, HeldPositions
  <2>2. {q \in Producers : Holds(q) /\ head[q] = pos} = {p}
    BY <1>3, HeldPositions
  <2>3. (CHOOSE q \in {p} : TRUE) = p
    OBVIOUS
  <2> QED
    BY <1>1, <2>1, <2>2, <2>3 DEF Ticket
<1>4. ASSUME seq[SlotOf(pos)] = pos, ~(\E p \in Producers : Holds(p) /\ head[p] = pos)
      PROVE  Ticket(pos) = [item |-> Raw, by |-> Lost]
  <2>1. {q \in Producers : Holds(q) /\ head[q] = pos} = {}
    BY <1>4
  <2> QED
    BY <1>1, <1>4, <2>1 DEF Ticket
<1>5. seq[SlotOf(pos)] = pos + 1 => Ticket(pos) = [item |-> slots[SlotOf(pos)], by |-> Nobody]
  BY DEF Ticket
<1> QED
  BY <1>2, <1>3, <1>4, <1>5

\* A ticket stays as long as its slot's number, its item and its owner do.
LEMMA TicketStays ==
    ASSUME RingInv, RingInv', NEW pos \in FirstTicket .. producer - 1,
           pos \in FirstTicket' .. producer' - 1,
           seq'[SlotOf(pos)] = seq[SlotOf(pos)],
           seq[SlotOf(pos)] = pos + 1 => slots'[SlotOf(pos)] = slots[SlotOf(pos)],
           \A p \in Producers : /\ Holds(p) /\ head[p] = pos <=> Holds(p)' /\ head'[p] = pos
                                /\ Holds(p) /\ head[p] = pos => arg'[p] = arg[p]
    PROVE  Ticket(pos)' = Ticket(pos)
<1>1. CASE seq[SlotOf(pos)] = pos + 1
  BY <1>1 DEF Ticket
<1>2. CASE seq[SlotOf(pos)] # pos + 1
  <2>1. {p \in Producers : Holds(p)' /\ head'[p] = pos} = {p \in Producers : Holds(p) /\ head[p] = pos}
    OBVIOUS
  <2>2. CASE \E p \in Producers : Holds(p) /\ head[p] = pos
    <3>1. PICK p \in Producers : Holds(p) /\ head[p] = pos
      BY <2>2
    <3>2. Ticket(pos) = [item |-> arg[p], by |-> p]
      BY <3>1, TicketKinds
    <3>3. Ticket(pos)' = [item |-> arg'[p], by |-> p]
      <4>1. {q \in Producers : Holds(q)' /\ head'[q] = pos} = {p}
        BY <2>1, <3>1, HeldPositions
      <4>2. (CHOOSE q \in {p} : TRUE) = p
        OBVIOUS
      <4> QED
        BY <1>2, <4>1, <4>2 DEF Ticket
    <3> QED
      BY <3>1, <3>2, <3>3
  <2>3. CASE ~(\E p \in Producers : Holds(p) /\ head[p] = pos)
    BY <1>2, <2>1, <2>3 DEF Ticket
  <2> QED
    BY <2>2, <2>3
<1> QED
  BY <1>1, <1>2

\* The tickets are a sequence.
TicketSet == [item : Item \cup {Raw}, by : Producers \cup {Nobody, Lost}]
LEMMA TicketSeq ==
    ASSUME RingInv
    PROVE  /\ Tickets \in Seq(TicketSet) /\ Len(Tickets) = producer - FirstTicket
           /\ DOMAIN Tickets = 1 .. producer - FirstTicket
           /\ producer - FirstTicket \in Nat
           /\ \A i \in 1 .. producer - FirstTicket :
                /\ FirstTicket + i - 1 \in FirstTicket .. producer - 1
                /\ Tickets[i] = Ticket(FirstTicket + i - 1)
<1> DEFINE n == producer - FirstTicket
<1>1. FirstTicket \in Nat /\ producer \in Nat /\ n \in Nat
  BY TicketPositions
<1>2. \A i \in 1 .. n : FirstTicket + i - 1 \in FirstTicket .. producer - 1
  BY <1>1
<1>3. ASSUME NEW pos \in FirstTicket .. producer - 1 PROVE Ticket(pos) \in TicketSet
  <2>1. pos \in Window /\ SlotOf(pos) \in Slot
    BY TicketPositions, LapSlots DEF RingInv
  <2>2. slots[SlotOf(pos)] \in Item \cup {Raw} /\ \A p \in Producers : arg[p] \in Item \cup {Raw}
    BY <2>1 DEF RingInv, TypeOK
  <2> QED
    BY <2>2, TicketKinds DEF TicketSet
<1>4. \A i \in 1 .. n : Ticket(FirstTicket + i - 1) \in TicketSet
  BY <1>2, <1>3
<1>5. Tickets = [i \in 1 .. n |-> Ticket(FirstTicket + i - 1)]
  BY DEF Tickets
<1> HIDE DEF n
<1>6. Tickets \in Seq(TicketSet) /\ Len(Tickets) = n /\ DOMAIN Tickets = 1 .. n
  BY <1>1, <1>4, <1>5
<1> QED
  BY <1>1, <1>2, <1>5, <1>6 DEF n

\* Nothing a ticket stands for changes.
LEMMA TicketsStay ==
    ASSUME RingInv, RingInv', producer' = producer, FirstTicket' = FirstTicket,
           \A pos \in FirstTicket .. producer - 1 : Ticket(pos)' = Ticket(pos)
    PROVE  Tickets' = Tickets
<1>1. \A i \in 1 .. producer - FirstTicket : FirstTicket + i - 1 \in FirstTicket .. producer - 1
  BY TicketSeq
<1> QED
  BY <1>1 DEF Tickets

\* One ticket changes.
LEMMA OneTicket ==
    ASSUME RingInv, RingInv', producer' = producer, FirstTicket' = FirstTicket,
           NEW at \in FirstTicket .. producer - 1, NEW t, Ticket(at)' = t,
           \A pos \in FirstTicket .. producer - 1 : pos # at => Ticket(pos)' = Ticket(pos)
    PROVE  /\ at - FirstTicket + 1 \in DOMAIN Tickets
           /\ Tickets[at - FirstTicket + 1] = Ticket(at)
           /\ Tickets' = [Tickets EXCEPT ![at - FirstTicket + 1] = t]
<1> DEFINE n == producer - FirstTicket
           j == at - FirstTicket + 1
<1>1. /\ FirstTicket \in Nat /\ producer \in Nat /\ n \in Nat /\ DOMAIN Tickets = 1 .. n
      /\ \A i \in 1 .. n : /\ FirstTicket + i - 1 \in FirstTicket .. producer - 1
                           /\ Tickets[i] = Ticket(FirstTicket + i - 1)
  BY TicketPositions, TicketSeq
<1>2. j \in 1 .. n /\ FirstTicket + j - 1 = at
  BY <1>1
<1>3. Tickets' = [i \in 1 .. n |-> Ticket(FirstTicket + i - 1)']
  BY DEF Tickets
<1>4. \A i \in 1 .. n : i # j => FirstTicket + i - 1 # at
  BY <1>1
<1>5. \A i \in 1 .. n : Ticket(FirstTicket + i - 1)' = IF i = j THEN t ELSE Tickets[i]
  BY <1>1, <1>2, <1>4
<1>6. Tickets' = [i \in 1 .. n |-> IF i = j THEN t ELSE Tickets[i]]
  BY <1>3, <1>5
<1>7. [Tickets EXCEPT ![j] = t] = [i \in 1 .. n |-> IF i = j THEN t ELSE Tickets[i]]
  BY <1>1, <1>2
<1> QED
  BY <1>1, <1>2, <1>6, <1>7

\* A sequence that is one longer, and one that is one shorter.
LEMMA AppendIs ==
    ASSUME NEW S, NEW s \in Seq(S), NEW t \in S,
           NEW u, u = [i \in 1 .. Len(s) + 1 |-> IF i = Len(s) + 1 THEN t ELSE s[i]]
    PROVE  u = Append(s, t)
<1>1. Len(s) \in Nat /\ \A i \in 1 .. Len(s) : s[i] \in S
  BY ElementOfSeq, LenProperties
<1>2. Len(s) + 1 \in Nat /\ \A i \in 1 .. Len(s) + 1 : u[i] \in S
  BY <1>1
<1>3. u \in Seq(S) /\ Len(u) = Len(s) + 1
  BY <1>1, <1>2, IsASeq
<1>4. \A i \in 1 .. Len(u) : u[i] = Append(s, t)[i]
  BY <1>1, <1>3, AppendProperties
<1>5. Append(s, t) \in Seq(S) /\ Len(Append(s, t)) = Len(u)
  BY <1>1, <1>3, AppendProperties
<1> QED
  BY <1>3, <1>4, <1>5, SeqEqual
LEMMA TailIs ==
    ASSUME NEW S, NEW s \in Seq(S), s # <<>>, NEW u, u = [i \in 1 .. Len(s) - 1 |-> s[i + 1]]
    PROVE  u = Tail(s)
<1>1. Len(s) \in Nat /\ Len(s) >= 1 /\ \A i \in 1 .. Len(s) : s[i] \in S
  BY ElementOfSeq, LenProperties, EmptySeq
<1>2. Len(s) - 1 \in Nat /\ \A i \in 1 .. Len(s) - 1 : u[i] \in S
  BY <1>1
<1>3. u \in Seq(S) /\ Len(u) = Len(s) - 1
  BY <1>1, <1>2, IsASeq
<1>4. \A i \in 1 .. Len(u) : u[i] = Tail(s)[i]
  BY <1>1, <1>3, HeadTailProperties
<1> QED
  BY <1>3, <1>4, HeadTailProperties, SeqEqual

\* A position is claimed.
LEMMA NewTicket ==
    ASSUME RingInv, RingInv', producer' = producer + 1, FirstTicket' = FirstTicket,
           NEW f, f = FirstTicket, NEW at, at = producer,
           NEW t \in TicketSet, Ticket(at)' = t,
           \A pos \in FirstTicket .. producer - 1 : Ticket(pos)' = Ticket(pos)
    PROVE  Tickets' = Append(Tickets, t)
<1> DEFINE n == Len(Tickets)
<1>1. /\ f \in Nat /\ at \in Nat /\ n \in Nat /\ n = at - f
      /\ Tickets \in Seq(TicketSet)
      /\ \A i \in 1 .. n : /\ f + i - 1 \in FirstTicket .. producer - 1
                           /\ Tickets[i] = Ticket(f + i - 1)
  BY TicketPositions, TicketSeq
<1>2. Tickets' = [i \in 1 .. at + 1 - f |-> Ticket(f + i - 1)']
  <2>1. Tickets' = [i \in 1 .. producer' - FirstTicket' |-> Ticket(FirstTicket + i - 1)']
    BY DEF Tickets
  <2>2. producer' - FirstTicket' = at + 1 - f
    BY <1>1
  <2>3. \A i \in 1 .. at + 1 - f : Ticket(FirstTicket + i - 1)' = Ticket(f + i - 1)'
    OBVIOUS
  <2> QED
    BY <2>1, <2>2, <2>3
<1> HIDE DEF n
<1>3. at + 1 - f = n + 1
  BY <1>1
<1>4. \A i \in 1 .. n + 1 : Ticket(f + i - 1)' = IF i = n + 1 THEN t ELSE Tickets[i]
  <2> TAKE i \in 1 .. n + 1
  <2>1. CASE i = n + 1
    <3>1. f + i - 1 = at
      BY <1>1, <2>1
    <3> QED
      BY <2>1, <3>1
  <2>2. CASE i # n + 1
    <3>1. i \in 1 .. n
      BY <1>1, <2>2
    <3> QED
      BY <1>1, <2>2, <3>1
  <2> QED
    BY <2>1, <2>2
<1>5. Tickets' = [i \in 1 .. n + 1 |-> IF i = n + 1 THEN t ELSE Tickets[i]]
  BY <1>2, <1>3, <1>4
<1> QED
  BY <1>1, <1>5, AppendIs DEF n

\* The oldest is delivered.
LEMMA OldestTicket ==
    ASSUME RingInv, RingInv', FirstTicket < producer, producer' = producer,
           FirstTicket' = FirstTicket + 1, NEW f, f = FirstTicket,
           \A pos \in FirstTicket + 1 .. producer - 1 : Ticket(pos)' = Ticket(pos)
    PROVE  /\ Tickets # <<>> /\ Head(Tickets) = Ticket(f)
           /\ Tickets' = Tail(Tickets)
<1> DEFINE n == Len(Tickets)
<1>1. /\ f \in Nat /\ producer \in Nat /\ n \in Nat /\ n = producer - f
      /\ Tickets \in Seq(TicketSet)
      /\ \A i \in 1 .. n : Tickets[i] = Ticket(f + i - 1)
  BY TicketPositions, TicketSeq
<1>2. Tickets' = [i \in 1 .. producer - (f + 1) |-> Ticket(f + 1 + i - 1)']
  BY DEF Tickets
<1> HIDE DEF n
<1>3. n >= 1 /\ producer - (f + 1) = n - 1
  BY <1>1
<1>4. ASSUME NEW i \in 1 .. n - 1 PROVE Ticket(f + 1 + i - 1)' = Tickets[i + 1]
  <2>1. i + 1 \in 1 .. n /\ f + (i + 1) - 1 = f + 1 + i - 1 /\ f + 1 + i - 1 \in f + 1 .. producer - 1
    BY <1>1
  <2>2. Tickets[i + 1] = Ticket(f + 1 + i - 1)
    BY <1>1, <2>1
  <2> QED
    BY <2>1, <2>2
<1>5. Tickets' = [i \in 1 .. n - 1 |-> Tickets[i + 1]]
  BY <1>2, <1>3, <1>4
<1>6. Tickets # <<>> /\ Head(Tickets) = Tickets[1] /\ Tickets[1] = Ticket(f)
  BY <1>1, <1>3 DEF n
<1> QED
  BY <1>1, <1>5, <1>6, TailIs DEF n

\* Steps that no ticket shows: a producer that holds none looks or gives up ...
LEMMA UnseenSteps ==
    ASSUME RingInv, RingInv', NEW p \in Producers,
           \/ PushLoadSeq(p) \/ PushReload(p) \/ PushClaimFails(p)
           \/ \E x \in Item : PushBegin(p, x)
    PROVE  Tickets' = Tickets /\ out' = out
<1>1. TypeOK
  BY DEF RingInv
<1>2. /\ UNCHANGED <<ringVars, popVars>> /\ ~Holds(p) /\ ~Holds(p)'
      /\ \A q \in Producers : q # p => pc'[q] = pc[q] /\ head'[q] = head[q] /\ arg'[q] = arg[q]
  BY <1>1 DEF PushLoadSeq, PushReload, PushClaimFails, PushBegin, Goto, Holds, TypeOK
<1>3. /\ producer' = producer /\ FirstTicket' = FirstTicket /\ out' = out
      /\ UNCHANGED <<seq, slots>>
  BY <1>2 DEF ringVars, popVars, FirstTicket
<1>4. \A q \in Producers : /\ Holds(q)' <=> Holds(q)
                           /\ Holds(q) => head'[q] = head[q] /\ arg'[q] = arg[q]
  BY <1>2 DEF Holds
<1>5. \A pos \in FirstTicket .. producer - 1 : Ticket(pos)' = Ticket(pos)
  BY <1>3, <1>4, TicketStays
<1> QED
  BY <1>3, <1>5, TicketsStay

\* ... the consumer looks, or destroys and gives back what it has taken ...
LEMMA UnseenPops ==
    ASSUME RingInv, RingInv', PopBegin \/ PopThrow \/ PopDestroy \/ PopFree \/ PopAdvance
    PROVE  Tickets' = Tickets /\ out' = out
<1>1. /\ FirstTicket \in Nat /\ producer \in Nat /\ FirstTicket .. producer - 1 \subseteq Window
      /\ cpc \in {"destroy", "free", "advance"} => consumer \notin FirstTicket .. producer - 1
      /\ \A x \in Window : SlotOf(x) \in Slot
      /\ \A x, y \in Window : x # y => SlotOf(x) # SlotOf(y)
      /\ TypeOK
  BY TicketPositions, LapSlots DEF RingInv
<1>2. /\ producer' = producer /\ out' = out /\ UNCHANGED pushVars
      /\ FirstTicket' = FirstTicket
  BY <1>1 DEF PopBegin, PopThrow, PopDestroy, PopFree, PopAdvance, ringVars, FirstTicket
<1>3. \A pos \in FirstTicket .. producer - 1 :
        seq'[SlotOf(pos)] = seq[SlotOf(pos)] /\ slots'[SlotOf(pos)] = slots[SlotOf(pos)]
  <2>1. CASE PopBegin \/ PopThrow \/ PopAdvance
    BY <2>1 DEF PopBegin, PopThrow, PopAdvance, ringVars
  <2>2. CASE PopDestroy \/ PopFree
    <3>1. consumer \in Window /\ \A pos \in FirstTicket .. producer - 1 : pos # consumer
      BY <1>1, <2>2, TakenPosition DEF PopDestroy, PopFree
    <3>2. \A pos \in FirstTicket .. producer - 1 : SlotOf(pos) # SlotOf(consumer)
      BY <1>1, <3>1
    <3>3. \/ seq' = seq /\ slots' = [slots EXCEPT ![SlotOf(consumer)] = Raw]
          \/ slots' = slots /\ seq' = [seq EXCEPT ![SlotOf(consumer)] = consumer + Capacity]
      BY <2>2 DEF PopDestroy, PopFree
    <3> QED
      BY <1>1, <3>2, <3>3 DEF TypeOK
  <2> QED
    BY <2>1, <2>2
<1>4. \A pos \in FirstTicket .. producer - 1 : Ticket(pos)' = Ticket(pos)
  BY <1>2, <1>3, TicketStays DEF pushVars, Holds
<1> QED
  BY <1>2, <1>4, TicketsStay

\* ... and the slot is filled before the ticket is.
LEMMA UnseenConstruct ==
    ASSUME RingInv, RingInv', NEW p \in Producers, PushConstruct(p)
    PROVE  Tickets' = Tickets /\ out' = out
<1>1. /\ FirstTicket .. producer - 1 \subseteq Window /\ TypeOK
      /\ \A x \in Window : SlotOf(x) \in Slot
      /\ \A x, y \in Window : x # y => SlotOf(x) # SlotOf(y)
  BY TicketPositions, LapSlots DEF RingInv
<1>2. /\ Holds(p) /\ pc[p] = "construct" /\ pc' = [pc EXCEPT ![p] = "publish"]
      /\ UNCHANGED <<producer, seq, head, arg, popVars>>
      /\ slots' = [slots EXCEPT ![SlotOf(head[p])] = arg[p]]
  BY DEF PushConstruct, Goto, Holds
<1>3. head[p] \in Window /\ seq[SlotOf(head[p])] = head[p] /\ head[p] \in Nat
  BY <1>1, <1>2, HeldPositions DEF TypeOK
<1>4. producer' = producer /\ FirstTicket' = FirstTicket /\ out' = out
  BY <1>2 DEF popVars, FirstTicket
<1>5. \A q \in Producers : (Holds(q)' <=> Holds(q)) /\ head'[q] = head[q] /\ arg'[q] = arg[q]
  BY <1>1, <1>2 DEF Holds, TypeOK
<1>6. \A pos \in FirstTicket .. producer - 1 :
        seq[SlotOf(pos)] = pos + 1 => slots'[SlotOf(pos)] = slots[SlotOf(pos)]
  BY <1>1, <1>2, <1>3 DEF TypeOK
<1>7. \A pos \in FirstTicket .. producer - 1 : Ticket(pos)' = Ticket(pos)
  BY <1>2, <1>4, <1>5, <1>6, TicketStays
<1> QED
  BY <1>4, <1>7, TicketsStay

\* No ticket is p's unless p holds a position.
LEMMA OwnTicket ==
    ASSUME RingInv, NEW p \in Producers, NEW i \in DOMAIN Tickets, Tickets[i].by = p
    PROVE  Holds(p)
<1>1. PICK pos \in FirstTicket .. producer - 1 : Tickets[i] = Ticket(pos)
  BY TicketSeq
<1>2. p # Nobody /\ p # Lost
  BY MpscAssumption
<1>3. CASE seq[SlotOf(pos)] = pos + 1
  BY <1>1, <1>2, <1>3, TicketKinds
<1>4. CASE \E q \in Producers : Holds(q) /\ head[q] = pos
  <2>1. PICK q \in Producers : Holds(q) /\ head[q] = pos
    BY <1>4
  <2>2. Ticket(pos) = [item |-> arg[q], by |-> q]
    BY <2>1, TicketKinds
  <2> QED
    BY <1>1, <2>1, <2>2
<1>5. CASE seq[SlotOf(pos)] = pos /\ ~(\E q \in Producers : Holds(q) /\ head[q] = pos)
  <2>1. Ticket(pos) = [item |-> Raw, by |-> Lost]
    BY <1>5, TicketKinds
  <2> QED
    BY <1>1, <1>2, <2>1
<1> QED
  BY <1>3, <1>4, <1>5, TicketKinds

\* The CAS takes a ticket.
LEMMA ClaimTakesTicket ==
    ASSUME RingInv, RingInv', NEW p \in Producers, PushClaim(p)
    PROVE  Queue!Claim(p, arg[p]) /\ arg[p] \in Item
<1>1. /\ pc[p] = "cas" /\ producer = head[p] /\ producer' = producer + 1
      /\ pc' = [pc EXCEPT ![p] = "construct"] /\ UNCHANGED <<seq, slots, head, arg, popVars>>
  BY DEF PushClaim, Goto
<1>2. /\ arg[p] \in Item /\ producer < Unfreed + Capacity /\ TypeOK /\ ~Holds(p) /\ producer \in Nat
  BY <1>1 DEF RingInv, Claims, TypeOK, Holds
<1>3. FirstTicket' = FirstTicket /\ out' = out /\ FirstTicket >= Unfreed /\ FirstTicket \in Nat /\ Unfreed \in Nat
  BY <1>1, TicketPositions, LapSlots DEF popVars, FirstTicket, Unfreed, RingInv, TypeOK
<1>4. /\ Holds(p)' /\ head'[p] = producer /\ arg' = arg
      /\ \A q \in Producers : q # p => (Holds(q)' <=> Holds(q)) /\ head'[q] = head[q]
  BY <1>1, <1>2 DEF Holds, TypeOK
<1>5. PICK at : at = producer
  OBVIOUS
<1>6. PICK f : f = FirstTicket
  OBVIOUS
<1>7. Ticket(at)' = [item |-> arg[p], by |-> p]
  <2>1. seq'[SlotOf(at)] # at + 1
    <3>1. at \in Window /\ at \in Nat
      BY <1>2, <1>3, <1>5, LapSlots DEF RingInv, Positions, Window
    <3>2. seq[SlotOf(at)] = at
      BY <1>5, <3>1 DEF RingInv, Numbers
    <3> QED
      BY <1>1, <3>1, <3>2
  <2>2. \A q \in Producers : Holds(q) => head[q] # at
    BY <1>2, <1>5 DEF RingInv, Claims, TypeOK
  <2>3. {q \in Producers : Holds(q)' /\ head'[q] = at} = {p}
    BY <1>1, <1>4, <1>5, <2>2
  <2>4. (CHOOSE q \in {p} : TRUE) = p
    OBVIOUS
  <2> QED
    BY <1>4, <2>1, <2>3, <2>4 DEF Ticket
<1>8. \A pos \in FirstTicket .. producer - 1 : Ticket(pos)' = Ticket(pos)
  <2> TAKE pos \in FirstTicket .. producer - 1
  <2>1. pos \in FirstTicket' .. producer' - 1 /\ pos # producer
    BY <1>1, <1>2, <1>3
  <2>2. \A q \in Producers : /\ Holds(q) /\ head[q] = pos <=> Holds(q)' /\ head'[q] = pos
                             /\ Holds(q) /\ head[q] = pos => arg'[q] = arg[q]
    BY <1>1, <1>2, <1>4, <2>1
  <2> QED
    BY <1>1, <2>1, <2>2, TicketStays
<1>9. [item |-> arg[p], by |-> p] \in TicketSet
  BY <1>2 DEF TicketSet
<1>10. Tickets' = Append(Tickets, [item |-> arg[p], by |-> p])
  BY <1>1, <1>3, <1>5, <1>6, <1>7, <1>8, <1>9, NewTicket
<1>11. Len(Tickets) < Capacity
  <2>1. Len(Tickets) = producer - FirstTicket
    BY TicketSeq
  <2> QED
    BY <1>2, <1>3, <2>1, RingAssumption
<1>12. ~Queue!Filling(p)
  BY <1>2, OwnTicket DEF Queue!Filling
<1> QED
  BY <1>2, <1>3, <1>10, <1>11, <1>12 DEF Queue!Claim

\* The ticket of a producer that holds a position, and the others.
LEMMA HeldTicket ==
    ASSUME RingInv, NEW p \in Producers, Holds(p)
    PROVE  /\ head[p] \in FirstTicket .. producer - 1
           /\ Ticket(head[p]) = [item |-> arg[p], by |-> p]
<1>1. head[p] \in Nat /\ producer \in Nat /\ head[p] >= Unfreed /\ head[p] < producer
  BY DEF RingInv, Claims, TypeOK
<1>2. cpc \in {"move", "destroy", "free"} => head[p] # consumer
  BY HeldPositions
<1>3. head[p] >= FirstTicket /\ FirstTicket \in Nat
  BY <1>1, <1>2 DEF FirstTicket, Unfreed, RingInv, TypeOK
<1>4. head[p] \in FirstTicket .. producer - 1
  BY <1>1, <1>3
<1> QED
  BY <1>4, TicketKinds

\* The store of the number fills the ticket in, a throw leaves it for ever.
LEMMA HolderEnds ==
    ASSUME RingInv, RingInv', NEW p \in Producers, PushPublish(p) \/ PushThrow(p)
    PROVE  Queue!Fill(p) \/ Queue!Abandon(p)
<1>1. /\ Holds(p) /\ pc' = [pc EXCEPT ![p] = "idle"] /\ UNCHANGED <<producer, slots, head, arg, popVars>>
      /\ \/ pc[p] = "publish" /\ seq' = [seq EXCEPT ![SlotOf(head[p])] = head[p] + 1]
         \/ seq' = seq
  BY DEF PushPublish, PushThrow, Goto, Holds, ringVars
<1>2. PICK at : at = head[p]
  OBVIOUS
<1>3. /\ at \in FirstTicket .. producer - 1 /\ Ticket(at) = [item |-> arg[p], by |-> p]
      /\ at \in Window /\ at \in Nat /\ seq[SlotOf(at)] = at
      /\ FirstTicket .. producer - 1 \subseteq Window
      /\ \A x \in Window : SlotOf(x) \in Slot
      /\ \A x, y \in Window : x # y => SlotOf(x) # SlotOf(y)
      /\ TypeOK
  BY <1>1, <1>2, HeldTicket, HeldPositions, LapSlots, TicketPositions DEF RingInv
<1>4. producer' = producer /\ FirstTicket' = FirstTicket /\ out' = out
  BY <1>1 DEF popVars, FirstTicket
<1>5. /\ ~Holds(p)' /\ arg' = arg /\ head' = head
      /\ \A q \in Producers : q # p => (Holds(q)' <=> Holds(q))
      /\ \A q \in Producers : q # p /\ Holds(q) => head[q] # at
  BY <1>1, <1>2, <1>3, HeldPositions DEF Holds, TypeOK
<1>6. \A pos \in FirstTicket .. producer - 1 : pos # at => Ticket(pos)' = Ticket(pos)
  <2> TAKE pos \in FirstTicket .. producer - 1
  <2> HAVE pos # at
  <2>1. seq'[SlotOf(pos)] = seq[SlotOf(pos)] /\ slots'[SlotOf(pos)] = slots[SlotOf(pos)]
    BY <1>1, <1>2, <1>3 DEF TypeOK
  <2>2. \A q \in Producers : /\ Holds(q) /\ head[q] = pos <=> Holds(q)' /\ head'[q] = pos
                             /\ Holds(q) /\ head[q] = pos => arg'[q] = arg[q]
    BY <1>2, <1>5
  <2> QED
    BY <1>4, <2>1, <2>2, TicketStays
<1> DEFINE j == at - FirstTicket + 1
<1>7. CASE seq' = seq
  <2>1. {q \in Producers : Holds(q)' /\ head'[q] = at} = {}
    BY <1>5
  <2>2. Ticket(at)' = [item |-> Raw, by |-> Lost]
    BY <1>3, <1>7, <2>1 DEF Ticket
  <2>3. /\ j \in DOMAIN Tickets /\ Tickets[j] = Ticket(at)
        /\ Tickets' = [Tickets EXCEPT ![j] = [item |-> Raw, by |-> Lost]]
    BY <1>3, <1>4, <1>6, <2>2, OneTicket
  <2> HIDE DEF j
  <2>4. Tickets[j].by = p
    BY <1>3, <2>3
  <2> QED
    BY <1>4, <2>3, <2>4 DEF Queue!Abandon
<1>8. CASE pc[p] = "publish" /\ seq' = [seq EXCEPT ![SlotOf(head[p])] = head[p] + 1]
  <2>1. slots[SlotOf(at)] = arg[p]
    BY <1>2, <1>8 DEF RingInv, Claims
  <2>2. seq'[SlotOf(at)] = at + 1
    BY <1>2, <1>3, <1>8 DEF TypeOK
  <2>3. Ticket(at)' = [item |-> arg[p], by |-> Nobody]
    BY <1>1, <2>1, <2>2 DEF Ticket
  <2>4. /\ j \in DOMAIN Tickets /\ Tickets[j] = Ticket(at)
        /\ Tickets' = [Tickets EXCEPT ![j] = [item |-> arg[p], by |-> Nobody]]
    BY <1>3, <1>4, <1>6, <2>3, OneTicket
  <2> HIDE DEF j
  <2>5. Tickets[j].by = p /\ [Tickets[j] EXCEPT !.by = Nobody] = [item |-> arg[p], by |-> Nobody]
    BY <1>3, <2>4
  <2>6. Tickets' = [Tickets EXCEPT ![j].by = Nobody]
    BY <2>4, <2>5
  <2> QED
    BY <1>4, <2>4, <2>5, <2>6 DEF Queue!Fill
<1> QED
  BY <1>1, <1>7, <1>8

\* The move out of the slot delivers the oldest ticket.
LEMMA MoveDelivers ==
    ASSUME RingInv, RingInv', PopMove
    PROVE  Queue!Deliver
<1>1. /\ cpc = "move" /\ cpc' = "destroy" /\ out' = slots[SlotOf(consumer)]
      /\ UNCHANGED <<producer, seq, slots, pc, head, arg, consumer>>
  BY DEF PopMove, ringVars, pushVars
<1>2. /\ FirstTicket = consumer /\ FirstTicket' = FirstTicket + 1 /\ consumer \in Nat
      /\ consumer < producer /\ seq[SlotOf(consumer)] = consumer + 1 /\ producer \in Nat
  BY <1>1 DEF FirstTicket, RingInv, TypeOK, Taking
<1>3. PICK f : f = FirstTicket
  OBVIOUS
<1>4. \A pos \in FirstTicket + 1 .. producer - 1 : Ticket(pos)' = Ticket(pos)
  <2> TAKE pos \in FirstTicket + 1 .. producer - 1
  <2>1. pos \in FirstTicket .. producer - 1 /\ pos \in FirstTicket' .. producer' - 1
    BY <1>1, <1>2
  <2> QED
    BY <1>1, <2>1, TicketStays DEF Holds
<1>5. Tickets # <<>> /\ Head(Tickets) = Ticket(f) /\ Tickets' = Tail(Tickets)
  BY <1>1, <1>2, <1>3, <1>4, OldestTicket
<1>6. Ticket(f) = [item |-> slots[SlotOf(consumer)], by |-> Nobody]
  BY <1>2, <1>3 DEF Ticket
<1> QED
  BY <1>1, <1>5, <1>6 DEF Queue!Deliver

\* The queue delivers items in the order in which their slots were claimed, each
\* once: it implements TicketQueue.
THEOREM ImplementsQueue == Spec => ImplementsTickets
<1>1. Init => Queue!TicketInit
  <2> SUFFICES ASSUME Init PROVE Queue!TicketInit
    OBVIOUS
  <2>1. FirstTicket = 0 /\ producer = 0 /\ out = Raw
    BY DEF Init, FirstTicket
  <2>2. RingInv
    BY RingInvInit
  <2>3. Tickets \in Seq(TicketSet) /\ Len(Tickets) = 0
    BY <2>1, <2>2, TicketSeq
  <2> QED
    BY <2>1, <2>3, EmptySeq DEF Queue!TicketInit
<1>2. RingInv /\ RingInv' /\ [Next]_vars => [Queue!TicketNext]_<<Tickets, out>>
  <2> SUFFICES ASSUME RingInv, RingInv', [Next]_vars
               PROVE  Queue!TicketNext \/ UNCHANGED <<Tickets, out>>
    OBVIOUS
  <2>1. CASE UNCHANGED vars
    BY <2>1 DEF vars, ringVars, pushVars, popVars, Tickets, FirstTicket, Ticket, Holds
  <2>2. CASE PopMove
    BY <2>2, MoveDelivers DEF Queue!TicketNext
  <2>3. ASSUME NEW p \in Producers, PushStep(p) \/ \E x \in Item : PushBegin(p, x)
        PROVE  Queue!TicketNext \/ UNCHANGED <<Tickets, out>>
    <3>1. CASE PushClaim(p)
      BY <3>1, ClaimTakesTicket DEF Queue!TicketNext
    <3>2. CASE PushPublish(p) \/ PushThrow(p)
      BY <3>2, HolderEnds DEF Queue!TicketNext
    <3>3. CASE PushConstruct(p)
      BY <3>3, UnseenConstruct
    <3> QED
      BY <2>3, <3>1, <3>2, <3>3, UnseenSteps DEF PushStep
  <2>4. CASE PopBegin \/ PopThrow \/ PopDestroy \/ PopFree \/ PopAdvance
    BY <2>4, UnseenPops
  <2> QED
    BY <2>1, <2>2, <2>3, <2>4 DEF Next, Pop
<1> QED
  BY <1>1, <1>2, RingInvariant, PTL DEF Spec, ImplementsTickets, Queue!TicketSpec, Queue!ticketVars
=============================================================================
