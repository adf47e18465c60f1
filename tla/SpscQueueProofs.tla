-------------------------- MODULE SpscQueueProofs --------------------------
(***************************************************************************)
(* The safety of SpscQueue for every capacity, every width of the counters *)
(* that the capacity divides, and every set of items.                      *)
(***************************************************************************)
EXTENDS SpscQueue, SequenceTheorems, TLAPS

(* ---- arithmetic of the ring ------------------------------------------ *)

\* The linear part of the assumption on the capacity.
LEMMA RingSize ==
    /\ Capacity \in Nat /\ Capacity > 0
    /\ CounterModulus \in Nat /\ CounterModulus >= Capacity + Capacity
  BY CapacityAssumption

\* Division with remainder by the capacity.
LEMMA Division ==
    \A x \in Nat : /\ x % Capacity \in Slot
                   /\ x \div Capacity \in Nat
                   /\ x = Capacity * (x \div Capacity) + (x % Capacity)
  BY CapacityAssumption DEF Slot

\* kMask maps every counter value to a slot.
LEMMA SlotOfType == \A c \in Counter : SlotOf(c) \in Slot
  BY RingSize, Division DEF SlotOf, Counter

\* Two numbers less than a lap apart that share a slot are equal.
LEMMA SameSlotSameNumber ==
    ASSUME NEW x \in Nat, NEW y \in Nat, x <= y, y < x + Capacity,
           x % Capacity = y % Capacity
    PROVE  x = y
  BY CapacityAssumption, Division

\* The remainder of a multiple of the capacity plus a slot is the slot.
LEMMA RemainderOfSum ==
    ASSUME NEW q \in Nat, NEW s \in Slot
    PROVE  (Capacity * q + s) % Capacity = s
<1> DEFINE x == Capacity * q + s
           p == x \div Capacity
           r == x % Capacity
<1>1. x \in Nat /\ p \in Nat /\ r \in Slot /\ Capacity * p + r = Capacity * q + s
  BY RingSize, Division DEF Slot
<1>2. p = q
  <2> HIDE DEF x, p, r
  <2>1. Capacity * (p - q) = s - r /\ Capacity * (q - p) = r - s
    BY <1>1, RingSize DEF Slot
  <2>2. ~(p - q >= 1) /\ ~(q - p >= 1)
    BY <1>1, <2>1, RingSize DEF Slot
  <2> QED
    BY <1>1, <2>2
<1> QED
  BY <1>1, <1>2, RingSize DEF Slot

\* Adding whole laps of the ring does not change the slot.
LEMMA SlotOfLap ==
    ASSUME NEW x \in Nat
    PROVE  /\ (x + Capacity) % Capacity = x % Capacity
           /\ (x + CounterModulus) % Capacity = x % Capacity
<1>1. PICK q \in Nat, s \in Slot : x = Capacity * q + s /\ s = x % Capacity
  BY Division
<1>2. PICK k \in Nat : CounterModulus = Capacity * k
  BY CapacityAssumption, Division
<1>3. /\ x + Capacity = Capacity * (q + 1) + s
      /\ x + CounterModulus = Capacity * (q + k) + s
  BY <1>1, <1>2, RingSize DEF Slot
<1>4. /\ (Capacity * (q + 1) + s) % Capacity = s
      /\ (Capacity * (q + k) + s) % Capacity = s
  <2>1. q + 1 \in Nat /\ q + k \in Nat
    OBVIOUS
  <2> QED
    BY <2>1, RemainderOfSum
<1> QED
  BY <1>1, <1>3, <1>4

\* The slots of the counter values in one lap from t are pairwise different,
\* also when the lap spans the wrap of the counter.
LEMMA SlotOfInjective ==
    ASSUME NEW t \in Counter, NEW c \in Counter, NEW d \in Counter,
           Distance(c, t) < Capacity, Distance(d, t) < Capacity,
           SlotOf(c) = SlotOf(d)
    PROVE  c = d
<1>1. \A e \in Counter : Distance(e, t) < Capacity =>
         \E x \in Nat : /\ x % Capacity = SlotOf(e)
                        /\ x >= t /\ x < t + Capacity
                        /\ x = e \/ x = e + CounterModulus
  <2> TAKE e \in Counter
  <2> HAVE Distance(e, t) < Capacity
  <2>1. CASE e >= t
    BY <2>1, RingSize DEF SlotOf, Distance, Counter
  <2>2. CASE e < t
    <3>1. /\ e + CounterModulus \in Nat
          /\ (e + CounterModulus) % Capacity = SlotOf(e)
      BY RingSize, SlotOfLap DEF SlotOf, Counter
    <3> QED
      BY <2>2, <3>1, RingSize DEF Distance, Counter
  <2> QED
    BY <2>1, <2>2, RingSize DEF Counter
<1>2. PICK x \in Nat : /\ x % Capacity = SlotOf(c)
                       /\ x >= t /\ x < t + Capacity
                       /\ x = c \/ x = c + CounterModulus
  BY <1>1
<1>3. PICK y \in Nat : /\ y % Capacity = SlotOf(d)
                       /\ y >= t /\ y < t + Capacity
                       /\ y = d \/ y = d + CounterModulus
  BY <1>1
<1>4. x = y
  <2>1. CASE x <= y
    <3>1. y < x + Capacity
      BY <1>2, <1>3, <2>1, RingSize DEF Counter
    <3> QED
      BY <1>2, <1>3, <2>1, <3>1, SameSlotSameNumber
  <2>2. CASE y <= x
    <3>1. x < y + Capacity
      BY <1>2, <1>3, <2>2, RingSize DEF Counter
    <3> QED
      BY <1>2, <1>3, <2>2, <3>1, SameSlotSameNumber
  <2> QED
    BY <2>1, <2>2
<1> QED
  BY <1>2, <1>3, <1>4, RingSize DEF Counter

\* A counter value a full lap after t falls on the slot of t.
LEMMA SlotOfPeriodic ==
    ASSUME NEW t \in Counter, NEW c \in Counter, Distance(c, t) = Capacity
    PROVE  SlotOf(c) = SlotOf(t)
<1>1. t \in Nat /\ c \in Nat
  BY RingSize DEF Counter
<1>2. c = t + Capacity \/ c + CounterModulus = t + Capacity
  BY <1>1, RingSize DEF Distance
<1>3. /\ (t + Capacity) % Capacity = t % Capacity
      /\ (c + CounterModulus) % Capacity = c % Capacity
  BY <1>1, SlotOfLap
<1> QED
  BY <1>2, <1>3 DEF SlotOf

\* One lap from t visits every slot.
LEMMA SlotOfSurjective ==
    ASSUME NEW t \in Counter, NEW s \in Slot
    PROVE  \E c \in Counter : Distance(c, t) < Capacity /\ SlotOf(c) = s
<1>1. /\ t \in Nat /\ t \div Capacity \in Nat /\ t % Capacity \in Slot
      /\ t = Capacity * (t \div Capacity) + (t % Capacity)
  BY Division, RingSize DEF Counter
<1> DEFINE base == Capacity * (t \div Capacity)
           r == t % Capacity
<1>2. base \in Nat /\ r \in Slot /\ t = base + r /\ (base + s) % Capacity = s
  <2>1. (base + s) % Capacity = s
    BY <1>1, RemainderOfSum
  <2> QED
    BY <1>1, <2>1, RingSize
<1> HIDE DEF base, r
<1>3. PICK x \in Nat : x >= t /\ x < t + Capacity /\ x % Capacity = s
  <2>1. CASE s >= r
    BY <1>2, <2>1, RingSize DEF Slot
  <2>2. CASE s < r
    <3>1. base + s \in Nat /\ (base + s + Capacity) % Capacity = s
      BY <1>2, SlotOfLap DEF Slot
    <3> QED
      BY <1>2, <2>2, <3>1, RingSize DEF Slot
  <2> QED
    BY <1>2, <2>1, <2>2, RingSize DEF Slot
<1>4. CASE x < CounterModulus
  <2>1. x \in Counter /\ Distance(x, t) < Capacity
    BY <1>3, <1>4, RingSize DEF Counter, Distance
  <2> QED
    BY <1>3, <2>1 DEF SlotOf
<1>5. CASE x >= CounterModulus
  <2>1. PICK c \in Nat : x = c + CounterModulus
    BY <1>5, RingSize
  <2>2. c \in Counter /\ Distance(c, t) < Capacity
    BY <1>3, <2>1, RingSize DEF Counter, Distance
  <2>3. c % Capacity = s
    BY <1>3, <2>1, SlotOfLap
  <2> QED
    BY <2>2, <2>3 DEF SlotOf
<1> QED
  BY <1>4, <1>5, RingSize

(* ---- circular order of the counters ---------------------------------- *)

\* Distance is the length of the arc from the second counter value to the first.
LEMMA DistanceType ==
    ASSUME NEW c \in Counter, NEW t \in Counter
    PROVE  /\ Distance(c, t) \in Counter /\ Distance(c, t) \in Nat
           /\ Distance(c, t) = 0 <=> c = t
  BY RingSize DEF Distance, Counter

\* An arc splits at any value that lies on it.
LEMMA DistanceSplit ==
    ASSUME NEW a \in Counter, NEW b \in Counter, NEW c \in Counter,
           Distance(b, a) <= Distance(c, a)
    PROVE  Distance(c, b) = Distance(c, a) - Distance(b, a)
  BY RingSize DEF Distance, Counter

\* Two arcs that end to end stay shorter than the counter's range add up.
LEMMA DistanceJoin ==
    ASSUME NEW a \in Counter, NEW b \in Counter, NEW c \in Counter,
           Distance(b, a) + Distance(c, b) < CounterModulus
    PROVE  Distance(c, a) = Distance(b, a) + Distance(c, b)
  BY RingSize DEF Distance, Counter

\* Advancing the leading counter lengthens the arc by one, advancing the
\* trailing counter shortens it by one, the wrap notwithstanding.
LEMMA DistanceSucc ==
    ASSUME NEW c \in Counter, NEW t \in Counter
    PROVE  /\ Succ(c) \in Counter
           /\ Distance(c, t) + 1 < CounterModulus
                => Distance(Succ(c), t) = Distance(c, t) + 1
           /\ c # t => Distance(c, Succ(t)) = Distance(c, t) - 1
           /\ Distance(t, Succ(t)) = CounterModulus - 1
  BY RingSize DEF Distance, Succ, Counter

(* ---- the inductive invariant ------------------------------------------ *)

LEMMA InitRingInv == Init => RingInv
<1> SUFFICES ASSUME Init PROVE RingInv
  OBVIOUS
<1>1. 0 \in Counter /\ Distance(0, 0) = 0
  BY RingSize DEF Counter, Distance
<1>2. TypeOK
  BY <1>1 DEF Init, TypeOK
<1>3. Window
  BY <1>1, RingSize DEF Init, Window
<1>4. Storage
  <2> SUFFICES ASSUME NEW c \in Counter, Distance(c, consumer) < Capacity
               PROVE  slots[SlotOf(c)] # Raw <=> Constructed(c)
    BY DEF Storage
  <2>1. ~Constructed(c)
    BY <1>1, DistanceType DEF Init, Constructed, Counter
  <2> QED
    BY <2>1, SlotOfType DEF Init
<1> QED
  BY <1>2, <1>3, <1>4 DEF RingInv

\* What Window says about the two counters alone: never more than Capacity apart.
LEMMA Occupancy ==
    ASSUME TypeOK, Window
    PROVE  /\ Distance(producer, consumer) <= Capacity
           /\ ppc # "idle" => Distance(producer, consumer) < Capacity
           /\ cpc # "idle" => producer # consumer
<1> USE DEF TypeOK, Window
<1>1. Distance(producer, consumer) = Distance(producer, ptail) - Distance(consumer, ptail)
  BY DistanceSplit
<1>2. Distance(consumer, ptail) \in Nat /\ Distance(producer, ptail) \in Nat
  BY DistanceType, RingSize DEF Counter
<1>3. cpc # "idle" => Distance(chead, consumer) # 0 /\ Distance(chead, consumer) \in Nat
  BY DistanceType, RingSize DEF Counter
<1>4. producer = consumer => Distance(producer, consumer) = 0
  BY DistanceType
<1> QED
  BY <1>1, <1>2, <1>3, <1>4, RingSize

\* A load leaves the thread's view somewhere between what it saw and the present.
LEMMA VisibleView ==
    ASSUME NEW seen \in Counter, NEW now \in Counter, NEW c \in Visible(seen, now)
    PROVE  /\ c \in Counter
           /\ Distance(c, seen) <= Distance(now, seen)
           /\ Distance(now, c) = Distance(now, seen) - Distance(c, seen)
  BY DistanceSplit DEF Visible

\* Storage speaks of slots, producer, consumer and whether the two publish
\* steps are next: a step that changes none of these keeps it.
LEMMA StorageFrame ==
    ASSUME Storage, UNCHANGED <<producer, consumer, slots>>,
           ppc' = "publish" <=> ppc = "publish",
           cpc' = "publish" <=> cpc = "publish"
    PROVE  Storage'
  BY DEF Storage, Constructed

LEMMA PushBeginStep ==
    ASSUME RingInv, NEW x \in Item, PushBegin(x)
    PROVE  RingInv'
<1> USE DEF RingInv
<1>1. ptail \in Counter /\ consumer \in Counter /\ producer \in Counter
  BY DEF TypeOK
<1>2. /\ ptail' \in Counter
      /\ Distance(ptail', ptail) <= Distance(consumer, ptail)
      /\ Distance(consumer, ptail') = Distance(consumer, ptail) - Distance(ptail', ptail)
  BY <1>1, VisibleView DEF PushBegin
<1>3. TypeOK'
  BY <1>2 DEF TypeOK, PushBegin, consumerVars
<1>4. Window'
  <2>1. Distance(producer, ptail') = Distance(producer, ptail) - Distance(ptail', ptail)
    <3>1. Distance(ptail', ptail) <= Distance(producer, ptail)
      BY <1>1, <1>2, DistanceType, RingSize DEF Window, Counter
    <3> QED
      BY <1>1, <1>2, <3>1, DistanceSplit
  <2>2. /\ Distance(ptail', ptail) \in Nat /\ Distance(consumer, ptail) \in Nat
        /\ Distance(producer, ptail) \in Nat
    BY <1>1, <1>2, DistanceType
  <2>3. /\ Distance(producer, ptail') <= Capacity
        /\ Distance(consumer, ptail') <= Distance(producer, ptail')
    BY <1>2, <2>1, <2>2, RingSize DEF Window
  <2>4. ppc' # "idle" => Distance(producer, ptail') < Capacity /\ pitem' \in Item
    <3>1. Distance(producer, ptail') \in Nat
      BY <1>1, <1>2, DistanceType
    <3> QED
      BY <3>1, RingSize DEF PushBegin, Full
  <2> QED
    BY <2>3, <2>4 DEF Window, PushBegin, consumerVars
<1>5. Storage'
  <2>1. ppc' = "publish" <=> ppc = "publish"
    BY DEF PushBegin
  <2> QED
    BY <2>1, StorageFrame DEF PushBegin, consumerVars
<1> QED
  BY <1>3, <1>4, <1>5

LEMMA PushConstructStep ==
    ASSUME RingInv, PushConstruct
    PROVE  RingInv'
<1> USE DEF RingInv
<1>1. producer \in Counter /\ consumer \in Counter /\ pitem \in Item
  BY DEF TypeOK, Window, PushConstruct
<1>2. TypeOK'
  BY <1>1 DEF TypeOK, PushConstruct, consumerVars
<1>3. Window'
  BY DEF Window, PushConstruct, consumerVars
<1>4. Storage'
  <2> SUFFICES ASSUME NEW c \in Counter, Distance(c, consumer) < Capacity
               PROVE  slots'[SlotOf(c)] # Raw <=> Constructed(c)'
    BY DEF Storage, PushConstruct
  <2>1. Distance(producer, consumer) < Capacity
    BY Occupancy DEF PushConstruct
  <2>2. CASE c = producer
    <3>1. slots'[SlotOf(c)] = pitem
      BY <1>1, <2>2, SlotOfType DEF PushConstruct, TypeOK
    <3> QED
      BY <1>1, <2>2, <3>1, ItemAssumption DEF Constructed, PushConstruct
  <2>3. CASE c # producer
    <3>1. SlotOf(c) # SlotOf(producer)
      BY <1>1, <2>1, <2>3, SlotOfInjective
    <3>2. slots'[SlotOf(c)] = slots[SlotOf(c)]
      BY <3>1, SlotOfType DEF PushConstruct, TypeOK
    <3>3. Constructed(c)' <=> Constructed(c)
      BY <2>3 DEF Constructed, PushConstruct, consumerVars
    <3> QED
      BY <3>2, <3>3 DEF Storage
  <2> QED
    BY <2>2, <2>3
<1> QED
  BY <1>2, <1>3, <1>4

LEMMA PushThrowStep ==
    ASSUME RingInv, PushThrow
    PROVE  RingInv'
<1> USE DEF RingInv
<1>1. TypeOK' /\ Window'
  BY DEF TypeOK, Window, PushThrow, consumerVars
<1>2. Storage'
  BY StorageFrame DEF PushThrow, consumerVars
<1> QED
  BY <1>1, <1>2

LEMMA PushPublishStep ==
    ASSUME RingInv, PushPublish
    PROVE  RingInv'
<1> USE DEF RingInv
<1>1. producer \in Counter /\ consumer \in Counter /\ ptail \in Counter /\ chead \in Counter
  BY DEF TypeOK
<1>2. producer' \in Counter
  BY <1>1, DistanceSucc DEF PushPublish
<1>3. /\ Distance(producer, consumer) \in Nat /\ Distance(producer, consumer) < Capacity
      /\ Distance(producer', consumer) = Distance(producer, consumer) + 1
  <2>1. Distance(producer, consumer) \in Nat /\ Distance(producer, consumer) < Capacity
    BY <1>1, Occupancy, DistanceType, RingSize DEF PushPublish, Counter
  <2> QED
    BY <1>1, <2>1, DistanceSucc, RingSize DEF PushPublish
<1>4. TypeOK'
  BY <1>2 DEF TypeOK, PushPublish, consumerVars
<1>5. Window'
  <2>1. /\ Distance(producer, ptail) \in Nat /\ Distance(producer, ptail) < Capacity
        /\ Distance(consumer, ptail) \in Nat /\ Distance(chead, consumer) \in Nat
    BY <1>1, DistanceType, RingSize DEF PushPublish, Counter, Window
  <2>2. Distance(producer', ptail) = Distance(producer, ptail) + 1
    BY <1>1, <2>1, DistanceSucc, RingSize DEF PushPublish
  <2> QED
    BY <1>3, <2>1, <2>2, RingSize DEF Window, PushPublish, consumerVars
<1>6. Storage'
  <2> SUFFICES ASSUME NEW c \in Counter, Distance(c, consumer) < Capacity
               PROVE  slots[SlotOf(c)] # Raw <=> Constructed(c)'
    BY DEF Storage, PushPublish
  <2>1. Distance(c, consumer) = Distance(producer, consumer) <=> c = producer
    BY <1>1, DistanceJoin, RingSize DEF Distance, Counter
  <2>2. Distance(c, consumer) \in Nat
    BY <1>1, DistanceType, RingSize DEF Counter
  <2>3. cpc = "publish" => producer # consumer
    BY Occupancy
  <2>4. Constructed(c)' <=> Constructed(c)
    BY <1>3, <2>1, <2>2, <2>3, RingSize DEF Constructed, PushPublish, consumerVars
  <2> QED
    BY <2>4 DEF Storage
<1> QED
  BY <1>4, <1>5, <1>6

LEMMA PopBeginStep ==
    ASSUME RingInv, PopBegin
    PROVE  RingInv'
<1> USE DEF RingInv
<1>1. chead \in Counter /\ consumer \in Counter /\ producer \in Counter
  BY DEF TypeOK
<1>2. /\ chead' \in Counter
      /\ Distance(chead', chead) <= Distance(producer, chead)
  BY <1>1, VisibleView DEF PopBegin
<1>3. TypeOK'
  BY <1>2 DEF TypeOK, PopBegin, producerVars
<1>4. Window'
  <2>1. Distance(producer, chead) = Distance(producer, consumer) - Distance(chead, consumer)
    BY <1>1, DistanceSplit DEF Window
  <2>2. /\ Distance(producer, consumer) \in Nat /\ Distance(producer, consumer) <= Capacity
        /\ Distance(chead, consumer) \in Nat /\ Distance(chead', chead) \in Nat
    BY <1>1, <1>2, DistanceType, Occupancy
  <2>3. Distance(chead', consumer) = Distance(chead, consumer) + Distance(chead', chead)
    BY <1>1, <1>2, <2>1, <2>2, DistanceJoin, RingSize
  <2>4. Distance(chead', consumer) <= Distance(producer, consumer)
    BY <1>2, <2>1, <2>2, <2>3
  <2> QED
    BY <2>4 DEF Window, PopBegin, Empty, producerVars
<1>5. Storage'
  <2>1. cpc' = "publish" <=> cpc = "publish"
    BY DEF PopBegin
  <2> QED
    BY <2>1, StorageFrame DEF PopBegin, producerVars
<1> QED
  BY <1>3, <1>4, <1>5

\* A slot that the consumer found published holds an item until it destroys it.
LEMMA FoundItem ==
    ASSUME RingInv, cpc \in {"move", "destroy"}
    PROVE  slots[SlotOf(consumer)] \in Item
<1>1. consumer \in Counter /\ producer \in Counter /\ producer # consumer
  BY Occupancy DEF RingInv, TypeOK
<1>2. Distance(consumer, consumer) = 0 /\ Distance(producer, consumer) > 0
  BY <1>1, DistanceType
<1>3. Constructed(consumer)
  BY <1>2 DEF Constructed
<1>4. slots[SlotOf(consumer)] # Raw
  BY <1>1, <1>2, <1>3, RingSize DEF RingInv, Storage
<1> QED
  BY <1>1, <1>4, SlotOfType DEF RingInv, TypeOK

LEMMA PopMoveStep ==
    ASSUME RingInv, PopMove
    PROVE  RingInv'
<1> USE DEF RingInv
<1>1. TypeOK'
  BY FoundItem DEF TypeOK, PopMove, producerVars
<1>2. Window'
  BY DEF Window, PopMove, producerVars
<1>3. Storage'
  BY StorageFrame DEF PopMove, producerVars
<1> QED
  BY <1>1, <1>2, <1>3

LEMMA PopThrowStep ==
    ASSUME RingInv, PopThrow
    PROVE  RingInv'
<1> USE DEF RingInv
<1>1. TypeOK' /\ Window'
  BY DEF TypeOK, Window, PopThrow, producerVars
<1>2. Storage'
  BY StorageFrame DEF PopThrow, producerVars
<1> QED
  BY <1>1, <1>2

LEMMA PopDestroyStep ==
    ASSUME RingInv, PopDestroy
    PROVE  RingInv'
<1> USE DEF RingInv
<1>1. /\ producer \in Counter /\ consumer \in Counter /\ producer # consumer
      /\ Distance(consumer, consumer) = 0
  BY Occupancy, DistanceType DEF TypeOK, PopDestroy
<1>2. TypeOK'
  BY DEF TypeOK, PopDestroy, producerVars
<1>3. Window'
  BY DEF Window, PopDestroy, producerVars
<1>4. Storage'
  <2> SUFFICES ASSUME NEW c \in Counter, Distance(c, consumer) < Capacity
               PROVE  slots'[SlotOf(c)] # Raw <=> Constructed(c)'
    BY DEF Storage, PopDestroy
  <2>1. CASE c = consumer
    <3>1. slots'[SlotOf(c)] = Raw
      BY <1>1, <2>1, SlotOfType DEF PopDestroy, TypeOK
    <3> QED
      BY <1>1, <2>1, <3>1 DEF Constructed, PopDestroy, producerVars
  <2>2. CASE c # consumer
    <3>1. SlotOf(c) # SlotOf(consumer)
      BY <1>1, <2>2, SlotOfInjective, RingSize
    <3>2. slots'[SlotOf(c)] = slots[SlotOf(c)]
      BY <3>1, SlotOfType DEF PopDestroy, TypeOK
    <3>3. Constructed(c)' <=> Constructed(c)
      BY <2>2 DEF Constructed, PopDestroy, producerVars
    <3> QED
      BY <3>2, <3>3 DEF Storage
  <2> QED
    BY <2>1, <2>2
<1> QED
  BY <1>2, <1>3, <1>4

LEMMA PopPublishStep ==
    ASSUME RingInv, PopPublish
    PROVE  RingInv'
<1> USE DEF RingInv
<1>1. /\ producer \in Counter /\ consumer \in Counter /\ ptail \in Counter /\ chead \in Counter
      /\ producer # consumer /\ chead # consumer
  BY Occupancy DEF TypeOK, Window, PopPublish
<1>2. /\ consumer' \in Counter
      /\ Distance(producer, consumer') = Distance(producer, consumer) - 1
      /\ Distance(chead, consumer') = Distance(chead, consumer) - 1
  BY <1>1, DistanceSucc DEF PopPublish
<1>3. /\ Distance(producer, consumer) \in Nat \ {0} /\ Distance(chead, consumer) \in Nat
      /\ Distance(producer, consumer) <= Capacity
  BY <1>1, DistanceType, Occupancy
<1>4. TypeOK'
  BY <1>2 DEF TypeOK, PopPublish, producerVars
<1>5. Window'
  <2>1. Distance(producer, consumer) = Distance(producer, ptail) - Distance(consumer, ptail)
    BY <1>1, DistanceSplit DEF Window
  <2>2. Distance(producer, ptail) \in Nat /\ Distance(consumer, ptail) \in Nat
    BY <1>1, DistanceType
  <2>3. Distance(consumer, ptail) + 1 <= Distance(producer, ptail)
    BY <1>3, <2>1, <2>2
  <2>4. Distance(consumer', ptail) = Distance(consumer, ptail) + 1
    BY <1>1, <2>2, <2>3, DistanceSucc, RingSize DEF Window, PopPublish
  <2> QED
    BY <1>2, <1>3, <2>3, <2>4 DEF Window, PopPublish, producerVars
<1>6. Storage'
  <2> SUFFICES ASSUME NEW c \in Counter, Distance(c, consumer') < Capacity
               PROVE  slots[SlotOf(c)] # Raw <=> Constructed(c)'
    BY DEF Storage, PopPublish
  <2>1. Distance(consumer, consumer') = CounterModulus - 1
    BY <1>1, DistanceSucc DEF PopPublish
  <2>2. c # consumer
    BY <2>1, RingSize
  <2>3. Distance(c, consumer') = Distance(c, consumer) - 1
    BY <1>1, <2>2, DistanceSucc DEF PopPublish
  <2>4. Distance(c, consumer) \in Nat
    BY <1>1, DistanceType
  <2>5. CASE Distance(c, consumer) < Capacity
    <3>1. Constructed(c)' <=> Constructed(c)
      BY <1>2, <1>3, <2>2, <2>3, <2>4 DEF Constructed, PopPublish, producerVars
    <3> QED
      BY <2>5, <3>1 DEF Storage
  <2>6. CASE Distance(c, consumer) = Capacity
    <3>1. Distance(consumer, consumer) = 0 /\ ~Constructed(consumer)
      BY <1>1, DistanceType DEF Constructed, PopPublish
    <3>2. slots[SlotOf(consumer)] = Raw
      BY <1>1, <3>1, RingSize DEF Storage
    <3>3. ~(ppc = "publish" /\ c = producer)
      BY <1>3, <2>6, Occupancy, RingSize
    <3>4. ~Constructed(c)'
      BY <1>2, <1>3, <2>3, <2>6, <3>3, RingSize DEF Constructed, PopPublish, producerVars
    <3> QED
      BY <1>1, <2>6, <3>2, <3>4, SlotOfPeriodic
  <2> QED
    BY <2>3, <2>4, <2>5, <2>6, RingSize
<1> QED
  BY <1>4, <1>5, <1>6

LEMMA NextRingInv == RingInv /\ [Next]_vars => RingInv'
<1> SUFFICES ASSUME RingInv, [Next]_vars PROVE RingInv'
  OBVIOUS
<1>1. ASSUME NEW x \in Item, PushBegin(x) PROVE RingInv'
  BY <1>1, PushBeginStep
<1>2. CASE PushConstruct
  BY <1>2, PushConstructStep
<1>3. CASE PushThrow
  BY <1>3, PushThrowStep
<1>4. CASE PushPublish
  BY <1>4, PushPublishStep
<1>5. CASE PopBegin
  BY <1>5, PopBeginStep
<1>6. CASE PopMove
  BY <1>6, PopMoveStep
<1>7. CASE PopThrow
  BY <1>7, PopThrowStep
<1>8. CASE PopDestroy
  BY <1>8, PopDestroyStep
<1>9. CASE PopPublish
  BY <1>9, PopPublishStep
<1>10. CASE UNCHANGED vars
  BY <1>10 DEF vars, RingInv, TypeOK, Window, Storage, Constructed
<1> QED
  BY <1>1, <1>2, <1>3, <1>4, <1>5, <1>6, <1>7, <1>8, <1>9, <1>10 DEF Next, Push, Pop

\* The inductive invariant of the ring: the counters never drift further apart
\* than either thread's view allows, and a counter's slot is constructed exactly
\* while it is in between.
THEOREM RingInvariant == Spec => []RingInv
  BY InitRingInv, NextRingInv, PTL DEF Spec

(* ---- what follows from it ---------------------------------------------- *)

\* Every variable keeps its type; in particular try_pop never hands out raw storage.
THEOREM TypeCorrect == Spec => []TypeOK
<1>1. RingInv => TypeOK
  BY DEF RingInv
<1> QED
  BY <1>1, RingInvariant, PTL

\* try_push constructs only in raw storage, try_pop moves only from a constructed
\* item, and the two threads never touch one slot's storage at the same time.
THEOREM NoSlotRace == Spec => []SlotHandover
<1>1. ASSUME RingInv PROVE SlotHandover
  <2> USE <1>1 DEF RingInv
  <2>1. producer \in Counter /\ consumer \in Counter
    BY DEF TypeOK
  <2>2. ppc = "construct" => slots[SlotOf(producer)] = Raw
    <3> SUFFICES ASSUME ppc = "construct" PROVE slots[SlotOf(producer)] = Raw
      OBVIOUS
    <3>1. Distance(producer, consumer) < Capacity
      BY Occupancy
    <3>2. ~Constructed(producer)
      BY <2>1, DistanceType DEF Constructed
    <3> QED
      BY <2>1, <3>1, <3>2 DEF Storage
  <2>3. (ppc # "idle" /\ cpc # "idle") => SlotOf(producer) # SlotOf(consumer)
    <3> SUFFICES ASSUME ppc # "idle", cpc # "idle"
                 PROVE  SlotOf(producer) # SlotOf(consumer)
      OBVIOUS
    <3>1. Distance(producer, consumer) < Capacity /\ producer # consumer
      BY Occupancy
    <3>2. Distance(consumer, consumer) < Capacity
      BY <2>1, DistanceType, RingSize
    <3> QED
      BY <2>1, <3>1, <3>2, SlotOfInjective
  <2> QED
    BY <2>2, <2>3, FoundItem DEF SlotHandover
<1> QED
  BY <1>1, RingInvariant, PTL

\* A slot holds a T exactly while it is published or about to be: nothing is
\* overwritten, leaked or destroyed twice.
THEOREM NoLeak == Spec => []LiveSlots
<1>1. ASSUME RingInv PROVE LiveSlots
  <2> USE <1>1 DEF RingInv
  <2>1. producer \in Counter /\ consumer \in Counter
    BY DEF TypeOK
  <2> SUFFICES ASSUME NEW s \in Slot
               PROVE  slots[s] # Raw <=>
                        \/ Published(s) /\ ~(cpc = "publish" /\ s = SlotOf(consumer))
                        \/ ppc = "publish" /\ s = SlotOf(producer)
    BY DEF LiveSlots
  <2>2. PICK c \in Counter : Distance(c, consumer) < Capacity /\ SlotOf(c) = s
    BY <2>1, SlotOfSurjective
  <2>3. slots[s] # Raw <=> Constructed(c)
    BY <2>2 DEF Storage
  <2>4. Published(s) <=> Distance(c, consumer) < Distance(producer, consumer)
    <3>1. ASSUME NEW d \in Counter, Distance(d, consumer) < Distance(producer, consumer),
                 s = SlotOf(d)
          PROVE  d = c
      <4>1. Distance(d, consumer) < Capacity
        BY <2>1, <3>1, Occupancy, DistanceType, RingSize
      <4> QED
        BY <2>1, <2>2, <3>1, <4>1, SlotOfInjective
    <3> QED
      BY <2>2, <3>1 DEF Published
  <2>5. s = SlotOf(consumer) <=> c = consumer
    <3>1. Distance(consumer, consumer) < Capacity
      BY <2>1, DistanceType, RingSize
    <3> QED
      BY <2>1, <2>2, <3>1, SlotOfInjective
  <2>6. ppc = "publish" => (s = SlotOf(producer) <=> c = producer)
    BY <2>1, <2>2, Occupancy, SlotOfInjective
  <2> QED
    BY <2>3, <2>4, <2>5, <2>6 DEF Constructed
<1> QED
  BY <1>1, RingInvariant, PTL

\* size() called by either owner stays between zero and the capacity, whichever
\* value of the other thread's counter its load returns.
THEOREM SizeInRange == Spec => []OwnerSizeInRange
<1>1. ASSUME RingInv PROVE OwnerSizeInRange
  <2> USE <1>1 DEF RingInv
  <2>1. /\ producer \in Counter /\ consumer \in Counter
        /\ ptail \in Counter /\ chead \in Counter
    BY DEF TypeOK
  <2>2. ASSUME NEW c \in Visible(ptail, consumer)
        PROVE  Distance(producer, c) \in 0 .. Capacity
    <3>1. c \in Counter /\ Distance(c, ptail) <= Distance(consumer, ptail)
      BY <2>1, VisibleView
    <3>2. /\ Distance(c, ptail) \in Nat /\ Distance(consumer, ptail) \in Nat
          /\ Distance(producer, ptail) \in Nat /\ Distance(producer, c) \in Nat
      BY <2>1, <3>1, DistanceType
    <3>3. Distance(producer, c) = Distance(producer, ptail) - Distance(c, ptail)
      BY <2>1, <3>1, <3>2, DistanceSplit DEF Window
    <3> QED
      BY <3>2, <3>3, RingSize DEF Window
  <2>3. ASSUME NEW c \in Visible(chead, producer)
        PROVE  Distance(c, consumer) \in 0 .. Capacity
    <3>1. c \in Counter /\ Distance(c, chead) <= Distance(producer, chead)
      BY <2>1, VisibleView
    <3>2. Distance(producer, chead) = Distance(producer, consumer) - Distance(chead, consumer)
      BY <2>1, DistanceSplit DEF Window
    <3>3. /\ Distance(producer, consumer) \in Nat /\ Distance(producer, consumer) <= Capacity
          /\ Distance(chead, consumer) \in Nat /\ Distance(c, chead) \in Nat
          /\ Distance(c, consumer) \in Nat
      BY <2>1, <3>1, DistanceType, Occupancy
    <3>4. Distance(c, consumer) = Distance(chead, consumer) + Distance(c, chead)
      BY <2>1, <3>1, <3>2, <3>3, DistanceJoin, RingSize
    <3> QED
      BY <3>1, <3>2, <3>3, <3>4, RingSize
  <2> QED
    BY <2>2, <2>3 DEF OwnerSizeInRange
<1> QED
  BY <1>1, RingInvariant, PTL

(* ---- the ring is a bounded queue ---------------------------------------- *)

\* What std::construct_at has put in the slot is still there at the store of head + 1.
Filled == ppc = "publish" => slots[SlotOf(producer)] = pitem

\* How many items are between the counters.
Held == Distance(producer, consumer)

LEMMA HeldType ==
    ASSUME RingInv
    PROVE  /\ Held \in 0 .. Capacity /\ Held \in Nat
           /\ ppc # "idle" => Held < Capacity
           /\ cpc # "idle" => Held > 0
           /\ producer \in Nat /\ consumer \in Nat
           /\ Taken \in 0 .. 1 /\ Taken <= Held
<1>1. producer \in Counter /\ consumer \in Counter
  BY DEF RingInv, TypeOK
<1>2. Held \in Nat /\ (Held = 0 <=> producer = consumer)
  BY <1>1, DistanceType DEF Held
<1>3. /\ Held <= Capacity
      /\ ppc # "idle" => Held < Capacity
      /\ cpc # "idle" => producer # consumer
  BY Occupancy DEF RingInv, Held
<1>4. Taken = 0 \/ (Taken = 1 /\ cpc # "idle")
  BY DEF Taken
<1>5. producer \in Nat /\ consumer \in Nat
  BY <1>1 DEF Counter
<1> QED
  BY <1>2, <1>3, <1>4, <1>5, RingSize

\* The slot the producer writes is the one behind the last item held.
LEMMA ProducerSlot ==
    ASSUME RingInv
    PROVE  SlotOf(producer) = SlotOf(consumer + Held)
<1>1. producer \in Nat /\ consumer \in Nat /\ Held \in Nat
  BY HeldType
<1>2. consumer + Held = producer \/ consumer + Held = producer + CounterModulus
  BY <1>1, RingSize DEF Held, Distance
<1> QED
  BY <1>1, <1>2, SlotOfLap DEF SlotOf

\* The slots of one lap from the consumer are pairwise different.
LEMMA OtherSlot ==
    ASSUME RingInv, NEW k \in Slot, NEW l \in Slot, SlotOf(consumer + k) = SlotOf(consumer + l)
    PROVE  k = l
<1>1. consumer \in Nat
  BY HeldType
<1>2. k \in Nat /\ l \in Nat /\ k < Capacity /\ l < Capacity
  BY RingSize DEF Slot
<1>3. /\ consumer + k \in Nat /\ consumer + l \in Nat
      /\ (consumer + k) % Capacity = (consumer + l) % Capacity
  BY <1>1, <1>2 DEF SlotOf
<1>4. CASE k <= l
  <2>1. consumer + k <= consumer + l /\ consumer + l < consumer + k + Capacity
    BY <1>1, <1>2, <1>4, RingSize
  <2>2. consumer + k = consumer + l
    BY <1>3, <2>1, SameSlotSameNumber
  <2> QED
    BY <1>1, <1>2, <2>2
<1>5. CASE l <= k
  <2>1. consumer + l <= consumer + k /\ consumer + k < consumer + l + Capacity
    BY <1>1, <1>2, <1>5, RingSize
  <2>2. consumer + k = consumer + l
    BY <1>3, <2>1, SameSlotSameNumber
  <2> QED
    BY <1>1, <1>2, <2>2
<1> QED
  BY <1>2, <1>4, <1>5

\* Queued is a sequence, of the length and with the items one expects.
QueuedReads ==
    /\ Queued \in Seq(Item \cup {Raw})
    /\ Len(Queued) = Held - Taken
    /\ \A i \in 1 .. Held - Taken : Queued[i] = slots[SlotOf(consumer + Taken + i - 1)]

LEMMA QueuedSeq == RingInv => QueuedReads
<1> SUFFICES ASSUME RingInv PROVE QueuedReads
  OBVIOUS
<1>1. Held - Taken \in Nat /\ consumer \in Nat /\ Taken \in 0 .. 1
  BY HeldType
<1>2. \A i \in 1 .. Held - Taken : slots[SlotOf(consumer + Taken + i - 1)] \in Item \cup {Raw}
  <2> TAKE i \in 1 .. Held - Taken
  <2>1. consumer + Taken + i - 1 \in Nat
    BY <1>1
  <2>2. SlotOf(consumer + Taken + i - 1) \in Slot
    BY <2>1, Division DEF SlotOf
  <2> QED
    BY <2>2 DEF RingInv, TypeOK
<1>3. Queued = [i \in 1 .. Held - Taken |-> slots[SlotOf(consumer + Taken + i - 1)]]
  BY DEF Queued, Held
<1>4. Queued \in [1 .. Held - Taken -> Item \cup {Raw}]
  BY <1>2, <1>3
<1>5. Queued \in Seq(Item \cup {Raw})
  BY <1>1, <1>4, SeqDef
<1>6. Len(Queued) \in Nat /\ DOMAIN Queued = 1 .. Len(Queued) /\ DOMAIN Queued = 1 .. Held - Taken
  BY <1>4, <1>5, LenProperties
<1>7. \A m, n \in Nat : 1 .. m = 1 .. n => m = n
  <2> SUFFICES ASSUME NEW m \in Nat, NEW n \in Nat, 1 .. m = 1 .. n PROVE m = n
    OBVIOUS
  <2>1. (m >= 1 => m \in 1 .. n) /\ (n >= 1 => n \in 1 .. m)
    OBVIOUS
  <2> QED
    BY <2>1
<1>8. Len(Queued) = Held - Taken
  BY <1>1, <1>6, <1>7
<1> QED
  BY <1>3, <1>5, <1>8 DEF QueuedReads

\* The same of the next state.
LEMMA QueuedSeqNext == RingInv' => QueuedReads'
  BY QueuedSeq, PTL

\* Two states whose items are the same in the same order.
LEMMA SameQueue ==
    ASSUME RingInv, RingInv', Held' - Taken' = Held - Taken,
           \A i \in 1 .. Held - Taken :
              slots'[SlotOf(consumer' + Taken' + i - 1)] = slots[SlotOf(consumer + Taken + i - 1)]
    PROVE  Queued' = Queued
<1>1. /\ Queued' \in Seq(Item \cup {Raw}) /\ Len(Queued') = Held' - Taken'
      /\ \A i \in 1 .. Held' - Taken' : Queued'[i] = slots'[SlotOf(consumer' + Taken' + i - 1)]
  BY QueuedSeqNext DEF QueuedReads
<1>2. \A i \in 1 .. Len(Queued) : Queued'[i] = Queued[i]
  BY <1>1, QueuedSeq DEF QueuedReads
<1> QED
  BY <1>1, <1>2, QueuedSeq, SeqEqual DEF QueuedReads

\* Constructing an item behind those held leaves them alone.
LEMMA ConstructUnseen ==
    ASSUME RingInv, RingInv', PushConstruct
    PROVE  UNCHANGED <<Queued, out>> /\ Filled'
<1>1. /\ ppc = "construct" /\ slots' = [slots EXCEPT ![SlotOf(producer)] = pitem]
      /\ UNCHANGED <<producer, consumer, pitem, cpc, out>>
  BY DEF PushConstruct, consumerVars
<1>2. Held' = Held /\ Taken' = Taken /\ Held \in Slot
  BY <1>1, HeldType, RingSize DEF Held, Taken, Slot
<1>3. \A i \in 1 .. Held - Taken :
        slots'[SlotOf(consumer' + Taken' + i - 1)] = slots[SlotOf(consumer + Taken + i - 1)]
  <2> TAKE i \in 1 .. Held - Taken
  <2>1. Taken + i - 1 \in Slot /\ Taken + i - 1 # Held
    BY <1>2, HeldType, RingSize DEF Slot
  <2>2. consumer + Taken + i - 1 = consumer + (Taken + i - 1)
    BY HeldType
  <2>3. SlotOf(consumer + Taken + i - 1) # SlotOf(producer)
    BY <1>2, <2>1, <2>2, ProducerSlot, OtherSlot
  <2> QED
    BY <1>1, <1>2, <2>3
<1>4. slots'[SlotOf(producer)] = pitem
  BY <1>1, SlotOfType DEF RingInv, TypeOK
<1> QED
  BY <1>1, <1>2, <1>3, <1>4, SameQueue DEF Filled

\* Destroying the item moved out leaves those still held, and the one just
\* constructed, alone.
LEMMA DestroyUnseen ==
    ASSUME RingInv, RingInv', Filled, PopDestroy
    PROVE  UNCHANGED <<Queued, out>> /\ Filled'
<1>1. /\ cpc = "destroy" /\ cpc' = "publish" /\ slots' = [slots EXCEPT ![SlotOf(consumer)] = Raw]
      /\ UNCHANGED <<producer, consumer, pitem, ppc, out>>
  BY DEF PopDestroy, producerVars
<1>2. Held' = Held /\ Taken' = 1 /\ Taken = 1 /\ Held > 0 /\ 0 \in Slot
  BY <1>1, HeldType, RingSize DEF Held, Taken, Slot
<1>3. \A k \in Slot : k # 0 => SlotOf(consumer + k) # SlotOf(consumer)
  <2>1. consumer + 0 = consumer
    BY HeldType
  <2> QED
    BY <1>2, <2>1, OtherSlot
<1>4. \A i \in 1 .. Held - Taken :
        slots'[SlotOf(consumer' + Taken' + i - 1)] = slots[SlotOf(consumer + Taken + i - 1)]
  <2> TAKE i \in 1 .. Held - Taken
  <2>1. i \in Slot /\ i # 0 /\ consumer + Taken + i - 1 = consumer + i
    BY <1>2, HeldType, RingSize DEF Slot
  <2>2. SlotOf(consumer + Taken + i - 1) # SlotOf(consumer)
    BY <1>3, <2>1
  <2> QED
    BY <1>1, <1>2, <2>2
<1>5. Filled'
  <2> SUFFICES ASSUME ppc = "publish" PROVE slots'[SlotOf(producer)] = pitem
    BY <1>1 DEF Filled
  <2>1. Held \in Slot /\ Held # 0
    BY <1>2, HeldType, RingSize DEF Slot
  <2>2. SlotOf(producer) # SlotOf(consumer)
    BY <1>3, <2>1, ProducerSlot
  <2> QED
    BY <1>1, <2>2 DEF Filled
<1> QED
  BY <1>1, <1>2, <1>4, <1>5, SameQueue

\* The store of head + 1 hands the item over to the queue.
LEMMA PublishPushes ==
    ASSUME RingInv, RingInv', Filled, PushPublish
    PROVE  pitem \in Item /\ Fifo!Push(pitem) /\ Filled'
<1>1. /\ ppc = "publish" /\ ppc' = "idle" /\ producer' = Succ(producer)
      /\ UNCHANGED <<consumer, slots, cpc, out>>
  BY DEF PushPublish, consumerVars
<1>2. pitem \in Item
  BY <1>1 DEF RingInv, Window
<1>3. Held' = Held + 1 /\ Taken' = Taken /\ Held < Capacity
  <2>1. producer \in Counter /\ consumer \in Counter
    BY DEF RingInv, TypeOK
  <2>2. Held \in Nat /\ Held < Capacity
    BY <1>1, HeldType
  <2>3. Distance(producer, consumer) + 1 < CounterModulus
    BY <2>2, RingSize DEF Held
  <2>4. Distance(Succ(producer), consumer) = Distance(producer, consumer) + 1
    BY <2>1, <2>3, DistanceSucc
  <2> QED
    BY <1>1, <2>2, <2>4 DEF Held, Taken
<1>4. Held \in Nat /\ Taken \in 0 .. 1 /\ Taken <= Held /\ consumer \in Nat
  BY HeldType
<1>5. /\ Queued \in Seq(Item \cup {Raw}) /\ Len(Queued) = Held - Taken
      /\ \A i \in 1 .. Held - Taken : Queued[i] = slots[SlotOf(consumer + Taken + i - 1)]
  BY QueuedSeq DEF QueuedReads
<1>6. /\ Queued' \in Seq(Item \cup {Raw}) /\ Len(Queued') = Held + 1 - Taken
      /\ \A i \in 1 .. Held + 1 - Taken : Queued'[i] = slots[SlotOf(consumer + Taken + i - 1)]
  <2>1. /\ Queued' \in Seq(Item \cup {Raw}) /\ Len(Queued') = Held' - Taken'
        /\ \A i \in 1 .. Held' - Taken' : Queued'[i] = slots'[SlotOf(consumer' + Taken' + i - 1)]
    BY QueuedSeqNext DEF QueuedReads
  <2>2. Held' - Taken' = Held + 1 - Taken
    BY <1>3, <1>4
  <2>3. consumer' = consumer /\ Taken' = Taken /\ slots' = slots
    BY <1>1, <1>3
  <2> QED
    BY <2>1, <2>2, <2>3
<1>7. /\ Append(Queued, pitem) \in Seq(Item \cup {Raw})
      /\ Len(Append(Queued, pitem)) = Held - Taken + 1
      /\ \A i \in 1 .. Held - Taken : Append(Queued, pitem)[i] = Queued[i]
      /\ Append(Queued, pitem)[Held - Taken + 1] = pitem
  BY <1>2, <1>5, AppendProperties
<1>8. ASSUME NEW i \in 1 .. Held + 1 - Taken
      PROVE  Queued'[i] = Append(Queued, pitem)[i]
  <2>1. CASE i \in 1 .. Held - Taken
    BY <1>5, <1>6, <1>7, <2>1
  <2>2. CASE i = Held - Taken + 1
    <3>1. consumer + Taken + i - 1 = consumer + Held
      BY <1>4, <2>2
    <3>2. Queued'[i] = slots[SlotOf(producer)]
      BY <1>6, <3>1, ProducerSlot
    <3> QED
      BY <1>1, <1>7, <2>2, <3>2 DEF Filled
  <2>3. i \in 1 .. Held - Taken \/ i = Held - Taken + 1
    BY <1>4
  <2> QED
    BY <2>1, <2>2, <2>3
<1>9. Queued' = Append(Queued, pitem)
  <2>1. Len(Queued') = Len(Append(Queued, pitem))
    BY <1>4, <1>6, <1>7
  <2>2. \A i \in 1 .. Len(Queued') : Queued'[i] = Append(Queued, pitem)[i]
    BY <1>6, <1>8
  <2> QED
    BY <1>6, <1>7, <2>1, <2>2, SeqEqual
<1>10. Len(Queued) < Capacity
  BY <1>3, <1>4, <1>5, RingSize
<1> QED
  BY <1>1, <1>2, <1>9, <1>10 DEF Fifo!Push, Filled

\* Moving the item out delivers the oldest one.
LEMMA MovePops ==
    ASSUME RingInv, RingInv', Filled, PopMove
    PROVE  Fifo!Pop /\ Filled'
<1>1. /\ cpc = "move" /\ cpc' = "destroy" /\ out' = slots[SlotOf(consumer)]
      /\ UNCHANGED <<producer, consumer, slots, ppc, pitem>>
  BY DEF PopMove, producerVars
<1>2. Held' = Held /\ Taken = 0 /\ Taken' = 1 /\ Held \in Nat /\ Held > 0 /\ consumer \in Nat
  BY <1>1, HeldType DEF Held, Taken
<1>3. /\ Queued \in Seq(Item \cup {Raw}) /\ Len(Queued) = Held
      /\ \A i \in 1 .. Held : Queued[i] = slots[SlotOf(consumer + i - 1)]
  BY <1>2, QueuedSeq DEF QueuedReads
<1>4. /\ Queued' \in Seq(Item \cup {Raw}) /\ Len(Queued') = Held - 1
      /\ \A i \in 1 .. Held - 1 : Queued'[i] = slots[SlotOf(consumer + 1 + i - 1)]
  BY <1>1, <1>2, QueuedSeqNext DEF QueuedReads
<1>5. Queued # <<>>
  BY <1>2, <1>3, EmptySeq
<1>6. /\ Tail(Queued) \in Seq(Item \cup {Raw}) /\ Len(Tail(Queued)) = Held - 1
      /\ \A i \in 1 .. Held - 1 : Tail(Queued)[i] = Queued[i + 1]
  BY <1>3, <1>5, HeadTailProperties
<1>7. Queued' = Tail(Queued)
  <2>1. ASSUME NEW i \in 1 .. Held - 1
        PROVE  Queued'[i] = Tail(Queued)[i]
    <3>1. i + 1 \in 1 .. Held /\ consumer + 1 + i - 1 = consumer + (i + 1) - 1
      BY <1>2
    <3> QED
      BY <1>3, <1>4, <1>6, <3>1
  <2> QED
    BY <1>4, <1>6, <2>1, SeqEqual
<1>8. Head(Queued) = slots[SlotOf(consumer)]
  <2>1. 1 \in 1 .. Held /\ consumer + 1 - 1 = consumer
    BY <1>2
  <2>2. Head(Queued) = Queued[1]
    BY <1>3
  <2> QED
    BY <1>3, <2>1, <2>2
<1> QED
  BY <1>1, <1>5, <1>7, <1>8 DEF Fifo!Pop, Filled

\* The store of tail + 1 gives the slot back; the queue has already lost the item.
LEMMA FreeUnseen ==
    ASSUME RingInv, RingInv', Filled, PopPublish
    PROVE  UNCHANGED <<Queued, out>> /\ Filled'
<1>1. /\ cpc = "publish" /\ cpc' = "idle" /\ consumer' = Succ(consumer)
      /\ UNCHANGED <<producer, slots, ppc, pitem, out>>
  BY DEF PopPublish, producerVars
<1>2. Held' = Held - 1 /\ Taken = 1 /\ Taken' = 0
  <2>1. producer \in Counter /\ consumer \in Counter /\ producer # consumer
    BY <1>1, Occupancy DEF RingInv, TypeOK
  <2>2. Distance(producer, Succ(consumer)) = Distance(producer, consumer) - 1
    BY <2>1, DistanceSucc
  <2> QED
    BY <1>1, <2>2 DEF Held, Taken
<1>3. Held \in Nat /\ consumer \in Nat /\ consumer' \in Nat
  BY <1>1, HeldType, RingSize DEF Succ
<1>4. consumer' = consumer + 1 \/ consumer' + CounterModulus = consumer + 1
  BY <1>1, <1>3 DEF Succ
<1>5. \A i \in 1 .. Held - 1 : SlotOf(consumer' + 0 + i - 1) = SlotOf(consumer + 1 + i - 1)
  <2> TAKE i \in 1 .. Held - 1
  <2>0. \A m, n \in Nat : \A k \in 1 .. Held - 1 :
           /\ m + 0 + k - 1 \in Nat
           /\ m = n + 1 => n + 1 + k - 1 = m + 0 + k - 1
           /\ m + CounterModulus = n + 1 => n + 1 + k - 1 = (m + 0 + k - 1) + CounterModulus
    BY <1>3, RingSize
  <2>1. consumer' + 0 + i - 1 \in Nat
    BY <1>3, <2>0
  <2>2. \/ consumer + 1 + i - 1 = consumer' + 0 + i - 1
        \/ consumer + 1 + i - 1 = (consumer' + 0 + i - 1) + CounterModulus
    BY <1>3, <1>4, <2>0
  <2> QED
    BY <2>1, <2>2, SlotOfLap DEF SlotOf
<1>6. Held' - Taken' = Held - Taken
  BY <1>2, <1>3
<1> QED
  BY <1>1, <1>2, <1>5, <1>6, SameQueue DEF Filled

\* The loads, and the throws, are seen by neither caller.
LEMMA LoadsUnseen ==
    ASSUME RingInv, RingInv', Filled,
           (\E x \in Item : PushBegin(x)) \/ PushThrow \/ PopBegin \/ PopThrow
    PROVE  UNCHANGED <<Queued, out>> /\ Filled'
<1>1. UNCHANGED <<producer, consumer, slots, out>> /\ Taken' = Taken
  BY DEF PushBegin, PushThrow, PopBegin, PopThrow, producerVars, consumerVars, Taken
<1>2. UNCHANGED Queued
  BY <1>1, SameQueue DEF Held
<1>3. ppc' # "publish" \/ UNCHANGED <<ppc, pitem>>
  BY DEF PushBegin, PushThrow, PopBegin, PopThrow, producerVars
<1> QED
  BY <1>1, <1>2, <1>3 DEF Filled

\* Every try_push that returns true appends one item, every try_pop that returns true
\* takes the oldest one, and nothing else that the two threads do is seen: the ring
\* implements BoundedFifo.
THEOREM RefinesFifo == Spec => Fifo!FifoSpec
<1>1. Init => Filled /\ Fifo!FifoInit
  <2> SUFFICES ASSUME Init PROVE Filled /\ Queued = <<>> /\ out = Raw
    BY DEF Fifo!FifoInit
  <2>1. Held = 0 /\ Taken = 0
    BY DEF Init, Held, Distance, Taken
  <2>2. Queued \in Seq(Item \cup {Raw}) /\ Len(Queued) = 0
    BY <2>1, InitRingInv, QueuedSeq DEF QueuedReads
  <2> QED
    BY <2>2, EmptySeq DEF Init, Filled
<1>2. RingInv /\ RingInv' /\ Filled /\ [Next]_vars
        => Filled' /\ [Fifo!FifoNext]_<<Queued, out>>
  <2> SUFFICES ASSUME RingInv, RingInv', Filled, [Next]_vars
               PROVE  Filled' /\ (Fifo!FifoNext \/ UNCHANGED <<Queued, out>>)
    OBVIOUS
  <2>1. CASE UNCHANGED vars
    BY <2>1 DEF vars, Filled, Queued, Taken
  <2>2. CASE PushConstruct
    BY <2>2, ConstructUnseen
  <2>3. CASE PushPublish
    BY <2>3, PublishPushes DEF Fifo!FifoNext
  <2>4. CASE PopMove
    BY <2>4, MovePops DEF Fifo!FifoNext
  <2>5. CASE PopDestroy
    BY <2>5, DestroyUnseen
  <2>6. CASE PopPublish
    BY <2>6, FreeUnseen
  <2>7. CASE (\E x \in Item : PushBegin(x)) \/ PushThrow \/ PopBegin \/ PopThrow
    BY <2>7, LoadsUnseen
  <2> QED
    BY <2>1, <2>2, <2>3, <2>4, <2>5, <2>6, <2>7 DEF Next, Push, Pop
<1> QED
  BY <1>1, <1>2, RingInvariant, PTL DEF Spec, Fifo!FifoSpec, Fifo!fifoVars
=============================================================================
