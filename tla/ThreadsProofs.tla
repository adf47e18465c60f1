--------------------------- MODULE ThreadsProofs ----------------------------
(***************************************************************************)
(* Three structures that threads of a process share, none with another.    *)
(* In SeqLock and Disruptor one writer publishes to any number of readers  *)
(* and waits for none, or only for the slowest: the reads of the seqlock   *)
(* are whole and never stale, and the consumers of the disruptor are       *)
(* handed every event in order.  ThreadPool keeps the order of the tasks   *)
(* of a key.  For every number of readers, consumers, words, writes and    *)
(* events and every capacity, and for every number of workers,             *)
(* submitters, groups and tasks, and any number of stops and restarts.     *)
(***************************************************************************)
EXTENDS SeqLock, Disruptor, ThreadPool, SequenceTheorems, TLAPS

(* ---- the seqlock ------------------------------------------------------- *)

\* Parity and stamp under the two increments of a write.
LEMMA Parity ==
    \A n \in Nat : /\ Stamp(n) \in Nat
                   /\ Even(n) => ~Even(n + 1) /\ Stamp(n + 1) = Stamp(n)
                   /\ ~Even(n) => Even(n + 1) /\ Stamp(n + 1) = Stamp(n) + 1
  BY DEF Stamp, Even

\* A later sequence number has no earlier stamp.
LEMMA StampMonotone ==
    \A m, n \in Nat : m <= n => Stamp(m) <= Stamp(n)
  BY DEF Stamp

LEMMA InitSeqInv == SeqLockInit => SeqInv
<1> SUFFICES ASSUME SeqLockInit PROVE SeqInv
  OBVIOUS
<1>1. SeqLockTypeOK
  BY DEF SeqLockInit, SeqLockTypeOK
<1>2. Even(0) /\ Stamp(0) = 0
  BY DEF Even, Stamp
<1>3. PayloadInv
  BY <1>2 DEF SeqLockInit, PayloadInv
<1>4. ReaderInv
  BY DEF SeqLockInit, ReaderInv
<1>5. ReturnsOneWrite
  BY DEF SeqLockInit, ReturnsOneWrite
<1> QED
  BY <1>1, <1>3, <1>4, <1>5 DEF SeqInv

\* A writer's step leaves the readers' variables alone and only lets seq_ grow.
\* While it has grown past an even value no reader relies on that value.
LEMMA WriterKeepsReaders ==
    ASSUME SeqInv, UNCHANGED readerVars, seq' \in Nat, seq' >= seq,
           seq' = seq => ~Even(seq)
    PROVE  ReaderInv' /\ ReturnsOneWrite'
<1> USE DEF SeqInv
<1>1. ReaderInv'
  BY DEF ReaderInv, SeqLockTypeOK, readerVars
<1>2. ReturnsOneWrite'
  <2> SUFFICES ASSUME NEW r \in Readers, pc[r] = "idle", ret[r] = "ok"
               PROVE  \E n \in Stamp(began[r]) .. Stamp(seq') : \A w \in Words : out[r][w] = n
    BY DEF ReturnsOneWrite, readerVars
  <2>1. PICK n \in Stamp(began[r]) .. Stamp(seq) : \A w \in Words : out[r][w] = n
    BY DEF ReturnsOneWrite
  <2>2. /\ Stamp(began[r]) \in Nat /\ Stamp(seq) \in Nat /\ Stamp(seq') \in Nat
        /\ Stamp(seq) <= Stamp(seq')
    BY Parity, StampMonotone DEF SeqLockTypeOK
  <2> QED
    BY <2>1, <2>2
<1> QED
  BY <1>1, <1>2

LEMMA WriteBeginStep == ASSUME SeqInv, WriteBegin PROVE SeqInv'
<1> USE DEF SeqInv
<1>1. seq \in Nat /\ seq' = seq + 1 /\ Even(seq) /\ ~Even(seq') /\ Stamp(seq') = Stamp(seq)
  BY Parity DEF SeqLockTypeOK, WriteBegin
<1>2. SeqLockTypeOK'
  BY <1>1 DEF SeqLockTypeOK, WriteBegin, readerVars
<1>3. PayloadInv'
  BY <1>1 DEF PayloadInv, WriteBegin
<1>4. ReaderInv' /\ ReturnsOneWrite'
  BY <1>1, WriterKeepsReaders DEF WriteBegin
<1> QED
  BY <1>2, <1>3, <1>4

LEMMA WriteWordStep == ASSUME SeqInv, NEW w \in Words, WriteWord(w) PROVE SeqInv'
<1> USE DEF SeqInv
<1>1. seq \in Nat /\ seq' = seq /\ ~Even(seq) /\ Stamp(seq) + 1 \in Nat
  BY Parity DEF SeqLockTypeOK, PayloadInv, WriteWord
<1>2. SeqLockTypeOK'
  BY <1>1 DEF SeqLockTypeOK, WriteWord, readerVars
<1>3. PayloadInv'
  BY <1>1 DEF PayloadInv, WriteWord, SeqLockTypeOK
<1>4. ReaderInv' /\ ReturnsOneWrite'
  BY <1>1, WriterKeepsReaders DEF WriteWord
<1> QED
  BY <1>2, <1>3, <1>4

LEMMA WriteEndStep == ASSUME SeqInv, WriteEnd PROVE SeqInv'
<1> USE DEF SeqInv
<1>1. /\ seq \in Nat /\ seq' = seq + 1 /\ ~Even(seq) /\ Even(seq')
      /\ Stamp(seq') = Stamp(seq) + 1
  BY Parity DEF SeqLockTypeOK, WriteEnd
<1>2. SeqLockTypeOK'
  BY <1>1 DEF SeqLockTypeOK, WriteEnd, readerVars
<1>3. PayloadInv'
  BY <1>1 DEF PayloadInv, WriteEnd
<1>4. ReaderInv' /\ ReturnsOneWrite'
  BY <1>1, WriterKeepsReaders DEF WriteEnd
<1> QED
  BY <1>2, <1>3, <1>4

LEMMA CallStep ==
    ASSUME SeqInv, NEW r \in Readers, NEW mode \in BOOLEAN, Call(r, mode)
    PROVE  SeqInv'
<1> USE DEF SeqInv, Call, Goto, writerVars
<1>1. SeqLockTypeOK'
  BY DEF SeqLockTypeOK
<1>2. PayloadInv'
  BY DEF PayloadInv
<1>3. ReaderInv'
  BY DEF ReaderInv, SeqLockTypeOK
<1>4. ReturnsOneWrite'
  BY DEF ReturnsOneWrite, SeqLockTypeOK
<1> QED
  BY <1>1, <1>2, <1>3, <1>4

LEMMA Load0Step == ASSUME SeqInv, NEW r \in Readers, Load0(r) PROVE SeqInv'
<1> USE DEF SeqInv, Load0, Goto, Return, writerVars
<1>1. SeqLockTypeOK'
  BY DEF SeqLockTypeOK
<1>2. PayloadInv'
  BY DEF PayloadInv
<1>3. ReaderInv'
  BY DEF ReaderInv, SeqLockTypeOK
<1>4. ReturnsOneWrite'
  BY DEF ReturnsOneWrite, SeqLockTypeOK
<1> QED
  BY <1>1, <1>2, <1>3, <1>4

LEMMA CopyWordStep ==
    ASSUME SeqInv, NEW r \in Readers, NEW w \in Words, CopyWord(r, w)
    PROVE  SeqInv'
<1> USE DEF SeqInv, CopyWord, writerVars
<1>1. SeqLockTypeOK'
  BY DEF SeqLockTypeOK
<1>2. PayloadInv'
  BY DEF PayloadInv
<1>3. ReaderInv'
  BY DEF ReaderInv, SeqLockTypeOK, PayloadInv
<1>4. ReturnsOneWrite'
  BY DEF ReturnsOneWrite, SeqLockTypeOK
<1> QED
  BY <1>1, <1>2, <1>3, <1>4

LEMMA Load1Step == ASSUME SeqInv, NEW r \in Readers, Load1(r) PROVE SeqInv'
<1> USE DEF SeqInv, Load1, Goto, Return, writerVars
<1>1. SeqLockTypeOK'
  BY DEF SeqLockTypeOK
<1>2. PayloadInv'
  BY DEF PayloadInv
<1>3. ReaderInv'
  BY DEF ReaderInv, SeqLockTypeOK
<1>4. ReturnsOneWrite'
  <2> SUFFICES ASSUME NEW q \in Readers, pc'[q] = "idle", ret'[q] = "ok"
               PROVE  \E n \in Stamp(began[q]) .. Stamp(seq) : \A w \in Words : out[q][w] = n
    BY DEF ReturnsOneWrite
  <2>1. CASE q = r /\ Stable(r)
    <3>1. \A w \in Words : out[r][w] = Stamp(seq)
      BY <2>1 DEF Stable, ReaderInv
    <3>2. began[r] <= seq /\ Stamp(began[r]) <= Stamp(seq)
      BY StampMonotone DEF ReaderInv, SeqLockTypeOK
    <3>3. Stamp(seq) \in Stamp(began[r]) .. Stamp(seq)
      BY <3>2, Parity DEF SeqLockTypeOK
    <3> QED
      BY <2>1, <3>1, <3>3
  <2>2. CASE ~(q = r /\ Stable(r))
    <3>1. pc[q] = "idle" /\ ret[q] = "ok"
      BY <2>2 DEF SeqLockTypeOK
    <3> QED
      BY <3>1 DEF ReturnsOneWrite
  <2> QED
    BY <2>1, <2>2
<1> QED
  BY <1>1, <1>2, <1>3, <1>4

LEMMA NextSeqInv == SeqInv /\ [SeqLockNext]_seqLockVars => SeqInv'
<1> SUFFICES ASSUME SeqInv, [SeqLockNext]_seqLockVars PROVE SeqInv'
  OBVIOUS
<1>1. CASE WriteBegin
  BY <1>1, WriteBeginStep
<1>2. ASSUME NEW w \in Words, WriteWord(w) PROVE SeqInv'
  BY <1>2, WriteWordStep
<1>3. CASE WriteEnd
  BY <1>3, WriteEndStep
<1>4. ASSUME NEW r \in Readers, NEW mode \in BOOLEAN, Call(r, mode) PROVE SeqInv'
  BY <1>4, CallStep
<1>5. ASSUME NEW r \in Readers, Load0(r) PROVE SeqInv'
  BY <1>5, Load0Step
<1>6. ASSUME NEW r \in Readers, NEW w \in Words, CopyWord(r, w) PROVE SeqInv'
  BY <1>6, CopyWordStep
<1>7. ASSUME NEW r \in Readers, Load1(r) PROVE SeqInv'
  BY <1>7, Load1Step
<1>8. CASE UNCHANGED seqLockVars
  BY <1>8 DEF seqLockVars, writerVars, readerVars, SeqInv, SeqLockTypeOK, PayloadInv, ReaderInv,
              ReturnsOneWrite
<1> QED
  BY <1>1, <1>2, <1>3, <1>4, <1>5, <1>6, <1>7, <1>8 DEF SeqLockNext, WriteStep, ReadStep

\* The inductive invariant: what a reader has copied since an unmoved even
\* sequence number is the write that number stands for.
THEOREM SeqInvariant == SeqLockSpec => []SeqInv
  BY InitSeqInv, NextSeqInv, PTL DEF SeqLockSpec

\* read() and a successful try_read() return one whole write, no older than the
\* call, for any number of readers and words.
THEOREM NoTornRead == SeqLockSpec => []ReturnsOneWrite
<1>1. SeqInv => ReturnsOneWrite
  BY DEF SeqInv
<1> QED
  BY <1>1, SeqInvariant, PTL

\* A sequence that returns to where it began was there at every load between.
LEMMA Squeezed == \A i, j, k \in Nat : i <= j /\ j <= k /\ k = i => j = k
  OBVIOUS

\* try_read() reports failure only when a write was running at its begin or has
\* begun since: an odd first load, or two loads that differ, are nothing else.
THEOREM MissedMeansOverlap == SeqLockSpec => MissedOnlyByOverlap
<1>1. ASSUME SeqInv, [SeqLockNext]_seqLockVars, NEW r \in Readers,
             pc[r] # "idle", pc'[r] = "idle", ret'[r] = "missed"
      PROVE  ~retry[r] /\ (~Even(began[r]) \/ seq # began[r])
  <2> USE <1>1 DEF SeqInv, SeqLockTypeOK
  <2>1. CASE Load0(r)
    BY <2>1 DEF Load0, Goto, Return
  <2>2. CASE Load1(r)
    <3>1. ~Stable(r) /\ ~retry[r] /\ pc[r] = "copy"
      BY <2>2 DEF Load1, Goto, Return
    <3>2. began[r] <= s0[r] /\ s0[r] <= seq
      BY <3>1 DEF ReaderInv
    <3>3. seq \in Nat /\ began[r] \in Nat /\ s0[r] \in Nat
      OBVIOUS
    <3>4. seq = began[r] => s0[r] = seq
      BY ONLY <3>2, <3>3, Squeezed
    <3> QED
      BY <3>1, <3>4 DEF Stable
  <2>3. CASE UNCHANGED pc
    BY <2>3
  <2>4. ASSUME NEW q \in Readers, q # r, ReadStep(q) \/ \E mode \in BOOLEAN : Call(q, mode)
        PROVE  pc'[r] = pc[r]
    BY <2>4 DEF ReadStep, Load0, CopyWord, Load1, Call, Goto, Return
  <2>5. ASSUME NEW w \in Words, CopyWord(r, w)
        PROVE  UNCHANGED pc
    BY <2>5 DEF CopyWord
  <2>6. ASSUME NEW mode \in BOOLEAN, Call(r, mode)
        PROVE  FALSE
    BY <2>6 DEF Call
  <2>7. WriteBegin \/ WriteStep \/ UNCHANGED seqLockVars => UNCHANGED pc
    BY DEF WriteBegin, WriteStep, WriteWord, WriteEnd, readerVars, seqLockVars
  <2> QED
    BY <2>1, <2>2, <2>3, <2>4, <2>5, <2>6, <2>7 DEF SeqLockNext, ReadStep
<1>2. SeqInv /\ [SeqLockNext]_seqLockVars =>
        [\A r \in Readers : pc[r] # "idle" /\ pc'[r] = "idle" /\ ret'[r] = "missed"
            => ~retry[r] /\ (~Even(began[r]) \/ seq # began[r])]_seqLockVars
  BY <1>1
<1> QED
  BY <1>2, SeqInvariant, PTL DEF SeqLockSpec, MissedOnlyByOverlap

(* ---- the disruptor ----------------------------------------------------- *)

(* ---- arithmetic of the ring ------------------------------------------ *)

\* kMask maps every event to a slot.
LEMMA SlotOfType ==
    \A e \in Nat : /\ SlotOf(e) \in 0 .. Capacity - 1
                   /\ e \div Capacity \in Nat
                   /\ e = Capacity * (e \div Capacity) + SlotOf(e)
  BY DisruptorAssumption DEF SlotOf

\* Two events less than a lap apart have different slots.
LEMMA OtherSlot ==
    ASSUME NEW d \in Nat, NEW e \in Nat, d < e, e < d + Capacity
    PROVE  SlotOf(d) # SlotOf(e)
<1> SUFFICES ASSUME SlotOf(d) = SlotOf(e) PROVE FALSE
  OBVIOUS
<1> DEFINE p == d \div Capacity
           q == e \div Capacity
           r == SlotOf(e)
<1>1. /\ p \in Nat /\ q \in Nat /\ r \in Nat /\ Capacity \in Nat /\ Capacity > 0
      /\ d = Capacity * p + r /\ e = Capacity * q + r
  <2>1. Capacity \in Nat /\ Capacity > 0
    BY DisruptorAssumption
  <2>2. p \in Nat /\ d = Capacity * p + SlotOf(d)
    BY SlotOfType
  <2>3. q \in Nat /\ r \in 0 .. Capacity - 1 /\ e = Capacity * q + r
    BY SlotOfType
  <2> QED
    BY <2>1, <2>2, <2>3
<1> HIDE DEF p, q, r
<1>2. e - d = Capacity * (q - p)
  BY <1>1
<1>3. ~(q - p <= 0) /\ ~(q - p >= 1)
  BY <1>1, <1>2
<1> QED
  BY <1>1, <1>3

\* The counters of TypeOK as integers with their bounds.
LEMMA Ranges ==
    ASSUME TypeOK
    PROVE  /\ producer \in Int /\ producer >= -1 /\ producer < MaxEvents
           /\ \A c \in Consumers :
                /\ cursor[c] \in Int /\ cursor[c] >= -1 /\ cursor[c] < MaxEvents
                /\ view[c] \in Int /\ view[c] >= -1 /\ view[c] < MaxEvents
                /\ next[c] \in Nat /\ next[c] <= MaxEvents
  BY DisruptorAssumption DEF TypeOK, Events

(* ---- the inductive invariant ----------------------------------------- *)

\* The state after the constructor.
LEMMA RingInvInit == Init => RingInv
<1> SUFFICES ASSUME Init PROVE RingInv
  OBVIOUS
<1> USE DisruptorAssumption DEF Init
<1>1. TypeOK
  BY DEF TypeOK
<1>2. Window
  BY DEF Window
<1>3. Storage
  BY DEF Storage, Events
<1> QED
  BY <1>1, <1>2, <1>3 DEF RingInv

\* subscribe().
LEMMA SubscribeStep ==
    ASSUME RingInv, NEW c \in Consumers, Subscribe(c) PROVE RingInv'
<1> USE DisruptorAssumption DEF RingInv, Subscribe, producerVars, consumerVars
<1>1. TypeOK'
  BY DEF TypeOK
<1>2. Window'
  BY DEF TypeOK, Window, Events
<1>3. Storage'
  BY DEF Storage
<1> QED
  BY <1>1, <1>2, <1>3

\* publish() enters the loop of next_slot().
LEMMA PublishBeginStep == ASSUME RingInv, PublishBegin PROVE RingInv'
<1> USE DisruptorAssumption DEF RingInv, PublishBegin, consumerVars
<1>1. TypeOK'
  BY DEF TypeOK
<1>2. Window'
  BY DEF TypeOK, Window, Events
<1>3. Storage'
  BY DEF Storage
<1> QED
  BY <1>1, <1>2, <1>3

\* One load of a cursor in that loop.
LEMMA LoadCursorStep ==
    ASSUME RingInv, NEW c \in Consumers, LoadCursor(c) PROVE RingInv'
<1> USE DisruptorAssumption DEF RingInv, LoadCursor, consumerVars
<1>1. PICK seen \in view[c] .. cursor[c] : view' = [view EXCEPT ![c] = seen]
  OBVIOUS
<1>2. seen \in {-1} \cup Events /\ seen <= cursor[c]
  BY Ranges DEF Events
<1>3. TypeOK'
  BY <1>1, <1>2 DEF TypeOK
<1>4. Window'
  BY <1>1, <1>2, Ranges DEF TypeOK, Window, Events
<1>5. Storage'
  BY DEF Storage
<1> QED
  BY <1>3, <1>4, <1>5

\* next_slot() returns: every consumer has done with the event that leaves.
LEMMA GateStep == ASSUME RingInv, Gate PROVE RingInv'
<1> USE DisruptorAssumption DEF RingInv, Gate, consumerVars
<1>1. producer + 1 \in Events
  BY DEF TypeOK, Window, Events
<1>2. SlotOf(producer + 1) \in 0 .. Capacity - 1
  BY <1>1, SlotOfType DEF Events
<1>3. TypeOK'
  BY <1>2 DEF TypeOK
<1>4. Window'
  <2> SUFFICES ASSUME NEW c \in subscribed PROVE producer + 1 - cursor[c] <= Capacity
    BY DEF Window
  <2>1. /\ c \in Consumers /\ cursor[c] \in Int /\ view[c] \in Int /\ producer \in Int
        /\ view[c] <= cursor[c] /\ Room(c)
    BY DEF TypeOK, Window, Events
  <2> QED
    BY ONLY <2>1, DisruptorAssumption DEF Room, DisruptorAssumption
<1>5. Storage'
  <2> SUFFICES ASSUME NEW e \in Events, e <= producer, producer + 1 < e + Capacity
               PROVE  slots'[SlotOf(e)] = e
    BY DEF Storage, TypeOK, Events
  <2>1. SlotOf(e) # SlotOf(producer + 1)
    BY <1>1, OtherSlot DEF TypeOK, Events
  <2>2. slots[SlotOf(e)] = e
    BY DEF Storage, TypeOK, Events
  <2>3. SlotOf(e) \in 0 .. Capacity - 1
    BY SlotOfType DEF Events
  <2> QED
    BY <2>1, <2>2, <2>3 DEF TypeOK
<1> QED
  BY <1>3, <1>4, <1>5

\* The slot is assigned.
LEMMA AssignStep == ASSUME RingInv, Write PROVE RingInv'
<1> USE DisruptorAssumption DEF RingInv, Write, consumerVars
<1>1. producer + 1 \in Events
  BY DEF TypeOK, Window, Events
<1>2. SlotOf(producer + 1) \in 0 .. Capacity - 1
  BY <1>1, SlotOfType DEF Events
<1>3. TypeOK'
  BY <1>1, <1>2 DEF TypeOK
<1>4. Window'
  BY DEF TypeOK, Window, Events
<1>5. Storage'
  <2>1. ASSUME NEW e \in Events, e <= producer, producer + 1 < e + Capacity
        PROVE  slots'[SlotOf(e)] = e
    <3>1. SlotOf(e) # SlotOf(producer + 1)
      BY <1>1, <2>1, OtherSlot DEF TypeOK, Events
    <3>2. slots[SlotOf(e)] = e
      BY <2>1 DEF Storage, TypeOK, Events
    <3>3. SlotOf(e) \in 0 .. Capacity - 1
      BY <2>1, SlotOfType DEF Events
    <3> QED
      BY <3>1, <3>2, <3>3 DEF TypeOK
  <2>2. slots'[SlotOf(producer + 1)] = producer + 1
    BY <1>2 DEF TypeOK
  <2> QED
    BY <2>1, <2>2 DEF Storage
<1> QED
  BY <1>3, <1>4, <1>5

\* commit().
LEMMA CommitStep == ASSUME RingInv, Commit PROVE RingInv'
<1> USE DisruptorAssumption DEF RingInv, Commit, consumerVars
<1>1. producer + 1 \in Events
  BY DEF TypeOK, Window, Events
<1>2. TypeOK'
  BY <1>1 DEF TypeOK
<1>3. Window'
  <2>1. \A c \in inTime : producer' - cursor'[c] <= Capacity
    BY Ranges DEF TypeOK, Window
  <2>2. \A c \in Consumers : next[c] <= producer => next[c] <= producer'
    BY Ranges
  <2>3. \A c \in Consumers : cursor[c] <= producer'
    BY Ranges DEF Window
  <2> QED
    BY <2>1, <2>2, <2>3 DEF Window
<1>4. Storage'
  <2> SUFFICES ASSUME NEW e \in Events, e <= producer + 1,
                      producer + 1 < e + Capacity
               PROVE  slots[SlotOf(e)] = e
    BY DEF Storage
  <2>1. CASE e = producer + 1
    BY <2>1 DEF Storage
  <2>2. CASE e <= producer
    BY <2>2 DEF Storage, TypeOK, Events
  <2> QED
    BY <2>1, <2>2 DEF TypeOK, Events
<1> QED
  BY <1>2, <1>3, <1>4

\* wait() or try_consume() finds an event.
LEMMA TakeStep == ASSUME RingInv, NEW c \in Consumers, Take(c) PROVE RingInv'
<1> USE DisruptorAssumption DEF RingInv, Take, producerVars
<1>1. TypeOK'
  BY DEF TypeOK
<1>2. Window'
  BY DEF TypeOK, Window, Events
<1>3. Storage'
  BY DEF Storage
<1> QED
  BY <1>1, <1>2, <1>3

\* consumed().
LEMMA ConsumedStep ==
    ASSUME RingInv, NEW c \in Consumers, Consumed(c) PROVE RingInv'
<1> USE DisruptorAssumption DEF RingInv, Consumed, producerVars
<1>1. next[c] \in Events
  BY DEF TypeOK, Window, Events
<1>2. TypeOK'
  BY <1>1 DEF TypeOK, Events
<1>3. Window'
  <2>1. /\ next'[c] = next[c] + 1 /\ cursor'[c] = next[c] /\ ~holding'[c]
        /\ \A d \in Consumers \ {c} :
             /\ next'[d] = next[d] /\ cursor'[d] = cursor[d]
             /\ holding'[d] = holding[d]
    BY DEF TypeOK
  <2>2. /\ next[c] = cursor[c] + 1 /\ next[c] <= producer /\ c \in subscribed
    BY DEF Window
  <2>3. \A d \in Consumers :
          /\ next'[d] = cursor'[d] + 1
          /\ view'[d] <= cursor'[d] /\ cursor'[d] <= producer'
          /\ holding'[d] => d \in subscribed' /\ next'[d] <= producer'
          /\ d \notin subscribed' => cursor'[d] = -1
    BY <2>1, <2>2, Ranges DEF Window
  <2>4. \A d \in Consumers : cursor[d] <= cursor'[d] /\ cursor'[d] \in Int
    BY <2>1, <2>2, Ranges
  <2>5. /\ \A d \in subscribed' :
             ppc' \in {"write", "commit"} => producer' + 1 - cursor'[d] <= Capacity
        /\ \A d \in inTime' : producer' - cursor'[d] <= Capacity
    <3>1. /\ subscribed' = subscribed /\ inTime' = inTime /\ ppc' = ppc
          /\ producer' = producer /\ inTime \subseteq Consumers
          /\ subscribed \subseteq Consumers /\ Capacity \in Nat
      BY DEF TypeOK
    <3>2. \A d \in Consumers :
            /\ producer - cursor[d] <= Capacity => producer - cursor'[d] <= Capacity
            /\ producer + 1 - cursor[d] <= Capacity =>
                 producer + 1 - cursor'[d] <= Capacity
      BY <2>4, <3>1, Ranges
    <3> QED
      BY <3>1, <3>2 DEF Window
  <2> QED
    BY <2>3, <2>5 DEF Window
<1>4. Storage'
  BY DEF Storage
<1> QED
  BY <1>2, <1>3, <1>4

\* Every step of either side.
LEMMA RingInvStep == RingInv /\ [Next]_vars => RingInv'
<1> SUFFICES ASSUME RingInv, [Next]_vars PROVE RingInv'
  OBVIOUS
<1>1. CASE PublishBegin
  BY <1>1, PublishBeginStep
<1>2. CASE Gate
  BY <1>2, GateStep
<1>3. CASE Write
  BY <1>3, AssignStep
<1>4. CASE Commit
  BY <1>4, CommitStep
<1>5. CASE \E c \in Consumers : Subscribe(c)
  BY <1>5, SubscribeStep
<1>6. CASE \E c \in Consumers : LoadCursor(c)
  BY <1>6, LoadCursorStep
<1>7. CASE \E c \in Consumers : Take(c)
  BY <1>7, TakeStep
<1>8. CASE \E c \in Consumers : Consumed(c)
  BY <1>8, ConsumedStep
<1>9. CASE UNCHANGED vars
  BY <1>9 DEF vars, producerVars, consumerVars, RingInv, TypeOK, Window, Storage
<1> QED
  BY <1>1, <1>2, <1>3, <1>4, <1>5, <1>6, <1>7, <1>8, <1>9 DEF Next

(* ---- the theorems ---------------------------------------------------- *)

\* The distances between producer, gate and consumers, and what the ring holds
\* (next_slot, commit and consumed), in every reachable state.
THEOREM RingInvariant == Spec => []RingInv
  BY RingInvInit, RingInvStep, PTL DEF Spec

\* Type correctness.
THEOREM TypeCorrect == Spec => []TypeOK
<1>1. RingInv => TypeOK
  BY DEF RingInv
<1> QED
  BY <1>1, RingInvariant, PTL

\* No event that a consumer in time still needs is overwritten.
LEMMA RingKeepsEvents == RingInv => EventsKept
<1> SUFFICES ASSUME RingInv, NEW c \in inTime, NEW e \in next[c] .. producer
             PROVE  slots[SlotOf(e)] = e
  BY DEF EventsKept
<1> USE DisruptorAssumption DEF RingInv
<1>1. c \in Consumers /\ c \in subscribed
  BY DEF TypeOK
<1>2. e \in Nat /\ e <= producer /\ e >= next[c] /\ e \in Events
  BY <1>1, Ranges DEF Events
<1>3. /\ next[c] = cursor[c] + 1 /\ producer - cursor[c] <= Capacity
      /\ ppc \in {"write", "commit"} => producer + 1 - cursor[c] <= Capacity
  BY <1>1 DEF Window
<1>4. /\ producer < e + Capacity
      /\ ppc \in {"write", "commit"} => producer + 1 < e + Capacity
  BY <1>1, <1>2, <1>3, Ranges
<1> QED
  BY <1>2, <1>4 DEF Storage

\* What was published and is not consumed by a consumer in time is in the ring.
THEOREM NothingOverwritten == Spec => []EventsKept
  BY RingKeepsEvents, RingInvariant, PTL

\* Every consumer in time is handed the events in order, none skipped, repeated
\* or half assigned.
THEOREM OrderedFanOut == Spec => []HandedInOrder
<1>1. RingInv => HandedInOrder
  BY RingKeepsEvents DEF RingInv, HandedInOrder, EventsKept, TypeOK, Window, Events
<1> QED
  BY <1>1, RingInvariant, PTL

\* A step of the producer leaves every slot alone that a consumer holds.
LEMMA HeldSlotStep ==
    ASSUME RingInv, RingInv', [Next]_vars, NEW c \in Consumers,
           holding[c], holding'[c]
    PROVE  slots'[SlotOf(next[c])] = slots[SlotOf(next[c])]
<1> USE DisruptorAssumption DEF RingInv
<1>1. /\ c \in subscribed /\ next[c] \in Events /\ next[c] <= producer
      /\ next[c] = cursor[c] + 1 /\ view[c] <= cursor[c]
  BY DEF TypeOK, Window, Events
<1>2. SlotOf(next[c]) \in 0 .. Capacity - 1
  BY <1>1, SlotOfType DEF Events
<1>3. CASE Gate \/ Write
  <2>1. producer + 1 < next[c] + Capacity
    <3>1. CASE Gate
      BY <1>1, <3>1, Ranges DEF Gate, Room
    <3>2. CASE Write
      BY <1>1, <3>2, Ranges DEF Write, Window
    <3> QED
      BY <1>3, <3>1, <3>2
  <2>2. SlotOf(next[c]) # SlotOf(producer + 1)
    BY <1>1, <2>1, OtherSlot DEF TypeOK, Events
  <2> QED
    BY <1>2, <1>3, <2>2 DEF Gate, Write, TypeOK
<1>4. CASE UNCHANGED slots
  BY <1>4
<1>5. Gate \/ Write \/ UNCHANGED slots
  BY DEF Next, vars, producerVars, PublishBegin, Commit, Subscribe, LoadCursor,
         Take, Consumed
<1> QED
  BY <1>3, <1>4, <1>5

\* What a consumer was handed, in time or late, is not assigned until consumed().
THEOREM HeldSlotIsStill == Spec => HeldSlotStill
<1>1. RingInv /\ RingInv' /\ [Next]_vars =>
        [\A c \in Consumers :
           holding[c] /\ holding'[c] =>
             slots'[SlotOf(next[c])] = slots[SlotOf(next[c])]]_vars
  BY HeldSlotStep
<1> QED
  BY <1>1, RingInvariant, PTL DEF Spec, HeldSlotStill

(* ---- streams --------------------------------------------------------- *)

\* Only submit_any has the stream "any", and its route alone is not fixed.
LEMMA StreamKinds ==
    ASSUME NEW st \in Streams
    PROVE  /\ st # <<"any">> => st[1] \in {"key", "group", "worker"}
           /\ st[1] = "key" => st[2] \in Nat
           /\ st[1] = "group" => st[2] \in Nat /\ st[3] \in Nat
<1>1. CASE st = <<"any">>
  BY <1>1
<1>2. CASE st \in {"key"} \X Keys
  <2>1. PICK k \in Keys : st = <<"key", k>>
    BY <1>2
  <2>2. k \in Nat
    BY ThreadPoolAssumption
  <2> QED
    BY <2>1, <2>2
<1>3. CASE st \in {"group"} \X (1 .. MaxWorkers) \X Keys
  <2>1. PICK g \in 1 .. MaxWorkers, k \in Keys : st = <<"group", g, k>>
    BY <1>3
  <2>2. g \in Nat /\ k \in Nat
    BY ThreadPoolAssumption
  <2> QED
    BY <2>1, <2>2
<1>4. CASE st \in {"worker"} \X Workers
  BY <1>4
<1> QED
  BY <1>1, <1>2, <1>3, <1>4 DEF Streams

\* A stream's worker does not change while the registrations do not.
LEMMA RouteStays ==
    ASSUME NEW st, st[1] # "any", numWorkers' = numWorkers, groups' = groups
    PROVE  Route(st)' = Route(st)
  BY DEF Route

\* A group's tasks go to its own workers.
LEMMA GroupRoute ==
    ASSUME PoolTypeOK, NEW st \in Offered, st[1] = "group"
    PROVE  Route(st) - groups[st[2]].begin \in 0 .. groups[st[2]].count - 1
<1>1. st \in Streams /\ st[2] \in DOMAIN groups
  BY DEF Offered
<1>2. st[3] \in Nat
  BY <1>1, StreamKinds
<1>3. groups[st[2]].begin \in Nat /\ groups[st[2]].count \in Nat \ {0}
  <2> DEFINE Group == [begin : Nat, count : Nat \ {0}]
  <2>1. groups \in Seq(Group)
    BY DEF PoolTypeOK
  <2>2. \A g \in Group : g.begin \in Nat /\ g.count \in Nat \ {0}
    OBVIOUS
  <2> HIDE DEF Group
  <2>3. st[2] \in 1 .. Len(groups)
    BY <1>1, <2>1, LenProperties
  <2>4. groups[st[2]] \in Group
    BY <2>1, <2>3, ElementOfSeq
  <2> QED
    BY <2>2, <2>4
<1>4. Route(st) = groups[st[2]].begin + (st[3] % groups[st[2]].count)
  BY DEF Route
<1> QED
  BY <1>2, <1>3, <1>4

(* ---- the inductive invariant ----------------------------------------- *)

\* The state after the constructor.
LEMMA LineInvInit == PoolInit => LineInv
  BY ThreadPoolAssumption DEF PoolInit, LineInv, PoolTypeOK, Unused, Lines, Ordered, InHand

\* A task stays placed while its registrations stay and offers are counted up.
LEMMA PlacedStays ==
    ASSUME NEW t, NEW w, Placed(t, w), numWorkers' = numWorkers, groups' = groups,
           sent \in [Submitters -> Nat], sent' \in [Submitters -> Nat],
           \A s \in Submitters : sent'[s] >= sent[s]
    PROVE  Placed(t, w)'
<1>1. t.from \in Submitters /\ t.nr \in Nat
  BY DEF Placed, AnyTask
<1>2. t.nr <= sent'[t.from]
  BY <1>1 DEF Placed
<1> QED
  BY <1>2, RouteStays DEF Placed

\* Steps that leave everybody's line as it is.
LEMMA QuietKeeps ==
    ASSUME LineInv, PoolTypeOK', UNCHANGED <<numWorkers, groups, done, task, sent>>,
           owner' = "new" => owner = "new",
           \A w \in Workers : InHand(w)' => InHand(w),
           \A w \in Workers : /\ DOMAIN queues'[w] = DOMAIN queues[w]
                              /\ \A i \in DOMAIN queues[w] :
                                    queues'[w][i].item = queues[w][i].item
                              /\ queues[w] = <<>> => queues'[w] = <<>>
    PROVE  LineInv'
<1>1. Unused'
  BY DEF LineInv, Unused
<1>2. Ordered'
  BY DEF LineInv, Ordered
<1>3. \A t, w : Placed(t, w) => Placed(t, w)'
  <2> SUFFICES ASSUME NEW t, NEW w, Placed(t, w) PROVE Placed(t, w)'
    OBVIOUS
  <2>1. sent \in [Submitters -> Nat] /\ sent' = sent
    BY DEF LineInv, PoolTypeOK
  <2>2. \A s \in Submitters : sent'[s] >= sent[s]
    BY <2>1
  <2> QED
    BY <2>1, <2>2, PlacedStays
<1>4. Lines'
  BY <1>3 DEF LineInv, Lines
<1> QED
  BY <1>1, <1>2, <1>4 DEF LineInv

(* ---- the steps ------------------------------------------------------- *)

Ticket == [item : AnyTask, by : Submitters \cup {Nobody}]

\* The queues as sequences.
LEMMA QueueTypes ==
    ASSUME PoolTypeOK, NEW w \in Workers
    PROVE  /\ queues[w] \in Seq(Ticket) /\ done[w] \in Seq(AnyTask)
           /\ Len(queues[w]) \in Nat /\ DOMAIN queues[w] = 1 .. Len(queues[w])
           /\ Len(done[w]) \in Nat /\ DOMAIN done[w] = 1 .. Len(done[w])
  BY LenProperties DEF PoolTypeOK, Ticket

\* Workers are registered while every line is empty.
LEMMA SpawnKeeps ==
    ASSUME LineInv, SpawnWorker \/ \E count \in 1 .. MaxWorkers : SpawnGroup(count)
    PROVE  LineInv'
<1>1. owner = "new" /\ UNCHANGED <<queues, ownerVars, workerVars, submitVars>>
  BY DEF SpawnWorker, SpawnGroup
<1>2. numWorkers' \in Nat
  <2>1. numWorkers \in Nat /\ MaxWorkers \in Nat
    BY ThreadPoolAssumption DEF LineInv, PoolTypeOK
  <2>2. CASE SpawnWorker
    BY <2>1, <2>2 DEF SpawnWorker
  <2>3. CASE \E count \in 1 .. MaxWorkers : SpawnGroup(count)
    BY <2>1, <2>3 DEF SpawnGroup
  <2> QED
    BY <2>2, <2>3
<1>3. groups' \in Seq([begin : Nat, count : Nat \ {0}])
  <2>1. CASE SpawnWorker
    BY <2>1 DEF SpawnWorker, LineInv, PoolTypeOK
  <2>2. CASE \E count \in 1 .. MaxWorkers : SpawnGroup(count)
    <3>1. PICK count \in 1 .. MaxWorkers : SpawnGroup(count)
      BY <2>2
    <3>2. [begin |-> numWorkers, count |-> count] \in [begin : Nat, count : Nat \ {0}]
      BY ThreadPoolAssumption DEF LineInv, PoolTypeOK
    <3> QED
      BY <3>1, <3>2, AppendProperties DEF SpawnGroup, LineInv, PoolTypeOK
  <2> QED
    BY <2>1, <2>2
<1>4. PoolTypeOK'
  BY <1>1, <1>2, <1>3 DEF LineInv, PoolTypeOK, ownerVars, workerVars, submitVars
<1>5. \A w \in Workers : done'[w] = <<>> /\ queues'[w] = <<>> /\ ~InHand(w)'
  BY <1>1 DEF LineInv, Unused, InHand, ownerVars, workerVars, submitVars
<1>6. Unused' /\ Lines' /\ Ordered'
  BY <1>5 DEF Unused, Lines, Ordered
<1> QED
  BY <1>4, <1>6 DEF LineInv

\* A submit: refused, or at the end of the line its stream leads to.
LEMMA SubmitKeeps ==
    ASSUME LineInv, NEW s \in Submitters, NEW st \in Offered, Submit(s, st)
    PROVE  LineInv'
<1>1. PICK w : w = Route(st)
  OBVIOUS
<1>2. PICK t : t = [from |-> s, nr |-> sent[s] + 1, stream |-> st,
                    inTime |-> owner = "started"]
  OBVIOUS
<1>3. st \in Streams /\ sent \in [Submitters -> Nat]
  BY DEF Offered, LineInv, PoolTypeOK
<1>4. t \in AnyTask /\ t.from = s /\ t.nr = sent[s] + 1 /\ t.stream = st
  BY <1>2, <1>3 DEF AnyTask
<1>5. UNCHANGED <<numWorkers, groups, owner, done, task, wpc>> /\ owner # "new"
  BY DEF Submit, setup, ownerVars, workerVars
<1>6. /\ sent' \in [Submitters -> Nat] /\ sent'[s] = sent[s] + 1
      /\ \A q \in Submitters : sent'[q] >= sent[q]
  BY <1>3 DEF Submit
<1>7. \A x, v : Placed(x, v) => Placed(x, v)' /\ Before(x, t)
  <2> SUFFICES ASSUME NEW x, NEW v, Placed(x, v) PROVE Placed(x, v)' /\ Before(x, t)
    OBVIOUS
  <2>1. Placed(x, v)'
    BY <1>3, <1>5, <1>6, PlacedStays
  <2>2. Before(x, t)
    BY <1>3, <1>4 DEF Placed, Before, AnyTask
  <2> QED
    BY <2>1, <2>2
<1>8. Placed(t, w)'
  <2>1. st # <<"any">> => st[1] # "any" /\ Route(st)' = w
    BY <1>1, <1>3, <1>5, StreamKinds, RouteStays
  <2>2. st[1] = "group" => w - groups'[st[2]].begin \in 0 .. groups'[st[2]].count - 1
    BY <1>1, <1>5, GroupRoute DEF LineInv
  <2>3. t.nr <= sent'[t.from]
    BY <1>3, <1>4, <1>6
  <2> QED
    BY <1>4, <2>1, <2>2, <2>3 DEF Placed
<1>9. \A v \in Workers : InHand(v)' <=> InHand(v)
  BY <1>5 DEF InHand
<1>10. Unused'
  BY <1>5 DEF Unused
<1>11. CASE UNCHANGED queues
  <2>1. PoolTypeOK'
    BY <1>5, <1>6, <1>11 DEF LineInv, PoolTypeOK
  <2>2. Lines'
    BY <1>5, <1>7, <1>9, <1>11 DEF LineInv, Lines
  <2>3. Ordered'
    BY <1>5, <1>9, <1>11 DEF LineInv, Ordered
  <2> QED
    BY <1>10, <2>1, <2>2, <2>3 DEF LineInv
<1>12. CASE queues' = [queues EXCEPT ![w] = Append(@, [item |-> t, by |-> s])]
  <2>1. [item |-> t, by |-> s] \in Ticket
    BY <1>4 DEF Ticket
  <2>2. /\ DOMAIN queues' = Workers
        /\ \A v \in Workers : v # w => queues'[v] = queues[v]
        /\ w \in Workers => queues'[w] = Append(queues[w], [item |-> t, by |-> s])
    BY <1>12 DEF LineInv, PoolTypeOK
  <2>3. ASSUME w \in Workers
        PROVE  /\ queues'[w] \in Seq(Ticket)
               /\ DOMAIN queues'[w] = 1 .. Len(queues[w]) + 1
               /\ \A i \in 1 .. Len(queues[w]) : queues'[w][i] = queues[w][i]
               /\ queues'[w][Len(queues[w]) + 1].item = t
    <3>1. queues[w] \in Seq(Ticket) /\ queues'[w] = Append(queues[w], [item |-> t, by |-> s])
      BY <2>2, <2>3, QueueTypes DEF LineInv
    <3> QED
      BY <2>1, <3>1, AppendProperties, LenProperties
  <2>4. \A v \in Workers : queues'[v] \in Seq(Ticket)
    BY <2>2, <2>3, QueueTypes DEF LineInv
  <2>5. queues' = [v \in Workers |-> queues'[v]]
    BY <1>12 DEF LineInv, PoolTypeOK
  <2>6. PoolTypeOK'
    BY <1>5, <1>6, <2>4, <2>5 DEF LineInv, PoolTypeOK, Ticket
  <2>7. \A v \in Workers : \A j \in DOMAIN queues'[v] :
            \/ /\ j \in DOMAIN queues[v] /\ queues'[v][j] = queues[v][j]
               /\ \A i \in DOMAIN queues'[v] : i < j =>
                     i \in DOMAIN queues[v] /\ queues'[v][i] = queues[v][i]
            \/ /\ v = w /\ queues'[v][j].item = t
               /\ \A i \in DOMAIN queues'[v] : i < j =>
                     i \in DOMAIN queues[v] /\ queues'[v][i] = queues[v][i]
    <3> SUFFICES ASSUME NEW v \in Workers, NEW j \in DOMAIN queues'[v]
                 PROVE  \/ /\ j \in DOMAIN queues[v] /\ queues'[v][j] = queues[v][j]
                           /\ \A i \in DOMAIN queues'[v] : i < j =>
                                 i \in DOMAIN queues[v] /\ queues'[v][i] = queues[v][i]
                        \/ /\ v = w /\ queues'[v][j].item = t
                           /\ \A i \in DOMAIN queues'[v] : i < j =>
                                 i \in DOMAIN queues[v] /\ queues'[v][i] = queues[v][i]
      OBVIOUS
    <3>1. Len(queues[v]) \in Nat /\ DOMAIN queues[v] = 1 .. Len(queues[v])
      BY QueueTypes DEF LineInv
    <3>2. CASE v # w
      BY <2>2, <3>1, <3>2
    <3>3. CASE v = w
      BY <2>3, <3>1, <3>3
    <3> QED
      BY <3>2, <3>3
  <2>8. \A v \in Workers :
           /\ \A i \in DOMAIN done[v] : Placed(done[v][i], v)
           /\ InHand(v) => Placed(task[v], v)
           /\ \A i \in DOMAIN queues[v] : Placed(queues[v][i].item, v)
    BY DEF LineInv, Lines
  <2>9. Lines'
    BY <1>5, <1>7, <1>8, <1>9, <2>7, <2>8 DEF Lines
  <2>10. \A v \in Workers :
           /\ \A i, j \in DOMAIN done'[v] : i < j => Before(done'[v][i], done'[v][j])
           /\ InHand(v)' => \A i \in DOMAIN done'[v] : Before(done'[v][i], task'[v])
    BY <1>5, <1>9 DEF LineInv, Ordered
  <2>11. \A v \in Workers : \A i \in DOMAIN done'[v], j \in DOMAIN queues'[v] :
             Before(done'[v][i], queues'[v][j].item)
    BY <1>5, <1>7, <2>7, <2>8 DEF LineInv, Ordered
  <2>12. \A v \in Workers : InHand(v)' => \A j \in DOMAIN queues'[v] :
             Before(task'[v], queues'[v][j].item)
    BY <1>5, <1>7, <1>9, <2>7, <2>8 DEF LineInv, Ordered
  <2>13. \A v \in Workers : \A i, j \in DOMAIN queues'[v] :
             i < j => Before(queues'[v][i].item, queues'[v][j].item)
    BY <1>7, <2>7, <2>8 DEF LineInv, Ordered
  <2>14. Ordered'
    BY <2>10, <2>11, <2>12, <2>13 DEF Ordered, Before
  <2> QED
    BY <1>10, <2>6, <2>9, <2>14 DEF LineInv
<1> QED
  BY <1>1, <1>2, <1>11, <1>12 DEF Submit

\* A filled ticket is the same task in the same place.
LEMMA SubmitEndKeeps ==
    ASSUME LineInv, NEW s \in Submitters, SubmitEnd(s)
    PROVE  LineInv'
<1>1. /\ UNCHANGED <<numWorkers, groups, owner, done, task, wpc, sent>>
  BY DEF SubmitEnd, setup, ownerVars, workerVars
<1>2. PICK w : w = submitting[s]
  OBVIOUS
<1>3. /\ DOMAIN queues' = Workers
      /\ \A v \in Workers : v # w => queues'[v] = queues[v]
      /\ w \in Workers => queues'[w] = [i \in DOMAIN queues[w] |->
             IF queues[w][i].by = s THEN [queues[w][i] EXCEPT !.by = Nobody]
                                    ELSE queues[w][i]]
  BY <1>2 DEF SubmitEnd, LineInv, PoolTypeOK
<1>4. ASSUME w \in Workers
      PROVE  /\ queues'[w] \in Seq(Ticket) /\ DOMAIN queues'[w] = DOMAIN queues[w]
             /\ \A i \in DOMAIN queues[w] : queues'[w][i].item = queues[w][i].item
  <2>1. /\ queues[w] \in Seq(Ticket) /\ Len(queues[w]) \in Nat
        /\ DOMAIN queues[w] = 1 .. Len(queues[w])
    BY <1>4, QueueTypes DEF LineInv
  <2>2. \A i \in 1 .. Len(queues[w]) : queues[w][i] \in Ticket
    BY <2>1, ElementOfSeq
  <2>3. \A e \in Ticket : /\ [e EXCEPT !.by = Nobody] \in Ticket
                          /\ [e EXCEPT !.by = Nobody].item = e.item
    BY DEF Ticket
  <2>4. \A i \in 1 .. Len(queues[w]) :
            queues'[w][i] \in Ticket /\ queues'[w][i].item = queues[w][i].item
    BY <1>3, <1>4, <2>1, <2>2, <2>3
  <2>5. queues'[w] \in [1 .. Len(queues[w]) -> Ticket]
    BY <1>3, <1>4, <2>1, <2>4
  <2>6. queues'[w] \in Seq(Ticket)
    BY <2>1, <2>5, SeqDef
  <2> QED
    BY <1>3, <1>4, <2>1, <2>4, <2>6
<1>5. \A v \in Workers : queues'[v] \in Seq(Ticket)
  BY <1>3, <1>4, QueueTypes DEF LineInv
<1>6. queues' = [v \in Workers |-> queues'[v]]
  BY <1>2 DEF SubmitEnd, LineInv, PoolTypeOK
<1>7. PoolTypeOK'
  BY <1>1, <1>5, <1>6 DEF LineInv, PoolTypeOK, Ticket
<1>8. \A v \in Workers : queues[v] = <<>> => queues'[v] = <<>>
  <2> SUFFICES ASSUME NEW v \in Workers, queues[v] = <<>> PROVE queues'[v] = <<>>
    OBVIOUS
  <2>1. DOMAIN queues'[v] = {}
    BY <1>3, <1>4
  <2>2. Len(queues'[v]) \in Nat /\ DOMAIN queues'[v] = 1 .. Len(queues'[v])
    BY <1>5, LenProperties
  <2>3. Len(queues'[v]) = 0
    BY <2>1, <2>2
  <2> QED
    BY <1>5, <2>3, EmptySeq
<1>9. \A v \in Workers : InHand(v)' => InHand(v)
  BY <1>1 DEF InHand
<1> QED
  BY <1>1, <1>3, <1>4, <1>7, <1>8, <1>9, QuietKeeps

\* try_pop moves the head of a worker's queue into its hand.
LEMMA PopKeeps ==
    ASSUME LineInv, NEW w \in Workers, ~InHand(w), wpc[w] # "none",
           NEW after \in {"handle", "drainHandle"}, PopAnd(w, after),
           UNCHANGED <<setup, ownerVars, done, submitVars>>
    PROVE  LineInv'
<1>1. UNCHANGED <<numWorkers, groups, owner, done, sent>>
  BY DEF setup, ownerVars, submitVars
<1>2. /\ queues[w] \in Seq(Ticket) /\ queues[w] # <<>> /\ Len(queues[w]) \in Nat
      /\ DOMAIN queues[w] = 1 .. Len(queues[w])
  BY QueueTypes DEF LineInv, PopAnd, CanPop
<1>3. /\ Len(queues[w]) >= 1 /\ Head(queues[w]) = queues[w][1]
      /\ queues[w][1] \in Ticket /\ Tail(queues[w]) \in Seq(Ticket)
      /\ DOMAIN Tail(queues[w]) = 1 .. Len(queues[w]) - 1
      /\ \A i \in 1 .. Len(queues[w]) - 1 : Tail(queues[w])[i] = queues[w][i + 1]
  <2>1. Len(queues[w]) >= 1
    BY <1>2, EmptySeq
  <2>2. queues[w][1] \in Ticket
    BY <1>2, <2>1, ElementOfSeq
  <2>3. Tail(queues[w]) \in Seq(Ticket) /\ Len(Tail(queues[w])) = Len(queues[w]) - 1
    BY <1>2, HeadTailProperties
  <2>4. DOMAIN Tail(queues[w]) = 1 .. Len(queues[w]) - 1
    BY <2>3, LenProperties
  <2>5. \A i \in 1 .. Len(queues[w]) - 1 : Tail(queues[w])[i] = queues[w][i + 1]
    BY <1>2, <2>3, HeadTailProperties
  <2> QED
    BY <1>2, <2>1, <2>2, <2>3, <2>4, <2>5
<1>4. PICK t : t = queues[w][1].item
  OBVIOUS
<1>5. /\ task' = [task EXCEPT ![w] = t] /\ wpc' = [wpc EXCEPT ![w] = after]
      /\ queues' = [queues EXCEPT ![w] = Tail(queues[w])]
  BY <1>3, <1>4 DEF PopAnd
<1>6. /\ task'[w] = t /\ queues'[w] = Tail(queues[w]) /\ wpc'[w] = after
      /\ \A v \in Workers : v # w =>
            task'[v] = task[v] /\ queues'[v] = queues[v] /\ wpc'[v] = wpc[v]
  BY <1>5 DEF LineInv, PoolTypeOK
<1>7. t \in AnyTask
  BY <1>3, <1>4 DEF Ticket
<1>8. PoolTypeOK'
  <2>1. task' \in [Workers -> AnyTask \cup {NoTask}] /\ DOMAIN wpc' = Workers
    BY <1>5, <1>7 DEF LineInv, PoolTypeOK
  <2>2. queues' \in [Workers -> Seq(Ticket)]
    BY <1>3, <1>5 DEF LineInv, PoolTypeOK, Ticket
  <2> QED
    BY <1>1, <2>1, <2>2 DEF LineInv, PoolTypeOK, Ticket
<1>9. \A x, v : Placed(x, v) => Placed(x, v)'
  <2> SUFFICES ASSUME NEW x, NEW v, Placed(x, v) PROVE Placed(x, v)'
    OBVIOUS
  <2>1. sent \in [Submitters -> Nat] /\ \A s \in Submitters : sent'[s] >= sent[s]
    BY <1>1 DEF LineInv, PoolTypeOK
  <2> QED
    BY <1>1, <2>1, PlacedStays
<1>10. owner # "new"
  BY <1>2 DEF LineInv, Unused
<1>11. Unused'
  BY <1>1, <1>10 DEF Unused
<1>12. /\ \A i \in DOMAIN done[w] : Placed(done[w][i], w)
       /\ Placed(t, w)
       /\ \A i \in 1 .. Len(queues[w]) : Placed(queues[w][i].item, w)
  BY <1>2, <1>3, <1>4 DEF LineInv, Lines
<1>13. \A v \in Workers : v # w => (InHand(v)' <=> InHand(v))
  BY <1>6 DEF InHand
<1>14. Lines'
  <2>1. ASSUME NEW v \in Workers, v # w
        PROVE  (/\ \A i \in DOMAIN done[v] : Placed(done[v][i], v)
                /\ InHand(v) => Placed(task[v], v)
                /\ \A i \in DOMAIN queues[v] : Placed(queues[v][i].item, v))'
    BY <1>1, <1>6, <1>9, <1>13, <2>1 DEF LineInv, Lines
  <2>2. (/\ \A i \in DOMAIN done[w] : Placed(done[w][i], w)
         /\ Placed(task[w], w)
         /\ \A i \in DOMAIN queues[w] : Placed(queues[w][i].item, w))'
    BY <1>1, <1>2, <1>3, <1>6, <1>9, <1>12
  <2> QED
    BY <2>1, <2>2 DEF Lines
<1>15. Ordered'
  <2>1. ASSUME NEW v \in Workers, v # w
        PROVE  /\ \A i, j \in DOMAIN done'[v] : i < j => Before(done'[v][i], done'[v][j])
               /\ InHand(v)' => \A i \in DOMAIN done'[v] : Before(done'[v][i], task'[v])
               /\ \A i \in DOMAIN done'[v], j \in DOMAIN queues'[v] :
                     Before(done'[v][i], queues'[v][j].item)
               /\ InHand(v)' => \A j \in DOMAIN queues'[v] : Before(task'[v], queues'[v][j].item)
               /\ \A i, j \in DOMAIN queues'[v] :
                     i < j => Before(queues'[v][i].item, queues'[v][j].item)
    BY <1>1, <1>6, <1>13, <2>1 DEF LineInv, Ordered
  <2>2. /\ \A i, j \in DOMAIN done[w] : i < j => Before(done[w][i], done[w][j])
        /\ \A i \in DOMAIN done[w], j \in 1 .. Len(queues[w]) :
              Before(done[w][i], queues[w][j].item)
        /\ \A i, j \in 1 .. Len(queues[w]) :
              i < j => Before(queues[w][i].item, queues[w][j].item)
    BY <1>2 DEF LineInv, Ordered
  <2>3. \A i, j \in DOMAIN done'[w] : i < j => Before(done'[w][i], done'[w][j])
    BY <1>1, <2>2
  <2>4. \A i \in DOMAIN done'[w] : Before(done'[w][i], task'[w])
    BY <1>1, <1>3, <1>4, <1>6, <2>2
  <2>5. \A i \in DOMAIN done'[w], j \in DOMAIN queues'[w] :
            Before(done'[w][i], queues'[w][j].item)
    BY <1>1, <1>2, <1>3, <1>6, <2>2
  <2>6. \A j \in DOMAIN queues'[w] : Before(task'[w], queues'[w][j].item)
    BY <1>2, <1>3, <1>4, <1>6, <2>2
  <2>7. \A i, j \in DOMAIN queues'[w] :
            i < j => Before(queues'[w][i].item, queues'[w][j].item)
    <3> SUFFICES ASSUME NEW i \in DOMAIN queues'[w], NEW j \in DOMAIN queues'[w], i < j
                 PROVE  Before(queues'[w][i].item, queues'[w][j].item)
      OBVIOUS
    <3>1. /\ i + 1 \in 1 .. Len(queues[w]) /\ j + 1 \in 1 .. Len(queues[w]) /\ i + 1 < j + 1
          /\ queues'[w][i] = queues[w][i + 1] /\ queues'[w][j] = queues[w][j + 1]
      BY <1>2, <1>3, <1>6
    <3> QED
      BY <2>2, <3>1
  <2> QED
    BY <2>1, <2>3, <2>4, <2>5, <2>6, <2>7 DEF Ordered, Before
<1> QED
  BY <1>8, <1>11, <1>14, <1>15 DEF LineInv

\* The handler runs: the task in hand is the last one done.
LEMMA HandleKeeps ==
    ASSUME LineInv, NEW w \in Workers, Handle(w)
    PROVE  LineInv'
<1>1. UNCHANGED <<numWorkers, groups, owner, queues, task, sent>> /\ InHand(w)
  BY DEF Handle, setup, ownerVars, submitVars, InHand
<1>2. owner # "new"
  BY <1>1 DEF LineInv, Unused
<1>3. Unused'
  BY <1>1, <1>2 DEF Unused
<1>4. PICK t : t = task[w]
  OBVIOUS
<1>5. t \in AnyTask /\ Placed(t, w)
  BY <1>1, <1>4 DEF LineInv, Lines, Placed
<1>6. /\ DOMAIN wpc' = Workers /\ ~InHand(w)'
      /\ \A v \in Workers : v # w => (InHand(v)' <=> InHand(v))
  BY <1>1 DEF Handle, LineInv, PoolTypeOK, InHand
<1>7. /\ done' = [done EXCEPT ![w] = Append(done[w], t)]
      /\ done'[w] = Append(done[w], t)
      /\ \A v \in Workers : v # w => done'[v] = done[v]
  BY <1>4 DEF Handle, LineInv, PoolTypeOK
<1>8. /\ done[w] \in Seq(AnyTask) /\ Len(done[w]) \in Nat /\ DOMAIN done[w] = 1 .. Len(done[w])
      /\ done'[w] \in Seq(AnyTask) /\ DOMAIN done'[w] = 1 .. Len(done[w]) + 1
      /\ \A i \in 1 .. Len(done[w]) : done'[w][i] = done[w][i]
      /\ done'[w][Len(done[w]) + 1] = t
  <2>1. /\ done[w] \in Seq(AnyTask) /\ Len(done[w]) \in Nat
        /\ DOMAIN done[w] = 1 .. Len(done[w])
    BY QueueTypes DEF LineInv
  <2> QED
    BY <1>5, <1>7, <2>1, AppendProperties, LenProperties
<1>9. PoolTypeOK'
  <2>1. done' \in [Workers -> Seq(AnyTask)]
    BY <1>7, <1>8 DEF LineInv, PoolTypeOK
  <2> QED
    BY <1>1, <1>6, <2>1 DEF LineInv, PoolTypeOK
<1>10. \A x, v : Placed(x, v) => Placed(x, v)'
  <2> SUFFICES ASSUME NEW x, NEW v, Placed(x, v) PROVE Placed(x, v)'
    OBVIOUS
  <2>1. sent \in [Submitters -> Nat] /\ \A s \in Submitters : sent'[s] >= sent[s]
    BY <1>1 DEF LineInv, PoolTypeOK
  <2> QED
    BY <1>1, <2>1, PlacedStays
<1>11. Lines'
  <2>1. ASSUME NEW v \in Workers, v # w
        PROVE  (/\ \A i \in DOMAIN done[v] : Placed(done[v][i], v)
                /\ InHand(v) => Placed(task[v], v)
                /\ \A i \in DOMAIN queues[v] : Placed(queues[v][i].item, v))'
    BY <1>1, <1>6, <1>7, <1>10, <2>1 DEF LineInv, Lines
  <2>2. (\A i \in DOMAIN done[w] : Placed(done[w][i], w))'
    BY <1>5, <1>8, <1>10 DEF LineInv, Lines
  <2>3. (\A i \in DOMAIN queues[w] : Placed(queues[w][i].item, w))'
    BY <1>1, <1>10 DEF LineInv, Lines
  <2> QED
    BY <1>6, <2>1, <2>2, <2>3 DEF Lines
<1>12. Ordered'
  <2>1. ASSUME NEW v \in Workers, v # w
        PROVE  /\ \A i, j \in DOMAIN done'[v] : i < j => Before(done'[v][i], done'[v][j])
               /\ InHand(v)' => \A i \in DOMAIN done'[v] : Before(done'[v][i], task'[v])
               /\ \A i \in DOMAIN done'[v], j \in DOMAIN queues'[v] :
                     Before(done'[v][i], queues'[v][j].item)
               /\ InHand(v)' => \A j \in DOMAIN queues'[v] : Before(task'[v], queues'[v][j].item)
               /\ \A i, j \in DOMAIN queues'[v] :
                     i < j => Before(queues'[v][i].item, queues'[v][j].item)
    BY <1>1, <1>6, <1>7, <2>1 DEF LineInv, Ordered
  <2>2. /\ \A i, j \in 1 .. Len(done[w]) : i < j => Before(done[w][i], done[w][j])
        /\ \A i \in 1 .. Len(done[w]) : Before(done[w][i], t)
        /\ \A i \in 1 .. Len(done[w]), j \in DOMAIN queues[w] :
              Before(done[w][i], queues[w][j].item)
        /\ \A j \in DOMAIN queues[w] : Before(t, queues[w][j].item)
        /\ \A i, j \in DOMAIN queues[w] :
              i < j => Before(queues[w][i].item, queues[w][j].item)
    BY <1>1, <1>4, <1>8 DEF LineInv, Ordered
  <2>3. \A i, j \in DOMAIN done'[w] : i < j => Before(done'[w][i], done'[w][j])
    BY <1>8, <2>2
  <2>4. \A i \in DOMAIN done'[w], j \in DOMAIN queues'[w] :
            Before(done'[w][i], queues'[w][j].item)
    BY <1>1, <1>8, <2>2
  <2>5. \A i, j \in DOMAIN queues'[w] :
            i < j => Before(queues'[w][i].item, queues'[w][j].item)
    BY <1>1, <2>2
  <2> QED
    BY <1>6, <2>1, <2>3, <2>4, <2>5 DEF Ordered, Before
<1> QED
  BY <1>3, <1>9, <1>11, <1>12 DEF LineInv

\* start(), stop() and the ends of the loops touch no line.
LEMMA ControlKeeps ==
    ASSUME LineInv,
           Start \/ Stop \/ StopStep \/ \E w \in Workers : PollEnds(w) \/ DrainEnds(w)
    PROVE  LineInv'
<1>1. UNCHANGED <<numWorkers, groups, done, queues, task, sent>>
  BY DEF Start, Stop, StopStep, Join, RequestStop, PollEnds, DrainEnds, setup, ownerVars,
         submitVars, workerVars
<1>2. owner' = "new" => owner = "new"
  BY DEF Start, Stop, StopStep, Join, RequestStop, PollEnds, DrainEnds, ownerVars
<1>3. DOMAIN wpc' = Workers
  BY DEF Start, Stop, StopStep, Join, RequestStop, PollEnds, DrainEnds, workerVars, LineInv, PoolTypeOK
<1>4. \A v \in Workers : InHand(v)' => InHand(v)
  BY DEF Start, Stop, StopStep, Join, RequestStop, PollEnds, DrainEnds, workerVars, LineInv,
         PoolTypeOK, InHand
<1>5. PoolTypeOK'
  BY <1>1, <1>3 DEF LineInv, PoolTypeOK
<1> QED
  BY <1>1, <1>2, <1>4, <1>5, QuietKeeps

(* ---- the theorems ---------------------------------------------------- *)

\* Every reachable state: what a worker has handled, has in hand and has queued
\* is one line in the order of submission, of tasks that belong there
\* (threadpool.h:133-166, 203-212).
THEOREM LineInvariant == PoolSpec => []LineInv
<1>1. LineInv /\ [PoolNext]_poolVars => LineInv'
  <2> SUFFICES ASSUME LineInv, [PoolNext]_poolVars PROVE LineInv'
    OBVIOUS
  <2>1. CASE SpawnWorker \/ \E count \in 1 .. MaxWorkers : SpawnGroup(count)
    BY <2>1, SpawnKeeps
  <2>2. CASE Start \/ Stop \/ StopStep \/ \E w \in Workers : PollEnds(w) \/ DrainEnds(w)
    BY <2>2, ControlKeeps
  <2>3. CASE \E s \in Submitters : \E st \in Offered : Submit(s, st)
    BY <2>3, SubmitKeeps
  <2>4. CASE \E s \in Submitters : SubmitEnd(s)
    BY <2>4, SubmitEndKeeps
  <2>5. CASE \E w \in Workers : Poll(w)
    <3>1. PICK w \in Workers : Poll(w)
      BY <2>5
    <3>2. /\ ~InHand(w) /\ wpc[w] # "none" /\ PopAnd(w, "handle")
          /\ UNCHANGED <<setup, ownerVars, done, submitVars>>
      BY <3>1 DEF Poll, InHand
    <3> QED
      BY <3>2, PopKeeps
  <2>6. CASE \E w \in Workers : Drain(w)
    <3>1. PICK w \in Workers : Drain(w)
      BY <2>6
    <3>2. /\ ~InHand(w) /\ wpc[w] # "none" /\ PopAnd(w, "drainHandle")
          /\ UNCHANGED <<setup, ownerVars, done, submitVars>>
      BY <3>1 DEF Drain, InHand
    <3> QED
      BY <3>2, PopKeeps
  <2>7. CASE \E w \in Workers : Handle(w)
    BY <2>7, HandleKeeps
  <2>8. CASE UNCHANGED poolVars
    <3>1. UNCHANGED <<numWorkers, groups, done, queues, task, sent, owner, wpc>>
      BY <2>8 DEF poolVars, setup, ownerVars, workerVars, submitVars
    <3>2. PoolTypeOK'
      BY <3>1 DEF LineInv, PoolTypeOK
    <3>3. \A v \in Workers : InHand(v)' => InHand(v)
      BY <3>1 DEF InHand
    <3> QED
      BY <3>1, <3>2, <3>3, QuietKeeps
  <2> QED
    BY <2>1, <2>2, <2>3, <2>4, <2>5, <2>6, <2>7, <2>8 DEF PoolNext, WorkerStep
<1> QED
  BY <1>1, LineInvInit, PTL DEF PoolSpec

\* Affinity and order: tasks under one key are all handled by one worker, in the
\* order each submitter offered them, each at most once; a group's tasks stay on
\* the group's workers (threadpool.h:47-57), for every number of workers, groups,
\* submitters and keys, refusals, stops and restarts notwithstanding.
THEOREM OrderPerKey == PoolSpec => []KeyOrder
<1>1. LineInv => KeyOrder
  <2> SUFFICES ASSUME LineInv PROVE KeyOrder
    OBVIOUS
  <2>1. \A w \in Workers : \A i \in DOMAIN done[w] : Placed(done[w][i], w)
    BY DEF LineInv, Lines
  <2>2. \A v, w \in Workers : \A i \in DOMAIN done[v], j \in DOMAIN done[w] :
            done[v][i].stream = done[w][j].stream /\ done[v][i].stream # <<"any">> => v = w
    BY <2>1 DEF Placed
  <2>3. \A w \in Workers : \A i, j \in DOMAIN done[w] :
            i < j /\ done[w][i].from = done[w][j].from
                  /\ done[w][i].stream = done[w][j].stream => done[w][i].nr < done[w][j].nr
    BY DEF LineInv, Ordered, Before
  <2>4. \A w \in Workers : \A i \in DOMAIN done[w] :
            LET st == done[w][i].stream
            IN  st[1] = "group" => w - groups[st[2]].begin \in 0 .. groups[st[2]].count - 1
    BY <2>1 DEF Placed
  <2> QED
    BY <2>2, <2>3, <2>4 DEF KeyOrder
<1> QED
  BY <1>1, LineInvariant, PTL

(* ---- nothing in time is left behind ------------------------------------ *)

LEMMA StopInvInit == PoolInit => StopInv
  BY DEF PoolInit, StopInv, Registry, Threads, OpenTickets, Leftover, Registered

\* Every stream that may be offered leads to a registered worker.
LEMMA RouteRegistered ==
    ASSUME PoolTypeOK, Registry, numWorkers > 0, NEW st \in Offered
    PROVE  Route(st) \in Registered
<1>1. numWorkers \in Nat /\ numWorkers > 0 /\ rr \in Nat /\ st \in Streams
  BY DEF PoolTypeOK, Registry, Offered
<1>2. \A x \in Nat : x % numWorkers \in 0 .. numWorkers - 1
  BY <1>1
<1>3. CASE st[1] = "any"
  BY <1>1, <1>2, <1>3 DEF Route, Registered
<1>4. CASE st[1] = "key"
  <2>1. st[2] \in Nat
    BY <1>1, <1>4, StreamKinds
  <2> QED
    BY <1>2, <1>4, <2>1 DEF Route, Registered
<1>5. CASE st[1] = "group"
  <2>1. Route(st) - groups[st[2]].begin \in 0 .. groups[st[2]].count - 1
    BY <1>5, GroupRoute
  <2>2. groups[st[2]].begin \in Nat /\ groups[st[2]].count \in Nat /\ st[2] \in DOMAIN groups
    <3> DEFINE Group == [begin : Nat, count : Nat \ {0}]
    <3>1. groups \in Seq(Group) /\ st[2] \in DOMAIN groups
      BY <1>5 DEF PoolTypeOK, Offered
    <3>2. \A g \in Group : g.begin \in Nat /\ g.count \in Nat
      OBVIOUS
    <3> HIDE DEF Group
    <3>3. st[2] \in 1 .. Len(groups)
      BY <3>1, LenProperties
    <3>4. groups[st[2]] \in Group
      BY <3>1, <3>3, ElementOfSeq
    <3> QED
      BY <3>1, <3>2, <3>4
  <2>3. groups[st[2]].begin + groups[st[2]].count <= numWorkers
    BY <2>2 DEF Registry
  <2>4. Route(st) = groups[st[2]].begin + (st[3] % groups[st[2]].count)
    BY <1>5 DEF Route
  <2>5. st[3] \in Nat
    BY <1>1, <1>5, StreamKinds
  <2>6. groups[st[2]].count > 0
    BY <2>1, <2>2
  <2>7. st[3] % groups[st[2]].count \in 0 .. groups[st[2]].count - 1
    BY <2>2, <2>5, <2>6
  <2> QED
    BY <1>1, <2>2, <2>3, <2>4, <2>7 DEF Registered
<1>6. CASE st[1] = "worker"
  BY <1>6 DEF Route, Registered, Offered
<1>7. st[1] \in {"any", "key", "group", "worker"}
  BY <1>1, ThreadPoolAssumption DEF Streams
<1> QED
  BY <1>3, <1>4, <1>5, <1>6, <1>7

\* Workers are registered before there is a queue, a thread or a ticket.
LEMMA SpawnStop ==
    ASSUME LineInv, StopInv, SpawnWorker \/ \E count \in 1 .. MaxWorkers : SpawnGroup(count)
    PROVE  StopInv'
<1>1. owner = "new" /\ UNCHANGED <<queues, ownerVars, workerVars, submitVars>>
  BY DEF SpawnWorker, SpawnGroup
<1>2. \A w \in Workers : queues'[w] = <<>>
  BY <1>1 DEF LineInv, Unused
<1>3. \A g \in DOMAIN groups' : groups'[g].begin + groups'[g].count <= numWorkers'
  <2> DEFINE Group == [begin : Nat, count : Nat \ {0}]
  <2>1. groups \in Seq(Group) /\ numWorkers \in Nat
    BY DEF LineInv, PoolTypeOK
  <2>2. \A g \in Group : g.begin \in Nat /\ g.count \in Nat
    OBVIOUS
  <2> HIDE DEF Group
  <2>3. \A g \in 1 .. Len(groups) :
           /\ groups[g].begin \in Nat /\ groups[g].count \in Nat
           /\ groups[g].begin + groups[g].count <= numWorkers
    <3> TAKE g \in 1 .. Len(groups)
    <3>1. groups[g] \in Group /\ g \in DOMAIN groups
      BY <2>1, ElementOfSeq, LenProperties
    <3> QED
      BY <2>2, <3>1 DEF StopInv, Registry
  <2>4. DOMAIN groups = 1 .. Len(groups) /\ Len(groups) \in Nat
    BY <2>1, LenProperties
  <2>5. CASE SpawnWorker
    <3>1. numWorkers' = numWorkers + 1 /\ groups' = groups
      BY <2>5 DEF SpawnWorker
    <3> QED
      BY <2>1, <2>3, <2>4, <3>1
  <2>6. CASE \E count \in 1 .. MaxWorkers : SpawnGroup(count)
    <3>1. PICK count \in 1 .. MaxWorkers : SpawnGroup(count)
      BY <2>6
    <3>2. PICK new : new = [begin |-> numWorkers, count |-> count]
      OBVIOUS
    <3>3. count \in Nat \ {0} /\ new \in Group /\ new.begin = numWorkers /\ new.count = count
      BY <2>1, <3>2, ThreadPoolAssumption DEF Group
    <3>4. numWorkers' = numWorkers + count /\ groups' = Append(groups, new)
      BY <3>1, <3>2 DEF SpawnGroup
    <3>5. /\ DOMAIN groups' = 1 .. Len(groups) + 1
          /\ \A g \in 1 .. Len(groups) : groups'[g] = groups[g]
          /\ groups'[Len(groups) + 1] = new
      BY <2>1, <3>3, <3>4, AppendProperties, LenProperties
    <3>6. ASSUME NEW g \in DOMAIN groups'
          PROVE  groups'[g].begin + groups'[g].count <= numWorkers'
      <4>1. CASE g \in 1 .. Len(groups)
        BY <2>1, <2>3, <3>3, <3>4, <3>5, <4>1
      <4>2. CASE g = Len(groups) + 1
        BY <2>1, <3>3, <3>4, <3>5, <4>2
      <4> QED
        BY <2>4, <3>5, <4>1, <4>2
    <3> QED
      BY <3>6
  <2> QED
    BY <2>5, <2>6
<1>4. Registry'
  BY <1>1, <1>2, <1>3 DEF StopInv, Registry, ownerVars, submitVars
<1>5. Threads'
  BY <1>1 DEF StopInv, Threads, ownerVars, workerVars
<1>6. OpenTickets' /\ Leftover'
  BY <1>1, <1>2 DEF OpenTickets, Leftover, ownerVars
<1> QED
  BY <1>1, <1>4, <1>5, <1>6 DEF StopInv, ownerVars, submitVars

\* An unfilled ticket is held by a submitter.
LEMMA HeldBySubmitter ==
    ASSUME LineInv, NEW w \in Workers, NEW i \in DOMAIN queues[w], queues[w][i].by # Nobody
    PROVE  queues[w][i].by \in Submitters
<1>1. queues[w] \in Seq(Ticket) /\ i \in 1 .. Len(queues[w])
  BY QueueTypes DEF LineInv
<1>2. queues[w][i] \in Ticket
  BY <1>1, ElementOfSeq
<1> QED
  BY <1>2 DEF Ticket

\* start(), stop() with its requests, and the joins: at stop() every unfilled ticket
\* goes into cut.
LEMMA OwnerStop ==
    ASSUME LineInv, StopInv, Start \/ Stop \/ StopStep
    PROVE  StopInv'
<1>1. UNCHANGED <<numWorkers, groups, queues, submitting, sent, rr>>
  BY DEF Start, Stop, StopStep, RequestStop, Join, setup, submitVars
<1>2. OpenTickets' /\ DOMAIN submitting' = Submitters
  BY <1>1 DEF StopInv, OpenTickets
<1>3. DOMAIN stopAsked' = Workers
  BY DEF StopInv, Start, Stop, StopStep, RequestStop, Join
<1>4. Registry'
  <2>1. owner # "new" \/ numWorkers > 0
    BY DEF StopInv, Registry, Start, Stop, StopStep, RequestStop, Join
  <2> QED
    BY <1>1, <2>1 DEF StopInv, Registry, Registered
<1>5. CASE Start
  <2>1. Threads'
    BY <1>5 DEF Start, Threads
  <2>2. Leftover'
    BY <1>5 DEF Start, Leftover
  <2> QED
    BY <1>2, <1>3, <1>4, <2>1, <2>2 DEF StopInv
<1>6. CASE Stop
  <2>1. owner = "started" /\ owner' = "stopping" /\ UNCHANGED <<stopAsked, wpc>>
    BY <1>6 DEF Stop, workerVars
  <2>2. Threads'
    BY <2>1 DEF Threads
  <2>3. ASSUME NEW w \in Workers, NEW i \in DOMAIN queues[w], queues[w][i].by # Nobody
        PROVE  <<queues[w][i].item.from, queues[w][i].item.nr>> \in cut'
    <3>1. queues[w][i].by \in Submitters
      BY <2>3, HeldBySubmitter
    <3>2. /\ queues[w][i].item.from = queues[w][i].by
          /\ queues[w][i].item.nr = sent[queues[w][i].by]
          /\ submitting[queues[w][i].by] = w
      BY <2>3 DEF StopInv, OpenTickets
    <3>3. w # -1
      BY DEF Workers
    <3>4. cut' = {<<s, sent[s]>> : s \in {t \in Submitters : submitting[t] # -1}}
      BY <1>6 DEF Stop
    <3> QED
      BY <3>1, <3>2, <3>3, <3>4
  <2>4. Leftover'
    BY <1>1, <2>1, <2>3 DEF StopInv, Threads, Leftover
  <2> QED
    BY <1>2, <1>3, <1>4, <2>2, <2>4 DEF StopInv
<1>7. CASE StopStep
  <2>1. /\ owner = "stopping" /\ owner' \in {"stopping", "stopped"} /\ UNCHANGED <<cut, wpc>>
        /\ owner' = "stopped" => \A w \in Registered : wpc[w] = "exited"
    BY <1>7 DEF StopStep, RequestStop, Join, workerVars
  <2>2. Threads'
    BY <1>1, <2>1 DEF Threads, Registered
  <2>3. Leftover'
    BY <1>1, <2>1 DEF StopInv, Leftover
  <2> QED
    BY <1>2, <1>3, <1>4, <2>2, <2>3 DEF StopInv
<1> QED
  BY <1>5, <1>6, <1>7

\* What a submit does to the queues: nothing, or a ticket more at the end of one.
LEMMA SubmitQueues ==
    ASSUME LineInv, NEW s \in Submitters, NEW st \in Offered, Submit(s, st)
    PROVE  LET t == [from |-> s, nr |-> sent[s] + 1, stream |-> st,
                     inTime |-> owner = "started"]
               w == Route(st)
           IN  \/ UNCHANGED <<queues, submitting>>
               \/ /\ submitting' = [submitting EXCEPT ![s] = w]
                  /\ \A v \in Workers : v # w => queues'[v] = queues[v]
                  /\ w \in Workers =>
                       /\ DOMAIN queues'[w] = 1 .. Len(queues[w]) + 1
                       /\ \A i \in 1 .. Len(queues[w]) : queues'[w][i] = queues[w][i]
                       /\ queues'[w][Len(queues[w]) + 1] = [item |-> t, by |-> s]
<1>1. PICK t : t = [from |-> s, nr |-> sent[s] + 1, stream |-> st,
                    inTime |-> owner = "started"]
  OBVIOUS
<1>2. PICK w : w = Route(st)
  OBVIOUS
<1>3. CASE UNCHANGED <<queues, submitting>>
  BY <1>3
<1>4. CASE /\ queues' = [queues EXCEPT ![w] = Append(@, [item |-> t, by |-> s])]
           /\ submitting' = [submitting EXCEPT ![s] = w]
  <2>1. DOMAIN queues = Workers
    BY DEF LineInv, PoolTypeOK
  <2>2. \A v \in Workers : v # w => queues'[v] = queues[v]
    BY <1>4, <2>1
  <2>3. ASSUME w \in Workers
        PROVE  /\ DOMAIN queues'[w] = 1 .. Len(queues[w]) + 1
               /\ \A i \in 1 .. Len(queues[w]) : queues'[w][i] = queues[w][i]
               /\ queues'[w][Len(queues[w]) + 1] = [item |-> t, by |-> s]
    <3>1. [item |-> t, by |-> s] \in Ticket
      BY <1>1 DEF Ticket, AnyTask, LineInv, PoolTypeOK, Offered
    <3>2. queues[w] \in Seq(Ticket) /\ queues'[w] = Append(queues[w], [item |-> t, by |-> s])
      BY <1>4, <2>1, <2>3, QueueTypes DEF LineInv
    <3> QED
      BY <3>1, <3>2, AppendProperties, LenProperties
  <2> QED
    BY <1>1, <1>2, <1>4, <2>2, <2>3
<1> QED
  BY <1>1, <1>2, <1>3, <1>4 DEF Submit

\* A submit that comes after stop() has begun is not in time and goes to the end.
LEMMA SubmitStop ==
    ASSUME LineInv, StopInv, NEW s \in Submitters, NEW st \in Offered, Submit(s, st)
    PROVE  StopInv'
<1>1. /\ UNCHANGED <<numWorkers, groups, running, owner, starts, cut, stopAsked, wpc>>
      /\ owner # "new" /\ submitting[s] = -1
      /\ sent' = [sent EXCEPT ![s] = @ + 1] /\ rr' \in {rr, rr + 1}
  BY DEF Submit, setup, ownerVars, workerVars
<1>2. PICK w : w = Route(st)
  OBVIOUS
<1>3. PICK t : t = [from |-> s, nr |-> sent[s] + 1, stream |-> st,
                    inTime |-> owner = "started"]
  OBVIOUS
<1>4. \/ UNCHANGED <<queues, submitting>>
      \/ /\ submitting' = [submitting EXCEPT ![s] = w]
         /\ \A v \in Workers : v # w => queues'[v] = queues[v]
         /\ w \in Workers =>
              /\ DOMAIN queues'[w] = 1 .. Len(queues[w]) + 1
              /\ \A i \in 1 .. Len(queues[w]) : queues'[w][i] = queues[w][i]
              /\ queues'[w][Len(queues[w]) + 1] = [item |-> t, by |-> s]
  BY <1>2, <1>3, SubmitQueues
<1>5. w \in Registered
  <2>1. numWorkers > 0
    BY <1>1 DEF StopInv, Registry
  <2> QED
    BY <1>2, <2>1, RouteRegistered DEF LineInv, StopInv
<1>6. \A v \in Workers : Len(queues[v]) \in Nat /\ DOMAIN queues[v] = 1 .. Len(queues[v])
  BY QueueTypes DEF LineInv
<1>7. Registry'
  <2>1. rr' \in Nat
    BY <1>1 DEF StopInv, Registry
  <2>2. \A v \in Workers \ Registered : queues'[v] = <<>>
    BY <1>4, <1>5 DEF StopInv, Registry
  <2> QED
    BY <1>1, <2>1, <2>2 DEF StopInv, Registry, Registered
<1>8. Threads' /\ DOMAIN stopAsked' = Workers /\ DOMAIN submitting' = Submitters
  BY <1>1, <1>4 DEF StopInv, Threads, Registered
\* An entry of a queue was there, or is the new one.
<1>9. \A v \in Workers : \A i \in DOMAIN queues'[v] :
        \/ i \in DOMAIN queues[v] /\ queues'[v][i] = queues[v][i]
        \/ /\ v = w /\ i = Len(queues[v]) + 1 /\ queues'[v][i] = [item |-> t, by |-> s]
           /\ submitting' = [submitting EXCEPT ![s] = w]
  BY <1>4, <1>6
<1>10. OpenTickets'
  <2> SUFFICES ASSUME NEW v \in Workers, NEW i \in DOMAIN queues'[v], queues'[v][i].by # Nobody
               PROVE  LET q == queues'[v][i]
                      IN  q.item.from = q.by /\ q.item.nr = sent'[q.by] /\ submitting'[q.by] = v
    BY DEF OpenTickets
  <2>1. CASE i \in DOMAIN queues[v] /\ queues'[v][i] = queues[v][i]
    <3>1. LET q == queues[v][i]
          IN  q.item.from = q.by /\ q.item.nr = sent[q.by] /\ submitting[q.by] = v
      BY <2>1 DEF StopInv, OpenTickets
    <3>2. queues[v][i].by # s
      BY <1>1, <3>1 DEF Workers
    <3>3. sent'[queues[v][i].by] = sent[queues[v][i].by]
          /\ submitting'[queues[v][i].by] = submitting[queues[v][i].by]
      <4>1. queues[v][i].by \in Submitters
        BY <2>1, HeldBySubmitter
      <4> QED
        BY <1>1, <1>4, <3>2, <4>1 DEF StopInv, LineInv, PoolTypeOK
    <3> QED
      BY <2>1, <3>1, <3>3
  <2>2. CASE /\ v = w /\ queues'[v][i] = [item |-> t, by |-> s]
             /\ submitting' = [submitting EXCEPT ![s] = w]
    <3>1. sent'[s] = sent[s] + 1 /\ submitting'[s] = w
      BY <1>1, <2>2 DEF LineInv, PoolTypeOK, StopInv
    <3> QED
      BY <1>3, <2>2, <3>1
  <2> QED
    BY <1>9, <2>1, <2>2
<1>11. Leftover'
  <2> SUFFICES ASSUME owner \in {"stopping", "stopped"}, NEW v \in Workers, NEW i \in DOMAIN queues'[v]
               PROVE  /\ queues'[v][i].by # Nobody =>
                           \/ <<queues'[v][i].item.from, queues'[v][i].item.nr>> \in cut
                           \/ \A j \in DOMAIN queues'[v] : j >= i => ~queues'[v][j].item.inTime
                      /\ wpc[v] = "exited" /\ queues'[v][i].item.inTime =>
                           \E j \in 1 .. i :
                             <<queues'[v][j].item.from, queues'[v][j].item.nr>> \in cut
    BY <1>1 DEF Leftover
  <2>1. ~[item |-> t, by |-> s].item.inTime
    BY <1>3
  <2>2. CASE i \in DOMAIN queues[v] /\ queues'[v][i] = queues[v][i]
    <3>1. /\ queues[v][i].by # Nobody =>
               \/ <<queues[v][i].item.from, queues[v][i].item.nr>> \in cut
               \/ \A j \in DOMAIN queues[v] : j >= i => ~queues[v][j].item.inTime
          /\ wpc[v] = "exited" /\ queues[v][i].item.inTime =>
               \E j \in 1 .. i : <<queues[v][j].item.from, queues[v][j].item.nr>> \in cut
      BY <2>2 DEF StopInv, Leftover
    <3>2. (\A j \in DOMAIN queues[v] : j >= i => ~queues[v][j].item.inTime)
            => \A j \in DOMAIN queues'[v] : j >= i => ~queues'[v][j].item.inTime
      BY <1>9, <2>1
    <3>3. \A j \in 1 .. i : queues'[v][j] = queues[v][j]
      BY <1>4, <1>6, <2>2
    <3> QED
      BY <2>2, <3>1, <3>2, <3>3
  <2>3. CASE v = w /\ i = Len(queues[v]) + 1 /\ queues'[v][i] = [item |-> t, by |-> s]
    <3>1. \A j \in DOMAIN queues'[v] : j >= i => j = i
      BY <1>6, <1>9, <2>3
    <3> QED
      BY <2>1, <2>3, <3>1
  <2> QED
    BY <1>9, <2>2, <2>3
<1> QED
  BY <1>7, <1>8, <1>10, <1>11 DEF StopInv

\* A ticket filled is one that holds up nothing any more.
LEMMA SubmitEndStop ==
    ASSUME LineInv, StopInv, NEW s \in Submitters, SubmitEnd(s)
    PROVE  StopInv'
<1>1. /\ UNCHANGED <<numWorkers, groups, owner, cut, stopAsked, wpc, sent, rr>>
      /\ submitting' = [submitting EXCEPT ![s] = -1]
  BY DEF SubmitEnd, setup, ownerVars, workerVars
<1>2. PICK w : w = submitting[s]
  OBVIOUS
<1>3. /\ \A v \in Workers : v # w => queues'[v] = queues[v]
      /\ w \in Workers => queues'[w] = [i \in DOMAIN queues[w] |->
             IF queues[w][i].by = s THEN [queues[w][i] EXCEPT !.by = Nobody]
                                    ELSE queues[w][i]]
  BY <1>2 DEF SubmitEnd, LineInv, PoolTypeOK
\* The same items in the same places; whoever fills a ticket is not s.
<1>4. \A v \in Workers : /\ DOMAIN queues'[v] = DOMAIN queues[v]
                         /\ \A i \in DOMAIN queues[v] :
                              /\ queues'[v][i].item = queues[v][i].item
                              /\ queues'[v][i].by # Nobody =>
                                   queues'[v][i] = queues[v][i] /\ queues[v][i].by # s
  <2> SUFFICES ASSUME NEW v \in Workers
               PROVE  /\ DOMAIN queues'[v] = DOMAIN queues[v]
                      /\ \A i \in DOMAIN queues[v] :
                           /\ queues'[v][i].item = queues[v][i].item
                           /\ queues'[v][i].by # Nobody =>
                                queues'[v][i] = queues[v][i] /\ queues[v][i].by # s
    OBVIOUS
  <2>1. CASE v # w
    <3>1. \A i \in DOMAIN queues[v] : queues[v][i].by # Nobody => queues[v][i].by # s
      BY <1>2, <2>1 DEF StopInv, OpenTickets
    <3> QED
      BY <1>3, <2>1, <3>1
  <2>2. CASE v = w
    <3>1. \A i \in DOMAIN queues[v] : queues[v][i] \in Ticket
      BY QueueTypes, ElementOfSeq DEF LineInv
    <3>2. \A e \in Ticket : /\ [e EXCEPT !.by = Nobody].by = Nobody
                            /\ [e EXCEPT !.by = Nobody].item = e.item
      BY DEF Ticket
    <3>3. DOMAIN queues'[w] = DOMAIN queues[w]
      BY <1>3, <2>2
    <3>4. ASSUME NEW i \in DOMAIN queues[w]
          PROVE  /\ queues'[w][i].item = queues[w][i].item
                 /\ queues'[w][i].by # Nobody =>
                      queues'[w][i] = queues[w][i] /\ queues[w][i].by # s
      <4>1. CASE queues[w][i].by = s
        <5>1. queues'[w][i] = [queues[w][i] EXCEPT !.by = Nobody]
          BY <1>3, <2>2, <4>1
        <5>2. queues[w][i] \in Ticket
          BY <2>2, <3>1
        <5> QED
          BY <3>2, <5>1, <5>2
      <4>2. CASE queues[w][i].by # s
        BY <1>3, <2>2, <4>2
      <4> QED
        BY <4>1, <4>2
    <3> QED
      BY <2>2, <3>3, <3>4
  <2> QED
    BY <2>1, <2>2
<1>5. Registry'
  <2>1. \A v \in Workers : queues[v] = <<>> => queues'[v] = <<>>
    <3> SUFFICES ASSUME NEW v \in Workers, queues[v] = <<>> PROVE queues'[v] = <<>>
      OBVIOUS
    <3>1. CASE v # w
      BY <1>3, <3>1
    <3>2. CASE v = w
      BY <1>3, <3>2
    <3> QED
      BY <3>1, <3>2
  <2> QED
    BY <1>1, <2>1 DEF StopInv, Registry, Registered
<1>6. Threads' /\ DOMAIN stopAsked' = Workers /\ DOMAIN submitting' = Submitters
  BY <1>1 DEF StopInv, Threads, Registered
<1>7. OpenTickets'
  <2> SUFFICES ASSUME NEW v \in Workers, NEW i \in DOMAIN queues'[v], queues'[v][i].by # Nobody
               PROVE  LET q == queues'[v][i]
                      IN  q.item.from = q.by /\ q.item.nr = sent'[q.by] /\ submitting'[q.by] = v
    BY DEF OpenTickets
  <2>1. i \in DOMAIN queues[v] /\ queues'[v][i] = queues[v][i] /\ queues[v][i].by # s
    BY <1>4
  <2>2. LET q == queues[v][i]
        IN  q.item.from = q.by /\ q.item.nr = sent[q.by] /\ submitting[q.by] = v
    BY <2>1 DEF StopInv, OpenTickets
  <2>3. submitting'[queues[v][i].by] = submitting[queues[v][i].by]
    <3>1. queues[v][i].by \in Submitters
      BY <2>1, HeldBySubmitter
    <3> QED
      BY <1>1, <2>1, <3>1 DEF StopInv
  <2> QED
    BY <1>1, <2>1, <2>2, <2>3
<1>8. Leftover'
  <2> SUFFICES ASSUME owner \in {"stopping", "stopped"}, NEW v \in Workers, NEW i \in DOMAIN queues[v]
               PROVE  /\ queues'[v][i].by # Nobody =>
                           \/ <<queues'[v][i].item.from, queues'[v][i].item.nr>> \in cut
                           \/ \A j \in DOMAIN queues[v] : j >= i => ~queues'[v][j].item.inTime
                      /\ wpc[v] = "exited" /\ queues'[v][i].item.inTime =>
                           \E j \in 1 .. i :
                             <<queues'[v][j].item.from, queues'[v][j].item.nr>> \in cut
    BY <1>1, <1>4 DEF Leftover
  <2>1. /\ queues[v][i].by # Nobody =>
             \/ <<queues[v][i].item.from, queues[v][i].item.nr>> \in cut
             \/ \A j \in DOMAIN queues[v] : j >= i => ~queues[v][j].item.inTime
        /\ wpc[v] = "exited" /\ queues[v][i].item.inTime =>
             \E j \in 1 .. i : <<queues[v][j].item.from, queues[v][j].item.nr>> \in cut
    BY DEF StopInv, Leftover
  <2>2. \A j \in 1 .. i : j \in DOMAIN queues[v]
    BY QueueTypes DEF LineInv
  <2> QED
    BY <1>4, <2>1, <2>2
<1> QED
  BY <1>5, <1>6, <1>7, <1>8 DEF StopInv

\* A pop takes a filled head: what stood behind an entry of cut still does, the
\* popping worker not having left its loop.
LEMMA PopStop ==
    ASSUME LineInv, StopInv, NEW w \in Workers, Poll(w) \/ Drain(w)
    PROVE  StopInv'
<1>1. /\ UNCHANGED <<numWorkers, groups, running, owner, starts, cut, stopAsked,
                     submitting, sent, rr>>
      /\ CanPop(w) /\ queues' = [queues EXCEPT ![w] = Tail(@)]
      /\ \/ wpc[w] = "poll" /\ wpc' = [wpc EXCEPT ![w] = "handle"]
         \/ wpc[w] = "drain" /\ wpc' = [wpc EXCEPT ![w] = "drainHandle"]
  BY DEF Poll, Drain, PopAnd, setup, ownerVars, submitVars
<1>2. /\ \A v \in Workers : v # w => queues'[v] = queues[v] /\ wpc'[v] = wpc[v]
      /\ queues'[w] = Tail(queues[w])
      /\ wpc[w] # "none" /\ wpc[w] # "exited" /\ wpc'[w] \in {"handle", "drainHandle"}
      /\ wpc'[w] = "drainHandle" => wpc[w] = "drain"
  BY <1>1 DEF LineInv, PoolTypeOK
<1>3. /\ queues[w] \in Seq(Ticket) /\ queues[w] # <<>> /\ Len(queues[w]) \in Nat
      /\ DOMAIN queues[w] = 1 .. Len(queues[w])
  BY <1>1, QueueTypes DEF LineInv, CanPop
<1>4. /\ DOMAIN queues'[w] = 1 .. Len(queues[w]) - 1
      /\ \A i \in 1 .. Len(queues[w]) - 1 : queues'[w][i] = queues[w][i + 1]
  BY <1>2, <1>3, HeadTailProperties, LenProperties
<1>5. Registry'
  <2>1. w \in Registered
    BY <1>3 DEF StopInv, Registry
  <2> QED
    BY <1>1, <1>2, <2>1 DEF StopInv, Registry, Registered
<1>6. Threads'
  <2>1. owner # "new"
    BY <1>2 DEF StopInv, Threads
  <2>2. owner = "started" => wpc'[w] = "handle"
    BY <1>2 DEF StopInv, Threads
  <2>3. owner # "stopped"
    <3>1. w \in Registered
      BY <1>3 DEF StopInv, Registry
    <3> QED
      BY <1>2, <3>1 DEF StopInv, Threads
  <2> QED
    BY <1>1, <1>2, <2>1, <2>2, <2>3 DEF StopInv, Threads
\* Every entry of a queue was one.
<1>7. \A v \in Workers : \A i \in DOMAIN queues'[v] :
        \E j \in DOMAIN queues[v] : queues'[v][i] = queues[v][j]
  <2> TAKE v \in Workers
  <2> TAKE i \in DOMAIN queues'[v]
  <2>1. CASE v # w
    BY <1>2, <2>1
  <2>2. CASE v = w
    <3>1. i + 1 \in DOMAIN queues[v]
      BY <1>3, <1>4, <2>2
    <3> QED
      BY <1>4, <2>2, <3>1
  <2> QED
    BY <2>1, <2>2
<1>8. OpenTickets'
  BY <1>1, <1>7 DEF StopInv, OpenTickets
<1>9. Leftover'
  <2> SUFFICES ASSUME owner' \in {"stopping", "stopped"}, NEW v \in Workers, NEW i \in DOMAIN queues'[v]
               PROVE  /\ queues'[v][i].by # Nobody =>
                           \/ <<queues'[v][i].item.from, queues'[v][i].item.nr>> \in cut'
                           \/ \A j \in DOMAIN queues'[v] : j >= i => ~queues'[v][j].item.inTime
                      /\ wpc'[v] = "exited" /\ queues'[v][i].item.inTime =>
                           \E j \in 1 .. i :
                             <<queues'[v][j].item.from, queues'[v][j].item.nr>> \in cut'
    BY DEF Leftover
  <2>1. CASE v # w
    BY <1>1, <1>2, <2>1 DEF StopInv, Leftover
  <2>2. CASE v = w
    <3>1. i \in 1 .. Len(queues[w]) - 1 /\ i + 1 \in DOMAIN queues[w]
      BY <1>3, <1>4, <2>2
    <3>2. queues[w][i + 1].by # Nobody =>
             \/ <<queues[w][i + 1].item.from, queues[w][i + 1].item.nr>> \in cut
             \/ \A j \in DOMAIN queues[w] : j >= i + 1 => ~queues[w][j].item.inTime
      BY <1>1, <3>1 DEF StopInv, Leftover
    <3>3. (\A j \in DOMAIN queues[w] : j >= i + 1 => ~queues[w][j].item.inTime)
            => \A j \in DOMAIN queues'[w] : j >= i => ~queues'[w][j].item.inTime
      <4> SUFFICES ASSUME \A j \in DOMAIN queues[w] : j >= i + 1 => ~queues[w][j].item.inTime,
                          NEW j \in DOMAIN queues'[w], j >= i
                   PROVE  ~queues'[w][j].item.inTime
        OBVIOUS
      <4>1. j \in 1 .. Len(queues[w]) - 1 /\ j + 1 \in DOMAIN queues[w] /\ j + 1 >= i + 1
        BY <1>3, <1>4, <3>1
      <4> QED
        BY <1>4, <4>1
    <3>4. queues'[w][i] = queues[w][i + 1] /\ wpc'[w] # "exited"
      BY <1>2, <1>4, <3>1
    <3> QED
      <4>1. ASSUME queues'[w][i].by # Nobody,
                   <<queues'[w][i].item.from, queues'[w][i].item.nr>> \notin cut'
            PROVE  \A j \in DOMAIN queues'[w] : j >= i => ~queues'[w][j].item.inTime
        <5>1. /\ queues[w][i + 1].by # Nobody
              /\ <<queues[w][i + 1].item.from, queues[w][i + 1].item.nr>> \notin cut
          <6>1. cut' = cut
            BY <1>1
          <6>2. <<queues'[w][i].item.from, queues'[w][i].item.nr>>
                  = <<queues[w][i + 1].item.from, queues[w][i + 1].item.nr>>
            BY <3>4
          <6> QED
            BY <3>4, <4>1, <6>1, <6>2
        <5> QED
          BY <3>2, <3>3, <5>1
      <4> QED
        BY <2>2, <3>4, <4>1
  <2> QED
    BY <2>1, <2>2
<1> QED
  BY <1>1, <1>5, <1>6, <1>8, <1>9 DEF StopInv

\* The loops end and the handlers return.  A worker leaves its drain at an empty
\* queue or at an unfilled head, and then nothing in time is left that cut does not
\* account for.
LEMMA LoopStop ==
    ASSUME LineInv, StopInv, NEW w \in Workers, PollEnds(w) \/ DrainEnds(w) \/ Handle(w)
    PROVE  StopInv'
<1>1. UNCHANGED <<numWorkers, groups, queues, owner, cut, stopAsked, submitting, sent, rr>>
  BY DEF PollEnds, DrainEnds, Handle, setup, ownerVars, submitVars
<1>2. Registry' /\ OpenTickets'
  BY <1>1 DEF StopInv, Registry, Registered, OpenTickets
<1>3. \A v \in Workers : v # w => wpc'[v] = wpc[v]
  BY DEF PollEnds, DrainEnds, Handle, LineInv, PoolTypeOK
<1>4. \/ wpc[w] = "poll" /\ stopAsked[w] /\ wpc'[w] = "drain"
      \/ wpc[w] = "drain" /\ ~CanPop(w) /\ wpc'[w] = "exited"
      \/ wpc[w] = "handle" /\ wpc'[w] = "poll"
      \/ wpc[w] = "drainHandle" /\ wpc'[w] = "drain"
  BY DEF PollEnds, DrainEnds, Handle, LineInv, PoolTypeOK
<1>5. Threads'
  <2>1. owner # "new" /\ (owner = "started" => wpc'[w] = "poll")
    BY <1>4 DEF StopInv, Threads
  <2>2. owner = "stopped" => w \notin Registered
    BY <1>4 DEF StopInv, Threads
  <2> QED
    BY <1>1, <1>3, <2>1, <2>2 DEF StopInv, Threads, Registered
<1>6. Leftover'
  <2>1. ASSUME owner \in {"stopping", "stopped"}, wpc'[w] = "exited",
               NEW i \in DOMAIN queues[w], queues[w][i].item.inTime
        PROVE  \E j \in 1 .. i : <<queues[w][j].item.from, queues[w][j].item.nr>> \in cut
    <3>1. Len(queues[w]) \in Nat /\ i \in 1 .. Len(queues[w]) /\ 1 \in DOMAIN queues[w]
      BY <2>1, QueueTypes DEF LineInv
    <3>2. queues[w] # <<>> /\ Head(queues[w]) = queues[w][1]
      BY <3>1, QueueTypes, EmptySeq DEF LineInv
    <3>3. queues[w][1].by # Nobody
      BY <1>4, <2>1, <3>2 DEF CanPop
    <3>4. \/ <<queues[w][1].item.from, queues[w][1].item.nr>> \in cut
          \/ \A j \in DOMAIN queues[w] : j >= 1 => ~queues[w][j].item.inTime
      BY <2>1, <3>1, <3>3 DEF StopInv, Leftover
    <3>5. i >= 1 /\ 1 \in 1 .. i
      BY <3>1
    <3> QED
      BY <2>1, <3>4, <3>5
  <2>2. \A v \in Workers : \A i \in DOMAIN queues[v] : v # w \/ wpc'[v] # "exited" =>
           /\ queues[v][i].by # Nobody =>
                \/ owner \notin {"stopping", "stopped"}
                \/ <<queues[v][i].item.from, queues[v][i].item.nr>> \in cut
                \/ \A j \in DOMAIN queues[v] : j >= i => ~queues[v][j].item.inTime
           /\ wpc'[v] = "exited" /\ queues[v][i].item.inTime =>
                \/ owner \notin {"stopping", "stopped"}
                \/ \E j \in 1 .. i : <<queues[v][j].item.from, queues[v][j].item.nr>> \in cut
    BY <1>3 DEF StopInv, Leftover
  <2> QED
    BY <1>1, <2>1, <2>2 DEF StopInv, Leftover
<1> QED
  BY <1>1, <1>2, <1>5, <1>6 DEF StopInv

\* What the shutdown relies on, for every number of workers, submitters and tasks.
THEOREM StopInvariant == PoolSpec => []StopInv
<1>1. LineInv /\ StopInv /\ [PoolNext]_poolVars => StopInv'
  <2> SUFFICES ASSUME LineInv, StopInv, [PoolNext]_poolVars PROVE StopInv'
    OBVIOUS
  <2>1. CASE SpawnWorker \/ \E count \in 1 .. MaxWorkers : SpawnGroup(count)
    BY <2>1, SpawnStop
  <2>2. CASE Start \/ Stop \/ StopStep
    BY <2>2, OwnerStop
  <2>3. CASE \E s \in Submitters : SubmitEnd(s)
    BY <2>3, SubmitEndStop
  <2>4. CASE \E s \in Submitters, st \in Offered : Submit(s, st)
    BY <2>4, SubmitStop
  <2>5. CASE \E w \in Workers : WorkerStep(w)
    BY <2>5, PopStop, LoopStop DEF WorkerStep
  <2>6. CASE UNCHANGED poolVars
    <3>1. /\ UNCHANGED <<numWorkers, groups, queues, owner, cut, stopAsked, wpc>>
          /\ UNCHANGED <<submitting, sent, rr>>
      BY <2>6 DEF poolVars, setup, ownerVars, workerVars, submitVars
    <3>2. Registry' /\ Threads'
      BY <3>1 DEF StopInv, Registry, Registered, Threads
    <3>3. OpenTickets' /\ Leftover'
      BY <3>1 DEF StopInv, OpenTickets, Leftover
    <3> QED
      BY <3>1, <3>2, <3>3 DEF StopInv
  <2> QED
    BY <2>1, <2>2, <2>3, <2>4, <2>5, <2>6 DEF PoolNext
<1> QED
  BY <1>1, StopInvInit, LineInvariant, PTL DEF PoolSpec

\* When stop() has returned, a task whose submit began while the pool ran has been
\* handled, unless it is, or stands behind, one whose submit was still under way when
\* stop() was called; over any number of stops and restarts.
THEOREM StopLeavesNone == PoolSpec => []AllHandledAtStop
<1>1. StopInv => AllHandledAtStop
  <2> SUFFICES ASSUME StopInv, owner = "stopped", NEW w \in Workers, NEW i \in DOMAIN queues[w],
                      queues[w][i].item.inTime
               PROVE  \E j \in 1 .. i : <<queues[w][j].item.from, queues[w][j].item.nr>> \in cut
    BY DEF AllHandledAtStop
  <2>1. w \in Registered
    BY DEF StopInv, Registry
  <2> QED
    BY <2>1 DEF StopInv, Threads, Leftover
<1> QED
  BY <1>1, StopInvariant, PTL
=============================================================================
