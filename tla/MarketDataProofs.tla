-------------------------- MODULE MarketDataProofs --------------------------
(***************************************************************************)
(* The market data of a process, from the dispatch of its messages to the  *)
(* books they build.  MdDispatch: the name of the shared table, what a     *)
(* reader copies from it and what the books see of the feed, for every     *)
(* number of readers, books, workers, messages and restarts.  OrderBook,   *)
(* which shares no state with it: for every number of orders, prices,      *)
(* levels and quantities the best price is first after any calls whatever, *)
(* and as long as the feed keeps to its protocol the levels are the sums   *)
(* of the resting orders.                                                  *)
(***************************************************************************)
EXTENDS MdDispatch, OrderBook, SequenceTheorems, FiniteSetTheorems, WellFoundedInduction, TLAPS

(* ---- the segments and the objects ------------------------------------ *)

\* What the calls do to the name: only create() makes it, only close() takes it.
LEMMA NameOfHost ==
    ASSUME NEW x, HostOK(x), NEW i, NEW t
    PROVE  /\ HostOK(ShmOpenCreate(x))
           /\ HostOK(Ftruncate(x, i)) /\ Ftruncate(x, i).linked = x.linked
           /\ HostOK(Construct(x, i)) /\ Construct(x, i).linked = x.linked
           /\ HostOK(Close(x, t))
           /\ t.owns = FALSE => Close(x, t) = x
           /\ Close(x, t).linked \in {0, x.linked}
<1>1. HostOK(ShmOpenCreate(x))
  BY DEF HostOK, ShmOpenCreate
<1>2. HostOK(Ftruncate(x, i)) /\ Ftruncate(x, i).linked = x.linked
  BY DEF HostOK, Ftruncate
<1>3. HostOK(Construct(x, i)) /\ Construct(x, i).linked = x.linked
  BY DEF HostOK, Construct
<1>4. /\ HostOK(Close(x, t))
      /\ t.owns = FALSE => Close(x, t) = x
      /\ Close(x, t).linked \in {0, x.linked}
  BY DEF HostOK, Close
<1> QED
  BY <1>1, <1>2, <1>3, <1>4

\* The objects that open() and the readers' own steps leave behind.
LEMMA ReaderStates ==
    ASSUME NEW x, ReaderOK(x), NEW d, NEW g, NEW i
    PROVE  /\ ReaderOK(FreshReader)
           /\ x.table.at = 0 => ReaderOK([x EXCEPT !.table = OpenFails(@)])
           /\ ReaderOK([x EXCEPT !.table = OpenMaps(@, i)])
           /\ ReaderOK([x EXCEPT !.read = d])
           /\ ReaderOK([x EXCEPT !.read = d, !.got = g])
           /\ ReaderOK([x EXCEPT !.got = g, !.read = d])
           /\ ReaderOK([x EXCEPT !.read.spoiled = TRUE])
<1>1. ReaderOK(FreshReader)
  BY DEF ReaderOK, FreshReader, NewTable
<1>2. x.table.at = 0 => ReaderOK([x EXCEPT !.table = OpenFails(@)])
  BY DEF ReaderOK, OpenFails
<1>3. ReaderOK([x EXCEPT !.table = OpenMaps(@, i)])
  BY DEF ReaderOK, OpenMaps
<1>4. ReaderOK([x EXCEPT !.read = d])
  BY DEF ReaderOK
<1>5. ReaderOK([x EXCEPT !.read = d, !.got = g])
  BY DEF ReaderOK
<1>6. ReaderOK([x EXCEPT !.got = g, !.read = d])
  BY DEF ReaderOK
<1>7. ReaderOK([x EXCEPT !.read.spoiled = TRUE])
  BY DEF ReaderOK
<1> QED
  BY <1>1, <1>2, <1>3, <1>4, <1>5, <1>6, <1>7

\* One reader gets a new object or goes on reading.
LEMMA OneReader ==
    ASSUME ReadersOK, NEW r \in Readers, NEW new, ReaderOK(new), Now(r, new)
    PROVE  ReadersOK'
  BY DEF ReadersOK, Now

\* The writer starts again under those who are reading.
LEMMA SpoiledReaders ==
    ASSUME ReadersOK, NEW i, reader' = Spoiled(i)
    PROVE  ReadersOK'
<1>1. \A r \in Readers : ReaderOK([reader[r] EXCEPT !.read.spoiled = TRUE])
  BY ReaderStates DEF ReadersOK
<1> QED
  BY <1>1 DEF ReadersOK, Spoiled

(* ---- the steps ------------------------------------------------------- *)

\* main(), the receiver and the workers.
Process ==
    \/ Begin \/ BeginFails \/ Size \/ MapTable \/ OpenReceiver \/ ReturnFailed \/ Kill \/ OnPacket
    \/ \E w \in Workers : ProcessMarketData(w) \/ Publish(w)

\* The writer's process keeps its name.
LEMMA ProcessKeeps == ASSUME NameInv, Process PROVE NameInv'
<1> USE DEF NameInv, NameLeadsToWriter, ReadersOK
<1>1. CASE Begin
  <2>1. host' = ShmOpenCreate(host) /\ table'.at = host'.linked /\ reader' = Spoiled(host.linked)
    BY <1>1 DEF Begin, NewTable
  <2>2. ReadersOK'
    BY <2>1, SpoiledReaders
  <2> QED
    BY <2>1, <2>2, NameOfHost
<1>2. CASE BeginFails
  <2>1. host' = Close(host, OpenFails(NewTable)) /\ main = "off" /\ main' = main /\ reader' = reader
    BY <1>2 DEF BeginFails
  <2> QED
    BY <2>1, NameOfHost
<1>3. CASE Size
  BY <1>3, NameOfHost DEF Size
<1>4. CASE MapTable
  <2>1. ReadersOK'
    BY <1>4, SpoiledReaders DEF MapTable
  <2> QED
    BY <1>4, <2>1, NameOfHost DEF MapTable
<1>5. CASE OpenReceiver
  BY <1>5 DEF OpenReceiver
<1>6. CASE ReturnFailed
  BY <1>6, NameOfHost DEF ReturnFailed
<1>7. CASE Kill
  BY <1>7 DEF Kill
<1>8. CASE OnPacket
  BY <1>8 DEF OnPacket
<1>9. ASSUME NEW w \in Workers, ProcessMarketData(w) PROVE NameInv'
  BY <1>9 DEF ProcessMarketData
<1>10. ASSUME NEW w \in Workers, Publish(w) PROVE NameInv'
  <2>1. HostOK(host') /\ host'.linked = host.linked
    <3>1. \/ \E i, s : host' = BumpSeq(host, i, s)
          \/ \E i, s, k, v : host' = StoreWord(host, i, s, k, v)
      BY Zenon, <1>10 DEF Publish, PublishBegin, PublishWord, PublishEnd
    <3>2. HostOK(host)
      OBVIOUS
    <3>3. \A i, s : HostOK(BumpSeq(host, i, s)) /\ BumpSeq(host, i, s).linked = host.linked
      BY <3>2 DEF HostOK, BumpSeq
    <3>4. \A i, s, k, v : /\ HostOK(StoreWord(host, i, s, k, v))
                          /\ StoreWord(host, i, s, k, v).linked = host.linked
      BY <3>2 DEF HostOK, StoreWord
    <3> QED
      BY Zenon, <3>1, <3>3, <3>4
  <2>2. UNCHANGED <<main, table, reader, taken>>
    BY <1>10 DEF Publish, PublishBegin, PublishWord, PublishEnd, Publishing
  <2> QED
    BY <2>1, <2>2
<1> QED
  BY <1>1, <1>2, <1>3, <1>4, <1>5, <1>6, <1>7, <1>8, <1>9, <1>10 DEF Process

\* A reader takes the name only with an object whose open() failed.
LEMMA ReadersKeep ==
    ASSUME NameInv, NEW r \in Readers,
           Open(r) \/ CloseTable(r) \/ ReadBegin(r) \/ BusError(r) \/ ReadStep(r)
    PROVE  NameInv'
<1>1. ReadersOK /\ ReaderOK(reader[r])
  BY DEF NameInv, ReadersOK
<1>2. PICK new : Now(r, new) /\ ReaderOK(new)
  <2>1. CASE Open(r)
    BY <1>1, <2>1, ReaderStates DEF Open
  <2>2. CASE CloseTable(r)
    BY <1>1, <2>2, ReaderStates DEF CloseTable
  <2>3. CASE ReadBegin(r)
    <3>1. \A d : ReaderOK([reader[r] EXCEPT !.got = <<>>, !.read = d])
      BY <1>1, ReaderStates
    <3>2. PICK d : Now(r, [reader[r] EXCEPT !.got = <<>>, !.read = d])
      BY Zenon, <2>3 DEF ReadBegin
    <3> QED
      BY Zenon, <3>1, <3>2
  <2>4. CASE BusError(r)
    BY <1>1, <2>4, ReaderStates DEF BusError
  <2>5. CASE ReadStep(r)
    <3>1. \A d, g : /\ ReaderOK([reader[r] EXCEPT !.read = d])
                   /\ ReaderOK([reader[r] EXCEPT !.read = d, !.got = g])
      BY <1>1, ReaderStates
    <3>2. \E d, g : \/ Now(r, [reader[r] EXCEPT !.read = d])
                   \/ Now(r, [reader[r] EXCEPT !.read = d, !.got = g])
      BY Zenon, <2>5 DEF ReadStep
    <3> QED
      BY Zenon, <3>1, <3>2
  <2> QED
    BY <2>1, <2>2, <2>3, <2>4, <2>5
<1>3. ReadersOK' /\ UNCHANGED <<main, table>>
  BY <1>1, <1>2, OneReader DEF Now, process
<1>4. \/ UNCHANGED <<host, taken>>
      \/ host' = Close(host, reader[r].table) /\ taken' = (taken \/ reader[r].table.at = 0)
  BY DEF Open, CloseTable, ReadBegin, BusError, ReadStep
<1>5. CASE UNCHANGED <<host, taken>>
  BY <1>3, <1>5 DEF NameInv, NameLeadsToWriter
<1>6. CASE /\ host' = Close(host, reader[r].table)
           /\ taken' = (taken \/ reader[r].table.at = 0)
  <2>1. CASE reader[r].table.owns = FALSE
    BY <1>3, <1>6, <2>1, NameOfHost DEF NameInv, NameLeadsToWriter
  <2>2. CASE reader[r].table.at = 0
    BY <1>3, <1>6, <2>2, NameOfHost DEF NameInv, NameLeadsToWriter
  <2> QED
    BY <1>1, <2>1, <2>2 DEF ReaderOK
<1> QED
  BY <1>4, <1>5, <1>6

\* While the writer runs, the name leads to its segment, unless a reader whose
\* open() failed has taken the name away.
THEOREM NameStays == Spec => []NameLeadsToWriter
<1>1. Init => NameInv
  BY DEF Init, NameInv, NameLeadsToWriter, NewHost, HostOK, ReadersOK, ReaderOK, NewTable
<1>2. NameInv /\ [Next]_vars => NameInv'
  <2> SUFFICES ASSUME NameInv, [Next]_vars PROVE NameInv'
    OBVIOUS
  <2>1. CASE UNCHANGED vars
    BY <2>1 DEF vars, process, NameInv, NameLeadsToWriter, ReadersOK
  <2> QED
    BY <2>1, ProcessKeeps, ReadersKeep DEF Next, Process
<1>3. NameInv => NameLeadsToWriter
  BY DEF NameInv
<1> QED
  BY <1>1, <1>2, <1>3, PTL DEF Spec

(* ---- types --------------------------------------------------------------- *)

\* Which symbol has which worker, and which slot.
LEMMA Routes ==
    /\ Workers = 0 .. kNumBookWorkers - 1 /\ kNumBookWorkers \in Nat \ {0}
    /\ \A s \in Symbols : s \in Nat /\ WorkerForKey(s) \in Workers
    /\ \A b \in Books : b \in Symbols /\ b \in Slots /\ SlotOf(b) = b
    /\ \A w \in Workers, b \in Books : b \in Owned(w) <=> w = WorkerForKey(b)
<1>1. /\ Cardinality(Books) \in Nat /\ Books = 0 .. Cardinality(Books) - 1 /\ Slots = Books
      /\ kNumBookWorkers \in Nat \ {0} /\ Strangers \subseteq Nat
  BY MdAssumption, FS_CardinalityType
<1>2. \A s \in Symbols : s \in Nat
  <2>1. \A b \in Books : b \in Nat
    BY <1>1
  <2> QED
    BY <1>1, <2>1 DEF Symbols
<1>3. \A s \in Nat : s % kNumBookWorkers \in Workers
  BY <1>1 DEF Workers
<1>4. \A b \in Books : b % Cardinality(Slots) = b
  BY <1>1
<1> QED
  BY <1>1, <1>2, <1>3, <1>4 DEF Symbols, WorkerForKey, SlotOf, Owned, Workers

\* The calls on the segments.
LEMMA SizedType ==
    \A on \in BOOLEAN :
        Sized(on) \in Segment /\ Sized(on).slots \in [Slots -> [seq : Nat, words : [Words -> Value]]]
<1>1. EmptySlot \in [seq : Nat, words : [Words -> Value]]
  BY DEF EmptySlot, Zero, Value
<1> QED
  BY <1>1 DEF Sized, Segment

\* shm_open and the constructor keep the types.
LEMMA OpenCreateType ==
    ASSUME NEW h \in Host, h.linked = 0 => h.used < MaxSegments
    PROVE  ShmOpenCreate(h) \in Host /\ ShmOpenCreate(h).linked \in 1 .. MaxSegments
<1>1. /\ h.linked \in 0 .. MaxSegments /\ h.used \in 0 .. MaxSegments /\ MaxSegments \in Nat
      /\ h.segs \in [1 .. MaxSegments -> Segment]
  BY MdAssumption DEF Host
<1>2. CASE h.linked # 0
  <2>1. [h.segs EXCEPT ![h.linked] = Sized(FALSE)] \in [1 .. MaxSegments -> Segment]
    BY <1>1, SizedType
  <2>2. ShmOpenCreate(h) = [h EXCEPT !.segs = [h.segs EXCEPT ![h.linked] = Sized(FALSE)]]
    BY <1>2 DEF ShmOpenCreate
  <2>3. \A x \in [1 .. MaxSegments -> Segment] :
           [h EXCEPT !.segs = x] \in Host /\ [h EXCEPT !.segs = x].linked = h.linked
    BY DEF Host
  <2>4. h.linked \in 1 .. MaxSegments
    BY <1>1, <1>2
  <2> QED
    BY <2>1, <2>2, <2>3, <2>4
<1>3. CASE h.linked = 0
  <2>1. h.used + 1 \in 1 .. MaxSegments
    BY <1>1, <1>3
  <2>2. ShmOpenCreate(h) = [h EXCEPT !.linked = h.used + 1, !.used = h.used + 1]
    BY <1>3 DEF ShmOpenCreate
  <2>3. \A u \in 0 .. MaxSegments :
           /\ [h EXCEPT !.linked = u, !.used = u] \in Host
           /\ [h EXCEPT !.linked = u, !.used = u].linked = u
    BY DEF Host
  <2>4. h.used + 1 \in 0 .. MaxSegments
    BY <1>1, <2>1
  <2> QED
    BY <2>1, <2>2, <2>3, <2>4
<1> QED
  BY <1>2, <1>3

\* ftruncate and placement new keep the types.
LEMMA SizeTypes ==
    ASSUME NEW h \in Host, NEW i \in 1 .. MaxSegments
    PROVE  Ftruncate(h, i) \in Host /\ Construct(h, i) \in Host
<1>1. h.segs \in [1 .. MaxSegments -> Segment] /\ h.segs[i] \in Segment
  BY DEF Host
<1>2. [h.segs[i] EXCEPT !.slots = Sized(TRUE).slots] \in Segment
  BY <1>1, SizedType DEF Segment
<1> QED
  BY <1>1, <1>2, SizedType DEF Ftruncate, Construct, Host

\* close() keeps the types.
LEMMA CloseType ==
    ASSUME NEW h \in Host, NEW t
    PROVE  Close(h, t) \in Host
<1>1. \A u \in 0 .. MaxSegments : [h EXCEPT !.linked = u] \in Host
  BY DEF Host
<1>2. 0 \in 0 .. MaxSegments
  BY MdAssumption
<1> QED
  BY <1>1, <1>2 DEF Close

\* A word stored and a sequence number raised keep the types.
LEMMA StoreTypes ==
    ASSUME NEW h \in Host, NEW i \in 1 .. MaxSegments, NEW s \in Slots
    PROVE  /\ BumpSeq(h, i, s) \in Host
           /\ \A k \in Words, v \in Value : StoreWord(h, i, s, k, v) \in Host
<1>1. h.segs \in [1 .. MaxSegments -> Segment] /\ h.segs[i] \in Segment
  BY DEF Host
<1>2. h.segs[i].slots[s] \in [seq : Nat, words : [Words -> Value]]
  BY <1>1 DEF Segment
<1>3. BumpSeq(h, i, s) \in Host
  <2>1. [h.segs[i].slots[s] EXCEPT !.seq = @ + 1] \in [seq : Nat, words : [Words -> Value]]
    BY <1>2
  <2>2. [h.segs[i] EXCEPT !.slots[s].seq = @ + 1] \in Segment
    BY <1>1, <2>1 DEF Segment
  <2> QED
    BY <1>1, <2>2 DEF BumpSeq, Host
<1>4. ASSUME NEW k \in Words, NEW v \in Value
      PROVE  StoreWord(h, i, s, k, v) \in Host
  <2>1. [h.segs[i].slots[s] EXCEPT !.words[k] = v] \in [seq : Nat, words : [Words -> Value]]
    BY <1>2
  <2>2. [h.segs[i] EXCEPT !.slots[s].words[k] = v] \in Segment
    BY <1>1, <2>1 DEF Segment
  <2> QED
    BY <1>1, <2>2 DEF StoreWord, Host
<1> QED
  BY <1>3, <1>4

\* A reader that looks again, returns, or takes another object is still one.
LEMMA ReaderTypes ==
    ASSUME NEW x \in Reader, NEW t \in Table, NEW d \in {NoRead} \cup Read, NEW g \in Seq(Got)
    PROVE  /\ FreshReader \in Reader
           /\ [x EXCEPT !.table = t] \in Reader
           /\ [x EXCEPT !.read = d] \in Reader
           /\ [x EXCEPT !.read = d, !.got = g] \in Reader
           /\ [x EXCEPT !.got = g, !.read = d] \in Reader
<1>1. NewTable \in Table
  BY MdAssumption DEF NewTable, Table
<1>2. FreshReader \in Reader
  BY <1>1, EmptySeq DEF FreshReader, Reader
<1>3. /\ [x EXCEPT !.table = t] \in Reader
      /\ [x EXCEPT !.read = d] \in Reader
      /\ [x EXCEPT !.read = d, !.got = g] \in Reader
      /\ [x EXCEPT !.got = g, !.read = d] \in Reader
  BY DEF Reader
<1> QED
  BY <1>2, <1>3

\* A reader that is in a read has a record of it, spoiled or not.
LEMMA ReadingTypes ==
    ASSUME NEW x \in Reader, x.read.at # "idle"
    PROVE  x.read \in Read /\ [x EXCEPT !.read.spoiled = TRUE] \in Reader
<1>1. x.read \in {NoRead} \cup Read /\ NoRead.at = "idle"
  BY DEF Reader, NoRead
<1>2. x.read \in Read
  BY <1>1
<1>3. [x.read EXCEPT !.spoiled = TRUE] \in Read
  BY <1>2 DEF Read
<1>4. [x EXCEPT !.read = [x.read EXCEPT !.spoiled = TRUE]] \in Reader
  BY <1>3 DEF Reader
<1> QED
  BY <1>2, <1>4

\* What is read of a slot.
LEMMA SlotTypes ==
    ASSUME NEW h \in Host, NEW i \in 1 .. MaxSegments, NEW s \in Slots
    PROVE  SlotSeq(h, i, s) \in Nat /\ \A k \in Words : WordOf(h, i, s, k) \in Value
<1>1. h.segs[i] \in Segment
  BY DEF Host
<1>2. h.segs[i].slots[s] \in [seq : Nat, words : [Words -> Value]]
  BY <1>1 DEF Segment
<1> QED
  BY <1>2 DEF SlotSeq, WordOf

\* The steps of a read, one by one.
Looks(r, new) == Now(r, [reader[r] EXCEPT !.read = new])
Returns(r, got) == Now(r, [reader[r] EXCEPT !.read = NoRead, !.got = got])
\* What a step of a read is: another look at the slot, or a return.
LEMMA ReadSteps ==
    ASSUME NEW r \in Readers, ReadStep(r)
    PROVE  LET i == reader[r].table.at
               read == reader[r].read
               seq == SlotSeq(host, i, read.slot)
           IN  /\ read.at # "idle" /\ UNCHANGED <<host, taken>>
               /\ \/ /\ read.at = "load" /\ seq % 2 = 0
                     /\ Looks(r, [read EXCEPT !.at = "copy", !.seq = seq, !.copy = <<>>,
                                      !.seen = WordOf(host, i, read.slot, 1), !.spoiled = FALSE])
                  \/ /\ read.at = "copy" /\ Len(read.copy) < 2
                     /\ Looks(r, [read EXCEPT !.copy =
                                      Append(@, WordOf(host, i, read.slot, Len(@) + 1))])
                  \/ /\ read.at = "copy" /\ Len(read.copy) = 2 /\ seq = read.seq
                     /\ Returns(r, <<[words |-> read.copy, seen |-> read.seen,
                                      spoiled |-> read.spoiled]>>)
                  \/ Returns(r, <<>>)
                  \/ read.at = "copy" /\ Looks(r, [read EXCEPT !.at = "load"])
  BY Zenon DEF ReadStep, Looks, Returns

\* A step of a read keeps the reader a reader.
LEMMA ReadStepType ==
    ASSUME TypeOK, NEW r \in Readers, ReadStep(r)
    PROVE  \E new \in Reader : Now(r, new) /\ new.table = reader[r].table
<1> DEFINE i == reader[r].table.at
           read == reader[r].read
           seq == SlotSeq(host, i, read.slot)
           v(k) == WordOf(host, i, read.slot, k)
<1>1. reader[r] \in Reader
  BY DEF TypeOK
<1>2. read.at # "idle"
  BY ReadSteps
<1>3. read \in Read
  BY <1>1, <1>2, ReadingTypes
<1>4. i \in 1 .. MaxSegments /\ read.slot \in Slots /\ host \in Host
  <2>1. i \in 0 .. MaxSegments
    BY <1>1 DEF Reader, Table
  <2>2. read # NoRead
    BY <1>2 DEF NoRead
  <2> QED
    BY <1>3, <2>1, <2>2, MdAssumption DEF TypeOK, Read
<1>5. seq \in Nat /\ \A k \in Words : v(k) \in Value
  BY <1>4, SlotTypes
<1>6. ASSUME NEW d \in {NoRead} \cup Read, Looks(r, d)
      PROVE  \E new \in Reader : Now(r, new) /\ new.table = reader[r].table
  <2>1. [reader[r] EXCEPT !.read = d] \in Reader
    BY <1>1 DEF Reader
  <2>2. [reader[r] EXCEPT !.read = d].table = reader[r].table
    BY <1>1 DEF Reader
  <2> QED
    BY <1>6, <2>1, <2>2 DEF Looks
<1>7. ASSUME NEW g \in Seq(Got), Returns(r, g)
      PROVE  \E new \in Reader : Now(r, new) /\ new.table = reader[r].table
  <2>1. [reader[r] EXCEPT !.read = NoRead, !.got = g] \in Reader
    BY <1>1 DEF Reader
  <2>2. [reader[r] EXCEPT !.read = NoRead, !.got = g].table = reader[r].table
    BY <1>1 DEF Reader
  <2> QED
    BY <1>7, <2>1, <2>2 DEF Returns
<1> DEFINE d1 == [read EXCEPT !.at = "copy", !.seq = seq, !.copy = <<>>, !.seen = v(1), !.spoiled = FALSE]
           d2 == [read EXCEPT !.copy = Append(@, WordOf(host, i, read.slot, Len(@) + 1))]
           d3 == [read EXCEPT !.at = "load"]
           g == [words |-> read.copy, seen |-> read.seen, spoiled |-> read.spoiled]
<1>8. d1 \in Read
  BY <1>3, <1>5, EmptySeq DEF Read, Words
<1>9. ASSUME read.at = "copy", Len(read.copy) < 2 PROVE d2 \in Read
  <2>1. read.copy \in Seq(Value) /\ Len(read.copy) + 1 \in Words
    BY <1>3, <1>9, LenProperties DEF Read, Words
  <2>2. Append(read.copy, v(Len(read.copy) + 1)) \in Seq(Value)
    BY <1>5, <2>1, AppendProperties
  <2> QED
    BY <1>3, <2>2 DEF Read
<1>10. d3 \in Read
  BY <1>3 DEF Read
<1>11. g \in Got
  BY <1>3 DEF Read, Got
<1>12. <<>> \in Seq(Got) /\ <<g>> \in Seq(Got)
  BY <1>11, EmptySeq
<1>13. \/ Looks(r, d1)
       \/ read.at = "copy" /\ Len(read.copy) < 2 /\ Looks(r, d2)
       \/ Looks(r, d3) \/ Returns(r, <<>>) \/ Returns(r, <<g>>)
  BY ReadSteps
<1> HIDE DEF d1, d2, d3, g
<1> QED
  BY <1>6, <1>7, <1>8, <1>9, <1>10, <1>12, <1>13

\* The first state has the types.
LEMMA TypeInit == Init => TypeOK
<1> SUFFICES ASSUME Init PROVE TypeOK
  OBVIOUS
<1>1. NewTable \in Table /\ NewHost \in Host
  <2>1. 0 \in 0 .. MaxSegments
    BY MdAssumption
  <2>2. [i \in 1 .. MaxSegments |-> Sized(FALSE)] \in [1 .. MaxSegments -> Segment]
    BY SizedType
  <2> QED
    BY <2>1, <2>2 DEF NewTable, Table, NewHost, Host
<1>2. [table |-> NewTable, read |-> NoRead, got |-> <<>>] \in Reader
  BY <1>1, EmptySeq DEF Reader
<1>3. \A r \in Readers : reader[r] = [table |-> NewTable, read |-> NoRead, got |-> <<>>]
  BY DEF Init
<1>4. reader \in [Readers -> Reader] /\ \A r \in Readers : reader[r].read = NoRead
  BY <1>2, <1>3 DEF Init
<1> QED
  BY <1>1, <1>4, EmptySeq DEF Init, TypeOK, Publishes

\* A start leaves no task, no message and no snapshot of the run before.
LEMMA ClearedTypes ==
    ASSUME Cleared
    PROVE  /\ queues' \in [Workers -> Seq([symbol : Symbols, nr : Nat])]
           /\ books' \in [Books -> Seq(Nat)] /\ accepted' \in [Symbols -> Seq(Nat)]
           /\ pub' \in [Workers -> Publishes] /\ received' \in Nat
  BY EmptySeq DEF Cleared, Publishes

\* Readers whose segment is emptied are still readers.
LEMMA SpoiledTypes ==
    ASSUME TypeOK, NEW i, reader' = Spoiled(i)
    PROVE  /\ reader' \in [Readers -> Reader]
           /\ \A r \in Readers : /\ reader'[r].table = reader[r].table
                                 /\ reader'[r].read # NoRead => reader[r].read # NoRead
<1> SUFFICES ASSUME NEW r \in Readers
             PROVE  /\ reader'[r] \in Reader /\ reader'[r].table = reader[r].table
                    /\ reader'[r].read # NoRead => reader[r].read # NoRead
  BY DEF Spoiled
<1>1. reader[r] \in Reader
  BY DEF TypeOK
<1>2. CASE reader'[r] = reader[r]
  BY <1>1, <1>2
<1>3. CASE reader[r].read.at # "idle" /\ reader'[r] = [reader[r] EXCEPT !.read.spoiled = TRUE]
  <2>1. reader'[r] \in Reader
    BY <1>1, <1>3, ReadingTypes
  <2>2. reader'[r].table = reader[r].table
    BY <1>1, <1>3 DEF Reader
  <2>3. reader[r].read # NoRead
    BY <1>3 DEF NoRead
  <2> QED
    BY <2>1, <2>2, <2>3
<1> QED
  BY <1>2, <1>3 DEF Spoiled

\* The steps that publish, and what they do to the segment.
LEMMA PublishSteps ==
    ASSUME NEW w, Publish(w)
    PROVE  /\ main = "running"
           /\ UNCHANGED <<main, table, queues, books, received, accepted, runs, reader, taken>>
           /\ \/ /\ pub[w].at = "begin" /\ pub' = [pub EXCEPT ![w] = [@ EXCEPT !.at = "first"]]
                 /\ host' = BumpSeq(host, table.at, PubSlot(w))
              \/ /\ pub[w].at = "first" /\ pub' = [pub EXCEPT ![w] = [@ EXCEPT !.at = "second"]]
                 /\ host' = StoreWord(host, table.at, PubSlot(w), 1, Snapshot(pub[w].symbol))
              \/ /\ pub[w].at = "second" /\ pub' = [pub EXCEPT ![w] = [@ EXCEPT !.at = "end"]]
                 /\ host' = StoreWord(host, table.at, PubSlot(w), 2, Snapshot(pub[w].symbol))
              \/ /\ pub[w].at = "end" /\ pub' = [pub EXCEPT ![w] = NoPublish]
                 /\ host' = BumpSeq(host, table.at, PubSlot(w))
  BY DEF Publish, PublishBegin, PublishWord, PublishEnd, Publishing

\* A step of a publication keeps the types.
LEMMA PublishTypes ==
    ASSUME TypeOK, NEW w \in Workers, Publish(w)
    PROVE  TypeOK'
<1>1. /\ pub[w].at \in {"begin"} \cup Marked /\ main = "running" /\ table.at \in 1 .. MaxSegments
      /\ UNCHANGED <<main, table, queues, books, received, accepted, runs, reader, taken>>
  BY PublishSteps, MdAssumption DEF TypeOK, Marked, Table
<1>2. pub[w].symbol \in Books /\ pub[w] \in [at : {"begin"} \cup Marked, symbol : Books]
  <2>1. pub[w] \in Publishes
    BY DEF TypeOK
  <2>2. pub[w] # NoPublish
    BY <1>1 DEF NoPublish, Marked
  <2> QED
    BY <2>1, <2>2 DEF Publishes
<1>3. PubSlot(w) \in Slots /\ Snapshot(pub[w].symbol) \in Value
  <2>1. books[pub[w].symbol] \in Seq(Nat) /\ runs \in Nat
    BY <1>2 DEF TypeOK
  <2> QED
    BY <1>2, <2>1, Routes, LenProperties DEF PubSlot, Snapshot, Value
<1>4. host' \in Host
  <2>1. host \in Host /\ 1 \in Words /\ 2 \in Words
    BY DEF TypeOK, Words
  <2>2. /\ BumpSeq(host, table.at, PubSlot(w)) \in Host
        /\ \A k \in Words, v \in Value : StoreWord(host, table.at, PubSlot(w), k, v) \in Host
    BY <1>1, <1>3, <2>1, StoreTypes
  <2> QED
    BY <1>3, <2>1, <2>2, PublishSteps
<1>5. pub' \in [Workers -> Publishes]
  <2>1. \A a \in {"begin"} \cup Marked : [pub[w] EXCEPT !.at = a] \in Publishes
    BY <1>2 DEF Publishes
  <2>2. NoPublish \in Publishes /\ pub \in [Workers -> Publishes]
    BY DEF Publishes, TypeOK
  <2>3. \E p \in Publishes : pub' = [pub EXCEPT ![w] = p]
    BY <2>1, <2>2, PublishSteps DEF Marked
  <2> QED
    BY <2>2, <2>3
<1> QED
  BY <1>1, <1>4, <1>5 DEF TypeOK

\* The steps of the writer's process keep the types.
LEMMA TypeProcess == ASSUME TypeOK, Process PROVE TypeOK'
<1>1. /\ host \in Host /\ table \in Table /\ table.at \in 0 .. MaxSegments /\ MaxSegments \in Nat
      /\ NewTable \in Table /\ NewTable.at = 0
      /\ main # "off" => table.at \in 1 .. MaxSegments
  BY MdAssumption DEF TypeOK, Table, NewTable
<1>2. CASE Begin
  <2>1. /\ host' = ShmOpenCreate(host) /\ table' = [NewTable EXCEPT !.at = host'.linked, !.named = TRUE]
        /\ reader' = Spoiled(host.linked) /\ main' = "opened" /\ runs' = runs + 1 /\ Cleared /\ taken' = FALSE
        /\ host.linked = 0 => host.used < MaxSegments
    BY <1>2 DEF Begin
  <2>2. host' \in Host /\ host'.linked \in 1 .. MaxSegments
    BY <1>1, <2>1, OpenCreateType
  <2>3. table' \in Table /\ table'.at # 0
    <3>1. \A u \in 0 .. MaxSegments : /\ [NewTable EXCEPT !.at = u, !.named = TRUE] \in Table
                                      /\ [NewTable EXCEPT !.at = u, !.named = TRUE].at = u
      BY DEF Table, NewTable
    <3>2. host'.linked \in 0 .. MaxSegments /\ host'.linked # 0
      BY <1>1, <2>2
    <3> QED
      BY <2>1, <3>1, <3>2
  <2>4. runs' \in Nat
    BY <2>1 DEF TypeOK
  <2>5. /\ reader' \in [Readers -> Reader]
        /\ \A r \in Readers : reader'[r].read # NoRead => reader'[r].table.at # 0
    BY <2>1, SpoiledTypes DEF TypeOK
  <2> QED
    BY <2>1, <2>2, <2>3, <2>4, <2>5, ClearedTypes DEF TypeOK
<1>3. CASE BeginFails
  <2>1. host' \in Host /\ runs' \in Nat
    BY <1>1, <1>3, CloseType DEF BeginFails, TypeOK
  <2> QED
    BY <1>3, <2>1 DEF BeginFails, TypeOK
<1>4. CASE Size
  <2>1. host' \in Host
    <3>1. main = "opened" /\ host' = Ftruncate(host, table.at)
      BY <1>4 DEF Size
    <3> QED
      BY <1>1, <3>1, SizeTypes
  <2> QED
    BY <1>4, <2>1 DEF Size, TypeOK
<1>5. CASE MapTable
  <2>1. host' \in Host /\ reader' = Spoiled(table.at)
    <3>1. main = "sized" /\ host' = Construct(host, table.at) /\ reader' = Spoiled(table.at)
      BY <1>5 DEF MapTable
    <3> QED
      BY <1>1, <3>1, SizeTypes
  <2>2. /\ reader' \in [Readers -> Reader]
        /\ \A r \in Readers : reader'[r].read # NoRead => reader'[r].table.at # 0
    BY <2>1, SpoiledTypes DEF TypeOK
  <2> QED
    BY <1>5, <2>1, <2>2 DEF MapTable, TypeOK
<1>6. CASE OpenReceiver
  BY <1>6 DEF OpenReceiver, TypeOK
<1>7. CASE ReturnFailed
  <2>1. /\ host' = Close(host, table) /\ main' = "off" /\ table' = NewTable /\ Cleared
        /\ UNCHANGED <<runs, reader, taken>>
    BY <1>7 DEF ReturnFailed
  <2>2. host' \in Host
    BY <1>1, <2>1, CloseType
  <2>3. /\ queues' \in [Workers -> Seq([symbol : Symbols, nr : Nat])]
        /\ books' \in [Books -> Seq(Nat)] /\ accepted' \in [Symbols -> Seq(Nat)]
        /\ pub' \in [Workers -> Publishes] /\ received' \in Nat
    BY <2>1, ClearedTypes
  <2> QED
    BY <1>1, <2>1, <2>2, <2>3 DEF TypeOK
<1>8. CASE Kill
  <2>1. /\ main' = "off" /\ table' = NewTable /\ Cleared /\ UNCHANGED <<host, runs, reader, taken>>
    BY <1>8 DEF Kill
  <2>2. /\ queues' \in [Workers -> Seq([symbol : Symbols, nr : Nat])]
        /\ books' \in [Books -> Seq(Nat)] /\ accepted' \in [Symbols -> Seq(Nat)]
        /\ pub' \in [Workers -> Publishes] /\ received' \in Nat
    BY <2>1, ClearedTypes
  <2> QED
    BY <1>1, <2>1, <2>2 DEF TypeOK
<1>9. CASE OnPacket
  <2>1. PICK symbol \in Symbols :
            LET w == WorkerForKey(symbol)
                task == [symbol |-> symbol, nr |-> received + 1]
            IN  \/ /\ queues' = [queues EXCEPT ![w] = Append(@, task)]
                   /\ accepted' = [accepted EXCEPT ![symbol] = Append(@, task.nr)]
                \/ UNCHANGED <<queues, accepted>>
    BY Zenon, <1>9 DEF OnPacket
  <2> DEFINE w == WorkerForKey(symbol)
             task == [symbol |-> symbol, nr |-> received + 1]
  <2>2. received + 1 \in Nat
    BY DEF TypeOK
  <2>3. task \in [symbol : Symbols, nr : Nat] /\ task.nr = received + 1
    BY <2>2
  <2>4. w \in Workers
    BY Routes
  <2>5. queues[w] \in Seq([symbol : Symbols, nr : Nat]) /\ accepted[symbol] \in Seq(Nat)
    BY <2>4 DEF TypeOK
  <2>6. /\ Append(queues[w], task) \in Seq([symbol : Symbols, nr : Nat])
        /\ Append(accepted[symbol], task.nr) \in Seq(Nat)
    BY <2>2, <2>3, <2>5, AppendProperties
  <2> HIDE DEF task, w
  <2>7. /\ queues' \in [Workers -> Seq([symbol : Symbols, nr : Nat])]
        /\ accepted' \in [Symbols -> Seq(Nat)]
    BY <2>1, <2>6 DEF task, w, TypeOK
  <2>8. received' \in Nat /\ UNCHANGED <<host, main, table, books, pub, runs, reader, taken>>
    BY <1>9, <2>2 DEF OnPacket
  <2> QED
    BY <2>7, <2>8 DEF TypeOK
<1>10. ASSUME NEW w \in Workers, ProcessMarketData(w) PROVE TypeOK'
  <2>1. queues[w] \in Seq([symbol : Symbols, nr : Nat]) /\ queues[w] # <<>>
    BY <1>10 DEF ProcessMarketData, TypeOK
  <2>2. /\ Head(queues[w]) \in [symbol : Symbols, nr : Nat]
        /\ Tail(queues[w]) \in Seq([symbol : Symbols, nr : Nat])
    BY <2>1, HeadTailProperties
  <2>3. queues' \in [Workers -> Seq([symbol : Symbols, nr : Nat])]
    BY <1>10, <2>2 DEF ProcessMarketData, TypeOK
  <2> DEFINE task == Head(queues[w])
  <2>4. /\ \/ /\ task.symbol \in Owned(w)
              /\ books' = [books EXCEPT ![task.symbol] = Append(@, task.nr)]
              /\ pub' = [pub EXCEPT ![w] = [at |-> "begin", symbol |-> task.symbol]]
           \/ UNCHANGED <<books, pub>>
        /\ UNCHANGED <<host, main, table, received, accepted, runs, reader, taken>>
    BY <1>10 DEF ProcessMarketData
  <2>5. task.nr \in Nat
    BY <2>2
  <2> HIDE DEF task
  <2>6. ASSUME task.symbol \in Owned(w)
        PROVE  /\ Append(books[task.symbol], task.nr) \in Seq(Nat)
               /\ [at |-> "begin", symbol |-> task.symbol] \in Publishes
    <3>1. task.symbol \in Books
      BY <2>6 DEF Owned
    <3>2. books[task.symbol] \in Seq(Nat)
      BY <3>1 DEF TypeOK
    <3> QED
      BY <2>5, <3>1, <3>2, AppendProperties DEF Publishes
  <2>7. books' \in [Books -> Seq(Nat)] /\ pub' \in [Workers -> Publishes]
    BY <2>4, <2>6 DEF TypeOK
  <2> QED
    BY <2>3, <2>4, <2>7 DEF TypeOK
<1>11. ASSUME NEW w \in Workers, Publish(w) PROVE TypeOK'
  BY <1>11, PublishTypes
<1> QED
  BY <1>2, <1>3, <1>4, <1>5, <1>6, <1>7, <1>8, <1>9, <1>10, <1>11 DEF Process

\* The steps of the readers keep the types.
LEMMA TypeReaders ==
    ASSUME TypeOK, NEW r \in Readers,
           Open(r) \/ CloseTable(r) \/ ReadBegin(r) \/ BusError(r) \/ ReadStep(r)
    PROVE  TypeOK'
<1>1. reader[r] \in Reader /\ host \in Host /\ host.linked \in 0 .. MaxSegments
  BY DEF TypeOK, Host
<1>2. \E new \in Reader : Now(r, new) /\ (new.read # NoRead => new.table.at # 0)
  <2>1. FreshReader \in Reader /\ FreshReader.read = NoRead
    <3>1. NewTable \in Table
      BY MdAssumption DEF NewTable, Table
    <3> QED
      BY <3>1, EmptySeq DEF FreshReader, Reader
  <2>2. CASE Open(r)
    <3>1. reader[r].table \in Table /\ reader[r].read = NoRead
      BY <1>1, <2>2 DEF Open, TypeOK, Reader
    <3>2. OpenFails(reader[r].table) \in Table /\ OpenMaps(reader[r].table, host.linked) \in Table
      BY <1>1, <3>1 DEF OpenFails, OpenMaps, Table
    <3>3. \A t \in Table : /\ [reader[r] EXCEPT !.table = t] \in Reader
                           /\ [reader[r] EXCEPT !.table = t].read = NoRead
      BY <1>1, <3>1 DEF Reader
    <3> QED
      BY <2>2, <3>2, <3>3 DEF Open
  <2>3. CASE CloseTable(r) \/ BusError(r)
    BY <2>1, <2>3 DEF CloseTable, BusError
  <2>4. CASE ReadBegin(r)
    <3>1. PICK s \in Slots, try \in BOOLEAN :
              Now(r, [reader[r] EXCEPT !.got = <<>>,
                  !.read = [at |-> "load", slot |-> s, try |-> try, seq |-> 0, seen |-> Zero,
                            copy |-> <<>>, spoiled |-> FALSE]])
      BY Zenon, <2>4 DEF ReadBegin
    <3> DEFINE d == [at |-> "load", slot |-> s, try |-> try, seq |-> 0, seen |-> Zero,
                     copy |-> <<>>, spoiled |-> FALSE]
    <3>2. d \in Read
      BY EmptySeq DEF Read, Zero, Value
    <3> HIDE DEF d
    <3>3. /\ [reader[r] EXCEPT !.got = <<>>, !.read = d] \in Reader
          /\ [reader[r] EXCEPT !.got = <<>>, !.read = d].table = reader[r].table
      BY <1>1, <3>2, EmptySeq DEF Reader
    <3> QED
      BY <2>4, <3>1, <3>3 DEF d, ReadBegin
  <2>5. CASE ReadStep(r)
    <3>1. reader[r].table.at # 0
      <4>1. reader[r].read.at # "idle"
        BY <2>5, ReadSteps
      <4> QED
        BY <4>1 DEF TypeOK, NoRead
    <3> QED
      BY <2>5, <3>1, ReadStepType
  <2> QED
    BY <2>2, <2>3, <2>4, <2>5
<1>3. PICK new \in Reader : Now(r, new) /\ (new.read # NoRead => new.table.at # 0)
  BY <1>2
<1>4. /\ reader' \in [Readers -> Reader]
      /\ \A q \in Readers : reader'[q].read # NoRead => reader'[q].table.at # 0
  BY <1>3 DEF Now, TypeOK
<1>5. \/ UNCHANGED <<host, taken>>
      \/ host' = Close(host, reader[r].table) /\ taken' = (taken \/ reader[r].table.at = 0)
  BY DEF Open, CloseTable, ReadBegin, BusError, ReadStep
<1>6. host' \in Host /\ taken' \in BOOLEAN
  BY <1>1, <1>5, CloseType DEF TypeOK
<1>7. UNCHANGED process
  BY <1>3 DEF Now
<1> QED
  BY <1>4, <1>6, <1>7 DEF TypeOK, process

\* Every variable has its type: what a process maps is a segment that there is.
THEOREM TypeCorrect == Spec => []TypeOK
<1>1. TypeOK /\ [Next]_vars => TypeOK'
  <2> SUFFICES ASSUME TypeOK, [Next]_vars PROVE TypeOK'
    OBVIOUS
  <2>1. CASE UNCHANGED vars
    BY <2>1 DEF vars, process, TypeOK
  <2> QED
    BY <2>1, TypeProcess, TypeReaders DEF Next, Process
<1> QED
  BY <1>1, TypeInit, PTL DEF Spec

(* ---- what a step does to the slots ------------------------------------- *)

\* No slot changes; a segment is emptied; a number is raised; a word is stored.
SameSlots(h, g) ==
    \A i \in 1 .. MaxSegments, s \in Slots :
        /\ SlotSeq(g, i, s) = SlotSeq(h, i, s)
        /\ \A k \in Words : WordOf(g, i, s, k) = WordOf(h, i, s, k)
Emptied(h, g, i) ==
    \A j \in 1 .. MaxSegments, s \in Slots :
        /\ SlotSeq(g, j, s) = IF j = i THEN 0 ELSE SlotSeq(h, j, s)
        /\ \A k \in Words : WordOf(g, j, s, k) = IF j = i THEN Zero ELSE WordOf(h, j, s, k)
Bumped(h, g, i, s) ==
    \A j \in 1 .. MaxSegments, t \in Slots :
        /\ SlotSeq(g, j, t) = IF j = i /\ t = s THEN SlotSeq(h, j, t) + 1 ELSE SlotSeq(h, j, t)
        /\ \A k \in Words : WordOf(g, j, t, k) = WordOf(h, j, t, k)
Stored(h, g, i, s, k, v) ==
    \A j \in 1 .. MaxSegments, t \in Slots :
        /\ SlotSeq(g, j, t) = SlotSeq(h, j, t)
        /\ \A m \in Words : WordOf(g, j, t, m) =
              IF j = i /\ t = s /\ m = k THEN v ELSE WordOf(h, j, t, m)

\* A segment has its slots, and a slot its words.
LEMMA SegmentOf ==
    ASSUME NEW h \in Host, NEW i \in 1 .. MaxSegments
    PROVE  /\ h.segs \in [1 .. MaxSegments -> Segment] /\ h.segs[i] \in Segment
           /\ h.segs[i].slots \in [Slots -> [seq : Nat, words : [Words -> Value]]]
           /\ \A s \in Slots : h.segs[i].slots[s] \in [seq : Nat, words : [Words -> Value]]
<1>1. h.segs \in [1 .. MaxSegments -> Segment]
  BY DEF Host
<1>2. h.segs[i] \in Segment
  BY <1>1
<1>3. h.segs[i].slots \in [Slots -> [seq : Nat, words : [Words -> Value]]]
  BY <1>2 DEF Segment
<1> QED
  BY <1>1, <1>2, <1>3

\* The slots of a fresh segment.
LEMMA EmptySlots ==
    ASSUME NEW on, NEW s \in Slots
    PROVE  /\ Sized(on).slots[s].seq = 0 /\ \A k \in Words : Sized(on).slots[s].words[k] = Zero
           /\ Sized(on).slots = Sized(TRUE).slots
  BY DEF Sized, EmptySlot

\* Where no segment has changed, no slot has.
LEMMA SameSegments ==
    ASSUME NEW h, NEW g, g.segs = h.segs
    PROVE  SameSlots(h, g)
  BY DEF SameSlots, SlotSeq, WordOf

\* create() empties the segment it finds, or takes the next one.
LEMMA OpenCreateSlots ==
    ASSUME NEW h \in Host
    PROVE  LET g == ShmOpenCreate(h)
           IN  /\ h.linked = 0 => g.segs = h.segs /\ g.linked = h.used + 1 /\ g.used = h.used + 1
               /\ h.linked # 0 => /\ Emptied(h, g, h.linked) /\ g.linked = h.linked /\ g.used = h.used
                                  /\ \A j \in 1 .. MaxSegments : g.segs[j] =
                                        IF j = h.linked THEN Sized(FALSE) ELSE h.segs[j]
<1>1. h.linked = 0 => ShmOpenCreate(h) = [h EXCEPT !.linked = h.used + 1, !.used = h.used + 1]
  BY DEF ShmOpenCreate
<1>2. h.linked = 0 => /\ ShmOpenCreate(h).segs = h.segs
                      /\ ShmOpenCreate(h).linked = h.used + 1 /\ ShmOpenCreate(h).used = h.used + 1
  BY <1>1 DEF Host
<1>3. CASE h.linked # 0
  <2> DEFINE g == ShmOpenCreate(h)
  <2>1. /\ g.segs = [h.segs EXCEPT ![h.linked] = Sized(FALSE)]
        /\ g.linked = h.linked /\ g.used = h.used
    BY <1>3 DEF ShmOpenCreate, Host
  <2> HIDE DEF g
  <2>2. ASSUME NEW j \in 1 .. MaxSegments, NEW s \in Slots
        PROVE  /\ SlotSeq(g, j, s) = IF j = h.linked THEN 0 ELSE SlotSeq(h, j, s)
               /\ \A k \in Words : WordOf(g, j, s, k) = IF j = h.linked THEN Zero ELSE WordOf(h, j, s, k)
    <3>1. g.segs[j] = IF j = h.linked THEN Sized(FALSE) ELSE h.segs[j]
      BY <2>1, SegmentOf
    <3> QED
      BY <3>1, EmptySlots DEF SlotSeq, WordOf
  <2>3. \A j \in 1 .. MaxSegments : g.segs[j] = IF j = h.linked THEN Sized(FALSE) ELSE h.segs[j]
    BY <2>1, SegmentOf
  <2> QED
    BY <1>3, <2>1, <2>2, <2>3 DEF Emptied, g
<1> QED
  BY <1>2, <1>3

\* ftruncate() adds empty slots to a segment that had none, construction empties one.
LEMMA SizeSlots ==
    ASSUME NEW h \in Host, NEW i \in 1 .. MaxSegments
    PROVE  /\ h.segs[i].slots = Sized(FALSE).slots => SameSlots(h, Ftruncate(h, i))
           /\ Emptied(h, Construct(h, i), i)
           /\ \A j \in 1 .. MaxSegments \ {i} : /\ Ftruncate(h, i).segs[j] = h.segs[j]
                                               /\ Construct(h, i).segs[j] = h.segs[j]
           /\ Ftruncate(h, i).linked = h.linked /\ Ftruncate(h, i).used = h.used
           /\ Construct(h, i).linked = h.linked /\ Construct(h, i).used = h.used
<1> DEFINE f == Ftruncate(h, i)
           g == Construct(h, i)
<1>1. /\ f.linked = h.linked /\ f.used = h.used /\ g.linked = h.linked /\ g.used = h.used
      /\ \A j \in 1 .. MaxSegments : f.segs[j] = IF j = i THEN Sized(TRUE) ELSE h.segs[j]
  BY SegmentOf DEF Ftruncate, Construct, Host
<1>2. \A j \in 1 .. MaxSegments : /\ g.segs[j].slots = IF j = i THEN Sized(TRUE).slots ELSE h.segs[j].slots
                                  /\ j # i => g.segs[j] = h.segs[j]
  <2>1. g.segs = [h.segs EXCEPT ![i] = [h.segs[i] EXCEPT !.slots = Sized(TRUE).slots]]
    BY DEF Construct, Host
  <2>2. [h.segs[i] EXCEPT !.slots = Sized(TRUE).slots].slots = Sized(TRUE).slots
    BY SegmentOf DEF Segment
  <2> QED
    BY <2>1, <2>2, SegmentOf
<1> HIDE DEF f, g
<1>3. ASSUME h.segs[i].slots = Sized(FALSE).slots, NEW j \in 1 .. MaxSegments, NEW s \in Slots
      PROVE  /\ SlotSeq(f, j, s) = SlotSeq(h, j, s)
             /\ \A k \in Words : WordOf(f, j, s, k) = WordOf(h, j, s, k)
  BY <1>1, <1>3, EmptySlots DEF SlotSeq, WordOf
<1>4. ASSUME NEW j \in 1 .. MaxSegments, NEW s \in Slots
      PROVE  /\ SlotSeq(g, j, s) = IF j = i THEN 0 ELSE SlotSeq(h, j, s)
             /\ \A k \in Words : WordOf(g, j, s, k) = IF j = i THEN Zero ELSE WordOf(h, j, s, k)
  BY ZenonT(60), <1>2, EmptySlots DEF SlotSeq, WordOf
<1> QED
  BY <1>1, <1>2, <1>3, <1>4 DEF SameSlots, Emptied, f, g

\* publish() writes to its own slot alone.
LEMMA StoreSlots ==
    ASSUME NEW h \in Host, NEW i \in 1 .. MaxSegments, NEW s \in Slots, NEW k \in Words, NEW v
    PROVE  /\ Bumped(h, BumpSeq(h, i, s), i, s) /\ Stored(h, StoreWord(h, i, s, k, v), i, s, k, v)
           /\ \A j \in 1 .. MaxSegments \ {i} : /\ BumpSeq(h, i, s).segs[j] = h.segs[j]
                                               /\ StoreWord(h, i, s, k, v).segs[j] = h.segs[j]
           /\ BumpSeq(h, i, s).linked = h.linked /\ BumpSeq(h, i, s).used = h.used
           /\ StoreWord(h, i, s, k, v).linked = h.linked /\ StoreWord(h, i, s, k, v).used = h.used
<1> DEFINE f == BumpSeq(h, i, s)
           g == StoreWord(h, i, s, k, v)
           old == h.segs[i].slots[s]
<1>1. /\ f.linked = h.linked /\ f.used = h.used /\ f.segs = [h.segs EXCEPT ![i].slots[s].seq = @ + 1]
      /\ g.linked = h.linked /\ g.used = h.used /\ g.segs = [h.segs EXCEPT ![i].slots[s].words[k] = v]
  <2>1. \A x : /\ [h EXCEPT !.segs = x].linked = h.linked /\ [h EXCEPT !.segs = x].used = h.used
               /\ [h EXCEPT !.segs = x].segs = x
    BY DEF Host
  <2>2. /\ f = [h EXCEPT !.segs = [h.segs EXCEPT ![i].slots[s].seq = @ + 1]]
        /\ g = [h EXCEPT !.segs = [h.segs EXCEPT ![i].slots[s].words[k] = v]]
    BY DEF BumpSeq, StoreWord
  <2> HIDE DEF f, g
  <2> QED
    BY <2>1, <2>2
<1>2. \A j \in 1 .. MaxSegments \ {i} : f.segs[j] = h.segs[j] /\ g.segs[j] = h.segs[j]
  BY <1>1, SegmentOf
<1>3. /\ f.segs[i].slots = [h.segs[i].slots EXCEPT ![s] = [old EXCEPT !.seq = old.seq + 1]]
      /\ g.segs[i].slots = [h.segs[i].slots EXCEPT ![s] = [old EXCEPT !.words = [old.words EXCEPT ![k] = v]]]
  <2>1. f.segs[i] = [h.segs[i] EXCEPT !.slots[s].seq = @ + 1]
    BY <1>1, SegmentOf
  <2>2. g.segs[i] = [h.segs[i] EXCEPT !.slots[s].words[k] = v]
    BY <1>1, SegmentOf
  <2>3. \A x : [h.segs[i] EXCEPT !.slots = x].slots = x
    BY SegmentOf DEF Segment
  <2>4. f.segs[i] = [h.segs[i] EXCEPT !.slots =
                        [h.segs[i].slots EXCEPT ![s] = [old EXCEPT !.seq = old.seq + 1]]]
    BY <2>1
  <2>5. g.segs[i] = [h.segs[i] EXCEPT !.slots =
                        [h.segs[i].slots EXCEPT ![s] = [old EXCEPT !.words = [old.words EXCEPT ![k] = v]]]]
    BY <2>2
  <2> HIDE DEF f, g, old
  <2> QED
    BY <2>3, <2>4, <2>5
<1>4. /\ [old EXCEPT !.seq = old.seq + 1].seq = old.seq + 1
      /\ [old EXCEPT !.seq = old.seq + 1].words = old.words
      /\ [old EXCEPT !.words = [old.words EXCEPT ![k] = v]].seq = old.seq
      /\ [old EXCEPT !.words = [old.words EXCEPT ![k] = v]].words = [old.words EXCEPT ![k] = v]
      /\ \A m \in Words : [old.words EXCEPT ![k] = v][m] = IF m = k THEN v ELSE old.words[m]
  BY SegmentOf
<1> HIDE DEF f, g
<1>5. ASSUME NEW j \in 1 .. MaxSegments, NEW t \in Slots
      PROVE  /\ SlotSeq(f, j, t) = IF j = i /\ t = s THEN SlotSeq(h, j, t) + 1 ELSE SlotSeq(h, j, t)
             /\ \A m \in Words : WordOf(f, j, t, m) = WordOf(h, j, t, m)
             /\ SlotSeq(g, j, t) = SlotSeq(h, j, t)
             /\ \A m \in Words : WordOf(g, j, t, m) =
                   IF j = i /\ t = s /\ m = k THEN v ELSE WordOf(h, j, t, m)
  <2>1. CASE j # i
    BY <1>2, <2>1 DEF SlotSeq, WordOf
  <2>2. CASE j = i /\ t # s
    BY ZenonT(60), <1>3, <2>2, SegmentOf DEF SlotSeq, WordOf
  <2>3. CASE j = i /\ t = s
    <3>1. /\ f.segs[i].slots[s] = [old EXCEPT !.seq = old.seq + 1]
          /\ g.segs[i].slots[s] = [old EXCEPT !.words = [old.words EXCEPT ![k] = v]]
      BY <1>3, SegmentOf
    <3> QED
      BY <1>4, <2>3, <3>1 DEF SlotSeq, WordOf
  <2> QED
    BY <2>1, <2>2, <2>3
<1> QED
  BY <1>1, <1>2, <1>5 DEF Bumped, Stored, f, g

\* What main(), the receiver and the workers do to the segments while nobody
\* publishes: nothing a reader sees, or they empty one under its readers.
LEMMA Effects ==
    ASSUME TypeOK, SegmentsInv, Process
    PROVE  \/ SameSlots(host, host') /\ reader' = reader
           \/ \E i \in 1 .. MaxSegments : Emptied(host, host', i) /\ reader' = Spoiled(i)
           \/ \E w \in Workers : Publish(w)
<1>1. /\ host \in Host /\ host.linked \in 0 .. MaxSegments /\ MaxSegments \in Nat
      /\ main # "off" => table.at \in 1 .. MaxSegments
  BY MdAssumption DEF TypeOK, Host, Table
<1>2. CASE Begin
  <2>1. host' = ShmOpenCreate(host) /\ reader' = Spoiled(host.linked)
    BY <1>2 DEF Begin
  <2>2. CASE host.linked # 0
    <3>1. host.linked \in 1 .. MaxSegments
      BY <1>1, <2>2
    <3>2. Emptied(host, ShmOpenCreate(host), host.linked)
      BY ONLY <1>1, <2>2, OpenCreateSlots
    <3> QED
      BY <2>1, <3>1, <3>2
  <2>3. CASE host.linked = 0
    <3>1. ShmOpenCreate(host).segs = host.segs
      BY ONLY <1>1, <2>3, OpenCreateSlots
    <3>2. SameSlots(host, host')
      BY <2>1, <3>1, SameSegments
    <3>3. \A r \in Readers : reader[r].table.at = 0 => reader[r].read.at = "idle"
      BY DEF TypeOK, NoRead
    <3>4. reader' = reader
      BY <2>1, <2>3, <3>3 DEF Spoiled, TypeOK
    <3> QED
      BY <3>2, <3>4
  <2> QED
    BY <2>2, <2>3
<1>3. CASE Size
  <2>1. main = "opened" /\ host' = Ftruncate(host, table.at) /\ reader' = reader
    BY <1>3 DEF Size
  <2>2. host.segs[table.at].slots = Sized(FALSE).slots
    BY <2>1 DEF SegmentsInv
  <2> QED
    BY <1>1, <2>1, <2>2, SizeSlots
<1>4. CASE MapTable
  <2>1. main = "sized" /\ host' = Construct(host, table.at) /\ reader' = Spoiled(table.at)
    BY <1>4 DEF MapTable
  <2> QED
    BY <1>1, <2>1, SizeSlots
<1>5. CASE BeginFails \/ ReturnFailed
  <2>1. host'.segs = host.segs /\ reader' = reader
    BY <1>1, <1>5 DEF BeginFails, ReturnFailed, Close, Host
  <2> QED
    BY <2>1, SameSegments
<1>6. CASE OpenReceiver \/ Kill \/ OnPacket \/ \E w \in Workers : ProcessMarketData(w)
  <2>1. host' = host /\ reader' = reader
    BY <1>6 DEF OpenReceiver, Kill, OnPacket, ProcessMarketData
  <2> QED
    BY <2>1, SameSegments
<1> QED
  BY <1>2, <1>3, <1>4, <1>5, <1>6 DEF Process

\* A reader's step writes no segment.
LEMMA ReaderEffects ==
    ASSUME TypeOK, NEW r \in Readers,
           Open(r) \/ CloseTable(r) \/ ReadBegin(r) \/ BusError(r) \/ ReadStep(r)
    PROVE  /\ UNCHANGED process
           /\ host'.segs = host.segs /\ host'.used = host.used /\ host'.linked \in {0, host.linked}
           /\ SameSlots(host, host')
           /\ \A q \in Readers \ {r} : reader'[q] = reader[q]
<1>1. host \in Host /\ reader \in [Readers -> Reader]
  BY DEF TypeOK
<1>2. \E new : Now(r, new)
  <2>1. CASE ReadStep(r)
    BY <2>1, ReadStepType
  <2>2. CASE ReadBegin(r)
    BY Zenon, <2>2 DEF ReadBegin
  <2> QED
    BY <2>1, <2>2 DEF Open, CloseTable, BusError
<1>3. UNCHANGED process /\ \A q \in Readers \ {r} : reader'[q] = reader[q]
  BY <1>1, <1>2 DEF Now
<1>4. host' = host \/ host' = Close(host, reader[r].table)
  BY DEF Open, CloseTable, ReadBegin, BusError, ReadStep
<1>5. host'.segs = host.segs /\ host'.used = host.used /\ host'.linked \in {0, host.linked}
  BY <1>1, <1>4 DEF Close, Host
<1> QED
  BY <1>3, <1>5, SameSegments

\* The worker of a publication writes the slot of its own symbol.
LEMMA PublishesIts ==
    ASSUME TypeOK, PublishesInv, NEW w \in Workers, pub[w] # NoPublish
    PROVE  /\ pub[w].symbol \in Owned(w) /\ pub[w].symbol \in Books /\ PubSlot(w) = pub[w].symbol
           /\ PubSlot(w) \in Slots /\ main = "running" /\ table.at \in 1 .. MaxSegments
           /\ pub[w] \in [at : {"begin"} \cup Marked, symbol : Books]
<1>1. pub[w].symbol \in Owned(w) /\ main = "running"
  BY DEF PublishesInv
<1>2. pub[w].symbol \in Books
  BY <1>1 DEF Owned
<1>3. table.at \in 1 .. MaxSegments
  BY <1>1, MdAssumption DEF TypeOK, Table
<1>4. pub[w] \in [at : {"begin"} \cup Marked, symbol : Books]
  BY DEF TypeOK, Publishes
<1> QED
  BY <1>1, <1>2, <1>3, <1>4, Routes DEF PubSlot

\* A step of a publication is a step on the slot of its own book.
LEMMA PublishEffects ==
    ASSUME TypeOK, PublishesInv, NEW w \in Workers, Publish(w)
    PROVE  LET b == pub[w].symbol
           IN  /\ b \in Owned(w) /\ b \in Books /\ b \in Slots /\ PubSlot(w) = b /\ main = "running"
               /\ pub[w] # NoPublish /\ table.at \in 1 .. MaxSegments
               /\ host'.linked = host.linked /\ host'.used = host.used
               /\ \A j \in 1 .. MaxSegments \ {table.at} : host'.segs[j] = host.segs[j]
               /\ UNCHANGED <<main, table, queues, books, received, accepted, runs, reader, taken>>
               /\ \A x \in Workers \ {w} : pub'[x] = pub[x]
               /\ \/ /\ pub[w].at = "begin" /\ pub'[w].at = "first" /\ pub'[w].symbol = b
                     /\ Bumped(host, host', table.at, b)
                  \/ /\ pub[w].at = "first" /\ pub'[w].at = "second" /\ pub'[w].symbol = b
                     /\ Stored(host, host', table.at, b, 1, Snapshot(b))
                  \/ /\ pub[w].at = "second" /\ pub'[w].at = "end" /\ pub'[w].symbol = b
                     /\ Stored(host, host', table.at, b, 2, Snapshot(b))
                  \/ /\ pub[w].at = "end" /\ pub'[w] = NoPublish
                     /\ Bumped(host, host', table.at, b)
<1> DEFINE b == pub[w].symbol
           i == table.at
<1>1. pub[w].at # "idle" /\ pub[w] # NoPublish
  BY PublishSteps DEF NoPublish
<1>2. /\ b \in Owned(w) /\ b \in Books /\ PubSlot(w) = b /\ b \in Slots /\ main = "running"
      /\ i \in 1 .. MaxSegments /\ pub[w] \in [at : {"begin"} \cup Marked, symbol : Books]
  BY <1>1, PublishesIts
<1>3. host \in Host /\ pub \in [Workers -> Publishes] /\ 1 \in Words /\ 2 \in Words
  BY DEF TypeOK, Words
<1>4. /\ Bumped(host, BumpSeq(host, i, b), i, b)
      /\ BumpSeq(host, i, b).linked = host.linked /\ BumpSeq(host, i, b).used = host.used
      /\ \A j \in 1 .. MaxSegments \ {i} : BumpSeq(host, i, b).segs[j] = host.segs[j]
  BY ONLY ZenonT(60), <1>2, <1>3, StoreSlots
<1>5. ASSUME NEW k \in Words, NEW v
      PROVE  LET g == StoreWord(host, i, b, k, v)
             IN  /\ Stored(host, g, i, b, k, v) /\ g.linked = host.linked /\ g.used = host.used
                 /\ \A j \in 1 .. MaxSegments \ {i} : g.segs[j] = host.segs[j]
  BY ONLY <1>2, <1>3, <1>5, StoreSlots
<1>6. \A a : [pub[w] EXCEPT !.at = a].at = a /\ [pub[w] EXCEPT !.at = a].symbol = b
  BY <1>2
<1>7. \A p : LET q == [pub EXCEPT ![w] = p] IN q[w] = p /\ \A x \in Workers \ {w} : q[x] = pub[x]
  BY <1>3
<1>8. /\ UNCHANGED <<main, table, queues, books, received, accepted, runs, reader, taken>>
      /\ \/ /\ pub[w].at = "begin" /\ pub' = [pub EXCEPT ![w] = [pub[w] EXCEPT !.at = "first"]]
            /\ host' = BumpSeq(host, i, b)
         \/ /\ pub[w].at = "first" /\ pub' = [pub EXCEPT ![w] = [pub[w] EXCEPT !.at = "second"]]
            /\ host' = StoreWord(host, i, b, 1, Snapshot(b))
         \/ /\ pub[w].at = "second" /\ pub' = [pub EXCEPT ![w] = [pub[w] EXCEPT !.at = "end"]]
            /\ host' = StoreWord(host, i, b, 2, Snapshot(b))
         \/ /\ pub[w].at = "end" /\ pub' = [pub EXCEPT ![w] = NoPublish]
            /\ host' = BumpSeq(host, i, b)
  BY <1>2, PublishSteps
<1> HIDE DEF b, i
<1>9. CASE /\ pub[w].at = "begin" /\ pub' = [pub EXCEPT ![w] = [pub[w] EXCEPT !.at = "first"]]
           /\ host' = BumpSeq(host, i, b)
  BY <1>1, <1>2, <1>4, <1>6, <1>7, <1>8, <1>9 DEF b, i
<1>10. CASE /\ pub[w].at = "first" /\ pub' = [pub EXCEPT ![w] = [pub[w] EXCEPT !.at = "second"]]
            /\ host' = StoreWord(host, i, b, 1, Snapshot(b))
  BY <1>1, <1>2, <1>3, <1>5, <1>6, <1>7, <1>8, <1>10 DEF b, i
<1>11. CASE /\ pub[w].at = "second" /\ pub' = [pub EXCEPT ![w] = [pub[w] EXCEPT !.at = "end"]]
            /\ host' = StoreWord(host, i, b, 2, Snapshot(b))
  BY <1>1, <1>2, <1>3, <1>5, <1>6, <1>7, <1>8, <1>11 DEF b, i
<1>12. CASE /\ pub[w].at = "end" /\ pub' = [pub EXCEPT ![w] = NoPublish]
            /\ host' = BumpSeq(host, i, b)
  BY <1>1, <1>2, <1>4, <1>7, <1>8, <1>12 DEF b, i
<1> QED
  BY <1>8, <1>9, <1>10, <1>11, <1>12

(* ---- the writer's part --------------------------------------------------- *)

\* Every step keeps the segments in order.
LEMMA SegmentsStep ==
    ASSUME TypeOK, SegmentsInv, PublishesInv, [Next]_vars
    PROVE  SegmentsInv'
<1>1. /\ host \in Host /\ host.linked \in 0 .. MaxSegments /\ host.used \in 0 .. MaxSegments
      /\ MaxSegments \in Nat /\ table.at \in 0 .. MaxSegments
      /\ main # "off" => table.at \in 1 .. MaxSegments
  BY MdAssumption DEF TypeOK, Host, Table
<1>2. /\ host.linked <= host.used /\ table.at <= host.used
      /\ \A i \in 1 .. MaxSegments : i > host.used => host.segs[i] = Sized(FALSE)
      /\ main = "opened" => host.segs[table.at].slots = Sized(FALSE).slots
  BY DEF SegmentsInv
<1>3. CASE Begin
  <2>1. /\ host' = ShmOpenCreate(host) /\ table'.at = host'.linked /\ main' = "opened"
        /\ host.linked = 0 => host.used < MaxSegments
    BY <1>3 DEF Begin, NewTable
  <2>2. CASE host.linked # 0
    <3>1. host.linked \in 1 .. MaxSegments
      BY <1>1, <2>2
    <3>2. /\ host'.linked = host.linked /\ host'.used = host.used
          /\ \A j \in 1 .. MaxSegments : host'.segs[j] = IF j = host.linked THEN Sized(FALSE) ELSE host.segs[j]
      BY ONLY <1>1, <2>1, <2>2, OpenCreateSlots
    <3>3. host'.linked <= host'.used /\ table'.at <= host'.used
      BY <1>1, <1>2, <2>1, <3>1, <3>2
    <3>4. \A i \in 1 .. MaxSegments : i > host'.used => host'.segs[i] = Sized(FALSE)
      <4> SUFFICES ASSUME NEW j \in 1 .. MaxSegments, j > host'.used PROVE host'.segs[j] = Sized(FALSE)
        OBVIOUS
      <4>1. host'.segs[j] = Sized(FALSE) \/ host'.segs[j] = host.segs[j]
        BY <3>2
      <4>2. host.segs[j] = Sized(FALSE)
        BY <1>2, <3>2
      <4> QED
        BY <4>1, <4>2
    <3>5. main' = "opened" => host'.segs[table'.at].slots = Sized(FALSE).slots
      <4>1. host'.segs[table'.at] = Sized(FALSE)
        BY <2>1, <3>1, <3>2
      <4> QED
        BY <4>1
    <3> QED
      BY <3>3, <3>4, <3>5 DEF SegmentsInv
  <2>3. CASE host.linked = 0
    <3>1. host'.segs = host.segs /\ host'.linked = host.used + 1 /\ host'.used = host.used + 1
      BY ONLY <1>1, <2>1, <2>3, OpenCreateSlots
    <3>2. host.used + 1 \in 1 .. MaxSegments
      BY <1>1, <2>1, <2>3
    <3>3. host'.linked <= host'.used /\ table'.at <= host'.used
      BY <1>1, <1>2, <2>1, <3>1, <3>2
    <3>4. \A i \in 1 .. MaxSegments : i > host'.used => host'.segs[i] = Sized(FALSE)
      <4> SUFFICES ASSUME NEW j \in 1 .. MaxSegments, j > host'.used PROVE host.segs[j] = Sized(FALSE)
        BY <3>1
      <4>1. j > host.used
        BY <1>1, <3>1
      <4> QED
        BY <1>2, <4>1
    <3>5. main' = "opened" => host'.segs[table'.at].slots = Sized(FALSE).slots
      <4>1. host.used + 1 > host.used
        BY <1>1
      <4>2. host.segs[host.used + 1] = Sized(FALSE)
        BY <1>2, <3>2, <4>1
      <4>3. host'.segs[table'.at] = host.segs[host.used + 1]
        BY <2>1, <3>1
      <4> QED
        BY <4>2, <4>3
    <3> QED
      BY <3>3, <3>4, <3>5 DEF SegmentsInv
  <2> QED
    BY <2>2, <2>3
<1>4. CASE BeginFails \/ ReturnFailed
  <2>1. /\ host'.segs = host.segs /\ host'.used = host.used /\ host'.linked \in {0, host.linked}
    BY <1>1, <1>4 DEF BeginFails, ReturnFailed, Close, Host
  <2>2. main' = "off" /\ table'.at \in {0, table.at}
    BY <1>4 DEF BeginFails, ReturnFailed, NewTable
  <2>3. host'.linked <= host'.used /\ table'.at <= host'.used
    BY <1>1, <1>2, <2>1, <2>2
  <2>4. \A i \in 1 .. MaxSegments : i > host'.used => host'.segs[i] = Sized(FALSE)
    BY <1>1, <1>2, <2>1, <2>2
  <2>5. main' = "opened" => host'.segs[table'.at].slots = Sized(FALSE).slots
    BY <1>1, <1>2, <2>1, <2>2
  <2> QED
    BY <2>3, <2>4, <2>5 DEF SegmentsInv
<1>5. CASE Size \/ MapTable
  <2>1. /\ main' # "opened" /\ table' = table /\ table.at \in 1 .. MaxSegments
        /\ host' = Ftruncate(host, table.at) \/ host' = Construct(host, table.at)
    BY <1>1, <1>5 DEF Size, MapTable
  <2>2. /\ host'.linked = host.linked /\ host'.used = host.used
        /\ \A j \in 1 .. MaxSegments \ {table.at} : host'.segs[j] = host.segs[j]
    <3>1. LET f == Ftruncate(host, table.at)
              g == Construct(host, table.at)
          IN  /\ f.linked = host.linked /\ f.used = host.used
              /\ g.linked = host.linked /\ g.used = host.used
              /\ \A j \in 1 .. MaxSegments \ {table.at} : f.segs[j] = host.segs[j] /\ g.segs[j] = host.segs[j]
      BY ONLY <1>1, <2>1, SizeSlots
    <3> QED
      BY <2>1, <3>1
  <2>3. host'.linked <= host'.used /\ table'.at <= host'.used
    BY <1>1, <1>2, <2>1, <2>2
  <2>4. \A i \in 1 .. MaxSegments : i > host'.used => host'.segs[i] = Sized(FALSE)
    <3> SUFFICES ASSUME NEW j \in 1 .. MaxSegments, j > host'.used PROVE host'.segs[j] = Sized(FALSE)
      OBVIOUS
    <3>1. j > host.used /\ j # table.at
      BY <1>1, <1>2, <2>1, <2>2
    <3> QED
      BY <1>1, <1>2, <2>1, <2>2, <3>1
  <2>5. main' = "opened" => host'.segs[table'.at].slots = Sized(FALSE).slots
    BY <1>1, <1>2, <2>1, <2>2
  <2> QED
    BY <2>3, <2>4, <2>5 DEF SegmentsInv
<1>6. CASE \/ OpenReceiver \/ Kill \/ OnPacket \/ (\E w \in Workers : ProcessMarketData(w))
           \/ UNCHANGED vars
  <2>1. host' = host /\ table'.at \in {0, table.at} /\ (main' = "opened" => main = "opened" /\ table' = table)
    BY <1>6 DEF OpenReceiver, Kill, OnPacket, ProcessMarketData, vars, process, NewTable
  <2>2. host'.linked <= host'.used /\ table'.at <= host'.used
    BY <1>1, <1>2, <2>1
  <2>3. \A i \in 1 .. MaxSegments : i > host'.used => host'.segs[i] = Sized(FALSE)
    BY <1>1, <1>2, <2>1
  <2>4. main' = "opened" => host'.segs[table'.at].slots = Sized(FALSE).slots
    BY <1>1, <1>2, <2>1
  <2> QED
    BY <2>2, <2>3, <2>4 DEF SegmentsInv
<1>7. ASSUME NEW w \in Workers, Publish(w)
      PROVE  SegmentsInv'
  <2>1. /\ host'.linked = host.linked /\ host'.used = host.used /\ main' = "running" /\ table' = table
        /\ \A j \in 1 .. MaxSegments \ {table.at} : host'.segs[j] = host.segs[j]
    BY <1>7, PublishEffects
  <2>2. host'.linked <= host'.used /\ table'.at <= host'.used
    BY <1>1, <1>2, <2>1
  <2>3. \A i \in 1 .. MaxSegments : i > host'.used => host'.segs[i] = Sized(FALSE)
    <3> SUFFICES ASSUME NEW j \in 1 .. MaxSegments, j > host'.used PROVE host'.segs[j] = Sized(FALSE)
      OBVIOUS
    <3>1. j > host.used /\ j # table.at
      BY <1>1, <1>2, <2>1
    <3> QED
      BY <1>1, <1>2, <2>1, <3>1
  <2>4. main' = "opened" => host'.segs[table'.at].slots = Sized(FALSE).slots
    BY <1>1, <1>2, <2>1
  <2> QED
    BY <2>2, <2>3, <2>4 DEF SegmentsInv
<1>8. ASSUME NEW r \in Readers,
             Open(r) \/ CloseTable(r) \/ ReadBegin(r) \/ BusError(r) \/ ReadStep(r)
      PROVE  SegmentsInv'
  <2>1. /\ UNCHANGED <<main, table>> /\ host'.segs = host.segs /\ host'.used = host.used
        /\ host'.linked \in {0, host.linked}
    BY <1>8, ReaderEffects DEF process
  <2>2. host'.linked <= host'.used /\ table'.at <= host'.used
    BY <1>1, <1>2, <2>1
  <2>3. \A i \in 1 .. MaxSegments : i > host'.used => host'.segs[i] = Sized(FALSE)
    BY <1>1, <1>2, <2>1
  <2>4. main' = "opened" => host'.segs[table'.at].slots = Sized(FALSE).slots
    BY <1>1, <1>2, <2>1
  <2> QED
    BY <2>2, <2>3, <2>4 DEF SegmentsInv
<1> QED
  BY <1>3, <1>4, <1>5, <1>6, <1>7, <1>8 DEF Next

\* Two workers publish no slot between them.
LEMMA OwnersDiffer ==
    ASSUME NEW w \in Workers, NEW x \in Workers, w # x
    PROVE  Owned(w) \cap Owned(x) = {}
  BY DEF Owned

\* A publication leaves the slots of every segment as they are to be.
LEMMA PublishSlots ==
    ASSUME TypeOK, SlotsInv, PublishesInv, NEW w \in Workers, Publish(w)
    PROVE  SlotsInv' /\ PublishesInv'
<1> DEFINE b == pub[w].symbol
           i == table.at
<1>1. /\ b \in Owned(w) /\ b \in Books /\ b \in Slots /\ PubSlot(w) = b /\ main = "running"
      /\ pub[w] # NoPublish /\ i \in 1 .. MaxSegments
      /\ UNCHANGED <<main, table, queues, books, received, accepted, runs, reader, taken>>
      /\ \A x \in Workers \ {w} : pub'[x] = pub[x]
      /\ \/ /\ pub[w].at = "begin" /\ pub'[w].at = "first" /\ pub'[w].symbol = b
            /\ Bumped(host, host', i, b)
         \/ /\ pub[w].at = "first" /\ pub'[w].at = "second" /\ pub'[w].symbol = b
            /\ Stored(host, host', i, b, 1, Snapshot(b))
         \/ /\ pub[w].at = "second" /\ pub'[w].at = "end" /\ pub'[w].symbol = b
            /\ Stored(host, host', i, b, 2, Snapshot(b))
         \/ /\ pub[w].at = "end" /\ pub'[w] = NoPublish
            /\ Bumped(host, host', i, b)
  BY PublishEffects
<1>2. /\ \A j \in 1 .. MaxSegments, s \in Slots :
            SlotSeq(host, j, s) \in Nat /\ \A k \in Words : WordOf(host, j, s, k) \in Value
      /\ 1 \in Words /\ 2 \in Words
  <2>1. host \in Host
    BY DEF TypeOK
  <2> QED
    BY <2>1, SlotTypes DEF Words
<1>3. /\ SlotSeq(host, i, b) % 2 = 1 <=> pub[w].at \in Marked
      /\ pub[w].at \in {"second", "end"} => WordOf(host, i, b, 1) = Snapshot(b)
      /\ pub[w].at = "end" => WordOf(host, i, b, 2) = Snapshot(b)
  BY <1>1 DEF SlotsInv, PublishesInv, MarkedBy
<1>4. \A j \in 1 .. MaxSegments, s \in Slots :
          SlotSeq(host, j, s) % 2 = 0 => WordOf(host, j, s, 1) = WordOf(host, j, s, 2)
  BY DEF SlotsInv
<1>5. \A c : Snapshot(c)' = Snapshot(c)
  BY <1>1 DEF Snapshot
<1> HIDE DEF b, i
<1>6. \A j \in 1 .. MaxSegments, s \in Slots : ~(j = i /\ s = b) =>
          /\ SlotSeq(host', j, s) = SlotSeq(host, j, s)
          /\ \A k \in Words : WordOf(host', j, s, k) = WordOf(host, j, s, k)
  BY <1>1 DEF Bumped, Stored
<1>7. /\ SlotSeq(host', i, b) % 2 = 1 <=> (pub'[w].at \in Marked /\ pub'[w].symbol = b)
      /\ SlotSeq(host', i, b) % 2 = 0 => WordOf(host', i, b, 1) = WordOf(host', i, b, 2)
      /\ pub'[w] # NoPublish => /\ pub'[w].symbol = b
                                /\ pub'[w].at \in {"second", "end"} => WordOf(host', i, b, 1) = Snapshot(b)
                                /\ pub'[w].at = "end" => WordOf(host', i, b, 2) = Snapshot(b)
  <2>1. CASE /\ pub[w].at = "begin" /\ pub'[w].at = "first" /\ pub'[w].symbol = b
             /\ Bumped(host, host', i, b)
    <3>1. SlotSeq(host', i, b) = SlotSeq(host, i, b) + 1
      BY <1>1, <2>1 DEF Bumped
    <3>2. SlotSeq(host', i, b) % 2 = 1
      BY <1>1, <1>2, <1>3, <2>1, <3>1 DEF Marked
    <3> QED
      BY <1>1, <2>1, <3>2 DEF MarkedBy, Marked
  <2>2. CASE /\ pub[w].at = "first" /\ pub'[w].at = "second" /\ pub'[w].symbol = b
             /\ Stored(host, host', i, b, 1, Snapshot(b))
    <3>1. SlotSeq(host', i, b) = SlotSeq(host, i, b) /\ WordOf(host', i, b, 1) = Snapshot(b)
      BY <1>1, <1>2, <2>2 DEF Stored
    <3>2. SlotSeq(host', i, b) % 2 = 1
      BY <1>3, <2>2, <3>1 DEF Marked
    <3> QED
      BY <1>1, <2>2, <3>1, <3>2 DEF MarkedBy, Marked
  <2>3. CASE /\ pub[w].at = "second" /\ pub'[w].at = "end" /\ pub'[w].symbol = b
             /\ Stored(host, host', i, b, 2, Snapshot(b))
    <3>1. /\ SlotSeq(host', i, b) = SlotSeq(host, i, b) /\ WordOf(host', i, b, 2) = Snapshot(b)
          /\ WordOf(host', i, b, 1) = Snapshot(b)
      BY <1>1, <1>2, <1>3, <2>3 DEF Stored
    <3>2. SlotSeq(host', i, b) % 2 = 1
      BY <1>3, <2>3, <3>1 DEF Marked
    <3> QED
      BY <1>1, <2>3, <3>1, <3>2 DEF MarkedBy, Marked
  <2>4. CASE /\ pub[w].at = "end" /\ pub'[w] = NoPublish
             /\ Bumped(host, host', i, b)
    <3>1. /\ SlotSeq(host', i, b) = SlotSeq(host, i, b) + 1
          /\ WordOf(host', i, b, 1) = WordOf(host, i, b, 1)
          /\ WordOf(host', i, b, 2) = WordOf(host, i, b, 2)
      BY <1>1, <1>2, <2>4 DEF Bumped
    <3>2. SlotSeq(host', i, b) % 2 = 0
      BY <1>1, <1>2, <1>3, <2>4, <3>1 DEF Marked
    <3>3. pub'[w].at \notin Marked
      BY <2>4 DEF Marked, NoPublish
    <3> QED
      BY <1>3, <2>4, <3>1, <3>2, <3>3
  <2> QED
    BY <1>1, <2>1, <2>2, <2>3, <2>4 DEF b, i
<1>8. \A j \in 1 .. MaxSegments, s \in Slots :
          SlotSeq(host', j, s) % 2 = 0 => WordOf(host', j, s, 1) = WordOf(host', j, s, 2)
  BY <1>2, <1>4, <1>6, <1>7
<1>9. \A x \in Workers : \A c \in Owned(x) :
          SlotSeq(host', i, c) % 2 = 1 <=> MarkedBy(x, c)'
  <2> SUFFICES ASSUME NEW x \in Workers, NEW c \in Owned(x)
               PROVE  SlotSeq(host', i, c) % 2 = 1 <=> MarkedBy(x, c)'
    OBVIOUS
  <2>1. c \in Slots /\ c \in Books
    BY Routes DEF Owned
  <2>2. SlotSeq(host, i, c) % 2 = 1 <=> MarkedBy(x, c)
    BY <1>1 DEF SlotsInv, i
  <2>3. CASE x = w /\ c = b
    BY <1>7, <2>3 DEF MarkedBy
  <2>4. CASE c # b
    <3>1. SlotSeq(host', i, c) = SlotSeq(host, i, c)
      BY <1>1, <1>6, <2>1, <2>4 DEF i
    <3>2. MarkedBy(x, c)' <=> MarkedBy(x, c)
      <4>1. CASE x = w
        <5>1. ~MarkedBy(x, c)
          BY <2>4, <4>1 DEF MarkedBy, b
        <5>2. ~MarkedBy(x, c)'
          BY <1>7, <2>4, <4>1 DEF MarkedBy, Marked, NoPublish
        <5> QED
          BY <5>1, <5>2
      <4>2. CASE x # w
        BY <1>1, <4>2 DEF MarkedBy
      <4> QED
        BY <4>1, <4>2
    <3> QED
      BY <2>2, <3>1, <3>2
  <2>5. CASE x # w /\ c = b
    BY <1>1, <2>5, OwnersDiffer DEF b
  <2> QED
    BY <2>3, <2>4, <2>5
<1>10. SlotsInv'
  <2>1. main' = "running" /\ table' = table
    BY <1>1
  <2> QED
    BY <1>8, <1>9, <2>1 DEF SlotsInv, i
<1>11. PublishesInv'
  <2> SUFFICES ASSUME NEW x \in Workers, pub'[x] # NoPublish
               PROVE  /\ main' = "running" /\ pub'[x].symbol \in Owned(x)
                      /\ pub'[x].at \in {"second", "end"} =>
                            WordOf(host', i, SlotOf(pub'[x].symbol), 1) = Snapshot(pub'[x].symbol)
                      /\ pub'[x].at = "end" =>
                            WordOf(host', i, SlotOf(pub'[x].symbol), 2) = Snapshot(pub'[x].symbol)
    BY <1>1, <1>5 DEF PublishesInv, i, PubSlot
  <2>1. CASE x = w
    <3>1. SlotOf(b) = b
      BY <1>1, Routes DEF b
    <3> QED
      BY <1>1, <1>7, <2>1, <3>1 DEF b
  <2>2. CASE x # w
    <3> DEFINE c == pub[x].symbol
    <3>1. pub'[x] = pub[x] /\ pub[x] # NoPublish
      BY <1>1, <2>2
    <3>2. /\ c \in Owned(x) /\ c \in Books /\ PubSlot(x) = c /\ PubSlot(x) \in Slots
      BY <3>1, PublishesIts
    <3>3. /\ pub[x].at \in {"second", "end"} => WordOf(host, i, PubSlot(x), 1) = Snapshot(c)
          /\ pub[x].at = "end" => WordOf(host, i, PubSlot(x), 2) = Snapshot(c)
      BY <3>1 DEF PublishesInv, i
    <3>4. c # b
      BY <1>1, <2>2, <3>2, OwnersDiffer DEF b
    <3> HIDE DEF c
    <3>5. \A k \in Words : WordOf(host', i, c, k) = WordOf(host, i, c, k)
      BY <1>1, <1>6, <3>2, <3>4 DEF i
    <3>6. SlotOf(c) = c
      BY <3>2, Routes
    <3> QED
      BY <1>1, <1>2, <3>1, <3>2, <3>3, <3>5, <3>6 DEF c
  <2> QED
    BY <2>1, <2>2
<1> QED
  BY <1>10, <1>11

\* Every step keeps the slots of the writer in order.
LEMMA SlotsStep ==
    ASSUME TypeOK, SegmentsInv, SlotsInv, PublishesInv, [Next]_vars
    PROVE  SlotsInv' /\ PublishesInv'
<1>1. /\ \A i \in 1 .. MaxSegments, s \in Slots :
            SlotSeq(host, i, s) % 2 = 0 => WordOf(host, i, s, 1) = WordOf(host, i, s, 2)
      /\ main = "created" => \A s \in Slots : SlotSeq(host, table.at, s) % 2 = 0
      /\ main = "running" => \A w \in Workers : \A b \in Owned(w) :
            SlotSeq(host, table.at, b) % 2 = 1 <=> MarkedBy(w, b)
  BY DEF SlotsInv
<1>2. /\ 1 \in Words /\ 2 \in Words /\ host \in Host /\ pub \in [Workers -> Publishes]
      /\ main # "off" => table.at \in 1 .. MaxSegments
  BY MdAssumption DEF Words, TypeOK, Table
<1>3. ASSUME \/ SameSlots(host, host')
             \/ \E i \in 1 .. MaxSegments : Emptied(host, host', i)
      PROVE  \A i \in 1 .. MaxSegments, s \in Slots :
                SlotSeq(host', i, s) % 2 = 0 => WordOf(host', i, s, 1) = WordOf(host', i, s, 2)
  <2>1. CASE SameSlots(host, host')
    BY <1>1, <1>2, <2>1 DEF SameSlots
  <2>2. ASSUME NEW i \in 1 .. MaxSegments, Emptied(host, host', i)
        PROVE  \A j \in 1 .. MaxSegments, s \in Slots :
                  SlotSeq(host', j, s) % 2 = 0 => WordOf(host', j, s, 1) = WordOf(host', j, s, 2)
    BY <1>1, <1>2, <2>2 DEF Emptied
  <2> QED
    BY <1>3, <2>1, <2>2
<1>4. main # "running" => \A w \in Workers : pub[w] = NoPublish
  BY DEF PublishesInv
<1>5. ASSUME main' \notin {"created", "running"}, \A w \in Workers : pub'[w] = NoPublish,
             \/ SameSlots(host, host')
             \/ \E i \in 1 .. MaxSegments : Emptied(host, host', i)
      PROVE  SlotsInv' /\ PublishesInv'
  BY <1>3, <1>5 DEF SlotsInv, PublishesInv
<1>6. CASE Begin \/ ReturnFailed \/ Kill
  <2>1. main' \in {"off", "opened"} /\ \A w \in Workers : pub'[w] = NoPublish
    BY <1>6 DEF Begin, ReturnFailed, Kill, Cleared
  <2>2. ~ \E w \in Workers : Publish(w)
    BY <2>1, PublishSteps
  <2> QED
    BY <1>5, <1>6, <2>1, <2>2, Effects DEF Process
<1>7. CASE BeginFails \/ Size
  <2>1. main' \in {"off", "sized"} /\ main # "running" /\ pub' = pub
    BY <1>7 DEF BeginFails, Size
  <2>2. ~ \E w \in Workers : Publish(w)
    BY <2>1, PublishSteps
  <2> QED
    BY <1>4, <1>5, <1>7, <2>1, <2>2, Effects DEF Process
<1>8. CASE MapTable
  <2>1. /\ main' = "created" /\ main = "sized" /\ pub' = pub /\ table' = table
        /\ host' = Construct(host, table.at)
    BY <1>8 DEF MapTable
  <2>2. Emptied(host, Construct(host, table.at), table.at)
    BY ONLY <1>2, <2>1, SizeSlots
  <2>3. Emptied(host, host', table.at) /\ table.at \in 1 .. MaxSegments
    BY <1>2, <2>1, <2>2
  <2>4. \A s \in Slots : SlotSeq(host', table.at, s) % 2 = 0
    <3>1. \A s \in Slots : SlotSeq(host', table.at, s) = 0
      BY <2>3 DEF Emptied
    <3> QED
      BY <3>1
  <2> QED
    BY <1>3, <1>4, <2>1, <2>3, <2>4 DEF SlotsInv, PublishesInv
<1>9. CASE OpenReceiver
  <2>1. main' = "running" /\ main = "created" /\ UNCHANGED <<host, table, pub>>
    BY <1>9 DEF OpenReceiver
  <2>2. \A w \in Workers : \A b \in Owned(w) :
           SlotSeq(host', table.at, b) % 2 = 0 /\ ~MarkedBy(w, b)'
    BY <1>1, <1>4, <2>1, Routes DEF Owned, MarkedBy, Marked, NoPublish
  <2>3. \A w \in Workers : \A b \in Owned(w) :
           SlotSeq(host', table.at, b) % 2 = 1 <=> MarkedBy(w, b)'
    BY <2>2
  <2> QED
    BY <1>1, <1>4, <2>1, <2>3 DEF SlotsInv, PublishesInv
<1>10. CASE OnPacket \/ UNCHANGED vars
  <2>1. UNCHANGED <<host, main, table, pub, books, runs>>
    BY <1>10 DEF OnPacket, vars, process
  <2> QED
    BY <2>1 DEF SlotsInv, PublishesInv, PubSlot, Snapshot, MarkedBy
<1>11. ASSUME NEW w \in Workers, ProcessMarketData(w)
       PROVE  SlotsInv' /\ PublishesInv'
  <2>1. /\ UNCHANGED <<host, main, table, runs>> /\ main = "running" /\ pub[w] = NoPublish
        /\ \/ \E b \in Owned(w) : \E n :
                 /\ books' = [books EXCEPT ![b] = Append(@, n)]
                 /\ pub' = [pub EXCEPT ![w] = [at |-> "begin", symbol |-> b]]
           \/ UNCHANGED <<books, pub>>
    BY <1>11 DEF ProcessMarketData
  <2>2. CASE UNCHANGED <<books, pub>>
    BY <2>1, <2>2 DEF SlotsInv, PublishesInv, PubSlot, Snapshot, MarkedBy
  <2>3. ASSUME NEW b \in Owned(w), NEW n,
               books' = [books EXCEPT ![b] = Append(@, n)],
               pub' = [pub EXCEPT ![w] = [at |-> "begin", symbol |-> b]]
        PROVE  SlotsInv' /\ PublishesInv'
    <3>1. pub'[w].at = "begin" /\ pub'[w].symbol = b /\ \A x \in Workers \ {w} : pub'[x] = pub[x]
      BY <1>2, <2>3
    <3>2. \A x \in Workers : \A c : MarkedBy(x, c)' <=> MarkedBy(x, c)
      BY <2>1, <3>1 DEF MarkedBy, Marked, NoPublish
    <3>3. SlotsInv'
      BY <1>1, <2>1, <3>2 DEF SlotsInv
    <3>4. ASSUME NEW x \in Workers, x # w, pub[x] # NoPublish
          PROVE  Snapshot(pub[x].symbol)' = Snapshot(pub[x].symbol)
      <4>1. pub[x].symbol \in Owned(x) /\ pub[x].symbol \in Books
        BY <3>4, PublishesIts
      <4>2. pub[x].symbol # b
        BY <3>4, <4>1, OwnersDiffer
      <4>3. books'[pub[x].symbol] = books[pub[x].symbol] /\ books \in [Books -> Seq(Nat)]
        BY <2>3, <4>1, <4>2 DEF TypeOK
      <4> QED
        BY <2>1, <3>1, <3>4, <4>3 DEF Snapshot
    <3>5. PublishesInv'
      <4> SUFFICES ASSUME NEW x \in Workers, pub'[x] # NoPublish
                   PROVE  /\ main' = "running" /\ pub'[x].symbol \in Owned(x)
                          /\ pub'[x].at \in {"second", "end"} =>
                                WordOf(host', table'.at, SlotOf(pub'[x].symbol), 1) = Snapshot(pub[x].symbol)'
                          /\ pub'[x].at = "end" =>
                                WordOf(host', table'.at, SlotOf(pub'[x].symbol), 2) = Snapshot(pub[x].symbol)'
        BY DEF PublishesInv, PubSlot
      <4>1. CASE x = w
        BY <2>1, <3>1, <4>1
      <4>2. CASE x # w
        <5>1. pub'[x] = pub[x] /\ pub[x] # NoPublish
          BY <3>1, <4>2
        <5>2. /\ pub[x].symbol \in Owned(x)
              /\ pub[x].at \in {"second", "end"} =>
                    WordOf(host, table.at, SlotOf(pub[x].symbol), 1) = Snapshot(pub[x].symbol)
              /\ pub[x].at = "end" =>
                    WordOf(host, table.at, SlotOf(pub[x].symbol), 2) = Snapshot(pub[x].symbol)
          BY <5>1 DEF PublishesInv, PubSlot
        <5>3. Snapshot(pub[x].symbol)' = Snapshot(pub[x].symbol)
          BY <3>4, <4>2, <5>1
        <5> QED
          BY <2>1, <5>1, <5>2, <5>3
      <4> QED
        BY <4>1, <4>2
    <3> QED
      BY <3>3, <3>5
  <2> QED
    BY <2>1, <2>2, <2>3
<1>12. ASSUME NEW r \in Readers,
              Open(r) \/ CloseTable(r) \/ ReadBegin(r) \/ BusError(r) \/ ReadStep(r)
       PROVE  SlotsInv' /\ PublishesInv'
  <2>1. SameSlots(host, host') /\ UNCHANGED <<main, table, pub, books, runs>>
    BY <1>12, ReaderEffects DEF process
  <2>2. SlotsInv'
    <3>1. main = "created" => \A s \in Slots : SlotSeq(host', table.at, s) % 2 = 0
      BY <1>1, <1>2, <2>1 DEF SameSlots
    <3>2. main = "running" => \A w \in Workers : \A b \in Owned(w) :
             SlotSeq(host', table.at, b) % 2 = 1 <=> MarkedBy(w, b)'
      BY <1>1, <1>2, <2>1, Routes DEF SameSlots, Owned, MarkedBy
    <3> QED
      BY <1>3, <2>1, <3>1, <3>2 DEF SlotsInv
  <2>3. PublishesInv'
    <3> SUFFICES ASSUME NEW w \in Workers, pub[w] # NoPublish
                 PROVE  /\ main = "running" /\ pub[w].symbol \in Owned(w)
                        /\ pub[w].at \in {"second", "end"} =>
                              WordOf(host', table.at, PubSlot(w), 1) = Snapshot(pub[w].symbol)
                        /\ pub[w].at = "end" =>
                              WordOf(host', table.at, PubSlot(w), 2) = Snapshot(pub[w].symbol)
      BY <2>1 DEF PublishesInv, PubSlot, Snapshot
    <3>1. PubSlot(w) \in Slots /\ table.at \in 1 .. MaxSegments
      BY PublishesIts
    <3>2. \A k \in Words : WordOf(host', table.at, PubSlot(w), k) = WordOf(host, table.at, PubSlot(w), k)
      BY <2>1, <3>1 DEF SameSlots
    <3> QED
      BY <1>2, <3>2 DEF PublishesInv
  <2> QED
    BY <2>2, <2>3
<1>13. ASSUME NEW w \in Workers, Publish(w)
       PROVE  SlotsInv' /\ PublishesInv'
  BY <1>13, PublishSlots
<1> QED
  BY <1>6, <1>7, <1>8, <1>9, <1>10, <1>11, <1>12, <1>13 DEF Next

(* ---- the readers' part --------------------------------------------------- *)

\* What a read that returned a value returned.
GotOK(x) == x.got # <<>> => (~x.got[1].spoiled => \A k \in Words : x.got[1].words[k] = x.got[1].seen)

\* A reader that is copying has a slot of a segment.
LEMMA CopyPlace ==
    ASSUME TypeOK, NEW r \in Readers, reader[r].read.at # "idle"
    PROVE  /\ reader[r] \in Reader /\ reader[r].read \in Read /\ reader[r].read.slot \in Slots
           /\ reader[r].table.at \in 1 .. MaxSegments
           /\ reader[r].read.seq \in Nat
           /\ SlotSeq(host, reader[r].table.at, reader[r].read.slot) \in Nat
<1>1. reader[r] \in Reader /\ host \in Host
  BY DEF TypeOK
<1>2. reader[r].read \in Read
  BY <1>1, ReadingTypes
<1>3. reader[r].table.at # 0
  <2>1. reader[r].read # NoRead
    BY DEF NoRead
  <2> QED
    BY <2>1 DEF TypeOK
<1>4. reader[r].table.at \in 1 .. MaxSegments
  BY <1>1, <1>3, MdAssumption DEF Reader, Table
<1>5. reader[r].read.slot \in Slots /\ reader[r].read.seq \in Nat
  BY <1>2 DEF Read
<1> QED
  BY <1>1, <1>2, <1>4, <1>5, SlotTypes

\* A copy in progress is as good as before, if the slot is.
LEMMA CopyKept ==
    ASSUME NEW h, NEW g, SameSlots(h, g), NEW x, CopyOK(h, x),
           x.read.at = "copy" => x.table.at \in 1 .. MaxSegments /\ x.read.slot \in Slots
    PROVE  CopyOK(g, x)
<1>1. 1 \in Words
  BY DEF Words
<1> QED
  BY <1>1 DEF SameSlots, CopyOK

\* An emptied segment spoils the reads that are on it, and touches no other.
LEMMA SpoiledCopies ==
    ASSUME TypeOK, CopiesInv, NEW i \in 1 .. MaxSegments, Emptied(host, host', i),
           reader' = Spoiled(i), NEW r \in Readers
    PROVE  CopyOK(host', reader'[r]) /\ reader'[r].got = reader[r].got
<1>1. reader[r] \in Reader /\ CopyOK(host, reader[r]) /\ 1 \in Words
  BY DEF TypeOK, CopiesInv, Words
<1>2. CASE reader[r].table.at = i /\ reader[r].read.at # "idle"
  <2>1. reader'[r] = [reader[r] EXCEPT !.read = [reader[r].read EXCEPT !.spoiled = TRUE]]
    BY <1>2 DEF Spoiled
  <2>2. reader[r].read \in Read
    BY <1>1, <1>2, ReadingTypes
  <2>3. [reader[r].read EXCEPT !.spoiled = TRUE].spoiled
    BY <2>2 DEF Read
  <2>4. \A d : [reader[r] EXCEPT !.read = d].read = d /\ [reader[r] EXCEPT !.read = d].got = reader[r].got
    BY <1>1 DEF Reader
  <2>5. reader'[r].read.spoiled /\ reader'[r].got = reader[r].got
    BY <2>1, <2>3, <2>4
  <2> QED
    BY <2>5 DEF CopyOK
<1>3. CASE reader[r].read.at = "idle"
  <2>1. reader'[r] = reader[r]
    BY <1>3 DEF Spoiled
  <2> QED
    BY <1>3, <2>1 DEF CopyOK
<1>4. CASE reader[r].table.at # i /\ reader[r].read.at # "idle"
  <2>1. reader'[r] = reader[r]
    BY <1>4 DEF Spoiled
  <2>2. reader[r].table.at \in 1 .. MaxSegments /\ reader[r].read.slot \in Slots
    BY <1>4, CopyPlace
  <2> QED
    BY <1>1, <1>4, <2>1, <2>2 DEF CopyOK, Emptied
<1> QED
  BY <1>2, <1>3, <1>4

\* A writer that touches the slot makes the number another than the copy's, or
\* has done so before.
LEMMA PublishCopies ==
    ASSUME TypeOK, SlotsInv, PublishesInv, CopiesInv, NEW w \in Workers, Publish(w), NEW r \in Readers
    PROVE  CopyOK(host', reader[r])
<1> DEFINE b == pub[w].symbol
           i == table.at
           x == reader[r]
           old == SlotSeq(host, x.table.at, x.read.slot)
           new == SlotSeq(host', x.table.at, x.read.slot)
<1>1. /\ b \in Owned(w) /\ b \in Slots /\ main = "running" /\ i \in 1 .. MaxSegments
      /\ \/ pub[w].at \in {"begin", "end"} /\ Bumped(host, host', i, b)
         \/ pub[w].at \in {"first", "second"} /\ \E k \in Words : \E v : Stored(host, host', i, b, k, v)
  <2>1. 1 \in Words /\ 2 \in Words
    BY DEF Words
  <2> QED
    BY <2>1, PublishEffects
<1>2. CopyOK(host, x) /\ 1 \in Words
  BY DEF CopiesInv, Words
<1> SUFFICES ASSUME x.read.at = "copy", ~x.read.spoiled
             PROVE  CopyOK(host', x)
  BY DEF CopyOK
<1>3. /\ x.table.at \in 1 .. MaxSegments /\ x.read.slot \in Slots /\ x.read.seq \in Nat /\ old \in Nat
  BY CopyPlace
<1>4. x.read.seq % 2 = 0 /\ x.read.seq <= old /\ Len(x.read.copy) <= 2
  BY <1>2 DEF CopyOK
<1> HIDE DEF b, i, x
<1>5. CASE ~(x.table.at = i /\ x.read.slot = b)
  <2>1. /\ new = old
        /\ \A k \in Words : WordOf(host', x.table.at, x.read.slot, k) = WordOf(host, x.table.at, x.read.slot, k)
    BY <1>1, <1>3, <1>5 DEF Bumped, Stored
  <2> QED
    BY <1>2, <2>1 DEF CopyOK
<1>6. CASE x.table.at = i /\ x.read.slot = b /\ Bumped(host, host', i, b)
  <2>1. new = old + 1
    BY <1>1, <1>6 DEF Bumped
  <2>2. x.read.seq <= new /\ new # x.read.seq
    BY <1>3, <1>4, <2>1
  <2> QED
    BY <1>4, <2>2 DEF CopyOK
<1>7. CASE /\ x.table.at = i /\ x.read.slot = b /\ pub[w].at \in {"first", "second"}
           /\ \E k \in Words : \E v : Stored(host, host', i, b, k, v)
  <2>1. new = old
    BY <1>1, <1>7 DEF Stored
  <2>2. old % 2 = 1
    <3>1. SlotSeq(host, i, b) % 2 = 1 <=> MarkedBy(w, b)
      BY <1>1 DEF SlotsInv, i
    <3>2. MarkedBy(w, b)
      BY <1>7 DEF MarkedBy, Marked, b
    <3> QED
      BY <1>7, <3>1, <3>2
  <2>3. new # x.read.seq /\ x.read.seq <= new
    BY <1>4, <2>1, <2>2
  <2> QED
    BY <1>4, <2>3 DEF CopyOK
<1> QED
  BY <1>1, <1>5, <1>6, <1>7

\* The steps of a read keep the copy what was seen.
LEMMA ReadStepCopies ==
    ASSUME TypeOK, SlotsInv, CopiesInv, NEW r \in Readers, GotOK(reader[r]), ReadStep(r)
    PROVE  CopyOK(host, reader'[r]) /\ GotOK(reader'[r])
<1> DEFINE i == reader[r].table.at
           read == reader[r].read
           seq == SlotSeq(host, i, read.slot)
           v(k) == WordOf(host, i, read.slot, k)
           d1 == [read EXCEPT !.at = "copy", !.seq = seq, !.copy = <<>>, !.seen = v(1), !.spoiled = FALSE]
           d2 == [read EXCEPT !.copy = Append(read.copy, v(Len(read.copy) + 1))]
           d3 == [read EXCEPT !.at = "load"]
           g == [words |-> read.copy, seen |-> read.seen, spoiled |-> read.spoiled]
<1>1. /\ read.at # "idle"
      /\ \/ read.at = "load" /\ seq % 2 = 0 /\ Looks(r, d1)
         \/ read.at = "copy" /\ Len(read.copy) < 2 /\ Looks(r, d2)
         \/ read.at = "copy" /\ Len(read.copy) = 2 /\ seq = read.seq /\ Returns(r, <<g>>)
         \/ Returns(r, <<>>)
         \/ Looks(r, d3)
  BY ReadSteps
<1>2. /\ reader[r] \in Reader /\ read \in Read /\ read.slot \in Slots /\ i \in 1 .. MaxSegments
      /\ seq \in Nat /\ read.copy \in Seq(Value)
  BY <1>1, CopyPlace DEF Read
<1>3. seq % 2 = 0 => v(1) = v(2)
  BY <1>2 DEF SlotsInv
<1>4. /\ read.at = "copy" /\ ~read.spoiled =>
            /\ read.seq % 2 = 0 /\ read.seq <= seq /\ Len(read.copy) <= 2
            /\ seq = read.seq => v(1) = read.seen /\ \A k \in 1 .. Len(read.copy) : read.copy[k] = read.seen
  BY DEF CopiesInv, CopyOK
<1>5. ASSUME NEW d, Looks(r, d)
      PROVE  reader'[r].read = d /\ reader'[r].table.at = i /\ reader'[r].got = reader[r].got
  <2>1. \A e : LET x == [reader[r] EXCEPT !.read = e]
               IN  x.read = e /\ x.table = reader[r].table /\ x.got = reader[r].got
    BY <1>2 DEF Reader
  <2>2. reader'[r] = [reader[r] EXCEPT !.read = d]
    BY <1>5 DEF Looks, Now, TypeOK
  <2> QED
    BY <2>1, <2>2
<1>6. ASSUME NEW e, Returns(r, e)
      PROVE  reader'[r].read = NoRead /\ reader'[r].got = e
  <2>1. \A f : LET x == [reader[r] EXCEPT !.read = NoRead, !.got = f]
               IN  x.read = NoRead /\ x.got = f
    BY <1>2 DEF Reader
  <2>2. reader'[r] = [reader[r] EXCEPT !.read = NoRead, !.got = e]
    BY <1>6 DEF Returns, Now, TypeOK
  <2> QED
    BY <2>1, <2>2
<1>7. /\ d1.at = "copy" /\ d1.seq = seq /\ d1.copy = <<>> /\ d1.seen = v(1) /\ d1.slot = read.slot
      /\ d2.at = read.at /\ d2.seq = read.seq /\ d2.copy = Append(read.copy, v(Len(read.copy) + 1))
      /\ d2.seen = read.seen /\ d2.slot = read.slot /\ d2.spoiled = read.spoiled
      /\ d3.at = "load"
      /\ g.words = read.copy /\ g.seen = read.seen /\ g.spoiled = read.spoiled
  BY <1>2 DEF Read
<1> HIDE DEF d1, d2, d3, g, i, read, seq
<1>8. CASE read.at = "load" /\ seq % 2 = 0 /\ Looks(r, d1)
  <2>1. reader'[r].read = d1 /\ reader'[r].table.at = i /\ reader'[r].got = reader[r].got
    BY <1>5, <1>8
  <2>2. CopyOK(host, reader'[r])
    <3>1. Len(d1.copy) = 0
      BY <1>7
    <3>2. SlotSeq(host, i, d1.slot) = seq /\ WordOf(host, i, d1.slot, 1) = d1.seen
      BY <1>7 DEF seq
    <3> QED
      BY <1>2, <1>7, <1>8, <2>1, <3>1, <3>2 DEF CopyOK
  <2> QED
    BY <2>1, <2>2 DEF GotOK
<1>9. CASE read.at = "copy" /\ Len(read.copy) < 2 /\ Looks(r, d2)
  <2>1. reader'[r].read = d2 /\ reader'[r].table.at = i /\ reader'[r].got = reader[r].got
    BY <1>5, <1>9
  <2>2. /\ Len(read.copy) \in Nat /\ Len(d2.copy) = Len(read.copy) + 1
        /\ \A k \in 1 .. Len(d2.copy) :
              d2.copy[k] = IF k = Len(read.copy) + 1 THEN v(Len(read.copy) + 1) ELSE read.copy[k]
    <3>1. v(Len(read.copy) + 1) \in Value
      <4>1. Len(read.copy) + 1 \in Words /\ host \in Host
        BY <1>2, <1>9, LenProperties DEF Words, TypeOK
      <4> QED
        BY <1>2, <4>1, SlotTypes
    <3> QED
      BY <1>2, <1>7, <3>1, AppendProperties, LenProperties
  <2>3. ASSUME ~read.spoiled
        PROVE  /\ read.seq % 2 = 0 /\ read.seq <= seq /\ Len(d2.copy) <= 2
               /\ seq = read.seq => v(1) = read.seen /\ \A k \in 1 .. Len(d2.copy) : d2.copy[k] = read.seen
    <3>1. /\ read.seq % 2 = 0 /\ read.seq <= seq
          /\ seq = read.seq => v(1) = read.seen /\ \A k \in 1 .. Len(read.copy) : read.copy[k] = read.seen
      BY <1>4, <1>9, <2>3
    <3>2. seq = read.seq => v(2) = read.seen
      BY <1>3, <3>1
    <3>3. Len(read.copy) + 1 \in {1, 2}
      BY <1>9, <2>2
    <3>4. seq = read.seq => \A k \in 1 .. Len(d2.copy) : d2.copy[k] = read.seen
      BY <2>2, <3>1, <3>2, <3>3
    <3> QED
      BY <2>2, <3>1, <3>3, <3>4
  <2>4. CopyOK(host, reader'[r])
    BY <1>7, <2>1, <2>3 DEF CopyOK, seq
  <2> QED
    BY <2>1, <2>4 DEF GotOK
<1>10. CASE read.at = "copy" /\ Len(read.copy) = 2 /\ seq = read.seq /\ Returns(r, <<g>>)
  <2>1. reader'[r].read = NoRead /\ reader'[r].got = <<g>>
    BY <1>6, <1>10
  <2>2. ~g.spoiled => \A k \in Words : g.words[k] = g.seen
    BY <1>4, <1>7, <1>10 DEF Words
  <2>3. <<g>>[1] = g
    OBVIOUS
  <2> QED
    BY <2>1, <2>2, <2>3 DEF CopyOK, GotOK, NoRead
<1>11. CASE Returns(r, <<>>)
  <2>1. reader'[r].read = NoRead /\ reader'[r].got = <<>>
    BY <1>6, <1>11
  <2> QED
    BY <2>1 DEF CopyOK, GotOK, NoRead
<1>12. CASE Looks(r, d3)
  <2>1. reader'[r].read = d3 /\ reader'[r].got = reader[r].got
    BY <1>5, <1>12
  <2> QED
    BY <1>7, <2>1 DEF CopyOK, GotOK
<1> QED
  BY <1>1, <1>8, <1>9, <1>10, <1>11, <1>12

\* Any step of a reader.
LEMMA ReaderCopies ==
    ASSUME TypeOK, SlotsInv, CopiesInv, NEW r \in Readers, GotOK(reader[r]),
           Open(r) \/ CloseTable(r) \/ ReadBegin(r) \/ BusError(r) \/ ReadStep(r)
    PROVE  CopyOK(host, reader'[r]) /\ GotOK(reader'[r])
<1>1. reader[r] \in Reader /\ reader \in [Readers -> Reader]
  BY DEF TypeOK
<1>2. ASSUME NEW new, Now(r, new)
      PROVE  reader'[r] = new
  BY <1>1, <1>2 DEF Now
<1>3. CASE Open(r)
  <2>1. reader[r].read.at = "idle"
    BY <1>3 DEF Open, TypeOK, NoRead
  <2>2. PICK t : Now(r, [reader[r] EXCEPT !.table = t])
    BY <1>3 DEF Open
  <2>3. reader'[r] = [reader[r] EXCEPT !.table = t]
    BY <1>2, <2>2
  <2>4. reader'[r].read = reader[r].read /\ reader'[r].got = reader[r].got
    BY <1>1, <2>3 DEF Reader
  <2> QED
    BY <2>1, <2>4 DEF CopyOK, GotOK
<1>4. CASE CloseTable(r) \/ BusError(r)
  <2>1. reader'[r] = FreshReader
    BY <1>2, <1>4 DEF CloseTable, BusError
  <2> QED
    BY <2>1 DEF CopyOK, GotOK, FreshReader, NoRead
<1>5. CASE ReadBegin(r)
  <2>1. PICK d : d.at = "load" /\ Now(r, [reader[r] EXCEPT !.got = <<>>, !.read = d])
    <3>1. PICK s \in Slots, try \in BOOLEAN :
              Now(r, [reader[r] EXCEPT !.got = <<>>,
                  !.read = [at |-> "load", slot |-> s, try |-> try, seq |-> 0, seen |-> Zero,
                            copy |-> <<>>, spoiled |-> FALSE]])
      BY Zenon, <1>5 DEF ReadBegin
    <3>2. [at |-> "load", slot |-> s, try |-> try, seq |-> 0, seen |-> Zero,
           copy |-> <<>>, spoiled |-> FALSE].at = "load"
      OBVIOUS
    <3> QED
      BY Zenon, <3>1, <3>2
  <2>2. reader'[r] = [reader[r] EXCEPT !.got = <<>>, !.read = d]
    BY <1>2, <2>1
  <2>3. reader'[r].read = d /\ reader'[r].got = <<>>
    BY <1>1, <2>2 DEF Reader
  <2> QED
    BY <2>1, <2>3 DEF CopyOK, GotOK
<1>6. CASE ReadStep(r)
  BY <1>6, ReadStepCopies
<1> QED
  BY <1>3, <1>4, <1>5, <1>6

\* Every step keeps the copies.
LEMMA CopiesStep ==
    ASSUME TypeOK, SegmentsInv, SlotsInv, PublishesInv, CopiesInv,
           \A r \in Readers : GotOK(reader[r]), [Next]_vars
    PROVE  CopiesInv' /\ \A r \in Readers : GotOK(reader'[r])
<1>1. SUFFICES ASSUME NEW r \in Readers
               PROVE  CopyOK(host', reader'[r]) /\ GotOK(reader'[r])
  BY DEF CopiesInv
<1>2. ASSUME SameSlots(host, host'), NEW q \in Readers
      PROVE  CopyOK(host', reader[q])
  <2>1. reader[q].read.at = "copy" => reader[q].table.at \in 1 .. MaxSegments /\ reader[q].read.slot \in Slots
    BY CopyPlace
  <2> QED
    BY <1>2, <2>1, CopyKept DEF CopiesInv
<1>3. CASE Process
  <2>1. CASE SameSlots(host, host') /\ reader' = reader
    BY <1>2, <2>1
  <2>2. ASSUME NEW i \in 1 .. MaxSegments, Emptied(host, host', i), reader' = Spoiled(i)
        PROVE  CopyOK(host', reader'[r]) /\ GotOK(reader'[r])
    BY <2>2, SpoiledCopies DEF GotOK
  <2>3. ASSUME NEW w \in Workers, Publish(w)
        PROVE  CopyOK(host', reader'[r]) /\ GotOK(reader'[r])
    <3>1. reader' = reader
      BY <2>3, PublishSteps
    <3> QED
      BY <2>3, <3>1, PublishCopies
  <2> QED
    BY <1>3, <2>1, <2>2, <2>3, Effects
<1>4. ASSUME NEW q \in Readers,
             Open(q) \/ CloseTable(q) \/ ReadBegin(q) \/ BusError(q) \/ ReadStep(q)
      PROVE  CopyOK(host', reader'[r]) /\ GotOK(reader'[r])
  <2>1. SameSlots(host, host') /\ \A x \in Readers \ {q} : reader'[x] = reader[x]
    BY <1>4, ReaderEffects
  <2>2. CASE r # q
    BY <1>2, <2>1, <2>2
  <2>3. CASE r = q
    <3>1. CopyOK(host, reader'[r]) /\ GotOK(reader'[r])
      BY <1>4, <2>3, ReaderCopies
    <3>2. reader'[r].read.at = "copy" => reader'[r].table.at \in 1 .. MaxSegments /\ reader'[r].read.slot \in Slots
      <4>1. TypeOK'
        BY <1>4, TypeReaders
      <4>2. reader'[r] \in Reader
        BY <4>1 DEF TypeOK
      <4>3. SUFFICES ASSUME reader'[r].read.at = "copy"
                     PROVE  reader'[r].table.at \in 1 .. MaxSegments /\ reader'[r].read.slot \in Slots
        OBVIOUS
      <4>4. reader'[r].read \in Read
        <5>1. reader'[r].read.at # "idle"
          BY <4>3
        <5>2. \A x \in Reader : x.read.at # "idle" => x.read \in Read
          BY ReadingTypes
        <5> QED
          BY <4>2, <5>1, <5>2
      <4>5. reader'[r].read # NoRead
        BY <4>3 DEF NoRead
      <4>6. reader'[r].table.at # 0
        BY <4>1, <4>5 DEF TypeOK
      <4>7. reader'[r].table.at \in 0 .. MaxSegments
        BY <4>2 DEF Reader, Table
      <4>8. reader'[r].read.slot \in Slots
        BY <4>4 DEF Read
      <4> QED
        BY <4>6, <4>7, <4>8, MdAssumption
    <3> QED
      BY <2>1, <3>1, <3>2, CopyKept
  <2> QED
    BY <2>2, <2>3
<1>5. CASE UNCHANGED vars
  BY <1>5 DEF vars, process, CopiesInv
<1> QED
  BY <1>3, <1>4, <1>5 DEF Next, Process

\* What a read returns is one snapshot, across kills and restarts of the writer.
THEOREM SnapshotInvariant == Spec => []SnapshotInv
<1>1. ReadIsOneSnapshot <=> \A r \in Readers : GotOK(reader[r])
  BY DEF ReadIsOneSnapshot, GotOK
<1>2. ReadIsOneSnapshot' <=> \A r \in Readers : GotOK(reader'[r])
  BY DEF ReadIsOneSnapshot, GotOK
<1>3. Init => SnapshotInv
  <2> SUFFICES ASSUME Init PROVE SnapshotInv
    OBVIOUS
  <2>1. \A i \in 1 .. MaxSegments : host.segs[i] = Sized(FALSE)
    BY DEF Init, NewHost
  <2>2. SegmentsInv
    BY <2>1 DEF Init, SegmentsInv, NewHost, NewTable
  <2>3. SlotsInv
    <3>1. \A i \in 1 .. MaxSegments, s \in Slots : \A k \in Words : WordOf(host, i, s, k) = Zero
      <4>1. SUFFICES ASSUME NEW i \in 1 .. MaxSegments, NEW s \in Slots, NEW k \in Words
                     PROVE  WordOf(host, i, s, k) = Zero
        OBVIOUS
      <4>2. Sized(FALSE).slots[s].words[k] = Zero
        BY EmptySlots
      <4> QED
        BY <2>1, <4>2 DEF WordOf
    <3> QED
      BY <3>1 DEF SlotsInv, Init, Words
  <2>4. PublishesInv
    BY DEF Init, PublishesInv
  <2>5. \A r \in Readers : CopyOK(host, reader[r]) /\ GotOK(reader[r])
    BY DEF Init, CopyOK, GotOK, NoRead
  <2> QED
    BY <1>1, <2>2, <2>3, <2>4, <2>5 DEF SnapshotInv, CopiesInv
<1>4. TypeOK /\ SnapshotInv /\ [Next]_vars => SnapshotInv'
  BY <1>1, <1>2, SegmentsStep, SlotsStep, CopiesStep DEF SnapshotInv
<1> QED
  BY <1>3, <1>4, TypeCorrect, PTL DEF Spec

\* A read returns one snapshot, unless its segment was emptied meanwhile.
THEOREM ReadsAreSnapshots == Spec => []ReadIsOneSnapshot
<1>1. SnapshotInv => ReadIsOneSnapshot
  BY DEF SnapshotInv
<1> QED
  BY <1>1, SnapshotInvariant, PTL

(* ---- what the books have seen of the feed --------------------------- *)

\* Tasks, their numbers, those of one book, and the messages a book has still to see.
Task == [symbol : Symbols, nr : Nat]
Numbers(q) == [i \in DOMAIN q |-> q[i].nr]
NumbersOf(q, b) == {q[i].nr : i \in {j \in DOMAIN q : q[j].symbol = b}}
Rest(all, done) == {all[i] : i \in done + 1 .. Len(all)}

\* A task appended adds its number to its book's.
LEMMA NumbersAppend ==
    ASSUME NEW q \in Seq(Task), NEW t \in Task, NEW b, NEW n
    PROVE  n \in NumbersOf(Append(q, t), b) <=> n \in NumbersOf(q, b) \/ (t.symbol = b /\ n = t.nr)
<1> DEFINE p == Append(q, t)
<1>1. /\ DOMAIN q = 1 .. Len(q) /\ DOMAIN p = 1 .. Len(q) + 1 /\ Len(q) \in Nat
      /\ p[Len(q) + 1] = t /\ \A i \in 1 .. Len(q) : p[i] = q[i]
  BY AppendProperties
<1> HIDE DEF p
<1>2. n \in NumbersOf(p, b) <=> \E i \in 1 .. Len(q) + 1 : p[i].symbol = b /\ n = p[i].nr
  BY <1>1 DEF NumbersOf
<1>3. n \in NumbersOf(q, b) <=> \E i \in 1 .. Len(q) : q[i].symbol = b /\ n = q[i].nr
  BY <1>1 DEF NumbersOf
<1>4. (\E i \in 1 .. Len(q) + 1 : p[i].symbol = b /\ n = p[i].nr)
          <=> (\E i \in 1 .. Len(q) : q[i].symbol = b /\ n = q[i].nr) \/ (t.symbol = b /\ n = t.nr)
  BY <1>1
<1> QED
  BY <1>2, <1>3, <1>4 DEF p

\* The first task taken away, its number goes; in a queue that rises all others are larger.
LEMMA NumbersTail ==
    ASSUME NEW q \in Seq(Task), q # <<>>, NEW b, NEW n
    PROVE  /\ n \in NumbersOf(q, b) <=> n \in NumbersOf(Tail(q), b) \/ (q[1].symbol = b /\ n = q[1].nr)
           /\ Rising(Numbers(q)) /\ n \in NumbersOf(Tail(q), b) => n > q[1].nr
<1> DEFINE p == Tail(q)
<1>1. /\ DOMAIN q = 1 .. Len(q) /\ DOMAIN p = 1 .. Len(q) - 1 /\ Len(q) \in Nat \ {0}
      /\ \A i \in 1 .. Len(q) - 1 : p[i] = q[i + 1]
  BY HeadTailProperties
<1> HIDE DEF p
<1>2. n \in NumbersOf(p, b) <=> \E i \in 1 .. Len(q) - 1 : p[i].symbol = b /\ n = p[i].nr
  BY <1>1 DEF NumbersOf
<1>3. n \in NumbersOf(q, b) <=> \E i \in 1 .. Len(q) : q[i].symbol = b /\ n = q[i].nr
  BY <1>1 DEF NumbersOf
<1>4. (\E i \in 1 .. Len(q) - 1 : p[i].symbol = b /\ n = p[i].nr)
          <=> \E i \in 2 .. Len(q) : q[i].symbol = b /\ n = q[i].nr
  <2>1. ASSUME NEW i \in 1 .. Len(q) - 1, p[i].symbol = b, n = p[i].nr
        PROVE  \E j \in 2 .. Len(q) : q[j].symbol = b /\ n = q[j].nr
    <3> WITNESS i + 1 \in 2 .. Len(q)
    <3> QED BY <1>1, <2>1
  <2>2. ASSUME NEW i \in 2 .. Len(q), q[i].symbol = b, n = q[i].nr
        PROVE  \E j \in 1 .. Len(q) - 1 : p[j].symbol = b /\ n = p[j].nr
    <3>1. i - 1 \in 1 .. Len(q) - 1 /\ p[i - 1] = q[i]
      BY <1>1
    <3> QED BY <2>2, <3>1
  <2> QED
    BY <2>1, <2>2
<1>5. (\E i \in 1 .. Len(q) : q[i].symbol = b /\ n = q[i].nr)
          <=> (\E i \in 2 .. Len(q) : q[i].symbol = b /\ n = q[i].nr) \/ (q[1].symbol = b /\ n = q[1].nr)
  BY <1>1
<1>6. ASSUME Rising(Numbers(q)), NEW i \in 2 .. Len(q)
      PROVE  q[i].nr > q[1].nr
  <2>1. /\ 1 \in DOMAIN q /\ i \in DOMAIN q /\ 1 < i
    BY <1>1
  <2>2. q[1] \in Task /\ q[i] \in Task
    BY <1>1
  <2>3. q[1].nr \in Nat /\ q[i].nr \in Nat
    BY <2>2 DEF Task
  <2>4. DOMAIN Numbers(q) = DOMAIN q /\ Numbers(q)[1] = q[1].nr /\ Numbers(q)[i] = q[i].nr
    BY <2>1 DEF Numbers
  <2>5. Numbers(q)[1] < Numbers(q)[i]
    BY <1>6, <2>1, <2>4 DEF Rising
  <2> QED
    BY <2>4, <2>5, <2>3
<1> QED
  BY <1>2, <1>3, <1>4, <1>5, <1>6 DEF p

\* A message accepted is one more to see.
LEMMA RestAppend ==
    ASSUME NEW all \in Seq(Nat), NEW m \in Nat, NEW d \in Nat, d <= Len(all), NEW n
    PROVE  n \in Rest(Append(all, m), d) <=> n \in Rest(all, d) \/ n = m
<1> DEFINE p == Append(all, m)
<1>1. /\ Len(p) = Len(all) + 1 /\ Len(all) \in Nat
      /\ p[Len(all) + 1] = m /\ \A i \in 1 .. Len(all) : p[i] = all[i]
  BY AppendProperties
<1> HIDE DEF p
<1>2. n \in Rest(p, d) <=> \E i \in d + 1 .. Len(all) + 1 : n = p[i]
  BY <1>1 DEF Rest
<1>3. n \in Rest(all, d) <=> \E i \in d + 1 .. Len(all) : n = all[i]
  BY DEF Rest
<1>4. (\E i \in d + 1 .. Len(all) + 1 : n = p[i]) <=> (\E i \in d + 1 .. Len(all) : n = all[i]) \/ n = m
  <2>1. ASSUME NEW i \in d + 1 .. Len(all) + 1, n = p[i]
        PROVE  (\E j \in d + 1 .. Len(all) : n = all[j]) \/ n = m
    <3>1. CASE i = Len(all) + 1
      BY <1>1, <2>1, <3>1
    <3>2. CASE i # Len(all) + 1
      <4>1. i \in d + 1 .. Len(all) /\ i \in 1 .. Len(all)
        BY <1>1, <3>2
      <4> QED
        BY <1>1, <2>1, <4>1
    <3> QED
      BY <3>1, <3>2
  <2>2. ASSUME NEW i \in d + 1 .. Len(all), n = all[i]
        PROVE  \E j \in d + 1 .. Len(all) + 1 : n = p[j]
    <3>1. i \in d + 1 .. Len(all) + 1 /\ p[i] = all[i]
      BY <1>1
    <3> QED
      BY <2>2, <3>1
  <2>3. Len(all) + 1 \in d + 1 .. Len(all) + 1
    BY <1>1
  <2> QED
    BY <1>1, <2>1, <2>2, <2>3
<1> QED
  BY <1>2, <1>3, <1>4 DEF p

\* The next message to see is the least.
LEMMA RestNext ==
    ASSUME NEW all \in Seq(Nat), Rising(all), NEW d \in Nat, d < Len(all), NEW n
    PROVE  /\ n \in Rest(all, d) <=> n \in Rest(all, d + 1) \/ n = all[d + 1]
           /\ n \in Rest(all, d + 1) => n > all[d + 1]
<1>1. n \in Rest(all, d) <=> \E i \in d + 1 .. Len(all) : n = all[i]
  BY DEF Rest
<1>2. n \in Rest(all, d + 1) <=> \E i \in d + 2 .. Len(all) : n = all[i]
  BY DEF Rest
<1>3. \A i \in d + 2 .. Len(all) : all[i] > all[d + 1]
  BY DEF Rising
<1> QED
  BY <1>1, <1>2, <1>3

\* A sequence that rises still does with a larger number at its end.
LEMMA RisingAppend ==
    ASSUME NEW all \in Seq(Nat), Rising(all), NEW m \in Nat, \A i \in DOMAIN all : all[i] < m
    PROVE  Rising(Append(all, m))
<1>1. /\ DOMAIN Append(all, m) = 1 .. Len(all) + 1 /\ DOMAIN all = 1 .. Len(all) /\ Len(all) \in Nat
      /\ Append(all, m)[Len(all) + 1] = m /\ \A i \in 1 .. Len(all) : Append(all, m)[i] = all[i]
  BY AppendProperties
<1> QED
  BY <1>1 DEF Rising

\* A queue that rises does so after Append and Tail.
LEMMA NumbersRise ==
    ASSUME NEW q \in Seq(Task), Rising(Numbers(q))
    PROVE  /\ \A t \in Task : (\A i \in DOMAIN q : q[i].nr < t.nr) => Rising(Numbers(Append(q, t)))
           /\ q # <<>> => Rising(Numbers(Tail(q)))
<1>1. DOMAIN q = 1 .. Len(q) /\ Len(q) \in Nat
  OBVIOUS
<1>2. \A i, j \in 1 .. Len(q) : i < j => q[i].nr < q[j].nr
  BY <1>1 DEF Rising, Numbers
<1>3. ASSUME NEW t \in Task, \A i \in DOMAIN q : q[i].nr < t.nr
      PROVE  Rising(Numbers(Append(q, t)))
  <2>1. /\ DOMAIN Append(q, t) = 1 .. Len(q) + 1
        /\ Append(q, t)[Len(q) + 1] = t /\ \A i \in 1 .. Len(q) : Append(q, t)[i] = q[i]
    BY AppendProperties
  <2>2. SUFFICES ASSUME NEW i \in 1 .. Len(q) + 1, NEW j \in 1 .. Len(q) + 1, i < j
                 PROVE  Append(q, t)[i].nr < Append(q, t)[j].nr
    BY <2>1 DEF Rising, Numbers
  <2>3. i \in 1 .. Len(q)
    BY <1>1, <2>2
  <2> QED
    BY <1>1, <1>2, <1>3, <2>1, <2>2, <2>3
<1>4. ASSUME q # <<>>
      PROVE  Rising(Numbers(Tail(q)))
  <2>1. /\ DOMAIN Tail(q) = 1 .. Len(q) - 1 /\ Len(q) \in Nat \ {0}
        /\ \A i \in 1 .. Len(q) - 1 : Tail(q)[i] = q[i + 1]
    BY <1>4, HeadTailProperties
  <2>2. SUFFICES ASSUME NEW i \in 1 .. Len(q) - 1, NEW j \in 1 .. Len(q) - 1, i < j
                 PROVE  Tail(q)[i].nr < Tail(q)[j].nr
    BY <2>1 DEF Rising, Numbers
  <2> QED
    BY <1>2, <2>1, <2>2
<1> QED
  BY <1>3, <1>4

\* The first task of a book in a queue that rises is the next one due to the book.
LEMMA FirstIsNext ==
    ASSUME NEW q \in Seq(Task), q # <<>>, Rising(Numbers(q)),
           NEW all \in Seq(Nat), Rising(all), NEW d \in Nat, d <= Len(all),
           NumbersOf(q, q[1].symbol) = Rest(all, d)
    PROVE  /\ d < Len(all) /\ q[1].nr = all[d + 1]
           /\ NumbersOf(Tail(q), q[1].symbol) = Rest(all, d + 1)
<1> DEFINE b == q[1].symbol
           n == q[1].nr
<1>1. n \in Nat
  <2>1. q[1] \in Task
    OBVIOUS
  <2> QED
    BY <2>1 DEF Task
<1>2. n \in Rest(all, d)
  BY NumbersTail
<1>3. d < Len(all)
  BY <1>2 DEF Rest
<1>4. all[d + 1] \in Nat /\ all[d + 1] \in Rest(all, d)
  BY <1>3 DEF Rest
<1>5. n = all[d + 1] \/ n > all[d + 1]
  BY <1>2, <1>3, RestNext
<1>6. all[d + 1] = n \/ all[d + 1] > n
  BY <1>4, NumbersTail
<1>7. n = all[d + 1]
  BY <1>1, <1>4, <1>5, <1>6
<1>8. ASSUME NEW m
      PROVE  m \in NumbersOf(Tail(q), b) <=> m \in Rest(all, d + 1)
  <2>1. /\ m \in NumbersOf(q, b) <=> m \in NumbersOf(Tail(q), b) \/ m = n
        /\ m \in NumbersOf(Tail(q), b) => m > n
    BY NumbersTail
  <2>2. /\ m \in Rest(all, d) <=> m \in Rest(all, d + 1) \/ m = n
        /\ m \in Rest(all, d + 1) => m > n
    BY <1>3, <1>7, RestNext
  <2> QED
    BY <1>1, <2>1, <2>2
<1> QED
  BY <1>3, <1>7, <1>8

\* The parts of BooksFollowFeed, for one book and for all.
QueuesRise == \A w \in Workers : Rising(Numbers(queues[w]))
BookFed(b) ==
    /\ Rising(accepted[b]) /\ Len(books[b]) <= Len(accepted[b])
    /\ \A i \in 1 .. Len(books[b]) : books[b][i] = accepted[b][i]
    /\ \A w \in Workers : NumbersOf(queues[w], b) =
          IF b \in Owned(w) THEN Rest(accepted[b], Len(books[b])) ELSE {}
Bounded ==
    /\ \A w \in Workers : \A i \in DOMAIN queues[w] : queues[w][i].nr <= received
    /\ \A s \in Symbols : \A i \in DOMAIN accepted[s] : accepted[s][i] <= received
Fed == QueuesRise /\ Bounded /\ \A b \in Books : BookFed(b)
Unfed ==
    /\ \A w \in Workers : queues[w] = <<>>
    /\ \A b \in Books : books[b] = <<>>
    /\ \A s \in Symbols : accepted[s] = <<>>

\* FeedInv in these parts: fed while the process runs, empty otherwise.
LEMMA FeedParts ==
    FeedInv <=> IF main = "running" THEN Fed ELSE Unfed /\ Bounded
<1>1. \A w, b : Waiting(w, b) = NumbersOf(queues[w], b)
  BY DEF Waiting, NumbersOf
<1>2. \A w : Numbers(queues[w]) = [i \in DOMAIN queues[w] |-> queues[w][i].nr]
  BY DEF Numbers
<1>3. BooksFollowFeed <=> (main = "running" => QueuesRise /\ \A b \in Books : BookFed(b))
  BY <1>1, <1>2 DEF BooksFollowFeed, QueuesRise, BookFed, Rest
<1> QED
  BY <1>3 DEF FeedInv, Fed, Unfed, Bounded

\* The types the feed needs.
LEMMA FeedTypes ==
    ASSUME TypeOK
    PROVE  /\ \A w \in Workers : queues[w] \in Seq(Task)
           /\ \A b \in Books : books[b] \in Seq(Nat) /\ Len(books[b]) \in Nat
           /\ \A s \in Symbols : accepted[s] \in Seq(Nat)
           /\ queues \in [Workers -> Seq(Task)] /\ books \in [Books -> Seq(Nat)]
           /\ accepted \in [Symbols -> Seq(Nat)] /\ received \in Nat
<1>1. /\ queues \in [Workers -> Seq(Task)] /\ books \in [Books -> Seq(Nat)]
      /\ accepted \in [Symbols -> Seq(Nat)] /\ received \in Nat
  BY DEF TypeOK, Task
<1>2. /\ \A w \in Workers : queues[w] \in Seq(Task)
      /\ \A b \in Books : books[b] \in Seq(Nat)
      /\ \A s \in Symbols : accepted[s] \in Seq(Nat)
  BY <1>1
<1>3. \A b \in Books : Len(books[b]) \in Nat
  BY <1>2
<1> QED
  BY <1>1, <1>2, <1>3

\* Empty queues and books follow an empty feed.
LEMMA NothingFed ==
    ASSUME Unfed
    PROVE  Fed
<1>1. \A w \in Workers : Rising(Numbers(queues[w]))
  BY DEF Unfed, Rising, Numbers
<1>2. ASSUME NEW b \in Books
      PROVE  BookFed(b)
  <2>1. books[b] = <<>> /\ accepted[b] = <<>>
    BY DEF Unfed, Symbols
  <2>2. Rest(accepted[b], Len(books[b])) = {}
    BY <2>1 DEF Rest
  <2>3. \A w \in Workers : NumbersOf(queues[w], b) = {}
    BY DEF Unfed, NumbersOf
  <2>4. Rising(accepted[b]) /\ Len(books[b]) = 0 /\ Len(accepted[b]) = 0
    BY <2>1 DEF Rising
  <2>5. \A w \in Workers : NumbersOf(queues[w], b) =
            IF b \in Owned(w) THEN Rest(accepted[b], Len(books[b])) ELSE {}
    BY <2>2, <2>3
  <2> QED
    BY <2>4, <2>5 DEF BookFed
<1>3. Bounded
  BY DEF Unfed, Bounded
<1> QED
  BY <1>1, <1>2, <1>3 DEF Fed, QueuesRise

\* A message enters the queue of the worker that has its book, or is dropped.
LEMMA OnPacketFeeds ==
    ASSUME TypeOK, Fed, OnPacket
    PROVE  Fed'
<1>1. received \in Nat /\ received' = received + 1 /\ books' = books
  BY DEF OnPacket, TypeOK
<1>2. PICK s \in Symbols :
          LET w == WorkerForKey(s)
              task == [symbol |-> s, nr |-> received + 1]
          IN  IF Len(queues[w]) < QueueCapacity
              THEN /\ queues' = [queues EXCEPT ![w] = Append(@, task)]
                   /\ accepted' = [accepted EXCEPT ![s] = Append(@, task.nr)]
              ELSE UNCHANGED <<queues, accepted>>
  BY DEF OnPacket
<1>3. CASE UNCHANGED <<queues, accepted>>
  <2>1. Bounded'
    <3>1. \A w \in Workers : \A i \in DOMAIN queues[w] : queues[w][i].nr <= received + 1
      <4> SUFFICES ASSUME NEW w \in Workers, NEW i \in DOMAIN queues[w]
                   PROVE  queues[w][i].nr <= received + 1
        OBVIOUS
      <4>1. queues[w][i] \in Task
        BY FeedTypes
      <4>2. queues[w][i].nr \in Nat /\ queues[w][i].nr <= received
        BY <4>1 DEF Task, Fed, Bounded
      <4> QED
        BY <1>1, <4>2
    <3>2. \A x \in Symbols : \A i \in DOMAIN accepted[x] : accepted[x][i] <= received + 1
      <4> SUFFICES ASSUME NEW x \in Symbols, NEW i \in DOMAIN accepted[x]
                   PROVE  accepted[x][i] <= received + 1
        OBVIOUS
      <4>1. accepted[x][i] \in Nat /\ accepted[x][i] <= received
        BY FeedTypes DEF Fed, Bounded
      <4> QED
        BY <1>1, <4>1
    <3> QED
      BY <1>1, <1>3, <3>1, <3>2 DEF Bounded
  <2>2. QueuesRise'
    BY <1>3 DEF Fed, QueuesRise
  <2>3. \A b \in Books : BookFed(b)'
    BY <1>1, <1>3 DEF Fed, BookFed
  <2> QED
    BY <2>1, <2>2, <2>3 DEF Fed
<1>4. ASSUME queues' = [queues EXCEPT ![WorkerForKey(s)] =
                           Append(@, [symbol |-> s, nr |-> received + 1])],
             accepted' = [accepted EXCEPT ![s] = Append(@, received + 1)]
      PROVE  Fed'
  <2> DEFINE o == WorkerForKey(s)
             n == received + 1
             t == [symbol |-> s, nr |-> n]
  <2>1. t \in Task /\ t.symbol = s /\ t.nr = n /\ n \in Nat
    BY <1>1 DEF Task
  <2>2. o \in Workers
    BY Routes
  <2>3. queues'[o] = Append(queues[o], t) /\ \A w \in Workers \ {o} : queues'[w] = queues[w]
    BY <1>4, <2>2, FeedTypes
  <2>4. accepted'[s] = Append(accepted[s], n) /\ \A x \in Symbols \ {s} : accepted'[x] = accepted[x]
    BY <1>4, FeedTypes
  <2> HIDE DEF t, n
  <2>5. \A w \in Workers : \A i \in DOMAIN queues[w] : queues[w][i].nr < n /\ queues[w][i].nr \in Nat
    <3> SUFFICES ASSUME NEW w \in Workers, NEW i \in DOMAIN queues[w]
                 PROVE  queues[w][i].nr < n /\ queues[w][i].nr \in Nat
      OBVIOUS
    <3>1. queues[w][i] \in Task
      BY FeedTypes
    <3>2. queues[w][i].nr \in Nat /\ queues[w][i].nr <= received
      BY <3>1 DEF Task, Fed, Bounded
    <3> QED
      BY <1>1, <3>2 DEF n
  <2>6. \A x \in Symbols : \A i \in DOMAIN accepted[x] : accepted[x][i] < n /\ accepted[x][i] \in Nat
    <3> SUFFICES ASSUME NEW x \in Symbols, NEW i \in DOMAIN accepted[x]
                 PROVE  accepted[x][i] < n /\ accepted[x][i] \in Nat
      OBVIOUS
    <3>1. accepted[x][i] \in Nat /\ accepted[x][i] <= received
      BY FeedTypes DEF Fed, Bounded
    <3> QED
      BY <1>1, <3>1 DEF n
  <2>7. Bounded'
    <3>1. \A w \in Workers : \A i \in DOMAIN queues'[w] : queues'[w][i].nr <= n
      <4> SUFFICES ASSUME NEW w \in Workers, NEW i \in DOMAIN queues'[w]
                   PROVE  queues'[w][i].nr <= n
        OBVIOUS
      <4>1. CASE w # o
        BY <2>1, <2>3, <2>5, <4>1
      <4>2. CASE w = o
        <5>1. queues[o] \in Seq(Task)
          BY <2>2, FeedTypes
        <5>2. /\ DOMAIN Append(queues[o], t) = 1 .. Len(queues[o]) + 1
              /\ DOMAIN queues[o] = 1 .. Len(queues[o]) /\ Len(queues[o]) \in Nat
              /\ Append(queues[o], t)[Len(queues[o]) + 1] = t
              /\ \A j \in 1 .. Len(queues[o]) : Append(queues[o], t)[j] = queues[o][j]
          BY <2>1, <5>1, AppendProperties
        <5>3. i \in 1 .. Len(queues[o]) \/ i = Len(queues[o]) + 1
          BY <2>3, <4>2, <5>2
        <5>4. CASE i \in 1 .. Len(queues[o])
          BY <2>1, <2>2, <2>3, <2>5, <4>2, <5>2, <5>4
        <5>5. CASE i = Len(queues[o]) + 1
          BY <2>1, <2>3, <4>2, <5>2, <5>5
        <5> QED
          BY <5>3, <5>4, <5>5
      <4> QED
        BY <4>1, <4>2
    <3>2. \A x \in Symbols : \A i \in DOMAIN accepted'[x] : accepted'[x][i] <= n
      <4> SUFFICES ASSUME NEW x \in Symbols, NEW i \in DOMAIN accepted'[x]
                   PROVE  accepted'[x][i] <= n
        OBVIOUS
      <4>1. CASE x # s
        BY <2>1, <2>4, <2>6, <4>1
      <4>2. CASE x = s
        <5>1. accepted[s] \in Seq(Nat)
          BY FeedTypes
        <5>2. /\ DOMAIN Append(accepted[s], n) = 1 .. Len(accepted[s]) + 1
              /\ DOMAIN accepted[s] = 1 .. Len(accepted[s]) /\ Len(accepted[s]) \in Nat
              /\ Append(accepted[s], n)[Len(accepted[s]) + 1] = n
              /\ \A j \in 1 .. Len(accepted[s]) : Append(accepted[s], n)[j] = accepted[s][j]
          BY <2>1, <5>1, AppendProperties
        <5>3. i \in 1 .. Len(accepted[s]) \/ i = Len(accepted[s]) + 1
          BY <2>4, <4>2, <5>2
        <5>4. CASE i \in 1 .. Len(accepted[s])
          <6>1. accepted[s][i] < n /\ accepted[s][i] \in Nat
            BY <2>6, <5>2, <5>4
          <6>2. accepted'[x][i] = accepted[s][i]
            BY <2>4, <4>2, <5>2, <5>4
          <6> QED
            BY <2>1, <6>1, <6>2
        <5>5. CASE i = Len(accepted[s]) + 1
          BY <2>1, <2>4, <4>2, <5>2, <5>5
        <5> QED
          BY <5>3, <5>4, <5>5
      <4> QED
        BY <4>1, <4>2
    <3> QED
      BY <1>1, <3>1, <3>2 DEF Bounded, n
  <2>8. QueuesRise'
    <3>1. \A w \in Workers : Rising(Numbers(queues'[w]))
      <4>1. Rising(Numbers(Append(queues[o], t)))
        <5>1. queues[o] \in Seq(Task) /\ Rising(Numbers(queues[o]))
          BY <2>2, FeedTypes DEF Fed, QueuesRise
        <5>2. \A i \in DOMAIN queues[o] : queues[o][i].nr < t.nr
          BY <2>1, <2>2, <2>5
        <5> QED
          BY <2>1, <5>1, <5>2, NumbersRise
      <4> QED
        BY <2>3, <4>1 DEF Fed, QueuesRise
    <3> QED
      BY <3>1 DEF QueuesRise
  <2>9. ASSUME NEW b \in Books
        PROVE  BookFed(b)'
    <3> DEFINE d == Len(books[b])
    <3>1. b \in Symbols /\ d \in Nat /\ books[b] \in Seq(Nat) /\ accepted[b] \in Seq(Nat)
      BY Routes, FeedTypes
    <3>2. BookFed(b)
      BY DEF Fed
    <3>3. CASE b # s
      <4>1. accepted'[b] = accepted[b]
        BY <2>4, <3>1, <3>3
      <4>2. ASSUME NEW w \in Workers
            PROVE  NumbersOf(queues'[w], b) = NumbersOf(queues[w], b)
        <5>1. CASE w # o
          BY <2>3, <5>1
        <5>2. CASE w = o
          <6>1. \A m : m \in NumbersOf(Append(queues[o], t), b) <=> m \in NumbersOf(queues[o], b)
            BY <2>1, <2>2, <3>3, FeedTypes, NumbersAppend
          <6>2. NumbersOf(Append(queues[o], t), b) = NumbersOf(queues[o], b)
            BY <6>1
          <6> QED
            BY <2>3, <5>2, <6>2
        <5> QED
          BY <5>1, <5>2
      <4> QED
        BY <1>1, <3>2, <4>1, <4>2 DEF BookFed
    <3>4. CASE b = s
      <4>1. accepted'[b] = Append(accepted[b], n)
        BY <2>4, <3>4
      <4>2. Rising(accepted'[b])
        <5>1. Rising(accepted[b]) /\ \A i \in DOMAIN accepted[b] : accepted[b][i] < n
          BY <2>6, <3>1, <3>2 DEF BookFed
        <5> QED
          BY <2>1, <3>1, <4>1, <5>1, RisingAppend
      <4>3. /\ Len(accepted'[b]) = Len(accepted[b]) + 1 /\ Len(accepted[b]) \in Nat
            /\ \A i \in 1 .. Len(accepted[b]) : accepted'[b][i] = accepted[b][i]
        BY <2>1, <3>1, <4>1, AppendProperties
      <4>4. d <= Len(accepted[b])
        BY <3>2 DEF BookFed
      <4>5. d <= Len(accepted'[b]) /\ \A i \in 1 .. d : books[b][i] = accepted'[b][i]
        BY <3>1, <3>2, <4>3, <4>4 DEF BookFed
      <4>6. ASSUME NEW w \in Workers
            PROVE  NumbersOf(queues'[w], b) =
                      IF b \in Owned(w) THEN Rest(accepted'[b], d) ELSE {}
        <5>1. NumbersOf(queues[w], b) = IF b \in Owned(w) THEN Rest(accepted[b], d) ELSE {}
          BY <3>2 DEF BookFed
        <5>2. b \in Owned(w) <=> w = o
          BY <3>4, Routes
        <5>3. CASE w # o
          BY <2>3, <5>1, <5>2, <5>3
        <5>4. CASE w = o
          <6>1. \A m : m \in NumbersOf(Append(queues[o], t), b) <=> m \in NumbersOf(queues[o], b) \/ m = n
            BY <2>1, <2>2, <3>4, FeedTypes, NumbersAppend
          <6>2. \A m : m \in Rest(Append(accepted[b], n), d) <=> m \in Rest(accepted[b], d) \/ m = n
            BY <2>1, <3>1, <4>4, RestAppend
          <6>3. NumbersOf(queues[o], b) = Rest(accepted[b], d)
            BY <5>1, <5>2, <5>4
          <6>4. NumbersOf(Append(queues[o], t), b) = Rest(Append(accepted[b], n), d)
            BY <6>1, <6>2, <6>3
          <6> QED
            BY <2>3, <4>1, <5>2, <5>4, <6>4
        <5> QED
          BY <5>3, <5>4
      <4> QED
        BY <1>1, <4>2, <4>5, <4>6 DEF BookFed
    <3> QED
      BY <3>3, <3>4
  <2> QED
    BY <2>7, <2>8, <2>9 DEF Fed
<1> QED
  BY <1>2, <1>3, <1>4

\* A worker takes the first task of its queue: the next of its book, or a stranger's.
LEMMA ProcessFeeds ==
    ASSUME TypeOK, Fed, NEW o \in Workers, ProcessMarketData(o)
    PROVE  Fed'
<1> DEFINE q == queues[o]
           t == q[1]
           b == t.symbol
<1>1. /\ q \in Seq(Task) /\ q # <<>> /\ t \in Task /\ Rising(Numbers(q))
      /\ b \in Symbols /\ t.nr \in Nat
  <2>1. q \in Seq(Task) /\ q # <<>> /\ Rising(Numbers(q))
    BY FeedTypes DEF ProcessMarketData, Fed, QueuesRise
  <2>2. t \in Task
    BY <2>1
  <2> QED
    BY <2>1, <2>2 DEF Task
<1>2. /\ queues' = [queues EXCEPT ![o] = Tail(@)] /\ UNCHANGED <<accepted, received>>
      /\ Head(q) = t
      /\ IF b \in Owned(o) THEN books' = [books EXCEPT ![b] = Append(@, t.nr)] ELSE books' = books
  <2>1. Head(q) = t
    BY <1>1
  <2> QED
    BY <2>1 DEF ProcessMarketData
<1>3. queues'[o] = Tail(q) /\ \A w \in Workers \ {o} : queues'[w] = queues[w]
  BY <1>2, FeedTypes
<1>4. /\ DOMAIN Tail(q) = 1 .. Len(q) - 1 /\ DOMAIN q = 1 .. Len(q) /\ Len(q) \in Nat \ {0}
      /\ \A i \in 1 .. Len(q) - 1 : Tail(q)[i] = q[i + 1]
  BY <1>1, HeadTailProperties
<1> HIDE DEF q, t, b
<1>5. Bounded'
  <2>1. \A w \in Workers : \A i \in DOMAIN queues'[w] : queues'[w][i].nr <= received
    <3> SUFFICES ASSUME NEW w \in Workers, NEW i \in DOMAIN queues'[w]
                 PROVE  queues'[w][i].nr <= received
      OBVIOUS
    <3>1. CASE w # o
      BY <1>3, <3>1 DEF Fed, Bounded
    <3>2. CASE w = o
      <4>1. i + 1 \in DOMAIN q /\ queues'[w][i] = q[i + 1]
        BY <1>3, <1>4, <3>2
      <4> QED
        BY <4>1 DEF Fed, Bounded, q
    <3> QED
      BY <3>1, <3>2
  <2> QED
    BY <1>2, <2>1 DEF Fed, Bounded
<1>6. QueuesRise'
  <2>1. Rising(Numbers(Tail(q)))
    BY <1>1, NumbersRise
  <2>2. \A w \in Workers : Rising(Numbers(queues'[w]))
    BY <1>3, <2>1 DEF Fed, QueuesRise
  <2> QED
    BY <2>2 DEF QueuesRise
<1>7. ASSUME NEW c \in Books
      PROVE  BookFed(c)'
  <2> DEFINE d == Len(books[c])
  <2>1. c \in Symbols /\ d \in Nat /\ books[c] \in Seq(Nat) /\ accepted[c] \in Seq(Nat)
    BY Routes, FeedTypes
  <2>2. BookFed(c)
    BY DEF Fed
  <2>3. accepted'[c] = accepted[c]
    BY <1>2
  <2>4. NumbersOf(q, c) = IF c \in Owned(o) THEN Rest(accepted[c], d) ELSE {}
    BY <2>2 DEF BookFed, q
  <2>5. \A w \in Workers : NumbersOf(queues[w], c) = IF c \in Owned(w) THEN Rest(accepted[c], d) ELSE {}
    BY <2>2 DEF BookFed
  <2>6. CASE c # b
    <3>1. books'[c] = books[c]
      BY <1>2, <2>6, FeedTypes
    <3>2. \A m : m \in NumbersOf(Tail(q), c) <=> m \in NumbersOf(q, c)
      BY <1>1, <2>6, NumbersTail DEF b, t
    <3>3. NumbersOf(Tail(q), c) = NumbersOf(q, c)
      BY <3>2
    <3>4. \A w \in Workers : NumbersOf(queues'[w], c) = NumbersOf(queues[w], c)
      BY <1>3, <3>3 DEF q
    <3>5. \A w \in Workers : NumbersOf(queues'[w], c) =
              IF c \in Owned(w) THEN Rest(accepted'[c], Len(books'[c])) ELSE {}
      BY <2>3, <2>5, <3>1, <3>4
    <3> QED
      BY <2>2, <2>3, <3>1, <3>5 DEF BookFed
  <2>7. CASE c = b
    <3>1. t.nr \in NumbersOf(q, c)
      BY <1>1, <2>7, NumbersTail DEF b, t
    <3>2. c \in Owned(o)
      BY <2>4, <3>1
    <3>3. NumbersOf(q, b) = Rest(accepted[c], d)
      BY <2>4, <2>7, <3>2
    <3>4. Rising(accepted[c]) /\ d <= Len(accepted[c]) /\ \A i \in 1 .. d : books[c][i] = accepted[c][i]
      BY <2>2 DEF BookFed
    <3>5. /\ d < Len(accepted[c]) /\ t.nr = accepted[c][d + 1]
          /\ NumbersOf(Tail(q), b) = Rest(accepted[c], d + 1)
      BY <1>1, <2>1, <3>3, <3>4, FirstIsNext DEF b, t
    <3>6. books'[c] = Append(books[c], t.nr)
      BY <1>2, <2>7, <3>2, FeedTypes
    <3>7. /\ Len(books'[c]) = d + 1 /\ books'[c][d + 1] = t.nr
          /\ \A i \in 1 .. d : books'[c][i] = books[c][i]
      BY <1>1, <2>1, <3>6, AppendProperties
    <3>8. \A i \in 1 .. d + 1 : books'[c][i] = accepted'[c][i]
      <4> SUFFICES ASSUME NEW i \in 1 .. d + 1
                   PROVE  books'[c][i] = accepted[c][i]
        BY <2>3
      <4>1. i \in 1 .. d \/ i = d + 1
        BY <2>1
      <4>2. CASE i \in 1 .. d
        BY <3>4, <3>7, <4>2
      <4>3. CASE i = d + 1
        BY <3>5, <3>7, <4>3
      <4> QED
        BY <4>1, <4>2, <4>3
    <3>9. ASSUME NEW w \in Workers
          PROVE  NumbersOf(queues'[w], c) = IF c \in Owned(w) THEN Rest(accepted'[c], d + 1) ELSE {}
      <4>1. c \in Owned(w) <=> w = o
        BY <3>2, Routes
      <4>2. CASE w = o
        BY <1>3, <2>3, <2>7, <3>5, <4>1, <4>2
      <4>3. CASE w # o
        BY <1>3, <2>5, <4>1, <4>3
      <4> QED
        BY <4>2, <4>3
    <3>10. Len(books'[c]) <= Len(accepted'[c])
      BY <2>1, <2>3, <3>5, <3>7
    <3> QED
      BY <2>3, <3>4, <3>7, <3>8, <3>9, <3>10 DEF BookFed
  <2> QED
    BY <2>6, <2>7
<1> QED
  BY <1>5, <1>6, <1>7 DEF Fed

\* The same of the next state.
LEMMA FeedPartsNext ==
    FeedInv' <=> IF main' = "running" THEN Fed' ELSE Unfed' /\ Bounded'
<1>1. \A w, b : Waiting(w, b)' = NumbersOf(queues'[w], b)
  BY DEF Waiting, NumbersOf
<1>2. \A w : Numbers(queues'[w]) = [i \in DOMAIN queues'[w] |-> queues'[w][i].nr]
  BY DEF Numbers
<1>3. BooksFollowFeed' <=> (main' = "running" => QueuesRise' /\ \A b \in Books : BookFed(b)')
  BY <1>1, <1>2 DEF BooksFollowFeed, QueuesRise, BookFed, Rest
<1> QED
  BY <1>3 DEF FeedInv, Fed, Unfed, Bounded

\* Every step keeps FeedInv.
LEMMA FeedGoes ==
    ASSUME TypeOK, FeedInv, [Next]_vars
    PROVE  FeedInv'
<1>1. (main = "running" => Fed) /\ (main # "running" => Unfed /\ Bounded)
  BY FeedParts
<1>2. FeedInv' <=> IF main' = "running" THEN Fed' ELSE Unfed' /\ Bounded'
  BY FeedPartsNext
<1>3. CASE UNCHANGED <<main, queues, books, received, accepted>>
  <2>1. (Fed => Fed') /\ (Unfed => Unfed') /\ (Bounded => Bounded')
    BY <1>3 DEF Fed, QueuesRise, Bounded, BookFed, Unfed
  <2> QED
    BY <1>1, <1>2, <1>3, <2>1
<1>4. CASE Cleared /\ main' # "running"
  <2>1. Unfed'
    BY <1>4 DEF Cleared, Unfed
  <2>2. Bounded'
    BY <1>4 DEF Cleared, Bounded
  <2> QED
    BY <1>2, <1>4, <2>1, <2>2
<1>5. CASE /\ main # "running" /\ main' # "running"
           /\ UNCHANGED <<queues, books, received, accepted>>
  <2>1. Unfed' /\ Bounded'
    BY <1>1, <1>5 DEF Unfed, Bounded
  <2> QED
    BY <1>2, <1>5, <2>1
<1>6. CASE OpenReceiver
  <2>1. Fed
    BY <1>1, <1>6, NothingFed DEF OpenReceiver
  <2>2. Fed'
    BY <1>6, <2>1 DEF OpenReceiver, Fed, QueuesRise, Bounded, BookFed
  <2> QED
    BY <1>2, <1>6, <2>2 DEF OpenReceiver
<1>7. CASE OnPacket
  BY <1>1, <1>2, <1>7, OnPacketFeeds DEF OnPacket
<1>8. ASSUME NEW w \in Workers, ProcessMarketData(w)
      PROVE  FeedInv'
  BY <1>1, <1>2, <1>8, ProcessFeeds DEF ProcessMarketData
<1>9. ASSUME NEW w \in Workers, Publish(w)
      PROVE  FeedInv'
  BY <1>3, <1>9, PublishSteps
<1>10. ASSUME NEW r \in Readers, Open(r) \/ CloseTable(r) \/ ReadBegin(r) \/ BusError(r) \/ ReadStep(r)
       PROVE  FeedInv'
  <2>1. UNCHANGED process
    BY <1>10, ReaderEffects
  <2> QED
    BY <1>3, <2>1 DEF process
<1>11. CASE UNCHANGED vars
  BY <1>3, <1>11 DEF vars, process
<1>12. CASE Begin \/ ReturnFailed \/ Kill
  BY <1>4, <1>12 DEF Begin, ReturnFailed, Kill
<1>13. CASE BeginFails \/ Size \/ MapTable
  BY <1>5, <1>13 DEF BeginFails, Size, MapTable
<1> QED
  BY <1>6, <1>7, <1>8, <1>9, <1>10, <1>11, <1>12, <1>13 DEF Next

\* What is lost of the feed is lost at a full queue.
THEOREM FeedInvariant == Spec => []FeedInv
<1>1. Init => FeedInv
  <2> SUFFICES ASSUME Init PROVE FeedInv
    OBVIOUS
  <2>1. Unfed /\ main = "off"
    BY DEF Init, Unfed
  <2>2. Bounded
    BY DEF Init, Bounded
  <2> QED
    BY <2>1, <2>2, FeedParts
<1>2. TypeOK /\ FeedInv /\ [Next]_vars => FeedInv'
  BY FeedGoes
<1> QED
  BY <1>1, <1>2, TypeCorrect, PTL DEF Spec

\* No book misses, repeats or reorders a message that entered a queue.
THEOREM BooksStayFed == Spec => []BooksFollowFeed
<1>1. FeedInv => BooksFollowFeed
  BY DEF FeedInv
<1> QED
  BY <1>1, FeedInvariant, PTL

(* ---- scans ----------------------------------------------------------- *)

\* Min is the least of a set of numbers that is not empty.
LEMMA MinOfNats ==
    ASSUME NEW I, I \subseteq Nat, I # {}
    PROVE  Min(I) \in I /\ \A i \in I : Min(I) <= i
<1>1. \E m \in I : \A i \in I : ~ (<<i, m>> \in OpToRel(<, Nat))
  BY NatLessThanWellFounded, WFMin
<1>2. \A i, m \in Nat : i < m => <<i, m>> \in OpToRel(<, Nat)
  <2> SUFFICES ASSUME NEW i \in Nat, NEW m \in Nat, i < m
               PROVE  <<i, m>> \in OpToRel(<, Nat)
    OBVIOUS
  <2>1. <<i, m>> \in Nat \X Nat
    OBVIOUS
  <2>2. <<i, m>>[1] < <<i, m>>[2]
    OBVIOUS
  <2> QED
    BY <2>1, <2>2, Zenon DEF OpToRel
<1>3. \E m \in I : \A i \in I : ~ (i < m)
  BY <1>1, <1>2, Zenon
<1>4. \E m \in I : \A i \in I : m <= i
  BY <1>3
<1> QED
  BY <1>4 DEF Min

\* find_level: the first level of the price, if there is one.
LEMMA FindsLevel ==
    ASSUME NEW levels \in Seq(Level), NEW price
    PROVE  /\ FindLevel(levels, price) \in 0 .. Len(levels)
           /\ FindLevel(levels, price) # 0 => levels[FindLevel(levels, price)].price = price
<1> DEFINE I == {i \in 1 .. Len(levels) : levels[i].price = price}
<1>1. I \subseteq Nat /\ Len(levels) \in Nat
  BY LenProperties
<1>2. FindLevel(levels, price) = IF I # {} THEN Min(I) ELSE 0
  BY DEF FindLevel, SelectInSeq
<1>3. I # {} => Min(I) \in I
  BY <1>1, MinOfNats
<1> QED
  BY <1>1, <1>2, <1>3

\* find_or_insert_level stops at the first level that is not better.
LEMMA ScanStops ==
    ASSUME NEW levels \in Seq(Level), NEW side, NEW price \in Int
    PROVE  /\ Scan(levels, side, price) \in 1 .. Len(levels) + 1
           /\ \A j \in 1 .. Len(levels) : j < Scan(levels, side, price) =>
                 levels[j].price # price /\ ~Better(side, price, levels[j].price)
           /\ Scan(levels, side, price) <= Len(levels) =>
                 \/ levels[Scan(levels, side, price)].price = price
                 \/ Better(side, price, levels[Scan(levels, side, price)].price)
<1> DEFINE I == {i \in 1 .. Len(levels) :
                    levels[i].price = price \/ Better(side, price, levels[i].price)}
<1>1. I \subseteq Nat /\ Len(levels) \in Nat
  BY LenProperties
<1>2. Scan(levels, side, price) =
        IF (IF I # {} THEN Min(I) ELSE 0) = 0 THEN Len(levels) + 1
        ELSE IF I # {} THEN Min(I) ELSE 0
  BY DEF Scan, SelectInSeq
<1>3. I # {} => Min(I) \in I /\ \A i \in I : Min(I) <= i
  BY <1>1, MinOfNats
<1>4. CASE I = {}
  BY <1>1, <1>2, <1>4
<1>5. CASE I # {}
  <2>1. Min(I) \in 1 .. Len(levels) /\ Scan(levels, side, price) = Min(I)
    BY <1>1, <1>2, <1>3, <1>5
  <2>2. \A j \in 1 .. Len(levels) : j < Min(I) => j \notin I
    BY <1>1, <1>3, <1>5, <2>1
  <2> QED
    BY <1>1, <1>3, <1>5, <2>1, <2>2
<1> QED
  BY <1>4, <1>5

(* ---- what the calls do to a side ------------------------------------- *)

\* A side with the same prices is sorted as before.
LEMMA SamePrices ==
    ASSUME NEW side, NEW a, NEW b, Sorted(side, a), DOMAIN b = DOMAIN a,
           \A i \in DOMAIN a : b[i].price = a[i].price
    PROVE  Sorted(side, b)
  BY DEF Sorted

\* A level taken out: those behind it move up.
LEMMA RemovedAt ==
    ASSUME NEW levels \in Seq(Level), NEW i \in 1 .. Len(levels)
    PROVE  LET new == RemoveAt(levels, i)
           IN  /\ new \in Seq(Level) /\ DOMAIN new = 1 .. Len(levels) - 1
               /\ \A k \in 1 .. Len(levels) - 1 :
                     new[k] = IF k < i THEN levels[k] ELSE levels[k + 1]
<1> DEFINE a == SubSeq(levels, 1, i - 1)
           b == SubSeq(levels, i + 1, Len(levels))
<1>1. Len(levels) \in Nat /\ DOMAIN levels = 1 .. Len(levels)
  BY LenProperties
<1>2. \A k \in 1 .. Len(levels) : levels[k] \in Level
  BY ElementOfSeq
<1>3. /\ a \in Seq(Level) /\ Len(a) = i - 1
      /\ \A k \in 1 .. i - 1 : a[k] = levels[k]
  <2>1. \A k \in 1 .. i - 1 : levels[k] \in Level
    BY <1>1, <1>2
  <2>2. /\ a \in Seq(Level) /\ Len(a) = IF 1 <= i - 1 THEN i - 1 - 1 + 1 ELSE 0
        /\ \A k \in 1 .. i - 1 - 1 + 1 : a[k] = levels[1 + k - 1]
    BY <1>1, <2>1, SubSeqProperties
  <2>3. Len(a) = i - 1
    BY <1>1, <2>2
  <2>4. \A k \in 1 .. i - 1 : a[k] = levels[k]
    BY <1>1, <2>2
  <2> QED
    BY <2>2, <2>3, <2>4
<1>4. /\ b \in Seq(Level) /\ Len(b) = Len(levels) - i
      /\ \A k \in 1 .. Len(levels) - i : b[k] = levels[k + i]
  <2>1. \A k \in i + 1 .. Len(levels) : levels[k] \in Level
    BY <1>1, <1>2
  <2>2. /\ b \in Seq(Level) /\ Len(b) = IF i + 1 <= Len(levels) THEN Len(levels) - (i + 1) + 1 ELSE 0
        /\ \A k \in 1 .. Len(levels) - (i + 1) + 1 : b[k] = levels[i + 1 + k - 1]
    BY <1>1, <2>1, SubSeqProperties
  <2>3. Len(b) = Len(levels) - i
    <3> HIDE DEF b
    <3>1. \A n \in Nat : \A m \in 1 .. n : (IF m + 1 <= n THEN n - (m + 1) + 1 ELSE 0) = n - m
      OBVIOUS
    <3>2. (IF i + 1 <= Len(levels) THEN Len(levels) - (i + 1) + 1 ELSE 0) = Len(levels) - i
      BY <1>1, <3>1
    <3> QED
      BY <2>2, <3>2
  <2>4. ASSUME NEW k \in 1 .. Len(levels) - i
        PROVE  b[k] = levels[k + i]
    <3>1. k \in 1 .. Len(levels) - (i + 1) + 1 /\ i + 1 + k - 1 = k + i
      BY <1>1
    <3> QED
      BY <2>2, <3>1
  <2> QED
    BY <2>2, <2>3, <2>4
<1>5. RemoveAt(levels, i) = a \o b
  BY DEF RemoveAt
<1> HIDE DEF a, b
<1>6. /\ a \o b \in Seq(Level) /\ DOMAIN (a \o b) = 1 .. Len(levels) - 1
      /\ \A k \in 1 .. Len(levels) - 1 :
            (a \o b)[k] = IF k < i THEN levels[k] ELSE levels[k + 1]
  <2>1. /\ a \o b \in Seq(Level) /\ Len(a \o b) = Len(a) + Len(b)
        /\ \A k \in 1 .. Len(a) + Len(b) :
              (a \o b)[k] = IF k <= Len(a) THEN a[k] ELSE b[k - Len(a)]
    BY <1>3, <1>4, ConcatProperties
  <2>2. Len(a) + Len(b) = Len(levels) - 1
    BY <1>1, <1>3, <1>4
  <2>3. DOMAIN (a \o b) = 1 .. Len(levels) - 1
    BY <2>1, <2>2, LenProperties
  <2>4. ASSUME NEW k \in 1 .. Len(levels) - 1
        PROVE  (a \o b)[k] = IF k < i THEN levels[k] ELSE levels[k + 1]
    <3>1. (a \o b)[k] = IF k <= i - 1 THEN a[k] ELSE b[k - (i - 1)]
      BY <1>3, <2>1, <2>2
    <3>2. CASE k < i
      BY <1>1, <1>3, <3>1, <3>2
    <3>3. CASE ~(k < i)
      <4>1. k - (i - 1) \in 1 .. Len(levels) - i /\ k - (i - 1) + i = k + 1
        BY <1>1, <3>3
      <4> QED
        BY <1>4, <3>1, <3>3, <4>1
    <3> QED
      BY <3>2, <3>3
  <2> QED
    BY <2>1, <2>3, <2>4
<1> QED
  BY <1>5, <1>6

LEMMA RemovedSorted ==
    ASSUME NEW side, NEW levels \in Seq(Level), Sorted(side, levels), NEW i \in 1 .. Len(levels)
    PROVE  RemoveAt(levels, i) \in Seq(Level) /\ Sorted(side, RemoveAt(levels, i))
<1> DEFINE new == RemoveAt(levels, i)
<1>1. Len(levels) \in Nat /\ DOMAIN levels = 1 .. Len(levels)
  BY LenProperties
<1>6. /\ new \in Seq(Level) /\ DOMAIN new = 1 .. Len(levels) - 1
      /\ \A k \in 1 .. Len(levels) - 1 :
            new[k] = IF k < i THEN levels[k] ELSE levels[k + 1]
  BY RemovedAt
<1> HIDE DEF new
<1>7. ASSUME NEW j \in 1 .. Len(levels) - 1, NEW k \in 1 .. Len(levels) - 1, j < k
      PROVE  Better(side, new[j].price, new[k].price)
  <2> DEFINE from(m) == IF m < i THEN m ELSE m + 1
  <2>1. from(j) \in 1 .. Len(levels) /\ from(k) \in 1 .. Len(levels) /\ from(j) < from(k)
    BY <1>1, <1>7
  <2>2. new[j] = levels[from(j)] /\ new[k] = levels[from(k)]
    BY <1>6
  <2> HIDE DEF from
  <2> QED
    BY <1>1, <2>1, <2>2 DEF Sorted
<1>8. Sorted(side, new)
  BY <1>6, <1>7 DEF Sorted
<1> QED
  BY <1>6, <1>8 DEF new

\* A level put in: those behind it move down.
LEMMA InsertedAt ==
    ASSUME NEW levels \in Seq(Level), NEW new \in Level, NEW i \in 1 .. Len(levels) + 1
    PROVE  LET more == InsertAt(levels, i, new)
           IN  /\ more \in Seq(Level) /\ DOMAIN more = 1 .. Len(levels) + 1
               /\ \A k \in 1 .. Len(levels) + 1 :
                     more[k] = IF k < i THEN levels[k] ELSE IF k = i THEN new ELSE levels[k - 1]
<1> DEFINE a == SubSeq(levels, 1, i - 1)
           b == SubSeq(levels, i, Len(levels))
<1>1. Len(levels) \in Nat /\ DOMAIN levels = 1 .. Len(levels)
  BY LenProperties
<1>2. \A k \in 1 .. Len(levels) : levels[k] \in Level
  BY ElementOfSeq
<1>i. i \in 1 .. Len(levels) + 1
  OBVIOUS
<1>6. /\ a \in Seq(Level) /\ Len(a) = i - 1
      /\ \A k \in 1 .. i - 1 : a[k] = levels[k]
  <2>1. \A k \in 1 .. i - 1 : levels[k] \in Level
    BY <1>1, <1>2, <1>i
  <2>2. /\ a \in Seq(Level) /\ Len(a) = IF 1 <= i - 1 THEN i - 1 - 1 + 1 ELSE 0
        /\ \A k \in 1 .. i - 1 - 1 + 1 : a[k] = levels[1 + k - 1]
    BY <1>1, <1>i, <2>1, SubSeqProperties
  <2> QED
    BY <1>1, <1>i, <2>2
<1>7. /\ b \in Seq(Level) /\ Len(b) = Len(levels) - i + 1
      /\ \A k \in 1 .. Len(levels) - i + 1 : b[k] = levels[k + i - 1]
  <2>1. \A k \in i .. Len(levels) : levels[k] \in Level
    BY <1>1, <1>2, <1>i
  <2>2. /\ b \in Seq(Level) /\ Len(b) = IF i <= Len(levels) THEN Len(levels) - i + 1 ELSE 0
        /\ \A k \in 1 .. Len(levels) - i + 1 : b[k] = levels[i + k - 1]
    BY <1>1, <1>i, <2>1, SubSeqProperties
  <2> QED
    BY <1>1, <1>i, <2>2
<1>8. <<new>> \in Seq(Level) /\ Len(<<new>>) = 1 /\ <<new>>[1] = new
  OBVIOUS
<1>9. InsertAt(levels, i, new) = (a \o <<new>>) \o b
  BY DEF InsertAt
<1> HIDE DEF a, b
<1> DEFINE c == a \o <<new>>
<1>10. /\ c \in Seq(Level) /\ Len(c) = i
       /\ \A k \in 1 .. i : c[k] = IF k < i THEN levels[k] ELSE new
  <2>1. /\ c \in Seq(Level) /\ Len(c) = i - 1 + 1
        /\ \A k \in 1 .. i - 1 + 1 : c[k] = IF k <= i - 1 THEN a[k] ELSE <<new>>[k - (i - 1)]
    BY <1>6, <1>8, ConcatProperties
  <2>2. i - 1 + 1 = i
    BY <1>1, <1>i
  <2>3. ASSUME NEW k \in 1 .. i
        PROVE  c[k] = IF k < i THEN levels[k] ELSE new
    <3>1. CASE k < i
      BY <1>1, <1>i, <1>6, <2>1, <2>2, <3>1
    <3>2. CASE k = i
      <4>1. k - (i - 1) = 1 /\ ~(k <= i - 1) /\ ~(k < i) /\ k \in 1 .. i - 1 + 1
        BY <1>1, <1>i, <3>2
      <4>2. c[k] = <<new>>[k - (i - 1)]
        BY <2>1, <4>1
      <4>3. c[k] = new
        BY <1>8, <4>1, <4>2
      <4> QED
        BY <4>1, <4>3
    <3>3. k < i \/ k = i
      BY <1>1, <1>i
    <3> QED
      BY <3>1, <3>2, <3>3
  <2> QED
    BY <2>1, <2>2, <2>3
<1> HIDE DEF c
<1>11. /\ c \o b \in Seq(Level) /\ DOMAIN (c \o b) = 1 .. Len(levels) + 1
       /\ \A k \in 1 .. Len(levels) + 1 :
             (c \o b)[k] = IF k < i THEN levels[k] ELSE IF k = i THEN new ELSE levels[k - 1]
  <2>1. /\ c \o b \in Seq(Level) /\ Len(c \o b) = Len(c) + Len(b)
        /\ \A k \in 1 .. Len(c) + Len(b) :
              (c \o b)[k] = IF k <= Len(c) THEN c[k] ELSE b[k - Len(c)]
    BY <1>7, <1>10, ConcatProperties
  <2>2. Len(c) + Len(b) = Len(levels) + 1
    BY <1>1, <1>i, <1>7, <1>10
  <2>3. DOMAIN (c \o b) = 1 .. Len(levels) + 1
    BY <2>1, <2>2, LenProperties
  <2>4. ASSUME NEW k \in 1 .. Len(levels) + 1
        PROVE  (c \o b)[k] = IF k < i THEN levels[k] ELSE IF k = i THEN new ELSE levels[k - 1]
    <3>1. (c \o b)[k] = IF k <= i THEN c[k] ELSE b[k - i]
      BY <1>10, <2>1, <2>2
    <3>2. CASE k <= i
      BY <1>1, <1>i, <1>10, <3>1, <3>2
    <3>3. CASE ~(k <= i)
      <4>1. k - i \in 1 .. Len(levels) - i + 1 /\ k - i + i - 1 = k - 1
        BY <1>1, <1>i, <3>3
      <4>2. b[k - i] = levels[k - i + i - 1]
        BY <1>7, <4>1
      <4>3. ~(k < i) /\ k # i
        BY <1>1, <1>i, <3>3
      <4>4. (c \o b)[k] = levels[k - 1]
        BY <3>1, <3>3, <4>1, <4>2
      <4> QED
        BY <4>3, <4>4
    <3> QED
      BY <3>2, <3>3
  <2> QED
    BY <2>1, <2>3, <2>4
<1> QED
  BY <1>9, <1>11 DEF c

\* A level put in where the scan stopped, no level having its price.
LEMMA InsertedSorted ==
    ASSUME NEW side, NEW levels \in Seq(Level), Sorted(side, levels), NEW new \in Level,
           NEW i, i = Scan(levels, side, new.price),
           i <= Len(levels) => levels[i].price # new.price
    PROVE  InsertAt(levels, i, new) \in Seq(Level) /\ Sorted(side, InsertAt(levels, i, new))
<1> DEFINE more == InsertAt(levels, i, new)
<1>1. Len(levels) \in Nat /\ DOMAIN levels = 1 .. Len(levels)
  BY LenProperties
<1>2. \A k \in 1 .. Len(levels) : levels[k] \in Level
  BY ElementOfSeq
<1>3. new.price \in Int /\ \A k \in 1 .. Len(levels) : levels[k].price \in Int
  BY <1>2 DEF Level
<1>4. /\ i \in 1 .. Len(levels) + 1
      /\ \A j \in 1 .. Len(levels) : j < i => Better(side, levels[j].price, new.price)
      /\ i <= Len(levels) => Better(side, new.price, levels[i].price)
  BY <1>3, ScanStops DEF Better
<1>5. \A j \in 1 .. Len(levels) : j >= i => Better(side, new.price, levels[j].price)
  BY <1>1, <1>3, <1>4 DEF Sorted, Better
<1>i. i \in 1 .. Len(levels) + 1
  BY <1>4
<1>11. /\ more \in Seq(Level) /\ DOMAIN more = 1 .. Len(levels) + 1
       /\ \A k \in 1 .. Len(levels) + 1 :
             more[k] = IF k < i THEN levels[k] ELSE IF k = i THEN new ELSE levels[k - 1]
  BY <1>i, InsertedAt
<1> HIDE DEF more
<1>12. ASSUME NEW j \in 1 .. Len(levels) + 1, NEW k \in 1 .. Len(levels) + 1, j < k
       PROVE  Better(side, more[j].price, more[k].price)
  <2> DEFINE from(m) == IF m < i THEN m ELSE m - 1
  <2>0. j \in Int /\ k \in Int /\ i \in Int
    BY <1>1, <1>i
  <2>1. CASE j = i
    <3>1. k > i /\ k - 1 \in 1 .. Len(levels) /\ k - 1 >= i
      BY <1>1, <1>i, <1>12, <2>1
    <3>2. more[j] = new /\ more[k] = levels[k - 1]
      BY <1>11, <2>0, <2>1, <3>1
    <3> QED
      BY <1>5, <3>1, <3>2
  <2>2. CASE k = i
    <3>1. j < i /\ j \in 1 .. Len(levels)
      BY <1>1, <1>i, <1>12, <2>2
    <3>2. more[j] = levels[j] /\ more[k] = new
      BY <1>11, <2>0, <2>2, <3>1
    <3> QED
      BY <1>4, <3>1, <3>2
  <2>3. CASE j # i /\ k # i
    <3>1. from(j) \in 1 .. Len(levels) /\ from(k) \in 1 .. Len(levels) /\ from(j) < from(k)
      BY <1>1, <1>i, <1>12, <2>3
    <3>2. more[j] = levels[from(j)] /\ more[k] = levels[from(k)]
      BY <1>11, <2>3
    <3> HIDE DEF from
    <3> QED
      BY <1>1, <3>1, <3>2 DEF Sorted
  <2> QED
    BY <2>1, <2>2, <2>3
<1>13. Sorted(side, more)
  BY <1>11, <1>12 DEF Sorted
<1> QED
  BY <1>11, <1>13 DEF more

\* A level's quantity and count rewritten: the same prices in the same places.
\* (Operators of their own keep records and updates whole in the steps that use them.)
Rewrite(levels, i, qty, count) == [levels EXCEPT ![i].qty = qty, ![i].count = count]
TheRecord(price, qty, count) == [price |-> price, qty |-> qty, count |-> count]

LEMMA RewrittenRecord ==
    ASSUME NEW l \in Level, NEW qty \in Int, NEW count \in Int
    PROVE  [l EXCEPT !.qty = qty, !.count = count] = TheRecord(l.price, qty, count)
<1> DEFINE r == [l EXCEPT !.qty = qty, !.count = count]
<1>1. r \in Level /\ r.price = l.price /\ r.qty = qty /\ r.count = count
  BY DEF Level
<1> HIDE DEF r
<1>2. r = [price |-> r.price, qty |-> r.qty, count |-> r.count]
  BY <1>1 DEF Level
<1> QED
  BY <1>1, <1>2 DEF TheRecord, r

LEMMA RewrittenLevel ==
    ASSUME NEW side, NEW levels \in Seq(Level), Sorted(side, levels),
           NEW i \in 1 .. Len(levels), NEW qty \in Int, NEW count \in Int
    PROVE  /\ Rewrite(levels, i, qty, count) \in Seq(Level)
           /\ Sorted(side, Rewrite(levels, i, qty, count))
           /\ Len(Rewrite(levels, i, qty, count)) = Len(levels)
           /\ Rewrite(levels, i, qty, count)[i] = TheRecord(levels[i].price, qty, count)
           /\ \A k \in 1 .. Len(levels) : k # i => Rewrite(levels, i, qty, count)[k] = levels[k]
<1> DEFINE new == Rewrite(levels, i, qty, count)
           level == TheRecord(levels[i].price, qty, count)
<1>1. Len(levels) \in Nat /\ DOMAIN levels = 1 .. Len(levels) /\ levels \in [1 .. Len(levels) -> Level]
  BY LenProperties
<1>2. new = [levels EXCEPT ![i] = [levels[i] EXCEPT !.qty = qty, !.count = count]]
  BY <1>1 DEF Rewrite
<1>3. [levels[i] EXCEPT !.qty = qty, !.count = count] = level
  BY <1>1, RewrittenRecord
<1>4. new = [levels EXCEPT ![i] = level]
  BY <1>2, <1>3
<1>5. level.price = levels[i].price /\ level \in Level
  BY <1>1 DEF TheRecord, Level
<1> HIDE DEF level, new
<1>6. new \in [1 .. Len(levels) -> Level]
  BY <1>1, <1>4, <1>5
<1>7. new \in Seq(Level) /\ Len(new) = Len(levels)
  BY <1>4, <1>5, ExceptSeq
<1>8. new[i] = level /\ \A k \in 1 .. Len(levels) : k # i => new[k] = levels[k]
  BY <1>1, <1>4
<1>9. \A j \in 1 .. Len(levels) : new[j].price = levels[j].price
  BY <1>5, <1>8
<1>10. Sorted(side, new)
  BY <1>1, <1>6, <1>9, SamePrices
<1> QED
  BY <1>7, <1>8, <1>10 DEF level, new

\* on_add's find_or_insert_level.
LEMMA WithLevelSorted ==
    ASSUME NEW side, NEW levels \in Seq(Level), Sorted(side, levels), NEW price \in Int
    PROVE  /\ WithLevel(levels, side, price) \in Seq(Level)
           /\ Sorted(side, WithLevel(levels, side, price))
<1> DEFINE new == [price |-> price, qty |-> 0, count |-> 0]
<1>1. new \in Level /\ new.price = price
  BY DEF Level
<1>2. CASE \/ Scan(levels, side, price) <= Len(levels) /\ levels[Scan(levels, side, price)].price = price
           \/ Len(levels) >= MaxLevels
  BY <1>2 DEF WithLevel
<1>3. CASE /\ ~(Scan(levels, side, price) <= Len(levels)
                 /\ levels[Scan(levels, side, price)].price = price)
           /\ ~(Len(levels) >= MaxLevels)
  <2>1. WithLevel(levels, side, price) = InsertAt(levels, Scan(levels, side, price), new)
    BY <1>3 DEF WithLevel
  <2> HIDE DEF new
  <2> QED
    BY <1>1, <1>3, <2>1, InsertedSorted
<1> QED
  BY <1>2, <1>3

LEMMA EraseLevelSorted ==
    ASSUME NEW side, NEW levels \in Seq(Level), Sorted(side, levels), NEW price
    PROVE  EraseLevel(levels, price) \in Seq(Level) /\ Sorted(side, EraseLevel(levels, price))
<1>1. CASE FindLevel(levels, price) = 0
  BY <1>1 DEF EraseLevel
<1>2. CASE FindLevel(levels, price) # 0
  <2>1. FindLevel(levels, price) \in 1 .. Len(levels)
    BY <1>2, FindsLevel, LenProperties
  <2> QED
    BY <1>2, <2>1, RemovedSorted DEF EraseLevel
<1> QED
  BY <1>1, <1>2

LEMMA WrapType == \A n \in Int : Wrap(n) \in Int
  BY OrderBookAssumption DEF Wrap

\* remove_qty.
LEMMA RemoveQtySorted ==
    ASSUME NEW side, NEW levels \in Seq(Level), Sorted(side, levels), NEW order \in Order
    PROVE  RemoveQty(levels, order) \in Seq(Level) /\ Sorted(side, RemoveQty(levels, order))
<1> DEFINE i == FindLevel(levels, order.price)
           rest == [levels EXCEPT ![i].qty = Wrap(@ - order.qty), ![i].count = Wrap(@ - 1)]
<1>1. CASE i = 0
  BY <1>1 DEF RemoveQty
<1>2. CASE i # 0
  <2>1. i \in 1 .. Len(levels)
    BY <1>2, FindsLevel, LenProperties
  <2>2. levels[i] \in Level
    BY <2>1, ElementOfSeq
  <2>t. levels[i].qty - order.qty \in Int /\ levels[i].count - 1 \in Int
    BY <2>2 DEF Level, Order
  <2>3. Wrap(levels[i].qty - order.qty) \in Int /\ Wrap(levels[i].count - 1) \in Int
    BY <2>t, WrapType
  <2>4. rest = Rewrite(levels, i, Wrap(levels[i].qty - order.qty), Wrap(levels[i].count - 1))
    BY DEF Rewrite
  <2>5. RemoveQty(levels, order) =
          IF rest[i].count = 0 THEN EraseLevel(rest, order.price) ELSE rest
    BY <1>2 DEF RemoveQty
  <2> HIDE DEF i, rest
  <2>6. rest \in Seq(Level) /\ Sorted(side, rest)
    BY <2>1, <2>3, <2>4, RewrittenLevel
  <2> QED
    BY <2>5, <2>6, EraseLevelSorted
<1> QED
  BY <1>1, <1>2

(* ---- the calls -------------------------------------------------------- *)

\* A call changes one side; the others stay as they are.
LEMMA OneSide ==
    ASSUME NEW b, SortedBook(b), NEW side \in Sides, NEW levels \in Seq(Level), Sorted(side, levels)
    PROVE  SortedBook([b EXCEPT ![side] = levels])
  BY DEF SortedBook

LEMMA OrdersPut ==
    ASSUME \A o \in Resting : orders[o] \in Order, NEW id, NEW order \in Order,
           orders' = Put(id, order)
    PROVE  \A o \in Resting' : orders'[o] \in Order
  BY DEF Put, Resting

LEMMA OrdersErase ==
    ASSUME \A o \in Resting : orders[o] \in Order, NEW id, orders' = Erase(id)
    PROVE  \A o \in Resting' : orders'[o] \in Order
  BY DEF Erase, Resting

LEMMA OnAddInv ==
    ASSUME BookInv, NEW id, NEW side \in Sides, NEW price \in Prices, NEW qty \in Quantities,
           OnAdd(id, side, price, qty)
    PROVE  BookInv'
<1> DEFINE levels == WithLevel(book[side], side, price)
           i == Scan(book[side], side, price)
<1>1. price \in Int /\ qty \in Int
  BY OrderBookAssumption
<1>2. book[side] \in Seq(Level) /\ Sorted(side, book[side])
  BY DEF BookInv, SortedBook
<1>3. levels \in Seq(Level) /\ Sorted(side, levels)
  BY <1>1, <1>2, WithLevelSorted
<1>4. \A o \in Resting' : orders'[o] \in Order
  <2>1. [side |-> side, price |-> price, qty |-> qty] \in Order
    BY <1>1 DEF Order
  <2> QED
    BY <2>1, OrdersPut DEF BookInv, OnAdd
<1>5. \/ book' = book
      \/ /\ i \in DOMAIN levels
         /\ book' = [book EXCEPT ![side] =
                       [levels EXCEPT ![i].qty = Wrap(@ + qty), ![i].count = Wrap(@ + 1)]]
  BY DEF OnAdd
<1> HIDE DEF levels, i
<1>6. ASSUME i \in DOMAIN levels
      PROVE  SortedBook([book EXCEPT ![side] =
                 [levels EXCEPT ![i].qty = Wrap(@ + qty), ![i].count = Wrap(@ + 1)]])
  <2>1. i \in 1 .. Len(levels) /\ levels[i] \in Level
    BY <1>3, <1>6, LenProperties, ElementOfSeq
  <2>t. levels[i].qty + qty \in Int /\ levels[i].count + 1 \in Int
    BY <1>1, <2>1 DEF Level
  <2>2. Wrap(levels[i].qty + qty) \in Int /\ Wrap(levels[i].count + 1) \in Int
    BY <2>t, WrapType
  <2> DEFINE new == Rewrite(levels, i, Wrap(levels[i].qty + qty), Wrap(levels[i].count + 1))
  <2>3. new \in Seq(Level) /\ Sorted(side, new)
    BY <1>3, <2>1, <2>2, RewrittenLevel
  <2>4. new = [levels EXCEPT ![i].qty = Wrap(@ + qty), ![i].count = Wrap(@ + 1)]
    BY DEF Rewrite
  <2> HIDE DEF new
  <2> QED
    BY <2>3, <2>4, OneSide DEF BookInv
<1> QED
  BY <1>4, <1>5, <1>6 DEF BookInv

LEMMA OnCancelInv ==
    ASSUME BookInv, NEW id, OnCancel(id)
    PROVE  BookInv'
<1>1. orders[id] \in Order /\ orders[id].side \in Sides
  BY DEF BookInv, OnCancel, Order
<1>2. book[orders[id].side] \in Seq(Level) /\ Sorted(orders[id].side, book[orders[id].side])
  BY <1>1 DEF BookInv, SortedBook
<1>3. SortedBook([book EXCEPT ![orders[id].side] = RemoveQty(book[orders[id].side], orders[id])])
  BY <1>1, <1>2, RemoveQtySorted, OneSide DEF BookInv
<1>4. \A o \in Resting' : orders'[o] \in Order
  BY OrdersErase DEF BookInv, OnCancel
<1> QED
  BY <1>3, <1>4 DEF BookInv, OnCancel

\* What on_modify and on_execute leave of the level they find.
LEMMA RewrittenBook ==
    ASSUME NEW b, SortedBook(b), NEW side \in Sides, NEW i \in 1 .. Len(b[side]),
           NEW qty \in Int, NEW count \in Int
    PROVE  /\ SortedBook([b EXCEPT ![side][i].qty = qty])
           /\ SortedBook([b EXCEPT ![side][i].count = count])
<1>1. b[side] \in Seq(Level) /\ Sorted(side, b[side]) /\ DOMAIN b = Sides
  BY DEF SortedBook
<1>2. b[side][i] \in Level /\ DOMAIN b[side] = 1 .. Len(b[side])
  BY <1>1, ElementOfSeq, LenProperties
<1>3. /\ b[side][i].qty \in Int /\ b[side][i].count \in Int
      /\ [b[side][i] EXCEPT !.qty = b[side][i].qty] = b[side][i]
      /\ [b[side][i] EXCEPT !.count = b[side][i].count] = b[side][i]
  BY <1>2 DEF Level
<1>4. LET new == Rewrite(b[side], i, qty, b[side][i].count)
      IN  new \in Seq(Level) /\ Sorted(side, new)
  BY <1>1, <1>3, RewrittenLevel
<1>5. LET new == Rewrite(b[side], i, b[side][i].qty, count)
      IN  new \in Seq(Level) /\ Sorted(side, new)
  BY <1>1, <1>3, RewrittenLevel
<1>6. /\ Rewrite(b[side], i, qty, b[side][i].count) = [b[side] EXCEPT ![i].qty = qty]
      /\ Rewrite(b[side], i, b[side][i].qty, count) = [b[side] EXCEPT ![i].count = count]
  BY <1>1, <1>2 DEF Level, Rewrite
<1>7. /\ [b[side] EXCEPT ![i].qty = qty] \in Seq(Level) /\ Sorted(side, [b[side] EXCEPT ![i].qty = qty])
      /\ [b[side] EXCEPT ![i].count = count] \in Seq(Level) /\ Sorted(side, [b[side] EXCEPT ![i].count = count])
  BY <1>4, <1>5, <1>6
<1> QED
  BY <1>7, OneSide

LEMMA OnModifyInv ==
    ASSUME BookInv, NEW id, NEW newQty \in Quantities, OnModify(id, newQty)
    PROVE  BookInv'
<1> DEFINE loc == orders[id]
           i == FindLevel(book[loc.side], loc.price)
<1>1. loc \in Order /\ loc.side \in Sides /\ loc.qty \in Int /\ newQty \in Int
  BY OrderBookAssumption DEF BookInv, OnModify, Order
<1>2. i \in 1 .. Len(book[loc.side]) /\ book[loc.side][i] \in Level
  <2>1. book[loc.side] \in Seq(Level) /\ i # 0
    BY <1>1 DEF BookInv, SortedBook, OnModify
  <2> HIDE DEF loc
  <2>2. i \in 1 .. Len(book[loc.side])
    BY <2>1, FindsLevel, LenProperties
  <2> QED
    BY <2>1, <2>2, ElementOfSeq
<1>3. Wrap(book[loc.side][i].qty - loc.qty + newQty) \in Int
  <2>1. book[loc.side][i].qty - loc.qty + newQty \in Int
    BY <1>1, <1>2 DEF Level
  <2> QED
    BY <2>1, WrapType
<1>4. /\ book' = [book EXCEPT ![loc.side][i].qty = Wrap(book[loc.side][i].qty - loc.qty + newQty)]
      /\ orders' = Put(id, [loc EXCEPT !.qty = newQty])
  BY DEF OnModify
<1>5. [loc EXCEPT !.qty = newQty] \in Order
  BY <1>1 DEF Order
<1> HIDE DEF loc, i
<1>6. SortedBook(book')
  BY <1>1, <1>2, <1>3, <1>4, RewrittenBook DEF BookInv
<1>7. \A o \in Resting' : orders'[o] \in Order
  BY <1>4, <1>5, OrdersPut DEF BookInv
<1> QED
  BY <1>6, <1>7 DEF BookInv

LEMMA OnExecuteInv ==
    ASSUME BookInv, NEW id, NEW execQty \in Quantities, OnExecute(id, execQty)
    PROVE  BookInv'
<1> DEFINE loc == orders[id]
           i == FindLevel(book[loc.side], loc.price)
           left == Wrap(loc.qty - execQty)
           rest == [book EXCEPT ![loc.side][i].qty = Wrap(@ - execQty)]
           gone == [rest EXCEPT ![loc.side][i].count = Wrap(@ - 1)]
<1>1. loc \in Order /\ loc.side \in Sides /\ loc.qty \in Int /\ execQty \in Int
  <2>1. id \in Resting /\ loc \in Order
    BY DEF BookInv, OnExecute
  <2> QED
    BY <2>1, OrderBookAssumption DEF Order
<1>2. i \in 1 .. Len(book[loc.side]) /\ book[loc.side][i] \in Level
  <2>1. book[loc.side] \in Seq(Level) /\ i # 0
    BY <1>1 DEF BookInv, SortedBook, OnExecute
  <2> HIDE DEF loc
  <2>2. i \in 1 .. Len(book[loc.side])
    BY <2>1, FindsLevel, LenProperties
  <2> QED
    BY <2>1, <2>2, ElementOfSeq
<1>3. left \in Int /\ [loc EXCEPT !.qty = left] \in Order
  <2>1. loc.qty - execQty \in Int
    BY <1>1
  <2>2. left \in Int
    BY <2>1, WrapType
  <2> QED
    BY <1>1, <2>2 DEF Order
<1>4. \/ book' = rest /\ orders' = Put(id, [loc EXCEPT !.qty = left])
      \/ /\ orders' = Erase(id)
         /\ \/ book' = gone
            \/ \E ref \in AfterErase(id) :
                  book' = [gone EXCEPT ![ref.side] = EraseLevel(@, ref.price)]
  BY DEF OnExecute
<1>5. SortedBook(rest) /\ Len(rest[loc.side]) = Len(book[loc.side])
  <2> HIDE DEF loc, i
  <2>1. book[loc.side][i].qty - execQty \in Int
    BY <1>1, <1>2 DEF Level
  <2>2. Wrap(book[loc.side][i].qty - execQty) \in Int
    BY <2>1, WrapType
  <2>3. rest = [book EXCEPT ![loc.side][i].qty = Wrap(book[loc.side][i].qty - execQty)]
    OBVIOUS
  <2>4. SortedBook(rest)
    BY <1>1, <1>2, <2>2, <2>3, RewrittenBook DEF BookInv
  <2>5. DOMAIN rest[loc.side] = DOMAIN book[loc.side]
    BY <1>1 DEF BookInv, SortedBook
  <2>6. rest[loc.side] \in Seq(Level) /\ book[loc.side] \in Seq(Level)
    BY <1>1, <2>4 DEF BookInv, SortedBook
  <2> HIDE DEF rest
  <2> QED
    BY <2>4, <2>5, <2>6, LenProperties
<1>6. SortedBook(gone)
  <2> HIDE DEF loc, i, rest
  <2>1. i \in 1 .. Len(rest[loc.side]) /\ rest[loc.side] \in Seq(Level)
    BY <1>1, <1>2, <1>5 DEF SortedBook
  <2>2. rest[loc.side][i] \in Level
    BY <2>1, ElementOfSeq
  <2>3. rest[loc.side][i].count - 1 \in Int
    BY <2>2 DEF Level
  <2>4. Wrap(rest[loc.side][i].count - 1) \in Int
    BY <2>3, WrapType
  <2>5. gone = [rest EXCEPT ![loc.side][i].count = Wrap(rest[loc.side][i].count - 1)]
    OBVIOUS
  <2>6. rest[loc.side][i].qty \in Int
    BY <2>2 DEF Level
  <2> HIDE DEF gone
  <2> QED
    BY <1>1, <1>5, <2>1, <2>4, <2>5, <2>6, RewrittenBook
<1> HIDE DEF loc, i, left, rest, gone
<1>7. ASSUME NEW ref \in AfterErase(id)
      PROVE  SortedBook([gone EXCEPT ![ref.side] = EraseLevel(@, ref.price)])
  <2>1. ref \in Order /\ ref.side \in Sides
    BY DEF AfterErase, BookInv, OnExecute, Order
  <2>2. gone[ref.side] \in Seq(Level) /\ Sorted(ref.side, gone[ref.side])
    BY <1>6, <2>1 DEF SortedBook
  <2> QED
    BY <1>6, <2>1, <2>2, EraseLevelSorted, OneSide
<1>8. SortedBook(book')
  BY <1>4, <1>5, <1>6, <1>7
<1>9. \A o \in Resting' : orders'[o] \in Order
  BY <1>3, <1>4, OrdersPut, OrdersErase DEF BookInv
<1> QED
  BY <1>8, <1>9 DEF BookInv

(* ---- best first -------------------------------------------------------- *)

\* Every side stays sorted best first without two levels of one price, and every
\* order in the table names a side of the book: what on_add, on_cancel, on_modify
\* and on_execute keep, the erase through a stale entry included.
THEOREM BookInvariant == BookSpec => []BookInv
<1>1. BookInit => BookInv
  <2> SUFFICES ASSUME BookInit PROVE BookInv
    OBVIOUS
  <2>1. book \in [Sides -> Seq(Level)]
    BY EmptySeq DEF BookInit
  <2>2. \A side \in Sides : Sorted(side, book[side])
    BY DEF BookInit, Sorted
  <2> QED
    BY <2>1, <2>2 DEF BookInit, BookInv, SortedBook, Resting
<1>2. BookInv /\ [BookNext]_bookVars => BookInv'
  <2> SUFFICES ASSUME BookInv, [BookNext]_bookVars PROVE BookInv'
    OBVIOUS
  <2>1. CASE AnyCall
    BY <2>1, OnAddInv, OnCancelInv, OnModifyInv, OnExecuteInv DEF AnyCall
  <2>2. CASE FeedCall
    BY <2>2, OnAddInv, OnCancelInv, OnModifyInv, OnExecuteInv DEF FeedCall
  <2>3. CASE UNCHANGED bookVars
    BY <2>3 DEF bookVars, BookInv, Resting
  <2> QED
    BY <2>1, <2>2, <2>3 DEF BookNext, FeedStep
<1> QED
  BY <1>1, <1>2, PTL DEF BookSpec

\* best_bid() and best_ask() return the best price of their side, and no price has
\* two levels, after any calls whatever and for any sizes of the book.
THEOREM BestStaysFirst == BookSpec => []BestFirst
<1>1. BookInv => BestFirst
  BY DEF BookInv, SortedBook, Sorted, BestFirst
<1> QED
  BY <1>1, BookInvariant, PTL

(* ---- sums over orders -------------------------------------------------- *)

\* The sum that LevelsAreOrders takes, of the orders o over ids; what it picks
\* first; and the equation of its recursive function.
Total(o, ids) == MapThenSumSet(LAMBDA id : o[id].qty, ids)
First(ids) == CHOOSE id \in ids : TRUE
Sums(o, S, g) ==
    g = [s \in SUBSET S |-> IF s = {} THEN 0 ELSE o[First(s)].qty + g[s \ {First(s)}]]
IntQty(o, ids) == \A id \in ids : o[id].qty \in Int

\* Of finite sets there is one with the fewest elements.
LEMMA Smallest ==
    ASSUME NEW F, F # {}, \A T \in F : IsFiniteSet(T)
    PROVE  \E T \in F : \A U \in F : Cardinality(T) <= Cardinality(U)
<1> DEFINE I == {Cardinality(T) : T \in F}
<1>1. I \subseteq Nat /\ I # {}
  BY FS_CardinalityType
<1>2. Min(I) \in I /\ \A i \in I : Min(I) <= i
  BY <1>1, MinOfNats
<1> QED
  BY <1>2

\* A set without its first element is smaller.
LEMMA RestingStays ==
    ASSUME NEW T, IsFiniteSet(T), T # {}
    PROVE  /\ First(T) \in T /\ IsFiniteSet(T \ {First(T)})
           /\ Cardinality(T) \in Nat /\ Cardinality(T \ {First(T)}) = Cardinality(T) - 1
<1>1. First(T) \in T
  BY DEF First
<1> QED
  BY <1>1, FS_RemoveElement, FS_CardinalityType

\* The recursive function exists: it is built up one size of set at a time.
LEMMA SumsExist ==
    ASSUME NEW o, NEW S, IsFiniteSet(S)
    PROVE  \E g : Sums(o, S, g)
<1> DEFINE D(n) == {s \in SUBSET S : Cardinality(s) <= n}
           Eq(g, s) == g[s] = IF s = {} THEN 0 ELSE o[First(s)].qty + g[s \ {First(s)}]
           Good(n) == \E g : g = [s \in D(n) |-> g[s]] /\ \A s \in D(n) : Eq(g, s)
           Bad == {n \in Nat : ~Good(n)}
<1>1. \A s \in SUBSET S : IsFiniteSet(s) /\ Cardinality(s) \in Nat /\ Cardinality(s) <= Cardinality(S)
  BY FS_Subset, FS_CardinalityType
<1>2. Good(0)
  <2> DEFINE g == [s \in D(0) |-> 0]
  <2>1. \A s \in D(0) : s = {}
    BY <1>1, FS_EmptySet
  <2>2. g = [s \in D(0) |-> g[s]] /\ \A s \in D(0) : Eq(g, s)
    BY <2>1
  <2> HIDE DEF g, D, Eq
  <2> QED
    BY <2>2
<1>3. ASSUME NEW n \in Nat, Good(n)
      PROVE  Good(n + 1)
  <2>1. PICK g : g = [s \in D(n) |-> g[s]] /\ \A s \in D(n) : Eq(g, s)
    BY <1>3
  <2> DEFINE h == [s \in D(n + 1) |-> IF s = {} THEN 0 ELSE o[First(s)].qty + g[s \ {First(s)}]]
  <2>2. ASSUME NEW s \in D(n + 1)
        PROVE  Eq(h, s)
    <3>1. CASE s = {}
      BY <3>1
    <3>2. CASE s # {}
      <4>1. First(s) \in s /\ s \ {First(s)} \in D(n) /\ s \ {First(s)} \in D(n + 1)
        BY <1>1, <3>2, RestingStays
      <4>2. h[s \ {First(s)}] = g[s \ {First(s)}]
        BY <2>1, <4>1
      <4>3. h[s] = o[First(s)].qty + g[s \ {First(s)}]
        BY <3>2
      <4> QED
        BY <3>2, <4>2, <4>3
    <3> QED
      BY <3>1, <3>2
  <2>3. h = [s \in D(n + 1) |-> h[s]]
    OBVIOUS
  <2> HIDE DEF h, D, Eq
  <2> QED
    BY <2>2, <2>3
<1> HIDE DEF Good
<1>4. Bad = {}
  <2> SUFFICES ASSUME Bad # {} PROVE FALSE
    OBVIOUS
  <2>1. Min(Bad) \in Bad /\ \A n \in Bad : Min(Bad) <= n
    BY MinOfNats
  <2>2. Min(Bad) # 0
    BY <1>2, <2>1
  <2> DEFINE m == Min(Bad) - 1
  <2>3. m \in Nat /\ m + 1 = Min(Bad) /\ ~(Min(Bad) <= m)
    BY <2>1, <2>2
  <2>4. Good(m)
    BY <2>1, <2>3
  <2> HIDE DEF m
  <2> QED
    BY <1>3, <2>1, <2>3, <2>4
<1>5. Good(Cardinality(S)) /\ D(Cardinality(S)) = SUBSET S
  BY <1>1, <1>4
<1>6. PICK g : g = [s \in SUBSET S |-> g[s]] /\ \A s \in SUBSET S : Eq(g, s)
  BY <1>5 DEF Good
<1>7. Sums(o, S, g)
  BY <1>6 DEF Sums
<1> QED
  BY <1>7

\* Two such functions agree where their orders do.
LEMMA SumsAgree ==
    ASSUME NEW o, NEW S, NEW g, Sums(o, S, g), NEW p, NEW R, NEW h, Sums(p, R, h),
           NEW T, T \subseteq S, T \subseteq R, IsFiniteSet(T),
           IntQty(o, T), \A id \in T : p[id].qty = o[id].qty
    PROVE  g[T] = h[T] /\ g[T] \in Int
<1> DEFINE F == {U \in SUBSET T : ~(g[U] = h[U] /\ g[U] \in Int)}
<1>1. \A U \in SUBSET T : IsFiniteSet(U)
  BY FS_Subset
<1>2. ASSUME NEW U \in SUBSET T
      PROVE  /\ g[U] = IF U = {} THEN 0 ELSE o[First(U)].qty + g[U \ {First(U)}]
             /\ h[U] = IF U = {} THEN 0 ELSE p[First(U)].qty + h[U \ {First(U)}]
  BY DEF Sums
<1>3. F = {}
  <2> SUFFICES ASSUME F # {} PROVE FALSE
    OBVIOUS
  <2>1. PICK U \in F : \A V \in F : Cardinality(U) <= Cardinality(V)
    BY <1>1, Smallest
  <2>2. U # {}
    <3>1. U = {} => g[U] = 0 /\ h[U] = 0
      BY <1>2, <2>1
    <3> QED
      BY <2>1, <3>1
  <2> DEFINE V == U \ {First(U)}
  <2>3. First(U) \in U /\ V \in SUBSET T /\ ~(Cardinality(U) <= Cardinality(V))
    <3>1. IsFiniteSet(U)
      BY <1>1, <2>1
    <3>2. First(U) \in U /\ Cardinality(U) \in Nat /\ Cardinality(V) = Cardinality(U) - 1
      BY <2>2, <3>1, RestingStays
    <3> HIDE DEF F
    <3> QED
      BY <2>1, <3>2 DEF F
  <2>4. g[V] = h[V] /\ g[V] \in Int
    BY <2>1, <2>3
  <2>5. g[U] = o[First(U)].qty + g[V] /\ h[U] = p[First(U)].qty + h[V]
    BY <1>2, <2>1, <2>2
  <2>6. p[First(U)].qty = o[First(U)].qty /\ o[First(U)].qty \in Int
    BY <2>1, <2>3 DEF IntQty
  <2> HIDE DEF V
  <2> QED
    BY <2>1, <2>4, <2>5, <2>6
<1> QED
  BY <1>3

\* Total is the value of such a function.
LEMMA TotalSums ==
    ASSUME NEW o, NEW S, IsFiniteSet(S)
    PROVE  \E g : Sums(o, S, g) /\ Total(o, S) = g[S]
<1> DEFINE g == CHOOSE f : Sums(o, S, f)
<1>1. Total(o, S) = g[S]
  BY DEF Total, MapThenSumSet, MapThenFoldSet, Sums, First
<1>2. Sums(o, S, g)
  BY SumsExist
<1> QED
  BY <1>1, <1>2

LEMMA TotalType ==
    ASSUME NEW o, NEW S, IsFiniteSet(S), IntQty(o, S)
    PROVE  Total(o, S) \in Int
  BY TotalSums, SumsAgree

\* The sum depends on the orders summed and on nothing else.
LEMMA TotalSame ==
    ASSUME NEW o, NEW p, NEW S, IsFiniteSet(S), IntQty(o, S), \A id \in S : p[id].qty = o[id].qty
    PROVE  Total(p, S) = Total(o, S)
<1>1. PICK g : Sums(o, S, g) /\ Total(o, S) = g[S]
  BY TotalSums
<1>2. PICK h : Sums(p, S, h) /\ Total(p, S) = h[S]
  BY TotalSums
<1> QED
  BY <1>1, <1>2, SumsAgree

\* No order, no quantity.
LEMMA TotalEmpty == \A o : Total(o, {}) = 0
<1> TAKE o
<1>1. PICK g : Sums(o, {}, g) /\ Total(o, {}) = g[{}]
  BY TotalSums, FS_EmptySet
<1> QED
  BY <1>1 DEF Sums

LEMMA TotalFirst ==
    ASSUME NEW o, NEW S, IsFiniteSet(S), IntQty(o, S), S # {}
    PROVE  Total(o, S) = o[First(S)].qty + Total(o, S \ {First(S)})
<1> DEFINE R == S \ {First(S)}
<1>1. PICK g : Sums(o, S, g) /\ Total(o, S) = g[S]
  BY TotalSums
<1>2. IsFiniteSet(R)
  BY RestingStays
<1>3. PICK h : Sums(o, R, h) /\ Total(o, R) = h[R]
  BY <1>2, TotalSums
<1>4. g[R] = h[R]
  BY <1>1, <1>2, <1>3, SumsAgree DEF IntQty
<1>5. g[S] = o[First(S)].qty + g[R]
  BY <1>1 DEF Sums
<1> QED
  BY <1>1, <1>3, <1>4, <1>5

\* Any order may be taken out first.
LEMMA TotalRemove ==
    ASSUME NEW o, NEW S, IsFiniteSet(S), IntQty(o, S), NEW x \in S
    PROVE  Total(o, S) = o[x].qty + Total(o, S \ {x})
<1> DEFINE F == {U \in SUBSET S : \E y \in U : Total(o, U) # o[y].qty + Total(o, U \ {y})}
<1>1. \A U \in SUBSET S : IsFiniteSet(U) /\ IntQty(o, U) /\ Total(o, U) \in Int
  BY FS_Subset, TotalType DEF IntQty
<1>2. F = {}
  <2> SUFFICES ASSUME F # {} PROVE FALSE
    OBVIOUS
  <2>1. PICK U \in F : \A V \in F : Cardinality(U) <= Cardinality(V)
    BY <1>1, Smallest
  <2>2. PICK y \in U : Total(o, U) # o[y].qty + Total(o, U \ {y})
    BY <2>1
  <2> DEFINE f == First(U)
             V == U \ {f}
             W == U \ {y}
             VW == U \ {f, y}
  <2>3. f \in U /\ V \in SUBSET S /\ ~(Cardinality(U) <= Cardinality(V))
    BY <1>1, <2>1, <2>2, RestingStays
  <2>4. Total(o, U) = o[f].qty + Total(o, V)
    BY <1>1, <2>1, <2>2, TotalFirst
  <2>5. f # y
    BY <2>2, <2>4
  <2>6. Cardinality(W) = Cardinality(V)
    BY <1>1, <2>1, <2>2, <2>3, FS_RemoveElement
  <2>7. ~(Cardinality(U) <= Cardinality(W)) /\ W \in SUBSET S
    BY <2>1, <2>3, <2>6
  <2>8. V \notin F /\ W \notin F
    BY <2>1, <2>3, <2>7
  <2>9. y \in V /\ V \ {y} = VW /\ f \in W /\ W \ {f} = VW
    BY <2>2, <2>3, <2>5
  <2>10. Total(o, V) = o[y].qty + Total(o, VW)
    BY <2>3, <2>8, <2>9
  <2>11. Total(o, W) = o[f].qty + Total(o, VW)
    BY <2>7, <2>8, <2>9
  <2>12. o[f].qty \in Int /\ o[y].qty \in Int /\ Total(o, VW) \in Int
    BY <1>1, <2>1, <2>2, <2>3 DEF IntQty
  <2> HIDE DEF f, V, W, VW
  <2>13. Total(o, U) = o[y].qty + Total(o, W)
    BY <2>4, <2>10, <2>11, <2>12
  <2> QED
    BY <2>2, <2>13 DEF W
<1> QED
  BY <1>2

\* One order more, which is not among the others.
LEMMA TotalAdd ==
    ASSUME NEW o, NEW S, IsFiniteSet(S), NEW x, x \notin S, IntQty(o, S \cup {x})
    PROVE  Total(o, S \cup {x}) = Total(o, S) + o[x].qty
<1>1. IsFiniteSet(S \cup {x}) /\ (S \cup {x}) \ {x} = S
  BY FS_AddElement
<1>2. Total(o, S \cup {x}) = o[x].qty + Total(o, S)
  BY <1>1, TotalRemove
<1>3. Total(o, S) \in Int /\ o[x].qty \in Int
  BY TotalType DEF IntQty
<1> QED
  BY <1>2, <1>3

(* ---- quantities modulo their word ------------------------------------- *)

LEMMA WrapIs ==
    ASSUME NEW n \in Int
    PROVE  Wrap(n) \in 0 .. WordModulus - 1 /\ \E k \in Int : n = WordModulus * k + Wrap(n)
<1>1. /\ n % WordModulus \in 0 .. WordModulus - 1 /\ n \div WordModulus \in Int
      /\ n = WordModulus * (n \div WordModulus) + (n % WordModulus)
  BY OrderBookAssumption
<1> QED
  BY <1>1 DEF Wrap

LEMMA WrapOnly ==
    ASSUME NEW k \in Int, NEW r \in 0 .. WordModulus - 1
    PROVE  Wrap(WordModulus * k + r) = r
<1> DEFINE n == WordModulus * k + r
<1>0. WordModulus \in Nat \ {0}
  BY OrderBookAssumption
<1>1. n \in Int /\ WordModulus * k \in Int
  BY <1>0
<1>2. PICK j \in Int : n = WordModulus * j + Wrap(n)
  BY <1>1, WrapIs
<1>3. Wrap(n) \in 0 .. WordModulus - 1
  BY <1>1, WrapIs
<1>4. WordModulus * (k - j) = Wrap(n) - r
  BY <1>0, <1>1, <1>2, <1>3
<1>5. \A d \in Int : WordModulus * d > -WordModulus /\ WordModulus * d < WordModulus => d = 0
  BY <1>0
<1>6. k - j = 0
  BY <1>0, <1>3, <1>4, <1>5
<1> QED
  BY <1>0, <1>2, <1>3, <1>6

\* A number of the word is itself.
LEMMA WrapSmall == \A r \in 0 .. WordModulus - 1 : Wrap(r) = r
<1> TAKE r \in 0 .. WordModulus - 1
<1>1. Wrap(WordModulus * 0 + r) = r
  BY WrapOnly
<1> QED
  BY <1>1, OrderBookAssumption

\* Reducing before an addition changes nothing.
LEMMA WrapAdd ==
    ASSUME NEW a \in Int, NEW b \in Int
    PROVE  Wrap(Wrap(a) + b) = Wrap(a + b)
<1>0. WordModulus \in Nat \ {0}
  BY OrderBookAssumption
<1>1. PICK i \in Int : a = WordModulus * i + Wrap(a)
  BY WrapIs
<1>t. Wrap(a) + b \in Int /\ Wrap(a) \in Int
  BY WrapIs, <1>0
<1>2. PICK j \in Int : Wrap(a) + b = WordModulus * j + Wrap(Wrap(a) + b)
  BY <1>t, WrapIs
<1>3. Wrap(Wrap(a) + b) \in 0 .. WordModulus - 1
  BY <1>t, WrapIs
<1>4. a + b = WordModulus * (i + j) + Wrap(Wrap(a) + b)
  <2>1. WordModulus * (i + j) = WordModulus * i + WordModulus * j
    BY <1>0
  <2>2. WordModulus * i \in Int /\ WordModulus * j \in Int
    BY <1>0
  <2> DEFINE x == WordModulus * i
             y == WordModulus * j
             w == Wrap(a)
             v == Wrap(w + b)
  <2>3. x \in Int /\ y \in Int /\ w \in Int /\ v \in Int /\ a = x + w /\ w + b = y + v
    BY <1>0, <1>1, <1>t, <1>2, <1>3, <2>2
  <2> HIDE DEF x, y, w, v
  <2>4. a + b = x + y + v
    BY <2>3
  <2> QED
    BY <2>1, <2>4 DEF x, y, w, v
<1> QED
  BY <1>3, <1>4, WrapOnly

(* ---- the levels as a set ----------------------------------------------- *)

\* The levels of one price, and the others.
Of(levels, price) == {l \in Range(levels) : l.price = price}
But(levels, price) == {l \in Range(levels) : l.price # price}
Only(l) == {l}

\* A sorted side has at most one level of a price, and find_level finds it.
LEMMA OneOfAPrice ==
    ASSUME NEW side, NEW levels \in Seq(Level), Sorted(side, levels),
           NEW i \in 1 .. Len(levels), NEW j \in 1 .. Len(levels),
           levels[i].price = levels[j].price
    PROVE  i = j
<1>1. DOMAIN levels = 1 .. Len(levels) /\ Len(levels) \in Nat
  BY LenProperties
<1>2. levels[i].price \in Int /\ levels[j].price \in Int
  <2>1. levels[i] \in Level /\ levels[j] \in Level
    BY ElementOfSeq
  <2> QED
    BY <2>1 DEF Level
<1>3. \A a, b \in 1 .. Len(levels) : a < b => Better(side, levels[a].price, levels[b].price)
  BY <1>1 DEF Sorted
<1> QED
  BY <1>1, <1>2, <1>3 DEF Better

LEMMA Found ==
    ASSUME NEW side, NEW levels \in Seq(Level), Sorted(side, levels), NEW price,
           NEW i \in 1 .. Len(levels), levels[i].price = price
    PROVE  FindLevel(levels, price) = i /\ Of(levels, price) = {levels[i]}
<1> DEFINE I == {k \in 1 .. Len(levels) : levels[k].price = price}
<1>0. DOMAIN levels = 1 .. Len(levels) /\ Len(levels) \in Nat
  BY LenProperties
<1>1. I = {i}
  BY OneOfAPrice
<1>2. I \subseteq Nat /\ I # {}
  BY <1>0
<1>3. Min(I) \in I
  BY <1>2, MinOfNats
<1>4. FindLevel(levels, price) = IF I # {} THEN Min(I) ELSE 0
  BY DEF FindLevel, SelectInSeq
<1>5. Of(levels, price) = {levels[k] : k \in I}
  BY <1>0 DEF Of, Range
<1> QED
  BY <1>1, <1>2, <1>3, <1>4, <1>5

LEMMA NotFound ==
    ASSUME NEW levels \in Seq(Level), NEW price
    PROVE  FindLevel(levels, price) = 0 <=> Of(levels, price) = {}
<1> DEFINE I == {k \in 1 .. Len(levels) : levels[k].price = price}
<1>0. DOMAIN levels = 1 .. Len(levels) /\ Len(levels) \in Nat
  BY LenProperties
<1>1. I \subseteq Nat
  BY <1>0
<1>2. I # {} => Min(I) \in I
  BY <1>1, MinOfNats
<1>4. FindLevel(levels, price) = IF I # {} THEN Min(I) ELSE 0
  BY DEF FindLevel, SelectInSeq
<1>5. Of(levels, price) = {levels[k] : k \in I}
  BY <1>0 DEF Of, Range
<1> QED
  BY <1>0, <1>2, <1>4, <1>5

\* The scan stops at the level of the price, if there is one.
LEMMA ScanFinds ==
    ASSUME NEW side \in Sides, NEW levels \in Seq(Level), Sorted(side, levels), NEW price \in Int,
           NEW i \in 1 .. Len(levels), levels[i].price = price
    PROVE  Scan(levels, side, price) = i
<1> DEFINE j == Scan(levels, side, price)
<1>0. DOMAIN levels = 1 .. Len(levels) /\ Len(levels) \in Nat
  BY LenProperties
<1>1. /\ j \in 1 .. Len(levels) + 1
      /\ \A k \in 1 .. Len(levels) : k < j => levels[k].price # price
      /\ j <= Len(levels) => levels[j].price = price \/ Better(side, price, levels[j].price)
  BY ScanStops
<1> HIDE DEF j
<1>2. ~(i < j) /\ j <= Len(levels) /\ j \in 1 .. Len(levels)
  BY <1>0, <1>1
<1>3. j < i => Better(side, levels[j].price, price)
  BY <1>0, <1>2 DEF Sorted
<1>4. levels[j].price \in Int
  <2>1. levels[j] \in Level
    BY <1>2, ElementOfSeq
  <2> QED
    BY <2>1 DEF Level
<1>5. ~(j < i)
  BY <1>1, <1>2, <1>3, <1>4 DEF Better
<1> QED
  BY <1>0, <1>2, <1>5 DEF j

\* A level rewritten at its place: the only one of its price, among the same others.
LEMMA RewrittenSet ==
    ASSUME NEW side, NEW levels \in Seq(Level), Sorted(side, levels), NEW i \in 1 .. Len(levels),
           NEW new \in Seq(Level), Sorted(side, new), Len(new) = Len(levels),
           NEW price, levels[i].price = price, NEW l, new[i] = l, l.price = price,
           \A k \in 1 .. Len(levels) : k # i => new[k] = levels[k]
    PROVE  But(new, price) = But(levels, price) /\ Of(new, price) = Only(l)
<1>0. DOMAIN levels = 1 .. Len(levels) /\ DOMAIN new = 1 .. Len(levels)
  BY LenProperties
<1>1. Of(new, price) = Only(l)
  BY Found DEF Only
<1>2. But(new, price) = But(levels, price)
  BY <1>0 DEF But, Range
<1> QED
  BY <1>1, <1>2

LEMMA RemovedSet ==
    ASSUME NEW side, NEW levels \in Seq(Level), Sorted(side, levels), NEW i \in 1 .. Len(levels)
    PROVE  /\ But(RemoveAt(levels, i), levels[i].price) = But(levels, levels[i].price)
           /\ Of(RemoveAt(levels, i), levels[i].price) = {}
<1> DEFINE new == RemoveAt(levels, i)
<1>0. DOMAIN levels = 1 .. Len(levels) /\ Len(levels) \in Nat
  BY LenProperties
<1>1. /\ DOMAIN new = 1 .. Len(levels) - 1
      /\ \A k \in 1 .. Len(levels) - 1 : new[k] = IF k < i THEN levels[k] ELSE levels[k + 1]
  BY RemovedAt
<1> HIDE DEF new
<1>2. Range(new) = {levels[k] : k \in 1 .. Len(levels) \ {i}}
  <2>1. ASSUME NEW k \in 1 .. Len(levels) - 1
        PROVE  \E m \in 1 .. Len(levels) \ {i} : new[k] = levels[m]
    BY <1>0, <1>1
  <2>2. ASSUME NEW m \in 1 .. Len(levels) \ {i}
        PROVE  \E k \in 1 .. Len(levels) - 1 : new[k] = levels[m]
    <3>1. CASE m < i
      <4>1. m \in 1 .. Len(levels) - 1 /\ new[m] = levels[m]
        BY <1>0, <1>1, <3>1
      <4> QED
        BY <4>1
    <3>2. CASE m > i
      <4>1. m - 1 \in 1 .. Len(levels) - 1 /\ ~(m - 1 < i) /\ m - 1 + 1 = m
        BY <1>0, <3>2
      <4>2. new[m - 1] = levels[m]
        BY <1>1, <4>1
      <4> QED
        BY <4>1, <4>2
    <3> QED
      BY <1>0, <3>1, <3>2
  <2> DEFINE rest == {levels[k] : k \in 1 .. Len(levels) \ {i}}
  <2>3. Range(new) = {new[k] : k \in 1 .. Len(levels) - 1}
    BY <1>1 DEF Range
  <2>4. \A k \in 1 .. Len(levels) - 1 : new[k] \in rest
    BY <2>1
  <2>5. \A m \in 1 .. Len(levels) \ {i} : levels[m] \in Range(new)
    BY <2>2, <2>3
  <2>6. Range(new) \subseteq rest
    BY <2>3, <2>4
  <2>7. rest \subseteq Range(new)
    BY <2>5
  <2> QED
    BY <2>6, <2>7
<1>3. \A k \in 1 .. Len(levels) \ {i} : levels[k].price # levels[i].price
  BY OneOfAPrice
<1> QED
  BY <1>0, <1>2, <1>3 DEF But, Of, Range, new

LEMMA InsertedSet ==
    ASSUME NEW levels \in Seq(Level), NEW new \in Level, NEW i \in 1 .. Len(levels) + 1
    PROVE  Range(InsertAt(levels, i, new)) = Range(levels) \cup {new}
<1> DEFINE more == InsertAt(levels, i, new)
<1>0. DOMAIN levels = 1 .. Len(levels) /\ Len(levels) \in Nat
  BY LenProperties
<1>1. /\ DOMAIN more = 1 .. Len(levels) + 1
      /\ \A k \in 1 .. Len(levels) + 1 :
            more[k] = IF k < i THEN levels[k] ELSE IF k = i THEN new ELSE levels[k - 1]
  BY InsertedAt
<1> HIDE DEF more
<1>2. ASSUME NEW k \in 1 .. Len(levels) + 1
      PROVE  more[k] \in {levels[m] : m \in 1 .. Len(levels)} \cup {new}
  <2>1. k < i => k \in 1 .. Len(levels)
    BY <1>0
  <2>2. ~(k < i) /\ k # i => k - 1 \in 1 .. Len(levels)
    BY <1>0
  <2> QED
    BY <1>1, <2>1, <2>2
<1>3. ASSUME NEW m \in 1 .. Len(levels)
      PROVE  \E k \in 1 .. Len(levels) + 1 : more[k] = levels[m]
  <2>1. CASE m < i
    <3>1. m \in 1 .. Len(levels) + 1 /\ more[m] = levels[m]
      BY <1>0, <1>1, <2>1
    <3> QED
      BY <3>1
  <2>2. CASE ~(m < i)
    <3>1. m + 1 \in 1 .. Len(levels) + 1 /\ ~(m + 1 < i) /\ m + 1 # i /\ m + 1 - 1 = m
      BY <1>0, <2>2
    <3>2. more[m + 1] = levels[m]
      BY <1>1, <3>1
    <3> QED
      BY <3>1, <3>2
  <2> QED
    BY <2>1, <2>2
<1>4. i \in 1 .. Len(levels) + 1 /\ more[i] = new
  BY <1>0, <1>1
<1>5. Range(more) = {more[k] : k \in 1 .. Len(levels) + 1}
  BY <1>1 DEF Range
<1>6. Range(levels) = {levels[m] : m \in 1 .. Len(levels)}
  BY <1>0 DEF Range
<1>7. Range(more) \subseteq Range(levels) \cup {new}
  BY <1>2, <1>5, <1>6
<1>8. Range(levels) \cup {new} \subseteq Range(more)
  BY <1>3, <1>4, <1>5, <1>6
<1> QED
  BY <1>7, <1>8 DEF more

(* ---- the levels of a table of orders ------------------------------------ *)

\* LevelsInv's operators on any table of orders.
AtIn(o, side, price) == {id \in DOMAIN o : o[id].side = side /\ o[id].price = price}
LevelIn(o, side, price) ==
    TheRecord(price, Wrap(Total(o, AtIn(o, side, price))), Cardinality(AtIn(o, side, price)))
LevelsIn(o, side) == {LevelIn(o, side, o[id].price) : id \in {x \in DOMAIN o : o[x].side = side}}
Exact(b, o) == \A side \in Sides : Range(b[side]) = LevelsIn(o, side)
OrderTable(o) == IsFiniteSet(DOMAIN o) /\ \A id \in DOMAIN o : o[id] \in Order
OrdersBounded(o) ==
    \A id \in DOMAIN o : /\ o[id].qty \in 1 .. WordModulus - 1
                         /\ Cardinality(AtIn(o, o[id].side, o[id].price)) <= MaxCount

LEMMA LevelsInvIs ==
    /\ LevelsInv <=> /\ illFormed \in Nat /\ IsFiniteSet(DOMAIN orders)
                     /\ illFormed = 0 /\ ~broken => OrdersBounded(orders) /\ Exact(book, orders)
    /\ LevelsInv' <=> /\ illFormed' \in Nat /\ IsFiniteSet(DOMAIN orders')
                      /\ illFormed' = 0 /\ ~broken' => OrdersBounded(orders') /\ Exact(book', orders')
<1>1. \A side, price : /\ LevelOf(side, price) = LevelIn(orders, side, price)
                       /\ At(side, price) = AtIn(orders, side, price)
  BY DEF LevelOf, LevelIn, TheRecord, At, AtIn, Total, Resting
<1>2. \A side, price : /\ LevelOf(side, price)' = LevelIn(orders', side, price)
                       /\ At(side, price)' = AtIn(orders', side, price)
  <2> TAKE side, price
  <2>1. At(side, price)' = AtIn(orders', side, price)
    BY DEF At, AtIn, Resting
  <2>2. LevelOf(side, price)' = LevelIn(orders', side, price)
    BY <2>1 DEF LevelOf, LevelIn, TheRecord, Total, MapThenSumSet, MapThenFoldSet
  <2> QED
    BY <2>1, <2>2
<1>3. FeedOrders = OrdersBounded(orders)
  BY <1>1 DEF FeedOrders, OrdersBounded, Resting
<1>4. FeedOrders' = OrdersBounded(orders')
  BY <1>2 DEF FeedOrders, OrdersBounded, Resting
<1>5. ExactLevels = Exact(book, orders)
  BY SMTT(30), <1>1 DEF ExactLevels, Exact, LevelsIn, Resting
<1>6. ExactLevels' = Exact(book', orders')
  BY SMTT(30), <1>2 DEF ExactLevels, Exact, LevelsIn, Resting
<1> QED
  BY <1>3, <1>4, <1>5, <1>6 DEF LevelsInv, Resting

\* Which levels there are.
LEMMA LevelsInIs ==
    ASSUME NEW o, NEW side, NEW l
    PROVE  l \in LevelsIn(o, side) <=>
               AtIn(o, side, l.price) # {} /\ l = LevelIn(o, side, l.price)
<1>1. \A price : LevelIn(o, side, price).price = price
  BY DEF LevelIn, TheRecord
<1>2. ASSUME l \in LevelsIn(o, side)
      PROVE  AtIn(o, side, l.price) # {} /\ l = LevelIn(o, side, l.price)
  <2>1. PICK id \in DOMAIN o : o[id].side = side /\ l = LevelIn(o, side, o[id].price)
    BY <1>2 DEF LevelsIn
  <2>2. l.price = o[id].price
    BY <1>1, <2>1
  <2>3. id \in AtIn(o, side, l.price)
    BY <2>1, <2>2 DEF AtIn
  <2> QED
    BY <2>1, <2>2, <2>3
<1>3. ASSUME AtIn(o, side, l.price) # {}, l = LevelIn(o, side, l.price)
      PROVE  l \in LevelsIn(o, side)
  <2>1. PICK id \in DOMAIN o : o[id].side = side /\ o[id].price = l.price
    BY <1>3 DEF AtIn
  <2>2. LevelIn(o, side, o[id].price) \in LevelsIn(o, side)
    BY <2>1 DEF LevelsIn
  <2> QED
    BY <1>3, <2>1, <2>2
<1> QED
  BY <1>2, <1>3

\* The sum of a level is one of finitely many whole quantities.
LEMMA AtFinite ==
    ASSUME NEW o, OrderTable(o), NEW side, NEW price
    PROVE  /\ IsFiniteSet(AtIn(o, side, price)) /\ IntQty(o, AtIn(o, side, price))
           /\ Total(o, AtIn(o, side, price)) \in Int /\ Cardinality(AtIn(o, side, price)) \in Nat
<1> DEFINE ids == AtIn(o, side, price)
<1>1. ids \subseteq DOMAIN o
  BY DEF AtIn
<1>2. IsFiniteSet(ids)
  BY <1>1, FS_Subset DEF OrderTable
<1>3. IntQty(o, ids)
  BY <1>1 DEF OrderTable, Order, IntQty
<1> HIDE DEF ids
<1>4. Total(o, ids) \in Int /\ Cardinality(ids) \in Nat
  BY <1>2, <1>3, TotalType, FS_CardinalityType
<1> QED
  BY <1>2, <1>3, <1>4 DEF ids

\* p is o but for the orders of one side and price.
ButAt(o, p, side, price) ==
    \A s, x : ~(s = side /\ x = price) =>
        AtIn(p, s, x) = AtIn(o, s, x) /\ \A id \in AtIn(o, s, x) : p[id].qty = o[id].qty

LEMMA LevelKept ==
    ASSUME NEW o, OrderTable(o), NEW p, NEW side, NEW price, ButAt(o, p, side, price),
           NEW s, NEW x, ~(s = side /\ x = price)
    PROVE  AtIn(p, s, x) = AtIn(o, s, x) /\ LevelIn(p, s, x) = LevelIn(o, s, x)
<1>1. AtIn(p, s, x) = AtIn(o, s, x) /\ \A id \in AtIn(o, s, x) : p[id].qty = o[id].qty
  BY DEF ButAt
<1>2. Total(p, AtIn(o, s, x)) = Total(o, AtIn(o, s, x))
  BY <1>1, AtFinite, TotalSame
<1> QED
  BY <1>1, <1>2 DEF LevelIn

\* A call touches the level of one price and the orders of that level: the levels
\* are the orders again as soon as that one is.
LEMMA OneLevel ==
    ASSUME NEW o, OrderTable(o), NEW p, NEW b, Exact(b, o), NEW c,
           NEW side \in Sides, NEW price, ButAt(o, p, side, price),
           \A s \in Sides \ {side} : c[s] = b[s],
           But(c[side], price) = But(b[side], price),
           AtIn(p, side, price) = {} => Of(c[side], price) = {},
           AtIn(p, side, price) # {} => Of(c[side], price) = Only(LevelIn(p, side, price))
    PROVE  Exact(c, p)
<1> SUFFICES ASSUME NEW s \in Sides
             PROVE  Range(c[s]) = LevelsIn(p, s)
  BY DEF Exact
<1>1. Range(b[s]) = LevelsIn(o, s)
  BY DEF Exact
<1>2. CASE s # side
  <2>1. \A x : AtIn(p, s, x) = AtIn(o, s, x) /\ LevelIn(p, s, x) = LevelIn(o, s, x)
    BY <1>2, LevelKept
  <2>2. \A l : l \in LevelsIn(p, s) <=> l \in LevelsIn(o, s)
    BY <2>1, LevelsInIs
  <2>3. LevelsIn(p, s) = LevelsIn(o, s)
    BY <2>2
  <2> QED
    BY <1>1, <1>2, <2>3
<1>3. CASE s = side
  <2>1. ASSUME NEW l, l.price # price
        PROVE  l \in Range(c[s]) <=> l \in LevelsIn(p, s)
    <3>1. l \in Range(c[s]) <=> l \in Range(b[s])
      <4>1. l \in Range(c[s]) <=> l \in But(c[side], price)
        BY <1>3, <2>1 DEF But
      <4>2. l \in Range(b[s]) <=> l \in But(b[side], price)
        BY <1>3, <2>1 DEF But
      <4> QED
        BY <4>1, <4>2
    <3>2. AtIn(p, s, l.price) = AtIn(o, s, l.price) /\ LevelIn(p, s, l.price) = LevelIn(o, s, l.price)
      BY <2>1, LevelKept
    <3>3. l \in LevelsIn(p, s) <=> l \in LevelsIn(o, s)
      BY <3>2, LevelsInIs
    <3> QED
      BY <1>1, <3>1, <3>3
  <2>2. ASSUME NEW l, l.price = price
        PROVE  l \in Range(c[s]) <=> l \in LevelsIn(p, s)
    <3>1. l \in Range(c[s]) <=> l \in Of(c[side], price)
      BY <1>3, <2>2 DEF Of
    <3>2. l \in LevelsIn(p, s) <=> AtIn(p, side, price) # {} /\ l = LevelIn(p, side, price)
      BY <1>3, <2>2, LevelsInIs
    <3> QED
      BY <3>1, <3>2 DEF Only
  <2>3. \A l : l \in Range(c[s]) <=> l \in LevelsIn(p, s)
    BY <2>1, <2>2
  <2> QED
    BY <2>3
<1> QED
  BY <1>2, <1>3

\* What the invariant says of the level of one price.
LEMMA TheLevel ==
    ASSUME NEW b, NEW o, SortedBook(b), Exact(b, o), OrderTable(o), NEW side \in Sides, NEW price
    PROVE  /\ AtIn(o, side, price) = {} => FindLevel(b[side], price) = 0
           /\ AtIn(o, side, price) # {} =>
                 LET i == FindLevel(b[side], price)
                 IN  i \in 1 .. Len(b[side]) /\ b[side][i] = LevelIn(o, side, price)
<1>1. b[side] \in Seq(Level) /\ Sorted(side, b[side])
  BY DEF SortedBook
<1>2. \A l : l \in Of(b[side], price) <=>
                 l.price = price /\ AtIn(o, side, price) # {} /\ l = LevelIn(o, side, price)
  <2>1. Range(b[side]) = LevelsIn(o, side)
    BY DEF Exact
  <2>2. \A l : l \in Of(b[side], price) <=> l.price = price /\ l \in LevelsIn(o, side)
    BY <2>1 DEF Of
  <2>3. \A l : l \in LevelsIn(o, side) <=> AtIn(o, side, l.price) # {} /\ l = LevelIn(o, side, l.price)
    BY LevelsInIs
  <2> QED
    BY <2>2, <2>3
<1>3. CASE AtIn(o, side, price) = {}
  <2>1. Of(b[side], price) = {}
    BY <1>2, <1>3
  <2> QED
    BY <1>1, <1>3, <2>1, NotFound
<1>4. CASE AtIn(o, side, price) # {}
  <2>1. LevelIn(o, side, price).price = price
    BY DEF LevelIn, TheRecord
  <2>2. LevelIn(o, side, price) \in Of(b[side], price)
    BY <1>2, <1>4, <2>1
  <2>3. DOMAIN b[side] = 1 .. Len(b[side])
    BY <1>1, LenProperties
  <2>4. PICK i \in 1 .. Len(b[side]) : b[side][i] = LevelIn(o, side, price)
    BY <2>2, <2>3 DEF Of, Range
  <2>5. FindLevel(b[side], price) = i
    BY <1>1, <2>1, <2>4, Found
  <2> QED
    BY <1>4, <2>4, <2>5
<1> QED
  BY <1>3, <1>4

(* ---- one order more, less or changed ----------------------------------- *)

\* The table with one order more.
LEMMA TableAdded ==
    ASSUME NEW o, OrderTable(o), NEW id, id \notin DOMAIN o, NEW order \in Order,
           NEW p, DOMAIN p = DOMAIN o \cup {id}, p[id] = order,
           \A x \in DOMAIN o : p[x] = o[x]
    PROVE  LET was == AtIn(o, order.side, order.price)
               ids == AtIn(p, order.side, order.price)
           IN  /\ OrderTable(p) /\ ButAt(o, p, order.side, order.price)
               /\ ids # {} /\ Cardinality(ids) = Cardinality(was) + 1
               /\ Total(p, ids) = Total(o, was) + order.qty
<1> DEFINE was == AtIn(o, order.side, order.price)
           ids == AtIn(p, order.side, order.price)
<1>1. OrderTable(p)
  BY FS_AddElement DEF OrderTable
<1>2. ids = was \cup {id} /\ id \notin was
  BY DEF AtIn
<1>3. ButAt(o, p, order.side, order.price)
  BY DEF ButAt, AtIn
<1>4. IsFiniteSet(was) /\ IntQty(o, was) /\ IsFiniteSet(ids) /\ IntQty(p, ids)
  BY <1>1, AtFinite
<1>5. \A x \in was : p[x].qty = o[x].qty
  BY DEF AtIn
<1> HIDE DEF was, ids
<1>6. Total(p, was) = Total(o, was)
  BY <1>4, <1>5, TotalSame
<1>7. Total(p, ids) = Total(p, was) + order.qty
  BY <1>2, <1>4, TotalAdd
<1>8. Cardinality(ids) = Cardinality(was) + 1
  BY <1>2, <1>4, FS_AddElement
<1> QED
  BY <1>1, <1>2, <1>3, <1>6, <1>7, <1>8 DEF was, ids

\* The table with one order less.
LEMMA TableErased ==
    ASSUME NEW o, OrderTable(o), NEW id \in DOMAIN o,
           NEW p, DOMAIN p = DOMAIN o \ {id}, \A x \in DOMAIN p : p[x] = o[x]
    PROVE  LET was == AtIn(o, o[id].side, o[id].price)
               ids == AtIn(p, o[id].side, o[id].price)
           IN  /\ OrderTable(p) /\ ButAt(o, p, o[id].side, o[id].price)
               /\ was # {} /\ Cardinality(was) = Cardinality(ids) + 1
               /\ Total(p, ids) = Total(o, was) - o[id].qty
<1> DEFINE was == AtIn(o, o[id].side, o[id].price)
           ids == AtIn(p, o[id].side, o[id].price)
<1>1. OrderTable(p)
  BY FS_RemoveElement DEF OrderTable
<1>2. ids = was \ {id} /\ id \in was
  BY DEF AtIn
<1>3. ButAt(o, p, o[id].side, o[id].price)
  BY DEF ButAt, AtIn
<1>4. /\ IsFiniteSet(was) /\ IntQty(o, was) /\ IsFiniteSet(ids) /\ IntQty(p, ids)
      /\ Cardinality(was) \in Nat /\ Cardinality(ids) \in Nat /\ Total(p, ids) \in Int
  BY <1>1, AtFinite
<1>5. IntQty(o, ids) /\ \A x \in ids : p[x].qty = o[x].qty
  BY <1>2, <1>4 DEF IntQty, AtIn
<1>10. o[id].qty \in Int
  BY <1>2, <1>4 DEF IntQty
<1> HIDE DEF was, ids
<1>6. Total(p, ids) = Total(o, ids)
  BY <1>4, <1>5, TotalSame
<1>7. Total(o, was) = o[id].qty + Total(o, ids)
  BY <1>2, <1>4, TotalRemove
<1>8. Cardinality(was) = Cardinality(ids) + 1
  BY <1>2, <1>4, FS_RemoveElement
<1>9. Total(p, ids) = Total(o, was) - o[id].qty
  BY <1>4, <1>10, <1>6, <1>7
<1> QED
  BY <1>1, <1>2, <1>3, <1>8, <1>9 DEF was, ids

\* The table with another quantity of one order.
LEMMA TableChanged ==
    ASSUME NEW o, OrderTable(o), NEW id \in DOMAIN o, NEW qty \in Int,
           NEW p, DOMAIN p = DOMAIN o, p[id] = [o[id] EXCEPT !.qty = qty],
           \A x \in DOMAIN o \ {id} : p[x] = o[x]
    PROVE  LET was == AtIn(o, o[id].side, o[id].price)
               ids == AtIn(p, o[id].side, o[id].price)
           IN  /\ OrderTable(p) /\ ButAt(o, p, o[id].side, o[id].price)
               /\ ids = was /\ was # {}
               /\ Total(p, ids) = Total(o, was) - o[id].qty + qty
<1> DEFINE was == AtIn(o, o[id].side, o[id].price)
           ids == AtIn(p, o[id].side, o[id].price)
<1>0. o[id] \in Order /\ p[id] \in Order /\ p[id].qty = qty /\ p[id].side = o[id].side
      /\ p[id].price = o[id].price
  BY DEF OrderTable, Order
<1>1. OrderTable(p)
  BY <1>0 DEF OrderTable
<1>2. ids = was /\ id \in was
  BY <1>0 DEF AtIn
<1>3. ButAt(o, p, o[id].side, o[id].price)
  BY <1>0 DEF ButAt, AtIn
<1>4. IsFiniteSet(was) /\ IntQty(o, was) /\ IntQty(p, was)
  BY <1>1, <1>2, AtFinite
<1>5. \A x \in was \ {id} : p[x].qty = o[x].qty
  BY DEF AtIn
<1>10. o[id].qty \in Int
  BY <1>2, <1>4 DEF IntQty
<1> HIDE DEF was, ids
<1>6. IsFiniteSet(was \ {id}) /\ IntQty(o, was \ {id})
  BY <1>4, FS_RemoveElement DEF IntQty
<1>7. Total(p, was \ {id}) = Total(o, was \ {id}) /\ Total(o, was \ {id}) \in Int
  BY <1>5, <1>6, TotalSame, TotalType
<1>8. /\ Total(o, was) = o[id].qty + Total(o, was \ {id})
      /\ Total(p, was) = qty + Total(p, was \ {id})
  <2>1. Total(o, was) = o[id].qty + Total(o, was \ {id})
    BY <1>2, <1>4, TotalRemove
  <2>2. Total(p, was) = p[id].qty + Total(p, was \ {id})
    BY ONLY <1>2, <1>4, TotalRemove
  <2> QED
    BY <1>0, <2>1, <2>2
<1>9. Total(p, was) = Total(o, was) - o[id].qty + qty
  BY <1>10, <1>7, <1>8
<1> QED
  BY <1>1, <1>2, <1>3, <1>9 DEF was, ids

\* No other level counts further than before.
LEMMA BoundedKept ==
    ASSUME NEW o, OrdersBounded(o), NEW p, NEW side, NEW price, ButAt(o, p, side, price),
           Cardinality(AtIn(p, side, price)) <= MaxCount,
           \A x \in DOMAIN p : p[x].qty \in 1 .. WordModulus - 1
    PROVE  OrdersBounded(p)
<1> SUFFICES ASSUME NEW x \in DOMAIN p
             PROVE  Cardinality(AtIn(p, p[x].side, p[x].price)) <= MaxCount
  BY DEF OrdersBounded
<1>1. CASE p[x].side = side /\ p[x].price = price
  BY <1>1
<1>2. CASE ~(p[x].side = side /\ p[x].price = price)
  <2>1. AtIn(p, p[x].side, p[x].price) = AtIn(o, p[x].side, p[x].price)
    BY <1>2 DEF ButAt
  <2>2. x \in AtIn(p, p[x].side, p[x].price)
    BY DEF AtIn
  <2>3. x \in DOMAIN o /\ o[x].side = p[x].side /\ o[x].price = p[x].price
    BY <2>1, <2>2 DEF AtIn
  <2> QED
    BY <2>1, <2>3 DEF OrdersBounded
<1> QED
  BY <1>1, <1>2

(* ---- the calls ---------------------------------------------------------- *)

\* The state in which a feed that keeps to the protocol calls the book.
InFeed ==
    /\ BookInv /\ IsFiniteSet(DOMAIN orders) /\ OrdersBounded(orders) /\ Exact(book, orders)

LEMMA InFeedHas ==
    ASSUME InFeed
    PROVE  /\ OrderTable(orders) /\ SortedBook(book)
           /\ WordModulus \in Nat /\ MaxCount \in 1 .. WordModulus - 1
           /\ \A side \in Sides : /\ book[side] \in Seq(Level) /\ Sorted(side, book[side])
                                  /\ DOMAIN book[side] = 1 .. Len(book[side])
                                  /\ Len(book[side]) \in Nat
           /\ DOMAIN book = Sides
<1>1. OrderTable(orders)
  BY DEF InFeed, BookInv, OrderTable, Resting
<1>2. WordModulus \in Nat /\ MaxCount \in 1 .. WordModulus - 1
  BY OrderBookAssumption
<1>3. SortedBook(book) /\ DOMAIN book = Sides
  BY DEF InFeed, BookInv, SortedBook
<1>4. \A side \in Sides : book[side] \in Seq(Level) /\ Sorted(side, book[side])
  BY <1>3 DEF SortedBook
<1> QED
  BY <1>1, <1>2, <1>3, <1>4, LenProperties

\* on_add: the level of the price is there, or is made.
LEMMA OnAddLevels ==
    ASSUME InFeed, NEW id, id \notin Resting, NEW side \in Sides, NEW price \in Prices,
           NEW qty \in Quantities \ {0}, CountsBounded,
           Len(book[side]) < MaxLevels \/ FindLevel(book[side], price) # 0,
           OnAdd(id, side, price, qty), ~broken'
    PROVE  IsFiniteSet(DOMAIN orders') /\ OrdersBounded(orders') /\ Exact(book', orders')
<1> DEFINE old == book[side]
           order == [side |-> side, price |-> price, qty |-> qty]
           levels == WithLevel(old, side, price)
           i == Scan(old, side, price)
           was == AtIn(orders, side, price)
           ids == AtIn(orders', side, price)
           new == [levels EXCEPT ![i].qty = Wrap(@ + qty), ![i].count = Wrap(@ + 1)]
<1>1. /\ OrderTable(orders) /\ SortedBook(book) /\ old \in Seq(Level) /\ Sorted(side, old)
      /\ DOMAIN old = 1 .. Len(old) /\ Len(old) \in Nat /\ DOMAIN book = Sides
      /\ WordModulus \in Nat /\ MaxCount \in 1 .. WordModulus - 1 /\ Exact(book, orders)
  BY InFeedHas DEF InFeed
<1>2. /\ price \in Int /\ qty \in 1 .. WordModulus - 1 /\ order \in Order
      /\ order.side = side /\ order.price = price /\ order.qty = qty
  BY OrderBookAssumption DEF Order
<1>3. orders' = Put(id, order)
  BY DEF OnAdd
<1>4. /\ DOMAIN orders' = DOMAIN orders \cup {id} /\ orders'[id] = order
      /\ \A x \in DOMAIN orders : orders'[x] = orders[x] /\ id \notin DOMAIN orders
  BY <1>3 DEF Put, Resting
<1> HIDE DEF order
<1>5. /\ OrderTable(orders') /\ ButAt(orders, orders', side, price)
      /\ ids # {} /\ Cardinality(ids) = Cardinality(was) + 1
      /\ Total(orders', ids) = Total(orders, was) + qty
  <2>1. id \notin DOMAIN orders
    BY DEF Resting
  <2>2. \A x \in DOMAIN orders : orders'[x] = orders[x]
    BY <1>4
  <2>3. /\ OrderTable(orders') /\ ButAt(orders, orders', order.side, order.price)
        /\ AtIn(orders', order.side, order.price) # {}
        /\ Cardinality(AtIn(orders', order.side, order.price))
               = Cardinality(AtIn(orders, order.side, order.price)) + 1
        /\ Total(orders', AtIn(orders', order.side, order.price))
               = Total(orders, AtIn(orders, order.side, order.price)) + order.qty
    <3>1. OrderTable(orders) /\ order \in Order
      BY <1>1, <1>2
    <3>2. DOMAIN orders' = DOMAIN orders \cup {id} /\ orders'[id] = order
      BY <1>4
    <3> QED
      BY ONLY <2>1, <2>2, <3>1, <3>2, TableAdded
  <2> QED
    BY <1>2, <2>3
<1>6. /\ IsFiniteSet(was) /\ Total(orders, was) \in Int /\ Cardinality(was) \in Nat
  BY <1>1, AtFinite
<1>7. /\ i \in DOMAIN levels /\ levels \in Seq(Level) /\ Sorted(side, levels)
      /\ levels[i].price = price /\ But(levels, price) = But(old, price)
      /\ Cardinality(was) < MaxCount /\ levels[i].count = Cardinality(was)
      /\ levels[i].qty = Wrap(Total(orders, was))
  <2>1. levels \in Seq(Level) /\ Sorted(side, levels)
    BY <1>1, <1>2, WithLevelSorted
  <2>2. CASE was = {}
    <3> DEFINE empty == [price |-> price, qty |-> 0, count |-> 0]
    <3>1. FindLevel(old, price) = 0
      BY <1>1, <2>2, TheLevel
    <3>2. Of(old, price) = {} /\ Len(old) < MaxLevels /\ MaxLevels \in Nat
      BY <1>1, <3>1, NotFound, OrderBookAssumption
    <3>3. i \in 1 .. Len(old) + 1
      BY <1>1, <1>2, ScanStops
    <3>4. ~(i <= Len(old) /\ old[i].price = price)
      BY <1>1, <3>2, <3>3 DEF Of, Range
    <3>5. levels = InsertAt(old, i, empty)
      BY <1>1, <3>2, <3>4 DEF WithLevel
    <3>6. empty \in Level /\ empty.price = price
      BY <1>2 DEF Level
    <3>11. empty.count = 0 /\ empty.qty = 0
      OBVIOUS
    <3> HIDE DEF levels, i, old, empty
    <3>7. DOMAIN levels = 1 .. Len(old) + 1 /\ levels[i] = empty
      BY <1>1, <3>3, <3>5, <3>6, InsertedAt
    <3>8. Range(levels) = Range(old) \cup {empty}
      BY <1>1, <3>3, <3>5, <3>6, InsertedSet
    <3>9. But(levels, price) = But(old, price)
      BY <3>6, <3>8 DEF But
    <3>10. Cardinality(was) = 0 /\ Total(orders, was) = 0 /\ Wrap(0) = 0
      BY <1>1, <2>2, FS_EmptySet, TotalEmpty, WrapSmall
    <3> HIDE DEF was
    <3> QED
      BY <1>1, <2>1, <3>11, <3>3, <3>6, <3>7, <3>9, <3>10
  <2>3. CASE was # {}
    <3> DEFINE j == FindLevel(old, price)
    <3>1. j \in 1 .. Len(old) /\ old[j] = LevelIn(orders, side, price)
      BY <1>1, <2>3, TheLevel
    <3> HIDE DEF j
    <3>2. /\ old[j].price = price /\ old[j].count = Cardinality(was)
          /\ old[j].qty = Wrap(Total(orders, was))
      BY <3>1 DEF LevelIn, TheRecord
    <3>3. i = j
      BY <1>1, <1>2, <3>1, <3>2, ScanFinds
    <3>4. levels = old
      BY <1>1, <3>1, <3>2, <3>3 DEF WithLevel
    <3>5. Cardinality(was) < MaxCount
      BY <1>1, <3>1, <3>2 DEF CountsBounded
    <3> QED
      BY <1>1, <2>1, <3>1, <3>2, <3>3, <3>4, <3>5
  <2> QED
    BY <2>2, <2>3
<1>8. book' = [book EXCEPT ![side] = new]
  BY <1>7 DEF OnAdd
<1> HIDE DEF levels, i, old, was, ids
<1>9. /\ new \in Seq(Level) /\ Sorted(side, new) /\ Len(new) = Len(levels)
      /\ new[i] = LevelIn(orders', side, price)
      /\ \A k \in 1 .. Len(levels) : k # i => new[k] = levels[k]
  <2> DEFINE q == Wrap(levels[i].qty + qty)
             n == Wrap(levels[i].count + 1)
  <2>1. DOMAIN levels = 1 .. Len(levels) /\ levels[i] \in Level
    BY <1>7, LenProperties, ElementOfSeq
  <2>2. levels[i].qty \in Int /\ levels[i].count \in Int
    BY <2>1 DEF Level
  <2>3. q \in Int /\ n \in Int
    <3>1. levels[i].qty + qty \in Int /\ levels[i].count + 1 \in Int
      BY <1>2, <2>2
    <3> QED
      BY <3>1, WrapType
  <2>4. new = Rewrite(levels, i, q, n)
    BY DEF Rewrite
  <2>5. q = Wrap(Total(orders', ids))
    BY <1>2, <1>5, <1>6, <1>7, WrapAdd
  <2>6. n = Cardinality(ids)
    <3>1. Cardinality(was) + 1 \in 0 .. WordModulus - 1
      BY <1>1, <1>6, <1>7
    <3> QED
      BY <1>5, <1>7, <3>1, WrapSmall
  <2> HIDE DEF q, n, new
  <2>7. /\ new \in Seq(Level) /\ Sorted(side, new) /\ Len(new) = Len(levels)
        /\ new[i] = TheRecord(levels[i].price, q, n)
        /\ \A k \in 1 .. Len(levels) : k # i => new[k] = levels[k]
    <3>1. i \in 1 .. Len(levels) /\ levels \in Seq(Level) /\ Sorted(side, levels)
      BY <1>7, <2>1
    <3> QED
      BY ONLY <2>3, <2>4, <3>1, RewrittenLevel
  <2>8. new[i] = LevelIn(orders', side, price)
    BY <1>7, <2>5, <2>6, <2>7 DEF LevelIn, ids
  <2> QED
    BY <2>7, <2>8
<1> HIDE DEF new
<1>10. But(new, price) = But(old, price) /\ Of(new, price) = Only(LevelIn(orders', side, price))
  <2>1. i \in 1 .. Len(levels) /\ new[i].price = levels[i].price
    BY <1>7, <1>9, LenProperties DEF LevelIn, TheRecord
  <2>2. levels \in Seq(Level) /\ Sorted(side, levels)
    BY <1>7
  <2>3. But(new, price) = But(levels, price) /\ Of(new, price) = Only(LevelIn(orders', side, price))
    <3>1. /\ new \in Seq(Level) /\ Sorted(side, new) /\ Len(new) = Len(levels)
          /\ \A k \in 1 .. Len(levels) : k # i => new[k] = levels[k]
          /\ new[i] = LevelIn(orders', side, price) /\ levels[i].price = price
          /\ LevelIn(orders', side, price).price = price
      BY <1>7, <1>9, <2>1 DEF LevelIn, TheRecord
    <3> QED
      BY ONLY <2>1, <2>2, <3>1, RewrittenSet
  <2> QED
    BY <1>7, <2>3
<1>11. Exact(book', orders')
  <2>1. book'[side] = new /\ \A s \in Sides \ {side} : book'[s] = book[s]
    BY <1>1, <1>8
  <2>2. But(book'[side], price) = But(book[side], price)
    BY <1>10, <2>1 DEF old
  <2>3. ids # {} /\ Of(book'[side], price) = Only(LevelIn(orders', side, price))
    BY <1>5, <1>10, <2>1
  <2> QED
    BY <1>1, <1>5, <2>1, <2>2, <2>3, OneLevel DEF ids
<1>12. OrdersBounded(orders')
  <2>1. \A x \in DOMAIN orders' : orders'[x].qty \in 1 .. WordModulus - 1
    BY <1>2, <1>4 DEF InFeed, OrdersBounded
  <2>2. Cardinality(ids) <= MaxCount
    BY <1>1, <1>5, <1>6, <1>7
  <2> QED
    BY <1>5, <2>1, <2>2, BoundedKept DEF InFeed, ids
<1> QED
  BY <1>5, <1>11, <1>12 DEF OrderTable

\* The level of a resting order.
LEMMA ItsLevel ==
    ASSUME InFeed, NEW id \in Resting
    PROVE  LET loc == orders[id]
               i == FindLevel(book[loc.side], loc.price)
               was == AtIn(orders, loc.side, loc.price)
           IN  /\ loc \in Order /\ loc.side \in Sides /\ loc.price \in Int
               /\ loc.qty \in 1 .. WordModulus - 1
               /\ i \in 1 .. Len(book[loc.side])
               /\ book[loc.side][i].price = loc.price
               /\ book[loc.side][i].qty = Wrap(Total(orders, was))
               /\ book[loc.side][i].count = Cardinality(was)
               /\ IsFiniteSet(was) /\ Total(orders, was) \in Int
               /\ Cardinality(was) \in 1 .. MaxCount
<1> DEFINE loc == orders[id]
           i == FindLevel(book[loc.side], loc.price)
           was == AtIn(orders, loc.side, loc.price)
<1>1. loc \in Order /\ loc.side \in Sides /\ loc.price \in Int
  BY DEF InFeed, BookInv, Order
<1>2. loc.qty \in 1 .. WordModulus - 1 /\ Cardinality(was) <= MaxCount
  BY DEF InFeed, OrdersBounded, Resting
<1>3. id \in was
  BY DEF AtIn, Resting
<1>4. IsFiniteSet(was) /\ Total(orders, was) \in Int /\ Cardinality(was) \in Nat
  BY InFeedHas, AtFinite
<1>5. /\ i \in 1 .. Len(book[loc.side])
      /\ book[loc.side][i] = LevelIn(orders, loc.side, loc.price)
  <2>1. was # {}
    BY <1>3
  <2>2. SortedBook(book) /\ Exact(book, orders) /\ OrderTable(orders)
    BY InFeedHas DEF InFeed
  <2> HIDE DEF loc
  <2> QED
    BY <1>1, <2>1, <2>2, TheLevel
<1>6. Cardinality(was) # 0
  BY <1>3, <1>4, FS_EmptySet
<1> HIDE DEF loc, i, was
<1>7. /\ book[loc.side][i].price = loc.price
      /\ book[loc.side][i].qty = Wrap(Total(orders, was))
      /\ book[loc.side][i].count = Cardinality(was)
  BY <1>5 DEF LevelIn, TheRecord, was
<1>8. Cardinality(was) \in 1 .. MaxCount
  BY <1>2, <1>4, <1>6, InFeedHas
<1> QED
  BY <1>1, <1>2, <1>4, <1>5, <1>7, <1>8 DEF loc, i, was

\* What rewriting the level found on its side leaves of the set of levels.
LEMMA RewrittenIn ==
    ASSUME NEW side, NEW levels \in Seq(Level), Sorted(side, levels),
           NEW i \in 1 .. Len(levels), NEW price, levels[i].price = price,
           NEW qty \in Int, NEW count \in Int
    PROVE  /\ But(Rewrite(levels, i, qty, count), price) = But(levels, price)
           /\ Of(Rewrite(levels, i, qty, count), price) = Only(TheRecord(price, qty, count))
           /\ FindLevel(Rewrite(levels, i, qty, count), price) = i
<1> DEFINE new == Rewrite(levels, i, qty, count)
           l == TheRecord(price, qty, count)
<1>1. /\ new \in Seq(Level) /\ Sorted(side, new) /\ Len(new) = Len(levels)
      /\ new[i] = l
      /\ \A k \in 1 .. Len(levels) : k # i => new[k] = levels[k]
  BY RewrittenLevel
<1>2. l.price = price
  BY DEF TheRecord
<1> HIDE DEF new, l
<1>3. But(new, price) = But(levels, price) /\ Of(new, price) = Only(l)
  BY <1>1, <1>2, RewrittenSet
<1>4. FindLevel(new, price) = i
  <2>1. i \in 1 .. Len(new) /\ new[i].price = price
    BY <1>1, <1>2
  <2> QED
    BY <1>1, <2>1, Found
<1> QED
  BY <1>3, <1>4 DEF new, l

\* Taking the level away altogether.
LEMMA ErasedIn ==
    ASSUME NEW side, NEW levels \in Seq(Level), Sorted(side, levels),
           NEW i \in 1 .. Len(levels), NEW price, levels[i].price = price
    PROVE  /\ But(EraseLevel(levels, price), price) = But(levels, price)
           /\ Of(EraseLevel(levels, price), price) = {}
<1>1. FindLevel(levels, price) = i /\ Len(levels) \in Nat
  BY Found, LenProperties
<1>2. EraseLevel(levels, price) = RemoveAt(levels, i)
  BY <1>1 DEF EraseLevel
<1> QED
  BY <1>2, RemovedSet

\* The order id is gone and its level has lost it: what on_cancel does, and
\* on_execute of all that is left.
LEMMA GoneLevels ==
    ASSUME InFeed, NEW id \in Resting, orders' = Erase(id), NEW new,
           LET loc == orders[id]
               i == FindLevel(book[loc.side], loc.price)
               l == book[loc.side][i]
               rest == Rewrite(book[loc.side], i, Wrap(l.qty - loc.qty), Wrap(l.count - 1))
           IN  /\ new = IF Wrap(l.count - 1) = 0 THEN EraseLevel(rest, loc.price) ELSE rest
               /\ book' = [book EXCEPT ![loc.side] = new]
    PROVE  IsFiniteSet(DOMAIN orders') /\ OrdersBounded(orders') /\ Exact(book', orders')
<1> DEFINE loc == orders[id]
           side == loc.side
           price == loc.price
           old == book[side]
           i == FindLevel(old, price)
           qty == Wrap(old[i].qty - loc.qty)
           count == Wrap(old[i].count - 1)
           rest == Rewrite(old, i, qty, count)
           was == AtIn(orders, side, price)
           ids == AtIn(orders', side, price)
<1>1. /\ loc \in Order /\ side \in Sides /\ price \in Int /\ loc.qty \in 1 .. WordModulus - 1
      /\ i \in 1 .. Len(old) /\ old[i].price = price /\ old[i].qty = Wrap(Total(orders, was))
      /\ old[i].count = Cardinality(was) /\ IsFiniteSet(was) /\ Total(orders, was) \in Int
      /\ Cardinality(was) \in 1 .. MaxCount
  BY ItsLevel
<1>2. /\ OrderTable(orders) /\ old \in Seq(Level) /\ Sorted(side, old) /\ DOMAIN book = Sides
      /\ WordModulus \in Nat /\ MaxCount \in 1 .. WordModulus - 1 /\ Exact(book, orders)
  BY <1>1, InFeedHas DEF InFeed
<1>3. /\ new = IF count = 0 THEN EraseLevel(rest, price) ELSE rest
      /\ book' = [book EXCEPT ![side] = new]
  OBVIOUS
<1>4. DOMAIN orders' = DOMAIN orders \ {id} /\ \A x \in DOMAIN orders' : orders'[x] = orders[x]
  BY DEF Erase, Resting
<1>5. /\ OrderTable(orders') /\ ButAt(orders, orders', side, price)
      /\ Cardinality(was) = Cardinality(ids) + 1
      /\ Total(orders', ids) = Total(orders, was) - loc.qty
  <2>1. id \in DOMAIN orders
    BY DEF Resting
  <2> QED
    BY ONLY <1>2, <1>4, <2>1, TableErased
<1>6. IsFiniteSet(ids) /\ Cardinality(ids) \in Nat
  BY <1>5, AtFinite
<1> HIDE DEF loc, side, price, old, i, was, ids
<1>7. qty = Wrap(Total(orders', ids)) /\ count = Cardinality(ids)
  <2>1. Wrap(Wrap(Total(orders, was)) + (-loc.qty)) = Wrap(Total(orders, was) + (-loc.qty))
    <3>1. -loc.qty \in Int /\ Total(orders, was) \in Int
      BY <1>1
    <3> QED
      BY ONLY <3>1, WrapAdd
  <2>2. Wrap(Total(orders, was)) \in Int
    BY <1>1, WrapType
  <2>3. /\ Wrap(Total(orders, was)) + (-loc.qty) = Wrap(Total(orders, was)) - loc.qty
        /\ Total(orders, was) + (-loc.qty) = Total(orders, was) - loc.qty
    BY <1>1, <2>2
  <2>4. Cardinality(was) - 1 = Cardinality(ids) /\ Cardinality(ids) \in 0 .. WordModulus - 1
    BY <1>1, <1>2, <1>5, <1>6
  <2> QED
    BY <1>1, <1>5, <2>1, <2>3, <2>4, WrapSmall
<1>8. qty \in Int /\ count \in Int
  <2>1. Total(orders', ids) \in Int
    BY <1>5, AtFinite DEF ids
  <2> QED
    BY <1>6, <1>7, <2>1, WrapType
<1> HIDE DEF qty, count
<1>9. /\ rest \in Seq(Level) /\ Sorted(side, rest) /\ Len(rest) = Len(old)
      /\ rest[i] = TheRecord(old[i].price, qty, count)
      /\ But(rest, price) = But(old, price) /\ Of(rest, price) = Only(TheRecord(price, qty, count))
  BY <1>1, <1>2, <1>8, RewrittenLevel, RewrittenIn
<1>10. TheRecord(price, qty, count) = LevelIn(orders', side, price)
  BY <1>7 DEF LevelIn, ids
<1> HIDE DEF rest
<1>11. /\ But(new, price) = But(old, price)
       /\ ids = {} => Of(new, price) = {}
       /\ ids # {} => Of(new, price) = Only(LevelIn(orders', side, price))
  <2>1. ids = {} <=> count = 0
    BY <1>6, <1>7, FS_EmptySet
  <2>2. CASE count = 0
    <3>1. i \in 1 .. Len(rest) /\ rest[i].price = price
      BY <1>1, <1>9 DEF TheRecord
    <3>2. But(EraseLevel(rest, price), price) = But(rest, price) /\ Of(EraseLevel(rest, price), price) = {}
      BY <1>9, <3>1, ErasedIn
    <3> QED
      BY <1>3, <1>9, <2>1, <2>2, <3>2
  <2>3. CASE count # 0
    BY <1>3, <1>9, <1>10, <2>1, <2>3
  <2> QED
    BY <2>2, <2>3
<1>12. Exact(book', orders')
  <2>1. book'[side] = new /\ \A s \in Sides \ {side} : book'[s] = book[s]
    BY <1>1, <1>2, <1>3
  <2>2. But(book'[side], price) = But(book[side], price)
    BY <1>11, <2>1 DEF old
  <2>3. /\ AtIn(orders', side, price) = {} => Of(book'[side], price) = {}
        /\ AtIn(orders', side, price) # {} =>
              Of(book'[side], price) = Only(LevelIn(orders', side, price))
    BY <1>11, <2>1 DEF ids
  <2>4. /\ OrderTable(orders) /\ Exact(book, orders) /\ side \in Sides
        /\ ButAt(orders, orders', side, price)
    BY <1>1, <1>2, <1>5
  <2> QED
    BY ONLY <2>1, <2>2, <2>3, <2>4, OneLevel
<1>13. OrdersBounded(orders')
  <2>1. \A x \in DOMAIN orders' : orders'[x].qty \in 1 .. WordModulus - 1
    BY <1>4 DEF InFeed, OrdersBounded
  <2>2. Cardinality(ids) <= MaxCount
    BY <1>1, <1>2, <1>5, <1>6
  <2> QED
    BY <1>5, <2>1, <2>2, BoundedKept DEF InFeed, ids
<1> QED
  BY <1>5, <1>12, <1>13 DEF OrderTable

LEMMA OnCancelLevels ==
    ASSUME InFeed, NEW id, OnCancel(id)
    PROVE  IsFiniteSet(DOMAIN orders') /\ OrdersBounded(orders') /\ Exact(book', orders')
<1> DEFINE loc == orders[id]
           old == book[loc.side]
           i == FindLevel(old, loc.price)
           rest == Rewrite(old, i, Wrap(old[i].qty - loc.qty), Wrap(old[i].count - 1))
           new == IF Wrap(old[i].count - 1) = 0 THEN EraseLevel(rest, loc.price) ELSE rest
<1>1. id \in Resting /\ orders' = Erase(id) /\ book' = [book EXCEPT ![loc.side] = RemoveQty(@, loc)]
  BY DEF OnCancel
<1>2. /\ loc.side \in Sides /\ i \in 1 .. Len(old) /\ old \in Seq(Level) /\ Sorted(loc.side, old)
      /\ DOMAIN book = Sides
  BY <1>1, ItsLevel, InFeedHas
<1>3. old[i] \in Level /\ old[i].qty \in Int /\ old[i].count \in Int /\ loc.qty \in Int /\ i # 0
  <2>1. old[i] \in Level
    BY <1>2, ElementOfSeq
  <2>2. loc.qty \in Int
    BY <1>1, ItsLevel
  <2> QED
    BY SMTT(30), <1>2, <2>1, <2>2 DEF Level
<1>4. Wrap(old[i].qty - loc.qty) \in Int /\ Wrap(old[i].count - 1) \in Int
  <2>1. old[i].qty - loc.qty \in Int /\ old[i].count - 1 \in Int
    BY <1>3
  <2> QED
    BY <2>1, WrapType
<1>5. RemoveQty(old, loc) = new
  <2> DEFINE cut == [old EXCEPT ![i].qty = Wrap(@ - loc.qty), ![i].count = Wrap(@ - 1)]
  <2>1. cut = rest
    BY DEF Rewrite
  <2>2. rest[i].count = Wrap(old[i].count - 1)
    <3>1. rest[i] = TheRecord(old[i].price, Wrap(old[i].qty - loc.qty), Wrap(old[i].count - 1))
      BY <1>2, <1>4, RewrittenLevel
    <3>2. \A p, q, c : TheRecord(p, q, c).count = c
      BY DEF TheRecord
    <3> QED
      BY <3>1, <3>2
  <2>3. RemoveQty(old, loc) = IF cut[i].count = 0 THEN EraseLevel(cut, loc.price) ELSE cut
    BY <1>3 DEF RemoveQty
  <2> HIDE DEF cut, rest
  <2> QED
    BY <2>1, <2>2, <2>3
<1>6. book' = [book EXCEPT ![loc.side] = new]
  BY <1>1, <1>5
<1> QED
  BY <1>1, <1>6, GoneLevels

\* The quantity of an order and of its level changed by as much: on_modify, and
\* on_execute of a part.
LEMMA ChangedLevels ==
    ASSUME InFeed, NEW id \in Resting, NEW qty \in 1 .. WordModulus - 1,
           orders' = Put(id, [orders[id] EXCEPT !.qty = qty]),
           LET loc == orders[id]
               i == FindLevel(book[loc.side], loc.price)
               l == book[loc.side][i]
           IN  book' = [book EXCEPT ![loc.side] =
                           Rewrite(@, i, Wrap(l.qty - loc.qty + qty), l.count)]
    PROVE  IsFiniteSet(DOMAIN orders') /\ OrdersBounded(orders') /\ Exact(book', orders')
<1> DEFINE loc == orders[id]
           side == loc.side
           price == loc.price
           old == book[side]
           i == FindLevel(old, price)
           sum == Wrap(old[i].qty - loc.qty + qty)
           count == old[i].count
           new == Rewrite(old, i, sum, count)
           was == AtIn(orders, side, price)
           ids == AtIn(orders', side, price)
<1>1. /\ loc \in Order /\ side \in Sides /\ price \in Int /\ loc.qty \in 1 .. WordModulus - 1
      /\ i \in 1 .. Len(old) /\ old[i].price = price /\ old[i].qty = Wrap(Total(orders, was))
      /\ old[i].count = Cardinality(was) /\ IsFiniteSet(was) /\ Total(orders, was) \in Int
      /\ Cardinality(was) \in 1 .. MaxCount
  BY ItsLevel
<1>2. /\ OrderTable(orders) /\ old \in Seq(Level) /\ Sorted(side, old) /\ DOMAIN book = Sides
      /\ WordModulus \in Nat /\ MaxCount \in 1 .. WordModulus - 1 /\ Exact(book, orders)
  BY <1>1, InFeedHas DEF InFeed
<1>3. book' = [book EXCEPT ![side] = new]
  OBVIOUS
<1>4. /\ DOMAIN orders' = DOMAIN orders /\ orders'[id] = [orders[id] EXCEPT !.qty = qty]
      /\ \A x \in DOMAIN orders \ {id} : orders'[x] = orders[x]
  BY DEF Put, Resting
<1>5. /\ OrderTable(orders') /\ ButAt(orders, orders', side, price)
      /\ ids = was /\ was # {}
      /\ Total(orders', ids) = Total(orders, was) - loc.qty + qty
  <2>1. id \in DOMAIN orders /\ qty \in Int
    BY <1>2 DEF Resting
  <2> QED
    BY ONLY <1>2, <1>4, <2>1, TableChanged
<1>6. orders'[id].qty = qty
  BY <1>1, <1>4 DEF Order
<1> HIDE DEF loc, side, price, old, i, was, ids
<1>7. sum = Wrap(Total(orders', ids)) /\ count = Cardinality(ids)
  <2>1. Wrap(Wrap(Total(orders, was)) + (qty - loc.qty)) = Wrap(Total(orders, was) + (qty - loc.qty))
    <3>1. qty - loc.qty \in Int /\ Total(orders, was) \in Int
      BY <1>1, <1>2
    <3> QED
      BY ONLY <3>1, WrapAdd
  <2>2. Wrap(Total(orders, was)) \in Int
    BY <1>1, WrapType
  <2>3. /\ Wrap(Total(orders, was)) + (qty - loc.qty) = Wrap(Total(orders, was)) - loc.qty + qty
        /\ Total(orders, was) + (qty - loc.qty) = Total(orders, was) - loc.qty + qty
    BY <1>1, <1>2, <2>2
  <2> QED
    BY <1>1, <1>5, <2>1, <2>3
<1>8. sum \in Int /\ count \in Int
  <2>1. Total(orders', ids) \in Int
    BY <1>5, AtFinite DEF ids
  <2> QED
    BY <1>1, <1>7, <2>1, WrapType
<1> HIDE DEF sum, count
<1>9. But(new, price) = But(old, price) /\ Of(new, price) = Only(TheRecord(price, sum, count))
  BY <1>1, <1>2, <1>8, RewrittenIn
<1>10. TheRecord(price, sum, count) = LevelIn(orders', side, price)
  BY <1>7 DEF LevelIn, ids
<1> HIDE DEF new
<1>11. Exact(book', orders')
  <2>1. book'[side] = new /\ \A s \in Sides \ {side} : book'[s] = book[s]
    BY <1>1, <1>2, <1>3
  <2>2. But(book'[side], price) = But(book[side], price)
    BY <1>9, <2>1 DEF old
  <2>3. /\ AtIn(orders', side, price) # {}
        /\ Of(book'[side], price) = Only(LevelIn(orders', side, price))
    BY <1>5, <1>9, <1>10, <2>1 DEF ids
  <2>4. /\ OrderTable(orders) /\ Exact(book, orders) /\ side \in Sides
        /\ ButAt(orders, orders', side, price)
    BY <1>1, <1>2, <1>5
  <2> QED
    BY ONLY <2>1, <2>2, <2>3, <2>4, OneLevel
<1>12. OrdersBounded(orders')
  <2>1. \A x \in DOMAIN orders' : orders'[x].qty \in 1 .. WordModulus - 1
    BY <1>4, <1>6 DEF InFeed, OrdersBounded
  <2>2. Cardinality(ids) <= MaxCount
    BY <1>1, <1>2, <1>5
  <2> QED
    BY <1>5, <2>1, <2>2, BoundedKept DEF InFeed, ids
<1> QED
  BY <1>5, <1>11, <1>12 DEF OrderTable

\* A level of which only the quantity, or only the count, is written.
SetQty(levels, i, n) == [levels EXCEPT ![i].qty = n]
SetCount(levels, i, n) == [levels EXCEPT ![i].count = n]

LEMMA OneField ==
    ASSUME NEW levels \in Seq(Level), NEW i \in 1 .. Len(levels), NEW n, NEW m
    PROVE  /\ SetQty(levels, i, n) = Rewrite(levels, i, n, levels[i].count)
           /\ SetCount(SetQty(levels, i, n), i, m) = Rewrite(levels, i, n, m)
           /\ SetQty(levels, i, n)[i].count = levels[i].count
<1>1. levels[i] \in Level /\ DOMAIN levels = 1 .. Len(levels)
  BY ElementOfSeq, LenProperties
<1>2. [levels[i] EXCEPT !.count = levels[i].count] = levels[i]
  BY <1>1 DEF Level
<1>3. SetQty(levels, i, n) = Rewrite(levels, i, n, levels[i].count)
  BY <1>1, <1>2 DEF Level, Rewrite, SetQty
<1>4. SetCount(SetQty(levels, i, n), i, m) = Rewrite(levels, i, n, m)
  BY <1>1 DEF Level, Rewrite, SetQty, SetCount
<1>5. SetQty(levels, i, n)[i].count = levels[i].count
  BY <1>1 DEF Level, SetQty
<1> QED
  BY <1>3, <1>4, <1>5

LEMMA OnModifyLevels ==
    ASSUME InFeed, NEW id, NEW newQty \in Quantities \ {0}, OnModify(id, newQty)
    PROVE  IsFiniteSet(DOMAIN orders') /\ OrdersBounded(orders') /\ Exact(book', orders')
<1> DEFINE loc == orders[id]
           old == book[loc.side]
           i == FindLevel(old, loc.price)
           new == Rewrite(old, i, Wrap(old[i].qty - loc.qty + newQty), old[i].count)
<1>1. /\ id \in Resting /\ orders' = Put(id, [loc EXCEPT !.qty = newQty])
      /\ book' = [book EXCEPT ![loc.side][i].qty = Wrap(@ - loc.qty + newQty)]
  BY DEF OnModify
<1>2. /\ loc.side \in Sides /\ i \in 1 .. Len(old) /\ old \in Seq(Level) /\ DOMAIN book = Sides
      /\ DOMAIN old = 1 .. Len(old)
  BY <1>1, ItsLevel, InFeedHas
<1>3. old[i] \in Level
  BY <1>2, ElementOfSeq
<1>4. book' = [book EXCEPT ![loc.side] = new]
  <2> DEFINE n == Wrap(old[i].qty - loc.qty + newQty)
  <2>1. SetQty(old, i, n) = new
    BY <1>2, OneField
  <2>2. book' = [book EXCEPT ![loc.side] = SetQty(old, i, n)]
    BY <1>1 DEF SetQty
  <2> QED
    BY <2>1, <2>2
<1>5. newQty \in 1 .. WordModulus - 1
  BY OrderBookAssumption
<1> QED
  BY <1>1, <1>4, <1>5, ChangedLevels

LEMMA OnExecuteLevels ==
    ASSUME InFeed, NEW id \in Resting, NEW execQty \in Quantities \ {0}, execQty <= orders[id].qty,
           OnExecute(id, execQty), ~broken'
    PROVE  IsFiniteSet(DOMAIN orders') /\ OrdersBounded(orders') /\ Exact(book', orders')
<1> DEFINE loc == orders[id]
           side == loc.side
           old == book[side]
           i == FindLevel(old, loc.price)
           left == Wrap(loc.qty - execQty)
           n == Wrap(old[i].qty - execQty)
           m == Wrap(old[i].count - 1)
           rest == [book EXCEPT ![side][i].qty = Wrap(@ - execQty)]
           gone == [rest EXCEPT ![side][i].count = Wrap(@ - 1)]
<1>1. /\ side \in Sides /\ i \in 1 .. Len(old) /\ old \in Seq(Level) /\ DOMAIN book = Sides
      /\ Sorted(side, old) /\ old[i].price = loc.price
      /\ DOMAIN old = 1 .. Len(old) /\ loc.qty \in 1 .. WordModulus - 1 /\ WordModulus \in Nat
      /\ loc \in Order
  BY ItsLevel, InFeedHas
<1>2. old[i] \in Level /\ old[i].qty \in Int /\ old[i].count \in Int
  <2>1. old[i] \in Level
    BY <1>1, ElementOfSeq
  <2> QED
    BY <2>1 DEF Level
<1>3. execQty \in 1 .. WordModulus - 1 /\ left = loc.qty - execQty
  <2>1. execQty \in 1 .. WordModulus - 1
    BY OrderBookAssumption
  <2>2. loc.qty - execQty \in 0 .. WordModulus - 1
    BY <1>1, <2>1
  <2> QED
    BY <2>1, <2>2, WrapSmall
<1>4. rest = [book EXCEPT ![side] = Rewrite(old, i, n, old[i].count)]
  <2>1. rest = [book EXCEPT ![side] = SetQty(old, i, n)]
    BY DEF SetQty
  <2>2. SetQty(old, i, n) = Rewrite(old, i, n, old[i].count)
    BY <1>1, OneField
  <2> HIDE DEF rest, n, i, old
  <2> QED
    BY <2>1, <2>2
<1>5. /\ rest[side] = SetQty(old, i, n) /\ gone = [book EXCEPT ![side] = Rewrite(old, i, n, m)]
      /\ gone[side] = Rewrite(old, i, n, m)
  <2>1. rest = [book EXCEPT ![side] = SetQty(old, i, n)]
    BY DEF SetQty
  <2>2. gone = [rest EXCEPT ![side] = SetCount(rest[side], i, Wrap(rest[side][i].count - 1))]
    BY DEF SetCount
  <2> HIDE DEF rest, gone, n, i, old
  <2>3. rest[side] = SetQty(old, i, n)
    BY <1>1, <2>1
  <2>4. rest[side][i].count = old[i].count
    <3>1. SetQty(old, i, n)[i].count = old[i].count
      BY <1>1, OneField
    <3> QED
      BY <2>3, <3>1
  <2>5. gone = [rest EXCEPT ![side] = SetCount(SetQty(old, i, n), i, m)]
    BY <2>2, <2>3, <2>4
  <2>6. gone = [rest EXCEPT ![side] = Rewrite(old, i, n, m)]
    <3>1. SetCount(SetQty(old, i, n), i, m) = Rewrite(old, i, n, m)
      BY <1>1, OneField
    <3> QED
      BY <2>5, <3>1
  <2>7. gone = [book EXCEPT ![side] = Rewrite(old, i, n, m)]
    BY <2>1, <2>6
  <2>8. gone[side] = Rewrite(old, i, n, m)
    BY <1>1, <2>7
  <2> QED
    BY <2>3, <2>7, <2>8
<1>6. CASE left # 0
  <2>1. book' = rest /\ orders' = Put(id, [loc EXCEPT !.qty = left])
    BY <1>6 DEF OnExecute
  <2>2. left \in 1 .. WordModulus - 1
    BY <1>1, <1>3, <1>6
  <2>3. n = Wrap(old[i].qty - loc.qty + left)
    BY <1>1, <1>2, <1>3
  <2>4. book' = [book EXCEPT ![side] = Rewrite(old, i, Wrap(old[i].qty - loc.qty + left), old[i].count)]
    BY <1>4, <2>1, <2>3
  <2> HIDE DEF left
  <2> QED
    BY <2>1, <2>2, <2>4, ChangedLevels
<1>7. CASE left = 0
  <2>1. /\ orders' = Erase(id)
        /\ IF gone[side][i].count # 0 THEN book' = gone
           ELSE \E ref \in AfterErase(id) :
                   /\ book' = [gone EXCEPT ![ref.side] = EraseLevel(@, ref.price)]
                   /\ broken' = (ref # loc)
    BY <1>7 DEF OnExecute
  <2>2. execQty = loc.qty
    BY <1>1, <1>3, <1>7
  <2> DEFINE cut == Rewrite(old, i, n, m)
             new == IF m = 0 THEN EraseLevel(cut, loc.price) ELSE cut
  <2>3. gone[side][i].count = m
    <3>1. n \in Int /\ m \in Int
      <4>1. old[i].qty - execQty \in Int /\ old[i].count - 1 \in Int
        BY <1>2, <1>3
      <4> QED
        BY <4>1, WrapType
    <3>2. i \in 1 .. Len(old) /\ old \in Seq(Level) /\ Sorted(side, old)
      BY <1>1
    <3>3. cut[i] = TheRecord(old[i].price, n, m)
      <4> HIDE DEF n, m, i, old, gone, side, loc, left, rest, new
      <4>1. Rewrite(old, i, n, m)[i] = TheRecord(old[i].price, n, m)
        BY ONLY <3>1, <3>2, RewrittenLevel
      <4> QED
        BY ONLY <4>1 DEF cut
    <3> HIDE DEF n, m, i, old, gone
    <3> QED
      BY <1>5, <3>3 DEF TheRecord
  <2>4. book' = [book EXCEPT ![side] = new]
    <3> HIDE DEF gone, cut, m, loc, side
    <3>1. CASE m # 0
      BY <1>5, <2>1, <2>3, <3>1 DEF cut
    <3>2. CASE m = 0
      <4>1. PICK ref : /\ book' = [gone EXCEPT ![ref.side] = EraseLevel(@, ref.price)]
                       /\ broken' = (ref # loc)
        BY <2>1, <2>3, <3>2
      <4>2. ref = loc
        BY <4>1
      <4>3. book' = [gone EXCEPT ![side] = EraseLevel(gone[side], loc.price)]
        BY <4>1, <4>2 DEF side
      <4>4. gone = [book EXCEPT ![side] = cut] /\ gone[side] = cut
        BY <1>5 DEF cut
      <4> QED
        BY <3>2, <4>3, <4>4
    <3> QED
      BY <3>1, <3>2
  <2>5. n = Wrap(old[i].qty - loc.qty)
    BY <2>2
  <2> QED
    BY <2>1, <2>4, <2>5, GoneLevels
<1> QED
  BY <1>6, <1>7

(* ---- the levels are the orders ----------------------------------------- *)

\* The table of orders stays finite, whatever the call.
LEMMA FiniteKept ==
    ASSUME IsFiniteSet(DOMAIN orders), AnyCall \/ FeedCall
    PROVE  IsFiniteSet(DOMAIN orders')
<1>1. \/ \E id, order : orders' = Put(id, order)
      \/ \E id : orders' = Erase(id)
  <2>1. CASE \E id, side, price, qty : OnAdd(id, side, price, qty)
    BY <2>1 DEF OnAdd
  <2>2. CASE \E id : OnCancel(id)
    BY <2>2 DEF OnCancel
  <2>3. CASE \E id, qty : OnModify(id, qty)
    BY <2>3 DEF OnModify
  <2>4. CASE \E id, qty : OnExecute(id, qty)
    <3>1. PICK id, qty : OnExecute(id, qty)
      BY <2>4
    <3>2. \/ orders' = Put(id, [orders[id] EXCEPT !.qty = Wrap(orders[id].qty - qty)])
          \/ orders' = Erase(id)
      BY <3>1 DEF OnExecute
    <3> QED
      BY <3>2
  <2> QED
    BY <2>1, <2>2, <2>3, <2>4 DEF AnyCall, FeedCall
<1>2. ASSUME NEW id, NEW order, orders' = Put(id, order)
      PROVE  IsFiniteSet(DOMAIN orders')
  <2>1. DOMAIN orders' = DOMAIN orders \cup {id}
    BY <1>2 DEF Put, Resting
  <2> QED
    BY <2>1, FS_AddElement
<1>3. ASSUME NEW id, orders' = Erase(id)
      PROVE  IsFiniteSet(DOMAIN orders')
  <2>1. DOMAIN orders' = DOMAIN orders \ {id}
    BY <1>3 DEF Erase, Resting
  <2> QED
    BY <2>1, FS_RemoveElement
<1> QED
  BY <1>1, <1>2, <1>3

\* A call of a feed that keeps to the protocol, by the four kinds of call.
LEMMA FeedCallLevels ==
    ASSUME InFeed, FeedCall, ~broken'
    PROVE  OrdersBounded(orders') /\ Exact(book', orders')
<1>1. PICK id \in OrderIds, qty \in Quantities \ {0} :
        \/ /\ CountsBounded /\ id \notin Resting
           /\ \E side \in Sides, price \in Prices :
                 /\ Len(book[side]) < MaxLevels \/ FindLevel(book[side], price) # 0
                 /\ OnAdd(id, side, price, qty)
        \/ OnCancel(id) \/ OnModify(id, qty)
        \/ id \in Resting /\ qty <= orders[id].qty /\ OnExecute(id, qty)
  BY DEF FeedCall
<1>2. ASSUME CountsBounded, id \notin Resting, NEW side \in Sides, NEW price \in Prices,
             Len(book[side]) < MaxLevels \/ FindLevel(book[side], price) # 0,
             OnAdd(id, side, price, qty)
      PROVE  OrdersBounded(orders') /\ Exact(book', orders')
  BY <1>2, OnAddLevels
<1>3. CASE OnCancel(id)
  BY <1>3, OnCancelLevels
<1>4. CASE OnModify(id, qty)
  BY <1>4, OnModifyLevels
<1>5. CASE id \in Resting /\ qty <= orders[id].qty /\ OnExecute(id, qty)
  BY <1>5, OnExecuteLevels
<1> QED
  BY <1>1, <1>2, <1>3, <1>4, <1>5

\* As long as the feed keeps to the protocol and no stale entry was read, the
\* levels of each side are the sums of its resting orders.
THEOREM LevelsInvariant == BookSpec => []LevelsInv
<1>1. BookInit => LevelsInv
  <2> SUFFICES ASSUME BookInit PROVE LevelsInv
    OBVIOUS
  <2>1. DOMAIN orders = {}
    BY DEF BookInit
  <2>2. IsFiniteSet(DOMAIN orders) /\ OrdersBounded(orders)
    BY <2>1, FS_EmptySet DEF OrdersBounded
  <2>3. \A side \in Sides : Range(book[side]) = {}
    BY DEF BookInit, Range
  <2>4. \A side \in Sides : LevelsIn(orders, side) = {}
    BY <2>1 DEF LevelsIn
  <2>5. illFormed \in Nat
    BY DEF BookInit
  <2> QED
    BY <2>2, <2>3, <2>4, <2>5, LevelsInvIs DEF Exact
<1>2. BookInv /\ LevelsInv /\ [BookNext]_bookVars => LevelsInv'
  <2> SUFFICES ASSUME BookInv, LevelsInv, [BookNext]_bookVars PROVE LevelsInv'
    OBVIOUS
  <2>0. /\ illFormed \in Nat /\ IsFiniteSet(DOMAIN orders)
        /\ illFormed = 0 /\ ~broken => OrdersBounded(orders) /\ Exact(book, orders)
    BY LevelsInvIs
  <2>1. CASE UNCHANGED bookVars
    BY <2>0, <2>1, LevelsInvIs DEF bookVars
  <2>2. CASE ~broken /\ AnyCall /\ illFormed < MaxIllFormed /\ illFormed' = illFormed + 1
    <3>1. illFormed' \in Nat /\ illFormed' # 0
      BY <2>0, <2>2
    <3>2. IsFiniteSet(DOMAIN orders')
      BY <2>0, <2>2, FiniteKept
    <3> QED
      BY <3>1, <3>2, LevelsInvIs
  <2>3. CASE FeedStep
    <3>1. illFormed' = illFormed /\ ~broken /\ FeedCall
      BY <2>3 DEF FeedStep
    <3>2. IsFiniteSet(DOMAIN orders')
      BY <2>0, <3>1, FiniteKept
    <3>3. ASSUME illFormed' = 0, ~broken'
          PROVE  OrdersBounded(orders') /\ Exact(book', orders')
      <4>1. InFeed
        BY <2>0, <3>1, <3>3 DEF InFeed
      <4> QED
        BY <3>1, <3>3, <4>1, FeedCallLevels
    <3> QED
      BY <2>0, <3>1, <3>2, <3>3, LevelsInvIs
  <2> QED
    BY <2>1, <2>2, <2>3 DEF BookNext
<1> QED
  BY <1>1, <1>2, BookInvariant, PTL DEF BookSpec

\* LevelsAreOrders, for every set of prices, quantities and orders: what
\* find_level returns is the sum and the count of the orders that rest at the
\* price, and nullptr where none rests.
THEOREM LevelsStayOrders == BookSpec => []LevelsAreOrders
<1>1. BookInv /\ LevelsInv => LevelsAreOrders
  <2> SUFFICES ASSUME BookInv, LevelsInv, illFormed = 0, ~broken,
                      NEW side \in Sides, NEW price \in Prices
               PROVE  LET i == FindLevel(book[side], price)
                          ids == At(side, price)
                      IN  IF ids = {} THEN i = 0
                          ELSE /\ i # 0
                               /\ book[side][i].count = Cardinality(ids)
                               /\ book[side][i].qty =
                                    Wrap(MapThenSumSet(LAMBDA id : orders[id].qty, ids))
    BY DEF LevelsAreOrders
  <2> DEFINE ids == AtIn(orders, side, price)
             i == FindLevel(book[side], price)
  <2>1. InFeed
    BY LevelsInvIs DEF InFeed
  <2>2. /\ ids = {} => i = 0
        /\ ids # {} => i \in 1 .. Len(book[side]) /\ book[side][i] = LevelIn(orders, side, price)
    BY <2>1, InFeedHas, TheLevel DEF InFeed
  <2>3. /\ LevelIn(orders, side, price).count = Cardinality(ids)
        /\ LevelIn(orders, side, price).qty = Wrap(Total(orders, ids))
    BY DEF LevelIn, TheRecord
  <2>4. At(side, price) = ids
    BY DEF At, AtIn, Resting
  <2> HIDE DEF ids, i
  <2>5. /\ ids = {} => i = 0
        /\ ids # {} => /\ i # 0 /\ book[side][i].count = Cardinality(ids)
                       /\ book[side][i].qty = Wrap(Total(orders, ids))
    BY <2>2, <2>3
  <2> QED
    BY <2>4, <2>5 DEF Total, i
<1> QED
  BY <1>1, BookInvariant, LevelsInvariant, PTL
=============================================================================
