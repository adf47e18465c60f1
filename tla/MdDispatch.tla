----------------------------- MODULE MdDispatch -----------------------------
(***************************************************************************)
(* apps/md_dispatch: the receiver thread hands each message to the worker  *)
(* of its symbol, the worker applies it to the symbol's book and publishes *)
(* a snapshot in the shared table, and processes elsewhere read the table. *)
(* The process has no way to stop but to be killed; it is started again,   *)
(* with the segment as it was left.                                        *)
(*                                                                         *)
(* A book is the sequence of the messages applied to it, a snapshot        *)
(* <<run, length>>, two words of one value.  A worker's queue is the queue *)
(* of tickets that ThreadPool shows it to be, here a sequence.             *)
(***************************************************************************)
EXTENDS SharedBookTable, Sequences, FiniteSets

CONSTANTS Books,         \* symbols that have a book: kMaxSymbols of them
          Strangers,     \* symbols that have none
          kNumBookWorkers,
          QueueCapacity,
          Readers,       \* processes that read the table
          MaxMessages,   \* bound: messages received in one run
          MaxRuns        \* bound: starts of the process

ASSUME MdAssumption ==
    /\ IsFiniteSet(Books) /\ Books = 0 .. Cardinality(Books) - 1 /\ Slots = Books
    /\ Strangers \subseteq Nat /\ Books \cap Strangers = {}
    /\ kNumBookWorkers \in Nat \ {0} /\ QueueCapacity \in Nat \ {0}
    /\ MaxMessages \in Nat /\ MaxRuns \in Nat /\ MaxSegments \in Nat

VARIABLES host,     \* the segments
          main,     \* where main() is: "off", "opened", "sized", "created", "running"
          table,    \* its SharedBookTable
          queues,   \* each worker's tasks
          books,    \* the books
          pub,      \* what each worker is publishing, and how far it is
          received, \* messages received in this run
          accepted, \* ghost: of each symbol, those that entered a queue
          runs,     \* starts so far
          reader,   \* each reader: its object and the read it is in
          taken     \* ghost: the name was unlinked by a reader whose open() failed

process == <<main, table, queues, books, pub, received, accepted, runs>>
vars == <<host, process, reader, taken>>

Workers == 0 .. kNumBookWorkers - 1
Symbols == Books \cup Strangers
NoPublish == [at |-> "idle"]
NoRead == [at |-> "idle"]

\* What a new process starts with.
Cleared ==
    /\ queues' = [w \in Workers |-> <<>>] /\ books' = [b \in Books |-> <<>>]
    /\ pub' = [w \in Workers |-> NoPublish] /\ received' = 0
    /\ accepted' = [s \in Symbols |-> <<>>]

Init ==
    /\ host = NewHost /\ main = "off" /\ table = NewTable /\ runs = 0 /\ taken = FALSE
    /\ queues = [w \in Workers |-> <<>>] /\ books = [b \in Books |-> <<>>]
    /\ pub = [w \in Workers |-> NoPublish] /\ received = 0
    /\ accepted = [s \in Symbols |-> <<>>]
    /\ reader = [r \in Readers |-> [table |-> NewTable, read |-> NoRead, got |-> <<>>]]

----------------------------------------------------------------------------
(* main()                                                                  *)

\* The segment is emptied under the readers that are reading it.
Spoiled(i) ==
    [r \in Readers |-> IF reader[r].table.at = i /\ reader[r].read.at # "idle"
                       THEN [reader[r] EXCEPT !.read.spoiled = TRUE] ELSE reader[r]]

Begin ==
    /\ main = "off" /\ runs < MaxRuns /\ (host.linked = 0 => host.used < MaxSegments)
    /\ host' = ShmOpenCreate(host)
    /\ main' = "opened" /\ runs' = runs + 1 /\ Cleared /\ taken' = FALSE
    /\ table' = [NewTable EXCEPT !.at = host'.linked, !.named = TRUE]
    /\ reader' = Spoiled(host.linked)

Size ==
    /\ main = "opened" /\ host' = Ftruncate(host, table.at) /\ main' = "sized"
    /\ UNCHANGED <<table, queues, books, pub, received, accepted, runs, reader, taken>>

MapTable ==
    /\ main = "sized" /\ host' = Construct(host, table.at) /\ main' = "created"
    /\ reader' = Spoiled(table.at)
    /\ UNCHANGED <<table, queues, books, pub, received, accepted, runs, taken>>

\* The books are built, the pool started and the receiver opened.
OpenReceiver ==
    /\ main = "created" /\ main' = "running"
    /\ UNCHANGED <<host, table, queues, books, pub, received, accepted, runs, reader, taken>>

\* shm_open fails: the destructor unlinks the name all the same.
BeginFails ==
    /\ main = "off" /\ runs < MaxRuns /\ runs' = runs + 1
    /\ host' = Close(host, OpenFails(NewTable))
    /\ UNCHANGED <<main, table, queues, books, pub, received, accepted, reader, taken>>

\* ftruncate, mmap or the receiver fails: main() returns and the destructors run.
ReturnFailed ==
    /\ main \in {"opened", "sized", "created"}
    /\ host' = Close(host, table) /\ main' = "off" /\ table' = NewTable /\ Cleared
    /\ UNCHANGED <<runs, reader, taken>>

\* Nothing stops receiver.run(); the process is killed, and nothing is undone.
Kill ==
    /\ main # "off" /\ main' = "off" /\ table' = NewTable /\ Cleared
    /\ UNCHANGED <<host, runs, reader, taken>>

----------------------------------------------------------------------------
(* The receiver thread and the workers.                                    *)

WorkerForKeyRoundRobin(symbol) == received % kNumBookWorkers \* mutant
WorkerForKey(symbol) == symbol % kNumBookWorkers

OnPacket ==
    /\ main = "running" /\ received < MaxMessages
    /\ \E symbol \in Symbols :
        LET w == WorkerForKey(symbol)
            task == [symbol |-> symbol, nr |-> received + 1]
        IN  IF Len(queues[w]) < QueueCapacity
            THEN /\ queues' = [queues EXCEPT ![w] = Append(@, task)]
                 /\ accepted' = [accepted EXCEPT ![symbol] = Append(@, task.nr)]
            ELSE UNCHANGED <<queues, accepted>>
    /\ received' = received + 1
    /\ UNCHANGED <<host, main, table, books, pub, runs, reader, taken>>

\* The books were dealt out to the workers before the first message.
Owned(w) == {b \in Books : b % kNumBookWorkers = w}

ProcessMarketData(w) ==
    /\ main = "running" /\ queues[w] # <<>> /\ pub[w] = NoPublish
    /\ LET task == Head(queues[w])
       IN  IF task.symbol \in Owned(w)
           THEN /\ books' = [books EXCEPT ![task.symbol] = Append(@, task.nr)]
                /\ pub' = [pub EXCEPT ![w] = [at |-> "begin", symbol |-> task.symbol]]
           ELSE UNCHANGED <<books, pub>>
    /\ queues' = [queues EXCEPT ![w] = Tail(@)]
    /\ UNCHANGED <<host, main, table, received, accepted, runs, reader, taken>>

SlotOf(symbol) == symbol % Cardinality(Slots)
Snapshot(symbol) == <<runs, Len(books[symbol])>>

Publishing(w, at, next) ==
    /\ main = "running" /\ pub[w].at = at
    /\ pub' = [pub EXCEPT ![w] = IF next = "idle" THEN NoPublish ELSE [@ EXCEPT !.at = next]]
    /\ UNCHANGED <<main, table, queues, books, received, accepted, runs, reader, taken>>
PubSlot(w) == SlotOf(pub[w].symbol)

PublishBeginQuiet(w) == Publishing(w, "begin", "first") /\ UNCHANGED host \* mutant: not marked
PublishBegin(w) ==
    Publishing(w, "begin", "first") /\ host' = BumpSeq(host, table.at, PubSlot(w))
PublishWord(w) ==
    \/ /\ Publishing(w, "first", "second")
       /\ host' = StoreWord(host, table.at, PubSlot(w), 1, Snapshot(pub[w].symbol))
    \/ /\ Publishing(w, "second", "end")
       /\ host' = StoreWord(host, table.at, PubSlot(w), 2, Snapshot(pub[w].symbol))
PublishEndQuiet(w) == Publishing(w, "end", "idle") /\ UNCHANGED host \* mutant: left marked
PublishEnd(w) ==
    Publishing(w, "end", "idle") /\ host' = BumpSeq(host, table.at, PubSlot(w))

----------------------------------------------------------------------------
(* Readers.                                                                *)

Reading(r, at) == reader[r].read.at = at
Now(r, new) == reader' = [reader EXCEPT ![r] = new] /\ UNCHANGED process
FreshReader == [table |-> NewTable, read |-> NoRead, got |-> <<>>]

\* open() of an object that has mapped nothing yet; it may fail though the
\* segment is there.
Open(r) ==
    /\ reader[r].table.at = 0
    /\ \/ Now(r, [reader[r] EXCEPT !.table = OpenFails(@)])
       \/ host.linked # 0 /\ Now(r, [reader[r] EXCEPT !.table = OpenMaps(@, host.linked)])
    /\ UNCHANGED <<host, taken>>

\* The reader is done with its object.
CloseTable(r) ==
    /\ reader[r].table.named /\ Reading(r, "idle")
    /\ host' = Close(host, reader[r].table) /\ Now(r, FreshReader)
    /\ taken' = (taken \/ reader[r].table.at = 0)

\* read() or try_read() of a slot.
ReadBegin(r) ==
    /\ reader[r].table.at # 0 /\ Reading(r, "idle")
    /\ \E s \in Slots, try \in BOOLEAN :
        Now(r, [reader[r] EXCEPT !.got = <<>>,
            !.read = [at |-> "load", slot |-> s, try |-> try, seq |-> 0, seen |-> Zero,
                      copy |-> <<>>, spoiled |-> FALSE]])
    /\ UNCHANGED <<host, taken>>

\* A segment that is emptied has no page to read: SIGBUS ends the reader.
BusError(r) ==
    /\ ~Reading(r, "idle") /\ ~host.segs[reader[r].table.at].sized
    /\ Now(r, FreshReader) /\ UNCHANGED <<host, taken>>

ReadStep(r) ==
    LET i == reader[r].table.at
        read == reader[r].read
        seq == SlotSeq(host, i, read.slot)
        done(got) == Now(r, [reader[r] EXCEPT !.read = NoRead, !.got = got])
        on(new) == Now(r, [reader[r] EXCEPT !.read = new])
    IN  /\ read.at # "idle" /\ host.segs[i].sized
        /\ \/ read.at = "load" /\ seq % 2 = 0
              /\ on([read EXCEPT !.at = "copy", !.seq = seq, !.copy = <<>>,
                                 !.seen = WordOf(host, i, read.slot, 1), !.spoiled = FALSE])
           \/ read.at = "load" /\ seq % 2 = 1 /\ read.try /\ done(<<>>)
           \/ read.at = "copy" /\ Len(read.copy) < 2
              /\ on([read EXCEPT !.copy = Append(@, WordOf(host, i, read.slot, Len(@) + 1))])
           \/ read.at = "copy" /\ Len(read.copy) = 2
              /\ IF seq = read.seq
                 THEN done(<<[words |-> read.copy, seen |-> read.seen, spoiled |-> read.spoiled]>>)
                 ELSE IF read.try THEN done(<<>>) ELSE on([read EXCEPT !.at = "load"])
        /\ UNCHANGED <<host, taken>>

Publish(w) == PublishBegin(w) \/ PublishWord(w) \/ PublishEnd(w)
Next ==
    \/ Begin \/ BeginFails \/ Size \/ MapTable \/ OpenReceiver \/ ReturnFailed \/ Kill \/ OnPacket
    \/ \E w \in Workers : ProcessMarketData(w) \/ Publish(w)
    \/ \E r \in Readers : Open(r) \/ CloseTable(r) \/ ReadBegin(r) \/ BusError(r) \/ ReadStep(r)

\* Workers and readers are scheduled; main() may hang, and nobody need be killed.
Fairness ==
    /\ \A w \in Workers : WF_vars(ProcessMarketData(w)) /\ WF_vars(Publish(w))
    /\ \A r \in Readers : WF_vars(ReadStep(r)) /\ WF_vars(BusError(r))
Spec == Init /\ [][Next]_vars
FairSpec == Spec /\ Fairness

----------------------------------------------------------------------------
(* Properties.                                                             *)

\* What read() and try_read() return is the one snapshot that was there when the
\* read began, unless the writer was restarted on the segment in the middle of it
\* (shared_book_table.h:21-25; the sequence numbers begin again, so a read can
\* match across a restart).
ReadIsOneSnapshot ==
    \A r \in Readers : reader[r].got # <<>> =>
        LET got == reader[r].got[1]
        IN  ~got.spoiled => \A k \in Words : got.words[k] = got.seen

\* Every message that entered a queue is in its symbol's book or still queued for
\* the worker that has the book, once and in the order of arrival: what is lost
\* is lost at a full queue and nowhere else (md_dispatch/main.cpp:109-126).
Rising(numbers) == \A i, j \in DOMAIN numbers : i < j => numbers[i] < numbers[j]
Waiting(w, b) == {queues[w][i].nr : i \in {j \in DOMAIN queues[w] : queues[w][j].symbol = b}}
BooksFollowFeed ==
    main = "running" =>
        /\ \A w \in Workers : Rising([i \in DOMAIN queues[w] |-> queues[w][i].nr])
        /\ \A b \in Books :
            LET done == Len(books[b])
                all == accepted[b]
            IN  /\ Rising(all) /\ done <= Len(all) /\ \A i \in 1 .. done : books[b][i] = all[i]
                /\ \A w \in Workers : Waiting(w, b) =
                      IF b \in Owned(w) THEN {all[i] : i \in done + 1 .. Len(all)} ELSE {}

\* While the writer runs, the name leads to its segment, whatever readers come
\* and go; only the one whose open() failed takes it away (shared_book_table.h:
\* 64-80, owns_unlink_).
NameLeadsToWriter ==
    main \in {"opened", "sized", "created", "running"} =>
        host.linked = table.at \/ (taken /\ host.linked = 0)

\* A read() ends: no worker leaves a slot marked, so that a reader waits for ever
\* only for a writer that is gone, or on a segment that has lost its writer.
ReadReturns ==
    \A r \in Readers :
        ~Reading(r, "idle") ~> (Reading(r, "idle") \/ main = "off" \/ reader[r].table.at # table.at)

----------------------------------------------------------------------------
\* The inductive invariant behind NameLeadsToWriter: an object that would unlink
\* the name on closing maps nothing, but for the writer's own.
HostOK(x) == "linked" \in DOMAIN x
ReaderOK(x) ==
    /\ "table" \in DOMAIN x /\ {"at", "named", "owns"} \subseteq DOMAIN x.table
    /\ x.table.owns = FALSE \/ x.table.at = 0
ReadersOK ==
    reader = [r \in Readers |-> reader[r]] /\ \A r \in Readers : ReaderOK(reader[r])
NameInv == HostOK(host) /\ ReadersOK /\ NameLeadsToWriter

\* Types.
Value == Nat \X Nat
Segment == [sized : BOOLEAN, slots : [Slots -> [seq : Nat, words : [Words -> Value]]]]
Host == [linked : 0 .. MaxSegments, used : 0 .. MaxSegments, segs : [1 .. MaxSegments -> Segment]]
Table == [at : 0 .. MaxSegments, named : BOOLEAN, owns : BOOLEAN]
Marked == {"first", "second", "end"}
Publishes == {NoPublish} \cup [at : {"begin"} \cup Marked, symbol : Books]
Read == [at : {"load", "copy"}, slot : Slots, try : BOOLEAN, seq : Nat, seen : Value,
         copy : Seq(Value), spoiled : BOOLEAN]
Got == [words : Seq(Value), seen : Value, spoiled : BOOLEAN]
Reader == [table : Table, read : {NoRead} \cup Read, got : Seq(Got)]
TypeOK ==
    /\ host \in Host /\ table \in Table /\ taken \in BOOLEAN
    /\ main \in {"off", "opened", "sized", "created", "running"}
    /\ queues \in [Workers -> Seq([symbol : Symbols, nr : Nat])] /\ books \in [Books -> Seq(Nat)]
    /\ pub \in [Workers -> Publishes] /\ accepted \in [Symbols -> Seq(Nat)]
    /\ received \in Nat /\ runs \in Nat
    /\ main # "off" => table.at # 0
    /\ reader \in [Readers -> Reader]
    /\ \A r \in Readers : reader[r].read # NoRead => reader[r].table.at # 0

\* The inductive invariant behind ReadIsOneSnapshot.  Of the writer: the segment it
\* is on, that a slot's sequence number is odd exactly while its worker is between
\* the two increments, and what it has stored by then.
MarkedBy(w, b) == pub[w].at \in Marked /\ pub[w].symbol = b
SegmentsInv ==
    /\ host.linked <= host.used /\ table.at <= host.used
    /\ \A i \in 1 .. MaxSegments : i > host.used => host.segs[i] = Sized(FALSE)
    /\ main = "opened" => host.segs[table.at].slots = Sized(FALSE).slots
SlotsInv ==
    /\ \A i \in 1 .. MaxSegments, s \in Slots :
          SlotSeq(host, i, s) % 2 = 0 => WordOf(host, i, s, 1) = WordOf(host, i, s, 2)
    /\ main = "created" => \A s \in Slots : SlotSeq(host, table.at, s) % 2 = 0
    /\ main = "running" => \A w \in Workers : \A b \in Owned(w) :
          SlotSeq(host, table.at, b) % 2 = 1 <=> MarkedBy(w, b)
PublishesInv ==
    \A w \in Workers : pub[w] # NoPublish =>
        /\ main = "running" /\ pub[w].symbol \in Owned(w)
        /\ pub[w].at \in {"second", "end"} =>
              WordOf(host, table.at, PubSlot(w), 1) = Snapshot(pub[w].symbol)
        /\ pub[w].at = "end" =>
              WordOf(host, table.at, PubSlot(w), 2) = Snapshot(pub[w].symbol)

\* Of a reader: what it has copied is what it saw, as long as the sequence number
\* is the one it loaded.
CopyOK(h, x) ==
    LET i == x.table.at
        read == x.read
    IN  read.at = "copy" /\ ~read.spoiled =>
            /\ read.seq % 2 = 0 /\ read.seq <= SlotSeq(h, i, read.slot) /\ Len(read.copy) <= 2
            /\ SlotSeq(h, i, read.slot) = read.seq =>
                  /\ WordOf(h, i, read.slot, 1) = read.seen
                  /\ \A k \in 1 .. Len(read.copy) : read.copy[k] = read.seen
CopiesInv == \A r \in Readers : CopyOK(host, reader[r])
SnapshotInv == SegmentsInv /\ SlotsInv /\ PublishesInv /\ CopiesInv /\ ReadIsOneSnapshot

\* The inductive invariant behind BooksFollowFeed: no number is ahead of the receiver.
FeedInv ==
    /\ main # "running" => /\ \A w \in Workers : queues[w] = <<>>
                           /\ \A b \in Books : books[b] = <<>>
                           /\ \A s \in Symbols : accepted[s] = <<>>
    /\ \A w \in Workers : \A i \in DOMAIN queues[w] : queues[w][i].nr <= received
    /\ \A s \in Symbols : \A i \in DOMAIN accepted[s] : accepted[s][i] <= received
    /\ BooksFollowFeed
=============================================================================
