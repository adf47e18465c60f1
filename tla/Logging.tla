------------------------------ MODULE Logging ------------------------------
(***************************************************************************)
(* core/logging and include/logging: threads put records into a ring of    *)
(* their own (fast path) or into one shared queue (debug path), and the    *)
(* drain thread writes them.  A thread announces its ring through the      *)
(* registration queue at its first fast record, and its ring dies with it. *)
(* The rings are SpscQueues, taken as bounded FIFOs; the shared queues are *)
(* MpscQueues, taken as ticket queues, with a push in two steps and a pop  *)
(* that fails on an unfilled head.  The result of every try_push is        *)
(* dropped.  start() comes before any logging, as drain.h:8 asks; start()  *)
(* and stop() are called once each, by one thread.                         *)
(*                                                                         *)
(* A load may return an old value.  Every pop may therefore fail on a      *)
(* queue that is not empty, a push may be refused by one that was full     *)
(* once, and the drain, which reads g_running relaxed, may see it set      *)
(* after stop() cleared it; nor does seeing it cleared tell the drain of   *)
(* what was queued before.                                                 *)
(***************************************************************************)
EXTENDS Integers, Sequences, SequencesExt, FiniteSetsExt

CONSTANTS Threads,
          BufCapacity,   \* LogBuffer::kCapacity
          RegCapacity,   \* capacity of register_queue()
          DebugCapacity, \* capacity of debug_record_queue()
          MaxRecords,    \* bound: log statements in all
          Nobody         \* holds a filled ticket

ASSUME LoggingAssumption ==
    /\ {BufCapacity, RegCapacity, DebugCapacity} \subseteq Nat \ {0}
    /\ MaxRecords \in Nat /\ Nobody \notin Threads

VARIABLES tpc,        \* per thread: its place in write_fast() or write_debug()
          registered, \* t_registered
          buf,        \* queue of the thread's LogBuffer
          sent,       \* log statements of the thread so far, per path
          regq,       \* register_queue(): tickets [item, by]
          debugq,     \* debug_record_queue(): tickets
          running,    \* g_running
          owner,      \* "off", "on", "stopping" or "stopped": start() and stop()
          dpc,        \* place of drain_loop()
          final,      \* TRUE after its loop
          buffers,    \* its vector of buffers, by their threads
          pos,        \* the one it is at
          written,    \* history: the number of each thread's last record that was emitted
          pending,    \* history: records queued by calls that returned before stop(), and
                      \* not emitted
          refused,    \* history: threads whose registration found a full queue
          cut,        \* history: threads that had an unfilled ticket when stop() was called
          missed,     \* history: the queues in which the final turn left an element that
                      \* it could have popped
          dangling    \* TRUE once the drain has touched the buffer of an ended thread

threadVars == <<tpc, registered, sent, refused>>
ownerVars == <<running, owner, cut>>
logVars == <<written, pending>>
drainVars == <<dpc, final, buffers, pos, missed, dangling>>
vars == <<threadVars, buf, regq, debugq, logVars, ownerVars, drainVars>>

Paths == {"fast", "debug"}

Init ==
    /\ tpc = [t \in Threads |-> "idle"]
    /\ registered = [t \in Threads |-> FALSE]
    /\ buf = [t \in Threads |-> <<>>]
    /\ sent = [t \in Threads |-> [path \in Paths |-> 0]]
    /\ regq = <<>> /\ debugq = <<>>
    /\ running = FALSE /\ owner = "off"
    /\ dpc = "none" /\ final = FALSE /\ buffers = <<>> /\ pos = 1
    /\ written = [t \in Threads |-> [path \in Paths |-> 0]]
    /\ pending = {} /\ refused = {} /\ cut = {} /\ dangling = FALSE
    /\ missed = [reg |-> FALSE, debug |-> FALSE, rings |-> {}]

-----------------------------------------------------------------------------
Record(t, path) == [from |-> t, nr |-> sent'[t][path], path |-> path]
Goto(t, label) == tpc' = [tpc EXCEPT ![t] = label]
Fill(tickets, t) ==
    [i \in DOMAIN tickets |->
        IF tickets[i].by = t THEN [tickets[i] EXCEPT !.by = Nobody] ELSE tickets[i]]
\* The record is in a queue and the call returns.
Accept(rec) ==
    /\ pending' = IF owner = "on" THEN pending \cup {rec} ELSE pending
    /\ UNCHANGED written

\* format_and_emit().
Emit(rec) ==
    /\ written' = [written EXCEPT ![rec.from][rec.path] = rec.nr]
    /\ pending' = pending \ {rec}

\* Every log statement has a number of its own.
SumSent == MapThenSumSet(LAMBDA tp : sent[tp[1]][tp[2]], Threads \X Paths)
CountRecord(t, path) ==
    /\ owner \in {"on", "stopping"} \* bound: nothing is drained later
    /\ SumSent < MaxRecords
    /\ sent' = [sent EXCEPT ![t][path] = @ + 1]

\* LogBuffer::current(), the first time: claims a place in the registration queue
\* or is refused; t_registered is TRUE in either case.  Here as below a refusal is
\* possible when as much was pushed in all as the queue holds.
Register(t) ==
    /\ tpc[t] = "idle" /\ ~registered[t]
    /\ CountRecord(t, "fast")
    /\ registered' = [registered EXCEPT ![t] = TRUE]
    /\ \/ /\ Len(regq) < RegCapacity
          /\ regq' = Append(regq, [item |-> t, by |-> t])
          /\ Goto(t, "fill") /\ UNCHANGED refused
       \/ /\ Cardinality({u \in Threads : registered[u]}) >= RegCapacity
          /\ refused' = refused \cup {t}
          /\ Goto(t, "push") /\ UNCHANGED regq
    /\ UNCHANGED <<buf, debugq, logVars, ownerVars, drainVars>>

RegisterEnd(t) ==
    /\ tpc[t] = "fill"
    /\ regq' = Fill(regq, t)
    /\ Goto(t, "push")
    /\ UNCHANGED <<registered, refused, sent, buf, debugq, logVars, ownerVars, drainVars>>

\* write_fast(): queue.try_push, whose refusal loses the record.
Push(t) ==
    /\ \/ tpc[t] = "push" /\ UNCHANGED sent
       \/ tpc[t] = "idle" /\ registered[t] /\ CountRecord(t, "fast")
    /\ \/ /\ Len(buf[t]) < BufCapacity
          /\ buf' = [buf EXCEPT ![t] = Append(@, Record(t, "fast"))]
          /\ Accept(Record(t, "fast"))
       \/ /\ sent'[t]["fast"] > BufCapacity
          /\ UNCHANGED <<buf, logVars>>
    /\ Goto(t, "idle")
    /\ UNCHANGED <<registered, refused, regq, debugq, ownerVars, drainVars>>

\* enqueue_debug(): the same on the shared queue, where the claim is a step.
Debug(t) ==
    /\ tpc[t] = "idle" /\ CountRecord(t, "debug")
    /\ \/ /\ Len(debugq) < DebugCapacity
          /\ debugq' = Append(debugq, [item |-> Record(t, "debug"), by |-> t])
          /\ Goto(t, "debugFill")
       \/ /\ MapThenSumSet(LAMBDA u : sent[u]["debug"], Threads) >= DebugCapacity
          /\ UNCHANGED <<debugq, tpc>>
    /\ UNCHANGED <<registered, refused, buf, regq, logVars, ownerVars, drainVars>>

DebugEnd(t) ==
    /\ tpc[t] = "debugFill"
    /\ debugq' = Fill(debugq, t)
    /\ UNCHANGED sent /\ Accept(Record(t, "debug"))
    /\ Goto(t, "idle")
    /\ UNCHANGED <<registered, refused, buf, regq, ownerVars, drainVars>>

\* The thread ends: its thread_local LogBuffer is destroyed with what it holds.  (One
\* that has none is no different from a thread that calls nothing any more.)
End(t) ==
    /\ tpc[t] = "idle" /\ registered[t]
    /\ owner \in {"on", "stopping"} \* bound: nothing is drained later
    /\ Goto(t, "ended")
    /\ buf' = [buf EXCEPT ![t] = <<>>]
    /\ UNCHANGED <<registered, refused, sent, regq, debugq, logVars, ownerVars, drainVars>>

-----------------------------------------------------------------------------
\* Drain::start() and Drain::stop().
Start ==
    /\ owner = "off"
    /\ owner' = "on" /\ running' = TRUE /\ dpc' = "check"
    /\ UNCHANGED <<threadVars, buf, regq, debugq, logVars, cut, final, buffers, pos, missed,
                   dangling>>

Stop ==
    /\ owner = "on"
    /\ owner' = "stopping" /\ running' = FALSE
    /\ cut' = {t \in Threads : tpc[t] \in {"fill", "debugFill"}}
    /\ UNCHANGED <<threadVars, buf, regq, debugq, logVars, drainVars>>

Join ==
    /\ owner = "stopping" /\ dpc = "exited"
    /\ owner' = "stopped"
    /\ UNCHANGED <<threadVars, buf, regq, debugq, logVars, running, cut, drainVars>>

-----------------------------------------------------------------------------
\* drain_loop(): one turn, and the final turn after the loop, which is the same.
CheckEnds ==                            \* mutant: no final drain
    /\ dpc = "check"
    /\ dpc' = IF running THEN "pickup" ELSE "exited"
    /\ UNCHANGED <<threadVars, buf, regq, debugq, logVars, ownerVars, final, buffers,
                   pos, missed, dangling>>

Check ==
    /\ dpc = "check"
    /\ \E seen \in {running, TRUE} : final' = ~seen
    /\ dpc' = "pickup"
    /\ UNCHANGED <<threadVars, buf, regq, debugq, logVars, ownerVars, buffers, pos, missed,
                   dangling>>

CanPop(tickets) == tickets # <<>> /\ Head(tickets).by = Nobody

Pickup ==
    /\ dpc = "pickup" /\ CanPop(regq)
    /\ buffers' = Append(buffers, Head(regq).item)
    /\ regq' = Tail(regq)
    /\ UNCHANGED <<threadVars, buf, debugq, logVars, ownerVars, dpc, final, pos, missed,
                   dangling>>

\* A pop that fails ends the loop.
PickupEnds ==
    /\ dpc = "pickup"
    /\ dpc' = IF buffers = <<>> THEN "debug" ELSE "scan"
    /\ missed' = [missed EXCEPT !.reg = final /\ CanPop(regq)]
    /\ UNCHANGED <<threadVars, buf, regq, debugq, logVars, ownerVars, final, buffers, pos,
                   dangling>>

\* The buffer at hand still exists.
Alive == tpc[buffers[pos]] # "ended"

WriteNewest ==                          \* mutant: the ring is read from its other end
    /\ dpc = "scan" /\ Alive
    /\ buf[buffers[pos]] # <<>>
    /\ Emit(Last(buf[buffers[pos]]))
    /\ buf' = [buf EXCEPT ![buffers[pos]] = Front(@)]
    /\ UNCHANGED <<threadVars, regq, debugq, ownerVars, dpc, final, buffers, pos,
                   missed, dangling>>

Write ==
    /\ dpc = "scan" /\ Alive
    /\ buf[buffers[pos]] # <<>>
    /\ Emit(Head(buf[buffers[pos]]))
    /\ buf' = [buf EXCEPT ![buffers[pos]] = Tail(@)]
    /\ UNCHANGED <<threadVars, regq, debugq, ownerVars, dpc, final, buffers, pos,
                   missed, dangling>>

NextBuffer ==
    /\ dpc = "scan" /\ Alive
    /\ IF pos = Len(buffers) THEN dpc' = "debug" /\ pos' = 1
       ELSE pos' = pos + 1 /\ UNCHANGED dpc
    /\ missed' = IF final /\ buf[buffers[pos]] # <<>>
                   THEN [missed EXCEPT !.rings = @ \cup {buffers[pos]}] ELSE missed
    /\ UNCHANGED <<threadVars, buf, regq, debugq, logVars, ownerVars, final, buffers, dangling>>

\* The pointer is to a destroyed LogBuffer: nothing is known from here on.
TouchDestroyed ==
    /\ dpc = "scan" /\ ~Alive
    /\ dangling' = TRUE
    /\ UNCHANGED <<threadVars, buf, regq, debugq, logVars, ownerVars, dpc, final, buffers,
                   pos, missed>>

WriteDebug ==
    /\ dpc = "debug" /\ CanPop(debugq)
    /\ Emit(Head(debugq).item)
    /\ debugq' = Tail(debugq)
    /\ UNCHANGED <<threadVars, buf, regq, ownerVars, dpc, final, buffers, pos,
                   missed, dangling>>

TurnEndsEmpty ==                        \* mutant: waits for unfilled tickets too
    /\ dpc = "debug" /\ debugq = <<>>
    /\ dpc' = IF final THEN "exited" ELSE "check"
    /\ UNCHANGED <<threadVars, buf, regq, debugq, logVars, ownerVars, final, buffers, pos,
                   missed, dangling>>

TurnEnds ==
    /\ dpc = "debug"
    /\ dpc' = IF final THEN "exited" ELSE "check"
    /\ missed' = [missed EXCEPT !.debug = final /\ CanPop(debugq)]
    /\ UNCHANGED <<threadVars, buf, regq, debugq, logVars, ownerVars, final, buffers, pos,
                   dangling>>

-----------------------------------------------------------------------------
ThreadStep(t) == RegisterEnd(t) \/ (tpc[t] = "push" /\ Push(t)) \/ DebugEnd(t)
Call(t) == Register(t) \/ Debug(t) \/ (tpc[t] = "idle" /\ Push(t))
DrainStep ==
    \/ Check \/ Pickup \/ PickupEnds \/ Write \/ NextBuffer \/ TouchDestroyed
    \/ WriteDebug \/ TurnEnds

Next ==
    /\ ~dangling
    /\ \/ Start \/ Stop \/ Join \/ DrainStep
       \/ \E t \in Threads : Call(t) \/ ThreadStep(t) \/ End(t)

Spec == Init /\ [][Next]_vars

\* The drain thread and stop() are scheduled; a logging thread need not be.  A store
\* is seen in the end: the drain does not read the flag as set for ever.
FairSpec ==
    /\ Spec
    /\ WF_vars(~dangling /\ DrainStep) /\ WF_vars(~dangling /\ Join)
    /\ SF_vars(~dangling /\ Check /\ final')

-----------------------------------------------------------------------------
Records == [from : Threads, nr : Nat, path : Paths]

\* What reaches the log is in the order in which each thread wrote it, per path.
\* (Between the paths of one thread the order may change.)
WrittenInOrder ==
    [][\A t \in Threads, path \in Paths : written'[t][path] >= written[t][path]]_vars

(***************************************************************************)
(* When stop() has returned, a record whose log statement returned before  *)
(* stop() was called is written, but for three cases.  It was in nobody's  *)
(* sight: the registration of its thread was refused.  It, or that         *)
(* registration, stands in a shared queue behind one that was claimed and  *)
(* not filled when stop() was called.  Or it, or that registration, was in *)
(* a queue whose last pop in the final turn saw an old counter.            *)
(***************************************************************************)
AcceptedWritten ==
    owner = "stopped" => \A rec \in pending :
        IF rec.path = "debug"
          THEN \E i \in DOMAIN debugq :
                   /\ debugq[i].item = rec
                   /\ missed.debug \/ \E j \in 1 .. i - 1 : debugq[j].item.from \in cut
          ELSE \/ rec.from \in refused \cup missed.rings
               \/ \E i \in DOMAIN regq :
                      /\ regq[i].item = rec.from
                      /\ missed.reg \/ \E j \in 1 .. i - 1 : regq[j].item \in cut

\* stop() returns, though a thread may be stuck in the middle of a log statement.
StopReturns == (owner = "stopping") ~> (owner = "stopped" \/ dangling)

-----------------------------------------------------------------------------
\* Types, and where the two threads that are not logging are.
Tickets(S) == Seq([item : S, by : Threads \cup {Nobody}])
Places == {"idle", "fill", "push", "debugFill", "ended"}
Turns == {"none", "check", "pickup", "scan", "debug", "exited"}
TypeOK ==
    /\ tpc \in [Threads -> Places] /\ registered \in [Threads -> BOOLEAN]
    /\ buf \in [Threads -> Seq(Records)]
    /\ sent \in [Threads -> [Paths -> Nat]] /\ written \in [Threads -> [Paths -> Nat]]
    /\ regq \in Tickets(Threads) /\ debugq \in Tickets(Records)
    /\ running \in BOOLEAN /\ owner \in {"off", "on", "stopping", "stopped"}
    /\ dpc \in Turns /\ final \in BOOLEAN /\ buffers \in Seq(Threads)
    /\ pos \in Nat \ {0} /\ pending \subseteq Records
    /\ refused \subseteq Threads /\ cut \subseteq Threads /\ dangling \in BOOLEAN
    /\ missed \in [reg : BOOLEAN, debug : BOOLEAN, rings : SUBSET Threads]
    /\ running = (owner = "on") /\ (dpc = "none") = (owner = "off")
    /\ final => owner \in {"stopping", "stopped"} /\ dpc \notin {"none", "check"}
    /\ dpc = "exited" => final
    /\ owner = "stopped" => dpc = "exited"
    /\ IF dpc = "scan" THEN pos \in DOMAIN buffers ELSE pos = 1

\* The inductive invariant behind WrittenInOrder: what a queue holds of a thread is
\* newer than what has been written of it, and in order.
Newer(rec) ==
    written[rec.from][rec.path] < rec.nr /\ rec.nr <= sent[rec.from][rec.path]
Ahead == \A t \in Threads, path \in Paths : written[t][path] <= sent[t][path]
Ring(t) ==
    /\ \A i \in DOMAIN buf[t] : buf[t][i].from = t /\ buf[t][i].path = "fast" /\ Newer(buf[t][i])
    /\ \A i, j \in DOMAIN buf[t] : i < j => buf[t][i].nr < buf[t][j].nr
    /\ tpc[t] \in {"fill", "push"} => buf[t] = <<>> /\ written[t]["fast"] < sent[t]["fast"]
    /\ ~registered[t] => buf[t] = <<>> /\ tpc[t] \notin {"fill", "push"}
Shared ==
    /\ \A i \in DOMAIN debugq : debugq[i].item.path = "debug" /\ Newer(debugq[i].item)
    /\ \A i, j \in DOMAIN debugq :
          i < j /\ debugq[i].item.from = debugq[j].item.from => debugq[i].item.nr < debugq[j].item.nr
OrderInv == Ahead /\ (\A t \in Threads : Ring(t)) /\ Shared

\* The inductive invariant behind AcceptedWritten.  Of the tickets: who has yet to
\* fill them, and that a thread that was not refused is known to the drain.
Unfilled ==
    /\ \A i \in DOMAIN regq : regq[i].by # Nobody =>
          regq[i].by = regq[i].item /\ tpc[regq[i].item] = "fill"
    /\ \A i \in DOMAIN debugq : debugq[i].by # Nobody =>
          debugq[i].by = debugq[i].item.from /\ tpc[debugq[i].item.from] = "debugFill"
Filling ==
    \A t \in Threads : tpc[t] = "debugFill" =>
        \E i \in DOMAIN debugq : debugq[i].by = t /\ debugq[i].item.nr = sent[t]["debug"]
Known(t) == (\E i \in DOMAIN regq : regq[i].item = t) \/ \E k \in DOMAIN buffers : buffers[k] = t
Announced == \A t \in Threads : registered[t] /\ t \notin refused => Known(t)

\* Of a record that stop() must not lose: a queue holds it, unless its thread has
\* ended; and a ticket before it that is unfilled after stop() was called was
\* unfilled then.
Held(rec) ==
    IF rec.path = "fast" THEN \E i \in DOMAIN buf[rec.from] : buf[rec.from][i] = rec
    ELSE \E i \in DOMAIN debugq : debugq[i].item = rec /\ debugq[i].by = Nobody
Kept(rec) ==
    /\ tpc[rec.from] # "ended" \/ rec.path = "debug" => Held(rec)
    /\ rec.path = "fast" => registered[rec.from] /\ tpc[rec.from] \notin {"fill", "push"}
Behind(rec) ==
    /\ rec.path = "fast" => \A i, j \in DOMAIN regq :
          i < j /\ regq[j].item = rec.from /\ regq[i].by # Nobody => regq[i].item \in cut
    /\ rec.path = "debug" => \A i, j \in DOMAIN debugq :
          i < j /\ debugq[j].item = rec /\ debugq[i].by # Nobody => debugq[i].item.from \in cut

\* Of the final turn: the rings it has passed hold no such record, unless one of
\* them was missed, and what it leaves in the shared queues was missed there or
\* stands behind a ticket that was cut.
NoFast(t) == \A rec \in pending : rec.path = "fast" => rec.from # t
Passed ==
    final => /\ dpc = "scan" => \A k \in 1 .. pos - 1 :
                    NoFast(buffers[k]) \/ buffers[k] \in missed.rings
             /\ dpc \in {"debug", "exited"} => \A k \in DOMAIN buffers :
                    NoFast(buffers[k]) \/ buffers[k] \in missed.rings
LeftBehind ==
    /\ final /\ dpc \in {"scan", "debug", "exited"} => \A rec \in pending : \A j \in DOMAIN regq :
          rec.path = "fast" /\ regq[j].item = rec.from =>
              missed.reg \/ (j > 1 /\ regq[1].item \in cut)
    /\ dpc = "exited" => \A rec \in pending : rec.path = "debug" =>
          \E i \in DOMAIN debugq : debugq[i].item = rec
              /\ (missed.debug \/ (i > 1 /\ debugq[1].item.from \in cut))

\* LogInv in two parts: the order of the records, and where those are that stop() must
\* not lose.
Waits(rec) == Kept(rec) /\ (owner \in {"stopping", "stopped"} => Behind(rec))
DrainInv ==
    /\ Unfilled /\ Filling /\ Announced
    /\ \A rec \in pending : Waits(rec)
    /\ Passed /\ LeftBehind
LogInv == OrderInv /\ DrainInv
=============================================================================
