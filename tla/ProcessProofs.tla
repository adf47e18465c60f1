--------------------------- MODULE ProcessProofs ---------------------------
(***************************************************************************)
(* Two parts of every process that do not share their state: the logger    *)
(* (Logging), for every number of threads and records and every capacity   *)
(* of its queues, and run() (Application), which starts and stops it, for  *)
(* every number of modules and of signals.                                 *)
(***************************************************************************)
EXTENDS Logging, Application, SequenceTheorems, TLAPS

(* ---- queues, element by element ---------------------------------------- *)

Ticket(S) == [item : S, by : Threads \cup {Nobody}]

\* A place filled: the same tickets with the thread's name gone from them.
LEMMA FillElements ==
    ASSUME NEW S, NEW q \in Tickets(S), NEW t
    PROVE  /\ Fill(q, t) \in Tickets(S) /\ DOMAIN Fill(q, t) = DOMAIN q
           /\ DOMAIN q = 1 .. Len(q) /\ Len(q) \in Nat
           /\ \A i \in DOMAIN q : /\ Fill(q, t)[i].item = q[i].item
                                  /\ Fill(q, t)[i].by = IF q[i].by = t THEN Nobody ELSE q[i].by
<1>1. q \in Seq(Ticket(S)) /\ DOMAIN q = 1 .. Len(q) /\ Len(q) \in Nat
  BY DEF Tickets, Ticket
<1>2. \A i \in DOMAIN q : q[i] \in Ticket(S)
  BY <1>1
<1>3. ASSUME NEW x \in Ticket(S)
      PROVE  /\ [x EXCEPT !.by = Nobody] \in Ticket(S)
             /\ [x EXCEPT !.by = Nobody].item = x.item /\ [x EXCEPT !.by = Nobody].by = Nobody
  BY DEF Ticket
<1>4. \A i \in DOMAIN q : Fill(q, t)[i] = IF q[i].by = t THEN [q[i] EXCEPT !.by = Nobody] ELSE q[i]
  BY DEF Fill
<1>5. DOMAIN Fill(q, t) = DOMAIN q
  BY DEF Fill
<1>6. \A i \in DOMAIN q : /\ Fill(q, t)[i].item = q[i].item
                          /\ Fill(q, t)[i].by = IF q[i].by = t THEN Nobody ELSE q[i].by
                          /\ Fill(q, t)[i] \in Ticket(S)
  <2> TAKE i \in DOMAIN q
  <2>1. q[i] \in Ticket(S) /\ Fill(q, t)[i] = IF q[i].by = t THEN [q[i] EXCEPT !.by = Nobody] ELSE q[i]
    BY <1>2, <1>4
  <2>2. CASE q[i].by = t
    BY <1>3, <2>1, <2>2
  <2>3. CASE q[i].by # t
    BY <2>1, <2>3
  <2> QED
    BY <2>2, <2>3
<1>7. Fill(q, t) \in [1 .. Len(q) -> Ticket(S)]
  <2>1. Fill(q, t) = [i \in 1 .. Len(q) |-> Fill(q, t)[i]]
    BY <1>1 DEF Fill
  <2> QED
    BY <1>1, <1>6, <2>1
<1>8. Fill(q, t) \in Seq(Ticket(S))
  BY <1>1, <1>7, SeqDef
<1> QED
  BY <1>1, <1>5, <1>6, <1>8 DEF Tickets, Ticket

\* One more element at the end.
LEMMA AppendElements ==
    ASSUME NEW S, NEW q \in Seq(S), NEW x \in S
    PROVE  /\ Append(q, x) \in Seq(S) /\ DOMAIN q = 1 .. Len(q) /\ Len(q) \in Nat
           /\ DOMAIN Append(q, x) = 1 .. Len(q) + 1
           /\ Append(q, x)[Len(q) + 1] = x /\ \A i \in DOMAIN q : Append(q, x)[i] = q[i]
           /\ \A i \in DOMAIN Append(q, x) : i \in DOMAIN q \/ i = Len(q) + 1
  BY AppendProperties

\* The first element gone.
LEMMA TailElements ==
    ASSUME NEW S, NEW q \in Seq(S), q # <<>>
    PROVE  /\ Tail(q) \in Seq(S) /\ DOMAIN q = 1 .. Len(q) /\ Len(q) \in Nat \ {0}
           /\ 1 \in DOMAIN q /\ Head(q) = q[1] /\ q[1] \in S
           /\ DOMAIN Tail(q) = 1 .. Len(q) - 1
           /\ \A i \in DOMAIN Tail(q) : i + 1 \in DOMAIN q /\ Tail(q)[i] = q[i + 1]
           /\ \A i \in DOMAIN q : i # 1 => i - 1 \in DOMAIN Tail(q) /\ Tail(q)[i - 1] = q[i]
<1>1. /\ Tail(q) \in Seq(S) /\ DOMAIN q = 1 .. Len(q) /\ Len(q) \in Nat \ {0}
      /\ Head(q) = q[1] /\ q[1] \in S /\ DOMAIN Tail(q) = 1 .. Len(q) - 1
      /\ \A i \in 1 .. Len(q) - 1 : Tail(q)[i] = q[i + 1]
  BY HeadTailProperties
<1>2. ASSUME NEW i \in DOMAIN q, i # 1
      PROVE  i - 1 \in DOMAIN Tail(q) /\ Tail(q)[i - 1] = q[i]
  <2>1. i \in Nat /\ i - 1 \in 1 .. Len(q) - 1 /\ (i - 1) + 1 = i
    BY <1>1, <1>2
  <2> QED
    BY <1>1, <2>1
<1> QED
  BY <1>1, <1>2

(* ---- the actions, as what they do to the state --------------------------- *)

\* A log statement takes the thread's next number.
LEMMA Counting ==
    ASSUME TypeOK, NEW t \in Threads, NEW path \in Paths, CountRecord(t, path)
    PROVE  /\ owner \in {"on", "stopping"}
           /\ sent[t][path] \in Nat /\ sent'[t][path] = sent[t][path] + 1
           /\ sent' \in [Threads -> [Paths -> Nat]]
           /\ \A u \in Threads, p \in Paths : u # t \/ p # path => sent'[u][p] = sent[u][p]
<1>1. sent \in [Threads -> [Paths -> Nat]] /\ sent' = [sent EXCEPT ![t][path] = @ + 1]
  BY DEF TypeOK, CountRecord
<1>2. owner \in {"on", "stopping"}
  BY DEF CountRecord
<1>3. sent[t] \in [Paths -> Nat] /\ sent[t][path] \in Nat
  BY <1>1
<1>4. sent' = [sent EXCEPT ![t] = [sent[t] EXCEPT ![path] = sent[t][path] + 1]]
  BY <1>1
<1>5. [sent[t] EXCEPT ![path] = sent[t][path] + 1] \in [Paths -> Nat]
  BY <1>3
<1>6. sent' \in [Threads -> [Paths -> Nat]]
  BY <1>1, <1>4, <1>5
<1>7. sent'[t] = [sent[t] EXCEPT ![path] = sent[t][path] + 1] /\ \A u \in Threads : u # t => sent'[u] = sent[u]
  BY <1>1, <1>4
<1> QED
  BY <1>2, <1>3, <1>6, <1>7

\* A record of a thread.
LEMMA RecordType ==
    ASSUME sent' \in [Threads -> [Paths -> Nat]], NEW t \in Threads, NEW path \in Paths
    PROVE  /\ Record(t, path) \in Records /\ Record(t, path).from = t
           /\ Record(t, path).path = path /\ Record(t, path).nr = sent'[t][path]
  BY DEF Record, Records

\* A record emitted is the last one written of its thread and path.
LEMMA Emitting ==
    ASSUME TypeOK, NEW rec \in Records, Emit(rec)
    PROVE  /\ written' \in [Threads -> [Paths -> Nat]] /\ pending' = pending \ {rec}
           /\ written'[rec.from][rec.path] = rec.nr
           /\ \A u \in Threads, p \in Paths : u # rec.from \/ p # rec.path => written'[u][p] = written[u][p]
<1>1. rec.from \in Threads /\ rec.path \in Paths /\ rec.nr \in Nat
  BY DEF Records
<1>2. written \in [Threads -> [Paths -> Nat]] /\ pending' = pending \ {rec}
  BY DEF TypeOK, Emit
<1>3. written' = [written EXCEPT ![rec.from] = [written[rec.from] EXCEPT ![rec.path] = rec.nr]]
  BY <1>1, <1>2 DEF Emit
<1>4. [written[rec.from] EXCEPT ![rec.path] = rec.nr] \in [Paths -> Nat]
  BY <1>1, <1>2
<1>5. written' \in [Threads -> [Paths -> Nat]]
  BY <1>1, <1>2, <1>3, <1>4
<1>6. /\ written'[rec.from] = [written[rec.from] EXCEPT ![rec.path] = rec.nr]
      /\ \A u \in Threads : u # rec.from => written'[u] = written[u]
  BY <1>1, <1>2, <1>3
<1>7. written[rec.from] \in [Paths -> Nat]
  BY <1>1, <1>2
<1> QED
  BY <1>1, <1>2, <1>5, <1>6, <1>7

(* ---- types --------------------------------------------------------------- *)

\* The steps of the threads that log.
Logs(t) ==
    \/ Register(t) \/ RegisterEnd(t) \/ Push(t) \/ Debug(t) \/ DebugEnd(t) \/ End(t)

\* What they leave alone, and what they change of the threads.
LEMMA LogsKeep ==
    ASSUME TypeOK, NEW t \in Threads, Logs(t)
    PROVE  /\ UNCHANGED <<ownerVars, drainVars, written>>
           /\ tpc' \in [Threads -> Places] /\ registered' \in [Threads -> BOOLEAN]
           /\ sent' \in [Threads -> [Paths -> Nat]]
           /\ \A u \in Threads : u # t => tpc'[u] = tpc[u] /\ registered'[u] = registered[u]
<1>1. tpc \in [Threads -> Places] /\ registered \in [Threads -> BOOLEAN] /\ sent \in [Threads -> [Paths -> Nat]]
  BY DEF TypeOK
<1>2. {"fast", "debug"} = Paths /\ {"idle", "fill", "push", "debugFill", "ended"} = Places
  BY DEF Paths, Places
<1>3. sent' \in [Threads -> [Paths -> Nat]]
  <2>1. CASE \E path \in Paths : CountRecord(t, path)
    BY <2>1, Counting
  <2>2. CASE UNCHANGED sent
    BY <1>1, <2>2
  <2>3. (\E path \in Paths : CountRecord(t, path)) \/ UNCHANGED sent
    BY <1>2 DEF Logs, Register, RegisterEnd, Push, Debug, DebugEnd, End
  <2> QED
    BY <2>1, <2>2, <2>3
<1>4. UNCHANGED <<ownerVars, drainVars, written>>
  BY DEF Logs, Register, RegisterEnd, Push, Debug, DebugEnd, End, Accept, logVars
<1>5. \/ UNCHANGED tpc
      \/ \E label \in Places : Goto(t, label)
  BY <1>2 DEF Logs, Register, RegisterEnd, Push, Debug, DebugEnd, End
<1>6. tpc' \in [Threads -> Places] /\ \A u \in Threads : u # t => tpc'[u] = tpc[u]
  BY <1>1, <1>5 DEF Goto
<1>7. UNCHANGED registered \/ registered' = [registered EXCEPT ![t] = TRUE]
  BY DEF Logs, Register, RegisterEnd, Push, Debug, DebugEnd, End
<1>8. registered' \in [Threads -> BOOLEAN] /\ \A u \in Threads : u # t => registered'[u] = registered[u]
  BY <1>1, <1>7
<1> QED
  BY <1>3, <1>4, <1>6, <1>8

LEMMA TypeLogs ==
    ASSUME TypeOK, NEW t \in Threads, Logs(t)
    PROVE  TypeOK'
<1>1. /\ UNCHANGED <<ownerVars, drainVars, written>>
      /\ tpc' \in [Threads -> Places] /\ registered' \in [Threads -> BOOLEAN]
      /\ sent' \in [Threads -> [Paths -> Nat]]
  BY LogsKeep
<1>2. /\ buf \in [Threads -> Seq(Records)] /\ regq \in Tickets(Threads) /\ debugq \in Tickets(Records)
      /\ pending \subseteq Records /\ refused \subseteq Threads /\ "fast" \in Paths /\ "debug" \in Paths
  BY DEF TypeOK, Paths
<1>3. buf' \in [Threads -> Seq(Records)]
  <2>1. CASE UNCHANGED buf
    BY <1>2, <2>1
  <2>2. CASE buf' = [buf EXCEPT ![t] = Append(@, Record(t, "fast"))]
    BY <1>1, <1>2, <2>2, RecordType
  <2>3. CASE buf' = [buf EXCEPT ![t] = <<>>]
    BY <1>2, <2>3
  <2> QED
    BY <2>1, <2>2, <2>3 DEF Logs, Register, RegisterEnd, Push, Debug, DebugEnd, End
<1>4. regq' \in Tickets(Threads)
  <2>1. CASE UNCHANGED regq
    BY <1>2, <2>1
  <2>2. CASE regq' = Append(regq, [item |-> t, by |-> t])
    BY <1>2, <2>2, AppendElements DEF Tickets
  <2>3. CASE regq' = Fill(regq, t)
    BY <1>2, <2>3, FillElements
  <2> QED
    BY <2>1, <2>2, <2>3 DEF Logs, Register, RegisterEnd, Push, Debug, DebugEnd, End
<1>5. debugq' \in Tickets(Records)
  <2>1. CASE UNCHANGED debugq
    BY <1>2, <2>1
  <2>2. CASE debugq' = Append(debugq, [item |-> Record(t, "debug"), by |-> t])
    <3>1. Record(t, "debug") \in Records
      BY <1>1, <1>2, RecordType
    <3> QED
      BY <1>2, <2>2, <3>1, AppendElements DEF Tickets
  <2>3. CASE debugq' = Fill(debugq, t)
    BY <1>2, <2>3, FillElements
  <2> QED
    BY <2>1, <2>2, <2>3 DEF Logs, Register, RegisterEnd, Push, Debug, DebugEnd, End
<1>6. pending' \subseteq Records
  <2>1. Record(t, "fast") \in Records /\ Record(t, "debug") \in Records
    BY <1>1, <1>2, RecordType
  <2> QED
    BY <1>2, <2>1 DEF Logs, Register, RegisterEnd, Push, Debug, DebugEnd, End, Accept, logVars
<1>7. refused' \subseteq Threads
  BY <1>2 DEF Logs, Register, RegisterEnd, Push, Debug, DebugEnd, End
<1>8. /\ written' \in [Threads -> [Paths -> Nat]]
      /\ running' \in BOOLEAN /\ owner' \in {"off", "on", "stopping", "stopped"}
      /\ dpc' \in Turns /\ final' \in BOOLEAN /\ buffers' \in Seq(Threads)
      /\ pos' \in Nat \ {0} /\ cut' \subseteq Threads /\ dangling' \in BOOLEAN
      /\ running' = (owner' = "on") /\ (dpc' = "none") = (owner' = "off")
      /\ final' => owner' \in {"stopping", "stopped"} /\ dpc' \notin {"none", "check"}
      /\ dpc' = "exited" => final'
      /\ owner' = "stopped" => dpc' = "exited"
      /\ IF dpc' = "scan" THEN pos' \in DOMAIN buffers' ELSE pos' = 1
      /\ missed' \in [reg : BOOLEAN, debug : BOOLEAN, rings : SUBSET Threads]
  BY <1>1 DEF TypeOK, ownerVars, drainVars
<1> QED
  BY <1>1, <1>3, <1>4, <1>5, <1>6, <1>7, <1>8 DEF TypeOK

\* The steps of the drain thread.
LEMMA TypeDrain == ASSUME TypeOK, DrainStep PROVE TypeOK'
<1>1. /\ buf \in [Threads -> Seq(Records)] /\ regq \in Tickets(Threads) /\ debugq \in Tickets(Records)
      /\ pending \subseteq Records /\ buffers \in Seq(Threads) /\ pos \in Nat \ {0}
      /\ written \in [Threads -> [Paths -> Nat]]
      /\ IF dpc = "scan" THEN pos \in DOMAIN buffers ELSE pos = 1
      /\ DOMAIN buffers = 1 .. Len(buffers) /\ Len(buffers) \in Nat
  BY DEF TypeOK
<1> DEFINE MissedType == [reg : BOOLEAN, debug : BOOLEAN, rings : SUBSET Threads]
<1>0. missed \in MissedType
  BY DEF TypeOK
<1>2. CASE Check
  BY <1>2 DEF Check, TypeOK, Turns, threadVars, logVars, ownerVars
<1>3. CASE Pickup
  <2>1. regq # <<>> /\ dpc = "pickup"
    BY <1>3 DEF Pickup, CanPop
  <2>2. Tail(regq) \in Tickets(Threads) /\ Head(regq).item \in Threads
    <3>1. regq \in Seq(Ticket(Threads))
      BY <1>1 DEF Tickets, Ticket
    <3>2. Tail(regq) \in Seq(Ticket(Threads)) /\ Head(regq) \in Ticket(Threads)
      BY <2>1, <3>1, TailElements
    <3> QED
      BY <3>2 DEF Tickets, Ticket
  <2>3. Append(buffers, Head(regq).item) \in Seq(Threads)
    BY <1>1, <2>2
  <2> QED
    BY <1>3, <2>1, <2>2, <2>3 DEF Pickup, TypeOK, threadVars, logVars, ownerVars
<1>4. CASE PickupEnds
  <2>1. buffers # <<>> => 1 \in DOMAIN buffers
    BY <1>1
  <2> QED
    BY <1>0, <1>1, <1>4, <2>1 DEF PickupEnds, TypeOK, Turns, threadVars, logVars, ownerVars
<1>5. CASE Write
  <2>1. dpc = "scan" /\ buffers[pos] \in Threads /\ buf[buffers[pos]] # <<>>
    BY <1>1, <1>5 DEF Write
  <2>2. Tail(buf[buffers[pos]]) \in Seq(Records) /\ Head(buf[buffers[pos]]) \in Records
    BY <1>1, <2>1, TailElements
  <2>3. written' \in [Threads -> [Paths -> Nat]] /\ pending' \subseteq Records
    BY <1>1, <1>5, <2>2, Emitting DEF Write
  <2>4. buf' \in [Threads -> Seq(Records)]
    BY <1>1, <1>5, <2>1, <2>2 DEF Write
  <2> QED
    BY <1>5, <2>3, <2>4 DEF Write, TypeOK, threadVars, ownerVars
<1>6. CASE NextBuffer
  <2>1. /\ dpc = "scan" /\ pos \in 1 .. Len(buffers) /\ buffers' = buffers
        /\ IF pos = Len(buffers) THEN dpc' = "debug" /\ pos' = 1
           ELSE pos' = pos + 1 /\ dpc' = dpc
    BY <1>1, <1>6 DEF NextBuffer
  <2>2. pos # Len(buffers) => pos + 1 \in 1 .. Len(buffers)
    <3>1. Len(buffers) \in Nat /\ pos \in 1 .. Len(buffers)
      BY <1>1, <2>1
    <3> QED
      BY <3>1
  <2>3. /\ pos' \in Nat \ {0} /\ dpc' \in {"scan", "debug"}
        /\ IF dpc' = "scan" THEN pos' \in DOMAIN buffers' ELSE pos' = 1
    <3>1. DOMAIN buffers' = 1 .. Len(buffers) /\ dpc = "scan"
      BY <1>1, <2>1
    <3>2. CASE pos = Len(buffers)
      BY <2>1, <3>2
    <3>3. CASE pos # Len(buffers)
      <4>1. pos' = pos + 1 /\ dpc' = "scan" /\ pos' \in 1 .. Len(buffers)
        BY <2>1, <2>2, <3>1, <3>3
      <4> QED
        BY <3>1, <4>1
    <3> QED
      BY <3>2, <3>3
  <2>4. UNCHANGED <<threadVars, buf, regq, debugq, logVars, ownerVars, final, buffers, dangling>>
    BY <1>6 DEF NextBuffer
  <2>5. /\ dpc' \in Turns
        /\ running' = (owner' = "on") /\ (dpc' = "none") = (owner' = "off")
        /\ final' => owner' \in {"stopping", "stopped"} /\ dpc' \notin {"none", "check"}
        /\ dpc' = "exited" => final'
        /\ owner' = "stopped" => dpc' = "exited"
    BY <2>1, <2>3, <2>4 DEF TypeOK, Turns, ownerVars
  <2>6. missed' \in MissedType
    <3>1. buffers[pos] \in Threads
      BY <1>1, <1>6 DEF NextBuffer
    <3>2. missed' = missed \/ missed' = [missed EXCEPT !.rings = @ \cup {buffers[pos]}]
      BY <1>6 DEF NextBuffer
    <3> QED
      BY <1>0, <3>1, <3>2
  <2> QED
    BY <2>3, <2>4, <2>5, <2>6 DEF TypeOK, threadVars, logVars, ownerVars
<1>7. CASE TouchDestroyed
  BY <1>7 DEF TouchDestroyed, TypeOK, threadVars, logVars, ownerVars
<1>8. CASE WriteDebug
  <2>1. debugq # <<>> /\ dpc = "debug"
    BY <1>8 DEF WriteDebug, CanPop
  <2>2. Tail(debugq) \in Tickets(Records) /\ Head(debugq).item \in Records
    <3>1. debugq \in Seq(Ticket(Records))
      BY <1>1 DEF Tickets, Ticket
    <3>2. Tail(debugq) \in Seq(Ticket(Records)) /\ Head(debugq) \in Ticket(Records)
      BY <2>1, <3>1, TailElements
    <3> QED
      BY <3>2 DEF Tickets, Ticket
  <2>3. written' \in [Threads -> [Paths -> Nat]] /\ pending' \subseteq Records
    BY <1>1, <1>8, <2>2, Emitting DEF WriteDebug
  <2> QED
    BY <1>8, <2>2, <2>3 DEF WriteDebug, TypeOK, threadVars, ownerVars
<1>9. CASE TurnEnds
  BY <1>0, <1>9 DEF TurnEnds, TypeOK, Turns, threadVars, logVars, ownerVars
<1> QED
  BY <1>2, <1>3, <1>4, <1>5, <1>6, <1>7, <1>8, <1>9 DEF DrainStep

\* start() and stop().
LEMMA TypeOwner == ASSUME TypeOK, Start \/ Stop \/ Join PROVE TypeOK'
<1>1. CASE Start
  BY <1>1 DEF Start, TypeOK, Turns, threadVars, logVars
<1>2. CASE Stop
  BY <1>2 DEF Stop, TypeOK, threadVars, logVars, drainVars
<1>3. CASE Join
  BY <1>3 DEF Join, TypeOK, threadVars, logVars, drainVars
<1> QED
  BY <1>1, <1>2, <1>3

\* Every step is one of these.
LEMMA Steps ==
    ASSUME [Next]_vars
    PROVE  \/ Start \/ Stop \/ Join \/ DrainStep \/ \E t \in Threads : Logs(t)
           \/ UNCHANGED vars
  BY DEF Next, Call, ThreadStep, Logs

\* Every reachable state has its types.
THEOREM TypeCorrect == Spec => []TypeOK
<1>1. Init => TypeOK
  <2> SUFFICES ASSUME Init PROVE TypeOK
    OBVIOUS
  <2>1. /\ buf \in [Threads -> Seq(Records)] /\ regq \in Tickets(Threads) /\ debugq \in Tickets(Records)
        /\ buffers \in Seq(Threads)
    BY EmptySeq DEF Init, Tickets
  <2>2. tpc \in [Threads -> Places] /\ registered \in [Threads -> BOOLEAN]
    BY DEF Init, Places
  <2>3. sent \in [Threads -> [Paths -> Nat]] /\ written \in [Threads -> [Paths -> Nat]]
    BY DEF Init
  <2>4. /\ running = FALSE /\ owner = "off" /\ dpc = "none" /\ final = FALSE /\ pos = 1
        /\ pending = {} /\ refused = {} /\ cut = {} /\ dangling = FALSE
    BY DEF Init
  <2>5. /\ running \in BOOLEAN /\ final \in BOOLEAN /\ dangling \in BOOLEAN
        /\ pending \subseteq Records /\ refused \subseteq Threads /\ cut \subseteq Threads
    BY Zenon, <2>4
  <2>7. owner \in {"off", "on", "stopping", "stopped"} /\ dpc \in Turns
    BY Zenon, <2>4 DEF Turns
  <2>8. pos \in Nat \ {0}
    BY <2>4
  <2>6. /\ running = (owner = "on") /\ (dpc = "none") = (owner = "off")
        /\ final => owner \in {"stopping", "stopped"} /\ dpc \notin {"none", "check"}
        /\ dpc = "exited" => final
        /\ owner = "stopped" => dpc = "exited"
        /\ IF dpc = "scan" THEN pos \in DOMAIN buffers ELSE pos = 1
    BY <2>4
  <2>9. missed \in [reg : BOOLEAN, debug : BOOLEAN, rings : SUBSET Threads]
    BY DEF Init
  <2> QED
    BY Zenon, <2>9, <2>1, <2>2, <2>3, <2>4, <2>5, <2>6, <2>7, <2>8 DEF TypeOK
<1>2. TypeOK /\ [Next]_vars => TypeOK'
  <2> SUFFICES ASSUME TypeOK, [Next]_vars PROVE TypeOK'
    OBVIOUS
  <2>1. CASE UNCHANGED vars
    BY <2>1 DEF vars, threadVars, logVars, ownerVars, drainVars, TypeOK
  <2> QED
    BY <2>1, Steps, TypeLogs, TypeDrain, TypeOwner
<1> QED
  BY <1>1, <1>2, PTL DEF Spec

(* ---- the order of the records -------------------------------------------- *)

\* The types these need, of a state.
LEMMA OrderTypes ==
    ASSUME TypeOK
    PROVE  /\ \A t \in Threads, path \in Paths : sent[t][path] \in Nat /\ written[t][path] \in Nat
           /\ \A rec \in Records : rec.from \in Threads /\ rec.path \in Paths /\ rec.nr \in Nat
           /\ \A t \in Threads : buf[t] \in Seq(Records) /\ \A i \in DOMAIN buf[t] : buf[t][i] \in Records
           /\ debugq \in Seq(Ticket(Records)) /\ \A i \in DOMAIN debugq : debugq[i].item \in Records
           /\ regq \in Seq(Ticket(Threads)) /\ \A i \in DOMAIN regq : regq[i].item \in Threads
           /\ "fast" \in Paths /\ "debug" \in Paths
<1>1. /\ debugq \in Seq(Ticket(Records)) /\ regq \in Seq(Ticket(Threads)) /\ buf \in [Threads -> Seq(Records)]
      /\ sent \in [Threads -> [Paths -> Nat]] /\ written \in [Threads -> [Paths -> Nat]]
  BY DEF TypeOK, Tickets, Ticket
<1>2. \A t \in Threads, path \in Paths : sent[t][path] \in Nat /\ written[t][path] \in Nat
  BY <1>1
<1>3. \A rec \in Records : rec.from \in Threads /\ rec.path \in Paths /\ rec.nr \in Nat
  BY DEF Records
<1>4. \A t \in Threads : buf[t] \in Seq(Records) /\ \A i \in DOMAIN buf[t] : buf[t][i] \in Records
  BY <1>1
<1>5. (\A i \in DOMAIN debugq : debugq[i] \in Ticket(Records)) /\ \A i \in DOMAIN regq : regq[i] \in Ticket(Threads)
  BY <1>1
<1>6. (\A i \in DOMAIN debugq : debugq[i].item \in Records) /\ \A i \in DOMAIN regq : regq[i].item \in Threads
  BY <1>5 DEF Ticket
<1> QED
  BY <1>1, <1>2, <1>3, <1>4, <1>6 DEF Paths

\* A log statement raises nobody's numbers but its own, and nothing is written.
LEMMA SentGrows ==
    ASSUME TypeOK, NEW t \in Threads, Logs(t)
    PROVE  /\ written' = written
           /\ \A u \in Threads, path \in Paths :
                 sent'[u][path] \in Nat /\ sent[u][path] <= sent'[u][path]
<1>1. \A u \in Threads, path \in Paths : sent[u][path] \in Nat
  BY OrderTypes
<1>2. sent' \in [Threads -> [Paths -> Nat]] /\ written' = written
  BY LogsKeep
<1>3. CASE UNCHANGED sent
  BY <1>1, <1>2, <1>3
<1>4. ASSUME NEW p \in Paths, CountRecord(t, p)
      PROVE  \A u \in Threads, path \in Paths :
                 sent'[u][path] \in Nat /\ sent[u][path] <= sent'[u][path]
  <2> TAKE u \in Threads, path \in Paths
  <2>1. CASE u = t /\ path = p
    <3>1. sent'[t][p] = sent[t][p] + 1
      BY <1>4, Counting
    <3> QED
      BY <1>1, <2>1, <3>1
  <2>2. CASE u # t \/ path # p
    <3>1. sent'[u][path] = sent[u][path]
      BY <1>4, <2>2, Counting
    <3> QED
      BY <1>1, <3>1
  <2> QED
    BY <2>1, <2>2
<1>5. (\E path \in Paths : CountRecord(t, path)) \/ UNCHANGED sent
  BY DEF Paths, Logs, Register, RegisterEnd, Push, Debug, DebugEnd, End
<1> QED
  BY <1>2, <1>3, <1>4, <1>5

\* Newer(rec) in the next state, of a record of either.
Later(rec) ==
    written'[rec.from][rec.path] < rec.nr /\ rec.nr <= sent'[rec.from][rec.path]

\* A record that was newer still is.
LEMMA StillNewer ==
    ASSUME TypeOK, NEW t \in Threads, Logs(t), NEW rec \in Records, Newer(rec)
    PROVE  Later(rec)
<1>1. rec.from \in Threads /\ rec.path \in Paths /\ rec.nr \in Nat
  BY DEF Records
<1> DEFINE n == rec.nr
           o == written[rec.from][rec.path]
           p == sent[rec.from][rec.path]
           q == sent'[rec.from][rec.path]
<1>2. n \in Nat /\ o \in Nat /\ p \in Nat /\ q \in Nat /\ p <= q /\ written' = written
  BY <1>1, OrderTypes, SentGrows
<1>3. o < n /\ n <= p
  BY DEF Newer
<1> HIDE DEF n, o, p, q
<1>4. o < n /\ n <= q
  BY <1>2, <1>3
<1> QED
  BY <1>2, <1>4 DEF Later, n, o, q

\* A ring takes the thread's newest record at its end.
LEMMA OrderPush ==
    ASSUME TypeOK, Ahead, NEW t \in Threads, Ring(t), Push(t)
    PROVE  Ring(t)'
<1> DEFINE rec == Record(t, "fast")
           old == buf[t]
           s == sent[t]["fast"]
           n == sent'[t]["fast"]
           w == written[t]["fast"]
<1>1. Logs(t) /\ "fast" \in Paths /\ buf \in [Threads -> Seq(Records)] /\ tpc \in [Threads -> Places]
  BY DEF Logs, Paths, TypeOK
<1>2. rec \in Records /\ rec.from = t /\ rec.path = "fast" /\ rec.nr = n
  BY <1>1, LogsKeep, RecordType
<1>3. /\ s \in Nat /\ w \in Nat /\ n \in Nat /\ s <= n /\ written' = written
      /\ \A i \in DOMAIN old : old[i] \in Records /\ old[i].nr \in Nat
      /\ old \in Seq(Records)
  BY <1>1, OrderTypes, SentGrows
<1>4. tpc'[t] = "idle" /\ registered' = registered
  BY <1>1 DEF Push, Goto
<1>5. \A i \in DOMAIN old : /\ old[i].from = t /\ old[i].path = "fast" /\ Later(old[i])
                            /\ old[i].nr <= s
  <2> TAKE i \in DOMAIN old
  <2>1. old[i].from = t /\ old[i].path = "fast" /\ Newer(old[i])
    BY DEF Ring
  <2>2. Later(old[i])
    BY <1>1, <1>3, <2>1, StillNewer
  <2> QED
    BY <2>1, <2>2 DEF Newer
<1>6. registered[t]
  BY DEF Ring, Push
<1>7. \A i, j \in DOMAIN old : i < j => old[i].nr < old[j].nr
  BY DEF Ring
<1>8. CASE buf'[t] = buf[t]
  BY <1>4, <1>5, <1>6, <1>7, <1>8 DEF Ring, Newer, Later
<1>9. CASE buf'[t] # buf[t]
  <2>1. buf'[t] = Append(old, rec)
    BY <1>1, <1>9 DEF Push
  <2>2. w < n /\ \A i \in DOMAIN old : old[i].nr < n
    <3>1. CASE tpc[t] = "push" /\ UNCHANGED sent
      <4>1. old = <<>> /\ w < s /\ n = s
        BY <3>1 DEF Ring
      <4> QED
        BY <4>1
    <3>2. CASE CountRecord(t, "fast")
      <4>1. n = s + 1
        BY <1>1, <3>2, Counting
      <4>2. w <= s
        BY <1>1 DEF Ahead
      <4> QED
        BY <1>3, <1>5, <4>1, <4>2
    <3> QED
      BY <3>1, <3>2 DEF Push
  <2>3. Later(rec)
    BY <1>2, <1>3, <2>2 DEF Later
  <2>4. /\ DOMAIN old = 1 .. Len(old) /\ Len(old) \in Nat
        /\ DOMAIN buf'[t] = 1 .. Len(old) + 1
        /\ buf'[t][Len(old) + 1] = rec /\ \A i \in DOMAIN old : buf'[t][i] = old[i]
        /\ \A i \in DOMAIN buf'[t] : i \in DOMAIN old \/ i = Len(old) + 1
    BY <1>2, <1>3, <2>1, AppendElements
  <2>5. \A i \in DOMAIN buf'[t] : buf'[t][i].from = t /\ buf'[t][i].path = "fast" /\ Later(buf'[t][i])
    <3> TAKE i \in DOMAIN buf'[t]
    <3>1. CASE i \in DOMAIN old
      BY <1>5, <2>4, <3>1
    <3>2. CASE i = Len(old) + 1
      BY <1>2, <2>3, <2>4, <3>2
    <3> QED
      BY <2>4, <3>1, <3>2
  <2>6. \A i, j \in DOMAIN buf'[t] : i < j => buf'[t][i].nr < buf'[t][j].nr
    <3> SUFFICES ASSUME NEW i \in DOMAIN buf'[t], NEW j \in DOMAIN buf'[t], i < j
                 PROVE  buf'[t][i].nr < buf'[t][j].nr
      OBVIOUS
    <3>1. i \in DOMAIN old
      BY <2>4
    <3>2. CASE j \in DOMAIN old
      BY <1>7, <2>4, <3>1, <3>2
    <3>3. CASE j = Len(old) + 1
      BY <1>2, <2>2, <2>4, <3>1, <3>3
    <3> QED
      BY <2>4, <3>2, <3>3
  <2> QED
    BY <1>4, <1>6, <2>5, <2>6 DEF Ring, Newer, Later
<1> QED
  BY <1>8, <1>9

\* A ring, and what it says of its thread, that a step leaves alone.
LEMMA RingStays ==
    ASSUME TypeOK, NEW t \in Threads, Logs(t), NEW u \in Threads, Ring(u),
           buf'[u] = buf[u], registered'[u] = registered[u],
           tpc'[u] \in {"fill", "push"} => tpc[u] \in {"fill", "push"}
    PROVE  Ring(u)'
<1>1. /\ \A i \in DOMAIN buf[u] : buf[u][i].from = u /\ buf[u][i].path = "fast" /\ Newer(buf[u][i])
      /\ \A i, j \in DOMAIN buf[u] : i < j => buf[u][i].nr < buf[u][j].nr
      /\ tpc[u] \in {"fill", "push"} => buf[u] = <<>> /\ written[u]["fast"] < sent[u]["fast"]
      /\ ~registered[u] => buf[u] = <<>> /\ tpc[u] \notin {"fill", "push"}
  BY DEF Ring
<1>2. \A i \in DOMAIN buf[u] : Later(buf[u][i])
  BY <1>1, OrderTypes, StillNewer
<1>3. tpc'[u] \in {"fill", "push"} => written'[u]["fast"] < sent'[u]["fast"]
  <2>1. /\ written' = written /\ sent'[u]["fast"] \in Nat /\ sent[u]["fast"] <= sent'[u]["fast"]
        /\ sent[u]["fast"] \in Nat /\ written[u]["fast"] \in Nat
    BY OrderTypes, SentGrows
  <2> QED
    BY <1>1, <2>1
<1> QED
  BY <1>1, <1>2, <1>3 DEF Ring, Newer, Later

\* The rings through a step of a thread that logs.
LEMMA OrderRings ==
    ASSUME TypeOK, Ahead, NEW t \in Threads, Logs(t), \A u \in Threads : Ring(u)
    PROVE  \A u \in Threads : Ring(u)'
<1>1. buf \in [Threads -> Seq(Records)] /\ tpc \in [Threads -> Places] /\ registered \in [Threads -> BOOLEAN]
  BY DEF TypeOK
<1>2. ASSUME NEW u \in Threads, u # t PROVE Ring(u)'
  <2>1. buf'[u] = buf[u]
    BY <1>1, <1>2 DEF Logs, Register, RegisterEnd, Push, Debug, DebugEnd, End
  <2>2. tpc'[u] = tpc[u] /\ registered'[u] = registered[u]
    BY <1>2, LogsKeep
  <2> QED
    BY <2>1, <2>2, RingStays
<1>3. Ring(t)'
  <2>1. CASE Register(t)
    <3>1. ~registered[t] /\ buf[t] = <<>> /\ buf' = buf /\ registered'[t] = TRUE
      BY <1>1, <2>1 DEF Register, Ring
    <3>2. sent'[t]["fast"] = sent[t]["fast"] + 1 /\ written' = written
      BY <2>1, OrderTypes, Counting, SentGrows DEF Register
    <3>3. written'[t]["fast"] < sent'[t]["fast"]
      BY <3>2, OrderTypes DEF Ahead
    <3> QED
      BY <3>1, <3>3 DEF Ring
  <2>2. CASE RegisterEnd(t)
    BY <1>1, <2>2, RingStays DEF RegisterEnd, Goto
  <2>3. CASE Push(t)
    BY <2>3, OrderPush
  <2>4. CASE Debug(t)
    BY <1>1, <2>4, RingStays DEF Debug, Goto
  <2>5. CASE DebugEnd(t)
    BY <1>1, <2>5, RingStays DEF DebugEnd, Goto
  <2>6. CASE End(t)
    <3>1. buf'[t] = <<>> /\ tpc'[t] = "ended" /\ registered'[t]
      BY <1>1, <2>6 DEF End, Goto
    <3> QED
      BY <3>1 DEF Ring
  <2> QED
    BY <2>1, <2>2, <2>3, <2>4, <2>5, <2>6 DEF Logs
<1> QED
  BY <1>2, <1>3

\* The shared queue through a step of a thread that logs.
LEMMA OrderShared ==
    ASSUME TypeOK, Ahead, Shared, NEW t \in Threads, Logs(t)
    PROVE  Shared'
<1>1. /\ \A i \in DOMAIN debugq : debugq[i].item \in Records /\ debugq[i].item.path = "debug" /\ Newer(debugq[i].item)
      /\ \A i \in DOMAIN debugq : /\ debugq[i].item.from \in Threads /\ debugq[i].item.nr \in Nat
      /\ \A i, j \in DOMAIN debugq :
            i < j /\ debugq[i].item.from = debugq[j].item.from => debugq[i].item.nr < debugq[j].item.nr
  BY OrderTypes DEF Shared
<1>2. \A i \in DOMAIN debugq : Later(debugq[i].item)
  BY <1>1, StillNewer
<1>3. debugq \in Seq(Ticket(Records)) /\ debugq \in Tickets(Records)
  BY DEF TypeOK, Tickets, Ticket
<1>4. CASE UNCHANGED debugq
  BY <1>1, <1>2, <1>4 DEF Shared, Newer, Later
<1>5. CASE debugq' = Fill(debugq, t)
  <2>1. DOMAIN debugq' = DOMAIN debugq /\ \A i \in DOMAIN debugq : debugq'[i].item = debugq[i].item
    BY <1>3, <1>5, FillElements
  <2> QED
    BY <1>1, <1>2, <2>1 DEF Shared, Newer, Later
<1>6. CASE Debug(t) /\ debugq' # debugq
  <2> DEFINE rec == Record(t, "debug")
             new == [item |-> rec, by |-> t]
             n == sent'[t]["debug"]
  <2>1. CountRecord(t, "debug") /\ debugq' = Append(debugq, new)
    BY <1>6 DEF Debug
  <2>2. rec \in Records /\ rec.from = t /\ rec.path = "debug" /\ rec.nr = n
    BY LogsKeep, OrderTypes, RecordType
  <2>3. new \in Ticket(Records) /\ new.item = rec
    BY <2>2 DEF Ticket
  <2>4. /\ n = sent[t]["debug"] + 1 /\ sent[t]["debug"] \in Nat /\ written[t]["debug"] \in Nat
        /\ written[t]["debug"] <= sent[t]["debug"] /\ written' = written
    BY <2>1, OrderTypes, Counting, SentGrows DEF Ahead
  <2>5. Later(rec)
    BY <2>2, <2>4 DEF Later
  <2>6. \A i \in DOMAIN debugq : debugq[i].item.from = t => debugq[i].item.nr < n
    <3> SUFFICES ASSUME NEW i \in DOMAIN debugq, debugq[i].item.from = t PROVE debugq[i].item.nr < n
      OBVIOUS
    <3>1. debugq[i].item.nr <= sent[t]["debug"] /\ debugq[i].item.nr \in Nat
      BY <1>1 DEF Newer
    <3> QED
      BY <2>4, <3>1
  <2>7. /\ DOMAIN debugq = 1 .. Len(debugq) /\ Len(debugq) \in Nat
        /\ DOMAIN debugq' = 1 .. Len(debugq) + 1
        /\ debugq'[Len(debugq) + 1] = new /\ \A i \in DOMAIN debugq : debugq'[i] = debugq[i]
        /\ \A i \in DOMAIN debugq' : i \in DOMAIN debugq \/ i = Len(debugq) + 1
    BY <1>3, <2>1, <2>3, AppendElements
  <2> HIDE DEF new, rec, n
  <2>8. \A i \in DOMAIN debugq' : debugq'[i].item.path = "debug" /\ Later(debugq'[i].item)
    <3> TAKE i \in DOMAIN debugq'
    <3>1. CASE i \in DOMAIN debugq
      BY <1>1, <1>2, <2>7, <3>1
    <3>2. CASE i = Len(debugq) + 1
      BY <2>2, <2>3, <2>5, <2>7, <3>2
    <3> QED
      BY <2>7, <3>1, <3>2
  <2>9. ASSUME NEW i \in DOMAIN debugq', NEW j \in DOMAIN debugq', i < j,
               debugq'[i].item.from = debugq'[j].item.from
        PROVE  debugq'[i].item.nr < debugq'[j].item.nr
    <3>1. i \in DOMAIN debugq
      BY <2>7, <2>9
    <3>2. CASE j \in DOMAIN debugq
      BY <1>1, <2>7, <2>9, <3>1, <3>2
    <3>3. CASE j = Len(debugq) + 1
      <4>1. debugq'[i] = debugq[i] /\ debugq'[j] = new
        BY <2>7, <3>1, <3>3
      <4>2. debugq[i].item.from = t /\ debugq'[j].item.nr = n
        BY <2>2, <2>3, <2>9, <4>1
      <4> QED
        BY <2>6, <3>1, <4>1, <4>2
    <3> QED
      BY <2>7, <3>2, <3>3
  <2> QED
    BY <2>8, <2>9 DEF Shared, Newer, Later
<1> QED
  BY <1>4, <1>5, <1>6 DEF Logs, Register, RegisterEnd, Push, Debug, DebugEnd, End

LEMMA OrderLogs ==
    ASSUME TypeOK, OrderInv, NEW t \in Threads, Logs(t)
    PROVE  OrderInv'
<1>1. Ahead /\ (\A u \in Threads : Ring(u)) /\ Shared
  BY DEF OrderInv
<1>2. Ahead'
  <2> SUFFICES ASSUME NEW u \in Threads, NEW path \in Paths
               PROVE  written'[u][path] <= sent'[u][path]
    BY DEF Ahead
  <2>1. written[u][path] <= sent[u][path] /\ sent[u][path] \in Nat /\ written[u][path] \in Nat
    BY <1>1, OrderTypes DEF Ahead
  <2>2. written' = written /\ sent'[u][path] \in Nat /\ sent[u][path] <= sent'[u][path]
    BY SentGrows
  <2> QED
    BY <2>1, <2>2
<1>3. (\A u \in Threads : Ring(u)') /\ Shared'
  BY <1>1, OrderRings, OrderShared
<1> QED
  BY <1>2, <1>3 DEF OrderInv

\* What touches neither the queues of records nor the counts.
LEMMA OrderStays ==
    ASSUME OrderInv, UNCHANGED <<tpc, registered, buf, sent, debugq, written>>
    PROVE  OrderInv'
  BY DEF OrderInv, Ahead, Ring, Shared, Newer

\* The drain takes the oldest record of a ring: what is left is newer.
LEMMA OrderWrite ==
    ASSUME TypeOK, OrderInv, Write
    PROVE  OrderInv' /\ \A u \in Threads, path \in Paths : written[u][path] <= written'[u][path]
<1> DEFINE t == buffers[pos]
           old == buf[t]
           rec == Head(old)
<1>1. t \in Threads /\ old # <<>> /\ Emit(rec)
  BY DEF Write, TypeOK
<1>2. Ahead /\ (\A u \in Threads : Ring(u)) /\ Shared
  BY DEF OrderInv
<1>3. UNCHANGED <<tpc, registered, sent, debugq>>
  BY DEF Write, threadVars
<1>4. buf \in [Threads -> Seq(Records)] /\ buf'[t] = Tail(old) /\ \A u \in Threads : u # t => buf'[u] = buf[u]
  BY <1>1 DEF TypeOK, Write
<1>5. /\ DOMAIN old = 1 .. Len(old) /\ Len(old) \in Nat \ {0} /\ 1 \in DOMAIN old
      /\ rec = old[1] /\ rec \in Records
      /\ DOMAIN Tail(old) = 1 .. Len(old) - 1
      /\ \A i \in DOMAIN Tail(old) : i + 1 \in DOMAIN old /\ Tail(old)[i] = old[i + 1]
  BY <1>1, <1>4, TailElements
<1>6. /\ \A i \in DOMAIN old : old[i].from = t /\ old[i].path = "fast" /\ Newer(old[i]) /\ old[i].nr \in Nat
      /\ \A i, j \in DOMAIN old : i < j => old[i].nr < old[j].nr
      /\ registered[t] /\ tpc[t] \notin {"fill", "push"}
  BY <1>1, <1>2, OrderTypes DEF Ring
<1>7. rec.from = t /\ rec.path = "fast" /\ Newer(rec) /\ rec.nr \in Nat
  BY <1>5, <1>6
<1>8. /\ written'[t]["fast"] = rec.nr
      /\ \A u \in Threads, p \in Paths : u # t \/ p # "fast" => written'[u][p] = written[u][p]
  BY <1>1, <1>5, <1>7, Emitting
<1>9. written[t]["fast"] < rec.nr /\ rec.nr <= sent[t]["fast"]
  BY <1>7 DEF Newer
<1> HIDE DEF t, old, rec
<1>10. \A u \in Threads, path \in Paths : written[u][path] <= written'[u][path] /\ written'[u][path] <= sent[u][path]
  <2> TAKE u \in Threads, path \in Paths
  <2>0. sent[u][path] \in Nat /\ written[u][path] \in Nat /\ written[u][path] <= sent[u][path]
    BY <1>2, OrderTypes DEF Ahead
  <2>1. CASE u = t /\ path = "fast"
    BY <1>7, <1>8, <1>9, <2>0, <2>1
  <2>2. CASE u # t \/ path # "fast"
    BY <1>8, <2>0, <2>2
  <2> QED
    BY <2>1, <2>2
<1>11. ASSUME NEW u \in Threads, u = t PROVE Ring(u)'
  <2>1. \A i \in DOMAIN Tail(old) :
           Tail(old)[i].from = t /\ Tail(old)[i].path = "fast" /\ Later(Tail(old)[i])
    <3> TAKE i \in DOMAIN Tail(old)
    <3>1. i + 1 \in DOMAIN old /\ 1 < i + 1 /\ Tail(old)[i] = old[i + 1]
      BY <1>5
    <3>2. old[i + 1].from = t /\ old[i + 1].path = "fast" /\ Newer(old[i + 1]) /\ rec.nr < old[i + 1].nr
      BY <1>5, <1>6, <3>1
    <3> QED
      BY <1>3, <1>8, <3>1, <3>2 DEF Newer, Later
  <2>2. ASSUME NEW i \in DOMAIN Tail(old), NEW j \in DOMAIN Tail(old), i < j
        PROVE  Tail(old)[i].nr < Tail(old)[j].nr
    <3>1. /\ i + 1 \in DOMAIN old /\ j + 1 \in DOMAIN old /\ i + 1 < j + 1
          /\ Tail(old)[i] = old[i + 1] /\ Tail(old)[j] = old[j + 1]
      BY <1>5, <2>2
    <3> QED
      BY <1>6, <3>1
  <2>3. buf'[u] = Tail(old) /\ registered'[u] /\ tpc'[u] \notin {"fill", "push"}
    BY <1>3, <1>4, <1>6, <1>11
  <2> QED
    BY <1>11, <2>1, <2>2, <2>3 DEF Ring, Newer, Later
<1>12. ASSUME NEW u \in Threads, u # t PROVE Ring(u)'
  <2>1. buf'[u] = buf[u] /\ Ring(u) /\ written'[u]["fast"] = written[u]["fast"]
    BY <1>2, <1>4, <1>8, <1>12, OrderTypes
  <2> QED
    BY <1>3, <2>1 DEF Ring, Newer
<1>13. Shared'
  <2>1. \A i \in DOMAIN debugq : debugq[i].item.from \in Threads /\ debugq[i].item.path = "debug"
    BY <1>2, OrderTypes DEF Shared
  <2>2. \A i \in DOMAIN debugq : written'[debugq[i].item.from]["debug"] = written[debugq[i].item.from]["debug"]
    BY <1>8, <2>1, OrderTypes
  <2> QED
    BY <1>2, <1>3, <2>1, <2>2 DEF Shared, Newer
<1>14. Ahead'
  BY <1>3, <1>10 DEF Ahead
<1>15. \A u \in Threads : Ring(u)'
  BY <1>11, <1>12
<1> QED
  BY <1>10, <1>13, <1>14, <1>15 DEF OrderInv

\* And of the shared queue.
LEMMA OrderWriteDebug ==
    ASSUME TypeOK, OrderInv, WriteDebug
    PROVE  OrderInv' /\ \A u \in Threads, path \in Paths : written[u][path] <= written'[u][path]
<1> DEFINE rec == Head(debugq).item
           t == rec.from
           old == debugq
<1>1. old # <<>> /\ Emit(rec)
  BY DEF WriteDebug, CanPop
<1>2. Ahead /\ (\A u \in Threads : Ring(u)) /\ Shared
  BY DEF OrderInv
<1>3. UNCHANGED <<tpc, registered, sent, buf>> /\ debugq' = Tail(old) /\ old \in Seq(Ticket(Records))
  BY OrderTypes DEF WriteDebug, threadVars
<1>5. /\ DOMAIN old = 1 .. Len(old) /\ Len(old) \in Nat \ {0} /\ 1 \in DOMAIN old
      /\ Head(old) = old[1] /\ DOMAIN Tail(old) = 1 .. Len(old) - 1
      /\ \A i \in DOMAIN Tail(old) : i + 1 \in DOMAIN old /\ Tail(old)[i] = old[i + 1]
  BY <1>1, <1>3, TailElements
<1>6. /\ \A i \in DOMAIN old : /\ old[i].item \in Records /\ old[i].item.from \in Threads /\ old[i].item.nr \in Nat
                               /\ old[i].item.path = "debug" /\ Newer(old[i].item)
      /\ \A i, j \in DOMAIN old : i < j /\ old[i].item.from = old[j].item.from => old[i].item.nr < old[j].item.nr
  BY <1>2, OrderTypes DEF Shared
<1>7. rec \in Records /\ t \in Threads /\ rec.path = "debug" /\ Newer(rec) /\ rec.nr \in Nat /\ rec = old[1].item
  BY <1>5, <1>6
<1>8. /\ written'[t]["debug"] = rec.nr
      /\ \A u \in Threads, p \in Paths : u # t \/ p # "debug" => written'[u][p] = written[u][p]
  BY <1>1, <1>7, Emitting
<1>9. written[t]["debug"] < rec.nr /\ rec.nr <= sent[t]["debug"]
  BY <1>7 DEF Newer
<1>20. t = rec.from
  OBVIOUS
<1> HIDE DEF t, old, rec
<1>10. \A u \in Threads, path \in Paths : written[u][path] <= written'[u][path] /\ written'[u][path] <= sent[u][path]
  <2> TAKE u \in Threads, path \in Paths
  <2>0. sent[u][path] \in Nat /\ written[u][path] \in Nat /\ written[u][path] <= sent[u][path]
    BY <1>2, OrderTypes DEF Ahead
  <2>1. CASE u = t /\ path = "debug"
    BY <1>7, <1>8, <1>9, <2>0, <2>1
  <2>2. CASE u # t \/ path # "debug"
    BY <1>8, <2>0, <2>2
  <2> QED
    BY <2>1, <2>2
<1>11. Shared'
  <2>1. \A i \in DOMAIN Tail(old) : Tail(old)[i].item.path = "debug" /\ Later(Tail(old)[i].item)
    <3> TAKE i \in DOMAIN Tail(old)
    <3>1. i + 1 \in DOMAIN old /\ 1 < i + 1 /\ 1 \in DOMAIN old /\ Tail(old)[i] = old[i + 1]
      BY <1>5
    <3>2. old[i + 1].item.path = "debug" /\ Newer(old[i + 1].item) /\ old[i + 1].item.from \in Threads
      BY <1>6, <3>1
    <3>3. CASE old[i + 1].item.from = t
      <4>1. rec.nr < old[i + 1].item.nr
        BY <1>6, <1>7, <1>20, <3>1, <3>3
      <4> QED
        BY <1>3, <1>8, <3>1, <3>2, <3>3, <4>1 DEF Newer, Later
    <3>4. CASE old[i + 1].item.from # t
      <4>1. written'[old[i + 1].item.from]["debug"] = written[old[i + 1].item.from]["debug"]
        BY <1>8, <3>2, <3>4, OrderTypes
      <4> QED
        BY <1>3, <3>1, <3>2, <4>1 DEF Newer, Later
    <3> QED
      BY <3>3, <3>4
  <2>2. ASSUME NEW i \in DOMAIN Tail(old), NEW j \in DOMAIN Tail(old), i < j,
               Tail(old)[i].item.from = Tail(old)[j].item.from
        PROVE  Tail(old)[i].item.nr < Tail(old)[j].item.nr
    <3>1. /\ i + 1 \in DOMAIN old /\ j + 1 \in DOMAIN old /\ i + 1 < j + 1
          /\ Tail(old)[i] = old[i + 1] /\ Tail(old)[j] = old[j + 1]
      BY <1>5, <2>2
    <3> QED
      BY <1>6, <2>2, <3>1
  <2> QED
    BY <1>3, <2>1, <2>2 DEF Shared, Newer, Later
<1>12. ASSUME NEW u \in Threads PROVE Ring(u)'
  <2>1. Ring(u) /\ written'[u]["fast"] = written[u]["fast"]
    BY <1>2, <1>8, OrderTypes
  <2> QED
    BY <1>3, <2>1 DEF Ring, Newer
<1>13. Ahead'
  BY <1>3, <1>10 DEF Ahead
<1> QED
  BY <1>10, <1>11, <1>12, <1>13 DEF OrderInv

LEMMA OrderStep ==
    ASSUME TypeOK, OrderInv, [Next]_vars
    PROVE  OrderInv' /\ \A u \in Threads, path \in Paths : written[u][path] <= written'[u][path]
<1>1. \A u \in Threads, path \in Paths : sent[u][path] \in Nat /\ written[u][path] \in Nat
  BY OrderTypes
<1>2. CASE UNCHANGED <<tpc, registered, buf, sent, debugq, written>>
  BY <1>1, <1>2, OrderStays
<1>3. ASSUME NEW t \in Threads, Logs(t)
      PROVE  OrderInv' /\ \A u \in Threads, path \in Paths : written[u][path] <= written'[u][path]
  BY <1>1, <1>3, OrderLogs, SentGrows
<1>4. CASE Write
  BY <1>4, OrderWrite
<1>5. CASE WriteDebug
  BY <1>5, OrderWriteDebug
<1>6. DrainStep => Write \/ WriteDebug \/ UNCHANGED <<tpc, registered, buf, sent, debugq, written>>
  BY DEF DrainStep, Check, Pickup, PickupEnds, NextBuffer, TouchDestroyed, TurnEnds, threadVars, logVars
<1>7. Start \/ Stop \/ Join \/ UNCHANGED vars => UNCHANGED <<tpc, registered, buf, sent, debugq, written>>
  BY DEF Start, Stop, Join, vars, threadVars, logVars
<1> QED
  BY <1>2, <1>3, <1>4, <1>5, <1>6, <1>7, Steps

LEMMA OrderStarts == Init => OrderInv
  BY DEF Init, OrderInv, Ahead, Ring, Shared, Paths

\* What waits of a thread is newer than what has been written of it, and in order.
THEOREM OrderInvariant == Spec => []OrderInv
<1>1. TypeOK /\ OrderInv /\ [Next]_vars => OrderInv'
  BY OrderStep
<1> QED
  BY <1>1, TypeCorrect, OrderStarts, PTL DEF Spec

\* The records of a thread reach the log in the order of its log statements, on each
\* of the two paths.
THEOREM LogInOrder == Spec => WrittenInOrder
<1>1. TypeOK /\ OrderInv /\ [Next]_vars =>
         [\A t \in Threads, path \in Paths : written'[t][path] >= written[t][path]]_vars
  <2> SUFFICES ASSUME TypeOK, OrderInv, [Next]_vars, NEW t \in Threads, NEW path \in Paths
               PROVE  written'[t][path] >= written[t][path]
    OBVIOUS
  <2>1. written[t][path] <= written'[t][path]
    BY OrderStep
  <2> QED
    BY <2>1
<1> QED
  BY <1>1, TypeCorrect, OrderInvariant, PTL DEF Spec, WrittenInOrder

(* ---- the tickets --------------------------------------------------------- *)

\* The registration queue through a step of a thread that logs: tickets stay, and one
\* that it can be seen to add is the thread's first.
LEMMA RegAfter ==
    ASSUME TypeOK, NEW t \in Threads, Logs(t)
    PROVE  /\ \A i \in DOMAIN regq :
                 /\ i \in DOMAIN regq' /\ regq'[i].item = regq[i].item
                 /\ regq'[i].by # Nobody => regq'[i].by = regq[i].by
                 /\ RegisterEnd(t) => regq'[i].by # t
           /\ \A i \in DOMAIN regq' : i \notin DOMAIN regq =>
                 /\ \A j \in DOMAIN regq : j < i
                 /\ regq'[i].item = t /\ regq'[i].by = t /\ ~registered[t] /\ tpc'[t] = "fill"
           /\ \A i, j \in DOMAIN regq' : i \notin DOMAIN regq /\ j \notin DOMAIN regq => i = j
           /\ Register(t) => t \in refused' \/ \E i \in DOMAIN regq' : regq'[i].item = t
<1>1. regq \in Seq(Ticket(Threads)) /\ regq \in Tickets(Threads) /\ tpc \in [Threads -> Places] /\ t # Nobody
  BY LoggingAssumption DEF TypeOK, Tickets, Ticket
<1>2. CASE UNCHANGED regq /\ ~RegisterEnd(t)
  BY <1>2 DEF Register
<1>3. CASE RegisterEnd(t)
  <2>1. /\ DOMAIN regq' = DOMAIN regq
        /\ \A i \in DOMAIN regq : /\ regq'[i].item = regq[i].item
                                  /\ regq'[i].by = IF regq[i].by = t THEN Nobody ELSE regq[i].by
    BY <1>1, <1>3, FillElements DEF RegisterEnd
  <2>2. ~Register(t)
    BY <1>3 DEF RegisterEnd, Register
  <2> QED
    BY <1>1, <2>1, <2>2
<1>4. CASE Register(t) /\ regq' # regq
  <2> DEFINE new == [item |-> t, by |-> t]
  <2>1. regq' = Append(regq, new) /\ tpc'[t] = "fill" /\ ~registered[t] /\ tpc[t] = "idle"
    BY <1>1, <1>4 DEF Register, Goto
  <2>2. new \in Ticket(Threads) /\ new.item = t /\ new.by = t
    BY DEF Ticket
  <2>3. /\ DOMAIN regq = 1 .. Len(regq) /\ Len(regq) \in Nat
        /\ DOMAIN regq' = 1 .. Len(regq) + 1
        /\ regq'[Len(regq) + 1] = new /\ \A i \in DOMAIN regq : regq'[i] = regq[i]
        /\ \A i \in DOMAIN regq' : i \in DOMAIN regq \/ i = Len(regq) + 1
    BY <1>1, <2>1, <2>2, AppendElements
  <2>4. ~RegisterEnd(t)
    BY <2>1 DEF RegisterEnd
  <2> HIDE DEF new
  <2>5. \A i \in DOMAIN regq : i \in DOMAIN regq' /\ regq'[i] = regq[i]
    BY <2>3
  <2>6. \A i \in DOMAIN regq' : i \notin DOMAIN regq => i = Len(regq) + 1 /\ \A j \in DOMAIN regq : j < i
    BY <2>3
  <2>7. Len(regq) + 1 \in DOMAIN regq'
    BY <2>3
  <2> QED
    BY <2>1, <2>2, <2>3, <2>4, <2>5, <2>6, <2>7
<1>5. UNCHANGED regq \/ RegisterEnd(t) \/ (Register(t) /\ regq' # regq)
  BY DEF Logs, Push, Debug, DebugEnd, End
<1> QED
  BY <1>2, <1>3, <1>4, <1>5

\* The debug queue likewise.
LEMMA DebugAfter ==
    ASSUME TypeOK, NEW t \in Threads, Logs(t)
    PROVE  /\ \A i \in DOMAIN debugq :
                 /\ i \in DOMAIN debugq' /\ debugq'[i].item = debugq[i].item
                 /\ debugq'[i].by # Nobody => debugq'[i].by = debugq[i].by
                 /\ debugq[i].by # t => debugq'[i].by = debugq[i].by
                 /\ DebugEnd(t) => debugq'[i].by # t
                 /\ DebugEnd(t) /\ debugq[i].by = t => debugq'[i].by = Nobody
           /\ \A i \in DOMAIN debugq' : i \notin DOMAIN debugq =>
                 /\ \A j \in DOMAIN debugq : j < i
                 /\ debugq'[i].item = Record(t, "debug") /\ debugq'[i].by = t /\ tpc'[t] = "debugFill"
                 /\ CountRecord(t, "debug")
           /\ \A i, j \in DOMAIN debugq' : i \notin DOMAIN debugq /\ j \notin DOMAIN debugq => i = j
           /\ Debug(t) /\ tpc'[t] = "debugFill" =>
                 \E i \in DOMAIN debugq' : i \notin DOMAIN debugq
<1>1. debugq \in Seq(Ticket(Records)) /\ debugq \in Tickets(Records) /\ tpc \in [Threads -> Places] /\ t # Nobody
  BY LoggingAssumption DEF TypeOK, Tickets, Ticket
<1>2. CASE UNCHANGED debugq /\ ~DebugEnd(t)
  <2>1. ~(Debug(t) /\ tpc'[t] = "debugFill")
    <3> SUFFICES ASSUME Debug(t), tpc'[t] = "debugFill" PROVE FALSE
      OBVIOUS
    <3>1. tpc[t] = "idle"
      BY DEF Debug
    <3>2. debugq' = Append(debugq, [item |-> Record(t, "debug"), by |-> t])
      BY <3>1 DEF Debug
    <3>3. Record(t, "debug") \in Records
      BY LogsKeep, OrderTypes, RecordType
    <3>4. [item |-> Record(t, "debug"), by |-> t] \in Ticket(Records)
      BY <3>3 DEF Ticket
    <3>5. DOMAIN debugq' # DOMAIN debugq
      <4>1. DOMAIN debugq = 1 .. Len(debugq) /\ Len(debugq) \in Nat /\ DOMAIN debugq' = 1 .. Len(debugq) + 1
        BY <1>1, <3>2, <3>4, AppendElements
      <4>2. Len(debugq) + 1 \in DOMAIN debugq' /\ Len(debugq) + 1 \notin DOMAIN debugq
        BY <4>1
      <4> QED
        BY <4>2
    <3> QED
      BY <1>2, <3>5
  <2> QED
    BY <1>2, <2>1
<1>3. CASE DebugEnd(t)
  <2>1. /\ DOMAIN debugq' = DOMAIN debugq
        /\ \A i \in DOMAIN debugq : /\ debugq'[i].item = debugq[i].item
                                    /\ debugq'[i].by = IF debugq[i].by = t THEN Nobody ELSE debugq[i].by
    BY <1>1, <1>3, FillElements DEF DebugEnd
  <2>2. ~Debug(t)
    BY <1>3 DEF DebugEnd, Debug
  <2> QED
    BY <1>1, <2>1, <2>2
<1>4. CASE Debug(t) /\ debugq' # debugq
  <2> DEFINE rec == Record(t, "debug")
             new == [item |-> rec, by |-> t]
  <2>1. /\ debugq' = Append(debugq, new) /\ tpc'[t] = "debugFill" /\ tpc[t] = "idle"
        /\ CountRecord(t, "debug")
    BY <1>1, <1>4 DEF Debug, Goto
  <2>2. rec \in Records
    BY LogsKeep, OrderTypes, RecordType
  <2> HIDE DEF rec
  <2>3. new \in Ticket(Records) /\ new.item = rec /\ new.by = t
    BY <2>2 DEF Ticket
  <2>4. /\ DOMAIN debugq = 1 .. Len(debugq) /\ Len(debugq) \in Nat
        /\ DOMAIN debugq' = 1 .. Len(debugq) + 1
        /\ debugq'[Len(debugq) + 1] = new /\ \A i \in DOMAIN debugq : debugq'[i] = debugq[i]
        /\ \A i \in DOMAIN debugq' : i \in DOMAIN debugq \/ i = Len(debugq) + 1
    BY <1>1, <2>1, <2>3, AppendElements DEF rec
  <2>5. ~DebugEnd(t)
    BY <2>1 DEF DebugEnd
  <2> HIDE DEF new
  <2>6. \A i \in DOMAIN debugq : i \in DOMAIN debugq' /\ debugq'[i] = debugq[i]
    BY <2>4
  <2>7. \A i \in DOMAIN debugq' : i \notin DOMAIN debugq => i = Len(debugq) + 1 /\ \A j \in DOMAIN debugq : j < i
    BY <2>4
  <2>8. Len(debugq) + 1 \in DOMAIN debugq' /\ Len(debugq) + 1 \notin DOMAIN debugq
    BY <2>4
  <2>9. rec = Record(t, "debug")
    BY DEF rec
  <2> QED
    BY <2>1, <2>3, <2>4, <2>5, <2>6, <2>7, <2>8, <2>9
<1>5. (UNCHANGED debugq /\ ~DebugEnd(t)) \/ DebugEnd(t) \/ (Debug(t) /\ debugq' # debugq)
  BY DEF Logs, Register, RegisterEnd, Push, Debug, End
<1> QED
  BY <1>2, <1>3, <1>4, <1>5

\* Where a thread is says which step it takes.
LEMMA PlaceSteps ==
    ASSUME TypeOK, NEW t \in Threads, Logs(t)
    PROVE  /\ tpc[t] = "fill" => RegisterEnd(t)
           /\ tpc[t] = "debugFill" => DebugEnd(t)
           /\ tpc'[t] = "debugFill" => Debug(t)
           /\ tpc'[t] \in {"fill", "push"} => (~registered[t] \/ tpc[t] = "fill")
           /\ tpc[t] # "ended"
           /\ ~registered[t] /\ registered'[t] => Register(t)
           /\ registered[t] => registered'[t]
           /\ refused \subseteq refused'
<1> tpc \in [Threads -> Places] /\ registered \in [Threads -> BOOLEAN]
  BY DEF TypeOK
<1>1. CASE Register(t)
  BY <1>1 DEF Register, Goto
<1>2. CASE RegisterEnd(t)
  BY <1>2 DEF RegisterEnd, Goto
<1>3. CASE Push(t)
  BY <1>3 DEF Push, Goto
<1>4. CASE Debug(t)
  BY <1>4 DEF Debug, Goto
<1>5. CASE DebugEnd(t)
  BY <1>5 DEF DebugEnd, Goto
<1>6. CASE End(t)
  BY <1>6 DEF End, Goto
<1> QED
  BY <1>1, <1>2, <1>3, <1>4, <1>5, <1>6 DEF Logs

LEMMA UnfilledLogs ==
    ASSUME TypeOK, Unfilled, NEW t \in Threads, Logs(t)
    PROVE  Unfilled'
<1>1. ASSUME NEW i \in DOMAIN regq', regq'[i].by # Nobody
      PROVE  regq'[i].by = regq'[i].item /\ tpc'[regq'[i].item] = "fill"
  <2>1. CASE i \notin DOMAIN regq
    BY <2>1, RegAfter
  <2>2. CASE i \in DOMAIN regq
    <3>1. regq'[i].item = regq[i].item /\ regq'[i].by = regq[i].by /\ (RegisterEnd(t) => regq'[i].by # t)
      BY <1>1, <2>2, RegAfter
    <3>2. regq[i].by = regq[i].item /\ tpc[regq[i].item] = "fill" /\ regq[i].item \in Threads
      BY <1>1, <2>2, <3>1, OrderTypes DEF Unfilled
    <3>3. regq[i].item # t
      BY <3>1, <3>2, PlaceSteps
    <3>4. tpc'[regq[i].item] = tpc[regq[i].item]
      BY <3>2, <3>3, LogsKeep
    <3> QED
      BY <3>1, <3>2, <3>4
  <2> QED
    BY <2>1, <2>2
<1>2. ASSUME NEW i \in DOMAIN debugq', debugq'[i].by # Nobody
      PROVE  debugq'[i].by = debugq'[i].item.from /\ tpc'[debugq'[i].item.from] = "debugFill"
  <2>1. CASE i \notin DOMAIN debugq
    <3>1. debugq'[i].item = Record(t, "debug") /\ debugq'[i].by = t /\ tpc'[t] = "debugFill"
      BY <2>1, DebugAfter
    <3> QED
      BY <3>1, LogsKeep, OrderTypes, RecordType
  <2>2. CASE i \in DOMAIN debugq
    <3>1. debugq'[i].item = debugq[i].item /\ debugq'[i].by = debugq[i].by /\ (DebugEnd(t) => debugq'[i].by # t)
      BY <1>2, <2>2, DebugAfter
    <3>2. /\ debugq[i].by = debugq[i].item.from /\ tpc[debugq[i].item.from] = "debugFill"
          /\ debugq[i].item.from \in Threads
      BY <1>2, <2>2, <3>1, OrderTypes DEF Unfilled
    <3>3. debugq[i].item.from # t
      BY <3>1, <3>2, PlaceSteps
    <3>4. tpc'[debugq[i].item.from] = tpc[debugq[i].item.from]
      BY <3>2, <3>3, LogsKeep
    <3> QED
      BY <3>1, <3>2, <3>4
  <2> QED
    BY <2>1, <2>2
<1> QED
  BY <1>1, <1>2 DEF Unfilled

LEMMA FillingLogs ==
    ASSUME TypeOK, Filling, NEW t \in Threads, Logs(t)
    PROVE  Filling'
<1> SUFFICES ASSUME NEW u \in Threads, tpc'[u] = "debugFill"
             PROVE  \E i \in DOMAIN debugq' : debugq'[i].by = u /\ debugq'[i].item.nr = sent'[u]["debug"]
  BY DEF Filling
<1>1. CASE u = t
  <2>1. PICK i \in DOMAIN debugq' : i \notin DOMAIN debugq
    BY <1>1, PlaceSteps, DebugAfter
  <2>2. debugq'[i].item = Record(t, "debug") /\ debugq'[i].by = t
    BY <2>1, DebugAfter
  <2>3. Record(t, "debug").nr = sent'[t]["debug"]
    BY LogsKeep, OrderTypes, RecordType
  <2> QED
    BY <1>1, <2>2, <2>3
<1>2. CASE u # t
  <2>1. tpc[u] = "debugFill"
    BY <1>2, LogsKeep
  <2>2. PICK i \in DOMAIN debugq : debugq[i].by = u /\ debugq[i].item.nr = sent[u]["debug"]
    BY <2>1 DEF Filling
  <2>3. i \in DOMAIN debugq' /\ debugq'[i].item = debugq[i].item /\ debugq'[i].by = debugq[i].by
    BY <1>2, <2>2, DebugAfter
  <2>4. sent'[u]["debug"] = sent[u]["debug"]
    <3>1. UNCHANGED sent \/ \E path \in Paths : CountRecord(t, path)
      BY DEF Paths, Logs, Register, RegisterEnd, Push, Debug, DebugEnd, End
    <3> QED
      BY <1>2, <3>1, OrderTypes, Counting
  <2> QED
    BY <2>2, <2>3, <2>4
<1> QED
  BY <1>1, <1>2

LEMMA AnnouncedLogs ==
    ASSUME TypeOK, Announced, NEW t \in Threads, Logs(t)
    PROVE  Announced'
<1> SUFFICES ASSUME NEW u \in Threads, registered'[u], u \notin refused'
             PROVE  (\E i \in DOMAIN regq' : regq'[i].item = u) \/ \E k \in DOMAIN buffers' : buffers'[k] = u
  BY DEF Announced, Known
<1>1. CASE registered[u]
  <2>1. u \notin refused /\ buffers' = buffers
    BY PlaceSteps, LogsKeep DEF drainVars
  <2>2. (\E i \in DOMAIN regq : regq[i].item = u) \/ \E k \in DOMAIN buffers : buffers[k] = u
    BY <1>1, <2>1 DEF Announced, Known
  <2> QED
    BY <2>1, <2>2, RegAfter
<1>2. CASE ~registered[u]
  <2>1. u = t /\ Register(t)
    BY <1>2, LogsKeep, PlaceSteps
  <2> QED
    BY <2>1, RegAfter
<1> QED
  BY <1>1, <1>2

(* ---- the records that stop() must not lose, while threads log ------------ *)

\* The rings: what they hold stays, unless the thread ends.
LEMMA BufAfter ==
    ASSUME TypeOK, NEW t \in Threads, Logs(t)
    PROVE  /\ \A u \in Threads : tpc'[u] # "ended" => tpc[u] # "ended" /\
                 \A i \in DOMAIN buf[u] : i \in DOMAIN buf'[u] /\ buf'[u][i] = buf[u][i]
           /\ Push(t) /\ buf'[t] # buf[t] => \E i \in DOMAIN buf'[t] : buf'[t][i] = Record(t, "fast")
<1>1. /\ buf \in [Threads -> Seq(Records)] /\ tpc \in [Threads -> Places]
      /\ Record(t, "fast") \in Records
  BY LogsKeep, OrderTypes, RecordType DEF TypeOK
<1>2. ASSUME NEW u \in Threads, buf'[u] = Append(buf[u], Record(t, "fast"))
      PROVE  /\ \A i \in DOMAIN buf[u] : i \in DOMAIN buf'[u] /\ buf'[u][i] = buf[u][i]
             /\ \E i \in DOMAIN buf'[u] : buf'[u][i] = Record(t, "fast")
  <2>1. /\ DOMAIN buf[u] = 1 .. Len(buf[u]) /\ Len(buf[u]) \in Nat
        /\ DOMAIN buf'[u] = 1 .. Len(buf[u]) + 1
        /\ buf'[u][Len(buf[u]) + 1] = Record(t, "fast")
        /\ \A i \in DOMAIN buf[u] : buf'[u][i] = buf[u][i]
    BY <1>1, <1>2, AppendElements
  <2>2. Len(buf[u]) + 1 \in DOMAIN buf'[u] /\ \A i \in DOMAIN buf[u] : i \in DOMAIN buf'[u]
    BY <2>1
  <2> QED
    BY <2>1, <2>2
<1>3. /\ \A u \in Threads : u # t => buf'[u] = buf[u]
      /\ buf'[t] = buf[t] \/ (Push(t) /\ buf'[t] = Append(buf[t], Record(t, "fast"))) \/ tpc'[t] = "ended"
      /\ Push(t) => buf'[t] = buf[t] \/ buf'[t] = Append(buf[t], Record(t, "fast"))
  BY <1>1 DEF Logs, Register, RegisterEnd, Push, Debug, DebugEnd, End, Goto
<1>4. \A u \in Threads : tpc'[u] # "ended" => tpc[u] # "ended"
  BY LogsKeep, PlaceSteps
<1> QED
  BY <1>2, <1>3, <1>4

\* The records waiting: a call that returns adds its own.
LEMMA PendingAfter ==
    ASSUME TypeOK, NEW t \in Threads, Logs(t)
    PROVE  /\ owner # "on" => pending' = pending
           /\ \A rec \in pending' : rec \notin pending =>
                 \/ Push(t) /\ buf'[t] # buf[t] /\ rec = Record(t, "fast") /\ tpc'[t] = "idle"
                 \/ DebugEnd(t) /\ rec = Record(t, "debug") /\ sent' = sent
<1>1. tpc \in [Threads -> Places] /\ buf \in [Threads -> Seq(Records)] /\ Record(t, "fast") \in Records
  BY LogsKeep, OrderTypes, RecordType DEF TypeOK
<1>2. pending' = pending \/ Push(t) \/ DebugEnd(t)
  BY DEF Logs, Register, RegisterEnd, Debug, End, logVars
<1>3. CASE Push(t) /\ pending' # pending
  <2>1. /\ buf' = [buf EXCEPT ![t] = Append(@, Record(t, "fast"))] /\ tpc'[t] = "idle"
        /\ owner = "on" /\ pending' = pending \cup {Record(t, "fast")}
    BY <1>1, <1>3 DEF Push, Accept, Goto, logVars
  <2>2. buf'[t] = Append(buf[t], Record(t, "fast")) /\ buf[t] \in Seq(Records)
    BY <1>1, <2>1
  <2>3. buf'[t] # buf[t]
    BY <1>1, <2>2, AppendProperties
  <2> QED
    BY <1>3, <2>1, <2>3
<1>4. CASE DebugEnd(t) /\ pending' # pending
  <2>1. owner = "on" /\ pending' = pending \cup {Record(t, "debug")} /\ sent' = sent
    BY <1>4 DEF DebugEnd, Accept
  <2> QED
    BY <1>4, <2>1
<1> QED
  BY <1>2, <1>3, <1>4

\* Two records of one thread, path and number are one.
LEMMA SameRecord ==
    ASSUME NEW a \in Records, NEW b \in Records, a.from = b.from, a.path = b.path, a.nr = b.nr
    PROVE  a = b
  BY DEF Records

LEMMA KeptLogs ==
    ASSUME TypeOK, OrderInv, Unfilled, Filling, \A rec \in pending : Kept(rec),
           NEW t \in Threads, Logs(t), NEW rec \in pending'
    PROVE  Kept(rec)'
<1>1. pending \subseteq Records /\ pending' \subseteq Records
  BY TypeLogs DEF TypeOK
<1>2. rec.from \in Threads /\ rec.path \in {"fast", "debug"} /\ t # Nobody
  BY <1>1, OrderTypes, LoggingAssumption DEF Paths
<1>3. CASE rec \in pending
  <2>1. Kept(rec)
    BY <1>3
  <2>2. ASSUME tpc'[rec.from] # "ended" \/ rec.path = "debug"
        PROVE  Held(rec)'
    <3>1. CASE rec.path = "fast"
      <4>1. tpc[rec.from] # "ended"
        BY <1>2, <2>2, <3>1, BufAfter
      <4>2. PICK i \in DOMAIN buf[rec.from] : buf[rec.from][i] = rec
        BY <2>1, <3>1, <4>1 DEF Kept, Held
      <4>3. i \in DOMAIN buf'[rec.from] /\ buf'[rec.from][i] = rec
        BY <1>2, <2>2, <3>1, <4>2, BufAfter
      <4> QED
        BY <3>1, <4>3 DEF Held
    <3>2. CASE rec.path = "debug"
      <4>1. PICK i \in DOMAIN debugq : debugq[i].item = rec /\ debugq[i].by = Nobody
        BY <2>1, <3>2 DEF Kept, Held
      <4>2. i \in DOMAIN debugq' /\ debugq'[i].item = rec /\ debugq'[i].by = Nobody
        BY <1>2, <4>1, DebugAfter
      <4> QED
        BY <3>2, <4>2 DEF Held
    <3> QED
      BY <1>2, <3>1, <3>2
  <2>3. ASSUME rec.path = "fast"
        PROVE  registered'[rec.from] /\ tpc'[rec.from] \notin {"fill", "push"}
    <3>1. registered[rec.from] /\ tpc[rec.from] \notin {"fill", "push"}
      BY <2>1, <2>3 DEF Kept
    <3> QED
      BY <1>2, <3>1, LogsKeep, PlaceSteps
  <2> QED
    BY <2>2, <2>3 DEF Kept
<1>4. CASE Push(t) /\ buf'[t] # buf[t] /\ rec = Record(t, "fast") /\ tpc'[t] = "idle"
  <2>1. rec.from = t /\ rec.path = "fast"
    BY <1>4, LogsKeep, OrderTypes, RecordType
  <2>2. \E i \in DOMAIN buf'[t] : buf'[t][i] = rec
    BY <1>4, BufAfter
  <2>3. registered[t]
    BY <1>4 DEF Push, OrderInv, Ring
  <2>4. registered'[t]
    BY <2>3, PlaceSteps
  <2> QED
    BY <1>4, <2>1, <2>2, <2>4 DEF Kept, Held
<1>5. CASE DebugEnd(t) /\ rec = Record(t, "debug") /\ sent' = sent
  <2>1. /\ rec.from = t /\ rec.path = "debug" /\ rec.nr = sent[t]["debug"]
        /\ rec \in Records
    BY <1>5, LogsKeep, OrderTypes, RecordType
  <2>2. PICK i \in DOMAIN debugq : debugq[i].by = t /\ debugq[i].item.nr = sent[t]["debug"]
    BY <1>5 DEF Filling, DebugEnd
  <2>3. debugq[i].item.from = t /\ debugq[i].item.path = "debug" /\ debugq[i].item \in Records
    BY <1>2, <2>2, OrderTypes DEF Unfilled, OrderInv, Shared
  <2>4. debugq[i].item = rec
    BY <2>1, <2>2, <2>3, SameRecord
  <2>5. i \in DOMAIN debugq' /\ debugq'[i].item = rec /\ debugq'[i].by = Nobody
    BY <1>5, <2>2, <2>4, DebugAfter
  <2> QED
    BY <2>1, <2>5 DEF Kept, Held
<1> QED
  BY <1>3, <1>4, <1>5, PendingAfter

\* Nothing new can come to stand before them.
LEMMA BehindLogs ==
    ASSUME TypeOK, OrderInv, \A rec \in pending : Kept(rec) /\ Behind(rec),
           NEW t \in Threads, Logs(t), owner # "on", NEW rec \in pending'
    PROVE  Behind(rec)'
<1>1. rec \in pending /\ pending' = pending /\ cut' = cut
  BY PendingAfter, LogsKeep DEF ownerVars
<1>2. Kept(rec) /\ Behind(rec) /\ rec \in Records
  BY <1>1 DEF TypeOK
<1>3. regq' \in Tickets(Threads) /\ debugq' \in Tickets(Records)
  BY TypeLogs DEF TypeOK, Tickets, Records
<1>4. (\A i \in DOMAIN regq' : i \in Int) /\ \A i \in DOMAIN debugq' : i \in Int
  BY <1>3 DEF Tickets
<1>5. ASSUME rec.path = "fast", NEW i \in DOMAIN regq', NEW j \in DOMAIN regq',
             i < j, regq'[j].item = rec.from, regq'[i].by # Nobody
      PROVE  regq'[i].item \in cut
  <2>1. registered[rec.from]
    BY <1>2, <1>5 DEF Kept
  <2>2. j \in DOMAIN regq
    BY <1>5, <2>1, RegAfter
  <2>3. i \in DOMAIN regq
    <3>1. i \notin DOMAIN regq => j < i
      BY <2>2, RegAfter
    <3>2. i \in Int /\ j \in Int
      BY <1>4
    <3> QED
      BY <1>5, <3>1, <3>2
  <2>4. regq'[i].item = regq[i].item /\ regq'[j].item = regq[j].item /\ regq'[i].by = regq[i].by
    BY <1>5, <2>2, <2>3, RegAfter
  <2> QED
    BY <1>2, <1>5, <2>2, <2>3, <2>4 DEF Behind
<1>6. ASSUME rec.path = "debug", NEW i \in DOMAIN debugq', NEW j \in DOMAIN debugq',
             i < j, debugq'[j].item = rec, debugq'[i].by # Nobody
      PROVE  debugq'[i].item.from \in cut
  <2>1. PICK k \in DOMAIN debugq : debugq[k].item = rec
    BY <1>2, <1>6 DEF Kept, Held
  <2>2. rec.nr <= sent[rec.from]["debug"]
    BY <1>6, <2>1 DEF OrderInv, Shared, Newer
  <2>3. j \in DOMAIN debugq
    <3> SUFFICES ASSUME j \notin DOMAIN debugq PROVE FALSE
      OBVIOUS
    <3>1. rec = Record(t, "debug") /\ CountRecord(t, "debug")
      BY <1>6, DebugAfter
    <3>2. rec.from = t /\ rec.nr = sent'[t]["debug"]
      BY <3>1, LogsKeep, OrderTypes, RecordType
    <3>3. sent'[t]["debug"] = sent[t]["debug"] + 1 /\ sent[t]["debug"] \in Nat
      BY <3>1, OrderTypes, Counting
    <3> QED
      BY <2>2, <3>2, <3>3
  <2>4. i \in DOMAIN debugq
    <3>1. i \notin DOMAIN debugq => j < i
      BY <2>3, DebugAfter
    <3>2. i \in Int /\ j \in Int
      BY <1>4
    <3> QED
      BY <1>6, <3>1, <3>2
  <2>5. debugq'[i].item = debugq[i].item /\ debugq'[j].item = debugq[j].item /\ debugq'[i].by = debugq[i].by
    BY <1>6, <2>3, <2>4, DebugAfter
  <2> QED
    BY <1>2, <1>6, <2>3, <2>4, <2>5 DEF Behind
<1> QED
  BY <1>1, <1>5, <1>6 DEF Behind

\* The final turn is past what it has passed.
LEMMA PassedLogs ==
    ASSUME TypeOK, Passed, NEW t \in Threads, Logs(t)
    PROVE  Passed'
<1>1. UNCHANGED <<owner, dpc, final, buffers, pos, missed>>
  BY LogsKeep DEF ownerVars, drainVars
<1>2. final => pending' = pending
  BY PendingAfter DEF TypeOK
<1> QED
  BY <1>1, <1>2 DEF Passed, NoFast

LEMMA LeftLogs ==
    ASSUME TypeOK, \A rec \in pending : Kept(rec), LeftBehind, NEW t \in Threads, Logs(t)
    PROVE  LeftBehind'
<1>1. UNCHANGED <<owner, cut, dpc, final, buffers, pos, missed>>
  BY LogsKeep DEF ownerVars, drainVars
<1>2. final => pending' = pending
  BY PendingAfter DEF TypeOK
<1>3. dpc = "exited" => final
  BY DEF TypeOK
<1>4. ASSUME final, dpc \in {"scan", "debug", "exited"}, NEW rec \in pending, NEW j \in DOMAIN regq',
             rec.path = "fast", regq'[j].item = rec.from
      PROVE  missed.reg \/ (j > 1 /\ regq'[1].item \in cut)
  <2>1. registered[rec.from]
    BY <1>4 DEF Kept
  <2>2. j \in DOMAIN regq /\ regq[j].item = rec.from
    BY <1>4, <2>1, RegAfter
  <2>3. missed.reg \/ (j > 1 /\ regq[1].item \in cut)
    BY <1>4, <2>2 DEF LeftBehind
  <2>4. 1 \in DOMAIN regq
    <3>1. DOMAIN regq = 1 .. Len(regq) /\ Len(regq) \in Nat
      BY OrderTypes
    <3> QED
      BY <2>2, <3>1
  <2> QED
    BY <2>3, <2>4, RegAfter
<1>5. ASSUME dpc = "exited", NEW rec \in pending, rec.path = "debug"
      PROVE  \E i \in DOMAIN debugq' : debugq'[i].item = rec
                /\ (missed.debug \/ (i > 1 /\ debugq'[1].item.from \in cut))
  <2>1. PICK i \in DOMAIN debugq : debugq[i].item = rec
                /\ (missed.debug \/ (i > 1 /\ debugq[1].item.from \in cut))
    BY <1>5 DEF LeftBehind
  <2>2. 1 \in DOMAIN debugq
    <3>1. DOMAIN debugq = 1 .. Len(debugq) /\ Len(debugq) \in Nat
      BY OrderTypes
    <3> QED
      BY <2>1, <3>1
  <2> QED
    BY <2>1, <2>2, DebugAfter
<1> QED
  BY <1>1, <1>2, <1>3, <1>4, <1>5 DEF LeftBehind

(* ---- the same while the drain runs --------------------------------------- *)

\* The tickets a pop leaves.
LEMMA Popped ==
    ASSUME NEW S, NEW q \in Tickets(S), CanPop(q)
    PROVE  /\ \A i \in DOMAIN Tail(q) : i + 1 \in DOMAIN q /\ Tail(q)[i] = q[i + 1] /\ i \in Nat /\ i >= 1
           /\ \A i \in DOMAIN q : i # 1 => i - 1 \in DOMAIN Tail(q) /\ Tail(q)[i - 1] = q[i]
           /\ 1 \in DOMAIN q /\ q[1].by = Nobody /\ Head(q) = q[1]
           /\ \A i \in DOMAIN q : i \in Nat /\ i >= 1
<1>1. q \in Seq(Ticket(S)) /\ q # <<>> /\ Head(q).by = Nobody
  BY DEF Tickets, Ticket, CanPop
<1> QED
  BY <1>1, TailElements

\* A head that cannot be popped is unfilled.
LEMMA Blocked ==
    ASSUME NEW S, NEW q \in Tickets(S), ~CanPop(q), NEW i \in DOMAIN q
    PROVE  1 \in DOMAIN q /\ q[1].by # Nobody /\ i \in Nat /\ i >= 1
<1>1. DOMAIN q = 1 .. Len(q) /\ Len(q) \in Nat /\ q # <<>>
  BY DEF Tickets
<1> QED
  BY <1>1 DEF CanPop

LEMMA DrainPickup == ASSUME TypeOK, DrainInv, Pickup PROVE DrainInv'
<1>1. /\ dpc = "pickup" /\ CanPop(regq) /\ regq' = Tail(regq)
      /\ buffers' = Append(buffers, Head(regq).item)
      /\ UNCHANGED <<threadVars, buf, debugq, logVars, ownerVars, dpc, final, pos, missed>>
  BY DEF Pickup
<1>2. regq \in Tickets(Threads) /\ buffers \in Seq(Threads)
  BY DEF TypeOK
<1>3. /\ \A i \in DOMAIN regq' : i + 1 \in DOMAIN regq /\ regq'[i] = regq[i + 1] /\ i \in Nat /\ i >= 1
      /\ \A i \in DOMAIN regq : i # 1 => i - 1 \in DOMAIN regq' /\ regq'[i - 1] = regq[i]
      /\ 1 \in DOMAIN regq /\ Head(regq) = regq[1] /\ regq[1].item \in Threads
  BY <1>1, <1>2, Popped, OrderTypes
<1>4. /\ \A k \in DOMAIN buffers : k \in DOMAIN buffers' /\ buffers'[k] = buffers[k]
      /\ \E k \in DOMAIN buffers' : buffers'[k] = regq[1].item
  <2>1. /\ DOMAIN buffers = 1 .. Len(buffers) /\ Len(buffers) \in Nat
        /\ DOMAIN buffers' = 1 .. Len(buffers) + 1
        /\ buffers'[Len(buffers) + 1] = regq[1].item
        /\ \A k \in DOMAIN buffers : buffers'[k] = buffers[k]
    BY <1>1, <1>2, <1>3, AppendElements
  <2>2. Len(buffers) + 1 \in DOMAIN buffers' /\ \A k \in DOMAIN buffers : k \in DOMAIN buffers'
    BY <2>1
  <2> QED
    BY <2>1, <2>2
<1>5. Unfilled'
  BY <1>1, <1>3 DEF DrainInv, Unfilled, threadVars
<1>6. Filling'
  BY <1>1 DEF DrainInv, Filling, threadVars
<1>7. Announced'
  <2> SUFFICES ASSUME NEW t \in Threads, registered[t], t \notin refused
               PROVE  (\E i \in DOMAIN regq' : regq'[i].item = t) \/ \E k \in DOMAIN buffers' : buffers'[k] = t
    BY <1>1 DEF Announced, Known, threadVars
  <2>1. (\E i \in DOMAIN regq : regq[i].item = t) \/ \E k \in DOMAIN buffers : buffers[k] = t
    BY DEF DrainInv, Announced, Known
  <2> QED
    BY <1>3, <1>4, <2>1
<1>8. ASSUME NEW rec \in pending' PROVE Waits(rec)'
  <2>1. Waits(rec) /\ Kept(rec)'
    BY <1>1, <1>8 DEF DrainInv, Waits, Kept, Held, logVars, threadVars
  <2>2. Behind(rec) => Behind(rec)'
    <3> SUFFICES ASSUME Behind(rec), rec.path = "fast", NEW i \in DOMAIN regq', NEW j \in DOMAIN regq',
                        i < j, regq'[j].item = rec.from, regq'[i].by # Nobody
                 PROVE  regq'[i].item \in cut
      BY <1>1 DEF Behind, ownerVars
    <3>1. /\ i + 1 \in DOMAIN regq /\ j + 1 \in DOMAIN regq /\ i + 1 < j + 1
          /\ regq'[i] = regq[i + 1] /\ regq'[j] = regq[j + 1]
      BY <1>3
    <3> QED
      BY <3>1 DEF Behind
  <2> QED
    BY <1>1, <2>1, <2>2 DEF Waits, ownerVars
<1>9. Passed' /\ LeftBehind'
  BY <1>1 DEF Passed, LeftBehind
<1> QED
  BY <1>5, <1>6, <1>7, <1>8, <1>9 DEF DrainInv

\* A turn looks at the rings: whose registration is still in its queue stands behind a
\* ticket that was cut, or was missed.
LEMMA DrainPickupEnds == ASSUME TypeOK, DrainInv, PickupEnds PROVE DrainInv'
<1>1. /\ dpc = "pickup" /\ dpc' = IF buffers = <<>> THEN "debug" ELSE "scan"
      /\ missed' = [missed EXCEPT !.reg = final /\ CanPop(regq)]
      /\ UNCHANGED <<threadVars, buf, regq, debugq, logVars, ownerVars, final, buffers, pos>>
  BY DEF PickupEnds
<1>2. pos = 1 /\ (buffers = <<>> => DOMAIN buffers = {})
  BY <1>1 DEF TypeOK
<1>3. Unfilled' /\ Filling' /\ Announced' /\ \A rec \in pending' : Waits(rec)'
  BY <1>1 DEF DrainInv, Unfilled, Filling, Announced, Known, Waits, Kept, Held, Behind, threadVars, logVars, ownerVars
<1>4. Passed'
  <2>1. dpc' = "scan" => 1 .. pos' - 1 = {}
    BY <1>1, <1>2
  <2>2. dpc' # "scan" => DOMAIN buffers' = {}
    BY <1>1, <1>2
  <2> QED
    BY <2>1, <2>2 DEF Passed
<1>5. ASSUME final, NEW rec \in pending, NEW j \in DOMAIN regq, rec.path = "fast", regq[j].item = rec.from
      PROVE  missed'.reg \/ (j > 1 /\ regq[1].item \in cut)
  <2> SUFFICES ASSUME ~CanPop(regq) PROVE j > 1 /\ regq[1].item \in cut
    BY <1>1, <1>5 DEF TypeOK
  <2>1. regq \in Tickets(Threads) /\ owner \in {"stopping", "stopped"}
    BY <1>5 DEF TypeOK
  <2>2. 1 \in DOMAIN regq /\ regq[1].by # Nobody /\ j \in Nat /\ j >= 1
    BY <2>1, Blocked
  <2>3. tpc[regq[1].item] = "fill"
    BY <2>2 DEF DrainInv, Unfilled
  <2>4. Kept(rec) /\ Behind(rec)
    BY <2>1 DEF DrainInv, Waits
  <2>5. j # 1
    BY <1>5, <2>3, <2>4 DEF Kept
  <2> QED
    BY <1>5, <2>2, <2>4, <2>5 DEF Behind
<1>6. LeftBehind'
  BY <1>1, <1>5 DEF LeftBehind, logVars, ownerVars
<1> QED
  BY <1>3, <1>4, <1>6 DEF DrainInv

LEMMA DrainWrite == ASSUME TypeOK, OrderInv, DrainInv, Write PROVE DrainInv'
<1> DEFINE t == buffers[pos]
           old == buf[t]
           out == Head(old)
<1>1. /\ dpc = "scan" /\ t \in Threads /\ old # <<>> /\ Emit(out)
      /\ UNCHANGED <<threadVars, regq, debugq, ownerVars, dpc, final, buffers, pos, missed>>
  BY DEF Write, TypeOK
<1>2. /\ buf \in [Threads -> Seq(Records)] /\ buf'[t] = Tail(old)
      /\ \A u \in Threads : u # t => buf'[u] = buf[u]
  BY <1>1 DEF TypeOK, Write
<1>3. /\ out = old[1] /\ out \in Records /\ 1 \in DOMAIN old
      /\ \A i \in DOMAIN old : i # 1 => i - 1 \in DOMAIN Tail(old) /\ Tail(old)[i - 1] = old[i]
  BY <1>1, <1>2, TailElements
<1>4. pending' = pending \ {out}
  BY <1>1 DEF Emit
<1> HIDE DEF t, old, out
<1>5. pending' \subseteq pending /\ out \notin pending'
  BY <1>4
<1>6. Unfilled' /\ Filling' /\ Announced'
  BY <1>1 DEF DrainInv, Unfilled, Filling, Announced, Known, threadVars
<1>7. ASSUME NEW rec \in pending' PROVE Waits(rec)'
  <2>1. Waits(rec) /\ rec \in Records /\ rec # out
    BY <1>5, <1>7 DEF DrainInv, TypeOK
  <2>2. rec.from \in Threads
    BY <2>1 DEF Records
  <2>3. Held(rec) => Held(rec)'
    <3>1. CASE rec.path = "fast" /\ rec.from = t
      <4> SUFFICES ASSUME NEW i \in DOMAIN buf[rec.from], buf[rec.from][i] = rec
                   PROVE  \E j \in DOMAIN buf'[rec.from] : buf'[rec.from][j] = rec
        BY <3>1 DEF Held
      <4>1. i \in DOMAIN old /\ old[i] = rec
        BY <3>1 DEF old
      <4>2. i # 1
        BY <1>3, <2>1, <4>1
      <4> QED
        BY <1>2, <1>3, <3>1, <4>1, <4>2
    <3>2. CASE rec.path = "fast" /\ rec.from # t
      BY <1>2, <2>2, <3>2 DEF Held
    <3>3. CASE rec.path # "fast"
      BY <1>1, <3>3 DEF Held
    <3> QED
      BY <3>1, <3>2, <3>3
  <2>4. Kept(rec)'
    BY <1>1, <2>1, <2>3 DEF Waits, Kept, threadVars
  <2>5. Behind(rec) => Behind(rec)'
    BY <1>1 DEF Behind, ownerVars
  <2> QED
    BY <1>1, <2>1, <2>4, <2>5 DEF Waits, ownerVars
<1>8. Passed' /\ LeftBehind'
  <2>1. Passed /\ LeftBehind
    BY DEF DrainInv
  <2> QED
    BY <1>1, <1>5, <2>1 DEF Passed, NoFast, LeftBehind, ownerVars
<1> QED
  BY <1>6, <1>7, <1>8 DEF DrainInv

\* The ring at hand is empty, and nothing of its thread waits, or it was missed.
LEMMA DrainNext == ASSUME TypeOK, DrainInv, NextBuffer PROVE DrainInv'
<1>1. /\ dpc = "scan" /\ tpc[buffers[pos]] # "ended"
      /\ IF pos = Len(buffers) THEN dpc' = "debug" /\ pos' = 1 ELSE pos' = pos + 1 /\ dpc' = dpc
      /\ missed' = IF final /\ buf[buffers[pos]] # <<>>
                     THEN [missed EXCEPT !.rings = @ \cup {buffers[pos]}] ELSE missed
      /\ UNCHANGED <<threadVars, buf, regq, debugq, logVars, ownerVars, final, buffers>>
  BY DEF NextBuffer, Alive
<1>2. Unfilled' /\ Filling' /\ Announced' /\ \A rec \in pending' : Waits(rec)'
  BY <1>1 DEF DrainInv, Unfilled, Filling, Announced, Known, Waits, Kept, Held, Behind, threadVars, logVars, ownerVars
<1>3. buf[buffers[pos]] = <<>> => NoFast(buffers[pos])
  <2> SUFFICES ASSUME buf[buffers[pos]] = <<>>, NEW rec \in pending, rec.path = "fast",
                      rec.from = buffers[pos]
               PROVE  FALSE
    BY DEF NoFast
  <2>1. \E i \in DOMAIN buf[rec.from] : buf[rec.from][i] = rec
    BY <1>1 DEF DrainInv, Waits, Kept, Held
  <2> QED
    BY <2>1
<1>4. pos \in Nat /\ pos \in 1 .. Len(buffers) /\ Len(buffers) \in Nat /\ DOMAIN buffers = 1 .. Len(buffers)
  BY <1>1 DEF TypeOK
<1>8. missed \in [reg : BOOLEAN, debug : BOOLEAN, rings : SUBSET Threads]
  BY DEF TypeOK
<1>9. missed.rings \subseteq missed'.rings /\ missed'.reg = missed.reg /\ missed'.debug = missed.debug
  BY <1>1, <1>8
<1>5. final => \A k \in 1 .. pos : NoFast(buffers[k]) \/ buffers[k] \in missed'.rings
  <2> SUFFICES ASSUME final, NEW k \in 1 .. pos
               PROVE  NoFast(buffers[k]) \/ buffers[k] \in missed'.rings
    OBVIOUS
  <2>1. k = pos \/ k \in 1 .. pos - 1
    BY <1>4
  <2>2. buf[buffers[pos]] # <<>> => buffers[pos] \in missed'.rings
    BY <1>1, <1>8
  <2>3. CASE k = pos
    BY <1>3, <2>2, <2>3
  <2>4. CASE k \in 1 .. pos - 1
    BY <1>1, <1>9, <2>4 DEF DrainInv, Passed
  <2> QED
    BY <2>1, <2>3, <2>4
<1>6. Passed'
  <2>1. final' => \A k \in 1 .. pos : NoFast(buffers[k])' \/ buffers'[k] \in missed'.rings
    BY <1>1, <1>5 DEF NoFast, logVars
  <2>2. CASE pos = Len(buffers)
    <3>1. dpc' = "debug" /\ DOMAIN buffers' = 1 .. pos
      BY <1>1, <1>4, <2>2
    <3> QED
      BY <2>1, <3>1 DEF Passed
  <2>3. CASE pos # Len(buffers)
    <3>1. pos' = pos + 1 /\ dpc' = "scan"
      BY <1>1, <2>3
    <3>2. pos' - 1 = pos
      BY <1>4, <3>1
    <3> QED
      BY <2>1, <3>1, <3>2 DEF Passed
  <2> QED
    BY <2>2, <2>3
<1>7. LeftBehind'
  <2>1. LeftBehind /\ dpc' \in {"scan", "debug"}
    BY <1>1 DEF DrainInv
  <2> QED
    BY <1>1, <1>9, <2>1 DEF LeftBehind, logVars, ownerVars
<1> QED
  BY <1>2, <1>6, <1>7 DEF DrainInv

LEMMA DrainWriteDebug == ASSUME TypeOK, DrainInv, WriteDebug PROVE DrainInv'
<1> DEFINE out == Head(debugq).item
<1>1. /\ dpc = "debug" /\ CanPop(debugq) /\ debugq' = Tail(debugq) /\ Emit(out)
      /\ UNCHANGED <<threadVars, buf, regq, ownerVars, dpc, final, buffers, pos, missed>>
  BY DEF WriteDebug
<1>2. debugq \in Tickets(Records)
  BY DEF TypeOK
<1>3. /\ \A i \in DOMAIN debugq' : i + 1 \in DOMAIN debugq /\ debugq'[i] = debugq[i + 1] /\ i \in Nat /\ i >= 1
      /\ \A i \in DOMAIN debugq : i # 1 => i - 1 \in DOMAIN debugq' /\ debugq'[i - 1] = debugq[i]
      /\ debugq[1].by = Nobody /\ out = debugq[1].item
  BY <1>1, <1>2, Popped
<1>4. pending' = pending \ {out}
  BY <1>1 DEF Emit
<1> HIDE DEF out
<1>5. pending' \subseteq pending /\ out \notin pending'
  BY <1>4
<1>6. Unfilled' /\ Announced'
  BY <1>1, <1>3 DEF DrainInv, Unfilled, Announced, Known, threadVars
<1>7. Filling'
  <2> SUFFICES ASSUME NEW t \in Threads, tpc[t] = "debugFill"
               PROVE  \E i \in DOMAIN debugq' : debugq'[i].by = t /\ debugq'[i].item.nr = sent[t]["debug"]
    BY <1>1 DEF Filling, threadVars
  <2>1. PICK i \in DOMAIN debugq : debugq[i].by = t /\ debugq[i].item.nr = sent[t]["debug"]
    BY DEF DrainInv, Filling
  <2>2. i # 1
    BY <1>3, <2>1, LoggingAssumption
  <2> QED
    BY <1>3, <2>1, <2>2
<1>8. ASSUME NEW rec \in pending' PROVE Waits(rec)'
  <2>1. Waits(rec) /\ rec # out
    BY <1>5, <1>8 DEF DrainInv
  <2>2. Held(rec) => Held(rec)'
    <3>1. CASE rec.path = "fast"
      BY <1>1, <3>1 DEF Held
    <3>2. CASE rec.path # "fast"
      <4> SUFFICES ASSUME NEW i \in DOMAIN debugq, debugq[i].item = rec, debugq[i].by = Nobody
                   PROVE  \E j \in DOMAIN debugq' : debugq'[j].item = rec /\ debugq'[j].by = Nobody
        BY <3>2 DEF Held
      <4>1. i # 1
        BY <1>3, <2>1
      <4> QED
        BY <1>3, <4>1
    <3> QED
      BY <3>1, <3>2
  <2>3. Kept(rec)'
    BY <1>1, <2>1, <2>2 DEF Waits, Kept, threadVars
  <2>4. Behind(rec) => Behind(rec)'
    <3> SUFFICES ASSUME Behind(rec), rec.path = "debug", NEW i \in DOMAIN debugq', NEW j \in DOMAIN debugq',
                        i < j, debugq'[j].item = rec, debugq'[i].by # Nobody
                 PROVE  debugq'[i].item.from \in cut
      BY <1>1 DEF Behind, ownerVars
    <3>1. /\ i + 1 \in DOMAIN debugq /\ j + 1 \in DOMAIN debugq /\ i + 1 < j + 1
          /\ debugq'[i] = debugq[i + 1] /\ debugq'[j] = debugq[j + 1]
      BY <1>3
    <3> QED
      BY <3>1 DEF Behind
  <2> QED
    BY <1>1, <2>1, <2>3, <2>4 DEF Waits, ownerVars
<1>9. Passed' /\ LeftBehind'
  <2>1. Passed /\ LeftBehind
    BY DEF DrainInv
  <2> QED
    BY <1>1, <1>5, <2>1 DEF Passed, NoFast, LeftBehind, ownerVars
<1> QED
  BY <1>6, <1>7, <1>8, <1>9 DEF DrainInv

\* A turn ends: what is still in the debug queue stands behind a ticket that was cut,
\* or was missed.
LEMMA DrainTurnEnds == ASSUME TypeOK, DrainInv, TurnEnds PROVE DrainInv'
<1>1. /\ dpc = "debug" /\ dpc' = IF final THEN "exited" ELSE "check"
      /\ missed' = [missed EXCEPT !.debug = final /\ CanPop(debugq)]
      /\ UNCHANGED <<threadVars, buf, regq, debugq, logVars, ownerVars, final, buffers, pos>>
  BY DEF TurnEnds
<1>2. Unfilled' /\ Filling' /\ Announced' /\ \A rec \in pending' : Waits(rec)'
  BY <1>1 DEF DrainInv, Unfilled, Filling, Announced, Known, Waits, Kept, Held, Behind, threadVars, logVars, ownerVars
<1>6. /\ missed'.rings = missed.rings /\ missed'.reg = missed.reg
      /\ missed'.debug = (final /\ CanPop(debugq))
  BY <1>1 DEF TypeOK
<1>3. Passed'
  BY <1>1, <1>6 DEF DrainInv, Passed, NoFast, logVars
<1>4. ASSUME final, NEW rec \in pending, rec.path = "debug"
      PROVE  \E i \in DOMAIN debugq : debugq[i].item = rec
                /\ (missed'.debug \/ (i > 1 /\ debugq[1].item.from \in cut))
  <2>1. debugq \in Tickets(Records) /\ owner \in {"stopping", "stopped"}
    BY <1>4 DEF TypeOK
  <2>2. Kept(rec) /\ Behind(rec)
    BY <2>1 DEF DrainInv, Waits
  <2>3. PICK i \in DOMAIN debugq : debugq[i].item = rec /\ debugq[i].by = Nobody
    BY <1>4, <2>2 DEF Kept, Held
  <2>4. CASE CanPop(debugq)
    BY <1>4, <1>6, <2>3, <2>4
  <2>5. CASE ~CanPop(debugq)
    <3>1. 1 \in DOMAIN debugq /\ debugq[1].by # Nobody /\ i \in Nat /\ i >= 1
      BY <2>1, <2>5, Blocked
    <3>2. i > 1
      BY <2>3, <3>1
    <3> QED
      BY <1>4, <2>2, <2>3, <3>1, <3>2 DEF Behind
  <2> QED
    BY <2>4, <2>5
<1>5. LeftBehind'
  BY <1>1, <1>4, <1>6 DEF DrainInv, LeftBehind, logVars, ownerVars
<1> QED
  BY <1>2, <1>3, <1>5 DEF DrainInv

\* start() and stop(); what is unfilled when stop() is called is cut.
LEMMA DrainOwner == ASSUME TypeOK, DrainInv, Start \/ Stop \/ Join PROVE DrainInv'
<1>1. UNCHANGED <<threadVars, buf, regq, debugq, logVars, final, buffers, pos, missed>>
  BY DEF Start, Stop, Join, drainVars
<1>2. Unfilled' /\ Filling' /\ Announced' /\ \A rec \in pending' : Kept(rec)'
  BY <1>1 DEF DrainInv, Waits, Unfilled, Filling, Announced, Known, Kept, Held, threadVars, logVars
<1>3. CASE Start
  <2>1. owner' = "on" /\ dpc' = "check"
    BY <1>3 DEF Start
  <2>2. Passed' /\ LeftBehind'
    BY <2>1 DEF Passed, LeftBehind
  <2>3. \A rec \in pending' : Waits(rec)'
    BY <1>2, <2>1 DEF Waits
  <2> QED
    BY <1>2, <2>2, <2>3 DEF DrainInv
<1>4. CASE Stop
  <2>1. owner = "on" /\ cut' = {t \in Threads : tpc[t] \in {"fill", "debugFill"}} /\ dpc' = dpc
    BY <1>4 DEF Stop, drainVars
  <2>2. ~final /\ dpc # "exited"
    BY <2>1 DEF TypeOK
  <2>3. Passed' /\ LeftBehind'
    BY <1>1, <2>1, <2>2 DEF Passed, LeftBehind
  <2>4. \A i \in DOMAIN regq : regq[i].by # Nobody => regq[i].item \in cut'
    <3> SUFFICES ASSUME NEW i \in DOMAIN regq, regq[i].by # Nobody PROVE regq[i].item \in cut'
      OBVIOUS
    <3>1. tpc[regq[i].item] = "fill" /\ regq[i].item \in Threads
      BY OrderTypes DEF DrainInv, Unfilled
    <3> QED
      BY <2>1, <3>1
  <2>5. \A i \in DOMAIN debugq : debugq[i].by # Nobody => debugq[i].item.from \in cut'
    <3> SUFFICES ASSUME NEW i \in DOMAIN debugq, debugq[i].by # Nobody PROVE debugq[i].item.from \in cut'
      OBVIOUS
    <3>1. tpc[debugq[i].item.from] = "debugFill" /\ debugq[i].item.from \in Threads
      BY OrderTypes DEF DrainInv, Unfilled
    <3> QED
      BY <2>1, <3>1
  <2>6. \A rec \in pending' : Behind(rec)'
    BY <1>1, <2>4, <2>5 DEF Behind
  <2> QED
    BY <1>2, <2>3, <2>6 DEF DrainInv, Waits
<1>5. CASE Join
  <2>1. owner \in {"stopping", "stopped"} /\ UNCHANGED <<cut, dpc>>
    BY <1>5 DEF Join, drainVars
  <2>2. Passed' /\ LeftBehind'
    BY <1>1, <2>1 DEF DrainInv, Passed, NoFast, LeftBehind, logVars
  <2>3. \A rec \in pending' : Behind(rec)'
    BY <1>1, <2>1 DEF DrainInv, Waits, Behind, logVars
  <2> QED
    BY <1>2, <2>2, <2>3 DEF DrainInv, Waits
<1> QED
  BY <1>3, <1>4, <1>5

\* What touches nothing of it.
LEMMA DrainStays ==
    ASSUME DrainInv, UNCHANGED <<threadVars, buf, regq, debugq, logVars, ownerVars, dpc, final, buffers, pos,
                                missed>>
    PROVE  DrainInv'
  BY DEF DrainInv, Waits, Unfilled, Filling, Announced, Known, Kept, Held, Behind, Passed, NoFast, LeftBehind,
         threadVars, logVars, ownerVars

LEMMA DrainCheck == ASSUME TypeOK, DrainInv, Check PROVE DrainInv'
<1>1. /\ dpc' = "pickup"
      /\ UNCHANGED <<threadVars, buf, regq, debugq, logVars, ownerVars, buffers, pos>>
  BY DEF Check
<1>2. Passed' /\ LeftBehind'
  BY <1>1 DEF Passed, LeftBehind
<1> QED
  BY <1>1, <1>2 DEF DrainInv, Waits, Unfilled, Filling, Announced, Known, Kept, Held, Behind,
                    threadVars, logVars, ownerVars

LEMMA DrainLogs ==
    ASSUME TypeOK, OrderInv, DrainInv, NEW t \in Threads, Logs(t)
    PROVE  DrainInv'
<1>1. Unfilled /\ Filling /\ Announced /\ Passed /\ LeftBehind /\ \A rec \in pending : Waits(rec)
  BY DEF DrainInv
<1>2. \A rec \in pending : Kept(rec)
  BY <1>1 DEF Waits
<1>3. Unfilled' /\ Filling' /\ Announced' /\ Passed' /\ LeftBehind'
  BY <1>1, <1>2, UnfilledLogs, FillingLogs, AnnouncedLogs, PassedLogs, LeftLogs
<1>4. ASSUME NEW rec \in pending' PROVE Kept(rec)'
  BY <1>1, <1>2, <1>4, KeptLogs
<1>5. ASSUME NEW rec \in pending', owner' \in {"stopping", "stopped"} PROVE Behind(rec)'
  <2>1. owner' = owner
    BY LogsKeep DEF ownerVars
  <2>2. owner # "on" /\ \A r \in pending : Kept(r) /\ Behind(r)
    BY <1>1, <1>5, <2>1 DEF Waits
  <2> QED
    BY <1>5, <2>2, BehindLogs
<1> QED
  BY <1>3, <1>4, <1>5 DEF DrainInv, Waits

LEMMA DrainInvStep ==
    ASSUME TypeOK, OrderInv, DrainInv, [Next]_vars
    PROVE  DrainInv'
<1>1. CASE UNCHANGED vars
  BY <1>1, DrainStays DEF vars, drainVars
<1>2. CASE TouchDestroyed
  BY <1>2, DrainStays DEF TouchDestroyed
<1>3. DrainStep => DrainInv'
  BY <1>2, DrainCheck, DrainPickup, DrainPickupEnds, DrainWrite, DrainNext, DrainWriteDebug, DrainTurnEnds
  DEF DrainStep
<1> QED
  BY <1>1, <1>3, DrainOwner, DrainLogs, Steps

LEMMA DrainStarts == Init => DrainInv
  BY DEF Init, DrainInv, Unfilled, Filling, Announced, Passed, LeftBehind

\* The inductive invariant of the logger.
THEOREM LogInvariant == Spec => []LogInv
<1>1. Init => OrderInv /\ DrainInv
  BY OrderStarts, DrainStarts
<1>2. TypeOK /\ OrderInv /\ DrainInv /\ [Next]_vars => OrderInv' /\ DrainInv'
  BY OrderStep, DrainInvStep
<1>3. OrderInv /\ DrainInv => LogInv
  BY DEF LogInv
<1> QED
  BY <1>1, <1>2, <1>3, TypeCorrect, PTL DEF Spec

\* What was queued before stop() was called has been written when it has returned,
\* unless its registration was refused, or it stands in a shared queue behind a ticket
\* that was claimed and not filled when stop() was called, or the last pop of a queue
\* in the final turn saw an old counter.
THEOREM StopWritesAccepted == Spec => []AcceptedWritten
<1>1. TypeOK /\ LogInv => AcceptedWritten
  <2> SUFFICES ASSUME TypeOK, LogInv, owner = "stopped", NEW rec \in pending
               PROVE  IF rec.path = "debug"
                        THEN \E i \in DOMAIN debugq :
                                 /\ debugq[i].item = rec
                                 /\ missed.debug \/ \E j \in 1 .. i - 1 : debugq[j].item.from \in cut
                        ELSE \/ rec.from \in refused \cup missed.rings
                             \/ \E i \in DOMAIN regq :
                                    /\ regq[i].item = rec.from
                                    /\ missed.reg \/ \E j \in 1 .. i - 1 : regq[j].item \in cut
    BY DEF AcceptedWritten
  <2>1. dpc = "exited" /\ final /\ rec \in Records /\ rec.path \in {"fast", "debug"} /\ rec.from \in Threads
    BY OrderTypes DEF TypeOK, Paths
  <2>2. /\ DOMAIN debugq = 1 .. Len(debugq) /\ Len(debugq) \in Nat
        /\ DOMAIN regq = 1 .. Len(regq) /\ Len(regq) \in Nat
    BY OrderTypes
  <2>3. CASE rec.path = "debug"
    <3>1. PICK i \in DOMAIN debugq : debugq[i].item = rec
               /\ (missed.debug \/ (i > 1 /\ debugq[1].item.from \in cut))
      BY <2>1, <2>3 DEF LogInv, DrainInv, LeftBehind
    <3>2. i \in Nat /\ (i > 1 => 1 \in 1 .. i - 1)
      BY <2>2, <3>1
    <3> QED
      BY <2>3, <3>1, <3>2
  <2>4. CASE rec.path = "fast" /\ rec.from \notin refused \cup missed.rings
    <3>1. registered[rec.from]
      BY <2>4 DEF LogInv, DrainInv, Waits, Kept
    <3>2. \A k \in DOMAIN buffers : buffers[k] # rec.from
      BY <2>1, <2>4 DEF LogInv, DrainInv, Passed, NoFast
    <3>3. PICK i \in DOMAIN regq : regq[i].item = rec.from
      BY <2>1, <2>4, <3>1, <3>2 DEF LogInv, DrainInv, Announced, Known
    <3>4. missed.reg \/ (i > 1 /\ regq[1].item \in cut)
      BY <2>1, <2>4, <3>3 DEF LogInv, DrainInv, LeftBehind
    <3>5. i \in Nat /\ (i > 1 => 1 \in 1 .. i - 1)
      BY <2>2, <3>3
    <3> QED
      BY <2>4, <3>3, <3>4, <3>5
  <2> QED
    BY <2>1, <2>3, <2>4
<1> QED
  BY <1>1, TypeCorrect, LogInvariant, PTL

(***************************************************************************)
(* Application::run().                                                     *)
(***************************************************************************)

(* ---- run(): types ------------------------------------------------------ *)

\* run() moves through its places and its loops.
LEMMA MainTypes == ASSUME LifeTypes, Main PROVE LifeTypes'
<1> USE ApplicationAssumption DEF ApplicationAssumption, Runs, Proceed, Ends
<1>1. CASE ParseAndLoad
  BY <1>1 DEF ParseAndLoad, LifeTypes, Modules
<1>2. CASE InitModule
  BY <1>2 DEF InitModule, LifeTypes, Modules
<1>3. CASE OnInit
  BY <1>3 DEF OnInit, LifeTypes, Modules
<1>4. CASE StartModule
  BY <1>4 DEF StartModule, LifeTypes, Modules
<1>5. CASE Started
  BY <1>5 DEF Started, LifeTypes, Modules
<1>6. CASE StopModule
  BY <1>6 DEF StopModule, LifeTypes, Modules
<1>7. CASE ShutdownModule
  <2>1. at >= 1 /\ at \in 0 .. N + 1 /\ at' = at - 1 /\ pc' = pc /\ exit' = exit
    BY <1>7 DEF ShutdownModule, LifeTypes
  <2>2. at' \in 0 .. N + 1
    BY <2>1
  <2>3. mod' \in [Modules -> {"new", "inited", "started", "stopped", "down"}]
    BY <1>7 DEF ShutdownModule, LifeTypes
  <2>4. pc \in {"down", "undown"}
    BY <1>7 DEF ShutdownModule
  <2> QED
    BY <2>1, <2>2, <2>3, <2>4 DEF LifeTypes
<1>8. CASE Return
  BY <1>8 DEF Return, LifeTypes, Modules
<1>9. CASE Install
  BY <1>9 DEF Install, UnchangedLife, LifeTypes, Modules
<1>10. CASE UninstallUnset
  BY <1>10 DEF UninstallUnset, UnchangedLife, LifeTypes, Modules
<1>11. CASE UninstallJoin
  BY <1>11 DEF UninstallJoin, LifeTypes, Modules
<1> QED
  BY <1>1, <1>2, <1>3, <1>4, <1>5, <1>6, <1>7, <1>8, <1>9, <1>10, <1>11 DEF Main

(* ---- run(): the inductive invariant ------------------------------------ *)

\* The state before run().
LEMMA UnwindInit == AppInit => UnwindInv
<1> SUFFICES ASSUME AppInit PROVE UnwindInv
  OBVIOUS
<1>1. LifeTypes
  BY ApplicationAssumption DEF ApplicationAssumption, AppInit, LifeTypes, Modules
<1>2. 0 \in 0 .. N
  BY ApplicationAssumption DEF ApplicationAssumption
<1> QED
  BY <1>1, <1>2 DEF AppInit, UnwindInv, ModuleAt

\* Whether the log drains and whether run() has returned go by where run() is.
LEMMA MainEnds ==
    ASSUME UnwindInv, Main
    PROVE  /\ exit' = "returned" <=> pc' = "done"
           /\ drain' <=> pc' \notin {"parse", "done"}
<1> USE DEF UnwindInv, Runs, Proceed, Ends
<1>1. CASE ParseAndLoad
  <2>1. /\ exit = "alive" /\ pc = "parse"
        /\ \/ pc' = "init" /\ exit' = exit /\ drain' = TRUE
           \/ pc' = "done" /\ exit' = "returned" /\ drain' = drain
    BY <1>1 DEF ParseAndLoad
  <2>2. ~drain
    BY Zenon, <2>1
  <2>3. CASE pc' = "init" /\ exit' = exit /\ drain' = TRUE
    BY Zenon, <2>1, <2>3
  <2>4. CASE pc' = "done" /\ exit' = "returned" /\ drain' = drain
    <3>1. ~drain'
      BY Zenon, <2>2, <2>4
    <3> QED
      BY Zenon, <2>4, <3>1
  <2> QED
    BY Zenon, <2>1, <2>3, <2>4
<1>2. CASE InitModule
  <2>1. /\ exit = "alive" /\ pc = "init"
        /\ \/ pc' = "init" /\ exit' = exit /\ drain' = drain
           \/ pc' = "done" /\ exit' = "returned" /\ drain' = FALSE
    BY <1>2 DEF InitModule
  <2> QED
    BY Zenon, <2>1
<1>3. CASE OnInit
  <2>1. /\ exit = "alive" /\ pc = "init"
        /\ \/ pc' = "start" /\ exit' = exit /\ drain' = drain
           \/ pc' = "done" /\ exit' = "returned" /\ drain' = FALSE
    BY <1>3 DEF OnInit
  <2> QED
    BY Zenon, <2>1
<1>4. CASE StartModule
  BY Zenon, <1>4 DEF StartModule
<1>5. CASE Started
  BY Zenon, <1>5 DEF Started
<1>6. CASE StopModule
  <2>1. drain' = drain /\ exit' = exit /\ exit = "alive"
    BY Zenon, <1>6 DEF StopModule
  <2>2. drain /\ pc' \notin {"parse", "done"}
    BY Zenon, <1>6 DEF StopModule
  <2> QED
    BY Zenon, <2>1, <2>2
<1>7. CASE ShutdownModule
  BY Zenon, <1>7 DEF ShutdownModule
<1>8. CASE Return
  BY Zenon, <1>8 DEF Return
<1>9. CASE Install
  BY Zenon, <1>9 DEF Install, UnchangedLife
<1>10. CASE UninstallUnset
  BY Zenon, <1>10 DEF UninstallUnset, UnchangedLife
<1>11. CASE UninstallJoin
  BY Zenon, <1>11 DEF UninstallJoin
<1> QED
  BY Zenon, <1>1, <1>2, <1>3, <1>4, <1>5, <1>6, <1>7, <1>8, <1>9, <1>10, <1>11 DEF Main

\* A step of run() takes one module further, or goes on to the next loop.
LEMMA MainModules ==
    ASSUME LifeTypes, Main, NEW k \in 0 .. N,
           pc \in {"unstop", "undown"} => at <= k,
           \A m \in Modules : ModuleAt(m, k),
           pc = "done" => Left(k)
    PROVE  \E j \in 0 .. N :
              /\ pc' \in {"unstop", "undown"} => at' <= j
              /\ \A m \in Modules : ModuleAt(m, j)'
              /\ pc' = "done" => Left(j)'
<1> USE ApplicationAssumption DEF ApplicationAssumption, Runs, Proceed, Ends, Modules, LifeTypes
<1>1. CASE ParseAndLoad
  <2>1. \A m \in Modules : mod'[m] = "new"
    BY <1>1 DEF ParseAndLoad, ModuleAt
  <2>2. 0 \in 0 .. N
    OBVIOUS
  <2>3. pc' = "done" => Left(0)'
    BY <2>1 DEF Left
  <2>4. pc' \in {"init", "done"} /\ (pc' = "init" => at' = 1)
    BY <1>1 DEF ParseAndLoad
  <2>5. \A m \in Modules : ModuleAt(m, 0)'
    BY <2>1, <2>4 DEF ModuleAt
  <2>6. pc' \notin {"unstop", "undown"}
    BY <2>4
  <2> QED
    BY <2>2, <2>3, <2>5, <2>6
<1>2. CASE InitModule
  <2>1. CASE pc' = "init"
    BY <1>2, <2>1 DEF InitModule, ModuleAt
  <2>2. CASE pc' = "done"
    <3>1. at - 1 \in 0 .. N /\ mod' = mod
      BY <1>2, <2>2 DEF InitModule
    <3>2. \A m \in Modules : mod'[m] = IF m <= at - 1 THEN "inited" ELSE "new"
      BY <1>2, <3>1 DEF InitModule, ModuleAt
    <3> QED
      BY <2>2, <3>1, <3>2 DEF ModuleAt, Left
  <2> QED
    BY <1>2, <2>1, <2>2 DEF InitModule
<1>3. CASE OnInit
  <2>1. mod' = mod /\ ((pc' = "start" /\ at' = 1) \/ pc' = "done") /\ N \in 0 .. N
    BY <1>3 DEF OnInit
  <2>2. \A m \in Modules : mod[m] = "inited"
    BY <1>3 DEF OnInit, ModuleAt
  <2> QED
    BY <2>1, <2>2 DEF ModuleAt, Left
<1>4. CASE StartModule
  <2>1. CASE pc' = "start"
    BY <1>4, <2>1 DEF StartModule, ModuleAt
  <2>2. CASE pc' = "unstop"
    <3>1. at - 1 \in 0 .. N /\ at' = at - 1 /\ mod' = mod
      BY <1>4, <2>2 DEF StartModule
    <3> QED
      BY <1>4, <2>2, <3>1 DEF StartModule, ModuleAt
  <2> QED
    BY <1>4, <2>1, <2>2 DEF StartModule
<1>5. CASE Started
  BY <1>5 DEF Started, ModuleAt
<1>6. CASE StopModule /\ at >= 1
  <2>1. mod' = [mod EXCEPT ![at] = "stopped"] /\ pc' = pc /\ at' = at - 1 /\ pc \in {"stop", "unstop"}
    BY <1>6 DEF StopModule
  <2>2. CASE pc = "stop"
    BY <2>1, <2>2, <1>6 DEF ModuleAt
  <2>3. CASE pc = "unstop"
    <3>1. at' <= k /\ pc' = "unstop"
      BY <2>1, <2>3
    <3>2. \A m \in Modules : ModuleAt(m, k)'
      BY <2>1, <2>3, <1>6 DEF ModuleAt
    <3> QED
      BY <3>1, <3>2
  <2> QED
    BY <2>1, <2>2, <2>3
<1>7. CASE StopModule /\ ~(at >= 1)
  <2>1. PICK top \in 0 .. N :
          /\ \A m \in Modules : m <= top <=> mod[m] = "stopped"
          /\ Proceed(IF pc = "stop" THEN "down" ELSE "undown", top)
    BY <1>7 DEF StopModule
  <2>2. mod' = mod /\ at = 0 /\ at' = top /\ pc \in {"stop", "unstop"}
    BY <1>7, <2>1 DEF StopModule
  <2>3. CASE pc = "stop"
    BY <2>1, <2>2, <2>3 DEF ModuleAt
  <2>4. CASE pc = "unstop"
    BY <2>1, <2>2, <2>4 DEF ModuleAt
  <2> QED
    BY <2>2, <2>3, <2>4
<1>8. CASE ShutdownModule
  <2>1. mod' = [mod EXCEPT ![at] = "down"] /\ pc' = pc /\ at' = at - 1 /\ pc \in {"down", "undown"} /\ at >= 1
    BY <1>8 DEF ShutdownModule
  <2>2. CASE pc = "down"
    BY <2>1, <2>2 DEF ModuleAt
  <2>3. CASE pc = "undown"
    <3>1. at' <= k /\ pc' = "undown"
      BY <2>1, <2>3
    <3>2. \A m \in Modules : ModuleAt(m, k)'
      BY <2>1, <2>3 DEF ModuleAt
    <3> QED
      BY <3>1, <3>2
  <2> QED
    BY <2>1, <2>2, <2>3
<1>9. CASE Return
  <2>1. mod' = mod /\ pc' = "done" /\ at = 0 /\ pc \in {"down", "undown"} /\ N \in 0 .. N
    BY <1>9 DEF Return
  <2>2. CASE pc = "down"
    BY <2>1, <2>2 DEF ModuleAt, Left
  <2>3. CASE pc = "undown"
    <3>1. \A m \in Modules : mod'[m] = IF m <= k THEN "down" ELSE "inited"
      BY <2>1, <2>3 DEF ModuleAt
    <3> QED
      BY <2>1, <3>1 DEF ModuleAt, Left
  <2> QED
    BY <2>1, <2>2, <2>3
<1>10. CASE Install
  BY <1>10 DEF Install, UnchangedLife, ModuleAt
<1>11. CASE UninstallUnset
  BY <1>11 DEF UninstallUnset, UnchangedLife, ModuleAt
<1>12. CASE UninstallJoin
  BY <1>12 DEF UninstallJoin, ModuleAt
<1> QED
  BY <1>1, <1>2, <1>3, <1>4, <1>5, <1>6, <1>7, <1>8, <1>9, <1>10, <1>11, <1>12 DEF Main

\* Signals, crashes and the end of on_run() touch no module.
LEMMA SignalsKeep ==
    ASSUME UnwindInv, OnRunReturns \/ CrashThread \/ Signal \/ HandlerWrites \/ Crash
    PROVE  UnwindInv'
<1>1. /\ mod' = mod /\ drain' = drain /\ at' = at
      /\ pc' = pc \/ (pc = "run" /\ pc' = "unset")
      /\ exit' = exit \/ (exit = "alive" /\ exit' = "killed")
  BY DEF OnRunReturns, CrashThread, CrashThreadRead, Die, Signal, HandlerWrites, Crash, UnchangedLife,
         Runs, life
<1>2. LifeTypes'
  BY <1>1 DEF UnwindInv, LifeTypes
<1>3. (exit = "returned" <=> pc = "done")' /\ (drain <=> pc \notin {"parse", "done"})'
  BY Zenon, <1>1 DEF UnwindInv
<1>4. PICK k \in 0 .. N :
        /\ pc \in {"unstop", "undown"} => at <= k
        /\ \A m \in Modules : ModuleAt(m, k)
        /\ pc = "done" => Left(k)
  BY DEF UnwindInv
<1>5. /\ pc' \in {"unstop", "undown"} => at' <= k
      /\ \A m \in Modules : ModuleAt(m, k)'
      /\ pc' = "done" => Left(k)'
  BY <1>1, <1>4 DEF ModuleAt, Left
<1> QED
  BY <1>2, <1>3, <1>5 DEF UnwindInv

\* Where run() is says of every module what state it is in.
THEOREM UnwindInvariant == AppSpec => []UnwindInv
<1>1. UnwindInv /\ [AppNext]_appVars => UnwindInv'
  <2> SUFFICES ASSUME UnwindInv, [AppNext]_appVars PROVE UnwindInv'
    OBVIOUS
  <2>1. CASE UNCHANGED appVars
    BY <2>1 DEF appVars, life, sig, UnwindInv, LifeTypes, ModuleAt, Left
  <2>2. CASE Main
    BY <2>2, MainTypes, MainEnds, MainModules DEF UnwindInv
  <2> QED
    BY <2>1, <2>2, SignalsKeep DEF AppNext
<1> QED
  BY <1>1, UnwindInit, PTL DEF AppSpec

\* Modules come up in the order of registration and go down in reverse, whichever
\* of their calls fails.
THEOREM ModulesComeDown == AppSpec => []ModulesUnwind
<1>1. UnwindInv => ModulesUnwind
  <2> SUFFICES ASSUME UnwindInv PROVE ModulesUnwind
    OBVIOUS
  <2>1. PICK k \in 0 .. N :
          /\ pc \in {"unstop", "undown"} => at <= k
          /\ \A m \in Modules : ModuleAt(m, k)
          /\ pc = "done" => Left(k)
    BY DEF UnwindInv
  <2> QED
    BY <2>1, ApplicationAssumption DEF ApplicationAssumption, ModulesUnwind, UnwindInv, LifeTypes, Touched, Modules, ModuleAt, Left
<1> QED
  BY <1>1, UnwindInvariant, PTL
=============================================================================
