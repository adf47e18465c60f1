----------------------------- MODULE ThreadPool -----------------------------
(***************************************************************************)
(* include/threadpool/threadpool.h: workers that each own a queue, any     *)
(* number of threads that submit, one thread that starts and stops the     *)
(* pool.  The queues are lockfree::MpscQueue, taken here as TicketQueue,   *)
(* which MpscQueue is shown to implement: a submit claims a ticket in one  *)
(* step and fills it in a later one, and try_pop fails on an unfilled      *)
(* head.  Workers are registered before the pool is shared (lines 127-130).*)
(***************************************************************************)
EXTENDS Integers, Sequences, SequencesExt, FiniteSets

CONSTANTS Submitters,    \* threads that submit
          Owner,         \* the thread that calls start() and stop()
          Kinds,         \* the ways to submit that are used
          Keys,          \* hash values of the keys submitted
          QueueCapacity, MaxWorkers, \* template parameters
          MaxTasks,      \* bound: per submitter, how many tasks it offers
          MaxStarts,     \* bound: calls of start()
          Nobody,        \* holds a filled ticket
          NoTask

ASSUME ThreadPoolAssumption ==
    /\ Kinds \subseteq {"any", "key", "group", "worker"}
    /\ Keys \subseteq Nat /\ QueueCapacity \in Nat \ {0} /\ MaxWorkers \in Nat \ {0}
    /\ MaxTasks \in [Submitters -> Nat] /\ MaxStarts \in Nat
    /\ Nobody \notin Submitters

VARIABLES numWorkers, groups, \* num_workers_, groups_ (begin and count of each)
          queues,    \* queues_: per worker a sequence of tickets [item, by]
          rr,        \* rr_counter_
          running,   \* running_
          owner,     \* where the owner is in start() and stop()
          starts,    \* calls of start() so far
          cut,       \* history: the tasks whose submits were under way at the last stop()
          stopAsked, \* per worker: its stop_token's stop_requested()
          wpc,       \* per worker: where worker_loop is, "none" without a thread
          task,      \* per worker: the local task of worker_loop
          done,      \* history, per worker: the tasks its handler was called with
          submitting,\* per submitter: the worker whose ticket it fills, or -1
          sent       \* per submitter: tasks offered so far

setup == <<numWorkers, groups>>
ownerVars == <<running, owner, starts, cut, stopAsked>>
workerVars == <<wpc, task, done>>
submitVars == <<submitting, sent, rr>>
poolVars == <<setup, queues, ownerVars, workerVars, submitVars>>

Workers == 0 .. MaxWorkers - 1
Registered == 0 .. numWorkers - 1

\* What a task is submitted under: any worker, a key, a key within a group, or a
\* worker by number.
Streams ==
    {st \in {<<"any">>} \cup ({"key"} \X Keys) \cup ({"group"} \X (1 .. MaxWorkers) \X Keys)
              \cup ({"worker"} \X Workers) : st[1] \in Kinds}
Tasks == [from : Submitters, nr : 1 .. Max(Range(MaxTasks)), stream : Streams, inTime : BOOLEAN]

PoolInit ==
    /\ numWorkers = 0 /\ groups = <<>>
    /\ queues = [w \in Workers |-> <<>>]
    /\ rr = 0 /\ running = FALSE /\ owner = "new" /\ starts = 0 /\ cut = {}
    /\ stopAsked = [w \in Workers |-> FALSE]
    /\ wpc = [w \in Workers |-> "none"]
    /\ task = [w \in Workers |-> NoTask]
    /\ done = [w \in Workers |-> <<>>]
    /\ submitting = [s \in Submitters |-> -1]
    /\ sent = [s \in Submitters |-> 0]

-----------------------------------------------------------------------------
\* spawn_worker and spawn_group, by the owner, before anybody else has the pool.
SpawnWorker ==
    /\ owner = "new" /\ numWorkers < MaxWorkers
    /\ numWorkers' = numWorkers + 1
    /\ UNCHANGED <<groups, queues, ownerVars, workerVars, submitVars>>

SpawnGroup(count) ==
    /\ owner = "new" /\ numWorkers + count <= MaxWorkers
    /\ groups' = Append(groups, [begin |-> numWorkers, count |-> count])
    /\ numWorkers' = numWorkers + count
    /\ UNCHANGED <<queues, ownerVars, workerVars, submitVars>>

\* The owner's own submits do not overlap its start() and stop().
OwnerFree == Owner \in Submitters => submitting[Owner] = -1

\* start(): running_ and one thread per worker.
Start ==
    /\ owner \in {"new", "stopped"} /\ OwnerFree /\ numWorkers > 0 /\ starts < MaxStarts
    /\ running' = TRUE /\ owner' = "started" /\ starts' = starts + 1
    /\ stopAsked' = [w \in Workers |-> FALSE]
    /\ wpc' = [w \in Workers |-> IF w \in Registered THEN "poll" ELSE "none"]
    /\ UNCHANGED <<setup, queues, cut, task, done, submitVars>>

\* stop(): the exchange of running_, request_stop on every thread, the joins.
Stop ==
    /\ owner = "started" /\ running /\ OwnerFree
    /\ running' = FALSE /\ owner' = "stopping"
    /\ cut' = {<<s, sent[s]>> : s \in {t \in Submitters : submitting[t] # -1}}
    /\ UNCHANGED <<setup, queues, starts, stopAsked, workerVars, submitVars>>

RequestStop(w) ==
    /\ owner = "stopping" /\ w \in Registered
    /\ ~stopAsked[w] /\ \A v \in 0 .. w - 1 : stopAsked[v]
    /\ stopAsked' = [stopAsked EXCEPT ![w] = TRUE]
    /\ UNCHANGED <<setup, queues, running, owner, starts, cut, workerVars, submitVars>>

Join ==
    /\ owner = "stopping" /\ \A w \in Registered : stopAsked[w] /\ wpc[w] = "exited"
    /\ owner' = "stopped"
    /\ UNCHANGED <<setup, queues, running, starts, cut, stopAsked, workerVars, submitVars>>

-----------------------------------------------------------------------------
\* Which queue a task goes to: submit_any, submit_by_key, submit_to_group,
\* submit_to_worker.
RouteNext(stream) == rr % numWorkers         \* mutant: every submit is round-robin

Route(stream) ==
    IF stream[1] = "any" THEN rr % numWorkers
    ELSE IF stream[1] = "key" THEN stream[2] % numWorkers
    ELSE IF stream[1] = "group"
           THEN groups[stream[2]].begin + (stream[3] % groups[stream[2]].count)
           ELSE stream[2]

Offered ==
    {st \in Streams : /\ st[1] = "group" => st[2] \in DOMAIN groups
                      /\ st[1] = "worker" => st[2] \in Registered}

\* A submit begins: it takes a ticket, or is refused.  The slot of the task that
\* a worker has just popped is not free at once (MpscQueue's PopFree), so a
\* refusal is possible while one ticket less than the capacity is held.
Submit(s, stream) ==
    /\ owner # "new" /\ submitting[s] = -1 /\ sent[s] < MaxTasks[s]
    /\ (s = Owner => owner \in {"started", "stopped"})   \* not in the middle of stop()
    /\ sent' = [sent EXCEPT ![s] = @ + 1]
    /\ rr' = IF stream[1] = "any" THEN rr + 1 ELSE rr
    /\ LET w == Route(stream)
           t == [from |-> s, nr |-> sent[s] + 1, stream |-> stream,
                 inTime |-> owner = "started"]
       IN  \/ /\ Len(queues[w]) < QueueCapacity
              /\ queues' = [queues EXCEPT ![w] = Append(@, [item |-> t, by |-> s])]
              /\ submitting' = [submitting EXCEPT ![s] = w]
           \/ /\ Len(queues[w]) + 1 >= QueueCapacity
              /\ UNCHANGED <<queues, submitting>>             \* return false
    /\ UNCHANGED <<setup, ownerVars, workerVars>>

\* The ticket is filled and submit returns true.
SubmitEnd(s) ==
    /\ submitting[s] # -1
    /\ queues' = [queues EXCEPT ![submitting[s]] =
           [i \in DOMAIN @ |-> IF @[i].by = s THEN [@[i] EXCEPT !.by = Nobody] ELSE @[i]]]
    /\ submitting' = [submitting EXCEPT ![s] = -1]
    /\ UNCHANGED <<setup, ownerVars, workerVars, sent, rr>>

-----------------------------------------------------------------------------
CanPop(w) == queues[w] # <<>> /\ Head(queues[w]).by = Nobody

PopAnd(w, next) ==
    /\ CanPop(w)
    /\ task' = [task EXCEPT ![w] = Head(queues[w]).item]
    /\ queues' = [queues EXCEPT ![w] = Tail(@)]
    /\ wpc' = [wpc EXCEPT ![w] = next]

PollEndsEarly(w) ==                          \* mutant: no drain after the loop
    /\ wpc[w] = "poll" /\ stopAsked[w]
    /\ wpc' = [wpc EXCEPT ![w] = "exited"]
    /\ UNCHANGED <<setup, queues, ownerVars, task, done, submitVars>>

PollEndsIdle(w) ==                           \* mutant: the loop ends when there is nothing to pop
    /\ wpc[w] = "poll" /\ (stopAsked[w] \/ ~CanPop(w))
    /\ wpc' = [wpc EXCEPT ![w] = "drain"]
    /\ UNCHANGED <<setup, queues, ownerVars, task, done, submitVars>>

PollEnds(w) ==
    /\ wpc[w] = "poll" /\ stopAsked[w]
    /\ wpc' = [wpc EXCEPT ![w] = "drain"]
    /\ UNCHANGED <<setup, queues, ownerVars, task, done, submitVars>>

Poll(w) ==
    /\ wpc[w] = "poll"
    /\ PopAnd(w, "handle")
    /\ UNCHANGED <<setup, ownerVars, done, submitVars>>

Drain(w) ==
    /\ wpc[w] = "drain"
    /\ PopAnd(w, "drainHandle")
    /\ UNCHANGED <<setup, ownerVars, done, submitVars>>

DrainEndsEmpty(w) ==                         \* mutant: waits for unfilled tickets too
    /\ wpc[w] = "drain" /\ queues[w] = <<>>
    /\ wpc' = [wpc EXCEPT ![w] = "exited"]
    /\ UNCHANGED <<setup, queues, ownerVars, task, done, submitVars>>

DrainEnds(w) ==
    /\ wpc[w] = "drain" /\ ~CanPop(w)
    /\ wpc' = [wpc EXCEPT ![w] = "exited"]
    /\ UNCHANGED <<setup, queues, ownerVars, task, done, submitVars>>

Handle(w) ==
    /\ wpc[w] \in {"handle", "drainHandle"}
    /\ done' = [done EXCEPT ![w] = Append(@, task[w])]
    /\ wpc' = [wpc EXCEPT ![w] = IF @ = "handle" THEN "poll" ELSE "drain"]
    /\ UNCHANGED <<setup, queues, ownerVars, task, submitVars>>

-----------------------------------------------------------------------------
WorkerStep(w) == Poll(w) \/ PollEnds(w) \/ Drain(w) \/ DrainEnds(w) \/ Handle(w)
StopStep == Join \/ \E w \in Workers : RequestStop(w)

PoolNext ==
    \/ SpawnWorker \/ \E count \in 1 .. MaxWorkers : SpawnGroup(count)
    \/ Start \/ Stop \/ StopStep
    \/ \E s \in Submitters : SubmitEnd(s) \/ \E st \in Offered : Submit(s, st)
    \/ \E w \in Workers : WorkerStep(w)

PoolSpec == PoolInit /\ [][PoolNext]_poolVars

\* Worker threads and the owner's stop() are scheduled; a submitter may be
\* preempted for ever in the middle of a submit.
PoolFairness == WF_poolVars(StopStep) /\ \A w \in Workers : WF_poolVars(WorkerStep(w))
PoolFairSpec == PoolSpec /\ PoolFairness

\* What QueuedHandled asks for as well: a submit that has begun is carried through.
SubmitsEnd == \A s \in Submitters : WF_poolVars(SubmitEnd(s))

-----------------------------------------------------------------------------
\* Affinity (threadpool.h:47-52): tasks submitted under one key are all handled
\* by one worker, in the order each submitter offered them, each at most once;
\* refusals, other streams, stop and restart notwithstanding; a group's tasks stay
\* on the group's workers (lines 54-57), so another group cannot delay them.
KeyOrder ==
    /\ \A v, w \in Workers : \A i \in DOMAIN done[v], j \in DOMAIN done[w] :
          done[v][i].stream = done[w][j].stream /\ done[v][i].stream # <<"any">> => v = w
    /\ \A w \in Workers : \A i, j \in DOMAIN done[w] :
          i < j /\ done[w][i].from = done[w][j].from
                /\ done[w][i].stream = done[w][j].stream => done[w][i].nr < done[w][j].nr
    /\ \A w \in Workers : \A i \in DOMAIN done[w] :
          LET st == done[w][i].stream
          IN  st[1] = "group" => w - groups[st[2]].begin \in 0 .. groups[st[2]].count - 1

\* When stop() has returned, a task whose submit began while the pool ran has
\* been handled, unless it is, or stands behind, one whose submit was still under
\* way when stop() was called.  Where only the owner submits, as in
\* apps/md_dispatch/main.cpp, there is none of those.
AllHandledAtStop ==
    owner = "stopped" => \A w \in Workers : \A i \in DOMAIN queues[w] :
        queues[w][i].item.inTime =>
            \E j \in 1 .. i : <<queues[w][j].item.from, queues[w][j].item.nr>> \in cut

\* stop() returns, though a submitter may be stuck halfway through a submit.
StopReturns == (owner = "stopping") ~> (owner = "stopped")

\* While the pool runs, what is queued is handled: no worker sleeps on a
\* non-empty queue.
QueuedHandled == SubmitsEnd =>
    \A w \in Workers : (queues[w] # <<>> /\ owner = "started")
                          ~> (queues[w] = <<>> \/ owner # "started")

-----------------------------------------------------------------------------
\* The inductive invariant behind KeyOrder: what a worker has handled, what it
\* has in hand and what waits for it is one line in the order of submission, and
\* everything in it belongs there.
AnyTask == [from : Submitters, nr : Nat, stream : Streams, inTime : BOOLEAN]
PoolTypeOK ==
    /\ groups \in Seq([begin : Nat, count : Nat \ {0}]) /\ numWorkers \in Nat
    /\ done \in [Workers -> Seq(AnyTask)]
    /\ queues \in [Workers -> Seq([item : AnyTask, by : Submitters \cup {Nobody}])]
    /\ task \in [Workers -> AnyTask \cup {NoTask}] /\ DOMAIN wpc = Workers
    /\ sent \in [Submitters -> Nat]

InHand(w) == wpc[w] \in {"handle", "drainHandle"}
Unused ==
    owner = "new" => \A w \in Workers : done[w] = <<>> /\ queues[w] = <<>> /\ ~InHand(w)

\* A task of a worker's line: its stream leads there, and it counts as offered.
Placed(t, w) ==
    /\ t \in AnyTask /\ t.nr <= sent[t.from]
    /\ t.stream # <<"any">> => t.stream[1] # "any" /\ Route(t.stream) = w
    /\ t.stream[1] = "group" =>
        w - groups[t.stream[2]].begin \in 0 .. groups[t.stream[2]].count - 1
Before(t, u) == t.from = u.from /\ t.stream = u.stream => t.nr < u.nr

Lines ==
    \A w \in Workers :
        /\ \A i \in DOMAIN done[w] : Placed(done[w][i], w)
        /\ InHand(w) => Placed(task[w], w)
        /\ \A i \in DOMAIN queues[w] : Placed(queues[w][i].item, w)
Ordered ==
    \A w \in Workers :
        /\ \A i, j \in DOMAIN done[w] : i < j => Before(done[w][i], done[w][j])
        /\ InHand(w) => \A i \in DOMAIN done[w] : Before(done[w][i], task[w])
        /\ \A i \in DOMAIN done[w], j \in DOMAIN queues[w] : Before(done[w][i], queues[w][j].item)
        /\ InHand(w) => \A j \in DOMAIN queues[w] : Before(task[w], queues[w][j].item)
        /\ \A i, j \in DOMAIN queues[w] :
              i < j => Before(queues[w][i].item, queues[w][j].item)

LineInv == PoolTypeOK /\ Unused /\ Lines /\ Ordered

-----------------------------------------------------------------------------
\* The inductive invariant behind AllHandledAtStop.  Registry: every stream leads
\* to a worker that has a thread.  Threads: workers leave the loop only in stop(),
\* which does not return before they have.  OpenTickets: an unfilled ticket is its
\* submitter's last.  Leftover: from stop() on, a ticket that can hold up a drain
\* is in cut, or nothing submitted in time stands behind it.
Registry ==
    /\ rr \in Nat /\ (owner # "new" => numWorkers > 0)
    /\ \A g \in DOMAIN groups : groups[g].begin + groups[g].count <= numWorkers
    /\ \A w \in Workers \ Registered : queues[w] = <<>>

Threads ==
    /\ owner \in {"new", "started", "stopping", "stopped"}
    /\ owner = "new" => \A w \in Workers : wpc[w] = "none"
    /\ owner = "started" =>
         \A w \in Workers : ~stopAsked[w] /\ wpc[w] \notin {"drain", "drainHandle", "exited"}
    /\ owner = "stopped" => \A w \in Workers : w \in Registered => wpc[w] = "exited"

OpenTickets ==
    \A w \in Workers : \A i \in DOMAIN queues[w] :
        LET q == queues[w][i]
        IN  q.by # Nobody =>
              q.item.from = q.by /\ q.item.nr = sent[q.by] /\ submitting[q.by] = w

Leftover == owner \in {"stopping", "stopped"} =>
    \A w \in Workers : \A i \in DOMAIN queues[w] :
        /\ queues[w][i].by # Nobody =>
             \/ <<queues[w][i].item.from, queues[w][i].item.nr>> \in cut
             \/ \A j \in DOMAIN queues[w] : j >= i => ~queues[w][j].item.inTime
        /\ wpc[w] = "exited" /\ queues[w][i].item.inTime =>
             \E j \in 1 .. i : <<queues[w][j].item.from, queues[w][j].item.nr>> \in cut

StopInv ==
    /\ DOMAIN submitting = Submitters /\ DOMAIN stopAsked = Workers
    /\ Registry /\ Threads /\ OpenTickets /\ Leftover
=============================================================================
