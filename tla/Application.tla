---------------------------- MODULE Application -----------------------------
(***************************************************************************)
(* A ServerApplication (core/app): run() takes its modules through their   *)
(* lives, on_run() loops until it is told to stop, and signals arrive on   *)
(* any thread while a thread of its own waits to report a crash            *)
(* (signals.cpp).  A module is "new", "inited", "started", "stopped" or    *)
(* "down".                                                                 *)
(***************************************************************************)
EXTENDS Integers, Sequences

CONSTANTS N,          \* modules, in order of registration
          MaxSignals  \* bound: SIGINTs and SIGTERMs sent

ASSUME ApplicationAssumption == N \in Nat /\ MaxSignals \in Nat

VARIABLES pc,      \* where run() is
          at,      \* the module it is at
          mod,     \* the state of every module
          drain,   \* TRUE from Drain::start to Drain::stop
          exit,    \* "alive", "returned" or "killed"
          stopping,\* the stop_source has been asked to stop
          gStop, gRunning, \* g_stop # nullptr, g_running
          handlers,\* whose handlers the signals have
          pipe,    \* the bytes in g_pipe; pipeOpen: the pipe is there
          pipeOpen,
          crashThread, \* "none", "reading", "dying" or "ended"
          signals, \* SIGINTs and SIGTERMs so far
          handler, \* a thread in graceful_handler, past request_stop: "none",
                   \* "main" or "other"
          crashed  \* a thread in crash_handler's pause(), and whether it was
                   \* there before anyone asked to stop

life == <<pc, at, mod, drain, exit>>
sig == <<stopping, gStop, gRunning, handlers, pipe, pipeOpen, crashThread, signals, handler, crashed>>
appVars == <<life, sig>>

Modules == 1 .. N
NoCrash == [thread |-> "none", early |-> FALSE]

AppInit ==
    /\ pc = "parse" /\ at = 1 /\ mod = [m \in Modules |-> "new"] /\ drain = FALSE /\ exit = "alive"
    /\ stopping = FALSE /\ gStop = FALSE /\ gRunning = FALSE /\ handlers = "default"
    /\ pipe = <<>> /\ pipeOpen = FALSE /\ crashThread = "none" /\ signals = 0
    /\ handler = "none" /\ crashed = NoCrash

\* The main thread runs: the process lives, and neither a handler nor a crash
\* holds the thread.
Runs(here) ==
    exit = "alive" /\ pc = here /\ handler # "main" /\ crashed.thread # "main"
Proceed(there, m) == pc' = there /\ at' = m
Ends == pc' = "done" /\ exit' = "returned" /\ UNCHANGED at

----------------------------------------------------------------------------
(* Application::run()                                                      *)

\* Help or a bad option, a config that is missing or malformed: out at once.
ParseAndLoad ==
    /\ Runs("parse") /\ UNCHANGED <<mod, sig>>
    /\ \/ Ends /\ UNCHANGED drain
       \/ Proceed("init", 1) /\ drain' = TRUE /\ UNCHANGED exit

\* One that fails ends the run, with those before it left as they are.
InitModule ==
    /\ Runs("init") /\ at <= N /\ UNCHANGED sig
    /\ \/ mod' = [mod EXCEPT ![at] = "inited"] /\ Proceed("init", at + 1) /\ UNCHANGED <<drain, exit>>
       \/ Ends /\ drain' = FALSE /\ UNCHANGED mod

OnInit ==
    /\ Runs("init") /\ at > N /\ UNCHANGED <<mod, sig>>
    /\ \/ Proceed("start", 1) /\ UNCHANGED <<drain, exit>>
       \/ Ends /\ drain' = FALSE

\* One that fails sends those before it back, in reverse.
StartModuleForgetsLast == \* mutant: off by one
    /\ Runs("start") /\ at <= N /\ UNCHANGED <<drain, exit, sig>>
    /\ \/ mod' = [mod EXCEPT ![at] = "started"] /\ Proceed("start", at + 1)
       \/ Proceed("unstop", at - 2) /\ UNCHANGED mod
StartModule ==
    /\ Runs("start") /\ at <= N /\ UNCHANGED <<drain, exit, sig>>
    /\ \/ mod' = [mod EXCEPT ![at] = "started"] /\ Proceed("start", at + 1)
       \/ Proceed("unstop", at - 1) /\ UNCHANGED mod

Started == Runs("start") /\ at > N /\ Proceed("install", at) /\ UNCHANGED <<mod, drain, exit, sig>>

\* All of them are stopped before the first is shut down.  The way out after a
\* start that failed, "unstop" and "undown", is the same but for on_shutdown().
StopModule ==
    /\ Runs("stop") \/ Runs("unstop")
    /\ UNCHANGED <<drain, exit, sig>>
    /\ IF at >= 1 THEN mod' = [mod EXCEPT ![at] = "stopped"] /\ Proceed(pc, at - 1)
       ELSE UNCHANGED mod /\ \E top \in 0 .. N :
                /\ \A m \in Modules : m <= top <=> mod[m] = "stopped"
                /\ Proceed(IF pc = "stop" THEN "down" ELSE "undown", top)
ShutdownModule ==
    /\ (Runs("down") \/ Runs("undown")) /\ at >= 1
    /\ mod' = [mod EXCEPT ![at] = "down"] /\ Proceed(pc, at - 1) /\ UNCHANGED <<drain, exit, sig>>
Return ==
    /\ (Runs("down") \/ Runs("undown")) /\ at < 1
    /\ Ends /\ drain' = FALSE /\ UNCHANGED <<mod, sig>>

----------------------------------------------------------------------------
(* ServerApplication::do_run() and signals.cpp                             *)

UnchangedLife == UNCHANGED <<at, mod, drain, exit>>

\* Without a pipe there are no handlers and no thread.  One step: a signal in the
\* middle of it meets the default or ours.
Install ==
    /\ Runs("install") /\ UnchangedLife /\ pc' = "run" /\ gStop' = TRUE /\ gRunning' = TRUE
    /\ \/ pipeOpen' = TRUE /\ crashThread' = "reading" /\ handlers' = "ours"
       \/ UNCHANGED <<pipeOpen, crashThread, handlers>>
    /\ UNCHANGED <<stopping, pipe, signals, handler, crashed>>

\* on_run() polls its token; it may also come to an end of itself.
OnRunReturns ==
    /\ Runs("run") /\ pc' = "unset" /\ UnchangedLife /\ UNCHANGED sig
OnRunSeesStop == stopping /\ OnRunReturns

UninstallUnset ==
    /\ Runs("unset") /\ pc' = "join" /\ UnchangedLife
    /\ gRunning' = FALSE /\ pipe' = IF pipeOpen THEN Append(pipe, "term") ELSE pipe
    /\ UNCHANGED <<stopping, gStop, handlers, pipeOpen, crashThread, signals, handler, crashed>>

\* The handlers stay installed.
UninstallJoin ==
    /\ Runs("join") /\ crashThread \in {"none", "ended"} /\ Proceed("stop", N)
    /\ UNCHANGED <<mod, drain, exit>>
    /\ pipe' = <<>> /\ pipeOpen' = FALSE /\ gStop' = FALSE /\ crashThread' = "none"
    /\ UNCHANGED <<stopping, gRunning, handlers, signals, handler, crashed>>

\* SIGINT or SIGTERM: the default ends the process.
SignalOnlyWrites == \* mutant: no request_stop()
    /\ exit = "alive" /\ signals < MaxSignals /\ signals' = signals + 1 /\ handler = "none"
    /\ IF handlers = "default"
       THEN exit' = "killed" /\ UNCHANGED handler
       ELSE handler' = "other" /\ UNCHANGED exit
    /\ UNCHANGED <<pc, at, mod, drain, stopping, gStop, gRunning, handlers, pipe, pipeOpen,
                   crashThread, crashed>>

Signal ==
    /\ exit = "alive" /\ signals < MaxSignals /\ signals' = signals + 1 /\ handler = "none"
    /\ IF handlers = "default"
       THEN exit' = "killed" /\ UNCHANGED <<stopping, handler>>
       ELSE /\ stopping' = (stopping \/ gStop)
            /\ \E thread \in {"main", "other"} \ {crashed.thread} : handler' = thread
            /\ UNCHANGED exit
    /\ UNCHANGED <<pc, at, mod, drain, gStop, gRunning, handlers, pipe, pipeOpen, crashThread, crashed>>

Written(byte) == IF pipeOpen THEN Append(pipe, byte) ELSE pipe
HandlerWrites ==
    /\ exit = "alive" /\ handler # "none" /\ handler' = "none" /\ pipe' = Written("term")
    /\ UNCHANGED <<life, stopping, gStop, gRunning, handlers, pipeOpen, crashThread, signals, crashed>>

\* A SIGSEGV or another of its kind, in main or in a module's thread.
Crash ==
    /\ exit = "alive" /\ crashed = NoCrash /\ pc # "done"
    /\ \E thread \in {"main", "other"} \ {handler} :
        IF handlers = "default" THEN exit' = "killed" /\ UNCHANGED <<crashed, pipe>>
        ELSE /\ crashed' = [thread |-> thread, early |-> ~stopping /\ pc = "run"]
             /\ pipe' = Written("crash") /\ UNCHANGED exit
    /\ UNCHANGED <<pc, at, mod, drain, stopping, gStop, gRunning, handlers, pipeOpen, crashThread,
                   signals, handler>>

\* A byte that asks to stop ends the thread only once uninstall() has begun; any
\* other is a crash.
CrashThreadRead ==
    /\ exit = "alive" /\ crashThread = "reading" /\ pipe # <<>> /\ pipe' = Tail(pipe)
    /\ crashThread' = IF Head(pipe) = "term" THEN IF gRunning THEN "reading" ELSE "ended"
                      ELSE "dying"
    /\ UNCHANGED <<life, stopping, gStop, gRunning, handlers, pipeOpen, signals, handler, crashed>>

\* The trace is written and the log flushed; then the default, raised again.
DieEndsThread == \* mutant: not raised again
    /\ exit = "alive" /\ crashThread = "dying" /\ crashThread' = "ended"
    /\ UNCHANGED <<life, stopping, gStop, gRunning, handlers, pipe, pipeOpen, signals, handler, crashed>>
Die ==
    /\ exit = "alive" /\ crashThread = "dying" /\ exit' = "killed"
    /\ UNCHANGED <<pc, at, mod, drain, sig>>

----------------------------------------------------------------------------
Main ==
    \/ ParseAndLoad \/ InitModule \/ OnInit \/ StartModule \/ Started \/ StopModule
    \/ ShutdownModule \/ Return \/ Install \/ UninstallUnset \/ UninstallJoin
CrashThread == CrashThreadRead \/ Die
AppNext == Main \/ OnRunReturns \/ CrashThread \/ Signal \/ HandlerWrites \/ Crash

AppSpec == AppInit /\ [][AppNext]_appVars

\* Threads are scheduled, modules' calls return and on_run() polls its token.
AppFairSpec ==
    AppSpec /\ WF_appVars(Main) /\ WF_appVars(OnRunSeesStop) /\ WF_appVars(CrashThread) /\ WF_appVars(HandlerWrites)

----------------------------------------------------------------------------
(* Properties.                                                             *)

\* What the proofs need of the types: run()'s own variables.
LifeTypes ==
    /\ pc \in {"parse", "init", "start", "unstop", "undown", "install", "run", "unset", "join",
               "stop", "down", "done"}
    /\ at \in 0 .. N + 1 /\ (pc \in {"init", "start"} => at >= 1)
    /\ mod \in [Modules -> {"new", "inited", "started", "stopped", "down"}]
    /\ exit \in {"alive", "returned", "killed"}

Touched(m) == mod[m] \in {"stopped", "down"}

\* Modules come up in the order of registration and go down in reverse, all of
\* them stopped before one is shut down; when run() returns none is left running
\* and nothing logs, whichever call failed (application.h:28-39).  Those that
\* were only initialised are not shut down.
ModulesUnwind ==
    /\ \A i, j \in Modules : i < j =>
        /\ mod[j] # "new" => mod[i] # "new"
        /\ mod[j] \in {"started", "stopped", "down"} => mod[i] \in {"started", "stopped", "down"}
        /\ Touched(i) /\ mod[j] # "inited" => Touched(j)
        /\ mod[i] = "down" => mod[j] \in {"down", "inited"}
    /\ \A i, j \in Modules : mod[i] = "down" => mod[j] # "started"
    /\ exit = "returned" => ~drain /\ \A m \in Modules : mod[m] \notin {"started", "stopped"}

\* SIGINT and SIGTERM end the process, by its own way out once the handlers are
\* there, unless a crash holds a thread (server_application.h:8-11).
SignalEndsRun == (signals > 0) ~> (exit # "alive" \/ crashed # NoCrash)

\* A crash while on_run() loops, before anyone asked to stop, ends the process
\* with its trace; it does not leave a thread in pause().  Later ones may:
\* uninstall() leaves the handlers to a pipe that nobody reads.
EarlyCrashEnds == crashed.early ~> exit # "alive"

----------------------------------------------------------------------------
\* The inductive invariant behind ModulesUnwind: where run() is says of every
\* module what state it is in.  Of a start that failed, k modules had started.
ModuleAt(m, k) ==
    /\ pc = "parse" => mod[m] = "new"
    /\ pc = "init" => mod[m] = IF m < at THEN "inited" ELSE "new"
    /\ pc = "start" => mod[m] = IF m < at THEN "started" ELSE "inited"
    /\ pc \in {"install", "run", "unset", "join"} => mod[m] = "started"
    /\ pc = "stop" => mod[m] = IF m <= at THEN "started" ELSE "stopped"
    /\ pc = "unstop" =>
        mod[m] = IF m <= at THEN "started" ELSE IF m <= k THEN "stopped" ELSE "inited"
    /\ pc = "down" => mod[m] = IF m <= at THEN "stopped" ELSE "down"
    /\ pc = "undown" =>
        mod[m] = IF m <= at THEN "stopped" ELSE IF m <= k THEN "down" ELSE "inited"
\* What run() leaves behind: k modules that got as far as any did, and the rest.
Left(k) ==
    \/ \A m \in Modules : mod[m] = IF m <= k THEN "inited" ELSE "new"
    \/ \A m \in Modules : mod[m] = IF m <= k THEN "down" ELSE "inited"

UnwindInv ==
    /\ LifeTypes
    /\ exit = "returned" <=> pc = "done"
    /\ drain <=> pc \notin {"parse", "done"}
    /\ \E k \in 0 .. N :
        /\ pc \in {"unstop", "undown"} => at <= k
        /\ \A m \in Modules : ModuleAt(m, k)
        /\ pc = "done" => Left(k)
=============================================================================
