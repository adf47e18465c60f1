CONSTANTS
    N = 3
    MaxSignals = 2
SPECIFICATION AppFairSpec
CHECK_DEADLOCK FALSE
INVARIANTS ModulesUnwind
PROPERTIES SignalEndsRun EarlyCrashEnds
