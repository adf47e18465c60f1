CONSTANTS
    t1 = t1
    t2 = t2
    t3 = t3
    Threads <- MCThreads
    BufCapacity = 2
    RegCapacity = 2
    DebugCapacity = 2
    MaxRecords = 3
    Nobody = Nobody
SPECIFICATION FairSpec
CHECK_DEADLOCK FALSE
INVARIANTS AcceptedWritten
PROPERTIES WrittenInOrder StopReturns
