CONSTANTS
    r1 = r1
    w1 = w1
    w2 = w2
    Readers <- MCReaders
    Words <- MCWords
    MaxWrites = 3
SPECIFICATION SeqLockSpec
INVARIANTS ReturnsOneWrite
PROPERTIES MissedOnlyByOverlap
