CONSTANTS
    Slots <- MCSlots
    MaxSegments = 2
    Books = {0, 1}
    Strangers = {3}
    kNumBookWorkers = 2
    QueueCapacity = 1
    r = r
    Readers = {r}
    MaxMessages = 2
    MaxRuns = 2
SPECIFICATION FairSpec
CHECK_DEADLOCK FALSE
INVARIANTS ReadIsOneSnapshot BooksFollowFeed NameLeadsToWriter
PROPERTIES ReadReturns
