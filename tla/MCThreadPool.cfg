CONSTANTS
    main = main
    feed = feed
    Submitters <- MCSubmitters
    Owner = main
    Kinds = {"any", "group"}
    Keys = {1}
    QueueCapacity = 2
    MaxWorkers = 2
    MaxTasks <- MCMaxTasks
    MaxStarts = 2
    Nobody = Nobody
    NoTask = NoTask
CHECK_DEADLOCK FALSE
SPECIFICATION PoolFairSpec
INVARIANTS KeyOrder AllHandledAtStop
PROPERTIES StopReturns QueuedHandled
