\* Every storage call may fail, one crash, two callers of shutdown().
SPECIFICATION FairSpec
CONSTANTS
    ab = ab  ba = ba  other = other  sAB = sAB  sOther = sOther  f1 = f1  f2 = f2
    Identity <- MCColliding
    Series <- MCSeries
    SeriesOf <- MCCollidingSeries
    Print64 <- MCPrints
    PrintOf <- MCCollidingPrint
    CacheCapacity = 1
    QueueDepth = 2
    BatchMax = 2
    SendTries = 1
    MaxId = 9
    Callers = {t1, t2}
    StorageFaults = {"load", "begin", "apply", "commit"}
    MaxSamples = 3
    MaxCrashes = 1
INVARIANTS
    TypeOK
    IdentityUnlessEarly
    EachSampleInOnePlace
    CommittedInOrder
    ShutdownMeansStopped
PROPERTIES
    StoreSpec
    AcceptedSamplesSettle
    QueuedSentinelEndsShutdown
CHECK_DEADLOCK FALSE
