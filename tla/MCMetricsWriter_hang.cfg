\* A full queue outlives every attempt to enqueue the sentinel.
SPECIFICATION FairSpec
CONSTANTS
    ab = ab  ba = ba  other = other  sAB = sAB  sOther = sOther  f1 = f1  f2 = f2
    Identity <- MCReordered
    Series <- MCSeries
    SeriesOf <- MCReorderedSeries
    Print64 <- MCPrints
    PrintOf <- MCReorderedPrint
    CacheCapacity = 1
    QueueDepth = 2
    BatchMax = 2
    SendTries = 2
    MaxId = 9
    Callers = {t1}
    StorageFaults = {}
    MaxSamples = 3
    MaxCrashes = 0
PROPERTIES
    ShutdownReturns
CHECK_DEADLOCK FALSE
