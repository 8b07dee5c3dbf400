\* Errors and crashes at every step of every pass.
SPECIFICATION Spec
CONSTANTS
    s1 = s1  s2 = s2
    Hour = 2
    Day = 4
    ValueOf <- MCValueOf
    Sid <- MCOneSeries
    RawRetention = 1
    HourRetention = 3
    HourlyThreshold = 1
    DailyThreshold = 4
    PurgeChunk = 1
    Faults = {"error", "crash"}
    MaxLate = 0
    MaxTime = 6
    MaxPoints = 3
    MaxPasses = 3
INVARIANT CountsOnce
CHECK_DEADLOCK FALSE
