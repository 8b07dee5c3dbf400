SPECIFICATION AllSpec
CONSTANTS
    One = 84
    NaN = NaN
    Infinity = Infinity
    Catalog <- MCCatalog
    Hour = 2
    HourlyThreshold = 2
    Lookback = 1
    MaxRangePoints = 4
    Panels <- MCPanels
    Spans <- MCSpans
    NewPoints <- MCPoints
    MaxTime = 3
    MaxNow = 3
    MaxPoints = 3
    Sources = {"bms", "temperature", "irradiance", "toshiba_ac", "process_memory"}
    Interval <- MCInterval
    Floor = 2
    MaxKeys = 3
    ChanCap = 2
    RingCap = 2
    MaxTransient = 1
    Devices = {"bms", "tasmota"}
    Subjects = {"solar", "system", "heatpump"}
    EventloopCap = 2
    MaxTicks = 3
    VenusSources = {"grid", "switch", "pvinverter"}
    MaxLacking = 2
    DayLength = 2
    StaleAfter = 1
    MaxGap = 2
    Currents <- MCCurrents
    RestartSec = 1
    MaxBatches = 2
    MaxSeconds = 3
    Slots = 1
    Capacity = 2
    ChargeCapacity = 1
    MaxEnds = 1
    MaxOutages = 1
    MaxDay = 1
    MaxEnergy = 1
    Conditions <- MCConditions
    ManualModes = {"TURBO"}
    Cooldown = 2
    Hold = 1
    MaxFaults = 1
    Limits <- MCLimits
    Powers = {3}
    Threshold = 1
    Heartbeat = 1
    EcoAfter = 0
    OffAfter = 3
    Clients = {"a", "b"}
    Factory <- MCFactory
    Settable <- MCSettable
    MaxRequests = 3
    MaxReadings = 3
    MaxMessages = 2
    MaxWrites = 1
    MaxRestarts = 1
    MaxCrashes = 2
INVARIANTS ReadSideTypesOK VectorAlgebra BucketsAgree ShownIsHeld TodayOnly DevicesObey
PROPERTIES HistoryKept SeriesPaced ReadingsInOrder 
CHECK_DEADLOCK FALSE
