SPECIFICATION AllSpec
CONSTANTS
    Messages <- MCMessages
    Slots = 2
    Capacity = 3
    MaxOutages = 1
    Channels = {ch0, ch1}
    MaxChanges = 2
    MaxCrashes = 1
    MaxShelly = 1
    Timely = FALSE
    OutCap = 2
    ReqCap = 3
    Topics = 2
    MaxPublished = 3
    MaxClientOutages = 2
INVARIANTS MqttTypesOK PersistedWhenQuiet
PROPERTIES LoopNeverParked Reconverges KeepsPromise RecoversWithRoom
CHECK_DEADLOCK FALSE
