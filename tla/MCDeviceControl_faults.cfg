SPECIFICATION AllSpec
CONSTANTS
    Chargers = {mppt273, mppt289}
    Freqs <- MCFreqs
    Nominal = 500
    FreqHigh = 510
    FreqHard = 513
    MpptCut = TRUE
    CutDelay = 1
    ReenableDelay = 3
    MaxAge = 2
    MaxLag = 1
    Modes = {"Cool"}
    Targets = {8, 20}
    Specials = {"Standard", "EightDeg"}
    Unknown = Unknown
    HelloFrames = 1
    AfterFrames = 1
    InitQueries <- MCInitQueries
    HandshakeDelay = 2
    ReceiveTimeout = 2
    Watchdog = 8
    MaxPayloads = 1
    MaxFields = 1
    MaxRemote = 1
    MaxFaults = 1
INVARIANTS ControlTypesOK CutInTime RestoreInTime
PROPERTIES MinOffTime SilenceRestores ShowsTheUnit
