SPECIFICATION FairSpec
CONSTANTS
    Chargers = {mppt273, mppt289}
    Freqs <- MCFreqs
    Nominal = 500
    FreqHigh = 510
    FreqHard = 513
    MpptCut = TRUE
    CutDelay = 1
    ReenableDelay = 3
    MaxAge = 2
    MaxLag = 1
PROPERTY FrozenTelemetryNeverStrands
