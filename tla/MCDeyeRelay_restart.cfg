SPECIFICATION Spec
CONSTANTS
    Messages <- MCMessages
    Slots = 3
    Capacity = 4
    MaxOutages = 0
    Channels = {ch0, ch1}
    MaxChanges = 2
    MaxCrashes = 1
    MaxShelly = 1
    Timely = TRUE
PROPERTY RestartDoesNotToggle
