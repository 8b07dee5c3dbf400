SPECIFICATION AllSpec
CONSTANTS
    Bms = {1, 2}
    Rules = {"soc_low"}
    MinDuration <- MCMinDuration
    Cooldown <- MCCooldown
    QueueCap = 1
    SendMax = 1
    Controllable = TRUE
    Retained = TRUE
    Watchdog = 2
    Republish = 2
    Period = 1
    ChanCap = 2
    CmdCap = 1
    MaxWrites = 2
INVARIANTS BridgeTypesOK UnattendedDisconnects
PROPERTIES NoAlarmLeftOpen FollowsSteadyLevel ShownConverges
