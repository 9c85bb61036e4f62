SPECIFICATION Spec
CONSTANTS
    u1 = u1
    u2 = u2
    Uids = {u1, u2}
    Hours = {1, 2}
    HourOf <- MCHourOf
    Vals = {1, 2}
    Batches <- MCBatches
    MaxPushes = 2
    ChanCap = 2
    Torn = Torn
    SignalCap = 1
    MaxRefreshes = 0
    MaxErrors = 0
    MaxCrashes = 0
    MaxClears = 0
INVARIANTS
    ShowTypeOK
    CacheSettles
    ColdHotDisjoint
    NoDoubleCount
    ViewSettles
PROPERTY
    ViewCatchesUp
CHECK_DEADLOCK FALSE
