SPECIFICATION Spec
CONSTANTS
    u1 = u1
    u2 = u2
    Uids = {u1}
    Hours = {1}
    HourOf <- MCOneHour
    Vals = {1}
    Batches <- MCRepeats
    MaxPushes = 2
    ChanCap = 1
    Torn = Torn
    SignalCap = 1
    MaxRefreshes = 1
    MaxErrors = 1
    MaxCrashes = 0
    MaxClears = 1
INVARIANT
    NothingMissing
CONSTRAINT
    OneCommand
CHECK_DEADLOCK FALSE
