SPECIFICATION FaultsSpec
CONSTANTS
    u1 = u1
    u2 = u2
    u3 = u3
    Uids = {u1, u2, u3}
    Hours = {1, 2}
    HourOf <- MCHourOf
    Vals = {1, 2}
    Batches <- MCFaultBatches
    MaxPushes = 3
    ChanCap = 2
    Torn = Torn
    MaxErrors = 1
    MaxCrashes = 1
    MaxClears = 1
INVARIANTS
    FaultsTypeOK
    UniqueDespiteErrors
    StoredIsRegistered
    KnownIsIndexedOnDisk
PROPERTY
    OfficialStaysRegistered
CHECK_DEADLOCK FALSE
