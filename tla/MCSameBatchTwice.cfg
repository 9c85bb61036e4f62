SPECIFICATION FaultsSpec
CONSTANTS
    u1 = u1
    u2 = u2
    u3 = u3
    Uids = {u1, u2, u3}
    Hours = {1, 2}
    HourOf <- MCHourOf
    Vals = {1, 2}
    Batches <- MCFetchedTwice
    MaxPushes = 1
    ChanCap = 4
    Torn = Torn
    MaxErrors = 0
    MaxCrashes = 0
    MaxClears = 0
INVARIANT
    UniqueRecords
CHECK_DEADLOCK FALSE
