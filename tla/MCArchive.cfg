SPECIFICATION ArchiveSpec
CONSTANTS
    u1 = u1
    u2 = u2
    u3 = u3
    u4 = u4
    Uids = {u1, u2, u3, u4}
    Hours = {1, 2, 4}
    HourOf <- MCHourOf
    Vals = {1, 2, 3, 4}
    Batches <- MCBatches
    MaxPushes = 3
    ChanCap = 1
    Torn = Torn
    HoursPerDay = 3
    DaysPerWeek = 2
    DaysPerMonth = 2
    Uuids = {"id"}
    Titles <- MCTitles
    RecentLimit = 2
    LogOf <- MCLogOf
    DailyAge = 2
    MonthlyAge = 3
    MaxNow = 8
    MaxArchCrashes = 1
INVARIANTS
    ArchiveTypeOK
    StoredAsRegistered
    NothingLost
    ReadOnce
    BuildExact
    ViewExact
    RangeFindsAll
    MonthDigestExact
CHECK_DEADLOCK FALSE
