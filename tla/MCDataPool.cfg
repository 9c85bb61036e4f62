SPECIFICATION FaultsSpec
CONSTANTS
    u1 = u1
    u2 = u2
    u3 = u3
    Uids = {u1, u2, u3}
    Hours = {1, 2}
    HourOf <- MCHourOf
    Vals = {1, 2}
    Batches <- MCBatches
    MaxPushes = 3
    ChanCap = 4
    Torn = Torn
    MaxErrors = 0
    MaxCrashes = 0
    MaxClears = 0
INVARIANTS
    TypeOK
    UniqueRecords
    RegistryMatchesStore
    IndexMatchesStore
PROPERTY
    ImplementsRules
CHECK_DEADLOCK FALSE
