SPECIFICATION MCSpec
CONSTANTS
    MonitorW = 6
    MonitorH = 5
    Handle = 1
    Badge = 2
    ExpandedW = 3
    ExpandedH = 4
    SnapDistance = 2
    InitialPos <- MCInitialPos
    Reach <- MCReach
    HoursPerDay = 2
    DaysPerWeek = 2
    DaysPerMonth = 4
    Uuids = {"u1", "u2"}
    Titles <- MCTitles
    RecentLimit = 50
    Feeds <- MCFeeds
    Now = 7
    PageSize = 2
    CmdCap = 1
    MaxWarnings = 2
    MaxMessages = 2
INVARIANT
    EstimatesMarked
