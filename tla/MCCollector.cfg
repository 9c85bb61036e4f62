SPECIFICATION Spec
CONSTANTS
    s1 = s1
    Sessions = {s1}
    Consumers = {"framework"}
    Unindexed <- MCUnindexed
    Line <- MCLine
    PromptBase = 5
    MaxMtime = 2
    MaxWaiting = 0
    MaxFaults = 1
    Kinds = {"cli", "ide", "claude", "codex"}
    ClaudeScript <- MCClaudeScript
    CodexScript <- MCCodexScript
    Never = Never
    MaxNow = 3
    ChanCap = 1
INVARIANTS
    CollectorTypeOK
    FetchedIsKept
    MarkedIsFetched
    DeliveredOnce
    EstimateStable
    CodexExact
    ReadOrSlipped
PROPERTY
    Arrives
CHECK_DEADLOCK FALSE
