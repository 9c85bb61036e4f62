SPECIFICATION Spec
CONSTANTS
    s1 = s1
    Sessions = {s1}
    Consumers = {"framework"}
    Unindexed <- MCUnindexed
    Line <- MCLine
    PromptBase = 5
    MaxMtime = 2
    MaxWaiting = 0
    MaxFaults = 1
    Kinds = {"ide"}
    ClaudeScript <- MCClaudeScript
    CodexScript <- MCCodexScript
    Never = Never
    MaxNow = 3
    ChanCap = 1
INVARIANT
    NextRoundFetchesAll
CHECK_DEADLOCK FALSE
