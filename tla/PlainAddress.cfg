\* TLS material beside an address without TLS.
CONSTANTS
    KeyCount = 2
    Values = {"a", "b", "bad"}
    Bad = "bad"
    Initial <- InitialContents
    MaxWrites = 2
    MaxFaults = 2
    MOST_TOKEN_RECOVERIES = 1
    Callers = {c1, c2}
    MaxCalls = 1
    MaxTurns = 2
    Texts <- SmallTexts
    MostTexts = 3
    MaxWritesToDisk = 1
    compact_after = 1
    max_bytes = 3
    Trees <- SmallTrees
    MaxCommits = 3
    MaxMishaps = 1
SPECIFICATION MCSpec
CHECK_DEADLOCK FALSE
INVARIANTS MaterialIsNeverIgnored
