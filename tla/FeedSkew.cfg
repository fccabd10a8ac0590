CONSTANTS
    HighestLevel = 3
    WorstLevel = 6
    WordBits = 5
    Sessions = {s1}
    StartTime = 4
    MaxTime = 7
    MaxVersion = 4
    maxUpdateRetry = 3
    MaxSkew = 1
    Lossy = {FALSE}
    LossyStart = 4
SPECIFICATION Spec
INVARIANTS
    LookupFindsLatest
CHECK_DEADLOCK FALSE
