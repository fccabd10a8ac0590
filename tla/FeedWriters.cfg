CONSTANTS
    HighestLevel = 3
    WorstLevel = 6
    WordBits = 5
    Sessions = {s1, s2}
    StartTime = 4
    MaxTime = 10
    MaxVersion = 4
    maxUpdateRetry = 3
    MaxSkew = 0
    Lossy = {FALSE, TRUE}
    LossyStart = 7
SPECIFICATION Spec
INVARIANTS
    NoHoles
    LookupFindsLatest
    AlgorithmsAgree
CHECK_DEADLOCK FALSE
PROPERTY WritesArePlaced
