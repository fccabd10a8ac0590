CONSTANTS
    Keys <- MCKeys
    Starts <- MCStarts
    Values = {v1, v2}
    None = None
    Absent = Absent
    Writers = {w1}
    Readers = {r1}
    PutsBranchKeys = FALSE
    DropsUnderReads = FALSE
    ListFails = TRUE
    MaxWrites = 5
    MaxReads = 1
SYMMETRY Symmetry
SPECIFICATION Spec
INVARIANTS TrieWellFormed  IterationComplete
PROPERTIES IterationInOrder IsKVMap
