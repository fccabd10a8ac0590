CONSTANTS
    Threads = {t1, t2}
    Sessions = {s1}
    Home <- MCHomeOne
    Names = {a, b}
    maxPodId = 3
    MaxPods = 2
    MayCrash = TRUE
    MayMissList = TRUE
    NoPod = NoPod
    Absent = Absent
    Deleted = Deleted
SPECIFICATION Spec
INVARIANTS ListWellFormed
