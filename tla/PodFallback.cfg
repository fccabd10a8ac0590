CONSTANTS
    Threads = {t1}
    Sessions = {s1}
    Home <- MCHomeOne
    Names = {a, b}
    maxPodId = 3
    MaxPods = 2
    MayCrash = FALSE
    MayMissList = TRUE
    NoPod = NoPod
    Absent = Absent
    Deleted = Deleted
SPECIFICATION Spec
INVARIANTS NoLostPods
