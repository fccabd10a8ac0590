CONSTANTS
    Threads = {t1}
    Sessions = {s1}
    Home <- MCHomeOne
    Names = {a, b, c}
    maxPodId = 4
    MaxPods = 4
    MayCrash = FALSE
    MayMissList = FALSE
    NoPod = NoPod
    Absent = Absent
    Deleted = Deleted
SPECIFICATION Spec
INVARIANTS PodsHaveRoots OpenPodsAreListed NoLostPods
PROPERTY DeletesOwnRootOnly
