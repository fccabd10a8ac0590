CONSTANTS
    Topics = {t1, t2}
    Values = {v1, v2}
    Absent = Absent
    NoItem = NoItem
    Clients = {c1, c2}
    PoolSize = 1
    MayExpire = TRUE
    MoveCaller = TRUE
    MaxFaults = 1
SPECIFICATION Spec
PROPERTY FlushesNewest
