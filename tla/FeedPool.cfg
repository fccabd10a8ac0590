CONSTANTS
    Topics = {t1, t2, t3}
    Values = {v1, v2}
    Absent = Absent
    NoItem = NoItem
    Clients = {c1}
    PoolSize = 2
    MayExpire = FALSE
    MoveCaller = FALSE
    MaxFaults = 0
SPECIFICATION Spec
INVARIANT NoLostWrite
PROPERTY BehavesAsRegister
