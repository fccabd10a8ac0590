CONSTANTS
    DirNames = {a, b}
    FileNames = {f}
    BackupTimes = {t1}
    Blobs = {x, y}
    MaxDepth = 2
    NoDir = NoDir
    Absent = Absent
    Deleted = Deleted
    NotCached = NotCached
    CarefulCallers = TRUE
    SameSecond = FALSE
    DirsMove = TRUE
    MaxFiles = 2
    MaxDirs = 3
SPECIFICATION Spec
SYMMETRY Symmetries
CONSTRAINT Bounds
INVARIANTS EntriesResolve NoOrphans BlobsLive FileMapFresh
PROPERTY FailedCallsChangeNothing
