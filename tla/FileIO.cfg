CONSTANTS
    MaxBlocks = 3
    noOfParallelWorkers = 2
    StoreFails = TRUE
    SourceFails = TRUE
    Missing = Missing
    BlockSize = 3
    UpdateSizes = {0, 1, 4}
    BufferSizes = {1, 2, 4, 7}
    MaxWrites = 2
    PartialTails = FALSE
    SeekLater = FALSE
    NoFile = NoFile
    NoHandle = NoHandle
SPECIFICATION Spec
INVARIANTS QuietWhenDone BlocksInOrder
PROPERTIES UploadReturns IsByteFile
CHECK_DEADLOCK FALSE
