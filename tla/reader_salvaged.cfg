\* Whole points behind a table with one bad delta, read in order.
CONSTANTS
    Files <- SalvagedFiles
    U32_MAX = 31
    GROWTH = 2
    Targets = {}
    Counts = {}
    Gaps = {1}
    MaxIndex = 6
    MaxCount = 8
    MaxChunks = 4
SPECIFICATION Spec
INVARIANT WarnedFilesReadWhole
CHECK_DEADLOCK FALSE
