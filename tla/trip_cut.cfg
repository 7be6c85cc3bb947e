\* Seeks in files whose writers stopped in the middle of the table, and a pipe whose
\* writer was interrupted.  Run with -continue: both are violated.
CONSTANTS
    Layouts <- CutLayouts
    Preface <- Header
    U32_MAX = 31
    ALLOC = 1
    FILE_BUF_SIZE = 3
    Rooms = {2, 3, 5, 7, 9, 10, 11, 12, 60}
    Seeks = {0, 9}
    MaxPoints = 5
    GROWTH = 1
    Gaps = {1}
    MaxIndex = 6
    MaxCount = 8
    MaxChunks = 4
    Remains <- Garbled
    Sought <- Everywhere
SPECIFICATION Spec
INVARIANT HandsOutWhatWasWritten
PROPERTY PipesReadOn
CHECK_DEADLOCK FALSE
