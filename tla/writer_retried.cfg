\* Memory runs out at the head of a chunk, and the caller goes on.
CONSTANTS
    Layouts <- FixedLayouts
    Preface <- HeaderOnly
    U32_MAX = 31
    ALLOC = 1
    FILE_BUF_SIZE = 3
    Rooms = {60}
    Seeks = {9}
    Ooms = {"start"}
    MaxPoints = 5
SPECIFICATION Spec
INVARIANT FinishedFilesReadBack
CHECK_DEADLOCK FALSE
