\* Every container, with file objects that fill up or cannot be gone back in, and
\* memory that runs out where the writer notices before it is too late.
CONSTANTS
    Layouts <- AllLayouts
    Preface <- HeaderOnly
    U32_MAX = 31
    ALLOC = 1
    FILE_BUF_SIZE = 3
    Rooms = {0, 1, 3, 4, 6, 7, 9, 10, 12, 22}
    Seeks = {0, 1, 9}
    Ooms = {"layer", "ic"}
    MaxPoints = 5
SPECIFICATION Spec
INVARIANTS TypeOK FinishedFilesReadBack InterruptedFilesSaySo
PROPERTIES OnlyThePlaceholderIsPatched ReportsFailures
CHECK_DEADLOCK FALSE
