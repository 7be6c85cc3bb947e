\* Files closed, stopped half way through closing, dropped and appended to.
CONSTANTS
    Layouts <- AllLayouts
    U32_MAX = 31
    ALLOC = 1
    FILE_BUF_SIZE = 2
    Rooms = {1, 3, 5, 6, 8, 9, 11, 40}
    Seeks = {0, 1, 3, 4, 5, 9}
    Ooms = {"ic"}
    MaxPoints = 3
    Keys = {"a", "b"}
    MaxRecords = 2
    MaxIndexes = 2
SPECIFICATION Spec
INVARIANTS ClosedFilesAreWhole HeadersKeepTheirWord MistakesCostNothing HandleIsPutBack IndexIsWhereItIsSaid
CHECK_DEADLOCK FALSE
