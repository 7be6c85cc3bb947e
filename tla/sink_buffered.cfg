\* Any use of the output stream, over file objects that fill up.
CONSTANTS
    FILE_BUF_SIZE = 2
    Byte = {1, 2}
    Lengths = {0, 1, 2, 3}
    Rooms = {0, 1, 3, 9}
    Seeks = {0, 2}
    MaxPos = 5
SPECIFICATION Spec
INVARIANT KeepsPosition
PROPERTIES FailedIsInert ImplementsByteFile
CHECK_DEADLOCK FALSE
