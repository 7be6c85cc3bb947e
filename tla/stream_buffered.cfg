\* A file of five bytes, read, sought in and measured, between reads of an
\* extended record's payload.
CONSTANTS
    Content <- FiveBytes
    FILE_BUF_SIZE = 2
    Mosts = {1, 2}
    Calls = {0, 1, 2, 3, 4, 5, 12}
    Gets = {1, 3}
    Seeks = {0, 1, 2, 4, 6}
    Ends = {0, 2, 6}
    Payload = 3
SPECIFICATION Spec
INVARIANT BufferIsTheFile
PROPERTY ImplementsByteSource
CHECK_DEADLOCK FALSE
