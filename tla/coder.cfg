\* Streams that are encoded and decoded again.
CONSTANTS
    REGISTER_BITS = 8
    BYTE_BITS = 2
    DM_LENGTH_SHIFT = 4
    BM_LENGTH_SHIFT = 4
    MOST_CYCLE = 8
    CYCLE_SHIFT = 0
    SMALL = 2
    TABLE_BITS = 1
    TABLE_RATIO = 1
    RAW_BITS = 3
    RAW_LOW = 2
    AC_BUFFER_SIZE = 2
    Pasts <- AllPasts
    Calls <- AllCalls
    MaxCalls = 4
SPECIFICATION Spec
INVARIANTS DecodesWhatWasEncoded RingIsTheNumber ModelsStayDistributions TableBracketsEveryValue
CHECK_DEADLOCK FALSE
