\* Points of LAS 1.4 as a caller builds them by hand.
CONSTANTS
    INT_BITS = 14
    SHORT_BITS = 10
    BYTE_BITS = 8
    BITS_HIGH = 8
    TOP_18 = 8
    TOP_19 = 9
    TOP_20 = 10
    Plenty = 99
    MULTIMAX = 512
    MULTI = 500
    MULTI_MINUS = 10
    NUMBER = 2
    Kinds = {"6v3"}
    Items <- HandMade
    Most <- MostOf
    Memories <- Scarce
    Selections <- SelectionsOf
SPECIFICATION Spec
INVARIANT HandsBackWhatWasPut
CHECK_DEADLOCK FALSE
