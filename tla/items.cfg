\* The item coders of every version, each with its other side.
CONSTANTS
    INT_BITS = 14
    SHORT_BITS = 10
    BYTE_BITS = 8
    BITS_HIGH = 8
    TOP_18 = 8
    TOP_19 = 9
    TOP_20 = 10
    Plenty = 99
    MULTIMAX = 512
    MULTI = 500
    MULTI_MINUS = 10
    NUMBER = 2
    Kinds <- AllKinds
    Items <- ItemsOf
    Most <- MostOf
    Memories <- Scarce
    Selections <- SelectionsOf
SPECIFICATION Spec
INVARIANTS HandsBackWhatWasPut LegacyCopiesAgree PredictorsAgree SymbolsFitTheirModels
CHECK_DEADLOCK FALSE
