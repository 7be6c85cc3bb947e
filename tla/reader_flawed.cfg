\* What the reader does not keep to: layered files cut short, in front of the
\* first point, which nobody is told, and in the second chunk, where a seek fails
\* half way; adaptive files with bytes behind the last chunk, read past it, one
\* with a corrupt table, read again after the error; an adaptive file of an
\* interrupted writer, read again after the error, which takes its first point for
\* the position of a table.  Run with -continue, or a property at a time: all four
\* are violated.
CONSTANTS
    Files <- FlawedFiles
    U32_MAX = 31
    GROWTH = 2
    Targets = {0, 1, 3, 4}
    Counts = {}
    Gaps = {1}
    MaxIndex = 6
    MaxCount = 8
    MaxChunks = 4
SPECIFICATION Spec
INVARIANTS HandsOutItsIndex AdaptivePointsAreTabled AdaptivePointsNeedTheTable
PROPERTY FailedSeeksKeepStep
CHECK_DEADLOCK FALSE
