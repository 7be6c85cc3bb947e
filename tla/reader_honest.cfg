\* Files whose tables state no boundary the points do not have, whole and cut short.
CONSTANTS
    Files <- HonestFiles
    U32_MAX = 31
    GROWTH = 2
    Targets = {0, 1, 3, 4, 5}
    Counts = {3}
    Gaps = {0, 1}
    MaxIndex = 7
    MaxCount = 8
    MaxChunks = 4
SPECIFICATION FairSpec
INVARIANTS TypeOK StartsAreBoundaries StaysInStep ArraysInBounds
PROPERTIES PointsAreReachable SeeksArrive ImplementsPointSource
CHECK_DEADLOCK FALSE
