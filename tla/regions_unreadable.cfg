\* Indexes that cannot be read.
CONSTANTS
    MantissaBits = 24
    MaxLevels = 15
    CellSize = 4
    Files <- FewFiles
    Minimums = {0, 4, 6, 17}
    Maximums <- SomeMaximums
    RunGap = 1
    CountWord = 4096
    IndexWord = 4
    Regions <- AllRegions
    Beside <- Given
    MergeGap = 1
    WITHIN_BLOCK = 2
SPECIFICATION Spec
INVARIANTS UnreadableIsNotIgnored
CHECK_DEADLOCK FALSE
