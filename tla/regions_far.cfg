\* Cells too narrow for the digits of a float.
CONSTANTS
    MantissaBits = 3
    MaxLevels = 15
    CellSize = 4
    Files <- FarFiles
    Minimums = {0, 4, 6, 17}
    Maximums <- SomeMaximums
    RunGap = 1
    CountWord = 4096
    IndexWord = 4
    Regions <- FarRegions
    Beside <- Nothing
    MergeGap = 1
    WITHIN_BLOCK = 2
SPECIFICATION Spec
INVARIANTS QueryIsAFilteredScan
CHECK_DEADLOCK FALSE
