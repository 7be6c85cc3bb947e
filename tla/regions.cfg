\* Indexes built over small files, and queries by them.
CONSTANTS
    MantissaBits = 24
    MaxLevels = 15
    CellSize = 4
    Files <- AllFiles
    Minimums = {0, 4, 6, 17}
    Maximums <- SomeMaximums
    RunGap = 1
    CountWord = 4096
    IndexWord = 4
    Regions <- AllRegions
    Beside <- Given
    MergeGap = 1
    WITHIN_BLOCK = 2
SPECIFICATION Spec
INVARIANTS PointsAreCovered CellsHoldTheirPoints CoarseningIsDone SmallestGapsGo QueryIsAFilteredScan SpansStayInTheFile
CHECK_DEADLOCK FALSE
