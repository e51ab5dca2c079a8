CONSTANTS
    WORD = 4
    NEVENT = 2
    THRESHOLD = 4
    RECORDTHRESH = 6
    Gaps = {2, 8}
    MAX_TICKS = 2
    Defaults <- Parameters
    Durations = {5, 6, 15}
    Ticks = {0, 1}
    SetK = {1, 5}
    SetMax = {1, 5}
    SetEps = {0}
    SetBytes = {8, 16}
    SetBlock = {3, 4}
    USEC = 4
    MAX_ETIME = 4
    NRUNS = 3
    Now = {9, 11}
    RunTimes = {1, 6}
    Delays = {0, 1}
    ClockSteps <- Steps
    Sleeps = {7, 14}
    MAX_CALLS = 2
    MAX_SETS = 1
SPECIFICATION Spec
INVARIANTS
    RateIsLeast
    KeepsSmallest
    ClearStaysInBuffer
    ElapsedIsExact
PROPERTIES
    ResultIsFastest
    MeasurementEnds
CHECK_DEADLOCK FALSE
