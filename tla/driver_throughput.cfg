CONSTANTS
    MAX_TRACES = 2
    RUNS = 2
    OpCounts = {4}
    Utils = {50, 100}
    Secs = {3}
    TPUT = 1
    team <- NoSecondId
    Dirs = {"other/"}
    MAX_ARGS = 2
SPECIFICATION CmdSpec
INVARIANT ThroughputAssertHolds
CHECK_DEADLOCK FALSE
