CONSTANTS
    MAX_TRACES = 2
    RUNS = 2
    OpCounts = {0, 4}
    Utils = {50, 100}
    Secs = {0, 3}
    TPUT = 1
    team <- NoSecondId
    Dirs = {"other/"}
    MAX_ARGS = 4
SPECIFICATION CmdSpec
INVARIANTS
    IndexOnlyWhenAllValid
    ArenasBounded
    IndexInRange
    TotalsAgree
    FileOptionWins
PROPERTY MainEnds
CHECK_DEADLOCK FALSE
