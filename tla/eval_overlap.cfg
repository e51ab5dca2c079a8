CONSTANTS
    Ids = {1, 2}
    Sizes = {0, 1, 8, 17}
    Answers = {0, 8, 12, 16, 24, 32}
    Bytes = {1, 2}
    HEAP_LO = 8
    HEAP_HI = 31
    MAX_TRACES = 2
SPECIFICATION EvalSpec
INVARIANT OverlapRejected
CHECK_DEADLOCK FALSE
