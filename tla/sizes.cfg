CONSTANTS
    SIZE_MOD = 1024
    FREELIST_COUNT = 6
    PAGE_SIZE = 8
    MAX_HEAP = 136
    mem_start_brk = 8
SPECIFICATION Spec
INVARIANTS
    AdjustedSizeIsLeast
    ListClassIsLog
CHECK_DEADLOCK FALSE
