CONSTANTS
    SIZE_MOD = 1024
    FREELIST_COUNT = 6
    PAGE_SIZE = 4
    MAX_HEAP = 88
    mem_start_brk = 8
    Ids = {0, 1}
    Requests = {0, 5, 30}
    FileIndices = {0, 1}
    FileSizes = {5, 30}
    MAX_LINES = 3
    MAX_TRACES = 2
    RUNS = 2
    Secs = {1}
SPECIFICATION ReplaySpec
INVARIANTS
    PassesRepeat
    ValidNeverFails
    BlocksAccepted
    ReplayReadsWritten
    HighWaterIsPeak
PROPERTIES
    ImplementsDriver
    WorkShrinks
