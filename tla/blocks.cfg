SPECIFICATION UtilSpec
CONSTANTS
    SIZE_MOD = 1024
    FREELIST_COUNT = 6
    PAGE_SIZE = 8
    MAX_HEAP = 112
    mem_start_brk = 8
    Ids = {i1, i2, i3}
    Requests = {0, 5, 13, 30}
SYMMETRY IdSymmetry
INVARIANTS
    TypeOK
    BlocksTileHeap
    FreeListsExact
    FooterTrustedOnlyWhenFree
    AllocatedIsHeld
    TotalIsHeld
    UtilizationAtMostOne
PROPERTIES
    HeldBlocksStay
    KeepsPromise
CHECK_DEADLOCK FALSE
