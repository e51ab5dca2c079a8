CONSTANTS
    SIZE_MOD = 1024
    FREELIST_COUNT = 6
    PAGE_SIZE = 4
    MAX_HEAP = 80
    mem_start_brk = 8
    Ids = {1, 2, 3}
    Requests = {0, 12, 16}
    JUNK = 3
    EPILOGUE = 2048
    MAX_BLOCK_ALLOCSIZE = 40
SPECIFICATION Spec
INVARIANTS
    HeapCheckStopsOnlyAtMerges
    LinksMirror
    FreeFootersAgree
    PayloadsIntact
    ReallocKeepsData
PROPERTIES
    ImplementsBlocks
