CONSTANTS
    SIZE_MOD = 1024
    FREELIST_COUNT = 6
    PAGE_SIZE = 4
    MAX_HEAP = 96
    mem_start_brk = 8
    Ids = {1, 2, 3, 4, 5}
    Requests = {8}
    JUNK = 3
    EPILOGUE = 2048
    MAX_BLOCK_ALLOCSIZE = 40
SPECIFICATION Spec
INVARIANTS
    LinksMirror
PROPERTIES
    ImplementsBlocks
