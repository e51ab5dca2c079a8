------------------------------- MODULE MMSizes -------------------------------
(***************************************************************************)
(* The size arithmetic of mm.c and the break arithmetic of memlib.c.       *)
(*                                                                         *)
(* Sizes are size_t values: SIZE_MOD is 2^32 in the 32-bit build, and      *)
(* every sum and product the code computes on a size wraps at SIZE_MOD.    *)
(* A heap address is a byte offset from mem_start_brk; only mem_sbrk looks *)
(* at absolute addresses.                                                  *)
(***************************************************************************)
EXTENDS Integers, FiniteSetsExt

CONSTANTS
    SIZE_MOD,       \* number of size_t values (2^32 in the build)
    FREELIST_COUNT, \* number of free lists (17)
    PAGE_SIZE,      \* mem_pagesize() (4096)
    MAX_HEAP,       \* size of memlib's arena in bytes (20 MB)
    mem_start_brk   \* address of the arena

\* What the build gives: a size_t that is a power of two of at least 4 bits,
\* an arena that malloc aligned to 8 bytes and that ends below the last address.
ASSUME SizesAssumption ==
    /\ SIZE_MOD \in Nat /\ SIZE_MOD % 16 = 0 /\ SIZE_MOD > 0
    /\ FREELIST_COUNT \in Nat \ {0}
    /\ PAGE_SIZE \in Nat \ {0}
    /\ MAX_HEAP \in Nat
    /\ mem_start_brk \in Nat /\ mem_start_brk % 8 = 0
    /\ mem_start_brk + MAX_HEAP < SIZE_MOD

WSIZE == 4
DSIZE == 8
MIN_SIZE == 16

\* Rounds a size up to a multiple of 8.
ALIGN(size) ==
    LET up == (size + 7) % SIZE_MOD
    IN  up - (up % 8)

\* At least three words, and an odd number of them.
ADJUST_WORDCOUNT(words) ==
    IF words < 3 THEN 3 ELSE words + 1 - (words % 2)

\* The faulty variant that forgets the word of the header.
ADJUST_BYTESIZE_NoHeader(size) ==
    ALIGN(IF size < MIN_SIZE THEN MIN_SIZE ELSE size)

\* The block size for a payload of "size" bytes, its header included.
ADJUST_BYTESIZE(size) ==
    LET words == ((size + WSIZE - 1) % SIZE_MOD) \div WSIZE
    IN  ALIGN((ADJUST_WORDCOUNT(words) * WSIZE) % SIZE_MOD)

\* The sizes a block can have, and the least one that holds a payload of "size"
\* bytes and its header.
BlockSizes == {m \in 0 .. SIZE_MOD - 1 : m % DSIZE = 0 /\ m >= MIN_SIZE}
LeastBlockSize(size) == Min({m \in BlockSizes : m >= size + WSIZE})

\* The largest size whose adjusted size is still a size_t.
LARGEST == SIZE_MOD - DSIZE - WSIZE

ADJUSTED_PAGESIZE == ADJUST_BYTESIZE((PAGE_SIZE * 2) % SIZE_MOD)

\* A faulty variant whose loop runs one bit too far.
calc_list_index_Late(size) ==
    Min({bits \in 0 .. FREELIST_COUNT - 1 :
            size \div 2^bits <= 0 \/ bits + 1 >= FREELIST_COUNT})

\* The free list of a size: the value of "bits" on which the loop stops.
calc_list_index(size) ==
    Min({bits \in 0 .. FREELIST_COUNT - 1 :
            size \div 2^bits <= 1 \/ bits + 1 >= FREELIST_COUNT})

\* A faulty variant that checks the sign of the increment only.
SbrkFails_NoLimit(mem_brk, incr) == incr >= SIZE_MOD \div 2

\* mem_sbrk takes its increment as an int: from SIZE_MOD / 2 on it is negative.
SbrkFails(mem_brk, incr) ==
    \/ incr >= SIZE_MOD \div 2
    \/ (mem_start_brk + mem_brk + incr) % SIZE_MOD > mem_start_brk + MAX_HEAP
=============================================================================
