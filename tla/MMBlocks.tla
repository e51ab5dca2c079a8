------------------------------- MODULE MMBlocks -------------------------------
(***************************************************************************)
(* The allocator of mm.c on the level of blocks and free lists.            *)
(*                                                                         *)
(* A block is named by its payload address, as in the code.  The heap is   *)
(* what the header words and the list heads say:                           *)
(*   size   the size field of every block's header (its domain is the set  *)
(*          of blocks),                                                    *)
(*   alloc  the blocks whose header has THISALLOC,                         *)
(*   prev   the addresses whose header has PREVALLOC; brk, the "payload"   *)
(*          address of the epilogue header, is one of the candidates,      *)
(*   lists  the free lists, each the sequence of its nodes,                *)
(*   brk    mem_brk, which is heap_end + 1.                                *)
(* Every function of mm.c is an operator from heap to heap.  MMWords is    *)
(* the same code on the words of memory.                                   *)
(***************************************************************************)
EXTENDS MMSizes, Sequences, Functions

CONSTANTS
    Ids,      \* the trace indices: the blocks a caller may hold at once
    Requests  \* the sizes a caller asks for

VARIABLES
    heap,         \* the allocator's state
    blocks,       \* trace->blocks: the pointer held per index, NULL if none
    block_sizes   \* trace->block_sizes: the size asked for

vars == <<heap, blocks, block_sizes>>

NULL == 0
\* The payload address of the first block, after padding, prologue and header.
FIRST == 4 * WSIZE

\* No request, and not the page size, carries an arena address past SIZE_MOD.
ASSUME RequestsAssumption ==
    /\ Requests \subseteq Nat
    /\ \A n \in Requests \cup {2 * PAGE_SIZE} :
          mem_start_brk + MAX_HEAP + n + 16 <= SIZE_MOD

\* mm_init compares mem_sbrk's answer with NULL and so misses its failure, -1:
\* the first increment fits into the arena and is positive as an int.
ASSUME InitialHeapFits ==
    /\ FIRST + ADJUSTED_PAGESIZE <= MAX_HEAP
    /\ FIRST + ADJUSTED_PAGESIZE < SIZE_MOD \div 2

ListIndices == 0 .. FREELIST_COUNT - 1

Heap(size, alloc, prev, lists, brk) ==
    [size |-> size, alloc |-> alloc, prev |-> prev, lists |-> lists, brk |-> brk]

\* Writes a header of size n at bp; the headers in "gone" are no longer blocks.
PutSize(size, gone, bp, n) ==
    [b \in (DOMAIN size \ gone) \cup {bp} |-> IF b = bp THEN n ELSE size[b]]

IsFree(h, bp) == bp \in DOMAIN h.size /\ bp \notin h.alloc

(***************************************************************************)
(* Free lists                                                              *)
(***************************************************************************)
\* The list without the node bp.
Unlinked(list, bp) ==
    LET at == {k \in 1 .. Len(list) : list[k] = bp}
    IN  IF at = {} THEN list
        ELSE SubSeq(list, 1, Min(at) - 1) \o SubSeq(list, Min(at) + 1, Len(list))

remove_from_list(h, bp, i) ==
    Heap(h.size, h.alloc, h.prev, [h.lists EXCEPT ![i] = Unlinked(@, bp)], h.brk)

add_to_list(h, bp, i) ==
    Heap(h.size, h.alloc, h.prev, [h.lists EXCEPT ![i] = Append(@, bp)], h.brk)

\* The lists, from the one of block_size up, whose head is large enough.
FittingLists(h, block_size) ==
    {i \in calc_list_index(block_size) .. FREELIST_COUNT - 1 :
        h.lists[i] # <<>> /\ h.size[Head(h.lists[i])] >= block_size}

\* Only the head of a list is looked at.
find_fit(h, block_size) ==
    LET fits == FittingLists(h, block_size)
    IN  IF fits = {} THEN [bp |-> NULL, index |-> -1]
        ELSE [bp |-> Head(h.lists[Min(fits)]), index |-> Min(fits)]

(***************************************************************************)
(* Coalescing.  AbsorbNext and AbsorbPrev are cases 2 and 3 of coalesce;   *)
(* case 4 is one after the other.                                          *)
(***************************************************************************)
\* A faulty variant that does not add up the sizes.
Merged_KeepSize(h, a, b) ==
    Heap(PutSize(h.size, {b}, a, h.size[a]), h.alloc, h.prev \ {b}, h.lists, h.brk)

\* Blocks a and b, side by side, as one block at a.
Merged(h, a, b) ==
    Heap(PutSize(h.size, {b}, a, h.size[a] + h.size[b]),
         h.alloc, h.prev \ {b}, h.lists, h.brk)

\* A faulty variant that leaves the absorbed block on its free list.
AbsorbNext_KeepLink(h, bp) == Merged(h, bp, bp + h.size[bp])

AbsorbNext(h, bp) ==
    LET next == bp + h.size[bp]
    IN  Merged(remove_from_list(h, next, calc_list_index(h.size[next])), bp, next)

\* GET_PREVBLOCK reads the size in the footer before bp's header.
PrevBlock(h, bp) == CHOOSE p \in DOMAIN h.size : p + h.size[p] = bp

AbsorbPrev(h, bp) ==
    LET p == PrevBlock(h, bp)
    IN  Merged(remove_from_list(h, p, calc_list_index(h.size[p])), p, bp)

\* A faulty variant that merges with the block before whatever its state.
coalesce_IgnorePrevAlloc(h, bp) ==
    LET n == IF IsFree(h, bp + h.size[bp]) THEN AbsorbNext(h, bp) ELSE h
        start == IF bp = FIRST THEN bp ELSE PrevBlock(h, bp)
        m == IF bp = FIRST THEN n ELSE AbsorbPrev(n, bp)
    IN  [heap |-> add_to_list(m, start, calc_list_index(m.size[start])),
         bp |-> start]

\* bp is free and on no list; the block it ends up in is put on its list.
coalesce(h, bp) ==
    LET n == IF IsFree(h, bp + h.size[bp]) THEN AbsorbNext(h, bp) ELSE h
        start == IF bp \in h.prev THEN bp ELSE PrevBlock(h, bp)
        m == IF bp \in h.prev THEN n ELSE AbsorbPrev(n, bp)
    IN  [heap |-> add_to_list(m, start, calc_list_index(m.size[start])),
         bp |-> start]

\* The new block's header is the old epilogue, whose PREVALLOC bit it keeps.
extend_heap(h, adjusted_size) ==
    IF SbrkFails(h.brk, adjusted_size)
    THEN [heap |-> h, bp |-> NULL]
    ELSE coalesce(Heap(PutSize(h.size, {}, h.brk, adjusted_size),
                       h.alloc, h.prev, h.lists, h.brk + adjusted_size),
                  h.brk)

(***************************************************************************)
(* Placing and releasing a block                                           *)
(***************************************************************************)
\* allocate's two ways: the block is split, or handed out whole.
Split(h, bp, adjusted_size) ==
    LET rest == bp + adjusted_size
        head == PutSize(h.size, {}, bp, adjusted_size)
    IN  coalesce(Heap(PutSize(head, {}, rest, h.size[bp] - adjusted_size),
                      h.alloc \cup {bp}, h.prev \cup {rest}, h.lists, h.brk),
                 rest).heap

\* A faulty variant that forgets PREVALLOC in the header after the block.
UseWhole_NoPrevAlloc(h, bp) ==
    Heap(h.size, h.alloc \cup {bp}, h.prev, h.lists, h.brk)

UseWhole(h, bp) ==
    Heap(h.size, h.alloc \cup {bp}, h.prev \cup {bp + h.size[bp]}, h.lists, h.brk)

\* A faulty variant that leaves it to mm_malloc to take the block off its list.
allocate_KeepLink(h, bp, adjusted_size) ==
    IF h.size[bp] - adjusted_size >= MIN_SIZE
    THEN Split(h, bp, adjusted_size)
    ELSE UseWhole(h, bp)

allocate(h, bp, adjusted_size) ==
    LET u == remove_from_list(h, bp, calc_list_index(h.size[bp]))
    IN  IF h.size[bp] - adjusted_size >= MIN_SIZE
        THEN Split(u, bp, adjusted_size)
        ELSE UseWhole(u, bp)

\* The header of the block that follows keeps its PREVALLOC bit.
free_block(h, bp) == Heap(h.size, h.alloc \ {bp}, h.prev, h.lists, h.brk)

(***************************************************************************)
(* The interface.  mm_malloc and mm_realloc return the heap and a pointer. *)
(***************************************************************************)
\* After a fit the block is taken off its list twice, by allocate and again.
mm_malloc(h, size) ==
    LET adjusted_size == ADJUST_BYTESIZE(size)
        fit == find_fit(h, adjusted_size)
        more == extend_heap(h, Max({adjusted_size, ADJUSTED_PAGESIZE}))
    IN  IF size = 0 THEN [heap |-> h, bp |-> NULL]
        ELSE IF fit.bp # NULL
             THEN [heap |-> remove_from_list(allocate(h, fit.bp, adjusted_size),
                                             fit.bp, fit.index),
                   bp |-> fit.bp]
        ELSE IF more.bp = NULL THEN [heap |-> h, bp |-> NULL]
        ELSE [heap |-> allocate(more.heap, more.bp, adjusted_size),
              bp |-> more.bp]

mm_free(h, bp) == coalesce(free_block(h, bp), bp).heap

\* A faulty variant that forgets the old block once the data is copied.
mm_realloc_Leak(h, bp, size) == mm_malloc(h, size)

mm_realloc(h, bp, size) ==
    LET new == mm_malloc(h, size)
    IN  IF new.bp = NULL THEN new
        ELSE [heap |-> mm_free(new.heap, bp), bp |-> new.bp]

\* One free block of ADJUSTED_PAGESIZE between the prologue and the epilogue.
mm_init ==
    add_to_list(Heap([b \in {FIRST} |-> ADJUSTED_PAGESIZE], {}, {FIRST},
                     [i \in ListIndices |-> <<>>], FIRST + ADJUSTED_PAGESIZE),
                FIRST, calc_list_index(ADJUSTED_PAGESIZE))

(***************************************************************************)
(* The caller: any sequence of calls that frees or reallocates only blocks *)
(* it holds, which is what a trace file is.                                *)
(***************************************************************************)
Live == {i \in Ids : blocks[i] # NULL}

\* The caller's record of a call that answered bp; a failed call changes none.
Answer(i, bp, size) ==
    IF bp = NULL THEN UNCHANGED <<blocks, block_sizes>>
    ELSE /\ blocks' = [blocks EXCEPT ![i] = bp]
         /\ block_sizes' = [block_sizes EXCEPT ![i] = size]

Malloc(i, size) ==
    /\ i \notin Live
    /\ LET r == mm_malloc(heap, size)
       IN  heap' = r.heap /\ Answer(i, r.bp, size)

Realloc(i, size) ==
    /\ i \in Live
    /\ LET r == mm_realloc(heap, blocks[i], size)
       IN  heap' = r.heap /\ Answer(i, r.bp, size)

Free(i) ==
    /\ i \in Live
    /\ heap' = mm_free(heap, blocks[i])
    /\ blocks' = [blocks EXCEPT ![i] = NULL]
    /\ block_sizes' = [block_sizes EXCEPT ![i] = 0]

Init ==
    /\ heap = mm_init
    /\ blocks = [i \in Ids |-> NULL]
    /\ block_sizes = [i \in Ids |-> 0]

Next ==
    \/ \E i \in Ids, size \in Requests : Malloc(i, size)
    \/ \E i \in Ids, size \in Requests : Realloc(i, size)
    \/ \E i \in Ids : Free(i)

Spec == Init /\ [][Next]_vars

(***************************************************************************)
(* Well-formed heaps.  "pending" holds the free block that a function has  *)
(* in hand and that is on no list; it is empty between calls.              *)
(***************************************************************************)
\* The blocks lie side by side from FIRST to brk: aligned, at least MIN_SIZE
\* long, each starting where one ends, none overlapping.
Tiled(h) ==
    /\ h.size \in [DOMAIN h.size -> Nat]
    /\ DOMAIN h.size \subseteq Nat
    /\ h.brk \in Nat /\ h.brk % 8 = 0
    /\ FIRST \in DOMAIN h.size
    /\ \A b \in DOMAIN h.size :
          /\ b >= FIRST /\ b % 8 = 0
          /\ h.size[b] >= MIN_SIZE /\ h.size[b] % 8 = 0
          /\ b + h.size[b] <= h.brk
          /\ b + h.size[b] \in DOMAIN h.size \cup {h.brk}
    /\ \A b, c \in DOMAIN h.size : b < c => b + h.size[b] <= c

\* Every list holds the free blocks of its class, each once, and no others.
Listed(h, pending) ==
    /\ h.lists \in [ListIndices -> Seq(Nat)]
    /\ h.alloc \subseteq DOMAIN h.size
    /\ \A i \in ListIndices :
          /\ IsInjective(h.lists[i])
          /\ Range(h.lists[i]) =
                {b \in DOMAIN h.size \ (h.alloc \cup pending) :
                    calc_list_index(h.size[b]) = i}

\* PREVALLOC is set in every block's header, and is clear in the epilogue only
\* when the last block is free: then its footer can be trusted.
Marked(h, pending) ==
    /\ h.prev \subseteq DOMAIN h.size \cup {h.brk}
    /\ DOMAIN h.size \ pending \subseteq h.prev
    /\ \A b \in (pending \cup {h.brk}) \ h.prev :
          \E p \in DOMAIN h.size \ h.alloc : p + h.size[p] = b

WellFormed(h, pending) == Tiled(h) /\ Listed(h, pending) /\ Marked(h, pending)

(***************************************************************************)
(* Properties                                                              *)
(***************************************************************************)
\* The state has its type, and the break stays inside memlib's arena
\* (mem_sbrk's limit check).
TypeOK ==
    /\ heap.brk \in FIRST .. MAX_HEAP
    /\ heap.lists \in [ListIndices -> Seq(Nat)]
    /\ blocks \in [Ids -> Nat]
    /\ block_sizes \in [Ids -> Requests \cup {0}]

\* No sequence of calls leaves a gap or an overlap between blocks: splitting in
\* allocate, merging in coalesce and growing in extend_heap keep the tiling.
BlocksTileHeap == Tiled(heap)

\* No sequence of calls loses a free block, lists it twice or leaves it on the
\* list of a size it had before it was split or merged.
FreeListsExact == Listed(heap, {})

\* free_block never clears PREVALLOC in the block that follows, so only the
\* epilogue's bit can be clear, and coalesce follows a footer only when the
\* block before it is free and the footer therefore valid.
FooterTrustedOnlyWhenFree == Marked(heap, {})

\* The allocated blocks are the ones the caller holds, no block is handed out
\* twice or leaked by mm_realloc, and each has room for its payload.
AllocatedIsHeld ==
    /\ heap.alloc = {blocks[i] : i \in Live}
    /\ \A i, j \in Live : blocks[i] = blocks[j] => i = j
    /\ \A i \in Live : heap.size[blocks[i]] >= block_sizes[i] + WSIZE

\* A call neither moves nor resizes a block that its caller keeps: splitting
\* and merging touch free blocks only.
HeldBlocksStay ==
    [][\A b \in heap.alloc \cap heap'.alloc : heap'.size[b] = heap.size[b]]_vars

\* "Concatenate adjacent blocks to prevent fragmentation" (coalesce): between
\* calls no two free blocks lie side by side.
NoAdjacentFree ==
    \A b \in DOMAIN heap.size : IsFree(heap, b) => ~IsFree(heap, b + heap.size[b])
=============================================================================
