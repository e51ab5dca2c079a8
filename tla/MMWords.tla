------------------------------- MODULE MMWords -------------------------------
(***************************************************************************)
(* The allocator of mm.c on the words of memory.                           *)
(*                                                                         *)
(* w.mem holds every word of memlib's arena: headers, footers, the links   *)
(* of free blocks inside their payloads, and the caller's data.  Nothing   *)
(* else remembers where blocks are, so data written over a tag or a link   *)
(* is read back as one.  Addresses are byte offsets from mem_start_brk.    *)
(* The caller is the driver's eval_mm_valid: it fills every payload with   *)
(* its trace index and, after a realloc, reads the data back.              *)
(***************************************************************************)
EXTENDS MMSizes, Sequences, Functions

CONSTANTS
    Ids,       \* the trace indices
    Requests,  \* the sizes a caller asks for
    JUNK,      \* what the arena's words hold before they are written
    EPILOGUE,  \* the size field of the epilogue header (0xEA7F00D0)
    MAX_BLOCK_ALLOCSIZE  \* mm_check's bound on a block (1000000)

VARIABLES
    w,           \* memory, free_lists, mem_brk and heap_end
    blocks,      \* trace->blocks
    block_sizes, \* trace->block_sizes
    data_ok      \* no realloc so far was found to have lost data

vars == <<w, blocks, block_sizes, data_ok>>

\* Indices whose fill byte reads back the same through a char, and payloads of
\* whole words, so that a word of memory is written as one.
ASSUME WordsAssumption ==
    /\ Ids \subseteq 0 .. 127
    /\ \A n \in Requests : n % WSIZE = 0
    /\ MAX_HEAP % WSIZE = 0
    /\ EPILOGUE \in Nat /\ EPILOGUE % 4 = 0
    /\ 4 * WSIZE + ADJUSTED_PAGESIZE <= MAX_HEAP

\* As in the build, the bound is above every block that a request can be given,
\* an unsplit remainder included, and below the size of the arena.
ASSUME BoundAssumption ==
    /\ \A n \in Requests : ADJUST_BYTESIZE(n) + MIN_SIZE <= MAX_BLOCK_ALLOCSIZE
    /\ MAX_BLOCK_ALLOCSIZE < MAX_HEAP

NULL == 0
FIRST == 4 * WSIZE
THISALLOC == 1
PREVALLOC == 2
\* The alignment word 0x8BADF00D without its top bit; no code reads it.
PADDING == 195948557
ListIndices == 0 .. FREELIST_COUNT - 1
Words == {WSIZE * k : k \in 0 .. (MAX_HEAP \div WSIZE) - 1}

(***************************************************************************)
(* Header words: a size, whose two low bits are the flags                  *)
(***************************************************************************)
PACK(size, flags) == size + flags
GET_SIZE(word) == word - (word % 4)
GET_ALLOC(word) == word % 2
GET_PREV(word) == (word % 4) - (word % 2)

THISSIZE(v, bp) == GET_SIZE(v.mem[bp - WSIZE])
THISALLOCATED(v, bp) == GET_ALLOC(v.mem[bp - WSIZE]) = THISALLOC
GET_PREVALLOC(v, bp) == GET_PREV(v.mem[bp - WSIZE])
NEXTBLOCK(v, bp) == bp + THISSIZE(v, bp)
PREVBLOCK(v, bp) == bp - GET_SIZE(v.mem[bp - DSIZE])

PUTW(v, p, word) == [v EXCEPT !.mem[p] = word]
PUTHDR(v, bp, word) == PUTW(v, bp - WSIZE, word)
\* The footer is found with the size that the header says now.
PUTFTR(v, bp, word) == PUTW(v, bp + THISSIZE(v, bp) - DSIZE, word)
PUTTAGS(v, bp, word) == PUTFTR(PUTHDR(v, bp, word), bp, word)

(***************************************************************************)
(* Free lists: next_free is the first payload word, prev_free the second   *)
(***************************************************************************)
\* The three writes of remove_from_list, each with its condition.
LinkNext(v, bp) ==
    IF v.mem[bp] = NULL THEN v ELSE PUTW(v, v.mem[bp] + WSIZE, v.mem[bp + WSIZE])
LinkPrev(v, bp) ==
    IF v.mem[bp + WSIZE] = NULL THEN v ELSE PUTW(v, v.mem[bp + WSIZE], v.mem[bp])
LinkHead(v, bp, i) ==
    IF v.free_lists[i] # bp THEN v ELSE [v EXCEPT !.free_lists[i] = v.mem[bp]]

\* A faulty variant that leaves the successor's prev_free alone.
remove_from_list_NoBackLink(v, bp, i) == LinkHead(LinkPrev(v, bp), bp, i)

remove_from_list(v, bp, i) == LinkHead(LinkPrev(LinkNext(v, bp), bp), bp, i)

find_end_of_list(v, i) ==
    LET end[p \in Nat] == IF v.mem[p] = NULL THEN p ELSE end[v.mem[p]]
    IN  IF v.free_lists[i] = NULL THEN NULL ELSE end[v.free_lists[i]]

\* bp goes behind tail, or becomes the head of an empty list.
LinkAfter(v, tail, bp, i) ==
    IF tail = NULL
    THEN PUTW([v EXCEPT !.free_lists[i] = bp], bp + WSIZE, NULL)
    ELSE PUTW(PUTW(v, tail, bp), bp + WSIZE, tail)

add_to_list(v, bp, i) ==
    LET c == PUTW(v, bp, NULL)
    IN  LinkAfter(c, find_end_of_list(c, i), bp, i)

find_fit(v, block_size) ==
    LET fits == {i \in calc_list_index(block_size) .. FREELIST_COUNT - 1 :
                    /\ v.free_lists[i] # NULL
                    /\ THISSIZE(v, v.free_lists[i]) >= block_size}
    IN  IF fits = {} THEN [bp |-> NULL, index |-> -1]
        ELSE [bp |-> v.free_lists[Min(fits)], index |-> Min(fits)]

(***************************************************************************)
(* Merging.  v is the memory that coalesce was called with and u the same  *)
(* with the neighbours taken off their lists.                              *)
(***************************************************************************)
Unlink(v, bp) == remove_from_list(v, bp, calc_list_index(THISSIZE(v, bp)))

\* Case 2: only the next block is free.
MergeNext(v, u, bp) ==
    PUTTAGS(u, bp, PACK(THISSIZE(v, bp) + THISSIZE(u, NEXTBLOCK(v, bp)),
                        GET_PREVALLOC(v, bp)))

\* Case 3: only the previous block is free.  The footer is written first, found
\* with bp's own header still in place.
MergePrev(v, u, bp) ==
    LET prev == PREVBLOCK(v, bp)
        word == PACK(THISSIZE(v, bp) + THISSIZE(u, prev), GET_PREVALLOC(u, prev))
    IN  PUTHDR(PUTFTR(u, bp, word), prev, word)

\* Case 4: both are free.  They are looked up again for the writes.
MergeBoth(v, u, bp) ==
    LET prev == PREVBLOCK(v, bp)
        size == THISSIZE(v, bp) + THISSIZE(u, prev) + THISSIZE(u, NEXTBLOCK(v, bp))
        word == PACK(size, GET_PREVALLOC(u, prev))
        h == PUTHDR(u, PREVBLOCK(u, bp), word)
    IN  PUTFTR(h, NEXTBLOCK(h, bp), word)

\* A faulty variant that leaves the block before on its list.
Merge_KeepLink(v, bp) ==
    LET prev_alloc == GET_PREVALLOC(v, bp) # 0
        next_alloc == THISALLOCATED(v, NEXTBLOCK(v, bp))
        next == NEXTBLOCK(v, bp)
    IN  CASE prev_alloc /\ next_alloc -> v
          [] prev_alloc /\ ~next_alloc -> MergeNext(v, Unlink(v, next), bp)
          [] ~prev_alloc /\ next_alloc -> MergePrev(v, v, bp)
          [] ~prev_alloc /\ ~next_alloc -> MergeBoth(v, Unlink(v, next), bp)

\* The four cases of coalesce.
Merge(v, bp) ==
    LET prev_alloc == GET_PREVALLOC(v, bp) # 0
        next_alloc == THISALLOCATED(v, NEXTBLOCK(v, bp))
        next == NEXTBLOCK(v, bp)
        prev == PREVBLOCK(v, bp)
    IN  CASE prev_alloc /\ next_alloc -> v
          [] prev_alloc /\ ~next_alloc -> MergeNext(v, Unlink(v, next), bp)
          [] ~prev_alloc /\ next_alloc -> MergePrev(v, Unlink(v, prev), bp)
          [] ~prev_alloc /\ ~next_alloc ->
                MergeBoth(v, Unlink(Unlink(v, next), prev), bp)

\* The list index is computed from the size that was written to the header.
Enlist(v, bp) ==
    [w |-> add_to_list(v, bp, calc_list_index(THISSIZE(v, bp))), bp |-> bp]

coalesce(v, bp) ==
    Enlist(Merge(v, bp),
           IF GET_PREVALLOC(v, bp) # 0 THEN bp ELSE PREVBLOCK(v, bp))

\* The tags of a new block at the break, then the epilogue behind it.
NewBlock(v, n) ==
    PUTTAGS([v EXCEPT !.mem_brk = @ + n], v.mem_brk,
            PACK(n, GET_PREVALLOC(v, v.heap_end + 1)))
NewEpilogue(v, bp) == PUTHDR(v, NEXTBLOCK(v, bp), PACK(EPILOGUE, THISALLOC))

\* A faulty variant that leaves heap_end at the old break.
extend_heap_StaleEnd(v, adjusted_size) ==
    IF SbrkFails(v.mem_brk, adjusted_size) THEN [w |-> v, bp |-> NULL]
    ELSE coalesce(NewEpilogue(NewBlock(v, adjusted_size), v.mem_brk), v.mem_brk)

extend_heap(v, adjusted_size) ==
    IF SbrkFails(v.mem_brk, adjusted_size) THEN [w |-> v, bp |-> NULL]
    ELSE coalesce([NewEpilogue(NewBlock(v, adjusted_size), v.mem_brk)
                      EXCEPT !.heap_end = v.mem_brk + adjusted_size - 1],
                  v.mem_brk)

(***************************************************************************)
(* Placing and releasing a block                                           *)
(***************************************************************************)
\* What is left of a split block, behind its new header, becomes a free block.
FreeRest(v, bp, n) ==
    LET rest == NEXTBLOCK(v, bp)
    IN  coalesce(PUTTAGS(v, rest, PACK(n, PREVALLOC)), rest).w

\* PREVALLOC in the header that follows bp.
MarkNext(v, bp) ==
    LET word == v.mem[NEXTBLOCK(v, bp) - WSIZE]
    IN  PUTHDR(v, NEXTBLOCK(v, bp), GET_SIZE(word) + GET_ALLOC(word) + PREVALLOC)

allocate(v, bp, adjusted_size) ==
    LET csize == THISSIZE(v, bp)
        flags == THISALLOC + GET_PREVALLOC(v, bp)
        rest == (csize - adjusted_size) % SIZE_MOD
    IN  IF rest >= MIN_SIZE
        THEN FreeRest(PUTTAGS(Unlink(v, bp), bp, PACK(adjusted_size, flags)), bp, rest)
        ELSE MarkNext(PUTTAGS(Unlink(v, bp), bp, PACK(csize, flags)), bp)

\* A faulty variant that forgets the footer.
free_block_NoFooter(v, bp) ==
    PUTHDR(v, bp, PACK(THISSIZE(v, bp), GET_PREVALLOC(v, bp)))

free_block(v, bp) == PUTTAGS(v, bp, PACK(THISSIZE(v, bp), GET_PREVALLOC(v, bp)))

(***************************************************************************)
(* The interface                                                           *)
(***************************************************************************)
\* The second remove_from_list follows the links still lying in the payload of
\* the block that allocate has just taken off its list.
TakeFit(v, fit, adjusted_size) ==
    [w |-> remove_from_list(allocate(v, fit.bp, adjusted_size), fit.bp, fit.index),
     bp |-> fit.bp]

\* A faulty variant that does not mark the block it got from extend_heap.
TakeNew_NoAllocate(more, adjusted_size) == more

TakeNew(more, adjusted_size) ==
    IF more.bp = NULL THEN more
    ELSE [w |-> allocate(more.w, more.bp, adjusted_size), bp |-> more.bp]

Place(v, fit, adjusted_size) ==
    IF fit.bp # NULL THEN TakeFit(v, fit, adjusted_size)
    ELSE TakeNew(extend_heap(v, Max({adjusted_size, ADJUSTED_PAGESIZE})),
                 adjusted_size)

mm_malloc(v, size) ==
    IF size = 0 THEN [w |-> v, bp |-> NULL]
    ELSE Place(v, find_fit(v, ADJUST_BYTESIZE(size)), ADJUST_BYTESIZE(size))

mm_free(v, bp) == coalesce(free_block(v, bp), bp).w

\* The words of an n-byte payload at p.
Payload(p, n) == {a \in Words : p <= a /\ a < p + n}

memcpy(v, to, from, n) ==
    [v EXCEPT !.mem = [a \in Words |-> IF a \in Payload(to, n)
                                       THEN v.mem[from + (a - to)] ELSE v.mem[a]]]

\* copySize: the old block's size counts its header, a word more than its payload.
CopySize(v, bp, size) == Min({THISSIZE(v, bp), size})

\* A faulty variant that frees the old block before it copies.
MoveTo_FreeFirst(new, bp, size) ==
    IF new.bp = NULL THEN new
    ELSE [w |-> memcpy(mm_free(new.w, bp), new.bp, bp, CopySize(new.w, bp, size)),
          bp |-> new.bp]

\* The rest of mm_realloc, once mm_malloc has answered.
MoveTo(new, bp, size) ==
    IF new.bp = NULL THEN new
    ELSE [w |-> mm_free(memcpy(new.w, new.bp, bp, CopySize(new.w, bp, size)), bp),
          bp |-> new.bp]

mm_realloc(v, bp, size) == MoveTo(mm_malloc(v, size), bp, size)

\* Padding, prologue header and footer, one free block, epilogue.
mm_init ==
    LET brk == ADJUSTED_PAGESIZE + 4 * WSIZE
        v == [mem |-> [a \in Words |-> JUNK],
              free_lists |-> [i \in ListIndices |-> NULL],
              mem_brk |-> brk, heap_end |-> brk - 1]
        p == PUTTAGS(PUTW(v, 0, PADDING), 2 * WSIZE, PACK(DSIZE, THISALLOC + PREVALLOC))
        e == PUTHDR(p, brk, PACK(EPILOGUE, THISALLOC))
        f == PUTTAGS(e, FIRST, PACK(ADJUSTED_PAGESIZE, PREVALLOC))
    IN  add_to_list(f, FIRST, calc_list_index(ADJUSTED_PAGESIZE))

(***************************************************************************)
(* The caller, eval_mm_valid                                               *)
(***************************************************************************)
\* The word that memset(p, index & 0xFF, size) leaves in every word of p.
Fill(i) == 16843009 * i

memset(v, bp, i, size) ==
    [v EXCEPT !.mem = [a \in Words |-> IF a \in Payload(bp, size)
                                       THEN Fill(i) ELSE v.mem[a]]]

Live == {i \in Ids : blocks[i] # NULL}

\* The answer r of a call is filled and remembered; a failed call changes none.
Answer(i, r, size) ==
    IF r.bp = NULL THEN w' = r.w /\ UNCHANGED <<blocks, block_sizes>>
    ELSE /\ w' = memset(r.w, r.bp, i, size)
         /\ blocks' = [blocks EXCEPT ![i] = r.bp]
         /\ block_sizes' = [block_sizes EXCEPT ![i] = size]

\* The driver's comparison of a moved block's data with the old fill.
Preserved(i, r, size) ==
    r.bp # NULL =>
        \A a \in Payload(r.bp, Min({block_sizes[i], size})) : r.w.mem[a] = Fill(i)

Malloc(i, size) ==
    /\ i \notin Live
    /\ Answer(i, mm_malloc(w, size), size)
    /\ UNCHANGED data_ok

\* The data is compared before the block is refilled.
Realloc(i, size) ==
    /\ i \in Live
    /\ \E r \in {mm_realloc(w, blocks[i], size)} :
          /\ Answer(i, r, size)
          /\ data_ok' = (data_ok /\ Preserved(i, r, size))

Free(i) ==
    /\ i \in Live
    /\ w' = mm_free(w, blocks[i])
    /\ blocks' = [blocks EXCEPT ![i] = NULL]
    /\ block_sizes' = [block_sizes EXCEPT ![i] = 0]
    /\ UNCHANGED data_ok

Init ==
    /\ w = mm_init
    /\ blocks = [i \in Ids |-> NULL]
    /\ block_sizes = [i \in Ids |-> 0]
    /\ data_ok = TRUE

Next ==
    \/ \E i \in Ids, size \in Requests : Malloc(i, size)
    \/ \E i \in Ids, size \in Requests : Realloc(i, size)
    \/ \E i \in Ids : Free(i)

Spec == Init /\ [][Next]_vars

(***************************************************************************)
(* Reading memory as mm_check does: block by block, and link by link       *)
(***************************************************************************)
BlocksFrom(v, start) ==
    LET walk[p \in Nat] ==
            IF p >= v.heap_end \/ p % 4 # 0 THEN {}
            ELSE {p} \cup (IF THISSIZE(v, p) = 0 THEN {} ELSE walk[NEXTBLOCK(v, p)])
    IN  walk[start]

HeapBlocks(v) == BlocksFrom(v, FIRST)

\* At most one node per word, should the links run in a circle.
Chain(v, i) ==
    LET follow[k \in Nat, p \in Nat] ==
            IF k = 0 \/ p \notin Words \ {NULL} THEN <<>>
            ELSE <<p>> \o follow[k - 1, v.mem[p]]
    IN  follow[Cardinality(Words), v.free_lists[i]]

ListNodes(v) == UNION {Range(Chain(v, i)) : i \in ListIndices}

\* mm_check's assertions on the end of the heap, the one that is compiled under
\* DO_HEAP_OVERWRITE_CHECK included: past the break nothing was written since
\* the arena was obtained.
HeapEndChecked(v) ==
    /\ v.heap_end = v.mem_brk - 1
    /\ v.heap_end < MAX_HEAP
    /\ \A a \in Words : a > v.heap_end => v.mem[a] = JUNK

\* Its assertion on the flag of every listed block.
ListedBlocksFree(v) == \A bp \in ListNodes(v) : ~THISALLOCATED(v, bp)

\* The blocks at which its two assertions on the size stop the program.
OverSized(v) ==
    {bp \in ListNodes(v) \cup HeapBlocks(v) : THISSIZE(v, bp) >= MAX_BLOCK_ALLOCSIZE}

(***************************************************************************)
(* Properties                                                              *)
(***************************************************************************)
\* What mm_check reports between any two calls: the end of the heap is known,
\* nothing is written past it and listed blocks are free.  Its size assertions
\* are there to find "a payload misinterpreted as a header"; a block they stop
\* at is never that, but a free block grown by merging: whole, met on both
\* walks, and with no block of the caller in it.
HeapCheckStopsOnlyAtMerges ==
    /\ HeapEndChecked(w)
    /\ ListedBlocksFree(w)
    /\ \A bp \in OverSized(w) :
          /\ bp \in HeapBlocks(w) \cap ListNodes(w)
          /\ NEXTBLOCK(w, bp) <= w.mem_brk
          /\ \A i \in Live : blocks[i] \notin bp .. NEXTBLOCK(w, bp) - 1

\* The list functions keep next_free and prev_free inverse to each other, and
\* the second remove_from_list of mm_malloc, which follows links left in an
\* allocated block, disturbs no list.
LinksMirror ==
    \A i \in ListIndices :
        LET c == Chain(w, i)
        IN  \A k \in 1 .. Len(c) :
                w.mem[c[k] + WSIZE] = (IF k = 1 THEN NULL ELSE c[k - 1])

\* The footer of every free block repeats its size, so that PREVBLOCK finds
\* the start of a free block; an allocated block's footer is the caller's.
FreeFootersAgree ==
    \A bp \in HeapBlocks(w) :
        ~THISALLOCATED(w, bp) =>
            GET_SIZE(w.mem[bp + THISSIZE(w, bp) - DSIZE]) = THISSIZE(w, bp)

\* No call of the allocator writes a header, footer or link into the payload
\* of a block that the caller holds.
PayloadsIntact ==
    \A i \in Live : \A a \in Payload(blocks[i], block_sizes[i]) :
        w.mem[a] = Fill(i)

\* mm_realloc carries over the data that fits in both sizes (the driver's
\* check that "the new block contains the data from the old block").
ReallocKeepsData == data_ok

\* The heap that the words encode.
AbstractHeap ==
    LET bs == HeapBlocks(w)
    IN  [size |-> [b \in bs |-> THISSIZE(w, b)],
         alloc |-> {b \in bs : THISALLOCATED(w, b)},
         prev |-> {b \in bs \cup {w.mem_brk} : GET_PREVALLOC(w, b) # 0},
         lists |-> [i \in ListIndices |-> Chain(w, i)],
         brk |-> w.mem_brk]

\* The code on words does what it does on blocks and sequences: every call
\* maps to the same call of MMBlocks on the heap that the words encode.
Level == INSTANCE MMBlocks WITH heap <- AbstractHeap
ImplementsBlocks == Level!Spec
=============================================================================
