------------------------------- MODULE EvalUtil -------------------------------
(***************************************************************************)
(* mdriver.c's measure of space utilization: eval_mm_util replays a trace  *)
(* on the allocator of MMBlocks and tracks the payload bytes in use and    *)
(* their high water mark.  Its result is max_total_size / mem_heapsize().  *)
(***************************************************************************)
EXTENDS MMBlocks

VARIABLES
    total_size,     \* payload bytes now in use
    max_total_size, \* their high water mark
    exited          \* app_error has ended the program

utilVars == <<heap, blocks, block_sizes, total_size, max_total_size, exited>>

\* The totals after a call that changes the bytes in use by "change".
Count(change) ==
    /\ total_size' = total_size + change
    /\ max_total_size' = Max({total_size + change, max_total_size})
    /\ UNCHANGED exited

\* A call failed: app_error.
AppError == exited' = TRUE /\ UNCHANGED <<total_size, max_total_size>>

UtilAlloc(i, size) ==
    /\ ~exited
    /\ Malloc(i, size)
    /\ IF mm_malloc(heap, size).bp = NULL THEN AppError ELSE Count(size)

\* A faulty variant that counts the new block and forgets the old one.
UtilRealloc_NoOld(i, newsize) ==
    /\ ~exited
    /\ Realloc(i, newsize)
    /\ IF mm_realloc(heap, blocks[i], newsize).bp = NULL THEN AppError
       ELSE Count(newsize)

UtilRealloc(i, newsize) ==
    /\ ~exited
    /\ Realloc(i, newsize)
    /\ IF mm_realloc(heap, blocks[i], newsize).bp = NULL THEN AppError
       ELSE Count(newsize - block_sizes[i])

\* A faulty variant that does not take the freed block off the total.
UtilFree_NoCount(i) ==
    /\ ~exited
    /\ Free(i)
    /\ UNCHANGED <<total_size, max_total_size, exited>>

UtilFree(i) ==
    /\ ~exited
    /\ Free(i)
    /\ total_size' = total_size - block_sizes[i]
    /\ UNCHANGED <<max_total_size, exited>>

UtilInit == Init /\ total_size = 0 /\ max_total_size = 0 /\ exited = FALSE

UtilNext ==
    \/ \E i \in Ids, size \in Requests : UtilAlloc(i, size)
    \/ \E i \in Ids, size \in Requests : UtilRealloc(i, size)
    \/ \E i \in Ids : UtilFree(i)

UtilSpec == UtilInit /\ [][UtilNext]_utilVars

(***************************************************************************)
(* Properties                                                              *)
(***************************************************************************)
\* total_size is the number of payload bytes the trace holds: the running sum
\* over malloc, realloc and free does not drift.
TotalIsHeld ==
    total_size = MapThenSumSet(LAMBDA i : block_sizes[i], Live)

\* The utilization that eval_mm_util may return at any point of a trace is at
\* most 1: the payloads were all inside the heap, apart from one another, when
\* the high water mark was reached, and the heap has not shrunk since.
UtilizationAtMostOne == max_total_size <= heap.brk
=============================================================================
