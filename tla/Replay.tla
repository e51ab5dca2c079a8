-------------------------------- MODULE Replay --------------------------------
(***************************************************************************)
(* The driver's loop over the traces, on the allocator itself: every trace *)
(* is read, and the same recorded requests are replayed by eval_mm_valid,  *)
(* eval_mm_util and RUNS times by eval_mm_speed.  The passes share the     *)
(* trace's arrays, the package's globals, memlib and the range list; each  *)
(* one starts with mem_reset_brk and mm_init, which gets a new arena.      *)
(*                                                                         *)
(* The heap is that of MMBlocks.  Its addresses are offsets into an arena, *)
(* so owner records to which arena a pointer in trace->blocks belongs.     *)
(* The payloads' data, which eval_mm_valid also compares, is in MMWords.   *)
(***************************************************************************)
EXTENDS MMBlocks, RangeList, TraceReader

CONSTANTS
    MAX_TRACES, \* num_tracefiles
    RUNS,       \* runs of eval_mm_speed that fsecs times
    Secs        \* what fsecs may return

ASSUME ReplayAssumption ==
    /\ FileIndices \subseteq Ids /\ FileSizes \subseteq Requests
    /\ MAX_TRACES \in Nat \ {0} /\ RUNS \in Nat \ {0} /\ Secs \subseteq Int

VARIABLES
    i,        \* the trace at hand
    opnum,    \* the next request of the pass; 0 before the pass begins
    runs,     \* timed runs done for this trace
    ranges,   \* the range list
    total_size, max_total_size,  \* of eval_mm_util
    mm_stats,
    errors,   \* calls of malloc_error
    reason,   \* what the last error was
    arenas,   \* arenas obtained from malloc; the last one is in use
    owner     \* per index: the arena that trace->blocks points into

control == <<pc, i, opnum, runs>>
record == <<blocks, block_sizes, owner>>
totals == <<total_size, max_total_size>>
outcome == <<mm_stats, errors, reason>>
replayVars == <<control, trace, max_index, heap, record, ranges, totals, outcome,
                arenas>>

Passes == {"valid", "util", "speed"}
InPass == pc \in Passes /\ opnum > 0

\* The stages in which the process, or the loop over the traces, has ended.
Ended == {"print", "exit", "abort"}

NoHeap == Heap([b \in {} |-> 0], {}, {}, [n \in ListIndices |-> <<>>], 0)
Unwritten == [id \in Ids |-> 0]

(***************************************************************************)
(* memlib                                                                  *)
(***************************************************************************)
\* The break that mem_reset_brk and then mem_init leave: that of an empty heap.
mem_init == 0

\* mem_heap_lo and mem_heap_hi.
HeapExtent(h) == [lo |-> 0, hi |-> h.brk - 1]
mem_heapsize(h) == h.brk

(***************************************************************************)
(* One request of the trace                                                *)
(***************************************************************************)
request == trace.ops[opnum]

\* What a request does to a heap and the pointers.
Call(h, ptrs, op) ==
    CASE op.type = "a" -> mm_malloc(h, op.size)
      [] op.type = "r" -> mm_realloc(h, ptrs[op.index], op.size)
      [] op.type = "f" -> [heap |-> mm_free(h, ptrs[op.index]), bp |-> NULL]

Failed(r) == request.type # "f" /\ r.bp = NULL

SetPointer(r) ==
    /\ blocks' = [blocks EXCEPT ![request.index] = r.bp]
    /\ owner' = [owner EXCEPT ![request.index] = arenas]
SetSize == block_sizes' = [block_sizes EXCEPT ![request.index] = request.size]

\* Pointer and size are remembered, except by a free.
Remember(r) ==
    IF request.type = "f" THEN UNCHANGED record ELSE SetPointer(r) /\ SetSize

Advance == opnum' = opnum + 1 /\ UNCHANGED <<pc, i, runs, errors, reason>>

\* app_error ends the program.
AppError ==
    /\ pc' = "exit" /\ reason' = "app_error"
    /\ UNCHANGED <<i, opnum, runs, record, errors>>

\* free_trace, and the next trace.
NextTrace ==
    /\ i' = i + 1 /\ opnum' = 0 /\ runs' = 0
    /\ pc' = IF i < MAX_TRACES THEN "read" ELSE "print"

\* A faulty variant that reports the error but does not count it.
Invalid_Silent(why) ==
    /\ reason' = why
    /\ NextTrace
    /\ UNCHANGED <<record, errors>>

\* malloc_error, and eval_mm_valid returns 0.
Invalid(why) ==
    /\ errors' = errors + 1 /\ reason' = why
    /\ NextTrace
    /\ UNCHANGED record

\* remove_range for the old block of a realloc or a free.
WithoutOld == IF request.type = "a" THEN ranges ELSE remove_range(ranges, blocks[request.index])

\* The range list and the control after answer r of the package: "added" is
\* add_range's outcome for a new block.
Judge(r, added) ==
    IF Failed(r) THEN Invalid("null") /\ UNCHANGED ranges
    ELSE IF request.type = "f" THEN Advance /\ Remember(r) /\ ranges' = WithoutOld
    ELSE /\ ranges' = added.ranges
         /\ IF added.ok THEN Advance /\ Remember(r) ELSE Invalid("range")

ValidRequest ==
    /\ pc = "valid" /\ opnum \in 1 .. trace.num_ops
    /\ \E r \in {Call(heap, blocks, request)} :
          /\ heap' = r.heap
          /\ Judge(r, add_range(WithoutOld, r.bp, request.size, HeapExtent(r.heap)))
    /\ UNCHANGED <<trace, max_index, totals, mm_stats, arenas>>

\* A faulty variant that counts a realloc like a malloc.
Growth_NoOld(op) ==
    CASE op.type \in {"a", "r"} -> op.size
      [] op.type = "f" -> -block_sizes[op.index]

\* The bytes that a request adds to total_size.
Growth(op) ==
    CASE op.type = "a" -> op.size
      [] op.type = "r" -> op.size - block_sizes[op.index]
      [] op.type = "f" -> -block_sizes[op.index]

\* A faulty variant in which the utilization pass does not call mm_free.
UtilCall_NoFree(op) ==
    IF op.type = "f" THEN [heap |-> heap, bp |-> NULL] ELSE Call(heap, blocks, op)

UtilCall(op) == Call(heap, blocks, op)

\* Only a malloc or a realloc updates the high water mark.
UtilRequest ==
    /\ pc = "util" /\ opnum \in 1 .. trace.num_ops
    /\ \E r \in {UtilCall(request)} :
          /\ heap' = r.heap
          /\ IF Failed(r) THEN AppError /\ UNCHANGED totals
             ELSE /\ Advance /\ Remember(r)
                  /\ total_size' = total_size + Growth(request)
                  /\ max_total_size' = IF request.type = "f" THEN max_total_size
                                       ELSE Max({total_size', max_total_size})
    /\ UNCHANGED <<trace, max_index, ranges, mm_stats, arenas>>

\* eval_mm_speed stores the pointers only.
SpeedRemember(r) ==
    IF request.type = "f" THEN UNCHANGED <<blocks, owner>> ELSE SetPointer(r)

SpeedRequest ==
    /\ pc = "speed" /\ opnum \in 1 .. trace.num_ops
    /\ \E r \in {Call(heap, blocks, request)} :
          /\ heap' = r.heap
          /\ IF Failed(r) THEN AppError
             ELSE Advance /\ SpeedRemember(r) /\ UNCHANGED block_sizes
    /\ UNCHANGED <<trace, max_index, ranges, totals, mm_stats, arenas>>

(***************************************************************************)
(* The passes                                                              *)
(***************************************************************************)
\* A faulty variant that leaves the old free lists.
NewHeap_OldLists(h) == [mm_init EXCEPT !.lists = h.lists]

\* mm_init: nothing of the old heap h remains.
NewHeap(h) == mm_init

\* mm_init compares the answer of mem_sbrk with NULL: when the first extension
\* fails it writes its tags at address -1.
BeginHeap ==
    IF SbrkFails(mem_init, FIRST + ADJUSTED_PAGESIZE)
    THEN pc' = "undefined" /\ UNCHANGED <<opnum, heap>>
    ELSE opnum' = 1 /\ heap' = NewHeap(heap) /\ UNCHANGED pc

\* mem_reset_brk, clear_ranges in eval_mm_valid, mm_init; no arena is an exit.
BeginPass ==
    /\ pc \in Passes /\ opnum = 0
    /\ pc = "speed" => runs < RUNS
    /\ \/ /\ arenas' = arenas + 1
          /\ BeginHeap
          /\ ranges' = IF pc = "valid" THEN clear_ranges(ranges) ELSE ranges
          /\ IF pc = "util" THEN total_size' = 0 /\ max_total_size' = 0
             ELSE UNCHANGED totals
       \/ /\ pc' = "exit"
          /\ UNCHANGED <<opnum, heap, ranges, totals, arenas>>
    /\ UNCHANGED <<i, runs, trace, max_index, record, outcome>>

EndOfTrace == InPass /\ opnum > trace.num_ops

\* eval_mm_valid returns 1.
EndValid ==
    /\ pc = "valid" /\ EndOfTrace
    /\ mm_stats' = [mm_stats EXCEPT ![i].valid = TRUE]
    /\ pc' = "util" /\ opnum' = 0
    /\ UNCHANGED <<i, runs, trace, max_index, heap, record, ranges, totals, errors,
                   reason, arenas>>

\* The result is max_total_size / mem_heapsize(), here in percent.
EndUtil ==
    /\ pc = "util" /\ EndOfTrace
    /\ mm_stats' = [mm_stats EXCEPT ![i].util =
                       (100 * max_total_size) \div mem_heapsize(heap)]
    /\ pc' = "speed" /\ opnum' = 0
    /\ UNCHANGED <<i, runs, trace, max_index, heap, record, ranges, totals, errors,
                   reason, arenas>>

\* A faulty variant that does not count the run.
EndSpeed_NoCount ==
    /\ pc = "speed" /\ EndOfTrace
    /\ opnum' = 0
    /\ UNCHANGED <<pc, i, runs, trace, max_index, heap, record, ranges, totals,
                   outcome, arenas>>

\* One of the runs that fsecs times has ended.
EndSpeed ==
    /\ pc = "speed" /\ EndOfTrace
    /\ runs' = runs + 1 /\ opnum' = 0
    /\ UNCHANGED <<pc, i, trace, max_index, heap, record, ranges, totals, outcome,
                   arenas>>

\* fsecs returns; free_trace; the next trace.
EndTimed ==
    /\ pc = "speed" /\ opnum = 0 /\ runs = RUNS
    /\ \E s \in Secs :
          mm_stats' = [mm_stats EXCEPT ![i].secs = s, ![i].timed = TRUE]
    /\ NextTrace
    /\ UNCHANGED <<trace, max_index, heap, record, ranges, totals, errors, reason,
                   arenas>>

\* main's own mem_init.
Begin ==
    /\ pc = "begin"
    /\ \/ pc' = "read" /\ arenas' = arenas + 1
       \/ pc' = "exit" /\ UNCHANGED arenas
    /\ UNCHANGED <<i, opnum, runs, trace, max_index, heap, record, ranges, totals,
                   outcome>>

\* The new arrays hold nothing yet, which owner 0 stands for.
Read ==
    /\ read_trace
    /\ IF pc = "read"
       THEN blocks' = Unwritten /\ block_sizes' = Unwritten /\ owner' = Unwritten
       ELSE UNCHANGED record
    /\ mm_stats' = IF pc' = "valid" THEN [mm_stats EXCEPT ![i].ops = trace.num_ops]
                   ELSE mm_stats
    /\ UNCHANGED <<i, opnum, runs, heap, ranges, totals, errors, reason, arenas>>

ReplayInit ==
    /\ pc = "begin" /\ i = 1 /\ opnum = 0 /\ runs = 0
    /\ trace = NoTrace /\ max_index = 0
    /\ heap = NoHeap
    /\ blocks = Unwritten /\ block_sizes = Unwritten /\ owner = Unwritten
    /\ ranges = <<>> /\ total_size = 0 /\ max_total_size = 0
    /\ mm_stats = [t \in 1 .. MAX_TRACES |->
                      [valid |-> FALSE, ops |-> 0, util |-> 0, secs |-> 0,
                       timed |-> FALSE]]
    /\ errors = 0 /\ reason = "none" /\ arenas = 0

ReplayNext ==
    \/ Begin \/ Read \/ BeginPass
    \/ ValidRequest \/ UtilRequest \/ SpeedRequest
    \/ EndValid \/ EndUtil \/ EndSpeed \/ EndTimed
    \/ pc \in Ended /\ UNCHANGED replayVars

ReplaySpec == ReplayInit /\ [][ReplayNext]_replayVars

(***************************************************************************)
(* Properties                                                              *)
(***************************************************************************)
\* A heap and pointers after one more request.
After(s, op) ==
    LET r == Call(s.heap, s.blocks, op)
    IN  [heap |-> r.heap,
         blocks |-> IF op.type = "f" THEN s.blocks
                    ELSE [s.blocks EXCEPT ![op.index] = r.bp]]

\* The heap and pointers after each number of requests on a new heap.
Reference ==
    LET after[k \in 0 .. Len(trace.ops)] ==
            IF k = 0 THEN [heap |-> mm_init, blocks |-> Unwritten]
            ELSE After(after[k - 1], trace.ops[k])
    IN  after

\* Every pass over a trace computes the same heap, request by request: nothing
\* that an earlier pass or trace left in the free lists, the break or
\* trace->blocks shows.
PassesRepeat == InPass => heap = Reference[opnum - 1].heap

\* A trace that eval_mm_valid accepted does not fail with an app_error in the
\* utilization pass or in a timed run.
ValidNeverFails == reason # "app_error"

\* eval_mm_valid never blames mm.c's blocks: what mm_malloc and mm_realloc
\* return is aligned, inside the heap as memlib reports it at that moment, and
\* apart from every range on the list, also after an earlier trace was given up
\* with ranges on it.
BlocksAccepted == reason # "range"

\* In a pass the trace's arrays are read only where they were written: the
\* requests are the num_ops that the header announced, their indices are below
\* num_ids, and a pointer that may still be freed or reallocated is one that
\* this pass got from the arena in use.
ReplayReadsWritten ==
    InPass =>
        /\ Len(trace.ops) = trace.num_ops
        /\ \A k \in 1 .. trace.num_ops : trace.ops[k].index < trace.num_ids
        /\ \A id \in HeldAfter(SubSeq(trace.ops, 1, opnum - 1)) :
              owner[id] = arenas /\ blocks[id] \in heap.alloc

\* The bytes that the trace holds after its first k requests.
HeldBytes(k) ==
    LET ops == SubSeq(trace.ops, 1, k)
        size == [id \in HeldAfter(ops) |->
                    ops[Max({n \in 1 .. k : ops[n].index = id})].size]
    IN  MapThenSumSet(LAMBDA id : size[id], HeldAfter(ops))

\* eval_mm_util's high water mark is the most bytes that the trace ever holds
\* at once, whatever sizes the pass before has left in trace->block_sizes.
HighWaterIsPeak ==
    pc = "util" /\ InPass =>
        max_total_size = Max({HeldBytes(k) : k \in 0 .. opnum - 1})

\* What is left to do, as a number: for every trace its lines, and PASS for
\* each of its passes.
Work ==
    LET PASS == MAX_LINES + 3
        Trace == (RUNS + 3) * PASS
    IN  IF pc \in Ended THEN 0
        ELSE (MAX_TRACES - i) * Trace +
             (CASE pc = "begin" -> Trace
                [] pc = "read"  -> Trace - 1
                [] pc = "lines" -> Trace - 2 - Len(trace.ops)
                [] pc = "valid" -> (RUNS + 2) * PASS - opnum
                [] pc = "util"  -> (RUNS + 1) * PASS - opnum
                [] pc = "speed" -> (RUNS - runs) * PASS + 1 - opnum)

\* Every step of reading or replaying a trace leaves less to do, so that the
\* loops over lines, requests, runs and traces all end.
WorkShrinks == [][Work' < Work /\ Work' \in Nat]_replayVars
===============================================================================
