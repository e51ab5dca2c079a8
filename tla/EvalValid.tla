------------------------------ MODULE EvalValid ------------------------------
(***************************************************************************)
(* mdriver.c's correctness check: eval_mm_valid replays a trace against a  *)
(* malloc package and keeps, in a range list, the extent of every payload  *)
(* it was given.                                                           *)
(*                                                                         *)
(* The package under test is not constrained here: it may answer any call  *)
(* with any pointer, and after a realloc leave any data.  The variable     *)
(* honest remembers whether it has behaved so far, so that the driver's    *)
(* verdict can be compared with the truth.                                 *)
(***************************************************************************)
EXTENDS RangeList

CONSTANTS
    Ids,       \* the trace indices
    Sizes,     \* the request sizes of the traces
    Answers,   \* the pointers the package may return (NULL is 0)
    Bytes,     \* the bytes that may be found in a payload
    HEAP_LO,   \* mem_heap_lo()
    HEAP_HI,   \* mem_heap_hi(), the last byte of the heap
    MAX_TRACES \* bound on the number of traces replayed

ASSUME EvalAssumption ==
    /\ Ids \subseteq Nat /\ Sizes \subseteq Nat /\ Answers \subseteq Nat
    /\ Bytes \subseteq 0 .. 255
    /\ HEAP_LO \in Nat \ {0} /\ HEAP_HI \in Nat
    /\ MAX_TRACES \in Nat \ {0}

VARIABLES
    ranges,      \* the range list, newest first
    blocks,      \* trace->blocks, never reset by a free
    block_sizes, \* trace->block_sizes
    held,        \* the indices that are allocated at this point of the trace
    verdict,     \* "running", "valid" (returned 1), "invalid" (0) or "abort"
    reason,      \* what malloc_error reported
    errors,      \* the driver's count of malloc_error calls
    tracenum,    \* the trace being replayed
    honest       \* the package kept every promise so far

evalVars == <<ranges, blocks, block_sizes, held, verdict, reason, errors,
              tracenum, honest>>

NULL == 0
\* The extent of the heap, from mem_heap_lo() to mem_heap_hi().
Extent == [lo |-> HEAP_LO, hi |-> HEAP_HI]

(***************************************************************************)
(* Whether an answer of the package keeps an allocator's promise           *)
(***************************************************************************)
Placed(others, lo, size) ==
    /\ lo % ALIGNMENT = 0
    /\ lo \in Within(Extent) /\ lo + size - 1 \in Within(Extent)
    /\ \A i \in others :
          ~Overlap(RangeOf(lo, size), RangeOf(blocks[i], block_sizes[i]))

(***************************************************************************)
(* One request of the trace                                                *)
(***************************************************************************)
\* index & 0xFF, and the value of a byte read through a plain char.
LowByte(index) == index % 256
AsChar(byte) == IF byte < 128 THEN byte ELSE byte - 256

\* malloc_error, and eval_mm_valid returns 0.
Reject(why) ==
    /\ verdict' = "invalid" /\ reason' = why /\ errors' = errors + 1
    /\ UNCHANGED <<blocks, block_sizes, held>>

\* The block is recorded for its index.
Remember(i, p, size) ==
    /\ blocks' = [blocks EXCEPT ![i] = p]
    /\ block_sizes' = [block_sizes EXCEPT ![i] = size]
    /\ held' = held \cup {i}
    /\ UNCHANGED <<verdict, reason, errors>>

\* assert(size > 0) in add_range.
AssertFails ==
    /\ verdict' = "abort"
    /\ UNCHANGED <<blocks, block_sizes, held, reason, errors>>

\* mm_malloc answers p.
Alloc(i, size, p) ==
    LET r == add_range(ranges, p, size, Extent)
    IN  /\ verdict = "running" /\ i \notin held
        /\ UNCHANGED tracenum
        /\ honest' = (honest /\ (p = NULL \/ (size > 0 /\ Placed(held, p, size))))
        /\ \/ /\ p = NULL
              /\ Reject("null") /\ UNCHANGED ranges
           \/ /\ p # NULL /\ size = 0
              /\ AssertFails /\ UNCHANGED ranges
           \/ /\ p # NULL /\ size > 0 /\ ~r.ok
              /\ Reject("range") /\ UNCHANGED ranges
           \/ /\ p # NULL /\ size > 0 /\ r.ok
              /\ ranges' = r.ranges /\ Remember(i, p, size)

\* mm_realloc answers p; byte is the first byte of the old data that differs
\* from the fill, or the fill itself when all of it was kept.
Realloc(i, size, p, byte) ==
    LET gone == remove_range(ranges, blocks[i])
        r == add_range(gone, p, size, Extent)
        kept == Min({block_sizes[i], size})
        same == kept = 0 \/ AsChar(byte) = LowByte(i)
    IN  /\ verdict = "running" /\ i \in held
        /\ UNCHANGED tracenum
        /\ honest' = (honest /\ (\/ p = NULL
                                 \/ /\ size > 0 /\ Placed(held \ {i}, p, size)
                                    /\ byte = LowByte(i)))
        /\ \/ /\ p = NULL
              /\ Reject("null") /\ UNCHANGED ranges
           \/ /\ p # NULL /\ size = 0
              /\ ranges' = gone /\ AssertFails
           \/ /\ p # NULL /\ size > 0 /\ ~r.ok
              /\ ranges' = gone /\ Reject("range")
           \/ /\ p # NULL /\ size > 0 /\ r.ok /\ ~same
              /\ ranges' = r.ranges /\ Reject("data")
           \/ /\ p # NULL /\ size > 0 /\ r.ok /\ same
              /\ ranges' = r.ranges /\ Remember(i, p, size)

Free(i) ==
    /\ verdict = "running" /\ i \in held
    /\ ranges' = remove_range(ranges, blocks[i])
    /\ held' = held \ {i}
    /\ UNCHANGED <<blocks, block_sizes, verdict, reason, errors, tracenum, honest>>

\* The last request is done: "as far as we know, this is a valid package".
Finish ==
    /\ verdict = "running"
    /\ verdict' = "valid"
    /\ UNCHANGED <<ranges, blocks, block_sizes, held, reason, errors, tracenum,
                   honest>>

\* What eval_mm_valid has come to when the package's mm_init has answered: a
\* failure is a malloc_error, and no request is made.
Started ==
    {[verdict |-> "running", reason |-> "none", errors |-> 0],
     [verdict |-> "invalid", reason |-> "init", errors |-> 1]}

\* eval_mm_valid on the next trace: read_trace gives new arrays, clear_ranges
\* empties the list that a failed trace has left behind.
NextTrace ==
    /\ verdict \in {"valid", "invalid"} /\ tracenum < MAX_TRACES
    /\ ranges' = clear_ranges(ranges)
    /\ blocks' = [i \in Ids |-> NULL] /\ block_sizes' = [i \in Ids |-> 0]
    /\ held' = {}
    /\ \E s \in Started :
          verdict' = s.verdict /\ reason' = s.reason /\ errors' = errors + s.errors
    /\ tracenum' = tracenum + 1 /\ honest' = TRUE

EvalInit ==
    /\ ranges = <<>>
    /\ blocks = [i \in Ids |-> NULL] /\ block_sizes = [i \in Ids |-> 0]
    /\ held = {}
    /\ \E s \in Started :
          verdict = s.verdict /\ reason = s.reason /\ errors = s.errors
    /\ tracenum = 1 /\ honest = TRUE

EvalNext ==
    \/ \E i \in Ids, size \in Sizes, p \in Answers : Alloc(i, size, p)
    \/ \E i \in Ids, size \in Sizes, p \in Answers, b \in Bytes :
          Realloc(i, size, p, b)
    \/ \E i \in Ids : Free(i)
    \/ Finish
    \/ NextTrace

EvalSpec == EvalInit /\ [][EvalNext]_evalVars

(***************************************************************************)
(* Properties                                                              *)
(***************************************************************************)
\* While a trace runs, the range list holds the extent of every block the
\* trace has allocated, each once, and nothing else: add_range, remove_range
\* and clear_ranges lose no block and leave none over from another trace.
RangesTrackHeld ==
    verdict \in {"running", "valid"} =>
        /\ Range(ranges) = {RangeOf(blocks[i], block_sizes[i]) : i \in held}
        /\ Len(ranges) = Cardinality(held)

\* eval_mm_valid finds fault with a package's blocks or data only when it has
\* broken a promise: no false alarm.
NoFalseAlarm == honest => reason \notin {"range", "data"}

\* "The payload must not overlap any other payloads" (add_range): a package
\* that is not rejected has not handed out overlapping payloads.
OverlapRejected ==
    verdict \in {"running", "valid"} =>
        \A i, j \in held : i # j =>
            ~Overlap(RangeOf(blocks[i], block_sizes[i]),
                     RangeOf(blocks[j], block_sizes[j]))
=============================================================================
