# Verification of cso_malloc

TLA+ specifications, TLC models and TLAPS proofs for the allocator in `mm.c`
and for the driver, memory model and timing code around it. Line numbers refer
to `src/`. The build is 32-bit (`gcc -Wall -g -m32`), times with `gettimeofday`
(`USE_GETTOD` in `config.h`) and aligns to 8 bytes.

## The system

| Part | Source | Module | State |
|---|---|---|---|
| Allocator interface: `mm_init`, `mm_malloc`, `mm_free`, `mm_realloc` | mm.c 191-326 | Allocator, MMBlocks, MMWords | modelled |
| Splitting, coalescing, heap extension | mm.c 339-488 | MMBlocks, MMWords | modelled |
| Segregated free lists | mm.c 496-642 | MMBlocks, MMWords | modelled, except `get_node_listindex`, which nothing calls |
| Size arithmetic | mm.c 90-148, 569-578 | MMSizes | modelled |
| Heap checker `mm_check` | mm.c 684-723 | MMWords | modelled |
| Memory model | memlib.c | MMSizes (`mem_sbrk`), Replay, Driver | modelled, except `mem_deinit`, which nothing calls |
| Range list and `eval_mm_valid` | mdriver.c 378-462, 576-691 | RangeList, EvalValid, Replay | modelled |
| `eval_mm_util` | mdriver.c 704-784 | EvalUtil, Replay | modelled |
| `eval_mm_speed` | mdriver.c 791-832 | Replay, Driver | modelled |
| `read_trace`, `free_trace` | mdriver.c 472-566 | TraceReader, Replay | modelled |
| `main`'s stages, the libc evaluation, `printresults`, `sumresults` | mdriver.c 251-363, 840-1012 | Driver | modelled |
| Command line and team check | mdriver.c 150-252 | CommandLine | modelled |
| `fsecs` and its choice of timer | fsecs.c, config.h | Fsecs | modelled |
| K-best scheme | fcyc.c | KBest | modelled |
| Interval timer and `gettimeofday` | ftimer.c | FTimer | modelled |
| Cycle counter, `callibrate`, `mhz` | clock.c | CycleCounter, CompCounter | the x86 counter; `ovhd` is never called |
| Debug aids, scripts, traces | mm.c 725-783, testAlign.py, ... | - | not modelled |

`main` reads each trace file, replays it on the allocator with
`eval_mm_valid`, and if that succeeds replays it once more for utilization and
ten times for speed. Each replay starts with `mem_reset_brk` and `mm_init`. The
allocator gets its memory from `mem_sbrk`. Nothing runs concurrently: the
difficulty is in long sequences of calls, in data and bookkeeping that share
memory, and in boundaries.

## The modules

**Allocator** is the abstract specification: what a caller may rely on. Its
state is the caller's table of pointers and sizes. A successful call gives an
aligned payload that lies below `MAX_HEAP` and shares no byte with a payload the
caller still holds; a failed call changes nothing.

**MMSizes** holds the macros on sizes, `calc_list_index` and the failure test
of `mem_sbrk`. `size_t` values wrap at `SIZE_MOD`.

**MMBlocks** is `mm.c` on blocks and sequences. A block is named by its payload
address. `heap` records the size field, the THISALLOC and PREVALLOC bits, the
lists as sequences and the break. Every C function is an operator from heap to
heap under its own name; `AbsorbNext` and `AbsorbPrev` are cases 2 and 3 of
`coalesce`, and case 4 is both. The actions `Malloc`, `Realloc` and `Free` are
the caller's requests: any sequence in which only held blocks are freed or
reallocated, which is what a trace is.

**MMWords** is the same code on the words of the arena. Headers, footers, links
and the caller's data are all entries of `w.mem`, so data written over a tag
would be read as one. The caller fills each payload with its index, as
`eval_mm_valid` does, and checks it after a realloc. `AbstractHeap` reads a
block-level heap back from the words; `ImplementsBlocks` is the refinement.

**RangeList** is the list of payload extents with its three functions; the
extent of the heap is a parameter.

**EvalValid** is the driver's check of a package that may answer any call with
any pointer, leave any data, and fail in `mm_init`. The variable `honest` says whether it has kept
its promises, so that the verdict can be compared with the truth.

**EvalUtil** composes `eval_mm_util` with MMBlocks, for any sequence of legal
requests.

**TraceReader** is `read_trace`: a header, then lines until the end of the file,
then the two assertions. A request past `num_ops` is written behind the array,
which goes unnoticed or ends the program.

**Replay** composes MMBlocks, RangeList and TraceReader into `main`'s loop: each
trace is read and then replayed, request by request, by the three evaluations.
They share the trace's arrays, the package's globals, memlib's break and the
range list, as in the code; `owner` records to which arena a pointer in
`trace->blocks` belongs. Data is not part of Replay: the comparison after a
realloc is in EvalValid, for any package, and in MMWords, for `mm.c`. A failing
first `mem_sbrk` is there as in the code, but not reached: `mm_init` obtains a
new arena for itself, and the first block fits (`InitialHeapFits`). **ReplayDriver** states that this is what Driver says of
the loop, with a whole pass as one step (`ImplementsDriver`).

**Driver** is `main` as a sequence of stages for both packages. The evaluations
are reduced to their outcome. Reading `avg_mm_throughput` uninitialized is a
nondeterministic choice. A failing `mem_init`, or `calloc` of the results, ends the program. Throughputs are
kept as a number of requests and a time, so that a time of zero behaves as the
quotient of doubles does. **CommandLine** puts the options, in any order and
number, and the team check before it.

**CycleCounter** is the two-word subtraction of `get_counter`. **CompCounter**
is `callibrate` and the compensation that `get_comp_counter` derives from it.
**KBest** is `fcyc` on top of them: each run starts at any value of the counter,
takes some number of cycles and may see timer ticks; the `set_fcyc_*` functions
change its parameters between measurements. **FTimer** has the two other timers
of `ftimer.c`. **Fsecs** is `fsecs.c` over all three, one per value of `timer`,
as `config.h` chooses.

An `MC` module beside each gives TLC what it needs (symmetry, reference
definitions), and each `.cfg` is one run of it. Definitions whose name ends in a
suffix such as `_NoFooter` are faulty variants of the definition after them:
each is a plausible bug, and substituting it makes the property it belongs to
fail.

## The runs

Passing:

| Run | Checks | States |
|---|---|---|
| blocks | TypeOK, BlocksTileHeap, FreeListsExact, FooterTrustedOnlyWhenFree, AllocatedIsHeld, TotalIsHeld, UtilizationAtMostOne, HeldBlocksStay, KeepsPromise | 104,864 |
| words | HeapCheckStopsOnlyAtMerges, LinksMirror, FreeFootersAgree, PayloadsIntact, ReallocKeepsData, ImplementsBlocks | 36,935 |
| words_lists | LinksMirror, ImplementsBlocks | 11,450 |
| sizes | AdjustedSizeIsLeast, ListClassIsLog | 1,024 |
| eval_valid | RangesTrackHeld, NoFalseAlarm | 8,910 |
| replay | PassesRepeat, ValidNeverFails, BlocksAccepted, ReplayReadsWritten, HighWaterIsPeak, ImplementsDriver, WorkShrinks | 213,745 |
| driver | IndexOnlyWhenAllValid, ArenasBounded, IndexInRange, TotalsAgree, FileOptionWins, MainEnds | 95,601 |
| fsecs | RateIsLeast, KeepsSmallest, ClearStaysInBuffer, ElapsedIsExact, ResultIsFastest, MeasurementEnds | 86,999 |

What they show:

- blocks: any sequence of requests keeps the heap well formed, and the
  allocator is the abstract one; `eval_mm_util`'s total is what the trace holds,
  never more than the heap.
- words, words_lists: the same on raw words, where tags, links and data could
  overwrite each other. `mm_check`'s assertions on the end of the heap and on the
  lists hold between any two calls. Its size assertions do not always hold, but
  a block they stop at is a free block grown by merging, never the payload taken
  for a header that they look for.
- eval_valid: the range list is exact whatever a package answers, and a correct
  package is not reported.
- replay: every pass computes the same heap, whatever earlier passes and traces
  have left; a trace accepted by `eval_mm_valid` is not refused later; `mm.c` is
  never blamed for its blocks; the arrays are read only where they were written,
  although `read_trace` compares the counts only at the end; the high water mark
  is the trace's peak.
- driver: the index stands for complete, valid measurements, lies in 0..100 and
  is computed from the totals that are shown; `-f` and `-t` commute; `main` ends.
- fsecs: the result is what the fastest run, or all runs, took; see below for
  the exception that the wall clock makes.

Runs that show a disagreement between the code and what it says of itself:

| Run | Property | What happens |
|---|---|---|
| blocks_adjacent | NoAdjacentFree | `free_block` (mm.c 436-450) does not clear PREVALLOC in the next header; freeing in address order leaves free neighbours unmerged, against the comment at mm.c:373 |
| eval_overlap | OverlapRejected | `add_range` accepts a range that strictly contains an old one (mdriver.c:404) |
| eval_signed | NoFalseAlarm | a signed `char` is compared with `index & 0xFF`; from 128 on correct data is reported (mdriver.c:655, 662) |
| driver_throughput | ThroughputAssertHolds | the assertion at mdriver.c:1011 reads an unassigned variable when a trace is invalid |

Observations made while modelling that no run states:

- PREVALLOC is clear only in the epilogue, so case 3 of `coalesce` is reached
  only from `extend_heap` and case 4 never.
- `find_fit` looks at list heads only, so mm.c:269 ("No fit found, extend the
  heap") is reached although a fit exists behind a smaller head.
- The lists are by size in bytes, where the comment at mm.c:153 says words.
- `ADJUST_BYTESIZE` wraps for sizes just below 2^32.
- `mm_check` asserts that every block is below `MAX_BLOCK_ALLOCSIZE` (mm.c:710,
  720), an estimate of the "maximum size that is ever allocated by traces"
  (mm.c:60). Merged free blocks reach it on a heap that is in order, and a debug
  build then stops; in run `words` a malloc that extends the heap and a free are
  enough. HeapCheckStopsOnlyAtMerges says that there is no other cause.
- `read_trace` stores a request before it knows whether the array has room for
  it, and the index of an `f` line does not count for `max_index`.
- The `mem_reset_brk` before each `mm_init` is overtaken by the `mem_init` in it.
- `eval_mm_speed` updates `blocks` but not `block_sizes`; nothing reads the sizes
  after it.
- Traces that are all empty give a throughput of 0, for which the assertion at
  mdriver.c:1011 also fails.
- A cache block below `sizeof(int)` makes `clear` loop for ever; MeasurementEnds
  excludes it.
- A calibration that finds no ratio above `RECORDTHRESH` is repeated before
  every sample; what it has learnt is kept.
- A step of the wall clock shows with its full amount in `ftimer_gettod`'s
  answer, which may be negative; `ftimer_itimer` is not affected, but its timer
  ends the process when it expires.
- With the default eleven traces and ten timed runs `ArenasBounded` allows
  1 + 12 * 11 = 133 arenas of 20 MB; `mem_deinit` is never called.
- A negative smallest sample never satisfies `has_converged`; such a
  measurement ends at the sample limit.

### Bounds

- `SIZE_MOD` 1024 (blocks, words, sizes): all sizes of a 10-bit `size_t` are
  enumerated in `sizes`; in the others no request comes near the wrap.
- blocks: `PAGE_SIZE` 8, so the first block is 24 bytes and extensions are
  small; `MAX_HEAP` 112 is used up, and refused, within a few calls. Three
  indices and requests 0, 5, 13, 30 split, merge in both directions, extend and
  fail. Symmetric in the indices: the allocator never sees them.
- words: `MAX_HEAP` 80, `PAGE_SIZE` 4, three indices. Requests are whole words
  (`WordsAssumption`), since memory is modelled by the word. Free payloads keep
  old data, which is what makes this model large. `MAX_BLOCK_ALLOCSIZE` 40 is
  above every block given to a request and below `MAX_HEAP`, as in the build
  (`BoundAssumption`), so that free blocks grow past it. `words_lists` trades request
  sizes for five indices, so that one list grows to several nodes.
- `JUNK` 3 is what unwritten memory holds: a value that is neither NULL nor a
  well-formed header.
- eval_valid: a heap of 24 bytes, answers NULL, misaligned, out of range and
  overlapping; two traces, so that what one leaves over could reach the next.
- replay: two traces, files of at most `MAX_LINES` requests with any header, an
  arena that the larger request exhausts. Every malformed file of that size is
  among them. Free and realloc lines name indices that are allocated, as in
  every trace; `read_trace` does not check it.
- driver: two traces, two timed runs, up to `MAX_ARGS` options; `Secs` contains
  0 and `TPUT` is small, so that the cap is reached from both sides.
- fsecs: a counter of two 2-bit words with every start value; `kbest` 2 of at
  most four samples; calibration gaps below and above both thresholds; clocks
  with four microseconds to the second, so that both fields carry; two calls
  with one change of parameters between them.

Deadlock is checked in `replay`, `words` and `words_lists`. The other models end
when the program does, or at a bound on calls, arguments or sizes.

### Fairness

- CommandLine: weak fairness of `main`'s next step. It is sequential code that
  waits for nothing.
- Fsecs: weak fairness of the program's own steps, for the same reason, and of a
  look at the counter that finds user time advanced: `callibrate`'s loop is
  computation, so it spends user time.
- Replay assumes none. WorkShrinks is an action property: each step lowers a
  natural number, and deadlock is checked, so every behaviour that keeps going
  ends.

## The proofs

A theorem that names a property of a run states exactly that property, for every
value of the constants that the assumptions allow. HonestNotReported alone has a
condition more.

### The allocator

`MMBlocksLemmas` and `MMBlocksProofs` prove, for every page size, arena size and
position, number of lists, set of indices and set of requests:

| Theorem | States |
|---|---|
| Invariance | `Spec => []Inv` |
| TypeCorrect, TilingCorrect, ListsCorrect, FootersCorrect, HeldCorrect | the safety invariants of run `blocks` |
| HeldStay | the action property HeldBlocksStay |
| Refinement | MMBlocks implements Allocator (KeepsPromise) |
| TotalCorrect, UtilizationCorrect | TotalIsHeld and UtilizationAtMostOne of `eval_mm_util` |
| AdjustedSizeLeast | `ADJUST_BYTESIZE` gives the least block size that holds the payload and its header, as AdjustedSizeIsLeast of run `sizes` says of 10 bits |

Assumptions: `SizesAssumption` (`SIZE_MOD` a multiple of 16, an 8-aligned arena
that ends below `SIZE_MOD`), `RequestsAssumption` (adding a request, or two
pages, to an arena address does not wrap; without it `ADJUST_BYTESIZE` itself
may) and `InitialHeapFits` (the arena has room for the first block, whose size
is positive as an `int`, because `mm_init` tests for NULL where `mem_sbrk`
returns -1). AdjustedSizeLeast needs a `size_t` of more than 16 values: with 16
the smallest block does not fit into one.

The argument. `Inv` is the conjunction of the block-level invariants. None is
inductive alone: that a merge keeps the tiling needs the lists to hold exactly
the free blocks, that `coalesce` may follow a footer needs the PREVALLOC
discipline, and that the caller's blocks survive needs the tiling. Inside a call
the invariant is broken, so `WellFormed(h, pending)` names the free block that a
function has in hand and that is on no list. There is one lemma per C function
(`CoalesceKeeps`, `ExtendKeeps`, `SplitKeeps`, `AllocateKeeps`, `FreeKeeps`,
`MallocKeeps`, `ReallocKeeps`), each saying what the function makes of
`WellFormed` and that it leaves allocated blocks alone. `SecondRemoveIdle` is
why the second `remove_from_list` of `mm_malloc` is harmless. The action lemmas
follow from these, and the refinement from the tiling: two allocated blocks lie
apart, hence so do their payloads.

The totals of `eval_mm_util` are sums over the blocks held, and only finitely
many are held at a time (`UtilInv`). That the sum stays below the heap follows
from the tiling by taking away the highest block held, one at a time:
disjoint payloads below an address add up to no more than the address.
`DataLemmas` has what all the proofs need of numbers, sequences and sums over
finite sets: the library defines a sum by a recursive function that chooses an
element at a time, so the lemmas show that this function exists and that the
choice does not matter. It also has the induction over the naturals, as a
statement about a set of numbers.

### The replay

`ReplayPasses`, `ReplayRecords` and `ReplayProofs` prove, for every number of traces, of lines and
of timed runs, every arena, and every file, complete or not, in which only
indices that are allocated are freed or reallocated:

| Theorem | States |
|---|---|
| PassInvariance | `ReplaySpec => []PassInv` |
| RepeatCorrect, NeverFailsCorrect, ReadsCorrect, WorkCorrect | PassesRepeat, ValidNeverFails, ReplayReadsWritten and WorkShrinks of run `replay` |
| ReplayInvariance | `ReplaySpec => []ReplayInv` |
| AcceptedCorrect, PeakCorrect | BlocksAccepted and HighWaterIsPeak |
| DriverCorrect | Replay implements Driver (ImplementsDriver) |

The first two modules know mm.c only through `PackageServes`: `mm_init` gives an
empty heap in a new arena, and a call that does not fail serves its request, so
that the heap stays well formed and the caller's blocks stay where they are.
`ReplayProofs` shows this of mm.c (PackageCorrect), from the lemmas about the
allocator.

No property of Replay is inductive. That a pass repeats the first one needs to
know that the arrays it reads are its own, and that needs to know which indices
the trace holds at each request. `PassInv` has three parts:

- `ControlInv`: where `main` is, and that in a pass the trace is a complete one:
  as many requests as announced, no index above `max_index`, and every request
  legal after the ones before it (`Legal`).
- `HeapInv`: in a pass the heap is well formed, its allocated blocks are exactly
  the pointers of the indices held (`Holds`), and these were stored in this pass.
  This is the place of MMBlocks' invariant, carried from call to call
  by `PackageServes`.
- `RepeatInv`: the heap, and the pointers of the indices held, are those of the
  reference run of the same requests on a new heap; once `eval_mm_valid` has
  returned, that run has no failed request. Pointers of indices that are not held
  may differ between passes. A request reads none of them.

`ReplayInv` adds what the passes record: the sizes fit into their blocks
(`SizesInv`), the range list has one range for each index held (`RangesInv`),
the total and the high water mark are those of the requests so far
(`TotalsInv`), and no trace counts as valid before its first pass has ended
(`StatsInv`). AcceptedCorrect follows from the first three: a new block lies
apart from the others, so its payload overlaps no recorded range. For DriverCorrect, each action
of Replay is shown to be one of Driver's steps or a stuttering one, where a
pass counts when it ends (`Stage`, `Taken`).

### The timing code

`EvalProofs` proves, for every word size, threshold, set of gaps, number of
runs, start time and clock step:

| Theorem | States |
|---|---|
| GetCounterExact | the two-word subtraction with its borrow gives the cycles passed, if they are fewer than a turn of the counter |
| SampleExact, MhzCorrect | a sample of `fcyc`, and `mhz`'s rate, are what the run and the sleep took |
| RateCorrect, ClearInBuffer, ElapsedCorrect | RateIsLeast, ClearStaysInBuffer and ElapsedIsExact of run `fsecs` |
| SmallestCorrect, FastestCorrect | KeepsSmallest and ResultIsFastest of run `fsecs` |

GetCounterExact splits on whether the low words borrow and whether the counter
wraps, and ends in the uniqueness of quotient and remainder. `TimingInv` is the
inductive invariant of the rest: the rate is in the set of ratios seen and below
all others, the buffer is unallocated or of the size that clear reads, and
during a measurement the clock has moved by exactly what the runs and the clock
steps account for. The assumptions are the modules' own, with a run shorter than
a turn of the counter.

`SamplesInv` is the invariant behind the last two: while `fcyc` samples, `seen`
is in order, as long as `samplecount`, and `values` holds as many of its first
elements as there is room for. `SiftIs` shows that the insertion sort of
`add_sample` puts the new sample behind the last one that is not larger, and
`StoredHolds` that dropping the largest of `kbest + 1` values loses nothing that
a later sample could bring back.

### The driver

`DriverProofs` proves, for every number of traces, of timed runs and of options:

| Theorem | States |
|---|---|
| DriverInvariance | `CmdSpec => []DriverInv` |
| IndexSound, ArenaBound, OptionOrder | IndexOnlyWhenAllValid, ArenasBounded and FileOptionWins of run `driver` |
| IndexRange, TotalsCorrect | IndexInRange and TotalsAgree of run `driver` |

None of the first three is inductive: that the index is sound needs to know that
the loop has passed every trace when it ends (`Position`) and that each trace passed
without an error is valid and timed (`PassedAreValid`); the bound on the arenas
is kept stage by stage (`ArenasCounted`); the options need what getopt's loop
keeps of `-f` and `-t` (`OptionsConsistent`). There is one lemma per stage. The
other two are about sums over the traces. `ResultsInv` says that an error was
counted for a trace that is still marked invalid (`ErrorsShow`, with
`Undecided`: no trace is marked valid before its turn), so that after an error
neither `printresults` nor `sumresults` has totals, that every utilization is a
percentage, and that the totals shown are those of results that no longer change
(`ResultsKnown`).

### The correctness check

`EvalProofs` also proves, for every heap, every set of indices, sizes and answers
and every number of traces:

| Theorem | States |
|---|---|
| EvalInvariance | `EvalSpec => []EvalInv` |
| RangeListExact | RangesTrackHeld of run `eval_valid` |
| HonestNotReported | NoFalseAlarm of run `eval_valid`, if the low byte of every index is below 128 |

RangesTrackHeld is not inductive: `remove_range` finds a record by its start
only, so that the invariant adds that no two records, and no two blocks held,
start at the same address (`ListExact`). This follows from `add_range`'s overlap
test, because every block held has a positive size (`ArraysTyped`). The lemmas
ListRemove and ListAdd say what the two functions do to an exact list. The
condition of HonestNotReported is needed: run `eval_signed` has an index without
it.

### Only model-checked

- Everything about MMWords, ImplementsBlocks included: its lists are chains of
  words, and a proof needs for each list operation what it does to every chain.
- MainEnds and MeasurementEnds: liveness under fairness is outside the prover's
  reach. WorkCorrect is the part of termination that can be proved without it.
- ListClassIsLog: the provers do not interpret exponentiation. The proofs about
  the lists need only that `calc_list_index` depends on the size alone and is an
  index of a list.

## Not modelled

`usage`, the layout of what is printed, file names and the tracing macros (input
and output); `get_node_listindex`, `mem_deinit` and `ovhd` (never called);
`debuggable_memset` and `test_main` (debug builds); the counters for other
processors (not compiled); libc's allocator (external: a call succeeds or
fails); floating-point rounding in averages and rates.

## Plan

The step from MMWords to MMBlocks as a theorem, starting with the list
operations.
