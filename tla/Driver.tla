-------------------------------- MODULE Driver --------------------------------
(***************************************************************************)
(* mdriver.c's main after the command line: with -l the libc package is    *)
(* checked and timed on every trace; then every trace is read, checked     *)
(* (eval_mm_valid), and if valid measured for utilization and, RUNS times, *)
(* for speed; then the results are printed, summed and the performance     *)
(* index is reported.                                                      *)
(*                                                                         *)
(* The evaluations of mm.c call mem_reset_brk and mm_init, and mm_init     *)
(* calls memlib's mem_init, which takes a new arena from libc's malloc.    *)
(* Here an evaluation only succeeds or fails and leaves a measurement;     *)
(* what it does on a heap is in Replay, which implements this module.      *)
(***************************************************************************)
EXTENDS Integers, FiniteSetsExt

CONSTANTS
    MAX_TRACES, \* number of default trace files (11)
    RUNS,       \* runs of a speed function that fsecs times (10)
    OpCounts,   \* the values of num_ops
    Utils,      \* utilizations, in percent
    Secs,       \* what fsecs may return, in some unit of time
    TPUT        \* AVG_LIBC_THRUPUT, in requests per unit

ASSUME DriverAssumption ==
    /\ MAX_TRACES \in Nat \ {0} /\ RUNS \in Nat \ {0} /\ TPUT \in Nat \ {0}
    /\ OpCounts \subseteq Nat /\ Utils \subseteq 0 .. 100 /\ Secs \subseteq Int

VARIABLES
    run_libc, verbose, num_tracefiles, \* what the command line asks for
    pc,         \* the stage of main
    package,    \* the package being evaluated, "libc" or "mm"
    i,          \* the trace at hand
    runs,       \* runs of the speed function so far for trace i
    stats,      \* libc_stats and mm_stats; timed is set with secs
    errors,     \* calls of malloc_error
    arenas,     \* arenas obtained from malloc and not freed
    shown,      \* the last "Total" line of printresults, if any
    avg_tput,   \* avg_mm_throughput as requests and time; libc_tput before
    perfindex   \* -1 until it is computed

options == <<run_libc, verbose, num_tracefiles>>
results == <<shown, avg_tput, perfindex>>
vars == <<options, pc, package, i, runs, stats, errors, arenas, results>>

\* The stages in which the process has ended; "assert" is sumresults' assertion
\* on the throughput, "abort" one of read_trace.
Final == {"done", "exit", "abort", "assert"}
Traces == 1 .. num_tracefiles
mm_stats == stats["mm"]

Goto(stage) == pc' = stage

NoStats ==
    [valid |-> FALSE, ops |-> 0, util |-> 0, secs |-> 0, timed |-> FALSE]

\* mem_init: a new arena, and on to one of the stages in "next"; or exit(1)
\* when libc's malloc has none to give.
mem_init(next) ==
    \/ /\ arenas' = arenas + 1
       /\ \E stage \in next : Goto(stage)
    \/ /\ Goto("exit")
       /\ UNCHANGED arenas

(***************************************************************************)
(* One trace after the other                                               *)
(***************************************************************************)
\* -l: the libc package comes first; exit(1) when calloc has no libc_stats.
StartLibc ==
    /\ pc = "begin" /\ run_libc
    /\ package' = "libc"
    /\ \E stage \in {"read", "exit"} : Goto(stage)
    /\ UNCHANGED <<options, i, runs, stats, errors, arenas, results>>

\* mm.c's turn: at once, or when libc's results have been summed.
Start ==
    /\ pc = "start" \/ (pc = "begin" /\ ~run_libc)
    /\ mem_init({"read"})
    /\ package' = "mm" /\ i' = 1
    /\ UNCHANGED <<options, runs, stats, errors, results>>

\* A missing file is a unix_error, a malformed one fails an assertion or exits.
read_trace ==
    /\ pc = "read"
    /\ \/ /\ Goto("valid")
          /\ \E n \in OpCounts : stats' = [stats EXCEPT ![package][i].ops = n]
       \/ /\ \E stage \in {"exit", "abort"} : Goto(stage)
          /\ UNCHANGED stats
    /\ UNCHANGED <<options, package, i, runs, errors, arenas, results>>

\* free_trace, and on to the next trace or to the results.
NextTrace ==
    /\ i' = i + 1 /\ runs' = 0
    /\ Goto(IF i < num_tracefiles THEN "read" ELSE "print")

\* A call of libc that fails is a malloc_error and ends the program.
eval_libc_valid ==
    /\ pc = "valid" /\ package = "libc"
    /\ \/ /\ stats' = [stats EXCEPT !["libc"][i].valid = TRUE]
          /\ Goto("speed") /\ UNCHANGED errors
       \/ /\ errors' = errors + 1
          /\ Goto("exit") /\ UNCHANGED stats
    /\ UNCHANGED <<options, package, i, runs, arenas, results>>

\* A faulty variant in which a failed check is not counted.
eval_mm_valid_Silent ==
    /\ pc = "valid" /\ package = "mm"
    /\ \/ /\ mem_init({"util"})
          /\ stats' = [stats EXCEPT !["mm"][i].valid = (pc' = "util")]
          /\ UNCHANGED <<i, runs, errors>>
       \/ /\ arenas' = arenas + 1
          /\ NextTrace
          /\ UNCHANGED <<stats, errors>>
    /\ UNCHANGED <<options, package, results>>

\* Either the trace is valid, or one malloc_error was reported.
eval_mm_valid ==
    /\ pc = "valid" /\ package = "mm"
    /\ \/ /\ mem_init({"util"})
          /\ stats' = [stats EXCEPT !["mm"][i].valid = (pc' = "util")]
          /\ UNCHANGED <<i, runs, errors>>
       \/ /\ arenas' = arenas + 1
          /\ errors' = errors + 1
          /\ NextTrace
          /\ UNCHANGED stats
    /\ UNCHANGED <<options, package, results>>

\* A call that fails here is an app_error.
eval_mm_util ==
    /\ pc = "util"
    /\ mem_init({"speed", "exit"})
    /\ \E u \in Utils :
          stats' = IF pc' = "speed" THEN [stats EXCEPT !["mm"][i].util = u] ELSE stats
    /\ UNCHANGED <<options, package, i, runs, errors, results>>

\* A faulty variant whose loop never counts its runs; none of them fails.
eval_libc_speed_Forever ==
    /\ pc = "speed" /\ package = "libc" /\ runs < RUNS
    /\ Goto("speed")
    /\ UNCHANGED <<options, package, i, runs, stats, errors, arenas, results>>

\* A call of libc that fails ends the program.
eval_libc_speed ==
    /\ pc = "speed" /\ package = "libc" /\ runs < RUNS
    /\ \E stage \in {"speed", "exit"} : Goto(stage)
    /\ runs' = IF pc' = "speed" THEN runs + 1 ELSE runs
    /\ UNCHANGED <<options, package, i, stats, errors, arenas, results>>

\* A faulty variant whose loop never counts its runs.
eval_mm_speed_Forever ==
    /\ pc = "speed" /\ package = "mm" /\ runs < RUNS
    /\ mem_init({"speed", "exit"})
    /\ UNCHANGED <<options, package, i, runs, stats, errors, results>>

\* One of the runs that fsecs times.
eval_mm_speed ==
    /\ pc = "speed" /\ package = "mm" /\ runs < RUNS
    /\ mem_init({"speed", "exit"})
    /\ runs' = IF pc' = "speed" THEN runs + 1 ELSE runs
    /\ UNCHANGED <<options, package, i, stats, errors, results>>

\* The average of the runs is stored.
fsecs ==
    /\ pc = "speed" /\ runs = RUNS
    /\ \E s \in Secs :
          stats' = [stats EXCEPT ![package][i].secs = s, ![package][i].timed = TRUE]
    /\ NextTrace
    /\ UNCHANGED <<options, package, errors, arenas, results>>

(***************************************************************************)
(* The results                                                             *)
(***************************************************************************)
\* The sums of the stats over the traces in S.
Sums(s, S) ==
    [util |-> MapThenSumSet(LAMBDA t : s[t].util, S),
     ops  |-> MapThenSumSet(LAMBDA t : s[t].ops, S),
     secs |-> MapThenSumSet(LAMBDA t : s[t].secs, S)]

Correct(s) == {t \in Traces : s[t].valid}

Dashes == [util |-> -1, ops |-> -1, secs |-> -1]

\* A faulty variant that shows the sums of the valid traces in any case.
TotalLine_Always(s) == Sums(s, Correct(s))

\* printresults adds up the valid traces, and shows the sums if all are.
TotalLine(s) == IF Correct(s) = Traces THEN Sums(s, Correct(s)) ELSE Dashes

printresults ==
    /\ pc = "print"
    /\ shown' = IF package = "libc" \/ verbose THEN TotalLine(stats[package]) ELSE shown
    /\ Goto("sum")
    /\ UNCHANGED <<options, package, i, runs, stats, errors, arenas, avg_tput,
                   perfindex>>

\* A throughput is a quotient of doubles: positive also when secs is 0.
Throughput(s) == [ops |-> Sums(s, Traces).ops, secs |-> Sums(s, Traces).secs]
Positive(tput) == tput.ops > 0 /\ tput.secs >= 0
Garbage == {[ops |-> n, secs |-> 1] : n \in {0, 1}}

\* avg_mm_throughput is assigned only when every trace is valid; otherwise it
\* still is main's uninitialized variable.  libc_tput always is assigned.
sumresults ==
    /\ pc = "sum"
    /\ avg_tput' \in IF package = "libc" \/ Correct(mm_stats) = Traces
                     THEN {Throughput(stats[package])} ELSE Garbage
    /\ Goto(IF ~Positive(avg_tput') THEN "assert"
            ELSE IF package = "libc" THEN "start" ELSE "report")
    /\ UNCHANGED <<options, package, i, runs, stats, errors, arenas, shown,
                   perfindex>>

\* 60 percent for utilization: the average of n traces whose utils sum to "util".
UtilPoints(util, n) == (60 * util) \div (100 * n)

\* A faulty variant without the cap.
ThruPoints_NoCap(tput) ==
    IF tput.secs = 0 THEN 40 ELSE (40 * tput.ops) \div (TPUT * tput.secs)

\* 40 percent for throughput, relative to TPUT and capped there.
ThruPoints(tput) ==
    IF tput.ops > TPUT * tput.secs THEN 40
    ELSE (40 * tput.ops) \div (TPUT * tput.secs)

\* The performance index, or the number of errors.
Report ==
    /\ pc = "report"
    /\ perfindex' =
          IF errors = 0
          THEN UtilPoints(Sums(mm_stats, Traces).util, num_tracefiles)
               + ThruPoints(avg_tput)
          ELSE 0
    /\ Goto("done")
    /\ UNCHANGED <<options, package, i, runs, stats, errors, arenas, shown, avg_tput>>

\* What main holds when the options have been read.
Fresh ==
    /\ package = "mm" /\ i = 1 /\ runs = 0
    /\ stats = [p \in {"libc", "mm"} |-> [t \in 1 .. MAX_TRACES |-> NoStats]]
    /\ errors = 0 /\ arenas = 0
    /\ shown = Dashes /\ avg_tput = [ops |-> 0, secs |-> 1] /\ perfindex = -1

Init ==
    /\ run_libc \in BOOLEAN /\ verbose \in BOOLEAN
    /\ num_tracefiles \in {1, MAX_TRACES}
    /\ pc = "begin"
    /\ Fresh

Next ==
    \/ StartLibc \/ Start
    \/ read_trace
    \/ eval_libc_valid \/ eval_libc_speed
    \/ eval_mm_valid \/ eval_mm_util \/ eval_mm_speed
    \/ fsecs
    \/ printresults
    \/ sumresults
    \/ Report

Spec == Init /\ [][Next]_vars

(***************************************************************************)
(* Properties                                                              *)
(***************************************************************************)
\* main prints a performance index (errors = 0) only when every trace was
\* valid and timed, so that the averages mean something.
IndexOnlyWhenAllValid ==
    pc \in {"report", "done"} /\ errors = 0 =>
        \A t \in Traces : mm_stats[t].valid /\ mm_stats[t].timed

\* The driver asks libc's malloc for at most one arena in main and RUNS + 2 per
\* trace, none of which is freed: what mm_init's call of mem_init costs.
ArenasBounded ==
    package = "mm" =>
        arenas <= 1 + (RUNS + 2) * (i - 1) +
                  (CASE pc = "util" -> 1 [] pc = "speed" -> 2 + runs
                     [] pc \in Final -> RUNS + 2 [] OTHER -> 0)

\* The reported index lies between 0 and 100, as its "/100" says: utilizations
\* are fractions, and the credit for throughput is capped also when the runs
\* took no measurable time.
IndexInRange == pc = "done" => perfindex \in 0 .. 100

\* The totals that printresults shows are those from which sumresults and main
\* compute the index, and with an error on any trace neither has totals: the
\* two loops over the stats, one over the valid traces and one over all, agree.
TotalsAgree ==
    pc = "done" /\ verbose =>
        shown = IF errors = 0 THEN Sums(mm_stats, Traces) ELSE Dashes

\* sumresults' assertion on the throughput holds.
ThroughputAssertHolds == pc # "assert"
=============================================================================
