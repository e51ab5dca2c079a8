----------------------------- MODULE ReplayDriver -----------------------------
(***************************************************************************)
(* Replay, where a pass is one step for each request, implements the loop  *)
(* of Driver, where it is one step.                                        *)
(***************************************************************************)
EXTENDS Replay

\* main's loop over the traces as Driver states it.
Main == INSTANCE Driver WITH
    pc <- IF pc = "lines" THEN "read" ELSE pc,
    run_libc <- FALSE, verbose <- FALSE, num_tracefiles <- MAX_TRACES,
    package <- "mm",
    stats <- [p \in {"libc", "mm"} |->
                 [t \in 1 .. MAX_TRACES |->
                     IF p = "mm" THEN mm_stats[t]
                     ELSE [valid |-> FALSE, ops |-> 0, util |-> 0, secs |-> 0,
                           timed |-> FALSE]]],
    arenas <- IF InPass THEN arenas - 1 ELSE arenas,
    shown <- [util |-> -1, ops |-> -1, secs |-> -1],
    avg_tput <- [ops |-> 0, secs |-> 1],
    perfindex <- -1,
    OpCounts <- 0 .. MAX_LINES,
    Utils <- 0 .. 100,
    TPUT <- 1

\* Reading and replaying the traces request by request does what Driver says of
\* read_trace and of each pass.  A pass, and the arena it took, count there when
\* the pass ends.  Driver has no stage for a heap whose first mem_sbrk failed
\* unnoticed in mm_init: every pass begins with an empty arena.
ImplementsDriver == Main!Spec
===============================================================================
