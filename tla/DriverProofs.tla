----------------------------- MODULE DriverProofs -----------------------------
(***************************************************************************)
(* What main promises, for every number of traces and of timed runs, and   *)
(* every command line: the index is reported only for valid traces, lies   *)
(* between 0 and 100 and belongs to the totals that are shown; the arenas  *)
(* are bounded; the order of -f and -t does not matter.                    *)
(***************************************************************************)
EXTENDS CommandLine, DataLemmas

Stages ==
    {"options", "begin", "start", "read", "valid", "util", "speed", "print", "sum",
     "report"} \cup Final

StatsRecord ==
    [valid : BOOLEAN, ops : Int, util : Int, secs : Int, timed : BOOLEAN]

\* The stages of the loop over the traces, and those after it.
Loop == {"read", "valid", "util", "speed"}
Results == {"print", "sum", "start", "report", "done"}

DriverTypes ==
    /\ pc \in Stages /\ package \in {"libc", "mm"}
    /\ i \in Nat \ {0} /\ runs \in 0 .. RUNS /\ errors \in Nat /\ arenas \in Nat
    /\ stats \in [{"libc", "mm"} -> [1 .. MAX_TRACES -> StatsRecord]]
    /\ num_tracefiles \in 0 .. MAX_TRACES

\* Where main is in its loops.
Position ==
    /\ pc \in {"begin"} \cup Loop \cup Results => num_tracefiles \in 1 .. MAX_TRACES
    /\ pc \in {"options", "begin"} => package = "mm" /\ i = 1 /\ runs = 0
    /\ pc \in Loop => i <= num_tracefiles
    /\ pc \in Results => i = num_tracefiles + 1
    /\ pc \in Loop \cup Results /\ pc # "speed" => runs = 0
    /\ pc \in {"util", "report", "done"} => package = "mm"
    /\ pc = "start" => package = "libc"

\* While no error has been counted, every trace that mm.c's loop has passed is
\* valid and timed.
PassedAreValid ==
    package = "mm" /\ errors = 0 =>
        /\ pc \in Loop \cup Results =>
              \A t \in 1 .. num_tracefiles :
                  t < i => stats["mm"][t].valid /\ stats["mm"][t].timed
        /\ pc \in {"util", "speed"} => stats["mm"][i].valid

\* The arenas of the traces before the k-th.
Cost(k) == (RUNS + 2) * (k - 1)

\* ArenasBounded, stage by stage; libc's turn takes no arena.
ArenasCounted ==
    /\ package = "libc" \/ pc \in {"options", "begin"} => arenas = 0
    /\ package = "mm" =>
          /\ pc = "util" => arenas <= 2 + Cost(i)
          /\ pc = "speed" => arenas <= 3 + runs + Cost(i)
          /\ pc \in Final => arenas <= 3 + RUNS + Cost(i)
          /\ pc \notin {"util", "speed"} \cup Final => arenas <= 1 + Cost(i)

\* What getopt has left of -f and -t.
OptionsConsistent ==
    /\ cmd \in [run_libc : BOOLEAN, verbose : BOOLEAN, team_check : BOOLEAN,
                num_tracefiles : {0, 1}, tracedir : Dirs \cup {TRACEDIR, "./"},
                args : Nat, file_given : BOOLEAN, dir_given : Dirs \cup {TRACEDIR}]
    /\ cmd.file_given = (cmd.num_tracefiles = 1)
    /\ IF cmd.file_given THEN cmd.tracedir = "./" ELSE cmd.tracedir = cmd.dir_given
    /\ FileOptionWins

DriverInv ==
    DriverTypes /\ Position /\ PassedAreValid /\ ArenasCounted /\ OptionsConsistent

\* The cost of one more trace.
LEMMA CostFacts ==
    ASSUME NEW k \in Nat \ {0}
    PROVE  Cost(k) \in Nat /\ Cost(k + 1) = Cost(k) + RUNS + 2 /\ Cost(1) = 0
  <1>1. RUNS + 2 \in Nat /\ RUNS \in Nat /\ k - 1 \in Nat
    BY DriverAssumption
  <1>2. \A a, b \in Nat : a * b \in Nat /\ a * (b + 1) = a * b + a /\ a * 0 = 0
    OBVIOUS
  <1>3. (k + 1) - 1 = (k - 1) + 1 /\ 1 - 1 = 0
    BY <1>1
  <1>. QED BY <1>1, <1>2, <1>3 DEF Cost

\* The bound by stages is ArenasBounded.
LEMMA ArenasImplies == DriverTypes /\ ArenasCounted => ArenasBounded
  <1> SUFFICES ASSUME DriverTypes, ArenasCounted, package = "mm"
               PROVE  arenas <= 1 + (RUNS + 2) * (i - 1) +
                        (CASE pc = "util" -> 1 [] pc = "speed" -> 2 + runs
                           [] pc \in Final -> RUNS + 2 [] OTHER -> 0)
    BY DEF ArenasBounded
  <1>1. Cost(i) \in Nat /\ (RUNS + 2) * (i - 1) = Cost(i) /\ runs \in Nat /\ RUNS \in Nat
        /\ arenas \in Nat
    BY CostFacts, DriverAssumption DEF DriverTypes, Cost
  <1>2. CASE pc = "util"
    BY <1>1, <1>2 DEF ArenasCounted, Final
  <1>3. CASE pc = "speed"
    BY <1>1, <1>3 DEF ArenasCounted, Final
  <1>4. CASE pc \in Final
    BY <1>1, <1>4 DEF ArenasCounted, Final
  <1>5. CASE pc \notin {"util", "speed"} \cup Final
    BY <1>1, <1>5 DEF ArenasCounted, Final
  <1>. QED BY <1>2, <1>3, <1>4, <1>5

\* One field, or several, of one entry of the stats change.
LEMMA StatsUpdate ==
    ASSUME stats \in [{"libc", "mm"} -> [1 .. MAX_TRACES -> StatsRecord]],
           NEW p \in {"libc", "mm"}, NEW t \in 1 .. MAX_TRACES, NEW r \in StatsRecord,
           stats' = [stats EXCEPT ![p][t] = r]
    PROVE  /\ stats' \in [{"libc", "mm"} -> [1 .. MAX_TRACES -> StatsRecord]]
           /\ stats'[p][t] = r
           /\ \A u \in 1 .. MAX_TRACES : u # t => stats'[p][u] = stats[p][u]
           /\ \A q \in {"libc", "mm"} : q # p => stats'[q] = stats[q]
  BY Zenon

\* What storing a number in an entry of the stats leaves of it.
LEMMA NumberUpdate ==
    ASSUME NEW r \in StatsRecord, NEW n \in Int
    PROVE  /\ [r EXCEPT !.ops = n] \in StatsRecord
           /\ [r EXCEPT !.util = n] \in StatsRecord /\ [r EXCEPT !.util = n].valid = r.valid
           /\ [r EXCEPT !.secs = n, !.timed = TRUE] \in StatsRecord
           /\ [r EXCEPT !.secs = n, !.timed = TRUE].valid = r.valid
           /\ [r EXCEPT !.secs = n, !.timed = TRUE].timed
  BY Zenon DEF StatsRecord

\* What storing a verdict in an entry of the stats leaves of it.
LEMMA ValidUpdate ==
    ASSUME NEW r \in StatsRecord, NEW b \in BOOLEAN
    PROVE  [r EXCEPT !.valid = b] \in StatsRecord /\ [r EXCEPT !.valid = b].valid = b
  BY DEF StatsRecord

\* In the loop, the trace at hand has its entry in the stats.
LEMMA AtTrace ==
    ASSUME DriverTypes, Position, pc \in Loop
    PROVE  /\ i \in 1 .. num_tracefiles /\ num_tracefiles \in 1 .. MAX_TRACES
           /\ i \in 1 .. MAX_TRACES
           /\ \A p \in {"libc", "mm"} : stats[p][i] \in StatsRecord
           /\ Cost(i) \in Nat /\ Cost(i + 1) = Cost(i) + RUNS + 2
  <1>1. i \in Nat \ {0} /\ i <= num_tracefiles /\ num_tracefiles \in 1 .. MAX_TRACES
    BY DEF DriverTypes, Position
  <1>2. MAX_TRACES \in Nat
    BY DriverAssumption
  <1>3. i \in 1 .. MAX_TRACES /\ i \in 1 .. num_tracefiles
    BY <1>1, <1>2
  <1>4. \A p \in {"libc", "mm"} : stats[p] \in [1 .. MAX_TRACES -> StatsRecord]
    BY DEF DriverTypes
  <1>. QED BY <1>1, <1>3, <1>4, CostFacts, Zenon

\* The stages that Driver's steps leave and reach, and the options they keep.
LEMMA OptionsKept ==
    ASSUME OptionsConsistent, Next, UNCHANGED cmd
    PROVE  OptionsConsistent' /\ UNCHANGED options
  <1>1. pc \notin {"options", "exit"} /\ UNCHANGED <<run_libc, verbose, num_tracefiles>>
    BY DEF Next, StartLibc, Start, read_trace, eval_libc_valid, eval_libc_speed,
           eval_mm_valid, eval_mm_util, eval_mm_speed, fsecs, printresults, sumresults,
           Report, options
  <1>. QED BY <1>1 DEF OptionsConsistent, FileOptionWins, options

(***************************************************************************)
(* Driver's steps                                                          *)
(***************************************************************************)
\* What the lemmas on single steps are about.
MainInv == DriverTypes /\ Position /\ PassedAreValid /\ ArenasCounted

\* The first trace of either package.
LEMMA StartKept ==
    ASSUME MainInv, StartLibc \/ Start
    PROVE  MainInv'
  <1> USE DEF MainInv, DriverTypes, Position, Stages, Loop, Results, Final
  <1>1. Cost(1) = 0
    BY CostFacts
  <1>2. CASE StartLibc
    BY <1>2 DEF StartLibc, Goto, options, PassedAreValid, ArenasCounted
  <1>3. CASE Start
    <2>1. arenas = 0
      BY <1>3 DEF Start, ArenasCounted
    <2>2. /\ package' = "mm" /\ i' = 1 /\ UNCHANGED <<runs, errors, stats, num_tracefiles>>
          /\ \/ pc' = "read" /\ arenas' = arenas + 1
             \/ pc' = "exit" /\ arenas' = arenas
      BY <1>3 DEF Start, mem_init, Goto, options
    <2>3. num_tracefiles \in 1 .. MAX_TRACES /\ runs = 0
      BY <1>3 DEF Start
    <2>4. DriverTypes' /\ Position'
      BY <2>2, <2>3
    <2>5. PassedAreValid'
      BY <2>2, <2>3 DEF PassedAreValid
    <2>6. ArenasCounted'
      BY <1>1, <2>1, <2>2, DriverAssumption DEF ArenasCounted
    <2>. QED BY <2>4, <2>5, <2>6, Zenon
  <1>. QED BY <1>2, <1>3

\* read_trace stores num_ops, or ends the program.
LEMMA ReadKept ==
    ASSUME MainInv, read_trace
    PROVE  MainInv'
  <1> USE DEF MainInv, DriverTypes, Position, Stages, Loop, Results, Final
  <1>1. /\ pc = "read" /\ UNCHANGED <<package, i, runs, errors, arenas, num_tracefiles>>
        /\ i \in 1 .. num_tracefiles /\ num_tracefiles \in 1 .. MAX_TRACES
        /\ i \in 1 .. MAX_TRACES /\ stats[package][i] \in StatsRecord
    BY AtTrace DEF read_trace, options
  <1>2. CASE pc' = "valid" /\ \E n \in OpCounts : stats' = [stats EXCEPT ![package][i].ops = n]
    <2>1. PICK n \in OpCounts : stats' = [stats EXCEPT ![package][i].ops = n]
      BY <1>2, Zenon
    <2> DEFINE r == [stats[package][i] EXCEPT !.ops = n]
    <2>2. n \in Int
      BY DriverAssumption
    <2>3. r \in StatsRecord
      BY <1>1, <2>2, NumberUpdate, Zenon
    <2>4. stats' = [stats EXCEPT ![package][i] = r]
      BY <2>1
    <2> HIDE DEF r
    <2>5. /\ stats' \in [{"libc", "mm"} -> [1 .. MAX_TRACES -> StatsRecord]]
          /\ \A u \in 1 .. MAX_TRACES : u # i => stats'["mm"][u] = stats["mm"][u]
      BY <1>1, <2>3, <2>4, StatsUpdate
    <2>6. DriverTypes' /\ Position'
      BY <1>1, <1>2, <2>5
    <2>7. PassedAreValid'
      BY <1>1, <1>2, <2>5 DEF PassedAreValid
    <2>8. ArenasCounted'
      BY <1>1, <1>2 DEF ArenasCounted
    <2>. QED BY <2>6, <2>7, <2>8, Zenon
  <1>3. CASE pc' \in {"exit", "abort"} /\ UNCHANGED stats
    <2>1. Cost(i) \in Nat /\ RUNS \in Nat
      BY CostFacts, DriverAssumption, Zenon
    <2>2. DriverTypes' /\ Position'
      BY <1>1, <1>3
    <2>3. PassedAreValid'
      BY <1>1, <1>3 DEF PassedAreValid
    <2>4. ArenasCounted'
      BY <1>1, <1>3, <2>1 DEF ArenasCounted
    <2>. QED BY <2>2, <2>3, <2>4, Zenon
  <1>. QED BY <1>2, <1>3 DEF read_trace, Goto

\* The end of an evaluation that goes on to the next trace, whose entry r is
\* final, or was given up with an error.
LEMMA NextTraceKept ==
    ASSUME MainInv, pc \in Loop, NextTrace,
           UNCHANGED <<package, num_tracefiles>>, arenas' \in Nat, errors' \in Nat,
           stats' \in [{"libc", "mm"} -> [1 .. MAX_TRACES -> StatsRecord]],
           package = "libc" => arenas' = 0,
           package = "mm" => arenas' <= 1 + Cost(i + 1),
           package = "mm" /\ errors' = 0 =>
              /\ errors = 0 /\ stats'["mm"][i].valid /\ stats'["mm"][i].timed
              /\ \A u \in 1 .. MAX_TRACES : u # i => stats'["mm"][u] = stats["mm"][u]
    PROVE  MainInv'
  <1>1. /\ i \in 1 .. num_tracefiles /\ num_tracefiles \in 1 .. MAX_TRACES
        /\ num_tracefiles \in Nat
    BY AtTrace DEF MainInv
  <1>2. /\ i' = i + 1 /\ runs' = 0 /\ num_tracefiles' = num_tracefiles
        /\ pc' = IF i < num_tracefiles THEN "read" ELSE "print"
    BY DEF NextTrace, Goto
  <1>3. DriverTypes'
    <2>1. i' \in Nat \ {0} /\ runs' \in 0 .. RUNS
      BY <1>1, <1>2, DriverAssumption
    <2>2. pc' \in Stages
      BY <1>2 DEF Stages
    <2>. QED BY <1>2, <2>1, <2>2 DEF MainInv, DriverTypes
  <1>4. Position'
    BY <1>1, <1>2 DEF Position, Loop, Results
  <1>5. PassedAreValid'
    <2> SUFFICES ASSUME package = "mm", errors' = 0, NEW t \in 1 .. num_tracefiles, t < i + 1
                 PROVE  stats'["mm"][t].valid /\ stats'["mm"][t].timed
      BY <1>2 DEF PassedAreValid
    <2>1. CASE t = i
      BY <2>1
    <2>2. CASE t # i
      <3>1. t < i /\ t \in 1 .. MAX_TRACES
        BY <1>1, <2>2, DriverAssumption
      <3>2. stats["mm"][t].valid /\ stats["mm"][t].timed
        BY <3>1 DEF MainInv, PassedAreValid
      <3>. QED BY <2>2, <3>1, <3>2
    <2>. QED BY <2>1, <2>2
  <1>6. ArenasCounted'
    BY <1>2 DEF ArenasCounted, Final
  <1>. QED BY <1>3, <1>4, <1>5, <1>6 DEF MainInv

\* The end of the program in the middle of the loop.
LEMMA ExitKept ==
    ASSUME MainInv, pc \in Loop, pc' = "exit",
           UNCHANGED <<package, i, runs, num_tracefiles, stats>>,
           arenas' \in Nat, errors' \in Nat,
           package = "libc" => arenas' = 0,
           package = "mm" => arenas' <= 3 + RUNS + Cost(i)
    PROVE  MainInv'
  <1>1. DriverTypes' /\ Position'
    BY DEF MainInv, DriverTypes, Position, Stages, Final, Loop, Results
  <1>2. PassedAreValid' /\ ArenasCounted'
    BY DEF PassedAreValid, ArenasCounted, Final, Loop, Results
  <1>. QED BY <1>1, <1>2 DEF MainInv

\* The evaluations of the libc package.
LEMMA LibcKept ==
    ASSUME MainInv, eval_libc_valid \/ eval_libc_speed
    PROVE  MainInv'
  <1>1. /\ pc \in Loop /\ package = "libc" /\ arenas = 0
        /\ UNCHANGED <<package, i, arenas, num_tracefiles>>
    BY DEF MainInv, ArenasCounted, eval_libc_valid, eval_libc_speed, options, Loop
  <1>2. /\ i \in 1 .. num_tracefiles /\ num_tracefiles \in 1 .. MAX_TRACES
        /\ i \in 1 .. MAX_TRACES /\ stats["libc"][i] \in StatsRecord
    BY <1>1, AtTrace DEF MainInv
  <1>3. CASE pc' = "exit"
    <2>1. UNCHANGED <<runs, stats>> /\ errors' \in Nat /\ arenas' \in Nat
      <3>1. errors \in Nat /\ arenas \in Nat
        BY DEF MainInv, DriverTypes
      <3>2. CASE eval_libc_valid
        BY <1>1, <1>3, <3>1, <3>2 DEF eval_libc_valid, Goto
      <3>3. CASE eval_libc_speed
        BY <1>1, <1>3, <3>1, <3>3 DEF eval_libc_speed, Goto
      <3>. QED BY <3>2, <3>3
    <2>. QED BY <1>1, <1>3, <2>1, ExitKept
  <1>4. CASE pc' # "exit" /\ eval_libc_valid
    <2> DEFINE r == [stats["libc"][i] EXCEPT !.valid = TRUE]
    <2>1. r \in StatsRecord
      BY <1>2, ValidUpdate, Zenon
    <2>2. /\ pc = "valid" /\ pc' = "speed" /\ stats' = [stats EXCEPT !["libc"][i] = r]
          /\ UNCHANGED <<errors, runs>>
      BY <1>4 DEF eval_libc_valid, Goto
    <2> HIDE DEF r
    <2>3. stats' \in [{"libc", "mm"} -> [1 .. MAX_TRACES -> StatsRecord]]
      BY <1>2, <2>1, <2>2, StatsUpdate DEF MainInv, DriverTypes
    <2>4. DriverTypes' /\ Position'
      BY <1>1, <1>2, <2>2, <2>3 DEF MainInv, DriverTypes, Position, Stages, Loop, Results
    <2>5. PassedAreValid' /\ ArenasCounted'
      BY <1>1 DEF PassedAreValid, ArenasCounted
    <2>. QED BY <2>4, <2>5 DEF MainInv
  <1>5. CASE pc' # "exit" /\ eval_libc_speed
    <2>1. /\ pc = "speed" /\ pc' = "speed" /\ runs < RUNS /\ runs' = runs + 1
          /\ UNCHANGED <<errors, stats>>
      BY <1>5 DEF eval_libc_speed, Goto
    <2>2. runs' \in 0 .. RUNS
      BY <2>1, DriverAssumption DEF MainInv, DriverTypes
    <2>3. DriverTypes' /\ Position'
      BY <1>1, <2>1, <2>2 DEF MainInv, DriverTypes, Position, Stages, Loop, Results
    <2>4. PassedAreValid' /\ ArenasCounted'
      BY <1>1 DEF PassedAreValid, ArenasCounted
    <2>. QED BY <2>3, <2>4 DEF MainInv
  <1>. QED BY <1>3, <1>4, <1>5

\* What AtTrace and the bound on the arenas say when mm.c is evaluated.
LEMMA AtMMTrace ==
    ASSUME MainInv, pc \in Loop, package = "mm"
    PROVE  /\ i \in 1 .. num_tracefiles /\ num_tracefiles \in 1 .. MAX_TRACES
           /\ i \in 1 .. MAX_TRACES /\ stats["mm"][i] \in StatsRecord
           /\ Cost(i) \in Nat /\ Cost(i + 1) = Cost(i) + RUNS + 2
           /\ RUNS \in Nat \ {0} /\ arenas \in Nat /\ runs \in 0 .. RUNS /\ errors \in Nat
           /\ pc \in {"read", "valid"} => arenas <= 1 + Cost(i)
           /\ pc = "util" => arenas <= 2 + Cost(i)
           /\ pc = "speed" => arenas <= 3 + runs + Cost(i)
  <1>1. DriverTypes /\ Position /\ ArenasCounted
    BY DEF MainInv
  <1>2. /\ i \in 1 .. num_tracefiles /\ num_tracefiles \in 1 .. MAX_TRACES
        /\ i \in 1 .. MAX_TRACES /\ stats["mm"][i] \in StatsRecord
        /\ Cost(i) \in Nat /\ Cost(i + 1) = Cost(i) + RUNS + 2
    BY <1>1, AtTrace
  <1>3. RUNS \in Nat \ {0} /\ arenas \in Nat /\ runs \in 0 .. RUNS /\ errors \in Nat
    BY <1>1, DriverAssumption DEF DriverTypes
  <1>4. /\ pc \in {"read", "valid"} => arenas <= 1 + Cost(i)
        /\ pc = "util" => arenas <= 2 + Cost(i)
        /\ pc = "speed" => arenas <= 3 + runs + Cost(i)
    BY <1>1 DEF ArenasCounted, Final
  <1>. QED BY <1>2, <1>3, <1>4

\* eval_mm_valid: valid, or one more error.
LEMMA ValidKept ==
    ASSUME MainInv, eval_mm_valid
    PROVE  MainInv'
  <1>1. pc = "valid" /\ pc \in Loop /\ package = "mm" /\ UNCHANGED <<package, num_tracefiles>>
    BY DEF eval_mm_valid, options, Loop
  <1>2. /\ i \in 1 .. num_tracefiles /\ num_tracefiles \in 1 .. MAX_TRACES
        /\ i \in 1 .. MAX_TRACES /\ stats["mm"][i] \in StatsRecord
        /\ Cost(i) \in Nat /\ Cost(i + 1) = Cost(i) + RUNS + 2
        /\ RUNS \in Nat \ {0} /\ arenas \in Nat /\ errors \in Nat /\ arenas <= 1 + Cost(i)
    BY <1>1, AtMMTrace
  <1>3. CASE mem_init({"util"}) /\ stats' = [stats EXCEPT !["mm"][i].valid = (pc' = "util")]
             /\ UNCHANGED <<i, runs, errors>>
    <2> DEFINE r == [stats["mm"][i] EXCEPT !.valid = (pc' = "util")]
    <2>1. r \in StatsRecord /\ r.valid = (pc' = "util")
      <3>1. (pc' = "util") \in BOOLEAN
        OBVIOUS
      <3>. QED BY <1>2, <3>1, ValidUpdate, Zenon
    <2>2. stats' = [stats EXCEPT !["mm"][i] = r]
      BY <1>3
    <2> HIDE DEF r
    <2>3. /\ stats' \in [{"libc", "mm"} -> [1 .. MAX_TRACES -> StatsRecord]]
          /\ stats'["mm"][i] = r
          /\ \A u \in 1 .. MAX_TRACES : u # i => stats'["mm"][u] = stats["mm"][u]
      BY <1>2, <2>1, <2>2, StatsUpdate, Zenon DEF MainInv, DriverTypes
    <2>4. \/ pc' = "util" /\ arenas' = arenas + 1
          \/ pc' = "exit" /\ arenas' = arenas
      BY <1>3 DEF mem_init, Goto
    <2>5. DriverTypes' /\ Position'
      BY <1>1, <1>2, <1>3, <2>3, <2>4
         DEF MainInv, DriverTypes, Position, Stages, Final, Loop, Results
    <2>6. PassedAreValid'
      <3>1. CASE pc' = "exit"
        BY <3>1 DEF PassedAreValid, Loop, Results
      <3>2. CASE pc' = "util"
        <4>1. \A t \in 1 .. num_tracefiles : t < i => t # i /\ t \in 1 .. MAX_TRACES
          BY <1>2, DriverAssumption
        <4>2. SUFFICES ASSUME errors = 0
                       PROVE  /\ stats'["mm"][i].valid
                              /\ \A t \in 1 .. num_tracefiles : t < i =>
                                    stats'["mm"][t].valid /\ stats'["mm"][t].timed
          BY <1>1, <1>3 DEF PassedAreValid
        <4>3. \A t \in 1 .. num_tracefiles : t < i =>
                 stats["mm"][t].valid /\ stats["mm"][t].timed
          BY <1>1, <4>2 DEF MainInv, PassedAreValid
        <4>. QED BY <2>1, <2>3, <3>2, <4>1, <4>3, Zenon
      <3>. QED BY <2>4, <3>1, <3>2
    <2>7. ArenasCounted'
      BY <1>1, <1>2, <1>3, <2>4 DEF ArenasCounted, Final
    <2>. QED BY <2>5, <2>6, <2>7 DEF MainInv
  <1>4. CASE arenas' = arenas + 1 /\ errors' = errors + 1 /\ NextTrace /\ UNCHANGED stats
    <2>1. /\ arenas' \in Nat /\ errors' \in Nat /\ errors' # 0 /\ arenas' <= 1 + Cost(i + 1)
      BY <1>2, <1>4
    <2>2. stats' \in [{"libc", "mm"} -> [1 .. MAX_TRACES -> StatsRecord]]
      BY <1>4 DEF MainInv, DriverTypes
    <2>. QED BY <1>1, <1>4, <2>1, <2>2, NextTraceKept
  <1>. QED BY <1>3, <1>4 DEF eval_mm_valid

\* eval_mm_util, which ends the program when a call fails.
LEMMA UtilKept ==
    ASSUME MainInv, eval_mm_util
    PROVE  MainInv'
  <1>1. /\ pc = "util" /\ pc \in Loop /\ package = "mm"
        /\ UNCHANGED <<package, i, runs, errors, num_tracefiles>>
    BY DEF eval_mm_util, options, Loop, MainInv, Position
  <1>2. /\ i \in 1 .. num_tracefiles /\ num_tracefiles \in 1 .. MAX_TRACES
        /\ i \in 1 .. MAX_TRACES /\ stats["mm"][i] \in StatsRecord
        /\ Cost(i) \in Nat /\ RUNS \in Nat \ {0} /\ arenas \in Nat /\ errors \in Nat
        /\ arenas <= 2 + Cost(i)
    BY <1>1, AtMMTrace
  <1>3. /\ pc' \in {"speed", "exit"} /\ arenas' \in {arenas, arenas + 1}
    BY DEF eval_mm_util, mem_init, Goto
  <1>4. CASE pc' = "exit"
    <2>1. UNCHANGED stats
      BY <1>4 DEF eval_mm_util
    <2>2. arenas' \in Nat /\ arenas' <= 3 + RUNS + Cost(i)
      BY <1>2, <1>3
    <2>. QED BY <1>1, <1>2, <1>4, <2>1, <2>2, ExitKept
  <1>5. CASE pc' = "speed"
    <2>1. PICK u \in Utils : stats' = [stats EXCEPT !["mm"][i].util = u]
      BY <1>5, Zenon DEF eval_mm_util
    <2> DEFINE r == [stats["mm"][i] EXCEPT !.util = u]
    <2>2. u \in Int
      BY DriverAssumption
    <2>3. r \in StatsRecord /\ r.valid = stats["mm"][i].valid
      BY <1>2, <2>2, NumberUpdate, Zenon
    <2>4. stats' = [stats EXCEPT !["mm"][i] = r]
      BY <2>1
    <2> HIDE DEF r
    <2>5. /\ stats' \in [{"libc", "mm"} -> [1 .. MAX_TRACES -> StatsRecord]]
          /\ stats'["mm"][i] = r
          /\ \A t \in 1 .. MAX_TRACES : t # i => stats'["mm"][t] = stats["mm"][t]
      BY <1>2, <2>3, <2>4, StatsUpdate, Zenon DEF MainInv, DriverTypes
    <2>6. arenas' \in Nat /\ arenas' <= 3 + 0 + Cost(i) /\ runs = 0
      BY <1>1, <1>2, <1>3 DEF MainInv, Position, Loop
    <2>7. DriverTypes' /\ Position'
      BY <1>1, <1>2, <1>5, <2>5, <2>6
         DEF MainInv, DriverTypes, Position, Stages, Final, Loop, Results
    <2>8. PassedAreValid'
      <3>1. SUFFICES ASSUME errors = 0
                     PROVE  /\ stats'["mm"][i].valid
                            /\ \A t \in 1 .. num_tracefiles : t < i =>
                                  stats'["mm"][t].valid /\ stats'["mm"][t].timed
        BY <1>1 DEF PassedAreValid
      <3>2. /\ stats["mm"][i].valid
            /\ \A t \in 1 .. num_tracefiles : t < i =>
                  stats["mm"][t].valid /\ stats["mm"][t].timed
        BY <1>1, <3>1 DEF MainInv, PassedAreValid
      <3>3. \A t \in 1 .. num_tracefiles : t < i => t # i /\ t \in 1 .. MAX_TRACES
        BY <1>2, DriverAssumption
      <3>. QED BY <2>3, <2>5, <3>2, <3>3, Zenon
    <2>9. ArenasCounted'
      BY <1>1, <1>5, <2>6 DEF ArenasCounted, Final
    <2>. QED BY <2>7, <2>8, <2>9 DEF MainInv
  <1>. QED BY <1>3, <1>4, <1>5

\* One timed run of eval_mm_speed.
LEMMA SpeedKept ==
    ASSUME MainInv, eval_mm_speed
    PROVE  MainInv'
  <1>1. /\ pc = "speed" /\ pc \in Loop /\ package = "mm" /\ runs < RUNS
        /\ UNCHANGED <<package, i, stats, errors, num_tracefiles>>
    BY DEF eval_mm_speed, options, Loop
  <1>2. /\ Cost(i) \in Nat /\ RUNS \in Nat \ {0} /\ arenas \in Nat /\ errors \in Nat
        /\ runs \in 0 .. RUNS /\ arenas <= 3 + runs + Cost(i)
    BY <1>1, AtMMTrace
  <1>3. /\ pc' \in {"speed", "exit"} /\ arenas' \in {arenas, arenas + 1}
        /\ runs' = IF pc' = "speed" THEN runs + 1 ELSE runs
    BY DEF eval_mm_speed, mem_init, Goto
  <1>4. CASE pc' = "exit"
    <2>1. arenas' \in Nat /\ arenas' <= 3 + RUNS + Cost(i) /\ runs' = runs
      BY <1>1, <1>2, <1>3, <1>4
    <2>. QED BY <1>1, <1>2, <1>4, <2>1, ExitKept
  <1>5. CASE pc' = "speed"
    <2>1. arenas' \in Nat /\ arenas' <= 3 + runs' + Cost(i) /\ runs' \in 0 .. RUNS
      BY <1>1, <1>2, <1>3, <1>5
    <2>2. DriverTypes' /\ Position'
      BY <1>1, <1>5, <2>1 DEF MainInv, DriverTypes, Position, Stages, Loop, Results
    <2>3. PassedAreValid'
      BY <1>1, <1>5 DEF MainInv, PassedAreValid
    <2>4. ArenasCounted'
      BY <1>1, <1>5, <2>1 DEF ArenasCounted, Final
    <2>. QED BY <2>2, <2>3, <2>4 DEF MainInv
  <1>. QED BY <1>3, <1>4, <1>5

\* The time is stored: the trace is finished.
LEMMA FsecsKept ==
    ASSUME MainInv, fsecs
    PROVE  MainInv'
  <1>1. /\ pc = "speed" /\ pc \in Loop /\ runs = RUNS /\ NextTrace
        /\ UNCHANGED <<package, errors, arenas, num_tracefiles>>
    BY DEF fsecs, options, Loop
  <1>2. /\ package \in {"libc", "mm"} /\ arenas \in Nat /\ errors \in Nat
        /\ stats \in [{"libc", "mm"} -> [1 .. MAX_TRACES -> StatsRecord]]
        /\ i \in 1 .. MAX_TRACES /\ stats[package][i] \in StatsRecord
    BY <1>1, AtTrace DEF MainInv, DriverTypes
  <1>3. PICK s \in Secs :
           stats' = [stats EXCEPT ![package][i].secs = s, ![package][i].timed = TRUE]
    BY Zenon DEF fsecs
  <1> DEFINE r == [stats[package][i] EXCEPT !.secs = s, !.timed = TRUE]
  <1>4. s \in Int
    BY DriverAssumption
  <1>5. r \in StatsRecord /\ r.valid = stats[package][i].valid /\ r.timed
    BY <1>2, <1>4, NumberUpdate, Zenon
  <1>6. stats' = [stats EXCEPT ![package][i] = r]
    BY <1>2, <1>3, Zenon
  <1> HIDE DEF r
  <1>7. /\ stats' \in [{"libc", "mm"} -> [1 .. MAX_TRACES -> StatsRecord]]
        /\ stats'[package][i] = r
        /\ \A u \in 1 .. MAX_TRACES : u # i => stats'[package][u] = stats[package][u]
    <2>1. /\ stats \in [{"libc", "mm"} -> [1 .. MAX_TRACES -> StatsRecord]]
          /\ package \in {"libc", "mm"} /\ i \in 1 .. MAX_TRACES /\ r \in StatsRecord
      BY <1>2, <1>5
    <2>. QED BY <1>6, <2>1, Zenon
  <1>8. package = "libc" => arenas' = 0
    BY <1>1 DEF MainInv, ArenasCounted
  <1>9. package = "mm" => arenas' <= 1 + Cost(i + 1)
    <2> SUFFICES ASSUME package = "mm" PROVE arenas' <= 1 + Cost(i + 1)
      OBVIOUS
    <2>1. /\ Cost(i) \in Nat /\ Cost(i + 1) = Cost(i) + RUNS + 2
          /\ RUNS \in Nat \ {0} /\ arenas <= 3 + runs + Cost(i)
      BY <1>1, AtMMTrace
    <2>. QED BY <1>1, <1>2, <2>1
  <1>10. package = "mm" /\ errors' = 0 =>
           /\ errors = 0 /\ stats'["mm"][i].valid /\ stats'["mm"][i].timed
           /\ \A u \in 1 .. MAX_TRACES : u # i => stats'["mm"][u] = stats["mm"][u]
    <2> SUFFICES ASSUME package = "mm", errors' = 0
                 PROVE  /\ errors = 0 /\ stats'["mm"][i].valid /\ stats'["mm"][i].timed
                        /\ \A u \in 1 .. MAX_TRACES : u # i => stats'["mm"][u] = stats["mm"][u]
      OBVIOUS
    <2>1. errors = 0 /\ stats["mm"][i].valid
      BY <1>1 DEF MainInv, PassedAreValid
    <2>. QED BY <1>5, <1>7, <2>1, Zenon
  <1>. QED BY <1>1, <1>2, <1>7, <1>8, <1>9, <1>10, NextTraceKept

\* printresults, sumresults and the report.
LEMMA ResultsKept ==
    ASSUME MainInv, printresults \/ sumresults \/ Report
    PROVE  MainInv'
  <1>1. /\ UNCHANGED <<package, i, runs, stats, errors, arenas, num_tracefiles>>
        /\ \/ pc = "print" /\ pc' = "sum"
           \/ pc = "sum" /\ pc' = "assert"
           \/ pc = "sum" /\ pc' = "start" /\ package = "libc"
           \/ pc = "sum" /\ pc' = "report" /\ package # "libc"
           \/ pc = "report" /\ pc' = "done"
    BY DEF printresults, sumresults, Report, Goto, options
  <1>2. DriverTypes' /\ Position'
    BY <1>1 DEF MainInv, DriverTypes, Position, Stages, Final, Loop, Results
  <1>3. PassedAreValid'
    BY <1>1 DEF MainInv, PassedAreValid, Loop, Results
  <1>4. ArenasCounted'
    <2>1. Cost(i) \in Nat /\ RUNS \in Nat /\ arenas \in Nat
      BY CostFacts, DriverAssumption, Zenon DEF MainInv, DriverTypes
    <2>. QED BY <1>1, <2>1 DEF MainInv, ArenasCounted, Final
  <1>. QED BY <1>2, <1>3, <1>4 DEF MainInv

\* All steps after the options.
LEMMA DriverStep ==
    ASSUME MainInv, Next
    PROVE  MainInv'
  BY StartKept, ReadKept, LibcKept, ValidKept, UtilKept, SpeedKept, FsecsKept, ResultsKept
     DEF Next

(***************************************************************************)
(* The options                                                             *)
(***************************************************************************)
\* main's options as getopt's loop leaves them.
LEMMA OptionRead ==
    ASSUME OptionsConsistent, NEW c \in AfterOption(cmd), pc' = "options",
           cmd' = [c EXCEPT !.args = @ + 1]
    PROVE  OptionsConsistent'
  <1> DEFINE Cmd == [run_libc : BOOLEAN, verbose : BOOLEAN, team_check : BOOLEAN,
                     num_tracefiles : {0, 1}, tracedir : Dirs \cup {TRACEDIR, "./"},
                     args : Nat, file_given : BOOLEAN, dir_given : Dirs \cup {TRACEDIR}]
  <1>1. cmd \in Cmd /\ cmd.file_given = (cmd.num_tracefiles = 1)
        /\ IF cmd.file_given THEN cmd.tracedir = "./" ELSE cmd.tracedir = cmd.dir_given
    BY DEF OptionsConsistent
  <1>2. c \in Cmd /\ c.file_given = (c.num_tracefiles = 1)
        /\ IF c.file_given THEN c.tracedir = "./" ELSE c.tracedir = c.dir_given
    <2>1. CASE c = FileOption(cmd)
      BY <1>1, <2>1, Zenon DEF FileOption
    <2>2. CASE c = [cmd EXCEPT !.team_check = FALSE] \/ c = [cmd EXCEPT !.run_libc = TRUE]
               \/ c = [cmd EXCEPT !.verbose = TRUE]
      BY <1>1, <2>2, Zenon
    <2>3. ASSUME NEW d \in Dirs, c = DirOption(cmd, d)
          PROVE  c \in Cmd /\ c.file_given = (c.num_tracefiles = 1)
                 /\ IF c.file_given THEN c.tracedir = "./" ELSE c.tracedir = c.dir_given
      BY <1>1, <2>3, Zenon DEF DirOption
    <2>. QED BY <2>1, <2>2, <2>3 DEF AfterOption
  <1>3. cmd' \in Cmd /\ cmd'.file_given = (cmd'.num_tracefiles = 1)
        /\ IF cmd'.file_given THEN cmd'.tracedir = "./" ELSE cmd'.tracedir = cmd'.dir_given
    BY <1>2
  <1>. QED BY <1>3 DEF OptionsConsistent, FileOptionWins

\* One turn of getopt's loop.
LEMMA ReadOptionKept ==
    ASSUME DriverInv, ReadOption
    PROVE  DriverInv'
  <1>1. /\ pc = "options" /\ pc' \in {"options", "exit"}
        /\ UNCHANGED <<package, i, runs, stats, errors, arenas, num_tracefiles>>
    BY DEF ReadOption, Goto, options
  <1>2. DriverTypes' /\ Position' /\ PassedAreValid'
    BY <1>1 DEF DriverInv, DriverTypes, Position, PassedAreValid, Stages, Final, Loop, Results
  <1>3. ArenasCounted'
    <2>1. arenas = 0 /\ i = 1 /\ Cost(1) = 0 /\ RUNS \in Nat
      BY <1>1, CostFacts, DriverAssumption DEF DriverInv, ArenasCounted, Position
    <2>. QED BY <1>1, <2>1 DEF ArenasCounted, Final
  <1>4. OptionsConsistent'
    <2>1. CASE \E c \in AfterOption(cmd) : cmd' = [c EXCEPT !.args = @ + 1] /\ UNCHANGED pc
      BY <1>1, <2>1, OptionRead DEF DriverInv
    <2>2. CASE pc' = "exit" /\ UNCHANGED cmd
      BY <1>1, <2>2 DEF DriverInv, OptionsConsistent, FileOptionWins
    <2>. QED BY <2>1, <2>2 DEF ReadOption, Goto
  <1>. QED BY <1>2, <1>3, <1>4 DEF DriverInv

\* The end of getopt's loop.
LEMMA EndOptionsKept ==
    ASSUME DriverInv, EndOptions
    PROVE  DriverInv'
  <1>1. /\ pc = "options"
        /\ UNCHANGED <<cmd, package, i, runs, stats, errors, arenas>>
        /\ \/ pc' = "exit" /\ UNCHANGED num_tracefiles
           \/ pc' = "begin" /\ num_tracefiles' = NumTracefiles(cmd)
    BY DEF EndOptions, Goto, options
  <1>2. NumTracefiles(cmd) = IF cmd.file_given THEN 1 ELSE MAX_TRACES
    BY DEF DriverInv, OptionsConsistent, NumTracefiles
  <1>3. 1 \in 1 .. MAX_TRACES /\ MAX_TRACES \in 1 .. MAX_TRACES /\ 1 .. MAX_TRACES \subseteq 0 .. MAX_TRACES
    BY DriverAssumption
  <1>4. num_tracefiles' \in 0 .. MAX_TRACES /\ (pc' = "begin" => num_tracefiles' \in 1 .. MAX_TRACES)
    BY <1>1, <1>2, <1>3 DEF DriverInv, DriverTypes
  <1>5. DriverTypes' /\ Position' /\ PassedAreValid'
    BY <1>1, <1>4, Zenon DEF DriverInv, DriverTypes, Position, PassedAreValid, Stages, Final, Loop, Results
  <1>6. ArenasCounted'
    <2>1. arenas = 0 /\ i = 1 /\ Cost(1) = 0 /\ RUNS \in Nat
      BY <1>1, CostFacts, DriverAssumption DEF DriverInv, ArenasCounted, Position
    <2>. QED BY <1>1, <2>1 DEF ArenasCounted, Final
  <1>7. OptionsConsistent'
    BY <1>1, <1>2 DEF DriverInv, OptionsConsistent, FileOptionWins
  <1>. QED BY <1>5, <1>6, <1>7 DEF DriverInv

\* main's initial values.
LEMMA DriverInit == CmdInit => DriverInv
  <1> SUFFICES ASSUME CmdInit PROVE DriverInv
    OBVIOUS
  <1>1. DriverTypes
    <2>1. NoStats \in StatsRecord
      BY DEF NoStats, StatsRecord
    <2>. QED BY <2>1, DriverAssumption DEF CmdInit, Fresh, DriverTypes, Stages
  <1>2. Position /\ PassedAreValid
    BY DEF CmdInit, Fresh, Position, PassedAreValid, Loop, Results
  <1>3. ArenasCounted
    <2>1. arenas = 0 /\ i = 1 /\ pc = "options" /\ Cost(1) = 0
      BY CostFacts DEF CmdInit, Fresh
    <2>. QED BY <2>1 DEF ArenasCounted, Final
  <1>4. OptionsConsistent
    <2>1. NoOptions \in [run_libc : BOOLEAN, verbose : BOOLEAN, team_check : BOOLEAN,
                         num_tracefiles : {0, 1}, tracedir : Dirs \cup {TRACEDIR, "./"},
                         args : Nat, file_given : BOOLEAN, dir_given : Dirs \cup {TRACEDIR}]
      BY DEF NoOptions
    <2>2. NoOptions.file_given = FALSE /\ NoOptions.num_tracefiles = 0
          /\ NoOptions.tracedir = NoOptions.dir_given
      BY DEF NoOptions
    <2>3. cmd = NoOptions /\ pc = "options"
      BY DEF CmdInit
    <2>4. cmd.file_given = (cmd.num_tracefiles = 1)
      <3>1. (cmd.num_tracefiles = 1) = FALSE
        BY <2>2, <2>3
      <3>. QED BY <2>2, <2>3, <3>1, Zenon
    <2>. QED BY <2>1, <2>2, <2>3, <2>4 DEF OptionsConsistent, FileOptionWins
  <1>. QED BY <1>1, <1>2, <1>3, <1>4 DEF DriverInv

(***************************************************************************)
(* The results                                                             *)
(***************************************************************************)
\* eval_mm_valid has not yet accepted the traces that the loop has not reached.
Undecided ==
    \A t \in 1 .. MAX_TRACES :
        \/ package = "libc" \/ pc \in {"options", "begin"}
        \/ t > i \/ (t = i /\ pc \in {"read", "valid"})
        => ~stats["mm"][t].valid

\* An error that did not end the program was counted for a trace that is left
\* invalid.
ErrorsShow ==
    errors > 0 /\ pc \in {"options", "begin"} \cup Loop \cup Results =>
        /\ package = "mm"
        /\ \E t \in 1 .. num_tracefiles : t < i /\ ~stats["mm"][t].valid

\* What the index is computed from.
ResultsKnown ==
    /\ \A t \in 1 .. MAX_TRACES : stats["mm"][t].util \in 0 .. 100
    /\ pc \in {"sum", "report", "done"} /\ package = "mm" /\ verbose =>
          shown = TotalLine(stats["mm"])
    /\ pc = "report" => avg_tput \in [ops : Int, secs : Int] /\ Positive(avg_tput)

ResultsInv == Undecided /\ ErrorsShow /\ ResultsKnown /\ IndexInRange

\* What a step may change of mm_stats: the entry of the trace at hand, its
\* verdict only in eval_mm_valid, and its utilization to one of Utils.
LEMMA MMEntries ==
    ASSUME DriverTypes, Position, Next, NEW t \in 1 .. MAX_TRACES
    PROVE  /\ t # i \/ package = "libc" => stats'["mm"][t] = stats["mm"][t]
           /\ stats'["mm"][t].valid =>
                 stats["mm"][t].valid \/ (pc = "valid" /\ pc' = "util")
           /\ \/ stats'["mm"][t].util = stats["mm"][t].util
              \/ stats'["mm"][t].util \in Utils
  <1>1. stats \in [{"libc", "mm"} -> [1 .. MAX_TRACES -> StatsRecord]]
        /\ package \in {"libc", "mm"}
    BY DEF DriverTypes
  <1>2. CASE StartLibc \/ Start \/ eval_libc_speed \/ eval_mm_speed \/ printresults
             \/ sumresults \/ Report
    <2>1. UNCHANGED stats
      BY <1>2 DEF StartLibc, Start, eval_libc_speed, eval_mm_speed, printresults,
                  sumresults, Report
    <2>. QED BY <2>1
  <1>3. CASE read_trace
    <2>1. i \in 1 .. MAX_TRACES
      BY <1>3, AtTrace DEF read_trace, Loop
    <2>2. CASE UNCHANGED stats
      BY <2>2
    <2>3. ASSUME NEW n \in OpCounts, stats' = [stats EXCEPT ![package][i].ops = n]
          PROVE  /\ t # i \/ package = "libc" => stats'["mm"][t] = stats["mm"][t]
                 /\ stats'["mm"][t].valid = stats["mm"][t].valid
                 /\ stats'["mm"][t].util = stats["mm"][t].util
      BY <1>1, <2>1, <2>3 DEF StatsRecord
    <2>. QED BY <1>3, <2>2, <2>3 DEF read_trace
  <1>4. CASE eval_libc_valid
    <2>1. i \in 1 .. MAX_TRACES
      BY <1>4, AtTrace DEF eval_libc_valid, Loop
    <2>2. stats'["mm"] = stats["mm"]
      BY <1>1, <1>4 DEF eval_libc_valid
    <2>. QED BY <2>2
  <1>5. CASE eval_mm_valid
    <2>1. i \in 1 .. MAX_TRACES /\ pc = "valid" /\ package = "mm"
      BY <1>5, AtTrace DEF eval_mm_valid, Loop
    <2>2. stats' = stats \/ stats' = [stats EXCEPT !["mm"][i].valid = (pc' = "util")]
      BY <1>5 DEF eval_mm_valid
    <2>3. CASE UNCHANGED stats
      BY <2>3
    <2>4. CASE stats' = [stats EXCEPT !["mm"][i].valid = (pc' = "util")]
      <3>1. /\ t # i => stats'["mm"][t] = stats["mm"][t]
            /\ t = i => stats'["mm"][t] = [stats["mm"][i] EXCEPT !.valid = (pc' = "util")]
            /\ stats["mm"][t] \in StatsRecord
        BY <1>1, <2>1, <2>4, Zenon
      <3>2. t = i => /\ stats'["mm"][t].valid = (pc' = "util")
                     /\ stats'["mm"][t].util = stats["mm"][t].util
        BY <3>1 DEF StatsRecord
      <3>. QED BY <2>1, <3>1, <3>2, Zenon
    <2>. QED BY <2>2, <2>3, <2>4
  <1>6. CASE eval_mm_util
    <2>1. i \in 1 .. MAX_TRACES /\ package = "mm"
      BY <1>6, AtTrace DEF eval_mm_util, Loop, Position
    <2>2. CASE UNCHANGED stats
      BY <2>2
    <2>3. ASSUME NEW u \in Utils, stats' = [stats EXCEPT !["mm"][i].util = u]
          PROVE  /\ t # i => stats'["mm"][t] = stats["mm"][t]
                 /\ stats'["mm"][t].valid = stats["mm"][t].valid
                 /\ t = i => stats'["mm"][t].util = u
      BY <1>1, <2>1, <2>3, Zenon DEF StatsRecord
    <2>. QED BY <1>6, <2>1, <2>2, <2>3 DEF eval_mm_util
  <1>7. CASE fsecs
    <2>1. i \in 1 .. MAX_TRACES
      BY <1>7, AtTrace DEF fsecs, Loop
    <2>2. ASSUME NEW s \in Secs,
                 stats' = [stats EXCEPT ![package][i].secs = s, ![package][i].timed = TRUE]
          PROVE  /\ t # i \/ package = "libc" => stats'["mm"][t] = stats["mm"][t]
                 /\ stats'["mm"][t].valid = stats["mm"][t].valid
                 /\ stats'["mm"][t].util = stats["mm"][t].util
      <3> DEFINE r == [stats[package][i] EXCEPT !.secs = s, !.timed = TRUE]
      <3>1. stats[package][i] \in StatsRecord
        BY <1>1, <2>1, Zenon
      <3>2. r \in StatsRecord /\ r.valid = stats[package][i].valid
            /\ r.util = stats[package][i].util
        BY <3>1, DriverAssumption, Zenon DEF StatsRecord
      <3>3. stats' = [stats EXCEPT ![package][i] = r]
        BY <2>2, Zenon
      <3> HIDE DEF r
      <3>. QED BY <1>1, <2>1, <3>2, <3>3
    <2>. QED BY <1>7, <2>2, Zenon DEF fsecs
  <1>. QED BY <1>2, <1>3, <1>4, <1>5, <1>6, <1>7 DEF Next

\* The trace at hand and the package, after a step.
LEMMA Moves ==
    ASSUME Next
    PROVE  \/ pc \in {"begin", "start"} /\ pc' \in {"read", "exit"}
           \/ /\ package' = package /\ i' = i /\ pc' \notin {"options", "begin", "read"}
              /\ pc' = "valid" => pc = "read"
           \/ package' = package /\ i' = i + 1 /\ pc' \in {"read", "print"}
  <1>1. CASE StartLibc \/ Start
    BY <1>1 DEF StartLibc, Start, mem_init, Goto
  <1>2. CASE read_trace \/ eval_libc_valid \/ eval_libc_speed \/ eval_mm_util
             \/ eval_mm_speed
    BY <1>2 DEF read_trace, eval_libc_valid, eval_libc_speed, eval_mm_util,
                eval_mm_speed, mem_init, Goto
  <1>3. CASE eval_mm_valid \/ fsecs
    BY <1>3 DEF eval_mm_valid, fsecs, NextTrace, mem_init, Goto
  <1>4. CASE printresults \/ sumresults \/ Report
    BY <1>4 DEF printresults, sumresults, Report, Goto
  <1>. QED BY <1>1, <1>2, <1>3, <1>4 DEF Next

\* A trace is accepted when the loop is at it, and not before.
LEMMA UndecidedKept ==
    ASSUME DriverTypes, Position, Undecided, Next
    PROVE  Undecided'
  <1> SUFFICES ASSUME NEW t \in 1 .. MAX_TRACES,
                      \/ package' = "libc" \/ pc' \in {"options", "begin"}
                      \/ t > i' \/ (t = i' /\ pc' \in {"read", "valid"})
               PROVE  ~stats'["mm"][t].valid
    BY DEF Undecided
  <1>1. i \in Nat /\ t \in Nat /\ (pc = "start" => package = "libc")
    BY DriverAssumption DEF DriverTypes, Position
  <1>2. \/ package = "libc" \/ pc \in {"options", "begin"}
        \/ t > i \/ (t = i /\ pc \in {"read", "valid"})
    BY <1>1, Moves
  <1>3. ~stats["mm"][t].valid
    BY <1>2 DEF Undecided
  <1>4. ASSUME stats'["mm"][t].valid PROVE FALSE
    <2>1. pc = "valid" /\ pc' = "util" /\ t = i /\ package # "libc"
      BY <1>3, <1>4, MMEntries
    <2>2. package' = package /\ i' = i
      BY <2>1, Moves
    <2>. QED BY <1>1, <2>1, <2>2
  <1>. QED BY <1>4

\* malloc_error is called once for each trace that eval_mm_valid turns down.
LEMMA ErrorsKept ==
    ASSUME DriverTypes, Position, Undecided, ErrorsShow, Next
    PROVE  ErrorsShow'
  <1> SUFFICES ASSUME errors' > 0, pc' \in {"options", "begin"} \cup Loop \cup Results
               PROVE  /\ package' = "mm"
                      /\ \E t \in 1 .. num_tracefiles' : t < i' /\ ~stats'["mm"][t].valid
    BY DEF ErrorsShow
  <1>1. /\ i \in Nat \ {0} /\ errors \in Nat /\ num_tracefiles \in 0 .. MAX_TRACES
        /\ pc = "start" => package = "libc"
        /\ pc = "begin" => i = 1
    BY DEF DriverTypes, Position
  <1>2. UNCHANGED num_tracefiles /\ pc \in {"begin"} \cup Loop \cup Results
    BY DEF Next, StartLibc, Start, read_trace, eval_libc_valid, eval_libc_speed,
           eval_mm_valid, eval_mm_util, eval_mm_speed, fsecs, printresults, sumresults,
           Report, options, Loop, Results
  <1>3. CASE errors' = errors
    <2>1. package = "mm" /\ \E t \in 1 .. num_tracefiles : t < i /\ ~stats["mm"][t].valid
      BY <1>2, <1>3 DEF ErrorsShow
    <2>2. PICK t \in 1 .. num_tracefiles : t < i /\ ~stats["mm"][t].valid
      BY <2>1
    <2>3. t \in 1 .. MAX_TRACES /\ t # i /\ i # 1
      BY <1>1, <2>2, DriverAssumption
    <2>4. ~stats'["mm"][t].valid
      BY <2>2, <2>3, MMEntries
    <2>5. package' = package /\ (i' = i \/ i' = i + 1)
      BY <1>1, <2>1, <2>3, Moves
    <2>6. t < i'
      BY <1>1, <2>2, <2>5
    <2>. QED BY <1>2, <2>1, <2>2, <2>4, <2>5, <2>6
  <1>4. CASE errors' # errors
    <2>1. eval_mm_valid /\ pc = "valid" /\ package = "mm" /\ UNCHANGED <<stats, package>>
          /\ i' = i + 1
      BY <1>4 DEF Next, StartLibc, Start, read_trace, eval_libc_valid, eval_libc_speed,
           eval_mm_valid, eval_mm_util, eval_mm_speed, fsecs, printresults, sumresults,
           Report, Goto, Loop, Results, NextTrace
    <2>2. i \in 1 .. MAX_TRACES /\ i \in 1 .. num_tracefiles
      BY <2>1, AtTrace DEF Loop
    <2>3. ~stats["mm"][i].valid
      BY <2>1, <2>2 DEF Undecided
    <2>. QED BY <1>1, <1>2, <2>1, <2>2, <2>3
  <1>. QED BY <1>3, <1>4

\* The total of one field is the sum of a function.
LEMMA FieldSum ==
    ASSUME NEW s, NEW S, IsFiniteSet(S), NEW f
    PROVE  MapThenSumSet(LAMBDA t : s[t][f], S) = SumOver([t \in S |-> s[t][f]], S)
  <1> DEFINE v == [t \in S |-> s[t][f]]
             Body(g) == [x \in SUBSET S |->
                           IF x = {} THEN 0 ELSE s[One(x)][f] + g[x \ {One(x)}]]
             G == CHOOSE g : g = Body(g)
             F == CHOOSE g : Solves(v, g, S)
  <1>1. MapThenSumSet(LAMBDA t : s[t][f], S) = G[S]
    BY DEF MapThenSumSet, MapThenFoldSet, One
  <1>2. SumOver(v, S) = F[S]
    BY DEF SumOver, MapThenSumSet, MapThenFoldSet, Solves, Value, One
  <1>3. ASSUME NEW g PROVE Solves(v, g, S) <=> g = Body(g)
    <2>1. ASSUME NEW x \in SUBSET S, x # {} PROVE v[One(x)] = s[One(x)][f]
      <3>1. One(x) \in S
        BY <2>1 DEF One
      <3>. QED BY <3>1
    <2>2. \A x \in SUBSET S :
             Value(v, g, x) = IF x = {} THEN 0 ELSE s[One(x)][f] + g[x \ {One(x)}]
      <3> HIDE DEF v
      <3>. QED BY <2>1 DEF Value
    <2>3. [x \in SUBSET S |-> Value(v, g, x)] = Body(g)
      <3> HIDE DEF v
      <3>. QED BY <2>2, Zenon
    <2>. QED BY <2>3, Zenon DEF Solves
  <1>4. Solves(v, F, S)
    BY SolutionExists
  <1>5. G = Body(G)
    <2>1. F = Body(F)
      BY <1>3, <1>4, Zenon
    <2> HIDE DEF Body, F
    <2>. QED BY <2>1
  <1>6. Solves(v, G, S)
    BY <1>3, <1>5, Zenon
  <1>7. G[S] = F[S]
    <2>1. Agree(v, v, S) /\ S \in SUBSET S
      BY DEF Agree
    <2> HIDE DEF G, F, v
    <2>. QED BY <1>4, <1>6, <2>1, SolutionUnique
  <1>. QED BY <1>1, <1>2, <1>7

LEMMA SumsAre ==
    ASSUME NEW s, NEW S, IsFiniteSet(S)
    PROVE  /\ Sums(s, S).util = SumOver([t \in S |-> s[t].util], S)
           /\ Sums(s, S).ops = SumOver([t \in S |-> s[t].ops], S)
           /\ Sums(s, S).secs = SumOver([t \in S |-> s[t].secs], S)
  <1>1. MapThenSumSet(LAMBDA t : s[t].util, S) = SumOver([t \in S |-> s[t].util], S)
    BY FieldSum, Zenon
  <1>2. MapThenSumSet(LAMBDA t : s[t].ops, S) = SumOver([t \in S |-> s[t].ops], S)
    BY FieldSum, Zenon
  <1>3. MapThenSumSet(LAMBDA t : s[t].secs, S) = SumOver([t \in S |-> s[t].secs], S)
    BY FieldSum, Zenon
  <1>. QED BY <1>1, <1>2, <1>3 DEF Sums

\* A share of a whole, in k parts.
LEMMA Share ==
    ASSUME NEW a \in Nat, NEW d \in Nat \ {0}, NEW k \in Nat, a <= d * k
    PROVE  a \div d \in 0 .. k
  <1> DEFINE q == a \div d
  <1>1. q \in Nat /\ d * q <= a
    BY Z3
  <1>2. ASSUME q > k PROVE FALSE
    <2>1. d * (k + 1) <= d * q
      BY <1>1, <1>2, Z3
    <2>2. d * (k + 1) = d * k + d
      BY Z3
    <2>. QED BY <1>1, <2>1, <2>2
  <1>. QED BY <1>1, <1>2

\* The points for utilization and for throughput.
LEMMA UtilShare ==
    ASSUME NEW n \in Nat \ {0}, NEW util \in 0 .. 100 * n
    PROVE  UtilPoints(util, n) \in 0 .. 60
  <1>1. 100 * n \in Nat \ {0} /\ 60 * util \in Nat /\ 60 * util <= (100 * n) * 60
    OBVIOUS
  <1>. QED BY <1>1, Share DEF UtilPoints

LEMMA ThruShare ==
    ASSUME NEW tput \in [ops : Int, secs : Int], Positive(tput)
    PROVE  ThruPoints(tput) \in 0 .. 40
  <1>1. TPUT \in Nat /\ tput.secs \in Nat /\ tput.ops \in Nat \ {0}
    BY DriverAssumption DEF Positive
  <1>2. TPUT * tput.secs \in Nat
    BY <1>1
  <1>3. CASE tput.ops <= TPUT * tput.secs
    <2> DEFINE d == TPUT * tput.secs
    <2>1. d \in Nat \ {0} /\ 40 * tput.ops \in Nat /\ 40 * tput.ops <= d * 40
      BY <1>1, <1>2, <1>3
    <2> HIDE DEF d
    <2>2. (40 * tput.ops) \div d \in 0 .. 40
      BY <2>1, Share, Zenon
    <2>3. ~(tput.ops > d)
      BY <1>1, <1>3, <2>1 DEF d
    <2>. QED BY <2>2, <2>3 DEF ThruPoints, d
  <1>. QED BY <1>1, <1>2, <1>3 DEF ThruPoints

\* What sumresults and main add up.
LEMMA TotalsRange ==
    ASSUME NEW n \in 1 .. MAX_TRACES, NEW s \in [1 .. MAX_TRACES -> StatsRecord]
    PROVE  /\ Sums(s, 1 .. n).ops \in Int /\ Sums(s, 1 .. n).secs \in Int
           /\ (\A t \in 1 .. MAX_TRACES : s[t].util \in 0 .. 100) =>
                 Sums(s, 1 .. n).util \in 0 .. 100 * n
  <1> DEFINE S == 1 .. n
  <1>1. n \in Nat \ {0} /\ \A t \in S : t \in 1 .. MAX_TRACES /\ s[t] \in StatsRecord
    BY DriverAssumption
  <1>2. IsFiniteSet(S) /\ Cardinality(S) = n
    BY <1>1, FS_Interval
  <1> HIDE DEF S
  <1>3. Numbers([t \in S |-> s[t].ops], S) /\ Numbers([t \in S |-> s[t].secs], S)
    BY <1>1 DEF Numbers, StatsRecord
  <1>4. Sums(s, S).ops \in Int /\ Sums(s, S).secs \in Int
    <2>1. SumOver([t \in S |-> s[t].ops], S) \in Int
      BY <1>2, <1>3, SumType
    <2>2. SumOver([t \in S |-> s[t].secs], S) \in Int
      BY <1>2, <1>3, SumType
    <2>. QED BY <1>2, <2>1, <2>2, SumsAre, Zenon
  <1>5. ASSUME \A t \in 1 .. MAX_TRACES : s[t].util \in 0 .. 100
        PROVE  Sums(s, S).util \in 0 .. 100 * n
    <2> DEFINE v == [t \in S |-> s[t].util]
    <2>1. Bounded(v, S, 100)
      BY <1>1, <1>5, Zenon DEF Bounded
    <2>2. Sums(s, S).util = SumOver(v, S)
      BY <1>2, SumsAre, Zenon
    <2> HIDE DEF v
    <2>3. SumOver(v, S) \in 0 .. 100 * Cardinality(S)
      BY <1>2, <2>1, SumBound
    <2>. QED BY <1>2, <2>2, <2>3
  <1>. QED BY <1>4, <1>5 DEF S

\* The total line is that of the stats.
LEMMA TotalLineSame ==
    ASSUME stats' = stats, num_tracefiles' = num_tracefiles
    PROVE  TotalLine(stats["mm"])' = TotalLine(stats["mm"])
  BY DEF TotalLine, Correct, Traces, Sums, MapThenSumSet, MapThenFoldSet

\* The results are computed once the stats are final.
LEMMA IndexKept ==
    ASSUME DriverTypes, Position, ResultsKnown, IndexInRange, Next
    PROVE  ResultsKnown' /\ IndexInRange'
  <1>1. \A t \in 1 .. MAX_TRACES : stats'["mm"][t].util \in 0 .. 100
    BY MMEntries, DriverAssumption, Zenon DEF ResultsKnown
  <1>2. /\ stats["mm"] \in [1 .. MAX_TRACES -> StatsRecord]
        /\ stats["libc"] \in [1 .. MAX_TRACES -> StatsRecord] /\ package \in {"libc", "mm"}
        /\ pc \in Results => num_tracefiles \in 1 .. MAX_TRACES
        /\ pc = "report" => package = "mm"
    BY DEF DriverTypes, Position
  <1>3. CASE printresults
    <2>1. /\ pc' = "sum" /\ UNCHANGED <<num_tracefiles, verbose, package, stats>>
          /\ package = "mm" /\ verbose => shown' = TotalLine(stats["mm"])
      BY <1>3 DEF printresults, Goto, options
    <2>2. TotalLine(stats["mm"])' = TotalLine(stats["mm"])
      BY <2>1, TotalLineSame
    <2>. QED BY <1>1, <2>1, <2>2 DEF ResultsKnown, IndexInRange
  <1>4. CASE sumresults
    <2>1. /\ pc = "sum" /\ UNCHANGED <<num_tracefiles, verbose, package, stats, shown>>
          /\ pc' \in {"assert", "start", "report"}
          /\ pc' = "report" => package = "mm" /\ Positive(avg_tput')
          /\ avg_tput' \in {Throughput(stats[package])} \cup Garbage
      <3>1. /\ pc = "sum" /\ UNCHANGED <<num_tracefiles, verbose, package, stats, shown>>
            /\ pc' = IF ~Positive(avg_tput') THEN "assert"
                     ELSE IF package = "libc" THEN "start" ELSE "report"
        BY <1>4 DEF sumresults, Goto, options
      <3>2. avg_tput' \in {Throughput(stats[package])} \cup Garbage
        BY <1>4, Zenon DEF sumresults
      <3>. QED BY <1>2, <3>1, <3>2
    <2>2. TotalLine(stats["mm"])' = TotalLine(stats["mm"])
      BY <2>1, TotalLineSame
    <2>3. avg_tput' \in [ops : Int, secs : Int]
      <3>1. /\ stats[package] \in [1 .. MAX_TRACES -> StatsRecord]
            /\ num_tracefiles \in 1 .. MAX_TRACES
        BY <1>2, <2>1 DEF Results
      <3>2. Throughput(stats[package]) \in [ops : Int, secs : Int]
        BY <3>1, TotalsRange DEF Throughput, Traces
      <3>. QED BY <2>1, <3>2 DEF Garbage
    <2>4. pc' = "report" => Positive(avg_tput)'
      <3>1. pc' = "report" => Positive(avg_tput')
        BY <2>1, Zenon
      <3>. QED BY <3>1, Zenon DEF Positive
    <2>. QED BY <1>1, <2>1, <2>2, <2>3, <2>4 DEF ResultsKnown, IndexInRange
  <1>5. CASE Report
    <2> DEFINE u == Sums(stats["mm"], 1 .. num_tracefiles).util
               p == UtilPoints(u, num_tracefiles)
               q == ThruPoints(avg_tput)
    <2>1. /\ pc = "report" /\ pc' = "done"
          /\ UNCHANGED <<num_tracefiles, verbose, package, stats, shown>>
      BY <1>5 DEF Report, Goto, options
    <2>2. perfindex' = IF errors = 0 THEN p + q ELSE 0
      BY <1>5 DEF Report, mm_stats, Traces
    <2>3. num_tracefiles \in 1 .. MAX_TRACES
      BY <1>2, <2>1, Zenon DEF Results
    <2>4. num_tracefiles \in Nat \ {0}
      BY <2>3, DriverAssumption
    <2>5. u \in 0 .. 100 * num_tracefiles
      BY <1>2, <2>3, TotalsRange DEF ResultsKnown
    <2> HIDE DEF u
    <2>6. p \in 0 .. 60
      BY <2>4, <2>5, UtilShare
    <2>7. q \in 0 .. 40
      BY <2>1, ThruShare DEF ResultsKnown
    <2> HIDE DEF p, q
    <2>8. perfindex' \in 0 .. 100
      BY <2>2, <2>6, <2>7
    <2>9. TotalLine(stats["mm"])' = TotalLine(stats["mm"])
      BY <2>1, TotalLineSame
    <2>. QED BY <1>1, <2>1, <2>8, <2>9 DEF ResultsKnown, IndexInRange
  <1>6. CASE ~printresults /\ ~sumresults /\ ~Report
    <2>1. pc' \notin {"sum", "report", "done"}
      <3>1. CASE StartLibc \/ Start \/ read_trace \/ eval_libc_valid
        BY <3>1 DEF StartLibc, Start, read_trace, eval_libc_valid, mem_init, Goto
      <3>2. CASE eval_libc_speed \/ eval_mm_util \/ eval_mm_speed
        BY <3>2 DEF eval_libc_speed, eval_mm_util, eval_mm_speed, mem_init, Goto
      <3>3. CASE eval_mm_valid \/ fsecs
        BY <3>3 DEF eval_mm_valid, fsecs, mem_init, NextTrace, Goto
      <3>. QED BY <1>6, <3>1, <3>2, <3>3 DEF Next
    <2>. QED BY <1>1, <2>1 DEF ResultsKnown, IndexInRange
  <1>. QED BY <1>3, <1>4, <1>5, <1>6

(***************************************************************************)
(* The theorems                                                            *)
(***************************************************************************)
\* The inductive invariant of main: where it is in its loops, which traces are
\* known to be valid, what the arenas add up to and what the options left.
THEOREM DriverInvariance == CmdSpec => []DriverInv
  <1>1. DriverInv /\ [CmdNext]_<<vars, cmd>> => DriverInv'
    <2> SUFFICES ASSUME DriverInv, [CmdNext]_<<vars, cmd>>
                 PROVE  DriverInv'
      OBVIOUS
    <2>1. CASE Next /\ UNCHANGED cmd
      BY <2>1, DriverStep, OptionsKept DEF DriverInv, MainInv
    <2>2. CASE UNCHANGED <<vars, cmd>>
      BY <2>2 DEF vars, options, DriverInv, DriverTypes, Position, PassedAreValid,
                  ArenasCounted, Cost, OptionsConsistent, FileOptionWins
    <2>. QED BY <2>1, <2>2, ReadOptionKept, EndOptionsKept DEF CmdNext
  <1>. QED BY <1>1, DriverInit, PTL DEF CmdSpec

\* For any number of traces and any command line, main reports an index only
\* after eval_mm_valid has accepted, and fsecs has timed, every trace.
THEOREM IndexSound == CmdSpec => []IndexOnlyWhenAllValid
  <1>1. DriverInv => IndexOnlyWhenAllValid
    <2> SUFFICES ASSUME DriverInv, pc \in {"report", "done"}, errors = 0, NEW t \in Traces
                 PROVE  mm_stats[t].valid /\ mm_stats[t].timed
      BY DEF IndexOnlyWhenAllValid
    <2>1. /\ package = "mm" /\ i = num_tracefiles + 1 /\ num_tracefiles \in Nat
          /\ pc \in Loop \cup Results
      BY DEF DriverInv, Position, DriverTypes, Results
    <2>2. t \in 1 .. num_tracefiles /\ t < i
      BY <2>1 DEF Traces
    <2>. QED BY <2>1, <2>2 DEF DriverInv, PassedAreValid, mm_stats
  <1>. QED BY <1>1, DriverInvariance, PTL

\* For any number of traces and of timed runs, the arenas that mm_init's calls
\* of mem_init take from libc's malloc stay within ArenasBounded.
THEOREM ArenaBound == CmdSpec => []ArenasBounded
  <1>1. DriverInv => ArenasBounded
    BY ArenasImplies DEF DriverInv
  <1>. QED BY <1>1, DriverInvariance, PTL

\* However many options there are and in whatever order, -f takes precedence
\* over -t.
THEOREM OptionOrder == CmdSpec => []FileOptionWins
  <1>1. DriverInv => FileOptionWins
    BY DEF DriverInv, OptionsConsistent
  <1>. QED BY <1>1, DriverInvariance, PTL

\* The results are sound: an inductive invariant on top of DriverInv.
THEOREM ResultsInvariance == CmdSpec => []ResultsInv
  <1>1. CmdInit => ResultsInv
    <2> SUFFICES ASSUME CmdInit PROVE ResultsInv
      OBVIOUS
    <2>1. pc = "options" /\ errors = 0 /\ stats["mm"] = [t \in 1 .. MAX_TRACES |-> NoStats]
      BY DEF CmdInit, Fresh
    <2>2. \A t \in 1 .. MAX_TRACES : ~stats["mm"][t].valid /\ stats["mm"][t].util = 0
      BY <2>1 DEF NoStats
    <2>. QED BY <2>1, <2>2 DEF ResultsInv, Undecided, ErrorsShow, ResultsKnown, IndexInRange
  <1>2. DriverInv /\ ResultsInv /\ [CmdNext]_<<vars, cmd>> => ResultsInv'
    <2> SUFFICES ASSUME DriverInv, ResultsInv, [CmdNext]_<<vars, cmd>>
                 PROVE  ResultsInv'
      OBVIOUS
    <2>1. CASE Next
      BY <2>1, UndecidedKept, ErrorsKept, IndexKept DEF DriverInv, ResultsInv
    <2>2. CASE ReadOption \/ EndOptions
      <3>1. /\ pc = "options" /\ pc' \in {"options", "begin", "exit"}
            /\ UNCHANGED <<package, i, stats, errors>>
        BY <2>2 DEF ReadOption, EndOptions, Goto
      <3>2. Undecided'
        BY <3>1 DEF ResultsInv, Undecided
      <3>3. ErrorsShow'
        <4>1. ~(errors > 0)
          <5>1. i = 1
            BY <3>1 DEF DriverInv, Position
          <5>. QED BY <3>1, <5>1 DEF ResultsInv, ErrorsShow
        <4>. QED BY <3>1, <4>1 DEF ErrorsShow
      <3>4. ResultsKnown' /\ IndexInRange'
        BY <3>1 DEF ResultsInv, ResultsKnown, IndexInRange
      <3>. QED BY <3>2, <3>3, <3>4 DEF ResultsInv
    <2>3. CASE UNCHANGED <<vars, cmd>>
      <3>1. UNCHANGED <<pc, package, i, stats, errors, shown, avg_tput, perfindex, verbose,
                        num_tracefiles>>
        BY <2>3 DEF vars, options, results
      <3>2. TotalLine(stats["mm"])' = TotalLine(stats["mm"])
        BY <3>1, TotalLineSame
      <3>3. Positive(avg_tput)' = Positive(avg_tput)
        BY <3>1 DEF Positive
      <3>4. Undecided' /\ ErrorsShow' /\ IndexInRange'
        BY <3>1 DEF ResultsInv, Undecided, ErrorsShow, IndexInRange
      <3>5. ResultsKnown'
        BY <3>1, <3>2, <3>3 DEF ResultsInv, ResultsKnown
      <3>. QED BY <3>4, <3>5 DEF ResultsInv
    <2>. QED BY <2>1, <2>2, <2>3 DEF CmdNext
  <1>. QED BY <1>1, <1>2, DriverInvariance, PTL DEF CmdSpec

\* For any number of traces, any utilizations and any measured times, the index
\* that main reports lies between 0 and 100.
THEOREM IndexRange == CmdSpec => []IndexInRange
  <1>1. ResultsInv => IndexInRange
    BY DEF ResultsInv
  <1>. QED BY <1>1, ResultsInvariance, PTL

\* For any number of traces, the totals that printresults shows with -v are those
\* from which main computes the index, and there are none after an error.
THEOREM TotalsCorrect == CmdSpec => []TotalsAgree
  <1>1. DriverInv /\ ResultsInv => TotalsAgree
    <2> SUFFICES ASSUME DriverInv, ResultsInv, pc = "done", verbose
                 PROVE  shown = IF errors = 0 THEN Sums(mm_stats, Traces) ELSE Dashes
      BY DEF TotalsAgree
    <2>1. /\ package = "mm" /\ i = num_tracefiles + 1 /\ errors \in Nat
          /\ num_tracefiles \in Nat
      BY DEF DriverInv, DriverTypes, Position, Results
    <2>2. shown = TotalLine(mm_stats)
      BY <2>1 DEF ResultsInv, ResultsKnown, mm_stats
    <2>3. errors = 0 => Correct(mm_stats) = Traces
      <3> SUFFICES ASSUME errors = 0, NEW t \in Traces PROVE mm_stats[t].valid
        BY DEF Correct
      <3>1. t \in 1 .. num_tracefiles /\ t < i
        BY <2>1 DEF Traces
      <3>. QED BY <2>1, <3>1 DEF DriverInv, PassedAreValid, mm_stats, Results
    <2>4. errors # 0 => Correct(mm_stats) # Traces
      BY <2>1 DEF ResultsInv, ErrorsShow, Correct, mm_stats, Traces, Results
    <2>. QED BY <2>2, <2>3, <2>4 DEF TotalLine
  <1>. QED BY <1>1, DriverInvariance, ResultsInvariance, PTL
=============================================================================
