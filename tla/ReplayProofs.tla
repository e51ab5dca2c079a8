----------------------------- MODULE ReplayProofs -----------------------------
(***************************************************************************)
(* The theorems about Replay.  mm.c serves the requests of a trace as the  *)
(* passes need it, so their invariants hold at every step; and Replay      *)
(* implements Driver.                                                      *)
(***************************************************************************)
EXTENDS ReplayRecords, ReplayDriver, MMBlocksLemmas

(***************************************************************************)
(* mm.c serves the requests                                                *)
(***************************************************************************)
\* A new heap always fits into a new arena.
LEMMA FirstSbrkFits == ~SbrkFails(mem_init, FIRST + ADJUSTED_PAGESIZE)
  <1> DEFINE n == FIRST + ADJUSTED_PAGESIZE
  <1>1. n \in Nat /\ n <= MAX_HEAP /\ ~(n >= SIZE_MOD \div 2)
    BY PageSize, InitialHeapFits, SizesAssumption DEF FIRST, WSIZE
  <1> HIDE DEF n
  <1>2. mem_start_brk + 0 + n \in Nat /\ mem_start_brk + 0 + n < SIZE_MOD
    BY <1>1, SizesAssumption
  <1>3. (mem_start_brk + 0 + n) % SIZE_MOD = mem_start_brk + 0 + n
    BY <1>2, SizesAssumption, ModSmall
  <1>. QED BY <1>1, <1>3, SizesAssumption DEF SbrkFails, mem_init, n

\* mm_free gives back one block and keeps the others.
LEMMA FreeServes ==
    ASSUME NEW s, NEW H, H \subseteq Ids, Holds(s, H),
           NEW op, MayFollow(op, H), op.type = "f"
    PROVE  Serves(s, op, H, After(s, op))
  <1> DEFINE b == s.blocks[op.index]
             f == mm_free(s.heap, b)
  <1>1. op.index \in H /\ After(s, op).heap = f /\ After(s, op).blocks = s.blocks
    BY DEF MayFollow, After, Call
  <1>2. b \in s.heap.alloc
    BY <1>1 DEF Holds
  <1>3. /\ WellFormed(f, {}) /\ f.alloc = s.heap.alloc \ {b} /\ f.brk = s.heap.brk
        /\ Kept(s.heap.alloc \ {b}, s.heap, f)
    BY <1>2, FreeKeeps, Zenon DEF Holds
  <1> HIDE DEF f
  <1>4. \A id \in H \ {op.index} : s.blocks[id] \in s.heap.alloc \ {b}
    BY <1>1 DEF Holds
  <1>5. f.alloc = {s.blocks[id] : id \in H \ {op.index}}
    BY <1>3, <1>4 DEF Holds
  <1>6. Holds(After(s, op), H \ {op.index})
    BY <1>1, <1>3, <1>5 DEF Holds
  <1>7. \A id \in H \ {op.index} : f.size[s.blocks[id]] = s.heap.size[s.blocks[id]]
    BY <1>3, <1>4 DEF Kept
  <1>8. s.heap.brk <= f.brk
    BY <1>3 DEF Holds
  <1>. QED BY <1>1, <1>6, <1>7, <1>8 DEF Serves, HeldNext

\* mm_malloc and mm_realloc: the old block, if any, is gone, and there is a new
\* one.
LEMMA AllocServes ==
    ASSUME NEW s, NEW H, H \subseteq Ids, Holds(s, H),
           NEW op, MayFollow(op, H), op.type # "f", Call(s.heap, s.blocks, op).bp # NULL
    PROVE  Serves(s, op, H, After(s, op))
  <1> DEFINE r == Call(s.heap, s.blocks, op)
             old == IF op.type = "r" THEN {s.blocks[op.index]} ELSE {}
             t == After(s, op)
  <1>1. t.heap = r.heap /\ t.blocks = [s.blocks EXCEPT ![op.index] = r.bp]
    BY DEF After
  <1>2. /\ op.type \in {"a", "r"} /\ op.index \in Ids /\ op.size \in Requests
        /\ op.type = "r" <=> op.index \in H
    BY ReplayAssumption DEF MayFollow, Op
  <1>3. /\ op.size # 0 /\ r.bp \in Nat /\ r.bp \notin s.heap.alloc
        /\ WellFormed(r.heap, {}) /\ r.heap.alloc = (s.heap.alloc \ old) \cup {r.bp}
        /\ r.heap.brk \in Nat /\ s.heap.brk <= r.heap.brk /\ r.heap.brk <= MAX_HEAP
        /\ Kept(s.heap.alloc \ old, s.heap, r.heap)
        /\ r.heap.size[r.bp] >= op.size + WSIZE
    <2>1. CASE op.type = "a"
      <3>1. r = mm_malloc(s.heap, op.size) /\ old = {}
        BY <2>1 DEF Call
      <3>2. WellFormed(s.heap, {}) /\ s.heap.brk <= MAX_HEAP
        BY Zenon DEF Holds
      <3> HIDE DEF r, old
      <3>3. MallocAnswers(s.heap, op.size, mm_malloc(s.heap, op.size))
        BY <1>2, <3>2, MallocKeeps
      <3>. QED BY <3>1, <3>3, Zenon DEF MallocAnswers, r
    <2>2. CASE op.type = "r"
      <3>1. /\ r = mm_realloc(s.heap, s.blocks[op.index], op.size)
            /\ old = {s.blocks[op.index]} /\ s.blocks[op.index] \in s.heap.alloc
        BY <1>2, <2>2 DEF Call, Holds
      <3>2. WellFormed(s.heap, {}) /\ s.heap.brk <= MAX_HEAP /\ r.bp # NULL
        BY DEF Holds
      <3> HIDE DEF r, old
      <3>3. MovedTo(s.heap, s.blocks[op.index], op.size, r)
        BY <1>2, <3>1, <3>2, ReallocKeeps
      <3>. QED BY <3>1, <3>3, Zenon DEF MovedTo
    <2>. QED BY <1>2, <2>1, <2>2, Zenon
  <1> HIDE DEF r, t
  <1>4. /\ s.blocks \in [Ids -> Nat] /\ s.heap.alloc = {s.blocks[id] : id \in H}
        /\ \A a, b \in H : s.blocks[a] = s.blocks[b] => a = b
    BY DEF Holds
  <1>5. /\ t.blocks \in [Ids -> Nat] /\ t.blocks[op.index] = r.bp
        /\ \A id \in H \ {op.index} : t.blocks[id] = s.blocks[id]
    BY <1>1, <1>2, <1>3, <1>4, Zenon
  <1>6. s.heap.alloc \ old = {s.blocks[id] : id \in H \ {op.index}}
    <2>1. CASE op.type = "r"
      BY <1>2, <1>4, <2>1
    <2>2. CASE op.type # "r"
      BY <1>2, <1>4, <2>2
    <2>. QED BY <2>1, <2>2
  <1>7. \A id \in H \ {op.index} : s.blocks[id] \in s.heap.alloc \ old
    BY <1>6
  <1> HIDE DEF old
  <1>8. t.heap.alloc = {t.blocks[id] : id \in H \cup {op.index}}
    BY <1>1, <1>3, <1>5, <1>6
  <1>9. \A a, b \in H \cup {op.index} : t.blocks[a] = t.blocks[b] => a = b
    <2>1. \A id \in H \ {op.index} : t.blocks[id] # r.bp
      BY <1>3, <1>5, <1>7
    <2>. QED BY <1>4, <1>5, <2>1
  <1>10. Holds(t, H \cup {op.index})
    BY <1>1, <1>3, <1>5, <1>8, <1>9, Zenon DEF Holds
  <1>11. \A id \in H \ {op.index} : t.heap.size[t.blocks[id]] = s.heap.size[s.blocks[id]]
    BY <1>1, <1>3, <1>5, <1>7, Zenon DEF Kept
  <1>. QED BY <1>1, <1>3, <1>5, <1>10, <1>11, Zenon DEF Serves, HeldNext, t

\* All that the passes rely on holds for mm.c.
LEMMA PackageCorrect == PackageServes
  <1>1. ASSUME NEW b \in [Ids -> Nat]
        PROVE  Holds([heap |-> mm_init, blocks |-> b], {})
    <2>1. mm_init.brk \in Nat /\ mm_init.brk <= MAX_HEAP
      BY InitKeeps, SizesAssumption DEF FIRST, WSIZE
    <2>. QED BY <2>1, InitKeeps DEF Holds
  <1>2. ASSUME NEW s, NEW op, NEW H \in SUBSET Ids, Holds(s, H), MayFollow(op, H),
               op.type # "f" => Call(s.heap, s.blocks, op).bp # NULL
        PROVE  Serves(s, op, H, After(s, op))
    BY <1>2, FreeServes, AllocServes
  <1>. QED BY <1>1, <1>2, FirstSbrkFits, Zenon DEF PackageServes

(***************************************************************************)
(* The loop of Driver                                                      *)
(***************************************************************************)
\* The stage and the number of arenas as Driver sees them.
Stage == IF pc = "lines" THEN "read" ELSE pc
Taken == IF InPass THEN arenas - 1 ELSE arenas

\* mm_stats as Driver's stats of both packages.
AsStats(m) ==
    [p \in {"libc", "mm"} |->
        [t \in 1 .. MAX_TRACES |->
            IF p = "mm" THEN m[t]
            ELSE [valid |-> FALSE, ops |-> 0, util |-> 0, secs |-> 0, timed |-> FALSE]]]

\* A step that Driver does not see.
LEMMA MainStutters ==
    ASSUME Stage' = Stage, Taken' = Taken, UNCHANGED <<i, runs, mm_stats, errors>>
    PROVE  UNCHANGED Main!vars
  BY DEF Stage, Taken, Main!vars, Main!options, Main!results

\* The first two stages.
LEMMA MainBegin ==
    ASSUME ControlInv, StatsInv, Begin
    PROVE  Main!Start
  <1>1. /\ pc = "begin" /\ UNCHANGED <<i, runs, mm_stats, errors>> /\ ~InPass /\ ~InPass'
        /\ i = 1
        /\ \/ pc' = "read" /\ arenas' = arenas + 1
           \/ pc' = "exit" /\ arenas' = arenas
    BY DEF Begin, outcome, InPass, Passes, StatsInv
  <1>. QED BY <1>1 DEF Main!Start, Main!mem_init, Main!Goto, Main!options, Main!results

\* read_trace is one step of Driver, taken at its last line.
LEMMA MainRead ==
    ASSUME ControlInv, StatsInv, Read
    PROVE  Main!read_trace \/ UNCHANGED Main!vars
  <1>1. /\ UNCHANGED <<i, opnum, runs, errors, arenas>> /\ pc \in {"read", "lines"}
        /\ pc' \in {"lines", "valid", "exit", "abort"}
    BY DEF Read, read_trace, OpenTrace, ReadLine, BadLine, EndOfFile
  <1>2. ~InPass /\ ~InPass'
    BY <1>1, OutOfPass DEF InPass, Passes
  <1>3. trace.num_ops \in 0 .. MAX_LINES /\ mm_stats \in [1 .. MAX_TRACES -> Stats]
        /\ i \in 1 .. MAX_TRACES
    BY <1>1 DEF ControlInv, TraceType, StatsInv, Control, Reading
  <1>4. CASE pc' = "lines"
    <2>1. Stage' = Stage /\ Taken' = Taken /\ mm_stats' = mm_stats
      BY <1>1, <1>2, <1>4 DEF Stage, Taken, Read
    <2>. QED BY <1>1, <2>1, MainStutters
  <1>5. CASE pc' \in {"exit", "abort"}
    <2>1. mm_stats' = mm_stats
      BY <1>5 DEF Read
    <2>. QED BY <1>1, <1>2, <1>5, <2>1 DEF Main!read_trace, Main!Goto, Main!options, Main!results
  <1>6. CASE pc' = "valid"
    <2>1. mm_stats' = [mm_stats EXCEPT ![i].ops = trace.num_ops]
      BY <1>6 DEF Read
    <2>. QED BY <1>1, <1>2, <1>3, <1>6, <2>1, Zenon
             DEF Main!read_trace, Main!Goto, Main!options, Main!results
  <1>. QED BY <1>1, <1>4, <1>5, <1>6

\* A pass begins, or the program ends because there is no arena.
LEMMA MainBeginPass ==
    ASSUME PackageServes, ControlInv, StatsInv, BeginPass
    PROVE  \/ Main!eval_mm_valid \/ Main!eval_mm_util \/ Main!eval_mm_speed
           \/ UNCHANGED Main!vars
  <1>1. /\ UNCHANGED <<i, runs, mm_stats, errors>> /\ pc \in Passes /\ opnum = 0
        /\ (pc = "speed" => runs < RUNS) /\ ~InPass
    BY DEF BeginPass, outcome, InPass
  <1>2. arenas \in Nat
    BY DEF ControlInv, Control
  <1>3. CASE pc' = "exit" /\ arenas' = arenas
    <2>1. ~InPass'
      BY <1>3 DEF InPass, Passes
    <2>2. CASE pc = "valid"
      <3>1. /\ mm_stats[i].valid = FALSE /\ mm_stats \in [1 .. MAX_TRACES -> Stats]
            /\ i \in 1 .. MAX_TRACES
        BY <1>1, <2>2 DEF StatsInv, ControlInv, Control
      <3>2. mm_stats[i] = [mm_stats[i] EXCEPT !.valid = FALSE]
        BY <3>1 DEF Stats
      <3>3. AsStats(mm_stats)' = [AsStats(mm_stats) EXCEPT !["mm"][i].valid = FALSE]
        BY <1>1, <3>1, <3>2, Zenon DEF AsStats
      <3>4. Main!mem_init({"util"})
        BY <1>1, <1>3, <2>1 DEF Main!mem_init, Main!Goto
      <3>5. ((IF pc = "lines" THEN "read" ELSE pc)' = "util") = FALSE
        BY <1>3
      <3>. QED BY <1>1, <2>2, <3>3, <3>4, <3>5, Zenon
               DEF AsStats, Main!eval_mm_valid, Main!options, Main!results
    <2>3. CASE pc = "util"
      <3>1. 0 \in 0 .. 100
        OBVIOUS
      <3>. QED BY <1>1, <1>3, <2>1, <2>3, <3>1
           DEF Main!eval_mm_util, Main!mem_init, Main!Goto, Main!options, Main!results
    <2>4. CASE pc = "speed"
      BY <1>1, <1>3, <2>1, <2>4
         DEF Main!eval_mm_speed, Main!mem_init, Main!Goto, Main!options, Main!results
    <2>. QED BY <1>1, <2>2, <2>3, <2>4 DEF Passes
  <1>4. CASE arenas' = arenas + 1 /\ BeginHeap
    <2>1. opnum' = 1 /\ pc' = pc
      BY <1>4, NewHeapFits DEF BeginHeap
    <2>2. InPass'
      BY <1>1, <2>1 DEF InPass
    <2>3. Stage' = Stage /\ Taken' = Taken
      BY <1>1, <1>2, <1>4, <2>1, <2>2 DEF Stage, Taken
    <2>. QED BY <1>1, <2>3, MainStutters
  <1>. QED BY <1>3, <1>4 DEF BeginPass

\* A request is answered inside a pass; one that fails ends the first pass, and
\* never a later one.
LEMMA MainRequest ==
    ASSUME ControlInv, RepeatInv, [ReplayNext]_replayVars,
           ValidRequest \/ UtilRequest \/ SpeedRequest
    PROVE  Main!eval_mm_valid \/ UNCHANGED Main!vars
  <1>1. /\ UNCHANGED <<mm_stats, arenas>> /\ opnum \in 1 .. trace.num_ops
        /\ pc \in Passes
    BY DEF ValidRequest, UtilRequest, SpeedRequest, Passes
  <1>2. InPass /\ arenas \in Nat /\ opnum \in Nat
    <2>1. arenas \in Nat /\ opnum \in Nat
      BY DEF ControlInv, Control
    <2>2. opnum > 0
      BY <1>1, <2>1
    <2>. QED BY <1>1, <2>1, <2>2 DEF InPass
  <1>3. CASE Advance
    <2>1. UNCHANGED <<pc, i, runs, errors>> /\ opnum' = opnum + 1 /\ opnum' > 0
      BY <1>2, <1>3 DEF Advance
    <2>2. InPass'
      BY <1>1, <2>1 DEF InPass
    <2>3. Stage' = Stage /\ Taken' = Taken
      BY <1>1, <1>2, <2>1, <2>2 DEF Stage, Taken
    <2>. QED BY <1>1, <2>1, <2>3, MainStutters
  <1>4. CASE pc = "valid" /\ errors' = errors + 1 /\ NextTrace
    <2>1. /\ ~InPass' /\ runs' = 0 /\ i' = i + 1
          /\ pc' = IF i < MAX_TRACES THEN "read" ELSE "print"
      BY <1>4 DEF NextTrace, InPass, Passes
    <2>. QED BY <1>1, <1>2, <1>4, <2>1
             DEF Main!eval_mm_valid, Main!NextTrace, Main!Goto, Main!options, Main!results
  <1>5. ASSUME NEW r, NEW added, Judge(r, added), pc = "valid"
        PROVE  Advance \/ (errors' = errors + 1 /\ NextTrace)
    BY <1>5 DEF Judge, Invalid
  <1>6. ValidRequest => pc = "valid" /\ \E r, added : Judge(r, added)
    BY DEF ValidRequest
  <1>7. UtilRequest \/ SpeedRequest => Advance
    <2>1. reason' # "app_error"
      BY ReasonKept
    <2>. QED BY <2>1 DEF UtilRequest, SpeedRequest, AppError
  <1>. QED BY <1>3, <1>4, <1>5, <1>6, <1>7

\* The end of a pass.
LEMMA MainEndValid ==
    ASSUME ControlInv, StatsInv, EndValid
    PROVE  Main!eval_mm_valid
  <1>1. /\ pc = "valid" /\ InPass /\ mm_stats' = [mm_stats EXCEPT ![i].valid = TRUE]
        /\ pc' = "util" /\ ~InPass' /\ UNCHANGED <<i, runs, errors, arenas>>
    BY DEF EndValid, EndOfTrace, InPass
  <1>2. arenas \in Nat
    BY DEF ControlInv, Control
  <1>3. mm_stats \in [1 .. MAX_TRACES -> Stats] /\ i \in 1 .. MAX_TRACES
    BY <1>1 DEF ControlInv, Control, StatsInv, Passes
  <1>4. AsStats(mm_stats)' = [AsStats(mm_stats) EXCEPT !["mm"][i].valid = TRUE]
    BY <1>1, <1>3, Zenon DEF AsStats
  <1>5. Main!mem_init({"util"})
    BY <1>1, <1>2 DEF Main!mem_init, Main!Goto
  <1>6. ((IF pc = "lines" THEN "read" ELSE pc)' = "util") = TRUE
    BY <1>1, Zenon
  <1>. QED BY <1>1, <1>4, <1>5, <1>6, Zenon
           DEF AsStats, Main!eval_mm_valid, Main!options, Main!results

\* eval_mm_util returns a percentage.
LEMMA MainEndUtil ==
    ASSUME ControlInv, StatsInv, TotalsInv, HeapInv, EndUtil
    PROVE  Main!eval_mm_util
  <1>1. /\ pc = "util" /\ InPass
        /\ pc' = "speed" /\ ~InPass' /\ UNCHANGED <<i, runs, errors, arenas>>
    BY DEF EndUtil, EndOfTrace, InPass
  <1>2. arenas \in Nat
    BY DEF ControlInv, Control
  <1>3. PICK u \in 0 .. 100 : mm_stats' = [mm_stats EXCEPT ![i].util = u]
    BY UtilPercent, Zenon
  <1>4. mm_stats \in [1 .. MAX_TRACES -> Stats] /\ i \in 1 .. MAX_TRACES
    BY <1>1 DEF ControlInv, Control, StatsInv, Passes
  <1>5. AsStats(mm_stats)' = [AsStats(mm_stats) EXCEPT !["mm"][i].util = u]
    BY <1>3, <1>4, Zenon DEF AsStats
  <1>6. Main!mem_init({"speed", "exit"})
    BY <1>1, <1>2 DEF Main!mem_init, Main!Goto
  <1>. QED BY <1>1, <1>3, <1>5, <1>6, Zenon
           DEF AsStats, Main!eval_mm_util, Main!options, Main!results

\* A timed run ends.
LEMMA MainEndSpeed ==
    ASSUME ControlInv, EndSpeed
    PROVE  Main!eval_mm_speed
  <1>1. /\ pc = "speed" /\ InPass /\ pc' = "speed" /\ runs' = runs + 1 /\ ~InPass'
        /\ UNCHANGED <<i, mm_stats, errors, arenas>>
    BY DEF EndSpeed, EndOfTrace, InPass, outcome
  <1>2. arenas \in Nat /\ runs < RUNS
    BY <1>1 DEF ControlInv, Control, InPass
  <1>. QED BY <1>1, <1>2
           DEF Main!eval_mm_speed, Main!mem_init, Main!Goto, Main!options, Main!results

\* fsecs returns.
LEMMA MainEndTimed ==
    ASSUME ControlInv, StatsInv, EndTimed
    PROVE  Main!fsecs
  <1>1. /\ pc = "speed" /\ runs = RUNS /\ UNCHANGED <<errors, arenas>> /\ ~InPass /\ ~InPass'
        /\ i' = i + 1 /\ runs' = 0 /\ pc' = IF i < MAX_TRACES THEN "read" ELSE "print"
    BY DEF EndTimed, InPass, NextTrace
  <1>2. PICK s \in Secs : mm_stats' = [mm_stats EXCEPT ![i].secs = s, ![i].timed = TRUE]
    BY Zenon DEF EndTimed
  <1>3. mm_stats \in [1 .. MAX_TRACES -> Stats] /\ i \in 1 .. MAX_TRACES
    BY <1>1 DEF ControlInv, Control, StatsInv, Passes
  <1>4. AsStats(mm_stats)' = [AsStats(mm_stats) EXCEPT !["mm"][i].secs = s,
                                                             !["mm"][i].timed = TRUE]
    BY <1>2, <1>3, Zenon DEF AsStats
  <1>. QED BY <1>1, <1>2, <1>4, Zenon
           DEF AsStats, Main!fsecs, Main!NextTrace, Main!Goto, Main!options, Main!results

\* Every step is a step of Driver, or none.
LEMMA MainStep ==
    ASSUME PackageServes, ControlInv, HeapInv, RepeatInv, TotalsInv, StatsInv, [ReplayNext]_replayVars
    PROVE  [Main!Next]_Main!vars
  <1>1. CASE Begin
    BY <1>1, MainBegin DEF Main!Next
  <1>2. CASE Read
    BY <1>2, MainRead DEF Main!Next
  <1>3. CASE BeginPass
    BY <1>3, MainBeginPass DEF Main!Next
  <1>4. CASE ValidRequest \/ UtilRequest \/ SpeedRequest
    BY <1>4, MainRequest DEF Main!Next
  <1>5. CASE EndValid \/ EndUtil \/ EndSpeed \/ EndTimed
    BY <1>5, MainEndValid, MainEndUtil, MainEndSpeed, MainEndTimed DEF Main!Next
  <1>6. CASE UNCHANGED replayVars
    <2>1. UNCHANGED <<pc, i, opnum, runs, mm_stats, errors, arenas>>
      BY <1>6 DEF replayVars, control, outcome
    <2>2. Stage' = Stage /\ Taken' = Taken
      BY <2>1 DEF Stage, Taken, InPass
    <2>. QED BY <2>1, <2>2, MainStutters
  <1>. QED BY <1>1, <1>2, <1>3, <1>4, <1>5, <1>6 DEF ReplayNext

\* main starts as Driver does.
LEMMA MainStart == ReplayInit => Main!Init
  BY ReplayAssumption DEF ReplayInit, Main!Init, Main!Fresh, Main!NoStats, Main!Dashes,
                          InPass, Passes

(***************************************************************************)
(* The theorems                                                            *)
(***************************************************************************)
\* The control, the heap of the pass and its agreement with the reference hold at
\* every step of main's loop over the traces.
THEOREM PassInvariance == ReplaySpec => []PassInv
  <1>1. PassInv /\ [ReplayNext]_replayVars => PassInv'
    BY PackageCorrect, PassStep
  <1>. QED BY <1>1, PassStart, PTL DEF ReplaySpec

\* PassesRepeat: eval_mm_valid, eval_mm_util and every timed run of eval_mm_speed
\* compute the same heap for the same requests, whatever the passes before left.
THEOREM RepeatCorrect == ReplaySpec => []PassesRepeat
  <1>1. PassInv => PassesRepeat
    BY DEF PassInv, RepeatInv, SameAs, PassesRepeat
  <1>. QED BY <1>1, PassInvariance, PTL

\* ValidNeverFails: eval_mm_util and eval_mm_speed never call app_error on a trace
\* that eval_mm_valid accepted.
THEOREM NeverFailsCorrect == ReplaySpec => []ValidNeverFails
  <1>1. PassInv => ValidNeverFails
    BY DEF PassInv, RepeatInv, ValidNeverFails
  <1>. QED BY <1>1, PassInvariance, PTL

\* ReplayReadsWritten: a pass reads trace->ops, trace->blocks and the heap only
\* where read_trace or this pass has written them.
THEOREM ReadsCorrect == ReplaySpec => []ReplayReadsWritten
  BY ReadsWritten, PassInvariance, PTL

\* WorkShrinks: the loops over the lines, the requests, the timed runs and the
\* traces all end, whatever the files hold.
THEOREM WorkCorrect == ReplaySpec => WorkShrinks
  <1>1. PassInv /\ PassInv' /\ [ReplayNext]_replayVars
           => [Work' < Work /\ Work' \in Nat]_replayVars
    BY PackageCorrect, WorkStep DEF PassInv
  <1>. QED BY <1>1, PassInvariance, PTL DEF ReplaySpec, WorkShrinks

\* With what the passes record, the range list, the totals and the stats: all of
\* it holds at every step.
THEOREM ReplayInvariance == ReplaySpec => []ReplayInv
  <1>1. ReplayInv /\ [ReplayNext]_replayVars => ReplayInv'
    BY PackageCorrect, ReplayStep
  <1>. QED BY <1>1, ReplayStart, PTL DEF ReplaySpec

\* BlocksAccepted: eval_mm_valid refuses no block that mm_malloc or mm_realloc
\* returns, whatever is on the range list.
THEOREM AcceptedCorrect == ReplaySpec => []BlocksAccepted
  <1>1. ReplayInv => BlocksAccepted
    BY DEF ReplayInv, RangesInv, BlocksAccepted
  <1>. QED BY <1>1, ReplayInvariance, PTL

\* HighWaterIsPeak: eval_mm_util's max_total_size is the most that the requests so
\* far have held at once.
THEOREM PeakCorrect == ReplaySpec => []HighWaterIsPeak
  <1>1. ReplayInv => HighWaterIsPeak
    BY PeakIs DEF ReplayInv, PassInv
  <1>. QED BY <1>1, ReplayInvariance, PTL

\* ImplementsDriver: reading and replaying request by request is what Driver says
\* of read_trace, the three eval functions and fsecs.
THEOREM DriverCorrect == ReplaySpec => ImplementsDriver
  <1>1. ReplayInv /\ [ReplayNext]_replayVars => [Main!Next]_Main!vars
    BY PackageCorrect, MainStep DEF ReplayInv, PassInv
  <1>. QED BY <1>1, MainStart, ReplayInvariance, PTL
           DEF ReplaySpec, ImplementsDriver, Main!Spec
===============================================================================
