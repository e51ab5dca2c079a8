----------------------------- MODULE ReplayPasses -----------------------------
(***************************************************************************)
(* The passes over a trace: what read_trace stores, which heap each request*)
(* meets, that every pass over a trace repeats the one before it, and that *)
(* the work ends.  What the passes need of the package is PackageServes;   *)
(* the inductive invariant is PassInv.                                     *)
(***************************************************************************)
EXTENDS Replay, DataLemmas

(***************************************************************************)
(* The requests of a trace                                                 *)
(***************************************************************************)
Op == [type : {"a", "r", "f"}, index : FileIndices, size : FileSizes \cup {0}]

\* Among the first k requests, the m-th is the last that names the index id.
LastNamed(ops, k, id, m) ==
    ops[m].index = id /\ \A j \in m + 1 .. k : ops[j].index # id

\* HeldAfter of the first k requests.
HeldBy(ops, k) ==
    {id \in FileIndices :
        \E m \in 1 .. k : ops[m].type # "f" /\ LastNamed(ops, k, id, m)}

\* Indices are allocated before they are used, and not twice.
Legal(ops) ==
    \A k \in 1 .. Len(ops) :
        /\ (ops[k].type = "a") = (ops[k].index \notin HeldBy(ops, k - 1))
        /\ ops[k].type # "f" => ops[k].size \in FileSizes

\* The first k requests of a trace.
LEMMA PrefixIs ==
    ASSUME NEW ops \in Seq(Op), NEW k \in 0 .. Len(ops)
    PROVE  HeldAfter(SubSeq(ops, 1, k)) = HeldBy(ops, k)
  <1> DEFINE s == SubSeq(ops, 1, k)
  <1>1. s \in Seq(Op) /\ Len(s) = k /\ \A j \in 1 .. k : s[j] = ops[j]
    OBVIOUS
  <1> HIDE DEF s
  <1>2. k \in Nat
    OBVIOUS
  <1>. QED BY <1>1, <1>2 DEF HeldAfter, HeldBy, LastNamed, s

\* The whole trace is its first Len(ops) requests.
LEMMA WholeIs ==
    ASSUME NEW ops \in Seq(Op)
    PROVE  HeldAfter(ops) = HeldBy(ops, Len(ops))
  BY DEF HeldAfter, HeldBy, LastNamed

\* One more request.
LEMMA HeldStep ==
    ASSUME NEW ops \in Seq(Op), NEW k \in 1 .. Len(ops)
    PROVE  HeldBy(ops, k) = IF ops[k].type = "f" THEN HeldBy(ops, k - 1) \ {ops[k].index}
                            ELSE HeldBy(ops, k - 1) \cup {ops[k].index}
  <1>1. k \in Nat /\ k >= 1 /\ ops[k].index \in FileIndices
    <2>1. ops[k] \in Op
      OBVIOUS
    <2>. QED BY <2>1 DEF Op
  <1>2. ASSUME NEW id \in FileIndices, id = ops[k].index
        PROVE  id \in HeldBy(ops, k) <=> ops[k].type # "f"
    <2>1. \A m \in 1 .. k : LastNamed(ops, k, id, m) <=> m = k
      BY <1>1, <1>2 DEF LastNamed
    <2>. QED BY <1>1, <2>1 DEF HeldBy
  <1>3. ASSUME NEW id \in FileIndices, id # ops[k].index
        PROVE  id \in HeldBy(ops, k) <=> id \in HeldBy(ops, k - 1)
    <2>1. \A m \in 1 .. k : LastNamed(ops, k, id, m) <=>
                            m \in 1 .. k - 1 /\ LastNamed(ops, k - 1, id, m)
      BY <1>1, <1>3 DEF LastNamed
    <2>. QED BY <1>1, <2>1 DEF HeldBy
  <1>4. HeldBy(ops, k) \subseteq FileIndices /\ HeldBy(ops, k - 1) \subseteq FileIndices
    BY DEF HeldBy
  <1>. QED BY <1>1, <1>2, <1>3, <1>4

\* Before the first request nothing is held.
LEMMA HeldNone == \A ops : HeldBy(ops, 0) = {}
  BY DEF HeldBy

\* A longer trace holds after k requests what the shorter one holds.
LEMMA HeldAppend ==
    ASSUME NEW ops \in Seq(Op), NEW op \in Op, NEW k \in 0 .. Len(ops)
    PROVE  HeldBy(Append(ops, op), k) = HeldBy(ops, k)
  <1>1. \A j \in 1 .. k : Append(ops, op)[j] = ops[j]
    OBVIOUS
  <1>. QED BY <1>1 DEF HeldBy, LastNamed

\* A line that read_trace accepts keeps the trace legal.
LEMMA LegalAppend ==
    ASSUME NEW ops \in Seq(Op), Legal(ops), NEW op \in Lines(ops)
    PROVE  op \in Op /\ Append(ops, op) \in Seq(Op) /\ Legal(Append(ops, op))
  <1>1. op \in Op /\ (op.type = "a") = (op.index \notin HeldBy(ops, Len(ops)))
        /\ (op.type # "f" => op.size \in FileSizes)
    BY WholeIs, Zenon DEF Lines, Op
  <1>2. Append(ops, op) \in Seq(Op) /\ Len(Append(ops, op)) = Len(ops) + 1
        /\ \A j \in 1 .. Len(ops) : Append(ops, op)[j] = ops[j]
        /\ Append(ops, op)[Len(ops) + 1] = op
    BY <1>1
  <1> DEFINE t == Append(ops, op)
  <1>3. \A k \in 0 .. Len(ops) : HeldBy(t, k) = HeldBy(ops, k)
    BY <1>1, HeldAppend
  <1> HIDE DEF t
  <1>4. ASSUME NEW k \in 1 .. Len(ops) + 1
        PROVE  /\ (t[k].type = "a") = (t[k].index \notin HeldBy(t, k - 1))
               /\ t[k].type # "f" => t[k].size \in FileSizes
    <2>1. CASE k = Len(ops) + 1
      <3>1. k - 1 = Len(ops) /\ Len(ops) \in 0 .. Len(ops) /\ t[k] = op
        BY <1>2, <2>1 DEF t
      <3>. QED BY <1>1, <1>3, <3>1
    <2>2. CASE k # Len(ops) + 1
      <3>1. k \in 1 .. Len(ops) /\ k - 1 \in 0 .. Len(ops)
        BY <2>2
      <3>2. t[k] = ops[k]
        BY <1>2, <3>1 DEF t
      <3>. QED BY <1>3, <3>1, <3>2 DEF Legal
    <2>. QED BY <2>1, <2>2
  <1>. QED BY <1>1, <1>2, <1>4 DEF Legal, t

(***************************************************************************)
(* The control                                                             *)
(***************************************************************************)
Reading == {"begin", "read", "lines"}

\* What read_trace has stored: requests that name no index before it is allocated,
\* and max_index bounds the indices.
TraceType ==
    /\ trace \in [num_ids : Nat, num_ops : 0 .. MAX_LINES, ops : Seq(Op)]
    /\ Len(trace.ops) <= MAX_LINES /\ Legal(trace.ops)
    /\ max_index \in Nat
    /\ \A k \in 1 .. Len(trace.ops) : trace.ops[k].index <= max_index

\* Where main and the eval functions are: in a pass the trace is the whole one
\* that the header announced.
Control ==
    /\ pc \in Reading \cup Passes \cup Ended
    /\ opnum \in Nat /\ runs \in 0 .. RUNS /\ i \in 1 .. MAX_TRACES + 1 /\ arenas \in Nat
    /\ pc \in Reading \cup Passes => i <= MAX_TRACES
    /\ pc \in Reading => opnum = 0
    /\ pc \in Reading \cup {"valid", "util"} => runs = 0
    /\ pc \in Passes => /\ trace.num_ops = Len(trace.ops)
                        /\ max_index = trace.num_ids - 1
                        /\ opnum <= trace.num_ops + 1
    /\ pc = "speed" /\ opnum > 0 => runs < RUNS

ControlInv == TraceType /\ Control

\* What read_trace stores.
LEMMA ReadKeeps ==
    ASSUME ControlInv, Read
    PROVE  ControlInv'
  <1>1. /\ trace \in [num_ids : Nat, num_ops : 0 .. MAX_LINES, ops : Seq(Op)]
        /\ trace.ops \in Seq(Op) /\ trace.num_ops \in Nat
        /\ Len(trace.ops) \in Nat /\ MAX_LINES \in Nat /\ max_index \in Nat
    BY TraceAssumption DEF ControlInv, TraceType
  <1>2. /\ pc \in {"read", "lines"} /\ pc' \in {"lines", "valid", "exit", "abort"}
        /\ UNCHANGED <<i, opnum, runs, arenas>>
    BY DEF Read, read_trace, OpenTrace, ReadLine, BadLine, EndOfFile
  <1>3. opnum = 0 /\ runs = 0 /\ i \in 1 .. MAX_TRACES + 1 /\ i <= MAX_TRACES
        /\ arenas \in Nat /\ RUNS \in Nat
    BY <1>2, ReplayAssumption DEF ControlInv, Control, Reading
  <1>4. CASE UNCHANGED <<trace, max_index>>
    <2>1. pc' = "valid" => max_index = trace.num_ids - 1 /\ trace.num_ops = Len(trace.ops)
      BY <1>4, <1>1 DEF Read, read_trace, OpenTrace, ReadLine, BadLine, EndOfFile
    <2>2. TraceType'
      BY <1>4 DEF ControlInv, TraceType, Legal
    <2>3. Control'
      BY <1>1, <1>2, <1>3, <1>4, <2>1 DEF Control, Reading, Passes, Ended
    <2>. QED BY <2>2, <2>3 DEF ControlInv
  <1>5. CASE OpenTrace /\ pc' = "lines"
    <2>1. PICK ids \in 0 .. Cardinality(FileIndices), n \in 0 .. MAX_LINES :
             trace' = [num_ids |-> ids, num_ops |-> n, ops |-> <<>>]
      BY <1>5 DEF OpenTrace
    <2>2. max_index' = 0
      BY <1>5 DEF OpenTrace
    <2>3. trace'.ops = <<>> /\ Len(<<>>) = 0 /\ <<>> \in Seq(Op)
      BY <2>1
    <2>4. trace' \in [num_ids : Nat, num_ops : 0 .. MAX_LINES, ops : Seq(Op)]
      BY <2>1, <2>3
    <2>5. TraceType'
      BY <1>1, <2>2, <2>3, <2>4 DEF TraceType, Legal
    <2>6. Control'
      BY <1>2, <1>3, <1>5 DEF Control, Reading, Passes, Ended
    <2>. QED BY <2>5, <2>6 DEF ControlInv
  <1>6. CASE ReadLine
    <2>1. PICK op \in Lines(trace.ops) :
             /\ trace' = [trace EXCEPT !.ops = Append(@, op)]
             /\ max_index' = IF op.type = "f" THEN max_index ELSE Max({op.index, max_index})
      BY <1>6, Zenon DEF ReadLine
    <2>2. Len(trace.ops) < MAX_LINES /\ pc' \in {"lines", "abort"}
      BY <1>6 DEF ReadLine
    <2>3. op \in Op /\ Append(trace.ops, op) \in Seq(Op) /\ Legal(Append(trace.ops, op))
      BY <1>1, LegalAppend DEF ControlInv, TraceType
    <2>4. /\ trace' \in [num_ids : Nat, num_ops : 0 .. MAX_LINES, ops : Seq(Op)]
          /\ trace'.ops = Append(trace.ops, op)
      BY <1>1, <2>1, <2>3, Zenon
    <2>5. /\ Len(trace'.ops) = Len(trace.ops) + 1
          /\ \A k \in 1 .. Len(trace.ops) : trace'.ops[k] = trace.ops[k]
          /\ trace'.ops[Len(trace.ops) + 1] = op
      BY <1>1, <2>3, <2>4
    <2>6. op.index \in Nat
      BY <2>3, TraceAssumption, Zenon DEF Op
    <2>7. max_index' \in Nat /\ max_index <= max_index'
      <3>1. CASE op.type = "f"
        BY <1>1, <2>1, <3>1
      <3>2. CASE op.type # "f"
        <4>1. max_index' = Max({op.index, max_index})
          BY <2>1, <3>2
        <4>2. /\ Max({op.index, max_index}) \in {op.index, max_index}
              /\ Max({op.index, max_index}) >= max_index
          BY <1>1, <2>6, LargerOfTwo
        <4>. QED BY <1>1, <2>6, <4>1, <4>2
      <3>. QED BY <3>1, <3>2
    <2>8. op.index <= max_index'
      <3>1. CASE op.type # "f"
        BY <1>1, <2>1, <2>6, <3>1, LargerOfTwo, Zenon
      <3>2. CASE op.type = "f"
        <4>1. op.index \in HeldBy(trace.ops, Len(trace.ops))
          BY <1>1, <3>2, WholeIs DEF Lines
        <4>2. PICK m \in 1 .. Len(trace.ops) : trace.ops[m].index = op.index
          BY <4>1 DEF HeldBy, LastNamed
        <4>3. op.index <= max_index
          BY <4>2 DEF ControlInv, TraceType
        <4>. QED BY <1>1, <2>6, <2>7, <4>3
      <3>. QED BY <3>1, <3>2
    <2>9. ASSUME NEW k \in 1 .. Len(trace.ops) + 1 PROVE trace'.ops[k].index <= max_index'
      <3>1. CASE k = Len(trace.ops) + 1
        BY <2>5, <2>8, <3>1
      <3>2. CASE k # Len(trace.ops) + 1
        <4>1. k \in 1 .. Len(trace.ops)
          BY <1>1, <3>2
        <4>2. trace.ops[k].index <= max_index /\ trace'.ops[k] = trace.ops[k]
          BY <2>5, <4>1 DEF ControlInv, TraceType
        <4>3. trace.ops[k].index \in Nat
          <5>1. trace.ops[k] \in Op
            BY <1>1, <4>1
          <5>. QED BY <5>1, TraceAssumption DEF Op
        <4>. QED BY <1>1, <2>7, <4>2, <4>3
      <3>. QED BY <3>1, <3>2
    <2>10. TraceType'
      BY <1>1, <2>2, <2>3, <2>4, <2>5, <2>7, <2>9 DEF TraceType
    <2>11. Control'
      BY <1>2, <1>3, <2>2 DEF Control, Reading, Passes, Ended
    <2>. QED BY <2>10, <2>11 DEF ControlInv
  <1>. QED BY <1>4, <1>5, <1>6 DEF Read, read_trace, OpenTrace, BadLine, EndOfFile

(***************************************************************************)
(* What the passes rely on                                                 *)
(***************************************************************************)
\* The heap of s is well-formed, and its allocated blocks are those to which the
\* indices in H point.
Holds(s, H) ==
    /\ WellFormed(s.heap, {}) /\ s.heap.brk \in Nat /\ s.heap.brk <= MAX_HEAP
    /\ s.blocks \in [Ids -> Nat]
    /\ s.heap.alloc = {s.blocks[id] : id \in H}
    /\ \A a, b \in H : s.blocks[a] = s.blocks[b] => a = b

\* A request that the trace may make now.
MayFollow(op, H) ==
    /\ op \in Op /\ (op.type = "a") = (op.index \notin H)
    /\ op.type # "f" => op.size \in FileSizes

\* The indices held after one more request.
HeldNext(op, H) == IF op.type = "f" THEN H \ {op.index} ELSE H \cup {op.index}

\* What a request leaves alone, and what it gives.
Serves(s, op, H, t) ==
    /\ Holds(t, HeldNext(op, H))
    /\ s.heap.brk <= t.heap.brk
    /\ \A id \in H \ {op.index} : t.blocks[id] = s.blocks[id]
    /\ \A id \in H \ {op.index} : t.heap.size[t.blocks[id]] = s.heap.size[s.blocks[id]]
    /\ op.type # "f" => /\ op.size # 0
                        /\ t.heap.size[t.blocks[op.index]] >= op.size + WSIZE
                        /\ t.blocks[op.index] \notin s.heap.alloc

\* The package's side: mm_init gives an empty heap in a new arena, and a call that
\* does not fail serves the request.  For mm.c it is PackageCorrect.
PackageServes ==
    /\ ~SbrkFails(mem_init, FIRST + ADJUSTED_PAGESIZE)
    /\ \A b \in [Ids -> Nat] : Holds([heap |-> mm_init, blocks |-> b], {})
    /\ \A s, op : \A H \in SUBSET Ids :
          /\ Holds(s, H) /\ MayFollow(op, H)
          /\ op.type # "f" => Call(s.heap, s.blocks, op).bp # NULL
          => Serves(s, op, H, After(s, op))

\* A new heap always fits into a new arena.
LEMMA NewHeapFits ==
    ASSUME PackageServes
    PROVE  ~SbrkFails(mem_init, FIRST + ADJUSTED_PAGESIZE)
  BY DEF PackageServes

\* It is well-formed and empty.
LEMMA NewHeapHolds ==
    ASSUME PackageServes, NEW b \in [Ids -> Nat]
    PROVE  Holds([heap |-> mm_init, blocks |-> b], {})
  BY Zenon DEF PackageServes

\* A call that does not fail serves the request.
LEMMA CallServes ==
    ASSUME PackageServes, NEW s, NEW H \in SUBSET Ids, Holds(s, H),
           NEW op, MayFollow(op, H), op.type # "f" => Call(s.heap, s.blocks, op).bp # NULL
    PROVE  Serves(s, op, H, After(s, op))
  BY Zenon DEF PackageServes

(***************************************************************************)
(* The steps, as the invariants see them                                   *)
(***************************************************************************)
Here == [heap |-> heap, blocks |-> blocks]

\* The range list when a request of eval_mm_valid has been served.
NewRanges ==
    IF request.type = "f" THEN WithoutOld
    ELSE <<RangeOf(Call(heap, blocks, request).bp, request.size)>> \o WithoutOld

\* The totals when a request of eval_mm_util has been served.
NewTotals ==
    /\ total_size' = total_size + Growth(request)
    /\ max_total_size' = IF request.type = "f" THEN max_total_size
                         ELSE Max({total_size', max_total_size})

\* The package has answered a request, and the pass goes on.
Served ==
    /\ InPass /\ opnum \in 1 .. trace.num_ops /\ opnum' = opnum + 1
    /\ UNCHANGED <<pc, i, runs, trace, max_index, arenas, outcome>>
    /\ heap' = After(Here, request).heap /\ blocks' = After(Here, request).blocks
    /\ owner' = IF request.type = "f" THEN owner
                ELSE [owner EXCEPT ![request.index] = arenas]
    /\ request.type # "f" => Call(heap, blocks, request).bp # NULL
    /\ block_sizes' = IF request.type = "f" \/ pc = "speed" THEN block_sizes
                      ELSE [block_sizes EXCEPT ![request.index] = request.size]
    /\ pc = "valid" => ranges' = NewRanges
    /\ pc = "util" => NewTotals

\* A pass begins with a new arena and a new heap.
Began ==
    /\ pc \in Passes /\ opnum = 0 /\ opnum' = 1 /\ arenas' = arenas + 1
    /\ pc = "speed" => runs < RUNS
    /\ heap' = mm_init
    /\ pc = "valid" => ranges' = <<>>
    /\ pc = "util" => total_size' = 0 /\ max_total_size' = 0
    /\ UNCHANGED <<pc, i, runs, trace, max_index, record, outcome>>

\* A pass ends or does not begin; main goes on elsewhere, or the program ends.
Left ==
    /\ pc \in Passes /\ UNCHANGED <<trace, max_index, arenas, record>>
    /\ \/ pc' = "exit" /\ UNCHANGED <<opnum, i, runs>>
       \/ NextTrace
       \/ pc = "valid" /\ EndOfTrace /\ pc' = "util" /\ opnum' = 0 /\ UNCHANGED <<i, runs>>
       \/ pc = "util" /\ EndOfTrace /\ pc' = "speed" /\ opnum' = 0 /\ UNCHANGED <<i, runs>>
       \/ pc = "speed" /\ InPass /\ pc' = "speed" /\ opnum' = 0 /\ runs' = runs + 1
          /\ UNCHANGED i

\* The answered requests of the three passes.
LEMMA RequestSteps ==
    ASSUME ControlInv, ValidRequest \/ UtilRequest \/ SpeedRequest
    PROVE  Served \/ Left
  <1> DEFINE r == Call(heap, blocks, request)
  <1>1. r.heap = After(Here, request).heap
        /\ After(Here, request).blocks =
              IF request.type = "f" THEN blocks ELSE [blocks EXCEPT ![request.index] = r.bp]
    BY DEF After, Here
  <1>2. /\ pc \in Passes /\ opnum \in 1 .. trace.num_ops /\ heap' = r.heap
        /\ UNCHANGED <<trace, max_index, mm_stats, arenas>>
    BY DEF ValidRequest, UtilRequest, UtilCall, SpeedRequest, Passes
  <1>3. opnum > 0
    BY <1>2 DEF ControlInv, TraceType
  <1> HIDE DEF r
  <1>4. ASSUME Advance, ~Failed(r)
        PROVE  /\ InPass /\ opnum \in 1 .. trace.num_ops /\ opnum' = opnum + 1
               /\ UNCHANGED <<pc, i, runs, trace, max_index, arenas, outcome>>
               /\ request.type # "f" => r.bp # NULL
    BY <1>2, <1>3, <1>4 DEF Advance, Failed, InPass, outcome
  <1>5. CASE AppError
    BY <1>2, <1>5 DEF Left, AppError
  <1>6. CASE NextTrace /\ UNCHANGED record
    BY <1>2, <1>6 DEF Left
  <1>7. CASE ValidRequest
    <2> DEFINE added == add_range(WithoutOld, r.bp, request.size, HeapExtent(r.heap))
    <2>1. Judge(r, added) /\ pc = "valid"
      BY <1>7 DEF ValidRequest, r
    <2>2. added.ok => added.ranges = <<RangeOf(r.bp, request.size)>> \o WithoutOld
      BY DEF add_range
    <2> HIDE DEF added
    <2>3. CASE request.type = "f" /\ ~Failed(r)
      <3>1. Advance /\ UNCHANGED record /\ ranges' = WithoutOld
        BY <2>1, <2>3 DEF Judge, Remember
      <3>. QED BY <1>1, <1>2, <1>4, <2>1, <2>3, <3>1 DEF Served, NewRanges, record, r
    <2>4. CASE request.type # "f" /\ ~Failed(r) /\ added.ok
      <3>1. Advance /\ SetPointer(r) /\ SetSize /\ ranges' = added.ranges
        BY <2>1, <2>4 DEF Judge, Remember
      <3>. QED BY <1>1, <1>2, <1>4, <2>1, <2>2, <2>4, <3>1
               DEF Served, NewRanges, SetPointer, SetSize, r
    <2>. QED BY <1>6, <2>1, <2>3, <2>4 DEF Judge, Invalid
  <1>8. CASE UtilRequest
    <2>1. CASE ~Failed(r)
      <3>1. pc = "util" /\ Advance /\ Remember(r) /\ NewTotals
        BY <1>8, <2>1 DEF UtilRequest, UtilCall, NewTotals, r
      <3>2. /\ blocks' = IF request.type = "f" THEN blocks
                         ELSE [blocks EXCEPT ![request.index] = r.bp]
            /\ owner' = IF request.type = "f" THEN owner
                        ELSE [owner EXCEPT ![request.index] = arenas]
            /\ block_sizes' = IF request.type = "f" THEN block_sizes
                              ELSE [block_sizes EXCEPT ![request.index] = request.size]
        BY <3>1 DEF Remember, SetPointer, SetSize, record
      <3>. QED BY <1>1, <1>2, <1>4, <2>1, <3>1, <3>2 DEF Served, r
    <2>. QED BY <1>5, <1>8, <2>1 DEF UtilRequest, UtilCall, r
  <1>9. CASE SpeedRequest
    <2>1. CASE ~Failed(r)
      <3>1. pc = "speed" /\ Advance /\ SpeedRemember(r) /\ UNCHANGED block_sizes
        BY <1>9, <2>1 DEF SpeedRequest, r
      <3>2. /\ blocks' = IF request.type = "f" THEN blocks
                         ELSE [blocks EXCEPT ![request.index] = r.bp]
            /\ owner' = IF request.type = "f" THEN owner
                        ELSE [owner EXCEPT ![request.index] = arenas]
        BY <3>1 DEF SpeedRemember, SetPointer
      <3>. QED BY <1>1, <1>2, <1>4, <2>1, <3>1, <3>2 DEF Served, r
    <2>. QED BY <1>5, <1>9, <2>1 DEF SpeedRequest, r
  <1>. QED BY <1>7, <1>8, <1>9

\* mem_reset_brk and mm_init succeed, or the program ends.
LEMMA BeginSteps ==
    ASSUME PackageServes, ControlInv, BeginPass
    PROVE  Began \/ Left
  <1>1. CASE pc' = "exit" /\ UNCHANGED <<opnum, heap, ranges, totals, arenas>>
    BY <1>1 DEF BeginPass, Left
  <1>2. CASE arenas' = arenas + 1 /\ BeginHeap
    BY <1>2, NewHeapFits DEF BeginPass, BeginHeap, NewHeap, Began, clear_ranges
  <1>. QED BY <1>1, <1>2 DEF BeginPass

\* The end of a pass leaves it.
LEMMA EndSteps ==
    ASSUME EndValid \/ EndUtil \/ EndSpeed \/ EndTimed
    PROVE  Left
  BY DEF EndValid, EndUtil, EndSpeed, EndTimed, EndOfTrace, Left, Passes, InPass

\* Every step serves a request, begins a pass, leaves one, or reads.
LEMMA StepKinds ==
    ASSUME PackageServes, ControlInv, [ReplayNext]_replayVars
    PROVE  \/ Served \/ Began \/ Left \/ Begin \/ Read
           \/ UNCHANGED replayVars
  BY RequestSteps, BeginSteps, EndSteps DEF ReplayNext

\* Every step keeps the control.
LEMMA ControlStep ==
    ASSUME PackageServes, ControlInv, [ReplayNext]_replayVars
    PROVE  ControlInv'
  <1>0. /\ trace.ops \in Seq(Op) /\ trace.num_ops \in Nat /\ Len(trace.ops) \in Nat
        /\ opnum \in Nat /\ runs \in 0 .. RUNS /\ i \in 1 .. MAX_TRACES + 1 /\ arenas \in Nat
        /\ MAX_TRACES \in Nat /\ RUNS \in Nat
    BY ReplayAssumption DEF ControlInv, TraceType, Control
  <1>1. ASSUME UNCHANGED <<trace, max_index>> PROVE TraceType'
    BY <1>1 DEF ControlInv, TraceType, Legal
  <1>2. CASE Served
    <2>1. /\ UNCHANGED <<pc, i, runs, trace, max_index, arenas>> /\ opnum' = opnum + 1
          /\ opnum \in 1 .. trace.num_ops /\ pc \in Passes /\ opnum > 0
      BY <1>2 DEF Served, InPass
    <2>2. Control'
      BY <1>0, <2>1 DEF ControlInv, Control, Reading, Passes
    <2>. QED BY <1>1, <2>1, <2>2 DEF ControlInv
  <1>3. CASE Began
    <2>1. /\ UNCHANGED <<pc, i, runs, trace, max_index>> /\ opnum' = 1 /\ pc \in Passes
          /\ arenas' = arenas + 1 /\ (pc = "speed" => runs < RUNS)
      BY <1>3 DEF Began
    <2>2. Control'
      BY <1>0, <2>1 DEF ControlInv, Control, Reading, Passes
    <2>. QED BY <1>1, <2>1, <2>2 DEF ControlInv
  <1>4. CASE Left
    <2>1. UNCHANGED <<trace, max_index, arenas>> /\ pc \in Passes /\ i <= MAX_TRACES
      BY <1>4 DEF Left, ControlInv, Control
    <2>2. CASE pc' = "exit" /\ UNCHANGED <<opnum, i, runs>>
      BY <1>0, <1>1, <2>1, <2>2 DEF ControlInv, Control, Reading, Passes, Ended
    <2>3. CASE NextTrace
      BY <1>0, <1>1, <2>1, <2>3 DEF ControlInv, Control, Reading, Passes, Ended, NextTrace
    <2>4. CASE pc = "valid" /\ pc' = "util" /\ opnum' = 0 /\ UNCHANGED <<i, runs>>
      BY <1>0, <1>1, <2>1, <2>4 DEF ControlInv, Control, Reading, Passes, Ended
    <2>5. CASE pc = "util" /\ pc' = "speed" /\ opnum' = 0 /\ UNCHANGED <<i, runs>>
      BY <1>0, <1>1, <2>1, <2>5 DEF ControlInv, Control, Reading, Passes, Ended
    <2>6. CASE pc = "speed" /\ InPass /\ pc' = "speed" /\ opnum' = 0 /\ runs' = runs + 1
               /\ UNCHANGED i
      <3>1. runs < RUNS
        BY <2>6 DEF ControlInv, Control, InPass
      <3>. QED BY <1>0, <1>1, <2>1, <2>6, <3>1 DEF ControlInv, Control, Reading, Passes, Ended
    <2>. QED BY <1>4, <2>2, <2>3, <2>4, <2>5, <2>6 DEF Left
  <1>5. CASE Begin
    BY <1>0, <1>1, <1>5 DEF Begin, ControlInv, Control, Reading, Passes, Ended
  <1>6. CASE UNCHANGED replayVars
    <2>1. UNCHANGED <<pc, i, opnum, runs, trace, max_index, arenas>>
      BY <1>6 DEF replayVars, control
    <2>. QED BY <1>1, <2>1 DEF ControlInv, Control
  <1>. QED BY <1>2, <1>3, <1>4, <1>5, <1>6, StepKinds, ReadKeeps

\* main starts in control.
LEMMA ControlStart == ReplayInit => ControlInv
  <1> SUFFICES ASSUME ReplayInit PROVE ControlInv
    OBVIOUS
  <1>1. /\ pc = "begin" /\ i = 1 /\ opnum = 0 /\ runs = 0 /\ max_index = 0 /\ arenas = 0
        /\ trace = [num_ids |-> 0, num_ops |-> 0, ops |-> <<>>]
    BY DEF ReplayInit, NoTrace
  <1>2. trace \in [num_ids : Nat, num_ops : 0 .. MAX_LINES, ops : Seq(Op)]
    BY <1>1, TraceAssumption
  <1>3. trace.ops = <<>> /\ Len(<<>>) = 0
    BY <1>1
  <1>4. TraceType
    BY <1>1, <1>2, <1>3, TraceAssumption DEF TraceType, Legal
  <1>. QED BY <1>1, <1>4, ReplayAssumption DEF ControlInv, Control, Reading, Passes

(***************************************************************************)
(* The work that is left                                                   *)
(***************************************************************************)
PASS == MAX_LINES + 3
TRACE == (RUNS + 3) * PASS

\* What is left of the trace at hand, at stage st.
Rest(st, len, op, n) ==
    CASE st = "begin" -> TRACE
      [] st = "read"  -> TRACE - 1
      [] st = "lines" -> TRACE - 2 - len
      [] st = "valid" -> (RUNS + 2) * PASS - op
      [] st = "util"  -> (RUNS + 1) * PASS - op
      [] st = "speed" -> (RUNS - n) * PASS + 1 - op

\* Work, with the trace at hand apart from the traces after it.
LEMMA WorkIs ==
    Work = IF pc \in Ended THEN 0
           ELSE (MAX_TRACES - i) * TRACE + Rest(pc, Len(trace.ops), opnum, runs)
  BY DEF Work, Rest, TRACE, PASS

\* The same after a step.
LEMMA WorkPrimed ==
    Work' = IF pc' \in Ended THEN 0
            ELSE (MAX_TRACES - i') * TRACE + Rest(pc', Len(trace'.ops), opnum', runs')
  BY DEF Work, Rest, TRACE, PASS

\* The products, one PASS at a time.
LEMMA PassWork ==
    /\ PASS \in Nat /\ PASS > MAX_LINES + 2 /\ RUNS * PASS \in Nat
    /\ (RUNS + 1) * PASS = RUNS * PASS + PASS
    /\ (RUNS + 2) * PASS = RUNS * PASS + PASS + PASS
    /\ TRACE = RUNS * PASS + PASS + PASS + PASS /\ TRACE \in Nat
  <1>1. MAX_LINES \in Nat /\ RUNS \in Nat
    BY TraceAssumption, ReplayAssumption
  <1>2. PASS \in Nat /\ PASS > MAX_LINES + 2
    BY <1>1 DEF PASS
  <1> HIDE DEF PASS
  <1>3. RUNS * PASS \in Nat /\ (RUNS + 1) * PASS = RUNS * PASS + PASS
    BY <1>1, <1>2
  <1>4. (RUNS + 2) * PASS = RUNS * PASS + PASS + PASS
    BY <1>1, <1>2
  <1>5. (RUNS + 3) * PASS = RUNS * PASS + PASS + PASS + PASS
    BY <1>1, <1>2
  <1>. QED BY <1>2, <1>3, <1>4, <1>5 DEF TRACE

\* The runs that fsecs still has to time.
LEMMA RunWork ==
    ASSUME NEW n \in 0 .. RUNS
    PROVE  /\ (RUNS - n) * PASS \in Nat /\ (RUNS - n) * PASS <= RUNS * PASS
           /\ n < RUNS => /\ (RUNS - n) * PASS = (RUNS - (n + 1)) * PASS + PASS
                          /\ (RUNS - (n + 1)) * PASS \in Nat
           /\ (RUNS - 0) * PASS = RUNS * PASS
  <1>1. RUNS \in Nat /\ PASS \in Nat
    BY ReplayAssumption, PassWork
  <1>2. PICK a \in Nat : a = RUNS - n
    BY <1>1
  <1>3. a * PASS \in Nat /\ n * PASS \in Nat /\ RUNS * PASS \in Nat
    BY <1>1, <1>2
  <1>4. RUNS * PASS = a * PASS + n * PASS
    <2>1. RUNS = a + n
      BY <1>1, <1>2
    <2>2. (a + n) * PASS = a * PASS + n * PASS
      BY <1>1, <1>2
    <2>. QED BY <2>1, <2>2
  <1>5. ASSUME n < RUNS
        PROVE  /\ (RUNS - n) * PASS = (RUNS - (n + 1)) * PASS + PASS
               /\ (RUNS - (n + 1)) * PASS \in Nat
    <2>1. PICK b \in Nat : b = RUNS - (n + 1)
      BY <1>1, <1>5
    <2>2. RUNS - n = b + 1
      BY <1>1, <2>1
    <2>3. (b + 1) * PASS = b * PASS + PASS /\ b * PASS \in Nat
      BY <1>1, <2>1
    <2>. QED BY <2>1, <2>2, <2>3
  <1>6. RUNS - 0 = RUNS
    BY <1>1
  <1>. QED BY <1>2, <1>3, <1>4, <1>5, <1>6

\* Until the loop ends there is some work left.
LEMMA RestRange ==
    ASSUME ControlInv, pc \notin Ended
    PROVE  Rest(pc, Len(trace.ops), opnum, runs) \in 1 .. TRACE
  <1> DEFINE len == Len(trace.ops)
  <1>1. /\ pc \in {"begin", "read", "lines", "valid", "util", "speed"}
        /\ len \in Nat /\ len <= MAX_LINES /\ opnum \in Nat /\ runs \in 0 .. RUNS
        /\ pc \in Passes => opnum <= len + 1
        /\ pc = "speed" /\ opnum > 0 => runs < RUNS
        /\ MAX_LINES \in Nat /\ RUNS \in Nat
    BY TraceAssumption, ReplayAssumption
       DEF ControlInv, Control, TraceType, Reading, Passes, Ended
  <1>2. pc \in Passes => opnum < PASS
    BY <1>1 DEF PASS
  <1> HIDE DEF len
  <1> DEFINE rest == Rest(pc, Len(trace.ops), opnum, runs)
             RP == RUNS * PASS
  <1>3. /\ RP \in Nat /\ PASS \in Nat /\ PASS > MAX_LINES + 2
        /\ TRACE = RP + PASS + PASS + PASS
    BY PassWork
  <1>4. CASE pc \in {"begin", "read", "lines", "valid", "util"}
    <2>1. \/ rest = TRACE \/ rest = TRACE - 1 \/ rest = TRACE - 2 - len
          \/ rest = (RUNS + 2) * PASS - opnum /\ opnum < PASS
          \/ rest = (RUNS + 1) * PASS - opnum /\ opnum < PASS
      BY <1>2, <1>4 DEF Rest, Passes, len
    <2> HIDE DEF rest, RP
    <2>2. (RUNS + 2) * PASS = RP + PASS + PASS /\ (RUNS + 1) * PASS = RP + PASS
      BY PassWork DEF RP
    <2>3. rest \in 1 .. TRACE
      BY <1>1, <1>3, <2>1, <2>2
    <2>. QED BY <2>3 DEF rest
  <1>5. CASE pc = "speed"
    <2> DEFINE Q == (RUNS - runs) * PASS
    <2>1. Q \in Nat /\ Q <= RUNS * PASS /\ (runs < RUNS => Q >= PASS)
      <3>1. PASS \in Nat
        BY PassWork
      <3>. QED BY <1>1, <3>1, RunWork
    <2>2. Rest(pc, Len(trace.ops), opnum, runs) = Q + 1 - opnum
      BY <1>5 DEF Rest
    <2> HIDE DEF Q
    <2>3. opnum < PASS
      BY <1>2, <1>5 DEF Passes
    <2>4. opnum = 0 \/ runs < RUNS
      BY <1>1, <1>5
    <2>. QED BY <1>1, <2>1, <2>2, <2>3, <2>4, PassWork
  <1>. QED BY <1>1, <1>4, <1>5

\* The next trace, or the end of the loop.
LEMMA TraceWork ==
    ASSUME NEW t \in 1 .. MAX_TRACES
    PROVE  /\ (MAX_TRACES - t) * TRACE \in Nat
           /\ t < MAX_TRACES => /\ (MAX_TRACES - t) * TRACE = (MAX_TRACES - (t + 1)) * TRACE + TRACE
                                /\ (MAX_TRACES - (t + 1)) * TRACE \in Nat
  <1>1. MAX_TRACES \in Nat /\ TRACE \in Nat
    BY ReplayAssumption, PassWork
  <1>2. PICK a \in Nat : a = MAX_TRACES - t
    BY <1>1
  <1>3. ASSUME t < MAX_TRACES
        PROVE  /\ (MAX_TRACES - t) * TRACE = (MAX_TRACES - (t + 1)) * TRACE + TRACE
               /\ (MAX_TRACES - (t + 1)) * TRACE \in Nat
    <2>1. PICK b \in Nat : b = MAX_TRACES - (t + 1)
      BY <1>1, <1>3
    <2>2. MAX_TRACES - t = b + 1
      BY <1>1, <2>1
    <2>3. (b + 1) * TRACE = b * TRACE + TRACE /\ b * TRACE \in Nat
      BY <1>1, <2>1
    <2>. QED BY <2>1, <2>2, <2>3
  <1>4. a * TRACE \in Nat
    BY <1>1, <1>2
  <1>. QED BY <1>2, <1>3, <1>4

\* One more request is one unit of work.
LEMMA RequestWork ==
    ASSUME NEW st \in Passes, NEW len, NEW op \in Nat, NEW n \in 0 .. RUNS
    PROVE  Rest(st, len, op + 1, n) = Rest(st, len, op, n) - 1
  <1>1. (RUNS + 2) * PASS \in Nat /\ (RUNS + 1) * PASS \in Nat /\ (RUNS - n) * PASS \in Nat
    BY PassWork, RunWork
  <1>2. CASE st = "valid"
    BY <1>1, <1>2 DEF Rest
  <1>3. CASE st = "util"
    BY <1>1, <1>3 DEF Rest
  <1>4. CASE st = "speed"
    BY <1>1, <1>4 DEF Rest
  <1>. QED BY <1>2, <1>3, <1>4 DEF Passes

\* Within a trace, the steps from one stage to the next.
LEMMA StageWork ==
    ASSUME NEW len \in 0 .. MAX_LINES, NEW op \in 0 .. len + 1, NEW n \in 0 .. RUNS
    PROVE  /\ Rest("read", len, 0, n) < Rest("begin", len, 0, n)
           /\ Rest("lines", 0, 0, n) < Rest("read", len, 0, n)
           /\ Rest("lines", len + 1, 0, n) < Rest("lines", len, 0, n)
           /\ Rest("valid", len, 0, n) < Rest("lines", len, 0, n)
           /\ Rest("util", len, 0, n) < Rest("valid", len, op, n)
           /\ Rest("speed", len, 0, 0) < Rest("util", len, op, n)
           /\ n < RUNS => Rest("speed", len, 0, n + 1) < Rest("speed", len, op, n)
  <1> DEFINE RP == RUNS * PASS
  <1>1. /\ RP \in Nat /\ PASS \in Nat /\ PASS > MAX_LINES + 2
        /\ TRACE = RP + PASS + PASS + PASS /\ TRACE \in Nat
        /\ (RUNS + 1) * PASS = RP + PASS /\ (RUNS + 2) * PASS = RP + PASS + PASS
    BY PassWork
  <1>2. MAX_LINES \in Nat /\ RUNS \in Nat /\ 0 \in 0 .. RUNS
    BY TraceAssumption, ReplayAssumption
  <1>3. (RUNS - 0) * PASS = RP
    BY <1>2, RunWork
  <1> HIDE DEF RP
  <1>4. op <= MAX_LINES + 1 /\ op \in Nat /\ len \in Nat /\ len <= MAX_LINES
    BY <1>2
  <1>5. Rest("read", len, 0, n) < Rest("begin", len, 0, n)
    BY <1>1 DEF Rest
  <1>6. Rest("lines", 0, 0, n) < Rest("read", len, 0, n)
    BY <1>1 DEF Rest
  <1>7. Rest("lines", len + 1, 0, n) < Rest("lines", len, 0, n)
    BY <1>1, <1>4 DEF Rest
  <1>8. Rest("valid", len, 0, n) < Rest("lines", len, 0, n)
    <2>1. /\ Rest("valid", len, 0, n) = RP + PASS + PASS - 0
          /\ Rest("lines", len, 0, n) = RP + PASS + PASS + PASS - 2 - len
      BY <1>1 DEF Rest
    <2>. QED BY <1>1, <1>2, <1>4, <2>1
  <1>9. Rest("util", len, 0, n) < Rest("valid", len, op, n)
    <2>1. Rest("util", len, 0, n) = RP + PASS - 0 /\ Rest("valid", len, op, n) = RP + PASS + PASS - op
      BY <1>1 DEF Rest
    <2>. QED BY <1>1, <1>2, <1>4, <2>1
  <1>10. Rest("speed", len, 0, 0) < Rest("util", len, op, n)
    <2>1. Rest("speed", len, 0, 0) = RP + 1 - 0 /\ Rest("util", len, op, n) = RP + PASS - op
      BY <1>1, <1>3 DEF Rest
    <2>. QED BY <1>1, <1>2, <1>4, <2>1
  <1>11. ASSUME n < RUNS PROVE Rest("speed", len, 0, n + 1) < Rest("speed", len, op, n)
    <2> DEFINE Q == (RUNS - (n + 1)) * PASS
    <2>1. Q \in Nat /\ (RUNS - n) * PASS = Q + PASS
      BY <1>11, RunWork
    <2>2. Rest("speed", len, 0, n + 1) = Q + 1 - 0 /\ Rest("speed", len, op, n) = Q + PASS + 1 - op
      BY <2>1 DEF Rest
    <2> HIDE DEF Q
    <2>. QED BY <1>1, <1>2, <1>4, <2>1, <2>2
  <1>. QED BY <1>5, <1>6, <1>7, <1>8, <1>9, <1>10, <1>11

\* Every step that changes anything leaves less to do.
LEMMA WorkStep ==
    ASSUME PackageServes, ControlInv, ControlInv', [ReplayNext]_replayVars, ~UNCHANGED replayVars
    PROVE  Work' < Work /\ Work' \in Nat
  <1> DEFINE A == (MAX_TRACES - i) * TRACE
             len == Len(trace.ops)
             r == Rest(pc, len, opnum, runs)
  <1>1. Served \/ Began \/ Left \/ Begin \/ Read
    BY StepKinds
  <1>2. pc \notin Ended /\ pc \in Reading \cup Passes
    BY <1>1 DEF Served, InPass, Began, Left, Begin, Read, read_trace, OpenTrace, ReadLine,
                BadLine, EndOfFile, Passes, Ended, Reading
  <1>3. /\ i \in 1 .. MAX_TRACES /\ len \in 0 .. MAX_LINES /\ opnum \in Nat
        /\ runs \in 0 .. RUNS
        /\ (pc \in Passes => opnum \in 0 .. len + 1)
        /\ (pc \in Reading => opnum = 0 /\ runs = 0)
        /\ MAX_TRACES \in Nat /\ TRACE \in Nat
    BY <1>2, ReplayAssumption, PassWork DEF ControlInv, Control, TraceType
  <1>4. A \in Nat /\ r \in 1 .. TRACE /\ Work = A + r
    BY <1>2, <1>3, RestRange, WorkIs, TraceWork
  <1>5. CASE pc' \in Ended
    BY <1>3, <1>4, <1>5, WorkPrimed
  <1>6. CASE pc' \notin Ended /\ i' = i
    <2> DEFINE q == Rest(pc', Len(trace'.ops), opnum', runs')
    <2>1. q \in 1 .. TRACE
      <3>1. (ControlInv /\ pc \notin Ended =>
                Rest(pc, Len(trace.ops), opnum, runs) \in 1 .. TRACE)'
        BY RestRange, PTL
      <3>. QED BY <1>6, <3>1, Zenon DEF Rest, TRACE, PASS
    <2>2. Work' = A + q
      BY <1>6, WorkPrimed
    <2>3. q < r
      <3>1. CASE Served \/ Began
        <4>1. /\ pc \in Passes /\ pc' = pc /\ trace' = trace /\ runs' = runs
              /\ opnum' = opnum + 1
          BY <1>3, <3>1 DEF Served, InPass, Began
        <4>2. q = r - 1
          BY <1>3, <4>1, RequestWork
        <4> HIDE DEF q, r
        <4>. QED BY <1>3, <1>4, <4>2
      <3>2. CASE Left
        <4>1. /\ pc \in Passes /\ trace' = trace
              /\ \/ pc = "valid" /\ pc' = "util" /\ opnum' = 0 /\ runs' = runs
                 \/ pc = "util" /\ pc' = "speed" /\ opnum' = 0 /\ runs' = runs /\ runs = 0
                 \/ /\ pc = "speed" /\ pc' = "speed" /\ opnum' = 0 /\ runs' = runs + 1
                    /\ runs < RUNS
          BY <1>3, <1>6, <3>2 DEF Left, NextTrace, Ended, ControlInv, Control, InPass
        <4>2. opnum \in 0 .. len + 1
          BY <1>3, <4>1
        <4>. QED BY <1>3, <4>1, <4>2, StageWork
      <3>3. CASE Begin
        <4>1. pc = "begin" /\ pc' = "read" /\ trace' = trace /\ UNCHANGED <<opnum, runs>>
          BY <1>6, <3>3 DEF Begin, Ended
        <4>2. opnum = 0 /\ 0 \in 0 .. len + 1
          BY <1>3, <4>1 DEF Reading
        <4>. QED BY <1>3, <4>1, <4>2, StageWork
      <3>4. CASE Read
        <4>1. UNCHANGED <<opnum, runs>> /\ pc \in Reading
          BY <3>4 DEF Read, read_trace, OpenTrace, ReadLine, BadLine, EndOfFile, Reading
        <4>2. opnum = 0 /\ 0 \in 0 .. len + 1
          BY <1>3, <4>1
        <4>3. \/ pc = "read" /\ pc' = "lines" /\ Len(trace'.ops) = 0
              \/ pc = "lines" /\ pc' = "lines" /\ Len(trace'.ops) = len + 1
              \/ pc = "lines" /\ pc' = "valid" /\ Len(trace'.ops) = len
          <5>1. CASE OpenTrace
            BY <1>6, <5>1 DEF OpenTrace, Ended
          <5>2. CASE ReadLine
            <6>1. pc = "lines" /\ pc' = "lines"
              BY <1>6, <5>2 DEF ReadLine, Ended
            <6>2. PICK op : trace' = [trace EXCEPT !.ops = Append(@, op)]
              BY <5>2, Zenon DEF ReadLine
            <6>3. trace'.ops = Append(trace.ops, op)
              BY <6>2 DEF ControlInv, TraceType
            <6>4. Len(Append(trace.ops, op)) = len + 1
              BY DEF ControlInv, TraceType
            <6>. QED BY <6>1, <6>3, <6>4
          <5>3. CASE BadLine
            BY <1>6, <5>3 DEF BadLine, Ended
          <5>4. CASE EndOfFile
            BY <1>6, <5>4 DEF EndOfFile, Ended
          <5>. QED BY <3>4, <5>1, <5>2, <5>3, <5>4 DEF Read, read_trace
        <4>. QED BY <1>3, <4>1, <4>2, <4>3, StageWork
      <3>. QED BY <1>1, <3>1, <3>2, <3>3, <3>4
    <2> HIDE DEF q, A, r
    <2>. QED BY <1>3, <1>4, <2>1, <2>2, <2>3
  <1>7. CASE pc' \notin Ended /\ i' # i
    <2>1. NextTrace
      BY <1>1, <1>7 DEF Served, Began, Left, Begin, Read
    <2>2. i < MAX_TRACES /\ pc' = "read" /\ i' = i + 1 /\ opnum' = 0 /\ runs' = 0
      BY <1>7, <2>1 DEF NextTrace, Ended
    <2> DEFINE B == (MAX_TRACES - (i + 1)) * TRACE
    <2>3. A = B + TRACE /\ B \in Nat
      BY <1>3, <2>2, TraceWork
    <2>4. Work' = B + (TRACE - 1)
      BY <2>2, WorkPrimed DEF Rest, Ended
    <2> HIDE DEF A, B, r
    <2>. QED BY <1>3, <1>4, <2>3, <2>4
  <1>. QED BY <1>5, <1>6, <1>7

(***************************************************************************)
(* The heap and the pointers of a pass                                     *)
(***************************************************************************)
\* The indices held at the next request, and the arena they are held in.
Held == HeldBy(trace.ops, opnum - 1)

\* In a pass the pointers of the indices held are blocks of the heap, which is well
\* formed and holds no other block.
HeapInv ==
    /\ blocks \in [Ids -> Nat] /\ owner \in [Ids -> Nat]
    /\ InPass => Holds(Here, Held) /\ \A id \in Held : owner[id] = arenas

\* After a step, Holds is about the new heap and pointers.
LEMMA HoldsPrimed == Holds(Here, Held)' <=> Holds(Here', Held')
  BY Zenon DEF Holds, WellFormed, Tiled, Listed, Marked, IsFree

\* What is known when a request is served.
LEMMA AtRequest ==
    ASSUME ControlInv, Served
    PROVE  /\ opnum \in 1 .. Len(trace.ops) /\ MayFollow(request, Held) /\ Held \subseteq Ids
           /\ Held' = HeldNext(request, Held)
           /\ request.index \in Ids
  <1>1. /\ opnum \in 1 .. Len(trace.ops) /\ trace.ops \in Seq(Op) /\ Legal(trace.ops)
        /\ trace' = trace /\ opnum' = opnum + 1 /\ opnum \in Nat
    BY DEF ControlInv, TraceType, Control, Served, InPass
  <1>2. request \in Op
    BY <1>1 DEF request
  <1>3. MayFollow(request, Held)
    BY <1>1, <1>2 DEF MayFollow, Legal, request, Held
  <1>4. Held \subseteq Ids /\ request.index \in Ids
    BY <1>2, ReplayAssumption DEF Held, HeldBy, Op
  <1>5. Held' = HeldBy(trace.ops, opnum)
    <2>1. opnum' - 1 = opnum
      BY <1>1
    <2>2. Held' = HeldBy(trace'.ops, opnum' - 1)
      BY DEF Held, HeldBy, LastNamed
    <2>. QED BY <1>1, <2>1, <2>2
  <1>6. HeldBy(trace.ops, opnum) = HeldNext(request, Held)
    BY <1>1, HeldStep, Zenon DEF HeldNext, Held, request
  <1>. QED BY <1>1, <1>3, <1>4, <1>5, <1>6

\* The request at hand is served on the heap of the pass.
LEMMA RequestServes ==
    ASSUME PackageServes, ControlInv, HeapInv, Served
    PROVE  Serves(Here, request, Held, After(Here, request)) /\ Here' = After(Here, request)
  <1>1. Holds(Here, Held)
    BY DEF Served, HeapInv
  <1>2. MayFollow(request, Held) /\ Held \subseteq Ids
    BY AtRequest
  <1>3. request.type # "f" => Call(Here.heap, Here.blocks, request).bp # NULL
    BY DEF Served, Here
  <1>4. Here' = After(Here, request)
    BY DEF Served, Here, After
  <1>. QED BY <1>1, <1>2, <1>3, <1>4, CallServes

\* Every step keeps the heap of the pass.
LEMMA HeapStep ==
    ASSUME PackageServes, ControlInv, HeapInv, [ReplayNext]_replayVars
    PROVE  HeapInv'
  <1>1. CASE Served
    <2>1. /\ Serves(Here, request, Held, Here') /\ Held' = HeldNext(request, Held)
          /\ request.index \in Ids /\ request.type \in {"a", "r", "f"}
      BY <1>1, RequestServes, AtRequest DEF MayFollow, Op
    <2>2. Holds(Here', Held')
      BY <2>1 DEF Serves
    <2>3. Holds(Here, Held)'
      BY <2>2, HoldsPrimed
    <2>4. blocks' \in [Ids -> Nat]
      BY <2>2 DEF Holds, Here
    <2>5. /\ owner \in [Ids -> Nat] /\ arenas \in Nat /\ arenas' = arenas
          /\ owner' = IF request.type = "f" THEN owner
                      ELSE [owner EXCEPT ![request.index] = arenas]
          /\ \A id \in Held : owner[id] = arenas
      BY <1>1 DEF Served, HeapInv, ControlInv, Control
    <2>6. owner' \in [Ids -> Nat] /\ \A id \in Held' : owner'[id] = arenas'
      BY <2>1, <2>5 DEF HeldNext
    <2>. QED BY <2>3, <2>4, <2>6 DEF HeapInv
  <1>2. CASE Began
    <2>1. Held' = {}
      <3>1. opnum' - 1 = 0
        BY <1>2 DEF Began
      <3>2. Held' = HeldBy(trace'.ops, opnum' - 1)
        BY DEF Held, HeldBy, LastNamed
      <3>. QED BY <3>1, <3>2, HeldNone
    <2>2. Here' = [heap |-> mm_init, blocks |-> blocks] /\ UNCHANGED <<blocks, owner>>
      BY <1>2 DEF Began, Here, record
    <2>3. Holds(Here', Held')
      <3>1. blocks \in [Ids -> Nat]
        BY DEF HeapInv
      <3>. QED BY <2>1, <2>2, <3>1, NewHeapHolds
    <2>4. Holds(Here, Held)'
      BY <2>3, HoldsPrimed
    <2>. QED BY <2>1, <2>2, <2>4 DEF HeapInv
  <1>3. CASE Left \/ Begin \/ Read
    <2>1. ~InPass'
      BY <1>3 DEF Left, Begin, Read, read_trace, OpenTrace, ReadLine, BadLine, EndOfFile,
                  InPass, NextTrace, Passes, ControlInv, Control, Reading
    <2>2. \/ UNCHANGED <<blocks, owner>>
          \/ blocks' = Unwritten /\ owner' = Unwritten
      BY <1>3 DEF Left, Begin, Read, record
    <2>3. Unwritten \in [Ids -> Nat]
      BY DEF Unwritten
    <2>. QED BY <2>1, <2>2, <2>3 DEF HeapInv
  <1>4. CASE UNCHANGED replayVars
    <2>1. UNCHANGED <<heap, blocks, owner, arenas, pc, opnum, trace>>
      BY <1>4 DEF replayVars, control, record
    <2>2. Held' = Held /\ InPass' = InPass /\ Here' = Here
      BY <2>1 DEF Here, Held, HeldBy, LastNamed, InPass
    <2>3. Holds(Here, Held)' = Holds(Here, Held)
      BY <2>2, HoldsPrimed
    <2>. QED BY <2>1, <2>2, <2>3 DEF HeapInv
  <1>. QED BY <1>1, <1>2, <1>3, <1>4, StepKinds

(***************************************************************************)
(* The passes repeat one another                                           *)
(***************************************************************************)
Start == [heap |-> mm_init, blocks |-> Unwritten]

\* The states after each number of requests, for the requests ops.
Unrolled(f, ops, n) ==
    f = [k \in 0 .. n |-> IF k = 0 THEN Start ELSE After(f[k - 1], ops[k])]

\* Reference's recursive definition has a solution.
LEMMA ReferenceExists ==
    ASSUME NEW ops, NEW n \in Nat
    PROVE  \E f : Unrolled(f, ops, n)
  <1> DEFINE P == {m \in Nat : \E f : Unrolled(f, ops, m)}
  <1>1. 0 \in P
    <2>1. Unrolled([k \in 0 .. 0 |-> Start], ops, 0)
      BY DEF Unrolled
    <2>. QED BY <2>1
  <1>2. ASSUME NEW m \in P PROVE m + 1 \in P
    <2>1. PICK f : Unrolled(f, ops, m)
      BY <1>2
    <2> DEFINE g == [k \in 0 .. m + 1 |->
                        IF k = m + 1 THEN After(f[m], ops[m + 1]) ELSE f[k]]
    <2>2. m \in Nat /\ m + 1 \in Nat
      BY <1>2
    <2>3. ASSUME NEW k \in 0 .. m + 1
          PROVE  g[k] = IF k = 0 THEN Start ELSE After(g[k - 1], ops[k])
      <3>1. CASE k = m + 1
        <4>1. g[k] = After(f[m], ops[m + 1]) /\ g[m] = f[m] /\ k - 1 = m /\ k # 0
          BY <2>2, <3>1
        <4> HIDE DEF g
        <4>. QED BY <3>1, <4>1
      <3>2. CASE k # m + 1 /\ k # 0
        <4>1. k \in 0 .. m /\ k - 1 \in 0 .. m
          BY <2>2, <3>2
        <4>2. g[k] = f[k] /\ g[k - 1] = f[k - 1]
          BY <2>2, <4>1
        <4>3. f[k] = After(f[k - 1], ops[k])
          BY <2>1, <3>2, <4>1 DEF Unrolled
        <4> HIDE DEF g
        <4>. QED BY <3>2, <4>2, <4>3
      <3>3. CASE k = 0
        <4>1. g[0] = f[0] /\ f[0] = Start
          BY <2>1, <2>2 DEF Unrolled
        <4> HIDE DEF g
        <4>. QED BY <3>3, <4>1
      <3>. QED BY <3>1, <3>2, <3>3
    <2>4. Unrolled(g, ops, m + 1)
      <3>1. g = [k \in 0 .. m + 1 |-> g[k]]
        OBVIOUS
      <3> HIDE DEF g
      <3>. QED BY <2>3, <3>1, Zenon DEF Unrolled
    <2> HIDE DEF g
    <2>. QED BY <2>2, <2>4
  <1>3. P \in SUBSET Nat
    OBVIOUS
  <1>4. n \in P
    <2> HIDE DEF P
    <2>. QED BY <1>1, <1>2, <1>3, Induction
  <1>. QED BY <1>4

\* So Reference can be unrolled.
LEMMA ReferenceIs ==
    ASSUME NEW n \in Nat, Len(trace.ops) = n
    PROVE  /\ Reference[0] = Start
           /\ \A k \in 1 .. n : Reference[k] = After(Reference[k - 1], trace.ops[k])
  <1>1. Reference = CHOOSE f : Unrolled(f, trace.ops, n)
    BY DEF Reference, Unrolled, Start
  <1>2. Unrolled(Reference, trace.ops, n)
    BY <1>1, ReferenceExists
  <1> HIDE DEF Reference
  <1>. QED BY <1>2 DEF Unrolled

\* It does not change with the position in the trace.
LEMMA ReferenceSame ==
    ASSUME UNCHANGED trace
    PROVE  Reference' = Reference
  BY DEF Reference, After, Call

\* mm.c answers the first n requests on a new heap.
Accepted(n) ==
    \A k \in 1 .. n :
        trace.ops[k].type # "f" =>
            Call(Reference[k - 1].heap, Reference[k - 1].blocks, trace.ops[k]).bp # NULL

\* s has the heap at hand and the pointers that the trace holds.
SameAs(s) ==
    /\ heap = s.heap /\ DOMAIN s.blocks = Ids
    /\ \A id \in Held : blocks[id] = s.blocks[id]

\* The pass has come as far as the reference; eval_mm_valid has had no failed call
\* so far, and once it has returned, none on the whole trace.
RepeatInv ==
    /\ InPass => SameAs(Reference[opnum - 1])
    /\ InPass /\ pc = "valid" => Accepted(opnum - 1)
    /\ pc \in {"util", "speed"} => Accepted(Len(trace.ops))
    /\ reason # "app_error"

\* A request gets the same answer as on the reference heap.
LEMMA SameCall ==
    ASSUME NEW s, SameAs(s), MayFollow(request, Held)
    PROVE  Call(heap, blocks, request) = Call(s.heap, s.blocks, request)
  <1>1. heap = s.heap
    BY DEF SameAs
  <1>2. request.type # "a" => blocks[request.index] = s.blocks[request.index]
    BY DEF SameAs, MayFollow
  <1>. QED BY <1>1, <1>2 DEF Call

\* The request at hand is one of the trace's.
LEMMA RequestLegal ==
    ASSUME ControlInv, InPass, opnum \in 1 .. trace.num_ops
    PROVE  MayFollow(request, Held) /\ opnum \in 1 .. Len(trace.ops)
  <1>1. /\ opnum \in 1 .. Len(trace.ops) /\ trace.ops \in Seq(Op) /\ Legal(trace.ops)
    BY DEF ControlInv, TraceType, Control, InPass
  <1>2. request \in Op
    BY <1>1 DEF request
  <1>. QED BY <1>1, <1>2 DEF MayFollow, Legal, request, Held

\* In a pass over an accepted trace no request fails.
LEMMA NoFailure ==
    ASSUME ControlInv, RepeatInv, pc \in {"util", "speed"}, opnum \in 1 .. trace.num_ops
    PROVE  ~Failed(Call(heap, blocks, request))
  <1>1. InPass
    BY DEF InPass, Passes, ControlInv, TraceType
  <1>2. MayFollow(request, Held) /\ opnum \in 1 .. Len(trace.ops)
    BY <1>1, RequestLegal
  <1>3. Call(heap, blocks, request) =
        Call(Reference[opnum - 1].heap, Reference[opnum - 1].blocks, request)
    BY <1>1, <1>2, SameCall DEF RepeatInv
  <1>4. request.type # "f" =>
           Call(Reference[opnum - 1].heap, Reference[opnum - 1].blocks, request).bp # NULL
    BY <1>2 DEF RepeatInv, Accepted, request
  <1>. QED BY <1>3, <1>4 DEF Failed

\* So eval_mm_util and eval_mm_speed call no app_error.
LEMMA ReasonKept ==
    ASSUME ControlInv, RepeatInv, [ReplayNext]_replayVars
    PROVE  reason' # "app_error"
  <1>1. reason # "app_error"
    BY DEF RepeatInv
  <1>2. CASE ValidRequest
    BY <1>1, <1>2 DEF ValidRequest, Judge, Invalid, Advance
  <1>3. CASE UtilRequest
    <2>1. ~Failed(Call(heap, blocks, request))
      BY <1>3, NoFailure DEF UtilRequest
    <2>. QED BY <1>1, <1>3, <2>1 DEF UtilRequest, UtilCall, Advance
  <1>4. CASE SpeedRequest
    <2>1. ~Failed(Call(heap, blocks, request))
      BY <1>4, NoFailure DEF SpeedRequest
    <2>. QED BY <1>1, <1>4, <2>1 DEF SpeedRequest, Advance
  <1>5. CASE Begin \/ Read \/ BeginPass \/ EndValid \/ EndUtil \/ EndSpeed \/ EndTimed
    BY <1>1, <1>5 DEF Begin, Read, BeginPass, EndValid, EndUtil, EndSpeed, EndTimed, outcome
  <1>6. CASE UNCHANGED replayVars
    BY <1>1, <1>6 DEF replayVars, outcome
  <1>. QED BY <1>2, <1>3, <1>4, <1>5, <1>6 DEF ReplayNext

\* A served request leads from one reference state to the next.
LEMMA RepeatServed ==
    ASSUME PackageServes, ControlInv, HeapInv, RepeatInv, Served
    PROVE  /\ SameAs(Reference[opnum - 1])' /\ (pc = "valid" => Accepted(opnum - 1)')
  <1> DEFINE s == Reference[opnum - 1]
             t == Reference[opnum]
  <1>1. SameAs(s) /\ InPass /\ UNCHANGED <<pc, trace>> /\ opnum' = opnum + 1
        /\ opnum \in Nat
    BY DEF Served, RepeatInv, ControlInv, Control
  <1>2. /\ MayFollow(request, Held) /\ opnum \in 1 .. Len(trace.ops) /\ Held \subseteq Ids
        /\ Held' = HeldNext(request, Held) /\ request.index \in Ids
    BY AtRequest
  <1>3. Len(trace.ops) \in Nat
    BY DEF ControlInv, TraceType
  <1>4. t = After(s, request)
    BY <1>2, <1>3, ReferenceIs DEF request
  <1>5. Reference' = Reference /\ opnum' - 1 = opnum
    BY <1>1, ReferenceSame
  <1>6. Reference'[opnum' - 1] = t
    BY <1>5
  <1>7. Call(heap, blocks, request) = Call(s.heap, s.blocks, request)
    BY <1>1, <1>2, SameCall
  <1> HIDE DEF s, t
  <1>8. heap' = t.heap /\ DOMAIN t.blocks = Ids
    BY <1>1, <1>4, <1>7, Zenon DEF Served, After, Here, SameAs
  <1>9. \A id \in Held' : blocks'[id] = t.blocks[id]
    <2>1. blocks \in [Ids -> Nat] /\ DOMAIN s.blocks = Ids
          /\ \A id \in Held : blocks[id] = s.blocks[id]
      BY <1>1 DEF HeapInv, SameAs
    <2>2. CASE request.type = "f"
      <3>1. blocks' = blocks /\ t.blocks = s.blocks /\ Held' \subseteq Held
        BY <1>2, <1>4, <2>2, Zenon DEF Served, After, Here, HeldNext
      <3>. QED BY <2>1, <3>1
    <2>3. CASE request.type # "f"
      <3> DEFINE bp == Call(s.heap, s.blocks, request).bp
      <3>1. /\ blocks' = [blocks EXCEPT ![request.index] = bp]
            /\ t.blocks = [s.blocks EXCEPT ![request.index] = bp]
            /\ Held' = Held \cup {request.index}
        BY <1>2, <1>4, <1>7, <2>3, Zenon DEF Served, After, Here, HeldNext
      <3> HIDE DEF bp
      <3>. QED BY <1>2, <2>1, <3>1
    <2>. QED BY <2>2, <2>3
  <1>10. SameAs(Reference[opnum - 1])'
    BY <1>6, <1>8, <1>9 DEF SameAs
  <1>11. ASSUME pc = "valid" PROVE Accepted(opnum - 1)'
    <2>1. Accepted(opnum - 1)
      BY <1>1, <1>11 DEF RepeatInv
    <2>2. request.type # "f" =>
             Call(Reference[opnum - 1].heap, Reference[opnum - 1].blocks, request).bp # NULL
      BY <1>7 DEF Served, s
    <2>3. \A k \in 1 .. opnum : k \in 1 .. opnum - 1 \/ k = opnum
      BY <1>1
    <2>4. Accepted(opnum)
      BY <2>1, <2>2, <2>3 DEF Accepted, request
    <2>5. \A k \in 1 .. opnum' - 1 :
             trace'.ops[k].type # "f" =>
                Call(Reference'[k - 1].heap, Reference'[k - 1].blocks, trace'.ops[k]).bp # NULL
      BY <1>1, <1>5, <2>4 DEF Accepted
    <2>. QED BY <2>5, Zenon DEF Accepted, Call
  <1>. QED BY <1>10, <1>11

\* What was accepted stays accepted while the trace stays the same.
LEMMA AcceptedKept ==
    ASSUME UNCHANGED trace, Accepted(Len(trace.ops))
    PROVE  Accepted(Len(trace.ops))'
  <1>1. Reference' = Reference
    BY ReferenceSame
  <1>2. \A k \in 1 .. Len(trace'.ops) :
           trace'.ops[k].type # "f" =>
              Call(Reference'[k - 1].heap, Reference'[k - 1].blocks, trace'.ops[k]).bp # NULL
    BY <1>1 DEF Accepted
  <1>. QED BY <1>2, Zenon DEF Accepted, Call

\* No pass is under way after these steps.
LEMMA OutOfPass ==
    ASSUME ControlInv, Left \/ Begin \/ Read
    PROVE  ~InPass'
  BY DEF Left, Begin, Read, read_trace, OpenTrace, ReadLine, BadLine, EndOfFile,
         InPass, NextTrace, Passes, ControlInv, Control, Reading

\* Every step keeps pace with the reference.
LEMMA RepeatStep ==
    ASSUME PackageServes, ControlInv, HeapInv, RepeatInv, [ReplayNext]_replayVars
    PROVE  RepeatInv'
  <1>0. reason' # "app_error"
    BY ReasonKept
  <1>1. CASE Served
    <2>1. UNCHANGED <<pc, trace>>
      BY <1>1 DEF Served
    <2>2. pc \in {"util", "speed"} => Accepted(Len(trace.ops))'
      BY <2>1, AcceptedKept DEF RepeatInv
    <2>. QED BY <1>0, <1>1, <2>1, <2>2, RepeatServed DEF RepeatInv
  <1>2. CASE Began
    <2>1. UNCHANGED <<pc, trace>> /\ opnum' - 1 = 0 /\ heap' = mm_init
      BY <1>2 DEF Began
    <2>2. pc \in {"util", "speed"} => Accepted(Len(trace.ops))'
      BY <2>1, AcceptedKept DEF RepeatInv
    <2>3. Len(trace.ops) \in Nat
      BY DEF ControlInv, TraceType
    <2>4. Reference'[opnum' - 1] = Start
      <3>1. Reference[0] = Start
        BY <2>3, ReferenceIs
      <3>. QED BY <2>1, <3>1, ReferenceSame
    <2>5. Held' = {}
      <3>1. Held' = HeldBy(trace'.ops, opnum' - 1)
        BY DEF Held, HeldBy, LastNamed
      <3>. QED BY <2>1, <3>1, HeldNone
    <2>6. SameAs(Reference[opnum - 1])'
      BY <2>1, <2>4, <2>5 DEF SameAs, Start, Unwritten
    <2>7. Accepted(opnum - 1)'
      BY <2>1 DEF Accepted
    <2>. QED BY <1>0, <2>1, <2>2, <2>6, <2>7 DEF RepeatInv
  <1>3. CASE Left
    <2>1. UNCHANGED trace /\ ~InPass'
      BY <1>3, OutOfPass DEF Left
    <2>2. ASSUME pc' \in {"util", "speed"} PROVE Accepted(Len(trace.ops))
      <3>1. CASE pc \in {"util", "speed"}
        BY <3>1 DEF RepeatInv
      <3>2. CASE pc = "valid" /\ EndOfTrace
        <4>1. InPass /\ opnum - 1 = Len(trace.ops)
          BY <3>2 DEF EndOfTrace, ControlInv, Control, TraceType, Passes
        <4>2. Accepted(opnum - 1)
          BY <3>2, <4>1 DEF RepeatInv
        <4>. QED BY <4>1, <4>2
      <3>. QED BY <1>3, <2>2, <3>1, <3>2 DEF Left, NextTrace, Passes
    <2>3. pc' \in {"util", "speed"} => Accepted(Len(trace.ops))'
      BY <2>1, <2>2, AcceptedKept
    <2>. QED BY <1>0, <2>1, <2>3 DEF RepeatInv
  <1>4. CASE Begin \/ Read
    <2>1. pc' \notin {"util", "speed"} /\ ~InPass'
      BY <1>4, OutOfPass, Zenon DEF Begin, Read, read_trace, OpenTrace, ReadLine, BadLine, EndOfFile
    <2>. QED BY <1>0, <2>1 DEF RepeatInv
  <1>5. CASE UNCHANGED replayVars
    <2>1. UNCHANGED <<heap, blocks, pc, opnum, trace, reason>>
      BY <1>5 DEF replayVars, control, record, outcome
    <2>2. Reference' = Reference
      BY <2>1, ReferenceSame
    <2>3. Held' = Held /\ InPass' = InPass
      BY <2>1 DEF Held, HeldBy, LastNamed, InPass
    <2>4. SameAs(Reference[opnum - 1])' = SameAs(Reference[opnum - 1])
      BY <2>1, <2>2, <2>3 DEF SameAs
    <2>5. Accepted(opnum - 1) => Accepted(opnum - 1)'
      <3> SUFFICES ASSUME Accepted(opnum - 1) PROVE Accepted(opnum - 1)'
        OBVIOUS
      <3>1. \A k \in 1 .. opnum' - 1 :
               trace'.ops[k].type # "f" =>
                  Call(Reference'[k - 1].heap, Reference'[k - 1].blocks, trace'.ops[k]).bp
                     # NULL
        BY <2>1, <2>2 DEF Accepted
      <3>. QED BY <3>1, Zenon DEF Accepted, Call
    <2>6. Accepted(Len(trace.ops)) => Accepted(Len(trace.ops))'
      BY <2>1, AcceptedKept
    <2>. QED BY <2>1, <2>3, <2>4, <2>5, <2>6 DEF RepeatInv
  <1>. QED BY <1>1, <1>2, <1>3, <1>4, <1>5, StepKinds

(***************************************************************************)
(* The invariant of the passes                                             *)
(***************************************************************************)
\* The inductive invariant of the passes.
PassInv == ControlInv /\ HeapInv /\ RepeatInv

\* main starts outside a pass.
LEMMA PassStart == ReplayInit => PassInv
  <1> SUFFICES ASSUME ReplayInit PROVE PassInv
    OBVIOUS
  <1>1. /\ ~InPass /\ blocks = Unwritten /\ owner = Unwritten /\ pc = "begin"
        /\ reason = "none"
    BY DEF ReplayInit, InPass, Passes
  <1>2. Unwritten \in [Ids -> Nat]
    BY DEF Unwritten
  <1>. QED BY <1>1, <1>2, ControlStart DEF PassInv, HeapInv, RepeatInv

\* Every step keeps it.
LEMMA PassStep ==
    ASSUME PackageServes, PassInv, [ReplayNext]_replayVars
    PROVE  PassInv'
  BY ControlStep, HeapStep, RepeatStep DEF PassInv

\* So a pass reads what read_trace or this pass has written.
LEMMA ReadsWritten == PassInv => ReplayReadsWritten
  <1> SUFFICES ASSUME PassInv, InPass
               PROVE  /\ Len(trace.ops) = trace.num_ops
                      /\ \A k \in 1 .. trace.num_ops : trace.ops[k].index < trace.num_ids
                      /\ \A id \in HeldAfter(SubSeq(trace.ops, 1, opnum - 1)) :
                            owner[id] = arenas /\ blocks[id] \in heap.alloc
    BY DEF ReplayReadsWritten
  <1>1. /\ trace.ops \in Seq(Op) /\ Len(trace.ops) = trace.num_ops
        /\ max_index = trace.num_ids - 1 /\ max_index \in Nat /\ trace.num_ids \in Nat
        /\ opnum - 1 \in 0 .. Len(trace.ops)
        /\ \A k \in 1 .. Len(trace.ops) : trace.ops[k].index <= max_index
    <2>1. TraceType /\ Control
      BY DEF PassInv, ControlInv
    <2>2. /\ trace.ops \in Seq(Op) /\ trace.num_ids \in Nat /\ max_index \in Nat
          /\ \A k \in 1 .. Len(trace.ops) : trace.ops[k].index <= max_index
      BY <2>1 DEF TraceType
    <2>3. /\ Len(trace.ops) = trace.num_ops /\ max_index = trace.num_ids - 1
          /\ opnum \in Nat /\ opnum > 0 /\ opnum <= trace.num_ops + 1
      BY <2>1 DEF Control, InPass
    <2>. QED BY <2>2, <2>3
  <1>2. ASSUME NEW k \in 1 .. trace.num_ops PROVE trace.ops[k].index < trace.num_ids
    <2>1. trace.ops[k] \in Op
      BY <1>1
    <2>2. trace.ops[k].index \in Nat
      BY <2>1, TraceAssumption, Zenon DEF Op
    <2>3. trace.ops[k].index <= max_index
      BY <1>1
    <2>. QED BY <1>1, <2>2, <2>3
  <1>3. HeldAfter(SubSeq(trace.ops, 1, opnum - 1)) = Held
    BY <1>1, PrefixIs DEF Held
  <1>4. \A id \in Held : owner[id] = arenas /\ blocks[id] \in heap.alloc
    BY DEF PassInv, HeapInv, Holds, Here
  <1>. QED BY <1>1, <1>2, <1>3, <1>4, Zenon
===============================================================================
