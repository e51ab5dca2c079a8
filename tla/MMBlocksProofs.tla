---------------------------- MODULE MMBlocksProofs ----------------------------
(***************************************************************************)
(* The theorems about MMBlocks, for every page size, arena size, number of *)
(* lists, set of callers' blocks and set of request sizes:                 *)
(*   - the invariant Inv, inductive as it stands, and from it the safety   *)
(*     invariants of the specification;                                    *)
(*   - the action property HeldBlocksStay;                                 *)
(*   - the refinement: MMBlocks implements Allocator;                      *)
(*   - the totals of eval_mm_util (EvalUtil), which replays a trace on it. *)
(***************************************************************************)
EXTENDS EvalUtil, MMPromise, MMBlocksLemmas

\* The inductive invariant: the conjunction of what the properties say.  Each
\* part needs the others: coalesce needs the lists to find what it unlinks, the
\* PREVALLOC bits to tell whether the footer before it can be read, and the
\* tiling to name its neighbours.
Inv ==
    /\ TypeOK
    /\ BlocksTileHeap
    /\ FreeListsExact
    /\ FooterTrustedOnlyWhenFree
    /\ AllocatedIsHeld

\* The invariant says that the heap is well-formed with no block in hand.
LEMMA InvFacts ==
    ASSUME Inv
    PROVE  WellFormed(heap, {}) /\ heap.brk \in Nat /\ heap.brk <= MAX_HEAP
BY DEF Inv, TypeOK, BlocksTileHeap, FreeListsExact, FooterTrustedOnlyWhenFree,
       WellFormed, Tiled

\* A well-formed heap, its break and the caller's tables give the invariant.
LEMMA InvFrom ==
    ASSUME WellFormed(heap, {})', (heap.brk <= MAX_HEAP)',
           (blocks \in [Ids -> Nat])', (block_sizes \in [Ids -> Requests \cup {0}])',
           AllocatedIsHeld'
    PROVE  Inv'
<1>1. (heap.brk \in FIRST .. MAX_HEAP)'
  <2>1. (heap.brk \in Nat /\ FIRST \in DOMAIN heap.size
         /\ heap.size[FIRST] \in Nat /\ FIRST + heap.size[FIRST] <= heap.brk)'
    BY DEF WellFormed, Tiled
  <2>. QED  BY <2>1, SizesAssumption DEF FIRST, WSIZE
<1>2. TypeOK'
  BY <1>1 DEF TypeOK, WellFormed, Listed
<1>. QED
  BY <1>2 DEF Inv, BlocksTileHeap, FreeListsExact, FooterTrustedOnlyWhenFree, WellFormed

\* mm_init establishes the invariant.
LEMMA InitInv == Init => Inv
<1> SUFFICES ASSUME Init PROVE Inv
  OBVIOUS
<1>1. WellFormed(heap, {}) /\ heap.alloc = {} /\ heap.brk \in FIRST .. MAX_HEAP
  BY InitKeeps DEF Init
<1>2. Live = {}
  BY DEF Init, Live
<1>3. AllocatedIsHeld
  BY <1>1, <1>2 DEF AllocatedIsHeld
<1>4. TypeOK
  BY <1>1 DEF TypeOK, Init, NULL, WellFormed, Listed
<1>. QED
  BY <1>1, <1>3, <1>4 DEF Inv, BlocksTileHeap, FreeListsExact,
     FooterTrustedOnlyWhenFree, WellFormed

\* A call of mm_malloc preserves the invariant.
LEMMA MallocInv ==
    ASSUME Inv, NEW i \in Ids, NEW size \in Requests, Malloc(i, size)
    PROVE  Inv'
<1> DEFINE r == mm_malloc(heap, size)
<1>1. WellFormed(heap, {}) /\ heap.brk <= MAX_HEAP
  BY InvFacts
<1>2. MallocAnswers(heap, size, r)
  BY <1>1, MallocKeeps
<1>3. heap' = r.heap /\ Answer(i, r.bp, size) /\ i \notin Live
  BY DEF Malloc
<1> HIDE DEF r
<1>4. CASE r.bp = NULL /\ r.heap = heap
  <2>1. UNCHANGED vars
    BY <1>3, <1>4 DEF Answer, vars
  <2>. QED  BY <2>1 DEF vars, Inv, TypeOK, BlocksTileHeap, FreeListsExact,
                        FooterTrustedOnlyWhenFree, AllocatedIsHeld, Live
<1>5. CASE /\ size # 0
           /\ r.bp \in Nat /\ r.bp >= FIRST /\ r.bp \notin heap.alloc
           /\ WellFormed(r.heap, {})
           /\ r.heap.alloc = heap.alloc \cup {r.bp}
           /\ r.heap.brk \in Nat /\ heap.brk <= r.heap.brk /\ r.heap.brk <= MAX_HEAP
           /\ Kept(heap.alloc, heap, r.heap)
           /\ r.bp \in DOMAIN r.heap.size
           /\ r.heap.size[r.bp] >= size + WSIZE
  <2>1. r.bp # NULL
    BY <1>5 DEF FIRST, WSIZE, NULL
  <2>2. /\ blocks' = [blocks EXCEPT ![i] = r.bp]
        /\ block_sizes' = [block_sizes EXCEPT ![i] = size]
    BY <1>3, <2>1 DEF Answer
  <2>3. blocks \in [Ids -> Nat] /\ block_sizes \in [Ids -> Requests \cup {0}]
    BY DEF Inv, TypeOK
  <2>4. /\ blocks' \in [Ids -> Nat] /\ block_sizes' \in [Ids -> Requests \cup {0}]
        /\ blocks'[i] = r.bp /\ block_sizes'[i] = size
        /\ \A j \in Ids \ {i} : blocks'[j] = blocks[j]
                                /\ block_sizes'[j] = block_sizes[j]
    BY <1>5, <2>2, <2>3
  <2>5. Live' = Live \cup {i}
    BY <2>1, <2>4 DEF Live
  <2>6. \A j \in Live : /\ j \in Ids \ {i} /\ blocks[j] \in heap.alloc
                        /\ heap.size[blocks[j]] >= block_sizes[j] + WSIZE
    BY <1>3 DEF Inv, AllocatedIsHeld, Live
  <2>7. AllocatedIsHeld'
    <3>1. heap'.alloc = {blocks'[j] : j \in Live'}
      <4>1. heap.alloc = {blocks[j] : j \in Live}
        BY DEF Inv, AllocatedIsHeld
      <4>. QED  BY <1>3, <1>5, <2>4, <2>5, <2>6, <4>1
    <3>2. ASSUME NEW j \in Live', NEW k \in Live', blocks'[j] = blocks'[k]
          PROVE  j = k
      <4>1. \A x, y \in Live : blocks[x] = blocks[y] => x = y
        BY DEF Inv, AllocatedIsHeld
      <4>. QED  BY <1>5, <2>4, <2>5, <2>6, <3>2, <4>1
    <3>3. ASSUME NEW j \in Live'
          PROVE  heap'.size[blocks'[j]] >= block_sizes'[j] + WSIZE
      <4>1. CASE j = i
        BY <1>3, <1>5, <2>4, <4>1
      <4>2. CASE j \in Live
        BY <1>3, <1>5, <2>4, <2>6, <4>2 DEF Kept
      <4>. QED  BY <2>5, <4>1, <4>2
    <3>. QED  BY <3>1, <3>2, <3>3 DEF AllocatedIsHeld
  <2>. QED  BY <1>3, <1>5, <2>4, <2>7, InvFrom
<1>. QED
  BY <1>2, <1>4, <1>5 DEF MallocAnswers

\* A call of mm_free preserves the invariant.
LEMMA FreeInv ==
    ASSUME Inv, NEW i \in Ids, Free(i)
    PROVE  Inv'
<1> DEFINE bp == blocks[i]
<1>1. WellFormed(heap, {}) /\ heap.brk <= MAX_HEAP
  BY InvFacts
<1>2. /\ heap' = mm_free(heap, bp) /\ i \in Live
      /\ blocks' = [blocks EXCEPT ![i] = NULL]
      /\ block_sizes' = [block_sizes EXCEPT ![i] = 0]
  BY DEF Free
<1>3. bp \in heap.alloc
  BY <1>2 DEF Inv, AllocatedIsHeld
<1> HIDE DEF bp
<1>4. /\ WellFormed(heap', {}) /\ heap'.alloc = heap.alloc \ {bp}
      /\ heap'.brk = heap.brk /\ Kept(heap.alloc \ {bp}, heap, heap')
  BY <1>1, <1>2, <1>3, FreeKeeps
<1>5. blocks \in [Ids -> Nat] /\ block_sizes \in [Ids -> Requests \cup {0}]
  BY DEF Inv, TypeOK
<1>6. /\ blocks' \in [Ids -> Nat] /\ block_sizes' \in [Ids -> Requests \cup {0}]
      /\ blocks'[i] = NULL
      /\ \A j \in Ids \ {i} : blocks'[j] = blocks[j] /\ block_sizes'[j] = block_sizes[j]
  BY <1>2, <1>5 DEF NULL
<1>7. Live' = Live \ {i} /\ Live \subseteq Ids
  BY <1>6 DEF Live
<1>8. /\ heap.alloc = {blocks[j] : j \in Live}
      /\ \A x, y \in Live : blocks[x] = blocks[y] => x = y
      /\ \A x \in Live : heap.size[blocks[x]] >= block_sizes[x] + WSIZE
  BY DEF Inv, AllocatedIsHeld
<1>9. \A j \in Live' : blocks'[j] = blocks[j] /\ blocks[j] \in heap.alloc \ {bp}
  BY <1>2, <1>6, <1>7, <1>8 DEF bp
<1>10. AllocatedIsHeld'
  <2>1. heap'.alloc = {blocks'[j] : j \in Live'}
    BY <1>4, <1>7, <1>8, <1>9 DEF bp
  <2>2. \A j, k \in Live' : blocks'[j] = blocks'[k] => j = k
    BY <1>7, <1>8, <1>9
  <2>3. \A j \in Live' : heap'.size[blocks'[j]] >= block_sizes'[j] + WSIZE
    BY <1>4, <1>6, <1>7, <1>8, <1>9 DEF Kept
  <2>. QED  BY <2>1, <2>2, <2>3 DEF AllocatedIsHeld
<1>. QED
  BY <1>1, <1>4, <1>6, <1>10, InvFrom

\* A call of mm_realloc preserves the invariant.
LEMMA ReallocInv ==
    ASSUME Inv, NEW i \in Ids, NEW size \in Requests, Realloc(i, size)
    PROVE  Inv'
<1> DEFINE bp == blocks[i]
           r == mm_realloc(heap, bp, size)
<1>1. WellFormed(heap, {}) /\ heap.brk <= MAX_HEAP
  BY InvFacts
<1>2. heap' = r.heap /\ Answer(i, r.bp, size) /\ i \in Live
  BY DEF Realloc
<1>3. bp \in heap.alloc
  BY <1>2 DEF Inv, AllocatedIsHeld
<1>4. (r.bp = NULL /\ r.heap = heap) \/ MovedTo(heap, bp, size, r)
  <2> HIDE DEF bp
  <2>. QED  BY <1>1, <1>3, ReallocKeeps
<1> HIDE DEF r, bp
<1>5. CASE r.bp = NULL /\ r.heap = heap
  <2>1. UNCHANGED vars
    BY <1>2, <1>5 DEF Answer, vars
  <2>. QED  BY <2>1 DEF vars, Inv, TypeOK, BlocksTileHeap, FreeListsExact,
                        FooterTrustedOnlyWhenFree, AllocatedIsHeld, Live
<1>6. CASE MovedTo(heap, bp, size, r)
  <2>1. r.bp # NULL
    BY <1>6 DEF MovedTo, FIRST, WSIZE, NULL
  <2>2. /\ blocks' = [blocks EXCEPT ![i] = r.bp]
        /\ block_sizes' = [block_sizes EXCEPT ![i] = size]
    BY <1>2, <2>1 DEF Answer
  <2>3. blocks \in [Ids -> Nat] /\ block_sizes \in [Ids -> Requests \cup {0}]
    BY DEF Inv, TypeOK
  <2>4. /\ blocks' \in [Ids -> Nat] /\ block_sizes' \in [Ids -> Requests \cup {0}]
        /\ blocks'[i] = r.bp /\ block_sizes'[i] = size
        /\ \A j \in Ids \ {i} : blocks'[j] = blocks[j]
                                /\ block_sizes'[j] = block_sizes[j]
    BY <1>6, <2>2, <2>3 DEF MovedTo
  <2>5. Live' = Live
    BY <1>2, <2>1, <2>4 DEF Live
  <2>6. /\ heap.alloc = {blocks[j] : j \in Live}
        /\ \A x, y \in Live : blocks[x] = blocks[y] => x = y
        /\ \A x \in Live : heap.size[blocks[x]] >= block_sizes[x] + WSIZE
    BY DEF Inv, AllocatedIsHeld
  <2>7. \A j \in Live \ {i} : /\ j \in Ids \ {i} /\ blocks'[j] = blocks[j]
                              /\ blocks[j] \in heap.alloc \ {bp}
    BY <1>2, <2>4, <2>6 DEF bp, Live
  <2>8. /\ heap'.alloc = (heap.alloc \cup {r.bp}) \ {bp} /\ r.bp \notin heap.alloc
        /\ Kept(heap.alloc \ {bp}, heap, heap')
        /\ heap'.size[r.bp] >= size + WSIZE
        /\ WellFormed(heap', {}) /\ heap'.brk <= MAX_HEAP
    BY <1>2, <1>6 DEF MovedTo
  <2>9. AllocatedIsHeld'
    <3>1. heap'.alloc = {blocks'[j] : j \in Live'}
      <4>1. r.bp # bp
        BY <1>3, <2>8
      <4>2. heap'.alloc = (heap.alloc \ {bp}) \cup {r.bp}
        BY <2>8, <4>1
      <4>3. heap.alloc \ {bp} = {blocks[j] : j \in Live \ {i}}
        BY <1>2, <2>6 DEF bp
      <4>. QED  BY <1>2, <2>4, <2>5, <2>7, <4>2, <4>3
    <3>2. ASSUME NEW j \in Live', NEW k \in Live', blocks'[j] = blocks'[k]
          PROVE  j = k
      <4>1. CASE j # i /\ k # i
        BY <2>5, <2>6, <2>7, <3>2, <4>1
      <4>2. CASE j = i /\ k # i
        BY <2>4, <2>5, <2>7, <2>8, <3>2, <4>2
      <4>3. CASE j # i /\ k = i
        BY <2>4, <2>5, <2>7, <2>8, <3>2, <4>3
      <4>. QED  BY <4>1, <4>2, <4>3
    <3>3. ASSUME NEW j \in Live'
          PROVE  heap'.size[blocks'[j]] >= block_sizes'[j] + WSIZE
      <4>1. CASE j = i
        BY <2>4, <2>8, <4>1
      <4>2. CASE j # i
        BY <2>4, <2>5, <2>6, <2>7, <2>8, <4>2 DEF Kept
      <4>. QED  BY <4>1, <4>2
    <3>. QED  BY <3>1, <3>2, <3>3 DEF AllocatedIsHeld
  <2>. QED  BY <2>4, <2>8, <2>9, InvFrom
<1>. QED
  BY <1>4, <1>5, <1>6

\* Every step preserves the invariant.
LEMMA NextInv == Inv /\ [Next]_vars => Inv'
<1> SUFFICES ASSUME Inv, [Next]_vars PROVE Inv'
  OBVIOUS
<1>1. ASSUME NEW i \in Ids, NEW size \in Requests, Malloc(i, size) PROVE Inv'
  BY <1>1, MallocInv
<1>2. ASSUME NEW i \in Ids, NEW size \in Requests, Realloc(i, size) PROVE Inv'
  BY <1>2, ReallocInv
<1>3. ASSUME NEW i \in Ids, Free(i) PROVE Inv'
  BY <1>3, FreeInv
<1>4. CASE UNCHANGED vars
  BY <1>4 DEF vars, Inv, TypeOK, BlocksTileHeap, FreeListsExact,
     FooterTrustedOnlyWhenFree, AllocatedIsHeld, Live
<1>. QED
  BY <1>1, <1>2, <1>3, <1>4 DEF Next

\* The invariant holds throughout every sequence of calls.
THEOREM Invariance == Spec => []Inv
<1>. QED
  BY InitInv, NextInv, PTL DEF Spec

\* The state keeps its type, and the break stays inside memlib's arena.
THEOREM TypeCorrect == Spec => []TypeOK
<1>1. Inv => TypeOK
  BY DEF Inv
<1>. QED
  BY <1>1, Invariance, PTL

\* No sequence of calls leaves a gap or an overlap between blocks.
THEOREM TilingCorrect == Spec => []BlocksTileHeap
<1>1. Inv => BlocksTileHeap
  BY DEF Inv
<1> QED
  BY <1>1, Invariance, PTL

\* Every free block is always on the list of its size, once, and nothing else
\* is on a list.
THEOREM ListsCorrect == Spec => []FreeListsExact
<1>1. Inv => FreeListsExact
  BY DEF Inv
<1> QED
  BY <1>1, Invariance, PTL

\* coalesce never follows the footer of an allocated block: the PREVALLOC bit
\* is clear only after a free block.
THEOREM FootersCorrect == Spec => []FooterTrustedOnlyWhenFree
<1>1. Inv => FooterTrustedOnlyWhenFree
  BY DEF Inv
<1> QED
  BY <1>1, Invariance, PTL

\* The allocated blocks are always the ones the caller holds, each with room
\* for its payload: mm_malloc hands out none twice, mm_realloc leaks none.
THEOREM HeldCorrect == Spec => []AllocatedIsHeld
<1>1. Inv => AllocatedIsHeld
  BY DEF Inv
<1>. QED
  BY <1>1, Invariance, PTL

\* The sizes of the blocks that stay allocated over a step.
SizesStay == \A b \in heap.alloc \cap heap'.alloc : heap'.size[b] = heap.size[b]

\* A step changes the size of no block that is allocated before and after it.
LEMMA NextStays == Inv /\ [Next]_vars => [SizesStay]_vars
<1> SUFFICES ASSUME Inv, Next PROVE SizesStay
  OBVIOUS
<1>1. WellFormed(heap, {}) /\ heap.brk <= MAX_HEAP
  BY InvFacts
<1>2. ASSUME NEW i \in Ids, NEW size \in Requests, Malloc(i, size) PROVE SizesStay
  <2> DEFINE r == mm_malloc(heap, size)
  <2>1. MallocAnswers(heap, size, r) /\ heap' = r.heap
    BY <1>1, <1>2, MallocKeeps DEF Malloc
  <2> HIDE DEF r
  <2>. QED  BY <2>1 DEF MallocAnswers, Kept, SizesStay
<1>3. ASSUME NEW i \in Ids, NEW size \in Requests, Realloc(i, size) PROVE SizesStay
  <2> DEFINE bp == blocks[i]
             r == mm_realloc(heap, bp, size)
  <2>1. heap' = r.heap /\ bp \in heap.alloc
    BY <1>3 DEF Realloc, Inv, AllocatedIsHeld
  <2> HIDE DEF bp
  <2>2. r.heap = heap \/ MovedTo(heap, bp, size, r)
    BY <1>1, <2>1, ReallocKeeps
  <2> HIDE DEF r
  <2>3. CASE r.heap = heap
    BY <2>1, <2>3 DEF SizesStay
  <2>4. CASE MovedTo(heap, bp, size, r)
    BY <2>1, <2>4 DEF MovedTo, Kept, SizesStay
  <2>. QED  BY <2>2, <2>3, <2>4
<1>4. ASSUME NEW i \in Ids, Free(i) PROVE SizesStay
  <2> DEFINE bp == blocks[i]
  <2>1. heap' = mm_free(heap, bp) /\ bp \in heap.alloc
    BY <1>4 DEF Free, Inv, AllocatedIsHeld
  <2> HIDE DEF bp
  <2>. QED  BY <1>1, <2>1, FreeKeeps DEF Kept, SizesStay
<1>. QED
  BY <1>2, <1>3, <1>4 DEF Next

\* No call of the allocator moves or resizes a block that its caller keeps.
THEOREM HeldStay == Spec => HeldBlocksStay
<1>1. Inv /\ [Next]_vars =>
        [\A b \in heap.alloc \cap heap'.alloc : heap'.size[b] = heap.size[b]]_vars
  BY NextStays DEF SizesStay
<1>. QED
  BY <1>1, Invariance, PTL DEF Spec, HeldBlocksStay

\* A pointer that mm_malloc answers is one that Allocator allows.
LEMMA MayPlaceNew ==
    ASSUME Inv, NEW size \in Requests, NEW r,
           MallocAnswers(heap, size, r), r.bp # NULL
    PROVE  /\ size \in Requests \ {0} /\ r.bp \in 1 .. MAX_HEAP
           /\ Promise!MayPlace(r.bp, size, Live)
<1>1. WellFormed(heap, {})
  BY InvFacts
<1>2. /\ size # 0 /\ r.bp \in 1 .. MAX_HEAP /\ r.bp % 8 = 0
      /\ r.bp + size <= MAX_HEAP
      /\ \A b \in heap.alloc : /\ b \in Nat /\ heap.size[b] \in Nat
                               /\ r.bp + size <= b \/ b + heap.size[b] <= r.bp
  BY <1>1, NewBlockApart
<1>3. ASSUME NEW j \in Live
      PROVE  r.bp + size <= blocks[j] \/ blocks[j] + block_sizes[j] <= r.bp
  <2>1. blocks[j] \in heap.alloc /\ heap.size[blocks[j]] >= block_sizes[j] + WSIZE
    BY DEF Inv, AllocatedIsHeld
  <2>2. block_sizes[j] \in Nat
    <3>1. j \in Ids /\ block_sizes \in [Ids -> Requests \cup {0}]
      BY DEF Inv, TypeOK, Live
    <3>2. block_sizes[j] \in Requests \cup {0}
      BY <3>1
    <3>3. Requests \cup {0} \subseteq Nat
      BY RequestsAssumption
    <3>. QED  BY <3>2, <3>3, Zenon
  <2>3. /\ blocks[j] \in Nat /\ heap.size[blocks[j]] \in Nat
        /\ r.bp + size <= blocks[j] \/ blocks[j] + heap.size[blocks[j]] <= r.bp
    BY <1>2, <2>1
  <2>4. blocks[j] + block_sizes[j] <= blocks[j] + heap.size[blocks[j]]
    BY <2>1, <2>2, <2>3 DEF WSIZE
  <2>. QED  BY <1>2, <2>2, <2>3, <2>4
<1>. QED
  BY <1>2, <1>3 DEF Promise!MayPlace

\* Every step of the code is a step of Allocator or changes nothing the
\* caller can see.
LEMMA NextKeepsPromise ==
    Inv /\ [Next]_vars => [Promise!Next]_(Promise!vars)
<1> SUFFICES ASSUME Inv, [Next]_vars
             PROVE  Promise!Next \/ UNCHANGED <<blocks, block_sizes>>
  BY DEF Promise!vars
<1>1. WellFormed(heap, {}) /\ heap.brk <= MAX_HEAP
  BY InvFacts
<1>2. Live = Promise!Live /\ NULL = Promise!NULL
  BY DEF Live, Promise!Live, NULL, Promise!NULL
<1>3. ASSUME NEW i \in Ids, NEW size \in Requests, Malloc(i, size)
      PROVE  Promise!Next \/ UNCHANGED <<blocks, block_sizes>>
  <2> DEFINE r == mm_malloc(heap, size)
  <2>1. MallocAnswers(heap, size, r) /\ Answer(i, r.bp, size) /\ i \notin Live
    BY <1>1, <1>3, MallocKeeps DEF Malloc
  <2> HIDE DEF r
  <2>2. CASE r.bp = NULL
    BY <2>1, <2>2 DEF Answer
  <2>3. CASE r.bp # NULL
    <3>1. /\ size \in Requests \ {0} /\ r.bp \in 1 .. MAX_HEAP
          /\ Promise!MayPlace(r.bp, size, Live)
      BY <2>1, <2>3, MayPlaceNew
    <3>2. Promise!Give(i, r.bp, size)
      BY <2>1, <2>3 DEF Answer, Promise!Give
    <3>3. Promise!Malloc(i, size)
      BY <1>2, <2>1, <3>1, <3>2 DEF Promise!Malloc
    <3>. QED  BY <3>1, <3>3 DEF Promise!Next
  <2>. QED  BY <2>2, <2>3
<1>4. ASSUME NEW i \in Ids, NEW size \in Requests, Realloc(i, size)
      PROVE  Promise!Next \/ UNCHANGED <<blocks, block_sizes>>
  <2> DEFINE r == mm_realloc(heap, blocks[i], size)
             new == mm_malloc(heap, size)
  <2>1. MallocAnswers(heap, size, new) /\ Answer(i, r.bp, size) /\ i \in Live
    BY <1>1, <1>4, MallocKeeps DEF Realloc
  <2>2. blocks[i] \in heap.alloc
    BY <2>1 DEF Inv, AllocatedIsHeld
  <2>3. r.bp = new.bp
    BY DEF mm_realloc
  <2> HIDE DEF r, new
  <2>4. CASE r.bp = NULL
    BY <2>1, <2>4 DEF Answer
  <2>5. CASE r.bp # NULL
    <3>1. /\ size \in Requests \ {0} /\ r.bp \in 1 .. MAX_HEAP
          /\ Promise!MayPlace(r.bp, size, Live)
      BY <2>1, <2>3, <2>5, MayPlaceNew
    <3>2. Promise!MayPlace(r.bp, size, Live \ {i})
      BY <3>1 DEF Promise!MayPlace
    <3>3. Promise!Give(i, r.bp, size)
      BY <2>1, <2>5 DEF Answer, Promise!Give
    <3>4. Promise!Realloc(i, size)
      BY <1>2, <2>1, <3>1, <3>2, <3>3 DEF Promise!Realloc
    <3>. QED  BY <3>1, <3>4 DEF Promise!Next
  <2>. QED  BY <2>4, <2>5
<1>5. ASSUME NEW i \in Ids, Free(i)
      PROVE  Promise!Next \/ UNCHANGED <<blocks, block_sizes>>
  <2>1. Promise!Free(i)
    BY <1>2, <1>5 DEF Free, Promise!Free, Promise!Give
  <2>. QED  BY <2>1 DEF Promise!Next
<1>6. CASE UNCHANGED vars
  BY <1>6 DEF vars
<1>. QED
  BY <1>3, <1>4, <1>5, <1>6 DEF Next

\* The code implements Allocator: every pointer it returns is aligned, inside
\* the arena, and apart from every payload still held.
THEOREM Refinement == Spec => KeepsPromise
<1>1. Init => Promise!Init
  BY DEF Init, Promise!Init, NULL, Promise!NULL
<1>. QED
  BY <1>1, NextKeepsPromise, Invariance, PTL DEF Spec, KeepsPromise, Promise!Spec

(***************************************************************************)
(* eval_mm_util                                                            *)
(***************************************************************************)
\* What the totals of eval_mm_util need besides the allocator's invariant: only
\* finitely many blocks are held at a time.
UtilInv ==
    /\ Inv
    /\ IsFiniteSet(Live)
    /\ TotalIsHeld
    /\ max_total_size \in Nat /\ UtilizationAtMostOne

\* The sizes that are added up are numbers.
LEMMA HeldSizes ==
    ASSUME Inv
    PROVE  /\ Numbers(block_sizes, Live)
           /\ \A j \in Live : block_sizes[j] \in Nat /\ blocks[j] \in Nat
<1>1. /\ blocks \in [Ids -> Nat] /\ block_sizes \in [Ids -> Requests \cup {0}]
      /\ Live \subseteq Ids
  BY DEF Inv, TypeOK, Live
<1>2. Requests \cup {0} \subseteq Nat
  BY RequestsAssumption
<1>3. \A j \in Live : block_sizes[j] \in Nat /\ blocks[j] \in Nat
  BY <1>1, <1>2
<1>. QED
  BY <1>3 DEF Numbers

\* The payloads that the caller holds, apart from one another below the break,
\* add up to at most the heap's size.
LEMMA HeldFit == Inv /\ IsFiniteSet(Live) => SumOver(block_sizes, Live) <= heap.brk
<1> SUFFICES ASSUME Inv, IsFiniteSet(Live)
             PROVE  SumOver(block_sizes, Live) <= heap.brk
  OBVIOUS
<1>1. \A j \in Live : block_sizes[j] \in Nat /\ blocks[j] \in Nat
  BY HeldSizes
<1>2. WellFormed(heap, {}) /\ heap.brk \in Nat
  BY InvFacts
<1>3. /\ \A j \in Live : /\ blocks[j] \in heap.alloc
                         /\ heap.size[blocks[j]] >= block_sizes[j] + WSIZE
      /\ \A j, k \in Live : j # k => blocks[j] # blocks[k]
  BY DEF Inv, AllocatedIsHeld
<1>4. ASSUME NEW j \in Live
      PROVE  /\ blocks[j] \in DOMAIN heap.size
             /\ heap.size[blocks[j]] \in Nat
             /\ blocks[j] + heap.size[blocks[j]] <= heap.brk
             /\ block_sizes[j] <= heap.size[blocks[j]]
  <2>1. blocks[j] \in DOMAIN heap.size
    BY <1>2, <1>3 DEF WellFormed, Listed
  <2>2. heap.size[blocks[j]] \in Nat /\ blocks[j] + heap.size[blocks[j]] <= heap.brk
    BY <1>2, <2>1 DEF WellFormed, Tiled
  <2>. QED  BY <1>1, <1>3, <2>1, <2>2 DEF WSIZE
<1>5. ASSUME NEW j \in Live, NEW k \in Live, blocks[j] < blocks[k]
      PROVE  blocks[j] + block_sizes[j] <= blocks[k]
  <2>1. blocks[j] + heap.size[blocks[j]] <= blocks[k]
    BY <1>2, <1>4, <1>5 DEF WellFormed, Tiled
  <2>. QED  BY <1>1, <1>4, <2>1
<1>6. \A j \in Live : blocks[j] + block_sizes[j] <= heap.brk
  BY <1>1, <1>2, <1>4
<1>7. Apart(Live, blocks, block_sizes, heap.brk)
  BY <1>1, <1>3, <1>5, <1>6 DEF Apart
<1>. QED
  BY <1>2, <1>7, ApartFit

\* The break is a number.
LEMMA BrkType == Inv => heap.brk \in Nat
BY InvFacts

\* The sum that TotalIsHeld speaks of, before and after a step.
LEMMA TotalIs ==
    /\ TotalIsHeld <=> total_size = SumOver(block_sizes, Live)
    /\ TotalIsHeld' <=> total_size' = SumOver(block_sizes', Live')
BY DEF TotalIsHeld, SumOver, MapThenSumSet, MapThenFoldSet

\* A call that succeeded changes the caller's record at one index only.
LEMMA Answered ==
    ASSUME Inv, NEW i \in Ids, NEW bp \in Nat, bp # NULL, NEW size \in Requests,
           Answer(i, bp, size)
    PROVE  /\ Live' = Live \cup {i} /\ block_sizes'[i] = size
           /\ \A j \in Live \ {i} : block_sizes'[j] = block_sizes[j]
<1>1. blocks \in [Ids -> Nat] /\ block_sizes \in [Ids -> Requests \cup {0}]
  BY DEF Inv, TypeOK
<1>2. /\ blocks' = [blocks EXCEPT ![i] = bp]
      /\ block_sizes' = [block_sizes EXCEPT ![i] = size]
  BY DEF Answer
<1>. QED
  BY <1>1, <1>2 DEF Live

\* A call that succeeded and its effect on the totals: what is added is the new
\* size less the size, if any, that the same index had before.
LEMMA CountKeeps ==
    ASSUME UtilInv, Inv', NEW i \in Ids, NEW bp \in Nat, bp # NULL,
           NEW size \in Requests, Answer(i, bp, size),
           heap.brk <= heap'.brk,
           Count(size - (IF i \in Live THEN block_sizes[i] ELSE 0))
    PROVE  UtilInv'
<1>1. /\ Inv /\ IsFiniteSet(Live) /\ total_size = SumOver(block_sizes, Live)
      /\ max_total_size \in Nat /\ max_total_size <= heap.brk
  BY TotalIs DEF UtilInv, UtilizationAtMostOne
<1>2. /\ Live' = Live \cup {i} /\ block_sizes'[i] = size /\ size \in Nat
      /\ \A j \in Live \ {i} : block_sizes'[j] = block_sizes[j]
  BY <1>1, Answered, RequestsAssumption
<1>3. Numbers(block_sizes, Live) /\ \A j \in Live : block_sizes[j] \in Nat
  BY <1>1, HeldSizes
<1>5. /\ IsFiniteSet(Live')
      /\ SumOver(block_sizes', Live') =
            SumOver(block_sizes, Live) + block_sizes'[i]
            - (IF i \in Live THEN block_sizes[i] ELSE 0)
  <2>1. Agree(block_sizes', block_sizes, Live \ {i})
    BY <1>2 DEF Agree
  <2>2. block_sizes'[i] \in Int
    BY <1>2
  <2>3. /\ IsFiniteSet(Live \cup {i})
        /\ SumOver(block_sizes', Live \cup {i}) =
              SumOver(block_sizes, Live) + block_sizes'[i]
              - (IF i \in Live THEN block_sizes[i] ELSE 0)
    BY <1>1, <1>3, <2>1, <2>2, SumPut
  <2>. QED  BY <1>2, <2>3
<1>6. SumOver(block_sizes, Live) \in Int
  BY <1>1, <1>3, SumType
<1>7. total_size' = SumOver(block_sizes', Live') /\ total_size' \in Int
  BY <1>1, <1>2, <1>3, <1>5, <1>6 DEF Count
<1>8. total_size' <= heap'.brk
  <2>1. (Inv /\ IsFiniteSet(Live) => SumOver(block_sizes, Live) <= heap.brk)'
    BY HeldFit, PTL
  <2>. QED  BY <1>5, <1>7, <2>1
<1>9. heap.brk \in Nat /\ heap'.brk \in Nat
  <2>1. (Inv => heap.brk \in Nat)'
    BY BrkType, PTL
  <2>. QED  BY <1>1, <2>1, BrkType
<1>10. max_total_size' = Max({total_size', max_total_size})
  BY DEF Count
<1>11. /\ Max({total_size', max_total_size}) \in {total_size', max_total_size}
       /\ Max({total_size', max_total_size}) >= max_total_size
  <2>1. \E x \in {total_size', max_total_size} :
           \A y \in {total_size', max_total_size} : x >= y
    BY <1>1, <1>7
  <2>. QED  BY <2>1 DEF Max
<1>12. max_total_size' \in Nat /\ max_total_size' <= heap'.brk
  BY <1>1, <1>7, <1>8, <1>9, <1>10, <1>11
<1>. QED
  BY <1>5, <1>7, <1>12, TotalIs DEF UtilInv, UtilizationAtMostOne

\* A failed call leaves everything as it was.
LEMMA FailedKeeps ==
    ASSUME UtilInv, UNCHANGED vars, UNCHANGED <<total_size, max_total_size>>
    PROVE  UtilInv'
<1>1. Live' = Live /\ block_sizes' = block_sizes
  BY DEF Live, vars
<1>2. Inv'
  BY NextInv DEF UtilInv
<1>3. TotalIsHeld'
  BY <1>1, TotalIs DEF UtilInv
<1>. QED
  BY <1>1, <1>2, <1>3 DEF UtilInv, UtilizationAtMostOne, vars

\* The invariant holds throughout every replay.
THEOREM UtilInvariance == UtilSpec => []UtilInv
<1>1. UtilInit => UtilInv
  <2> SUFFICES ASSUME UtilInit PROVE UtilInv
    OBVIOUS
  <2>1. Inv /\ heap.brk \in Nat
    BY InitInv, BrkType DEF UtilInit
  <2>2. Live = {} /\ IsFiniteSet(Live)
    BY FS_EmptySet DEF UtilInit, Init, Live
  <2>3. TotalIsHeld
    BY <2>2, SumEmpty, TotalIs DEF UtilInit
  <2>. QED  BY <2>1, <2>2, <2>3 DEF UtilInv, UtilizationAtMostOne, UtilInit
<1>2. UtilInv /\ [UtilNext]_utilVars => UtilInv'
  <2> SUFFICES ASSUME UtilInv, [UtilNext]_utilVars PROVE UtilInv'
    OBVIOUS
  <2>1. Inv /\ WellFormed(heap, {}) /\ heap.brk \in Nat /\ heap.brk <= MAX_HEAP
    BY InvFacts DEF UtilInv
  <2>2. ASSUME NEW i \in Ids, NEW size \in Requests, UtilAlloc(i, size) PROVE UtilInv'
    <3> DEFINE r == mm_malloc(heap, size)
    <3>1. MallocAnswers(heap, size, r)
      BY <2>1, MallocKeeps
    <3>2. /\ Malloc(i, size) /\ i \notin Live /\ heap' = r.heap /\ Answer(i, r.bp, size)
          /\ IF r.bp = NULL THEN AppError ELSE Count(size)
      BY <2>2 DEF UtilAlloc, Malloc
    <3>3. Inv'
      BY <2>1, <3>2, MallocInv
    <3> HIDE DEF r
    <3>4. CASE r.bp = NULL
      <4>1. r.heap = heap
        BY <3>1, <3>4 DEF MallocAnswers, NULL, FIRST, WSIZE
      <4>. QED  BY <3>2, <3>4, <4>1, FailedKeeps DEF Answer, AppError, vars
    <3>5. CASE r.bp # NULL
      <4>1. r.bp \in Nat /\ heap.brk <= heap'.brk
        BY <3>1, <3>2, <3>5 DEF MallocAnswers
      <4>2. size \in Nat /\ size = size - (IF i \in Live THEN block_sizes[i] ELSE 0)
        BY <3>2, RequestsAssumption
      <4>. QED  BY <3>2, <3>3, <3>5, <4>1, <4>2, CountKeeps
    <3>. QED  BY <3>4, <3>5
  <2>3. ASSUME NEW i \in Ids, NEW size \in Requests, UtilRealloc(i, size) PROVE UtilInv'
    <3> DEFINE bp == blocks[i]
               r == mm_realloc(heap, bp, size)
    <3>1. /\ Realloc(i, size) /\ i \in Live /\ heap' = r.heap /\ Answer(i, r.bp, size)
          /\ IF r.bp = NULL THEN AppError ELSE Count(size - block_sizes[i])
      BY <2>3 DEF UtilRealloc, Realloc
    <3>2. bp \in heap.alloc
      BY <2>1, <3>1 DEF Inv, AllocatedIsHeld
    <3>3. (r.bp = NULL /\ r.heap = heap) \/ MovedTo(heap, bp, size, r)
      <4> HIDE DEF bp
      <4>. QED  BY <2>1, <3>2, ReallocKeeps
    <3>4. Inv'
      BY <2>1, <3>1, ReallocInv
    <3> HIDE DEF r, bp
    <3>5. CASE r.bp = NULL
      <4>1. r.heap = heap
        BY <3>3, <3>5 DEF MovedTo, NULL, FIRST, WSIZE
      <4>. QED  BY <3>1, <3>5, <4>1, FailedKeeps DEF Answer, AppError, vars
    <3>6. CASE r.bp # NULL
      <4>1. r.bp \in Nat /\ heap.brk <= heap'.brk
        BY <3>1, <3>3, <3>6 DEF MovedTo
      <4>2. Count(size - (IF i \in Live THEN block_sizes[i] ELSE 0))
        BY <3>1, <3>6
      <4>. QED  BY <3>1, <3>4, <3>6, <4>1, <4>2, CountKeeps
    <3>. QED  BY <3>5, <3>6
  <2>4. ASSUME NEW i \in Ids, UtilFree(i) PROVE UtilInv'
    <3>1. /\ Free(i) /\ i \in Live /\ heap' = mm_free(heap, blocks[i])
          /\ blocks' = [blocks EXCEPT ![i] = NULL]
          /\ block_sizes' = [block_sizes EXCEPT ![i] = 0]
          /\ total_size' = total_size - block_sizes[i] /\ max_total_size' = max_total_size
      BY <2>4 DEF UtilFree, Free
    <3>2. Inv'
      BY <2>1, <3>1, FreeInv
    <3>3. heap'.brk = heap.brk
      <4> DEFINE bp == blocks[i]
      <4>1. bp \in heap.alloc
        BY <2>1, <3>1 DEF Inv, AllocatedIsHeld
      <4> HIDE DEF bp
      <4>2. heap' = mm_free(heap, bp)
        BY <3>1 DEF bp
      <4>. QED  BY <2>1, <4>1, <4>2, FreeKeeps, Zenon
    <3>4. /\ Live' = Live \ {i} /\ \A j \in Live \ {i} : block_sizes'[j] = block_sizes[j]
      <4>1. blocks \in [Ids -> Nat] /\ block_sizes \in [Ids -> Requests \cup {0}]
        BY <2>1 DEF Inv, TypeOK
      <4>. QED  BY <3>1, <4>1 DEF Live, NULL
    <3>5. IsFiniteSet(Live) /\ total_size = SumOver(block_sizes, Live) /\ IsFiniteSet(Live')
      BY <3>4, FS_Subset, TotalIs DEF UtilInv
    <3>6. Numbers(block_sizes, Live) /\ block_sizes[i] \in Nat
      BY <2>1, <3>1, HeldSizes
    <3>7. /\ SumOver(block_sizes, Live) = block_sizes[i] + SumOver(block_sizes, Live \ {i})
          /\ SumOver(block_sizes, Live \ {i}) \in Int
      BY <3>1, <3>5, <3>6, SumTake
    <3>8. SumOver(block_sizes', Live') = SumOver(block_sizes, Live \ {i})
      <4>1. Agree(block_sizes', block_sizes, Live')
        BY <3>4 DEF Agree
      <4>. QED  BY <3>4, <3>5, <4>1, SumSame
    <3>9. total_size' = SumOver(block_sizes', Live')
      BY <3>1, <3>5, <3>6, <3>7, <3>8
    <3>. QED  BY <3>1, <3>2, <3>3, <3>5, <3>9, TotalIs DEF UtilInv, UtilizationAtMostOne
  <2>5. CASE UNCHANGED utilVars
    BY <2>5, FailedKeeps DEF utilVars, vars
  <2>. QED  BY <2>2, <2>3, <2>4, <2>5 DEF UtilNext
<1>. QED
  BY <1>1, <1>2, PTL DEF UtilSpec

\* The running total of eval_mm_util is the number of payload bytes held.
THEOREM TotalCorrect == UtilSpec => []TotalIsHeld
<1>1. UtilInv => TotalIsHeld
  BY DEF UtilInv
<1>. QED
  BY <1>1, UtilInvariance, PTL

\* The utilization that eval_mm_util returns is at most 1, for every arena and
\* every sequence of requests.
THEOREM UtilizationCorrect == UtilSpec => []UtilizationAtMostOne
<1>1. UtilInv => UtilizationAtMostOne
  BY DEF UtilInv
<1>. QED
  BY <1>1, UtilInvariance, PTL
=============================================================================
