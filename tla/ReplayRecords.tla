---------------------------- MODULE ReplayRecords ----------------------------
(***************************************************************************)
(* What the passes record: the range list and the sizes of eval_mm_valid,  *)
(* the totals of eval_mm_util and main's stats.  The inductive invariant   *)
(* is ReplayInv.                                                           *)
(***************************************************************************)
EXTENDS ReplayPasses

(***************************************************************************)
(* The range list                                                          *)
(***************************************************************************)
Extents == [lo : Nat, hi : Int]

\* The list records, once each, the payloads of the indices in H, which start at
\* b[id] and are z[id] bytes long.
Records(rs, b, z, H) ==
    /\ rs \in Seq(Extents) /\ IsInjective(rs)
    /\ Range(rs) = {RangeOf(b[id], z[id]) : id \in H}

\* remove_range takes off the record of the index x.
LEMMA RemoveRecord ==
    ASSUME NEW H \in SUBSET Ids, NEW b \in [Ids -> Nat], NEW z \in [Ids -> Nat],
           NEW rs, Records(rs, b, z, H), NEW x \in H,
           \A a, c \in H : b[a] = b[c] => a = c
    PROVE  Records(remove_range(rs, b[x]), b, z, H \ {x})
  <1>1. rs \in Seq(Extents) /\ IsInjective(rs) /\ DOMAIN rs = 1 .. Len(rs)
    BY DEF Records
  <1>2. RangeOf(b[x], z[x]) \in Range(rs)
    BY DEF Records
  <1>3. PICK k \in 1 .. Len(rs) : rs[k] = RangeOf(b[x], z[x])
    BY <1>1, <1>2 DEF Range
  <1>4. ASSUME NEW j \in 1 .. Len(rs), rs[j].lo = b[x] PROVE j = k
    <2>1. rs[j] \in Range(rs)
      BY <1>1, Zenon DEF Range
    <2>2. PICK id \in H : rs[j] = RangeOf(b[id], z[id])
      BY <2>1 DEF Records
    <2>3. b[id] = b[x]
      BY <1>4, <2>2 DEF RangeOf
    <2>4. rs[j] = rs[k]
      BY <1>3, <2>2, <2>3
    <2>. QED BY <1>1, <2>4 DEF IsInjective
  <1>5. rs[k].lo = b[x]
    BY <1>3 DEF RangeOf
  <1>6. {j \in 1 .. Len(rs) : rs[j].lo = b[x]} = {k} /\ Min({k}) = k
    BY <1>4, <1>5 DEF Min
  <1> DEFINE t == SubSeq(rs, 1, k - 1) \o SubSeq(rs, k + 1, Len(rs))
  <1>7. remove_range(rs, b[x]) = t
    BY <1>6, Zenon DEF remove_range
  <1>8. t \in Seq(Extents) /\ IsInjective(t) /\ Range(t) = Range(rs) \ {rs[k]}
    BY <1>1, DropOne, Zenon DEF Without
  <1> HIDE DEF t
  <1>9. ASSUME NEW id \in H, id # x PROVE RangeOf(b[id], z[id]) # RangeOf(b[x], z[x])
    <2>1. RangeOf(b[id], z[id]).lo # RangeOf(b[x], z[x]).lo
      BY <1>9 DEF RangeOf
    <2>. QED BY <2>1
  <1>10. Range(t) = {RangeOf(b[id], z[id]) : id \in H \ {x}}
    BY <1>3, <1>8, <1>9 DEF Records
  <1>. QED BY <1>7, <1>8, <1>10, Zenon DEF Records

\* A new record in front of the list.
LEMMA AddRecord ==
    ASSUME NEW H \in SUBSET Ids, NEW x \in Ids \ H,
           NEW b \in [Ids -> Nat], NEW z \in [Ids -> Nat],
           NEW rs, Records(rs, b, z, H), \A id \in H : b[id] # b[x]
    PROVE  Records(<<RangeOf(b[x], z[x])>> \o rs, b, z, H \cup {x})
  <1> DEFINE r == RangeOf(b[x], z[x])
             t == <<r>> \o rs
  <1>1. rs \in Seq(Extents) /\ IsInjective(rs) /\ DOMAIN rs = 1 .. Len(rs) /\ Len(rs) \in Nat
    BY DEF Records
  <1>2. r \in Extents
    BY DEF RangeOf, Extents
  <1>3. r \notin Range(rs)
    <2>1. ASSUME NEW id \in H PROVE RangeOf(b[id], z[id]) # r
      <3>1. RangeOf(b[id], z[id]).lo # r.lo
        BY DEF RangeOf
      <3>. QED BY <3>1
    <2>. QED BY <2>1 DEF Records
  <1> HIDE DEF r
  <1>4. /\ t \in Seq(Extents) /\ Len(t) = Len(rs) + 1
        /\ t[1] = r /\ \A j \in 1 .. Len(rs) : t[j + 1] = rs[j]
    BY <1>1, <1>2
  <1> HIDE DEF t
  <1>5. DOMAIN t = 1 .. Len(rs) + 1
    BY <1>4
  <1>6. \A j \in 2 .. Len(rs) + 1 : j - 1 \in 1 .. Len(rs) /\ t[j] = rs[j - 1]
    <2> TAKE j \in 2 .. Len(rs) + 1
    <2>1. j - 1 \in 1 .. Len(rs) /\ (j - 1) + 1 = j
      BY <1>1
    <2>. QED BY <1>4, <2>1
  <1>7. \A j \in 2 .. Len(rs) + 1 : t[j] # r
    BY <1>1, <1>3, <1>6 DEF Range
  <1>8. \A j \in 1 .. Len(rs) + 1 : j = 1 \/ j \in 2 .. Len(rs) + 1
    BY <1>1
  <1>9. IsInjective(t)
    <2> SUFFICES ASSUME NEW j \in 1 .. Len(rs) + 1, NEW k \in 1 .. Len(rs) + 1, t[j] = t[k]
                 PROVE  j = k
      BY <1>5 DEF IsInjective
    <2>1. CASE j = 1 \/ k = 1
      BY <1>4, <1>7, <1>8, <2>1
    <2>2. CASE j \in 2 .. Len(rs) + 1 /\ k \in 2 .. Len(rs) + 1
      <3>1. rs[j - 1] = rs[k - 1] /\ j - 1 \in 1 .. Len(rs) /\ k - 1 \in 1 .. Len(rs)
        BY <1>6, <2>2
      <3>2. j - 1 = k - 1
        BY <1>1, <3>1 DEF IsInjective
      <3>. QED BY <1>1, <3>2
    <2>. QED BY <1>8, <2>1, <2>2
  <1>10. Range(t) = {r} \cup Range(rs)
    <2>1. Range(t) = {t[j] : j \in 1 .. Len(rs) + 1} /\ Range(rs) = {rs[j] : j \in 1 .. Len(rs)}
      BY <1>1, <1>5 DEF Range
    <2>2. ASSUME NEW j \in 1 .. Len(rs) PROVE rs[j] \in Range(t)
      <3>1. j + 1 \in 1 .. Len(rs) + 1 /\ t[j + 1] = rs[j]
        BY <1>1, <1>4
      <3>. QED BY <2>1, <3>1
    <2>3. ASSUME NEW j \in 1 .. Len(rs) + 1 PROVE t[j] \in {r} \cup Range(rs)
      <3>1. CASE j = 1
        BY <1>4, <3>1
      <3>2. CASE j # 1
        <4>1. j - 1 \in 1 .. Len(rs) /\ t[j] = rs[j - 1]
          BY <1>6, <1>8, <3>2
        <4>. QED BY <2>1, <4>1
      <3>. QED BY <3>1, <3>2
    <2>4. r \in Range(t)
      <3>1. 1 \in 1 .. Len(rs) + 1
        BY <1>1
      <3>. QED BY <1>4, <2>1, <3>1
    <2>. QED BY <2>1, <2>2, <2>3, <2>4, Zenon
  <1>11. Range(t) = {RangeOf(b[id], z[id]) : id \in H \cup {x}}
    BY <1>10 DEF Records, r
  <1>. QED BY <1>4, <1>9, <1>11 DEF Records, t, r

\* Only the pointers and sizes of the held indices matter.
LEMMA RecordsSame ==
    ASSUME NEW H, NEW b, NEW z, NEW c, NEW y, NEW rs, Records(rs, b, z, H),
           \A id \in H : b[id] = c[id] /\ z[id] = y[id]
    PROVE  Records(rs, c, y, H)
  BY DEF Records

\* The blocks of the indices held are allocated blocks of a well-formed heap.
LEMMA HeldBlock ==
    ASSUME NEW s, NEW H, Holds(s, H), NEW id \in H
    PROVE  /\ s.blocks[id] \in DOMAIN s.heap.size /\ s.blocks[id] \in Nat
           /\ s.blocks[id] % 8 = 0 /\ s.heap.size[s.blocks[id]] \in Nat
           /\ s.blocks[id] + s.heap.size[s.blocks[id]] <= s.heap.brk
  <1>1. s.blocks[id] \in s.heap.alloc /\ WellFormed(s.heap, {})
    BY DEF Holds
  <1>2. s.blocks[id] \in DOMAIN s.heap.size
    BY <1>1 DEF WellFormed, Listed
  <1>3. Tiled(s.heap)
    BY <1>1 DEF WellFormed
  <1>. QED BY <1>2, <1>3 DEF Tiled

\* Of two extents that lie apart, none has an end in the other.
LEMMA NoEndInside ==
    ASSUME NEW a \in Nat, NEW m \in Nat, NEW c \in Nat, NEW n \in Nat, m > 0, n > 0,
           a + m <= c \/ c + n <= a
    PROVE  ~EndInside(RangeOf(c, n), RangeOf(a, m))
  BY DEF EndInside, RangeOf, Within

\* add_range accepts a block apart from the others in a well-formed heap.
LEMMA RangeFits ==
    ASSUME NEW t, NEW H \in SUBSET Ids, Holds(t, H), NEW z \in [Ids -> Nat],
           \A id \in H : z[id] > 0 /\ z[id] + WSIZE <= t.heap.size[t.blocks[id]],
           NEW x \in H, NEW rs, Records(rs, t.blocks, z, H \ {x})
    PROVE  Acceptable(rs, RangeOf(t.blocks[x], z[x]), HeapExtent(t.heap))
  <1> DEFINE b == t.blocks
             sz == t.heap.size
             brk == t.heap.brk
  <1>1. /\ brk \in Nat /\ Tiled(t.heap)
        /\ \A a, c \in H : b[a] = b[c] => a = c
    BY DEF Holds, WellFormed
  <1>2. \A a, c \in DOMAIN sz : a < c => a + sz[a] <= c
    BY <1>1 DEF Tiled
  <1>3. \A id \in H : z[id] \in Nat
    OBVIOUS
  <1>4. ASSUME NEW id \in H
        PROVE  /\ b[id] \in DOMAIN sz /\ b[id] \in Nat /\ b[id] % 8 = 0
               /\ b[id] + sz[b[id]] <= brk /\ z[id] < sz[b[id]]
               /\ z[id] > 0 /\ sz[b[id]] \in Nat
    <2>1. /\ b[id] \in DOMAIN sz /\ b[id] \in Nat /\ b[id] % 8 = 0
          /\ b[id] + sz[b[id]] <= brk /\ sz[b[id]] \in Nat
      BY HeldBlock
    <2>2. z[id] > 0 /\ z[id] + 4 <= sz[b[id]]
      BY DEF WSIZE
    <2> HIDE DEF b, sz, brk
    <2>. QED BY <1>3, <2>1, <2>2
  <1> HIDE DEF b, sz, brk
  <1>5. ASSUME NEW id \in H \ {x}
        PROVE  ~EndInside(RangeOf(b[x], z[x]), RangeOf(b[id], z[id]))
    <2>1. PICK a \in Nat, c \in Nat, m \in Nat, n \in Nat :
             a = b[id] /\ c = b[x] /\ m = sz[b[id]] /\ n = sz[b[x]]
      BY <1>4
    <2>2. a # c
      BY <1>1, <2>1
    <2>3. (a < c => a + m <= c) /\ (c < a => c + n <= a)
      BY <1>2, <1>4, <2>1
    <2>4. /\ z[id] \in Nat /\ z[id] > 0 /\ z[id] < m
          /\ z[x] \in Nat /\ z[x] > 0 /\ z[x] < n
      BY <1>3, <1>4, <2>1
    <2>5. a + z[id] <= c \/ c + z[x] <= a
      BY <2>2, <2>3, <2>4
    <2>. QED BY <2>1, <2>4, <2>5, NoEndInside
  <1>6. \A p \in Range(rs) : ~EndInside(RangeOf(b[x], z[x]), p)
    BY <1>5 DEF Records, b
  <1>7. /\ RangeOf(b[x], z[x]).lo = b[x] /\ RangeOf(b[x], z[x]).hi = b[x] + z[x] - 1
        /\ Within(HeapExtent(t.heap)) = 0 .. brk - 1
    BY DEF RangeOf, Within, HeapExtent, brk
  <1>8. b[x] \in 0 .. brk - 1 /\ b[x] + z[x] - 1 \in 0 .. brk - 1 /\ b[x] % 8 = 0
    <2>1. PICK c \in Nat, n \in Nat, k \in Nat, m \in Nat :
             c = b[x] /\ n = sz[b[x]] /\ k = z[x] /\ m = brk
      BY <1>1, <1>3, <1>4
    <2>2. c % 8 = 0 /\ c + n <= m /\ k < n /\ k > 0
      BY <1>4, <2>1
    <2>3. c \in 0 .. m - 1 /\ c + k - 1 \in 0 .. m - 1
      BY <2>2
    <2>. QED BY <2>1, <2>2, <2>3
  <1>. QED BY <1>6, <1>7, <1>8 DEF Acceptable, ALIGNMENT, b

\* In the passes that record them, the sizes are those of the payloads, and
\* every payload has room in its block.
Roomy(s, z, H) ==
    \A id \in H : z[id] > 0 /\ z[id] + WSIZE <= s.heap.size[s.blocks[id]]

\* The sizes recorded for the indices held fit into their blocks, in the passes that
\* record sizes.
SizesInv ==
    /\ block_sizes \in [Ids -> Nat]
    /\ InPass /\ pc # "speed" => Roomy(Here, block_sizes, Held)

\* In eval_mm_valid the list has exactly one range for each index held, and no
\* range was ever refused.
RangesInv ==
    /\ InPass /\ pc = "valid" => Records(ranges, blocks, block_sizes, Held)
    /\ reason # "range"

\* A request that is served leaves room for the payloads.
LEMMA RoomServed ==
    ASSUME NEW s, NEW H \in SUBSET Ids, NEW z \in [Ids -> Nat], Roomy(s, z, H),
           NEW op, MayFollow(op, H), NEW t, Serves(s, op, H, t),
           NEW y, y = IF op.type = "f" THEN z ELSE [z EXCEPT ![op.index] = op.size]
    PROVE  y \in [Ids -> Nat] /\ Roomy(t, y, HeldNext(op, H))
  <1>1. op.index \in Ids /\ op.size \in Nat
    <2>1. op.index \in FileIndices /\ op.size \in FileSizes \cup {0}
      BY DEF MayFollow, Op
    <2>2. op.index \in Ids
      BY <2>1, ReplayAssumption
    <2>3. op.size \in Nat
      <3>1. FileSizes \subseteq Nat /\ 0 \in Nat
        BY TraceAssumption
      <3>. QED BY <2>1, <3>1, Zenon
    <2>. QED BY <2>2, <2>3
  <1>2. \A id \in H \ {op.index} :
           z[id] > 0 /\ z[id] + WSIZE <= t.heap.size[t.blocks[id]]
    BY Zenon DEF Serves, Roomy
  <1>3. CASE op.type = "f"
    BY <1>2, <1>3 DEF HeldNext, Roomy
  <1>4. CASE op.type # "f"
    <2>1. y \in [Ids -> Nat] /\ y[op.index] = op.size
          /\ \A id \in H \ {op.index} : y[id] = z[id]
      BY <1>1, <1>4
    <2>2. op.size > 0 /\ op.size + WSIZE <= t.heap.size[t.blocks[op.index]]
      <3>1. Holds(t, H \cup {op.index})
        BY <1>4, Zenon DEF Serves, HeldNext
      <3>2. PICK n \in Nat : n = t.heap.size[t.blocks[op.index]]
        <4>1. op.index \in H \cup {op.index}
          OBVIOUS
        <4>2. t.heap.size[t.blocks[op.index]] \in Nat
          BY <3>1, <4>1, HeldBlock, Zenon
        <4>. QED BY <4>2
      <3>3. op.size # 0 /\ n >= op.size + WSIZE
        BY <1>4, <3>2 DEF Serves
      <3>4. PICK k \in Nat : k = op.size
        BY <1>1
      <3>5. k > 0 /\ k + 4 <= n
        BY <3>3, <3>4 DEF WSIZE
      <3>. QED BY <3>2, <3>4, <3>5 DEF WSIZE
    <2>. QED BY <1>2, <1>4, <2>1, <2>2, Zenon DEF HeldNext, Roomy
  <1>. QED BY <1>3, <1>4

\* Every step keeps room for the payloads.
LEMMA SizesStep ==
    ASSUME PackageServes, ControlInv, HeapInv, SizesInv, [ReplayNext]_replayVars
    PROVE  SizesInv'
  <1>1. CASE Served
    <2>1. /\ Serves(Here, request, Held, Here') /\ Held' = HeldNext(request, Held)
          /\ MayFollow(request, Held) /\ Held \in SUBSET Ids /\ InPass /\ pc' = pc
      BY <1>1, RequestServes, AtRequest, Zenon DEF Served
    <2>2. CASE pc = "speed"
      BY <1>1, <2>1, <2>2 DEF SizesInv, Served
    <2>3. CASE pc # "speed"
      <3>1. block_sizes' = IF request.type = "f" THEN block_sizes
                           ELSE [block_sizes EXCEPT ![request.index] = request.size]
        BY <1>1, <2>3 DEF Served
      <3>2. block_sizes \in [Ids -> Nat] /\ Roomy(Here, block_sizes, Held)
        BY <2>1, <2>3 DEF SizesInv
      <3>3. block_sizes' \in [Ids -> Nat] /\ Roomy(Here', block_sizes', Held')
        BY <2>1, <3>1, <3>2, RoomServed, Zenon
      <3>. QED BY <3>3 DEF SizesInv, Roomy, Here
    <2>. QED BY <2>2, <2>3
  <1>2. CASE Began
    <2>1. Held' = {}
      <3>1. opnum' - 1 = 0
        BY <1>2 DEF Began
      <3>2. Held' = HeldBy(trace'.ops, opnum' - 1)
        BY DEF Held, HeldBy, LastNamed
      <3>. QED BY <3>1, <3>2, HeldNone
    <2>. QED BY <1>2, <2>1, Zenon DEF Began, record, SizesInv, Roomy
  <1>3. CASE Left \/ Begin \/ Read
    <2>1. ~InPass'
      BY <1>3, OutOfPass
    <2>2. UNCHANGED block_sizes \/ block_sizes' = Unwritten
      BY <1>3 DEF Left, Begin, Read, record
    <2>3. Unwritten \in [Ids -> Nat]
      BY DEF Unwritten
    <2>. QED BY <2>1, <2>2, <2>3 DEF SizesInv
  <1>4. CASE UNCHANGED replayVars
    <2>1. UNCHANGED <<heap, blocks, block_sizes, pc, opnum, trace>>
      BY <1>4 DEF replayVars, control, record
    <2>2. Held' = Held /\ InPass' = InPass
      BY <2>1 DEF Held, HeldBy, LastNamed, InPass
    <2>. QED BY <2>1, <2>2 DEF SizesInv, Roomy, Here
  <1>. QED BY <1>1, <1>2, <1>3, <1>4, StepKinds

\* The list after remove_range, before a new block is added.
LEMMA WithoutOldRecords ==
    ASSUME HeapInv, SizesInv, InPass, Records(ranges, blocks, block_sizes, Held),
           MayFollow(request, Held), Held \in SUBSET Ids
    PROVE  Records(WithoutOld, blocks, block_sizes, Held \ {request.index})
  <1>1. /\ blocks \in [Ids -> Nat] /\ block_sizes \in [Ids -> Nat]
        /\ \A a, c \in Held : blocks[a] = blocks[c] => a = c
    BY Zenon DEF HeapInv, SizesInv, Holds, Here
  <1>2. CASE request.type = "a"
    <2>1. Held \ {request.index} = Held /\ WithoutOld = ranges
      BY <1>2 DEF MayFollow, WithoutOld
    <2>. QED BY <2>1
  <1>3. CASE request.type # "a"
    <2>1. request.index \in Held /\ WithoutOld = remove_range(ranges, blocks[request.index])
      BY <1>3 DEF MayFollow, WithoutOld
    <2>. QED BY <1>1, <2>1, RemoveRecord, Zenon
  <1>. QED BY <1>2, <1>3

\* add_range accepts what mm_malloc and mm_realloc return.
LEMMA BlockAccepted ==
    ASSUME PackageServes, ControlInv, HeapInv, SizesInv, RangesInv, pc = "valid",
           opnum \in 1 .. trace.num_ops, request.type # "f",
           ~Failed(Call(heap, blocks, request))
    PROVE  LET r == Call(heap, blocks, request)
           IN  add_range(WithoutOld, r.bp, request.size, HeapExtent(r.heap)).ok
  <1> DEFINE r == Call(heap, blocks, request)
             t == After(Here, request)
             x == request.index
             z == [block_sizes EXCEPT ![x] = request.size]
             H == Held \cup {x}
  <1>1. InPass /\ MayFollow(request, Held)
    <2>1. InPass
      BY DEF InPass, Passes, ControlInv, TraceType
    <2>. QED BY <2>1, RequestLegal
  <1>2. Held \in SUBSET Ids /\ x \in Ids /\ H \in SUBSET Ids
    BY <1>1, ReplayAssumption, Zenon DEF Held, HeldBy, MayFollow, Op
  <1>3. Holds(Here, Held)
    BY <1>1 DEF HeapInv
  <1>4. Serves(Here, request, Held, t)
    <2>1. Call(Here.heap, Here.blocks, request).bp # NULL
      BY DEF Failed, Here
    <2>. QED BY <1>1, <1>2, <1>3, <2>1, CallServes
  <1>5. block_sizes \in [Ids -> Nat] /\ Roomy(Here, block_sizes, Held)
    BY <1>1 DEF SizesInv
  <1>6. z \in [Ids -> Nat] /\ Roomy(t, z, HeldNext(request, Held))
    BY <1>1, <1>2, <1>4, <1>5, RoomServed, Zenon
  <1>7. HeldNext(request, Held) = H /\ Holds(t, H)
    BY <1>4, Zenon DEF HeldNext, Serves
  <1>8. Records(WithoutOld, blocks, block_sizes, Held \ {x})
    BY <1>1, <1>2, WithoutOldRecords DEF RangesInv
  <1>9. t.heap = r.heap /\ t.blocks = [blocks EXCEPT ![x] = r.bp] /\ blocks \in [Ids -> Nat]
    BY Zenon DEF After, Here, HeapInv
  <1> HIDE DEF r, t
  <1>10. z[x] = request.size /\ t.blocks[x] = r.bp
    BY <1>2, <1>5, <1>9
  <1>11. \A id \in H \ {x} : blocks[id] = t.blocks[id] /\ block_sizes[id] = z[id]
    BY <1>2, <1>5, <1>9
  <1> HIDE DEF z, x
  <1>12. H \ {x} = Held \ {x} /\ x \in H
    OBVIOUS
  <1>13. Records(WithoutOld, blocks, block_sizes, H \ {x})
    BY <1>8, <1>12
  <1> HIDE DEF H
  <1>14. Records(WithoutOld, t.blocks, z, H \ {x})
    BY <1>11, <1>13, RecordsSame, Zenon
  <1>15. \A id \in H : z[id] > 0 /\ z[id] + WSIZE <= t.heap.size[t.blocks[id]]
    BY <1>6, <1>7 DEF Roomy
  <1>16. Acceptable(WithoutOld, RangeOf(t.blocks[x], z[x]), HeapExtent(t.heap))
    BY <1>2, <1>6, <1>7, <1>12, <1>14, <1>15, RangeFits, Zenon
  <1>17. Acceptable(WithoutOld, RangeOf(r.bp, request.size), HeapExtent(r.heap))
    BY <1>9, <1>10, <1>16
  <1>. QED BY <1>17 DEF add_range, r

\* eval_mm_valid refuses no range that mm.c's answer gives.
LEMMA RangeReason ==
    ASSUME PackageServes, ControlInv, HeapInv, SizesInv, RangesInv, [ReplayNext]_replayVars
    PROVE  reason' # "range"
  <1>1. reason # "range"
    BY DEF RangesInv
  <1>2. CASE ValidRequest
    <2> DEFINE r == Call(heap, blocks, request)
               added == add_range(WithoutOld, r.bp, request.size, HeapExtent(r.heap))
    <2>1. Judge(r, added)
      BY <1>2 DEF ValidRequest
    <2>2. ~Failed(r) /\ request.type # "f" => added.ok
      BY <1>2, BlockAccepted DEF ValidRequest
    <2> HIDE DEF r, added
    <2>. QED BY <1>1, <2>1, <2>2 DEF Judge, Invalid, Advance
  <1>3. CASE UtilRequest \/ SpeedRequest
    BY <1>1, <1>3 DEF UtilRequest, SpeedRequest, AppError, Advance
  <1>5. CASE Begin \/ Read \/ BeginPass \/ EndValid \/ EndUtil \/ EndSpeed \/ EndTimed
    BY <1>1, <1>5 DEF Begin, Read, BeginPass, EndValid, EndUtil, EndSpeed, EndTimed, outcome
  <1>6. CASE UNCHANGED replayVars
    BY <1>1, <1>6 DEF replayVars, outcome
  <1>. QED BY <1>2, <1>3, <1>5, <1>6 DEF ReplayNext

\* A request that is served leaves one range for each index held.
LEMMA RangesServed ==
    ASSUME PackageServes, ControlInv, HeapInv, SizesInv, RangesInv, Served, pc = "valid"
    PROVE  Records(ranges, blocks, block_sizes, Held)'
  <1> DEFINE x == request.index
  <1>1. /\ Serves(Here, request, Held, Here') /\ Held' = HeldNext(request, Held)
        /\ MayFollow(request, Held) /\ Held \in SUBSET Ids /\ InPass /\ x \in Ids
    BY RequestServes, AtRequest, Zenon DEF Served
  <1>2. Records(WithoutOld, blocks, block_sizes, Held \ {x})
    BY <1>1, WithoutOldRecords DEF RangesInv
  <1>3. /\ block_sizes \in [Ids -> Nat] /\ blocks \in [Ids -> Nat] /\ ranges' = NewRanges
        /\ block_sizes' = IF request.type = "f" THEN block_sizes
                          ELSE [block_sizes EXCEPT ![x] = request.size]
    BY Zenon DEF SizesInv, HeapInv, Served
  <1>4. CASE request.type = "f"
    <2>1. UNCHANGED <<blocks, block_sizes>> /\ ranges' = WithoutOld /\ Held' = Held \ {x}
      BY <1>1, <1>3, <1>4, Zenon DEF Served, After, Here, NewRanges, HeldNext
    <2>. QED BY <1>2, <2>1, Zenon DEF Records
  <1>5. CASE request.type # "f"
    <2> DEFINE bp == Call(heap, blocks, request).bp
               H == Held \ {x}
    <2>1. /\ blocks' = [blocks EXCEPT ![x] = bp]
          /\ block_sizes' = [block_sizes EXCEPT ![x] = request.size]
          /\ ranges' = <<RangeOf(bp, request.size)>> \o WithoutOld
          /\ Held' = H \cup {x}
      BY <1>1, <1>3, <1>5, Zenon DEF Served, After, Here, NewRanges, HeldNext
    <2> HIDE DEF bp
    <2>2. /\ Holds(Here', H \cup {x})
          /\ \A id \in Held : blocks[id] \in heap.alloc
          /\ blocks'[x] \notin heap.alloc
      <3>1. Holds(Here, Held)
        BY <1>1 DEF HeapInv
      <3>2. Holds(Here', Held')
        BY <1>1 DEF Serves
      <3>3. \A id \in Held : blocks[id] \in heap.alloc
        BY <3>1 DEF Holds, Here
      <3>4. blocks'[x] \notin heap.alloc
        BY <1>1, <1>5, Zenon DEF Serves, Here
      <3>. QED BY <2>1, <3>2, <3>3, <3>4, Zenon
    <2>3. blocks' \in [Ids -> Nat] /\ block_sizes' \in [Ids -> Nat]
      <3>1. blocks' \in [Ids -> Nat]
        BY <2>2 DEF Holds, Here
      <3>2. request.size \in Nat
        BY <1>1, <1>5, TraceAssumption, Zenon DEF MayFollow
      <3>. QED BY <1>3, <2>1, <3>1, <3>2
    <2>4. blocks'[x] = bp /\ block_sizes'[x] = request.size
      BY <1>1, <1>3, <2>1
    <2>5. \A id \in H : blocks[id] = blocks'[id] /\ block_sizes[id] = block_sizes'[id]
      BY <1>1, <1>3, <2>1
    <2>6. \A id \in H : blocks'[id] # blocks'[x]
      BY <2>2, <2>5
    <2>7. Records(WithoutOld, blocks', block_sizes', H)
      BY <1>2, <2>5, RecordsSame
    <2>8. x \in Ids \ H /\ H \in SUBSET Ids
      BY <1>1
    <2> HIDE DEF H
    <2>9. Records(<<RangeOf(blocks'[x], block_sizes'[x])>> \o WithoutOld, blocks',
                  block_sizes', H \cup {x})
      BY <2>3, <2>6, <2>7, <2>8, AddRecord
    <2>. QED BY <2>1, <2>4, <2>9 DEF Records
  <1>. QED BY <1>4, <1>5

\* Every step keeps the range list exact.
LEMMA RangesStep ==
    ASSUME PackageServes, ControlInv, HeapInv, SizesInv, RangesInv, [ReplayNext]_replayVars
    PROVE  RangesInv'
  <1>0. reason' # "range"
    BY RangeReason
  <1>1. CASE Served
    <2>1. pc' = pc
      BY <1>1 DEF Served
    <2>. QED BY <1>0, <1>1, <2>1, RangesServed DEF RangesInv
  <1>2. CASE Began
    <2>1. Held' = {}
      <3>1. opnum' - 1 = 0
        BY <1>2 DEF Began
      <3>2. Held' = HeldBy(trace'.ops, opnum' - 1)
        BY DEF Held, HeldBy, LastNamed
      <3>. QED BY <3>1, <3>2, HeldNone
    <2>2. pc' = "valid" => ranges' = <<>>
      BY <1>2 DEF Began
    <2>3. ASSUME ranges' = <<>> PROVE Records(ranges, blocks, block_sizes, Held)'
      <3>1. <<>> \in Seq(Extents) /\ DOMAIN <<>> = {}
        OBVIOUS
      <3>. QED BY <2>1, <2>3, <3>1 DEF Records, IsInjective, Range
    <2>. QED BY <1>0, <2>2, <2>3 DEF RangesInv
  <1>3. CASE Left \/ Begin \/ Read
    BY <1>0, <1>3, OutOfPass DEF RangesInv
  <1>4. CASE UNCHANGED replayVars
    <2>1. UNCHANGED <<ranges, blocks, block_sizes, pc, opnum, trace>>
      BY <1>4 DEF replayVars, control, record
    <2>2. Held' = Held /\ InPass' = InPass
      BY <2>1 DEF Held, HeldBy, LastNamed, InPass
    <2>. QED BY <1>0, <2>1, <2>2 DEF RangesInv, Records
  <1>. QED BY <1>1, <1>2, <1>3, <1>4, StepKinds

(***************************************************************************)
(* The totals of eval_mm_util                                              *)
(***************************************************************************)
\* The sizes that the trace holds after k requests, and their sum.
SizeAt(ops, k) ==
    [id \in HeldBy(ops, k) |-> ops[Max({n \in 1 .. k : ops[n].index = id})].size]

\* The bytes that the first k requests hold.
Bytes(ops, k) == SumOver(SizeAt(ops, k), HeldBy(ops, k))

\* HeldBytes is that sum.
LEMMA HeldBytesIs ==
    ASSUME NEW k \in 0 .. Len(trace.ops), trace.ops \in Seq(Op)
    PROVE  HeldBytes(k) = Bytes(trace.ops, k)
  <1> DEFINE s == SubSeq(trace.ops, 1, k)
             size == [id \in HeldAfter(s) |-> s[Max({n \in 1 .. k : s[n].index = id})].size]
  <1>1. \A j \in 1 .. k : s[j] = trace.ops[j]
    OBVIOUS
  <1>2. HeldAfter(s) = HeldBy(trace.ops, k)
    BY PrefixIs
  <1>3. HeldBytes(k) = SumOver(size, HeldAfter(s))
    BY DEF HeldBytes, SumOver
  <1> HIDE DEF s
  <1>4. ASSUME NEW id \in HeldBy(trace.ops, k)
        PROVE  s[Max({n \in 1 .. k : s[n].index = id})].size =
               trace.ops[Max({n \in 1 .. k : trace.ops[n].index = id})].size
    <2>1. {n \in 1 .. k : s[n].index = id} = {n \in 1 .. k : trace.ops[n].index = id}
      BY <1>1
    <2>2. PICK m \in 1 .. k : LastNamed(trace.ops, k, id, m)
      BY DEF HeldBy
    <2>3. Max({n \in 1 .. k : trace.ops[n].index = id}) \in 1 .. k
      <3>1. m \in {n \in 1 .. k : trace.ops[n].index = id}
            /\ \A n \in {n \in 1 .. k : trace.ops[n].index = id} : m >= n
        BY <2>2 DEF LastNamed
      <3>. QED BY <3>1 DEF Max
    <2>. QED BY <1>1, <2>1, <2>3, Zenon
  <1>5. size = SizeAt(trace.ops, k)
    BY <1>2, <1>4, Zenon DEF SizeAt
  <1>. QED BY <1>2, <1>3, <1>5 DEF Bytes

\* The last request that names an index.
LEMMA LastIs ==
    ASSUME NEW ops, NEW k \in Nat, NEW id, NEW m \in 1 .. k, LastNamed(ops, k, id, m)
    PROVE  Max({n \in 1 .. k : ops[n].index = id}) = m
  <1> DEFINE S == {n \in 1 .. k : ops[n].index = id}
  <1>1. m \in S /\ \A n \in S : m >= n
    BY DEF LastNamed
  <1>2. S \subseteq Int
    OBVIOUS
  <1> HIDE DEF S
  <1>3. \A x \in S : (\A y \in S : x >= y) => x = m
    BY <1>1, <1>2
  <1>4. Max(S) \in S /\ \A y \in S : Max(S) >= y
    BY <1>1, Zenon DEF Max
  <1>. QED BY <1>3, <1>4 DEF S

\* One more request changes the size at its own index only.
LEMMA SizeStep ==
    ASSUME NEW ops \in Seq(Op), NEW k \in 1 .. Len(ops)
    PROVE  /\ \A id \in HeldBy(ops, k) \ {ops[k].index} :
                 id \in HeldBy(ops, k - 1) /\ SizeAt(ops, k)[id] = SizeAt(ops, k - 1)[id]
           /\ ops[k].index \in HeldBy(ops, k) =>
                 SizeAt(ops, k)[ops[k].index] = ops[k].size
  <1>1. k \in Nat /\ k - 1 \in Nat /\ k >= 1
    OBVIOUS
  <1>2. ASSUME NEW id \in HeldBy(ops, k), id # ops[k].index
        PROVE  id \in HeldBy(ops, k - 1) /\ SizeAt(ops, k)[id] = SizeAt(ops, k - 1)[id]
    <2>1. PICK m \in 1 .. k : ops[m].type # "f" /\ LastNamed(ops, k, id, m)
      BY DEF HeldBy
    <2>2. m \in 1 .. k - 1 /\ LastNamed(ops, k - 1, id, m)
      BY <1>1, <1>2, <2>1 DEF LastNamed
    <2>3. id \in HeldBy(ops, k - 1)
      BY <2>1, <2>2 DEF HeldBy
    <2>4. SizeAt(ops, k)[id] = ops[m].size
      BY <1>1, <2>1, LastIs DEF SizeAt
    <2>5. SizeAt(ops, k - 1)[id] = ops[m].size
      BY <1>1, <2>2, <2>3, LastIs DEF SizeAt
    <2>. QED BY <2>3, <2>4, <2>5
  <1>3. ASSUME NEW id \in HeldBy(ops, k), id = ops[k].index
        PROVE  SizeAt(ops, k)[id] = ops[k].size
    <2>1. k \in 1 .. k /\ LastNamed(ops, k, id, k)
      BY <1>1, <1>3 DEF LastNamed
    <2>2. Max({n \in 1 .. k : ops[n].index = id}) = k
      BY <1>1, <2>1, LastIs
    <2>. QED BY <2>2 DEF SizeAt
  <1>. QED BY <1>2, <1>3

\* A trace holds finitely many indices.
LEMMA HeldFinite ==
    ASSUME NEW ops, NEW k \in Nat
    PROVE  IsFiniteSet(HeldBy(ops, k))
  <1> DEFINE f == [m \in 1 .. k |-> ops[m].index]
             T == {f[m] : m \in 1 .. k}
  <1>1. IsFiniteSet(1 .. k)
    BY FS_Interval
  <1>2. IsFiniteSet(T)
    <2>1. f \in Surjection(1 .. k, T)
      BY DEF Surjection
    <2> HIDE DEF f, T
    <2>. QED BY <1>1, <2>1, FS_Surjection
  <1>3. HeldBy(ops, k) \subseteq T
    BY DEF HeldBy, LastNamed
  <1>. QED BY <1>2, <1>3, FS_Subset

\* mx is the most bytes that the trace holds after any of the first k requests.
IsPeak(mx, ops, k) ==
    /\ \E j \in 0 .. k : mx = Bytes(ops, j)
    /\ \A j \in 0 .. k : Bytes(ops, j) \in Nat /\ Bytes(ops, j) <= mx

\* The totals sz and mx after k requests, on a heap that ends at brk.
Totals(sz, mx, z, ops, k, brk) ==
    /\ Agree(z, SizeAt(ops, k), HeldBy(ops, k))
    /\ sz = SumOver(z, HeldBy(ops, k))
    /\ IsPeak(mx, ops, k)
    /\ mx <= brk

\* In eval_mm_util the total is the bytes held and the high water mark their peak.
TotalsInv ==
    InPass /\ pc = "util" =>
        Totals(total_size, max_total_size, block_sizes, trace.ops, opnum - 1, heap.brk)

\* The invariant after a step.
LEMMA TotalsPrimed ==
    TotalsInv' <=>
        (InPass' /\ pc' = "util" =>
            Totals(total_size', max_total_size', block_sizes', trace'.ops, opnum' - 1,
                   heap'.brk))
  BY DEF TotalsInv, Totals, IsPeak, Bytes, Agree, SizeAt, SumOver, HeldBy, LastNamed,
         MapThenSumSet, MapThenFoldSet

\* The payloads lie apart in the heap, so that it has room for all of them.
LEMMA TotalFits ==
    ASSUME NEW s, NEW H \in SUBSET Ids, IsFiniteSet(H), Holds(s, H),
           NEW z \in [Ids -> Nat], Roomy(s, z, H)
    PROVE  SumOver(z, H) <= s.heap.brk
  <1> DEFINE b == s.blocks
             sz == s.heap.size
             brk == s.heap.brk
  <1>1. /\ b \in [Ids -> Nat] /\ brk \in Nat
        /\ \A id \in H : b[id] \in DOMAIN sz
        /\ sz \in [DOMAIN sz -> Nat]
        /\ \A a \in DOMAIN sz : a + sz[a] <= brk
        /\ \A a, c \in DOMAIN sz : a < c => a + sz[a] <= c
        /\ \A a, c \in H : b[a] = b[c] => a = c
    BY Zenon DEF Holds, WellFormed, Tiled, Listed
  <1>2. \A id \in H : z[id] + WSIZE <= sz[b[id]]
    BY DEF Roomy
  <1> HIDE DEF b, sz, brk
  <1>3. \A id \in H : z[id] \in Nat /\ b[id] \in Nat /\ sz[b[id]] \in Nat
                      /\ z[id] <= sz[b[id]]
    BY <1>1, <1>2 DEF WSIZE
  <1>4. \A id \in H : b[id] + z[id] <= brk
    BY <1>1, <1>3
  <1>5. \A a, c \in H : b[a] < b[c] => b[a] + z[a] <= b[c]
    BY <1>1, <1>3
  <1>6. Apart(H, b, z, brk)
    BY <1>1, <1>3, <1>4, <1>5 DEF Apart
  <1>7. SumOver(z, H) <= brk
    BY <1>1, <1>6, ApartFit
  <1>. QED BY <1>7 DEF brk

\* The bytes held after k requests, from the sizes that the driver remembers.
LEMMA BytesAre ==
    ASSUME NEW ops, NEW k \in Nat, NEW z \in [Ids -> Nat], HeldBy(ops, k) \subseteq Ids,
           Agree(z, SizeAt(ops, k), HeldBy(ops, k))
    PROVE  Bytes(ops, k) = SumOver(z, HeldBy(ops, k)) /\ Bytes(ops, k) \in Nat
  <1> DEFINE H == HeldBy(ops, k)
             u == SizeAt(ops, k)
  <1>1. IsFiniteSet(H)
    BY HeldFinite
  <1>2. SumOver(z, H) = SumOver(u, H)
    <2> HIDE DEF u, H
    <2>1. Agree(z, u, H)
      BY DEF u, H
    <2>. QED BY <1>1, <2>1, SumSame
  <1>3. SumOver(z, H) \in Nat
    <2>1. \A x \in H : z[x] \in Nat
      OBVIOUS
    <2> HIDE DEF H
    <2>. QED BY <1>1, <2>1, SumNat
  <1>. QED BY <1>2, <1>3 DEF Bytes

\* The peak after one more request.
LEMMA PeakGrow ==
    ASSUME NEW ops, NEW k \in Nat, k >= 1, NEW mx, IsPeak(mx, ops, k - 1),
           Bytes(ops, k) \in Nat, NEW m \in {Bytes(ops, k), mx}, Bytes(ops, k) <= m, mx <= m
    PROVE  IsPeak(m, ops, k)
  <1>1. PICK j \in 0 .. k - 1 : mx = Bytes(ops, j)
    BY DEF IsPeak
  <1>2. mx \in Nat /\ \A l \in 0 .. k - 1 : Bytes(ops, l) \in Nat /\ Bytes(ops, l) <= mx
    BY <1>1 DEF IsPeak
  <1>3. j \in 0 .. k /\ k \in 0 .. k /\ m \in Nat
    BY <1>2
  <1>4. \E l \in 0 .. k : m = Bytes(ops, l)
    BY <1>1, <1>3
  <1>5. ASSUME NEW l \in 0 .. k PROVE Bytes(ops, l) \in Nat /\ Bytes(ops, l) <= m
    <2>1. CASE l = k
      BY <2>1
    <2>2. CASE l # k
      <3>1. l \in 0 .. k - 1
        BY <2>2
      <3>2. Bytes(ops, l) \in Nat /\ Bytes(ops, l) <= mx
        BY <1>2, <3>1
      <3>. QED BY <1>2, <1>3, <3>2
    <2>. QED BY <2>1, <2>2
  <1>. QED BY <1>4, <1>5 DEF IsPeak

\* The total and the high water mark after a request op.
Total(op, sz, z) ==
    sz + (CASE op.type = "a" -> op.size
            [] op.type = "r" -> op.size - z[op.index]
            [] op.type = "f" -> -z[op.index])
Mark(op, sz, mx) == IF op.type = "f" THEN mx ELSE Max({sz, mx})
Sizes(op, z) == IF op.type = "f" THEN z ELSE [z EXCEPT ![op.index] = op.size]

\* The total stays the sum of the sizes.
LEMMA TotalIs ==
    ASSUME NEW op, NEW H, IsFiniteSet(H), MayFollow(op, H), NEW z, NEW y,
           \A id \in H : z[id] \in Nat, Agree(y, z, H \ {op.index}),
           op.type # "f" => y[op.index] = op.size
    PROVE  Total(op, SumOver(z, H), z) = SumOver(y, HeldNext(op, H))
  <1>1. op.type \in {"a", "r", "f"} /\ op.size \in FileSizes \cup {0}
    BY DEF MayFollow, Op
  <1>2. op.size \in Nat
    <2>1. FileSizes \subseteq Nat /\ 0 \in Nat
      BY TraceAssumption
    <2>. QED BY <1>1, <2>1, Zenon
  <1>3. op.type = "a" <=> op.index \notin H
    BY DEF MayFollow
  <1>4. SumOver(z, H) \in Nat /\ Numbers(z, H)
    BY SumNat DEF Numbers
  <1>5. CASE op.type # "f"
    <2>1. y[op.index] = op.size /\ y[op.index] \in Int
      BY <1>2, <1>5
    <2>2. SumOver(y, H \cup {op.index}) =
             SumOver(z, H) + y[op.index] - (IF op.index \in H THEN z[op.index] ELSE 0)
      <3>1. PICK x : x = op.index
        OBVIOUS
      <3>2. y[x] \in Int /\ Agree(y, z, H \ {x})
        BY <2>1, <3>1
      <3>3. SumOver(y, H \cup {x}) = SumOver(z, H) + y[x] - (IF x \in H THEN z[x] ELSE 0)
        BY <1>4, <3>2, SumPut
      <3>. QED BY <3>1, <3>3
    <2>3. HeldNext(op, H) = H \cup {op.index}
      BY <1>5 DEF HeldNext
    <2>4. CASE op.type = "a"
      BY <1>2, <1>3, <1>4, <2>1, <2>2, <2>3, <2>4 DEF Total
    <2>5. CASE op.type = "r"
      <3>1. op.index \in H /\ z[op.index] \in Nat
        BY <1>3, <2>5
      <3>. QED BY <1>2, <1>4, <2>1, <2>2, <2>3, <2>5, <3>1 DEF Total
    <2>. QED BY <1>1, <1>5, <2>4, <2>5
  <1>6. CASE op.type = "f"
    <2>1. op.index \in H /\ z[op.index] \in Nat
      BY <1>3, <1>6
    <2>2. /\ SumOver(z, H \ {op.index}) \in Int
          /\ SumOver(z, H) = z[op.index] + SumOver(z, H \ {op.index})
      BY <1>4, <2>1, SumTake
    <2>3. SumOver(y, H \ {op.index}) = SumOver(z, H \ {op.index})
      <3>1. IsFiniteSet(H \ {op.index})
        BY FS_Subset
      <3>. QED BY <3>1, SumSame
    <2>4. HeldNext(op, H) = H \ {op.index} /\ Total(op, SumOver(z, H), z) =
                                                 SumOver(z, H) + (-z[op.index])
      BY <1>6 DEF HeldNext, Total
    <2>. QED BY <1>4, <2>1, <2>2, <2>3, <2>4
  <1>. QED BY <1>5, <1>6

\* The driver's sizes stay those of the trace.
LEMMA SizesAgree ==
    ASSUME NEW ops \in Seq(Op), NEW k \in 1 .. Len(ops), NEW z \in [Ids -> Nat],
           Agree(z, SizeAt(ops, k - 1), HeldBy(ops, k - 1)), ops[k].index \in Ids,
           HeldBy(ops, k) \subseteq Ids
    PROVE  Agree(Sizes(ops[k], z), SizeAt(ops, k), HeldBy(ops, k))
  <1> DEFINE op == ops[k]
             x == op.index
             G == HeldBy(ops, k)
             H == HeldBy(ops, k - 1)
             y == Sizes(op, z)
  <1>1. /\ \A id \in G \ {x} : id \in H /\ SizeAt(ops, k)[id] = SizeAt(ops, k - 1)[id]
        /\ x \in G => SizeAt(ops, k)[x] = op.size
    BY SizeStep
  <1>2. \A id \in G \ {x} : y[id] = z[id]
    BY DEF Sizes
  <1>3. x \in G => y[x] = op.size
    <2>1. op.type = "f" => x \notin G
      BY HeldStep
    <2>. QED BY <2>1 DEF Sizes
  <1>4. Agree(z, SizeAt(ops, k - 1), H)
    OBVIOUS
  <1> HIDE DEF op, x, G, H, y
  <1>5. \A id \in G : y[id] = SizeAt(ops, k)[id]
    BY <1>1, <1>2, <1>3, <1>4 DEF Agree
  <1>. QED BY <1>5 DEF Agree, y, G, op

\* A request of eval_mm_util.
LEMMA TotalsGrow ==
    ASSUME NEW ops \in Seq(Op), NEW k \in 1 .. Len(ops), NEW z \in [Ids -> Nat],
           NEW sz, NEW mx, NEW brk \in Nat, Totals(sz, mx, z, ops, k - 1, brk),
           MayFollow(ops[k], HeldBy(ops, k - 1)), Sizes(ops[k], z) \in [Ids -> Nat],
           NEW c \in Nat, brk <= c, SumOver(Sizes(ops[k], z), HeldBy(ops, k)) <= c
    PROVE  Totals(Total(ops[k], sz, z), Mark(ops[k], Total(ops[k], sz, z), mx),
                  Sizes(ops[k], z), ops, k, c)
  <1> DEFINE op == ops[k]
             H == HeldBy(ops, k - 1)
             G == HeldBy(ops, k)
             y == Sizes(op, z)
             s == Total(op, sz, z)
             m == Mark(op, s, mx)
  <1>1. k \in Nat /\ k - 1 \in Nat /\ k >= 1 /\ op \in Op
    OBVIOUS
  <1>2. op.index \in FileIndices /\ op.type \in {"a", "r", "f"}
    <2> HIDE DEF op
    <2>. QED BY <1>1 DEF Op
  <1>3. H \subseteq Ids /\ G \subseteq Ids /\ op.index \in Ids
    BY <1>2, ReplayAssumption DEF HeldBy
  <1>4. G = HeldNext(op, H) /\ IsFiniteSet(H)
    BY <1>1, HeldStep, HeldFinite DEF HeldNext
  <1>5. /\ Agree(z, SizeAt(ops, k - 1), H) /\ sz = SumOver(z, H) /\ IsPeak(mx, ops, k - 1)
        /\ mx <= brk
    BY DEF Totals
  <1>6. Agree(y, SizeAt(ops, k), G)
    BY <1>3, <1>5, SizesAgree
  <1>7. s = SumOver(y, G)
    <2>1. MayFollow(op, H) /\ \A id \in H : z[id] \in Nat
      BY <1>3, Zenon
    <2>2. Agree(y, z, H \ {op.index}) /\ (op.type # "f" => y[op.index] = op.size)
      BY <1>3 DEF Agree, Sizes
    <2>3. Total(op, SumOver(z, H), z) = SumOver(y, HeldNext(op, H))
      <3> HIDE DEF op, H, y
      <3>. QED BY <1>4, <2>1, <2>2, TotalIs
    <2> HIDE DEF op, H, y
    <2>. QED BY <1>4, <1>5, <2>3 DEF s
  <1>8. Bytes(ops, k) = SumOver(y, G) /\ Bytes(ops, k) \in Nat
    <2>1. y \in [Ids -> Nat]
      OBVIOUS
    <2> HIDE DEF op, H, y
    <2>. QED BY <1>1, <1>3, <1>6, <2>1, BytesAre, Zenon
  <1>9. sz = Bytes(ops, k - 1) /\ sz \in Nat
    <2> HIDE DEF op, y, s, m
    <2>. QED BY <1>1, <1>3, <1>5, BytesAre
  <1>10. mx \in Nat /\ sz <= mx
    <2>1. k - 1 \in 0 .. k - 1
      BY <1>1
    <2>. QED BY <1>5, <1>9, <2>1 DEF IsPeak
  <1>11. s <= c
    <2> HIDE DEF s
    <2>. QED BY <1>7
  <1>12. z[op.index] \in Nat
    <2> HIDE DEF op
    <2>. QED BY <1>3
  <1>13. m \in {s, mx} /\ s <= m /\ mx <= m
    <2>1. s \in Nat
      BY <1>7, <1>8
    <2>2. CASE op.type = "f"
      <3>1. s = sz + (-z[op.index]) /\ m = mx
        BY <2>2 DEF Total, Mark
      <3> HIDE DEF s, m, op
      <3>2. s <= sz
        BY <1>9, <1>12, <3>1
      <3>. QED BY <1>9, <1>10, <2>1, <3>1, <3>2
    <2>3. CASE op.type # "f"
      <3>1. m = Max({s, mx})
        BY <2>3 DEF Mark
      <3> HIDE DEF s, m, op
      <3>. QED BY <1>10, <2>1, <3>1, LargerOfTwo
    <2>. QED BY <2>2, <2>3
  <1> HIDE DEF op, H, G, y, s, m
  <1>14. IsPeak(m, ops, k)
    BY <1>1, <1>5, <1>7, <1>8, <1>13, PeakGrow
  <1>15. m <= c
    BY <1>5, <1>10, <1>11, <1>13
  <1>16. Totals(s, m, y, ops, k, c)
    BY <1>6, <1>7, <1>14, <1>15 DEF Totals, G
  <1>. QED BY <1>16 DEF s, m, y, op

\* A served request of eval_mm_util.
LEMMA TotalsServed ==
    ASSUME PackageServes, ControlInv, HeapInv, SizesInv, SizesInv', HeapInv', TotalsInv, Served, pc = "util"
    PROVE  Totals(total_size', max_total_size', block_sizes', trace'.ops, opnum' - 1,
                  heap'.brk)
  <1> DEFINE ops == trace.ops
             k == opnum
  <1>1. /\ MayFollow(request, Held) /\ k \in 1 .. Len(ops) /\ Held \subseteq Ids
        /\ Held' = HeldNext(request, Held)
        /\ Serves(Here, request, Held, Here')
    BY AtRequest, RequestServes
  <1>2. InPass /\ pc' = pc /\ trace' = trace /\ opnum' = k + 1 /\ k \in Nat
        /\ ops \in Seq(Op)
    BY DEF Served, ControlInv, Control, TraceType
  <1>3. InPass' /\ opnum' - 1 = k
    BY <1>2 DEF InPass
  <1>4. Totals(total_size, max_total_size, block_sizes, ops, k - 1, heap.brk)
    BY <1>2 DEF TotalsInv
  <1>5. block_sizes \in [Ids -> Nat] /\ block_sizes' \in [Ids -> Nat]
    BY DEF SizesInv
  <1>6. block_sizes' = Sizes(request, block_sizes)
    BY DEF Served, Sizes
  <1>7. heap.brk \in Nat /\ heap'.brk \in Nat /\ heap.brk <= heap'.brk
    <2>1. Holds(Here, Held)
      BY <1>2 DEF HeapInv
    <2>. QED BY <1>1, <2>1 DEF Serves, Holds, Here
  <1>8. HeldBy(ops, k) = Held'
    <2>1. HeldBy(ops, k) = HeldNext(request, Held)
      BY <1>1, <1>2, HeldStep DEF HeldNext, Held, request
    <2>. QED BY <1>1, <2>1
  <1>9. SumOver(block_sizes', HeldBy(ops, k)) <= heap'.brk
    <2>1. Holds(Here', Held')
      BY <1>1 DEF Serves
    <2>2. Roomy(Here', block_sizes', Held')
      <3>1. Roomy(Here, block_sizes, Held)'
        BY <1>2, <1>3 DEF SizesInv
      <3>. QED BY <3>1 DEF Roomy, Here
    <2>3. IsFiniteSet(Held') /\ Held' \in SUBSET Ids
      <3>1. IsFiniteSet(HeldBy(ops, k))
        BY <1>2, HeldFinite
      <3>2. HeldBy(ops, k) \subseteq Ids
        BY ReplayAssumption DEF HeldBy
      <3>. QED BY <1>8, <3>1, <3>2
    <2>4. SumOver(block_sizes', Held') <= Here'.heap.brk
      BY <1>5, <2>1, <2>2, <2>3, TotalFits
    <2>. QED BY <1>8, <2>4 DEF Here
  <1>10. MayFollow(ops[k], HeldBy(ops, k - 1)) /\ request = ops[k]
    BY <1>1 DEF Held, request
  <1> DEFINE s == Total(ops[k], total_size, block_sizes)
             m == Mark(ops[k], s, max_total_size)
  <1>11. Totals(s, m, Sizes(ops[k], block_sizes), ops, k, heap'.brk)
    BY <1>1, <1>2, <1>4, <1>5, <1>6, <1>7, <1>9, <1>10, TotalsGrow, Zenon
  <1>12. total_size' = s /\ max_total_size' = m
    BY <1>10, Zenon DEF Served, NewTotals, Growth, Total, Mark
  <1>. QED BY <1>2, <1>3, <1>6, <1>10, <1>11, <1>12

\* The totals of a pass that has just begun.
LEMMA TotalsBegin ==
    ASSUME NEW ops, NEW z, NEW brk \in Nat
    PROVE  Totals(0, 0, z, ops, 0, brk)
  <1>1. HeldBy(ops, 0) = {}
    BY HeldNone
  <1>2. SumOver(z, {}) = 0 /\ Bytes(ops, 0) = 0
    BY <1>1, SumEmpty DEF Bytes
  <1>3. 0 \in 0 .. 0 /\ \A j \in 0 .. 0 : Bytes(ops, j) = 0
    BY <1>2
  <1>4. IsPeak(0, ops, 0)
    BY <1>3 DEF IsPeak
  <1>. QED BY <1>1, <1>2, <1>4 DEF Totals, Agree

\* Every step keeps eval_mm_util's totals.
LEMMA TotalsStep ==
    ASSUME PackageServes, ControlInv, HeapInv, SizesInv, SizesInv', HeapInv', TotalsInv,
           [ReplayNext]_replayVars
    PROVE  TotalsInv'
  <1>1. CASE Served
    <2>1. pc' = pc
      BY <1>1 DEF Served
    <2>. QED BY <1>1, <2>1, TotalsServed, TotalsPrimed
  <1>2. CASE Began
    <2>1. pc' = pc /\ opnum' - 1 = 0 /\ heap' = mm_init
      BY <1>2 DEF Began
    <2>2. pc = "util" => total_size' = 0 /\ max_total_size' = 0
      BY <1>2 DEF Began
    <2>3. heap'.brk \in Nat
      <3>1. Unwritten \in [Ids -> Nat]
        BY DEF Unwritten
      <3>2. Holds([heap |-> mm_init, blocks |-> Unwritten], {})
        BY <3>1, NewHeapHolds
      <3>. QED BY <2>1, <3>2 DEF Holds
    <2>. QED BY <2>1, <2>2, <2>3, TotalsBegin, TotalsPrimed
  <1>3. CASE Left \/ Begin \/ Read
    BY <1>3, OutOfPass DEF TotalsInv
  <1>4. CASE UNCHANGED replayVars
    <2>1. UNCHANGED <<total_size, max_total_size, heap, block_sizes, pc, opnum, trace>>
      BY <1>4 DEF replayVars, control, record, totals
    <2>2. InPass' = InPass
      BY <2>1 DEF InPass
    <2>. QED BY <2>1, <2>2, TotalsPrimed DEF TotalsInv
  <1>. QED BY <1>1, <1>2, <1>3, <1>4, StepKinds

\* The high water mark is the largest of the totals.
LEMMA PeakIs ==
    ASSUME ControlInv, TotalsInv
    PROVE  HighWaterIsPeak
  <1> SUFFICES ASSUME pc = "util", InPass
               PROVE  max_total_size = Max({HeldBytes(k) : k \in 0 .. opnum - 1})
    BY DEF HighWaterIsPeak
  <1> DEFINE n == opnum - 1
             S == {HeldBytes(k) : k \in 0 .. n}
             mx == max_total_size
  <1>1. IsPeak(mx, trace.ops, n)
    BY DEF TotalsInv, Totals
  <1>2. trace.ops \in Seq(Op) /\ n \in Nat /\ n <= Len(trace.ops)
    BY DEF ControlInv, TraceType, Control, InPass
  <1> HIDE DEF n
  <1>3. \A k \in 0 .. n : HeldBytes(k) = Bytes(trace.ops, k)
    <2> TAKE k \in 0 .. n
    <2>1. k \in 0 .. Len(trace.ops)
      BY <1>2
    <2>. QED BY <1>2, <2>1, HeldBytesIs
  <1>4. mx \in S /\ \A x \in S : x \in Nat /\ mx >= x
    BY <1>1, <1>3 DEF IsPeak
  <1> HIDE DEF S, mx
  <1>5. \A x \in S : (\A y \in S : x >= y) => x = mx
    BY <1>4
  <1>6. Max(S) \in S /\ \A y \in S : Max(S) >= y
    BY <1>4 DEF Max
  <1>. QED BY <1>5, <1>6 DEF S, mx, n

(***************************************************************************)
(* main's loop over the traces                                             *)
(***************************************************************************)
Stats == [valid : BOOLEAN, ops : Nat, util : Int, secs : Int, timed : BOOLEAN]

\* The stats are well typed, and no trace is marked valid before its first pass has
\* ended.
StatsInv ==
    /\ mm_stats \in [1 .. MAX_TRACES -> Stats]
    /\ pc = "begin" => i = 1
    /\ \A t \in 1 .. MAX_TRACES : t > i => mm_stats[t].valid = FALSE
    /\ pc \in Reading \cup {"valid"} => mm_stats[i].valid = FALSE

\* calloc has cleared the stats.
LEMMA StatsStart == ReplayInit => StatsInv
  <1> SUFFICES ASSUME ReplayInit PROVE StatsInv
    OBVIOUS
  <1>1. /\ i = 1 /\ mm_stats = [t \in 1 .. MAX_TRACES |->
                 [valid |-> FALSE, ops |-> 0, util |-> 0, secs |-> 0, timed |-> FALSE]]
    BY DEF ReplayInit
  <1>2. 1 \in 1 .. MAX_TRACES
    BY ReplayAssumption
  <1>. QED BY <1>1, <1>2 DEF StatsInv, Stats

\* The utilization is a percentage: the high water mark is at most the heap.
LEMMA UtilPercent ==
    ASSUME ControlInv, TotalsInv, HeapInv, EndUtil
    PROVE  \E u \in 0 .. 100 : mm_stats' = [mm_stats EXCEPT ![i].util = u]
  <1> DEFINE mx == max_total_size
             u == (100 * mx) \div heap.brk
  <1>1. InPass /\ pc = "util" /\ mm_stats' = [mm_stats EXCEPT ![i].util = u]
    BY DEF EndUtil, EndOfTrace, mem_heapsize
  <1>2. Totals(total_size, mx, block_sizes, trace.ops, opnum - 1, heap.brk) /\ Holds(Here, Held)
    BY <1>1 DEF TotalsInv, HeapInv
  <1>3. mx \in Nat /\ mx <= heap.brk
    BY <1>2 DEF Totals, IsPeak
  <1>4. heap.brk \in Nat /\ heap.brk > 0
    <2>1. WellFormed(heap, {}) /\ heap.brk \in Nat
      BY <1>2, Zenon DEF Holds, Here
    <2>2. FIRST \in DOMAIN heap.size /\ heap.size[FIRST] >= MIN_SIZE
          /\ FIRST + heap.size[FIRST] <= heap.brk /\ heap.size[FIRST] \in Nat
      BY <2>1 DEF WellFormed, Tiled
    <2>3. FIRST \in Nat /\ FIRST > 0
      BY DEF FIRST, WSIZE
    <2>. QED BY <2>1, <2>2, <2>3
  <1>5. u \in 0 .. 100
    <2>1. PICK b \in Nat : b = heap.brk
      BY <1>4
    <2>2. PICK q \in Int : q = (100 * mx) \div b
      BY <1>3, <1>4, <2>1
    <2>3. b > 0 /\ mx <= b /\ 100 * mx \in Nat /\ 100 * mx <= 100 * b
      BY <1>3, <1>4, <2>1
    <2>4. b * q <= 100 * mx /\ 100 * mx < b * q + b
      BY <2>2, <2>3
    <2>5. q <= 100
      BY <2>3, <2>4
    <2>6. q >= 0
      BY <2>3, <2>4
    <2>. QED BY <2>1, <2>2, <2>5, <2>6
  <1>. QED BY <1>1, <1>5, Zenon

\* What a step does to the stats: at most one field of the trace at hand changes.
LEMMA StatsChange ==
    ASSUME ControlInv, StatsInv, TotalsInv, HeapInv, [ReplayNext]_replayVars
    PROVE  \/ mm_stats' = mm_stats
           \/ /\ EndValid /\ mm_stats' = [mm_stats EXCEPT ![i].valid = TRUE]
           \/ /\ EndUtil
              /\ \E u \in 0 .. 100 : mm_stats' = [mm_stats EXCEPT ![i].util = u]
           \/ /\ EndTimed
              /\ \E s \in Secs : mm_stats' = [mm_stats EXCEPT ![i].secs = s, ![i].timed = TRUE]
           \/ /\ Read /\ pc' = "valid"
              /\ \E n \in 0 .. MAX_LINES : mm_stats' = [mm_stats EXCEPT ![i].ops = n]
  <1>1. CASE ValidRequest \/ UtilRequest \/ SpeedRequest
    BY <1>1, Zenon DEF ValidRequest, UtilRequest, SpeedRequest
  <1>2. CASE Begin \/ BeginPass \/ EndSpeed \/ UNCHANGED replayVars
    BY <1>2, Zenon DEF Begin, BeginPass, EndSpeed, replayVars, outcome
  <1>3. CASE EndValid
    BY <1>3 DEF EndValid
  <1>4. CASE EndTimed
    BY <1>4, Zenon DEF EndTimed
  <1>5. CASE Read
    <2>1. trace.num_ops \in 0 .. MAX_LINES
      BY DEF ControlInv, TraceType
    <2>. QED BY <1>5, <2>1, Zenon DEF Read
  <1>6. CASE EndUtil
    BY <1>6, UtilPercent, Zenon
  <1>. QED BY <1>1, <1>2, <1>3, <1>4, <1>5, <1>6, Zenon DEF ReplayNext

\* Every step keeps the stats.
LEMMA StatsStep ==
    ASSUME PackageServes, ControlInv, StatsInv, TotalsInv, HeapInv, [ReplayNext]_replayVars
    PROVE  StatsInv'
  <1>0. /\ mm_stats \in [1 .. MAX_TRACES -> Stats] /\ MAX_TRACES \in Nat
        /\ i \in 1 .. MAX_TRACES + 1 /\ (pc \in Reading \cup Passes => i \in 1 .. MAX_TRACES)
        /\ \A t \in 1 .. MAX_TRACES : t > i => mm_stats[t].valid = FALSE
    BY ReplayAssumption DEF StatsInv, ControlInv, Control
  <1>1. \/ i' = i
        \/ i' = i + 1 /\ i \in 1 .. MAX_TRACES /\ pc' \in {"read", "print"}
           /\ (pc' = "read" => i < MAX_TRACES)
    <2>1. NextTrace /\ pc \in Passes =>
             i' = i + 1 /\ i \in 1 .. MAX_TRACES /\ pc' \in {"read", "print"}
             /\ (pc' = "read" => i < MAX_TRACES)
      BY <1>0 DEF NextTrace
    <2>. QED BY <2>1, StepKinds DEF Served, Began, Left, Begin, Read, replayVars, control
  <1>2. pc' # "begin" \/ UNCHANGED <<pc, i>>
    BY StepKinds DEF Served, Began, Left, NextTrace, Begin, Read, read_trace, OpenTrace,
                     ReadLine, BadLine, EndOfFile, InPass, Passes, replayVars, control
  <1>3. pc' \in Reading \cup {"valid"} =>
           i' = i + 1 \/ (pc \in Reading \cup {"valid"} /\ i' = i)
    BY StepKinds DEF Served, Began, Left, NextTrace, Begin, Read, read_trace, OpenTrace,
                     ReadLine, BadLine, EndOfFile, InPass, Passes, Reading, replayVars, control
  <1>4. ASSUME NEW s \in [1 .. MAX_TRACES -> Stats], mm_stats' = s,
               \A t \in 1 .. MAX_TRACES : t > i => s[t].valid = FALSE,
               pc' \in Reading \cup {"valid"} /\ i' = i => s[i].valid = FALSE
        PROVE  StatsInv'
    <2>1. \A t \in 1 .. MAX_TRACES : t > i' => t > i
      BY <1>0, <1>1
    <2>2. pc' \in Reading \cup {"valid"} => s[i'].valid = FALSE
      <3>1. CASE i' = i
        BY <1>4, <3>1
      <3>2. CASE i' = i + 1 /\ pc' \in Reading \cup {"valid"}
        <4>1. i' \in 1 .. MAX_TRACES /\ i' > i
          BY <1>0, <1>1, <3>2 DEF Reading
        <4>. QED BY <1>4, <4>1
      <3>. QED BY <1>3, <3>1, <3>2, Zenon
    <2>3. pc' = "begin" => i' = 1
      BY <1>2 DEF StatsInv
    <2>. QED BY <1>4, <2>1, <2>2, <2>3 DEF StatsInv
  <1>5. ASSUME NEW r \in Stats, i \in 1 .. MAX_TRACES, mm_stats' = [mm_stats EXCEPT ![i] = r],
               pc' \in Reading \cup {"valid"} /\ i' = i => r.valid = FALSE
        PROVE  StatsInv'
    <2>1. PICK s : s = [mm_stats EXCEPT ![i] = r]
      BY Zenon
    <2>2. s \in [1 .. MAX_TRACES -> Stats] /\ s[i] = r
          /\ \A t \in 1 .. MAX_TRACES : t > i => s[t] = mm_stats[t]
      BY <1>0, <1>5, <2>1
    <2>. QED BY <1>0, <1>4, <1>5, <2>1, <2>2, Zenon
  <1>6. i \in 1 .. MAX_TRACES => mm_stats[i] \in Stats
    BY <1>0
  <1>7. pc \in Reading \cup {"valid"} => mm_stats[i].valid = FALSE
    BY DEF StatsInv
  <1>8. CASE mm_stats' = mm_stats
    <2>1. pc' \in Reading \cup {"valid"} /\ i' = i => mm_stats[i].valid = FALSE
      <3>1. i' = i => i' # i + 1
        BY <1>0
      <3>. QED BY <1>3, <1>7, <3>1
    <2>. QED BY <1>0, <1>4, <1>8, <2>1, Zenon
  <1>9. CASE EndValid /\ mm_stats' = [mm_stats EXCEPT ![i].valid = TRUE]
    <2>1. pc \in Passes /\ pc' = "util" /\ i \in 1 .. MAX_TRACES
      BY <1>0, <1>9 DEF EndValid, Passes
    <2>2. [mm_stats[i] EXCEPT !.valid = TRUE] \in Stats
      BY <1>6, <2>1, Zenon DEF Stats
    <2>3. pc' \notin Reading \cup {"valid"}
      BY <2>1 DEF Reading
    <2>. QED BY <1>5, <1>9, <2>1, <2>2, <2>3, Zenon
  <1>10. ASSUME NEW u \in 0 .. 100, EndUtil, mm_stats' = [mm_stats EXCEPT ![i].util = u]
         PROVE  StatsInv'
    <2>1. pc \in Passes /\ pc' = "speed" /\ i \in 1 .. MAX_TRACES
      BY <1>0, <1>10 DEF EndUtil, Passes
    <2>2. [mm_stats[i] EXCEPT !.util = u] \in Stats
      BY <1>6, <2>1 DEF Stats
    <2>3. pc' \notin Reading \cup {"valid"}
      BY <2>1 DEF Reading
    <2>. QED BY <1>5, <1>10, <2>1, <2>2, <2>3, Zenon
  <1>11. ASSUME NEW s \in Secs, EndTimed,
                mm_stats' = [mm_stats EXCEPT ![i].secs = s, ![i].timed = TRUE]
         PROVE  StatsInv'
    <2>1. pc \in Passes /\ i \in 1 .. MAX_TRACES /\ i' = i + 1
      BY <1>0, <1>11 DEF EndTimed, Passes, NextTrace
    <2>2. s \in Int
      BY ReplayAssumption
    <2>3. [mm_stats[i] EXCEPT !.secs = s, !.timed = TRUE] \in Stats
      BY <1>6, <2>1, <2>2, Zenon DEF Stats
    <2>4. mm_stats' = [mm_stats EXCEPT ![i] = [mm_stats[i] EXCEPT !.secs = s, !.timed = TRUE]]
      BY <1>0, <1>11, <2>1, Zenon
    <2>5. i' # i
      BY <2>1
    <2>. QED BY <1>5, <2>1, <2>3, <2>4, <2>5, Zenon
  <1>12. ASSUME NEW n \in 0 .. MAX_LINES, Read, mm_stats' = [mm_stats EXCEPT ![i].ops = n]
         PROVE  StatsInv'
    <2>1. pc \in Reading /\ i \in 1 .. MAX_TRACES
      BY <1>0, <1>12 DEF Read, read_trace, OpenTrace, ReadLine, BadLine, EndOfFile, Reading
    <2>2. [mm_stats[i] EXCEPT !.ops = n] \in Stats /\ [mm_stats[i] EXCEPT !.ops = n].valid = FALSE
      BY <1>6, <1>7, <2>1 DEF Stats
    <2>. QED BY <1>5, <1>12, <2>1, <2>2, Zenon
  <1>. QED BY <1>8, <1>9, <1>10, <1>11, <1>12, StatsChange, Zenon

(***************************************************************************)
(* The invariant of what they record                                       *)
(***************************************************************************)
\* The inductive invariant of what they record.
ReplayInv == PassInv /\ SizesInv /\ RangesInv /\ TotalsInv /\ StatsInv

\* main starts with nothing recorded.
LEMMA ReplayStart == ReplayInit => ReplayInv
  <1> SUFFICES ASSUME ReplayInit PROVE ReplayInv
    OBVIOUS
  <1>1. ~InPass /\ block_sizes = Unwritten /\ reason = "none"
    BY DEF ReplayInit, InPass, Passes
  <1>2. Unwritten \in [Ids -> Nat]
    BY DEF Unwritten
  <1>. QED BY <1>1, <1>2, PassStart, StatsStart
           DEF ReplayInv, SizesInv, RangesInv, TotalsInv

\* Every step keeps all of it.
LEMMA ReplayStep ==
    ASSUME PackageServes, ReplayInv, [ReplayNext]_replayVars
    PROVE  ReplayInv'
  <1>1. ControlInv /\ HeapInv /\ RepeatInv /\ SizesInv /\ RangesInv /\ TotalsInv /\ StatsInv
    BY DEF ReplayInv, PassInv
  <1>2. ControlInv' /\ HeapInv' /\ RepeatInv' /\ SizesInv'
    BY <1>1, ControlStep, HeapStep, RepeatStep, SizesStep
  <1>3. RangesInv' /\ TotalsInv' /\ StatsInv'
    BY <1>1, <1>2, RangesStep, TotalsStep, StatsStep
  <1>. QED BY <1>2, <1>3 DEF ReplayInv, PassInv
===============================================================================
