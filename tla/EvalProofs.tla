------------------------------ MODULE EvalProofs ------------------------------
(***************************************************************************)
(* How the driver judges a malloc package.                                 *)
(*                                                                         *)
(* Correctness (eval_mm_valid), for every heap, set of traces and package: *)
(* the range list is exact while a trace runs, and a package that keeps    *)
(* its promises is not reported.                                           *)
(*                                                                         *)
(* Speed (fsecs), for every size of a word and of a second, every timer    *)
(* and every set of durations: the arithmetic on the two-word counter and  *)
(* on struct timeval is exact, the rate of callibrate is the least, clear  *)
(* stays inside its buffer, and fcyc keeps and returns the shortest runs.  *)
(***************************************************************************)
EXTENDS EvalValid, Fsecs, DataLemmas

(***************************************************************************)
(* The range list                                                          *)
(***************************************************************************)
Extents == [lo : Int, hi : Int]

\* No two records start at the same address.
DistinctStarts(rs) ==
    \A j, k \in 1 .. Len(rs) : rs[j].lo = rs[k].lo => j = k

\* remove_range takes away the record that starts at lo, if there is one.
LEMMA RemoveRange ==
    ASSUME NEW rs \in Seq(Extents), DistinctStarts(rs), NEW lo,
           NEW k \in 1 .. Len(rs), rs[k].lo = lo
    PROVE  LET gone == remove_range(rs, lo)
           IN  /\ gone \in Seq(Extents) /\ Len(gone) = Len(rs) - 1
               /\ DistinctStarts(gone)
               /\ Range(gone) = {p \in Range(rs) : p.lo # lo}
  <1> DEFINE gone == remove_range(rs, lo)
             n == Len(rs)
  <1>1. n \in Nat /\ DOMAIN rs = 1 .. n /\ k \in 1 .. n
    OBVIOUS
  <1>2. {j \in 1 .. n : rs[j].lo = lo} = {k}
    BY DEF DistinctStarts
  <1>3. Min({k}) = k
    BY DEF Min
  <1>4. gone = Without(rs, k)
    BY <1>2, <1>3 DEF remove_range, Without
  <1>5. /\ gone \in Seq(Extents) /\ Len(gone) = n - 1
        /\ \A i \in 1 .. k - 1 : gone[i] = rs[i]
        /\ \A i \in k .. n - 1 : gone[i] = rs[i + 1]
    BY <1>4, WithoutIs
  <1> HIDE DEF gone, n
  <1>6. DOMAIN gone = 1 .. n - 1
    BY <1>5
  <1> DEFINE old(i) == IF i <= k - 1 THEN i ELSE i + 1
  <1>7. \A i \in 1 .. n - 1 : old(i) \in 1 .. n /\ old(i) # k /\ gone[i] = rs[old(i)]
    BY <1>1, <1>5
  <1>8. \A j \in 1 .. n : j # k => \E i \in 1 .. n - 1 : old(i) = j
    <2> TAKE j \in 1 .. n
    <2> HAVE j # k
    <2>1. CASE j < k
      <3>1. j \in 1 .. n - 1 /\ old(j) = j
        BY <1>1, <2>1
      <3>. QED BY <3>1
    <2>2. CASE j > k
      <3>1. j - 1 \in 1 .. n - 1 /\ old(j - 1) = j
        BY <1>1, <2>2
      <3>. QED BY <3>1
    <2>. QED BY <1>1, <2>1, <2>2
  <1>9. \A i, j \in 1 .. n - 1 : old(i) = old(j) => i = j
    BY <1>1
  <1> HIDE DEF old
  <1>10. DistinctStarts(gone)
    BY <1>5, <1>7, <1>9 DEF DistinctStarts, n
  <1>11. \A j \in 1 .. n : (rs[j].lo = lo) <=> (j = k)
    BY <1>1, <1>2
  <1>12. Range(gone) = {p \in Range(rs) : p.lo # lo}
    <2>1. ASSUME NEW p \in Range(gone) PROVE p \in Range(rs) /\ p.lo # lo
      <3>1. PICK i \in 1 .. n - 1 : p = gone[i]
        BY <1>6, <2>1 DEF Range
      <3>. QED BY <1>1, <1>7, <1>11, <3>1 DEF Range
    <2>2. ASSUME NEW p \in Range(rs), p.lo # lo PROVE p \in Range(gone)
      <3>1. PICK j \in 1 .. n : p = rs[j]
        BY <1>1, <2>2 DEF Range
      <3>2. j # k
        BY <1>11, <2>2, <3>1
      <3>3. PICK i \in 1 .. n - 1 : old(i) = j
        BY <1>8, <3>2
      <3>. QED BY <1>6, <1>7, <3>1, <3>3 DEF Range
    <2>. QED BY <2>1, <2>2
  <1>. QED BY <1>5, <1>10, <1>12 DEF gone, n

\* add_range puts an acceptable record before the others.
LEMMA AddRange ==
    ASSUME NEW rs \in Seq(Extents), DistinctStarts(rs), NEW r \in Extents,
           \A p \in Range(rs) : p.lo # r.lo
    PROVE  LET all == <<r>> \o rs
           IN  /\ all \in Seq(Extents) /\ Len(all) = Len(rs) + 1
               /\ DistinctStarts(all)
               /\ Range(all) = Range(rs) \cup {r}
  <1> DEFINE all == <<r>> \o rs
             n == Len(rs)
  <1>1. n \in Nat /\ DOMAIN rs = 1 .. n /\ \A j \in 1 .. n : rs[j] \in Range(rs)
    BY DEF Range
  <1>2. <<r>> \in Seq(Extents) /\ Len(<<r>>) = 1 /\ <<r>>[1] = r
    OBVIOUS
  <1>3. /\ all \in Seq(Extents) /\ Len(all) = 1 + n
        /\ \A i \in 1 .. 1 + n : all[i] = IF i <= 1 THEN <<r>>[i] ELSE rs[i - 1]
    BY <1>2, ConcatIs
  <1> HIDE DEF all, n
  <1>4. all[1] = r /\ \A i \in 2 .. n + 1 : i - 1 \in 1 .. n /\ all[i] = rs[i - 1]
    BY <1>1, <1>2, <1>3
  <1>5. DOMAIN all = 1 .. n + 1 /\ Len(all) = n + 1
    BY <1>1, <1>3
  <1>6. \A i \in 2 .. n + 1 : all[i].lo # r.lo
    BY <1>1, <1>4
  <1>7. DistinctStarts(all)
    <2> SUFFICES ASSUME NEW j \in 1 .. n + 1, NEW k \in 1 .. n + 1, all[j].lo = all[k].lo
                 PROVE  j = k
      BY <1>5 DEF DistinctStarts
    <2>1. (j = 1 \/ j \in 2 .. n + 1) /\ (k = 1 \/ k \in 2 .. n + 1)
      BY <1>1
    <2>2. CASE j \in 2 .. n + 1 /\ k \in 2 .. n + 1
      <3>1. j - 1 = k - 1
        BY <1>4, <2>2 DEF DistinctStarts, n
      <3>. QED BY <1>1, <2>2, <3>1
    <2>. QED BY <1>4, <1>6, <2>1, <2>2
  <1>8. Range(all) = Range(rs) \cup {r}
    <2>1. ASSUME NEW p \in Range(all) PROVE p \in Range(rs) \cup {r}
      <3>1. PICK i \in 1 .. n + 1 : p = all[i]
        BY <1>5, <2>1 DEF Range
      <3>2. i = 1 \/ i \in 2 .. n + 1
        BY <1>1
      <3>. QED BY <1>1, <1>4, <3>1, <3>2
    <2>2. r \in Range(all)
      <3>1. 1 \in 1 .. n + 1
        BY <1>1
      <3>. QED BY <1>4, <1>5, <3>1 DEF Range
    <2>3. ASSUME NEW p \in Range(rs) PROVE p \in Range(all)
      <3>1. PICK j \in 1 .. n : p = rs[j]
        BY <1>1, <2>3 DEF Range
      <3>2. j + 1 \in 2 .. n + 1 /\ (j + 1) - 1 = j /\ j + 1 \in 1 .. n + 1
        BY <1>1
      <3>. QED BY <1>4, <1>5, <3>1, <3>2 DEF Range
    <2>. QED BY <2>1, <2>2, <2>3
  <1>. QED BY <1>3, <1>5, <1>7, <1>8 DEF all, n

(***************************************************************************)
(* The inductive invariant of eval_mm_valid                                *)
(***************************************************************************)
\* The list rs has one record for each index of H, and no two of these
\* blocks start at the same address.
ListExact(rs, H, bl, sz) ==
    /\ rs \in Seq(Extents) /\ DistinctStarts(rs)
    /\ Len(rs) = Cardinality(H)
    /\ Range(rs) = {RangeOf(bl[i], sz[i]) : i \in H}
    /\ \A i, j \in H : bl[i] = bl[j] => i = j

\* The trace's arrays are well formed and every block held has a payload.
ArraysTyped ==
    /\ held \subseteq Ids /\ IsFiniteSet(held)
    /\ blocks \in [Ids -> Nat] /\ block_sizes \in [Ids -> Nat]
    /\ \A i \in held : block_sizes[i] > 0

EvalInv ==
    /\ ArraysTyped
    /\ verdict \in {"running", "valid"} =>
          /\ ListExact(ranges, held, blocks, block_sizes)
          /\ reason = "none"

\* Removing the record of a block held leaves the list of the others.
LEMMA ListRemove ==
    ASSUME NEW rs, NEW H, H \subseteq Ids, IsFiniteSet(H),
           NEW bl \in [Ids -> Nat], NEW sz \in [Ids -> Nat],
           ListExact(rs, H, bl, sz), NEW i \in H
    PROVE  ListExact(remove_range(rs, bl[i]), H \ {i}, bl, sz)
  <1> DEFINE gone == remove_range(rs, bl[i])
             R(j) == RangeOf(bl[j], sz[j])
  <1>1. R(i) \in Range(rs) /\ R(i).lo = bl[i]
    BY DEF ListExact, RangeOf
  <1>2. PICK k \in 1 .. Len(rs) : rs[k].lo = bl[i]
    BY <1>1 DEF ListExact, Range
  <1>3. /\ gone \in Seq(Extents) /\ Len(gone) = Len(rs) - 1
        /\ DistinctStarts(gone)
        /\ Range(gone) = {p \in Range(rs) : p.lo # bl[i]}
    BY <1>2, RemoveRange DEF ListExact
  <1>4. Cardinality(H \ {i}) = Cardinality(H) - 1
    BY FS_RemoveElement
  <1>5. \A j \in H : R(j).lo = bl[j]
    BY DEF RangeOf
  <1>6. \A j \in H : bl[j] # bl[i] <=> j # i
    BY DEF ListExact
  <1> HIDE DEF gone, R
  <1>7. Range(rs) = {R(j) : j \in H}
    BY DEF ListExact, R
  <1>8. Range(gone) = {R(j) : j \in H \ {i}}
    BY <1>3, <1>5, <1>6, <1>7
  <1>9. \A j, m \in H \ {i} : bl[j] = bl[m] => j = m
    BY DEF ListExact
  <1>10. Len(gone) = Cardinality(H \ {i})
    BY <1>3, <1>4 DEF ListExact
  <1>. QED BY <1>3, <1>8, <1>9, <1>10 DEF ListExact, gone, R

\* An accepted block starts where no other block does, and its record is the
\* one that add_range puts in front.
LEMMA ListAdd ==
    ASSUME NEW rs, NEW H, H \subseteq Ids, IsFiniteSet(H),
           NEW bl \in [Ids -> Nat], NEW sz \in [Ids -> Nat],
           \A j \in H : sz[j] > 0,
           ListExact(rs, H, bl, sz), NEW i \in Ids \ H,
           NEW p \in Nat, NEW size \in Nat, size > 0,
           Acceptable(rs, RangeOf(p, size), Extent)
    PROVE  ListExact(<<RangeOf(p, size)>> \o rs, H \cup {i},
                     [bl EXCEPT ![i] = p], [sz EXCEPT ![i] = size])
  <1> DEFINE r == RangeOf(p, size)
             all == <<r>> \o rs
             bl1 == [bl EXCEPT ![i] = p]
             sz1 == [sz EXCEPT ![i] = size]
             R(j) == RangeOf(bl[j], sz[j])
             R1(j) == RangeOf(bl1[j], sz1[j])
  <1>1. r \in Extents /\ r.lo = p
    BY DEF RangeOf, Extents
  <1>2. \A j \in H : R(j).lo = bl[j] /\ R(j).hi = bl[j] + sz[j] - 1
    BY DEF RangeOf
  <1>3. \A j \in H : bl[j] \in Nat /\ sz[j] \in Nat /\ sz[j] > 0
    OBVIOUS
  <1>4. Range(rs) = {R(j) : j \in H}
    BY DEF ListExact
  <1>5. \A j \in H : bl[j] # p
    <2> SUFFICES ASSUME NEW j \in H, bl[j] = p PROVE FALSE
      OBVIOUS
    <2>1. R(j) \in Range(rs)
      BY <1>4
    <2>2. ~EndInside(r, R(j))
      BY <2>1 DEF Acceptable
    <2>3. r.lo \in R(j).lo .. R(j).hi
      BY <1>1, <1>2, <1>3
    <2>. QED BY <2>2, <2>3 DEF EndInside, Within
  <1>6. \A q \in Range(rs) : q.lo # r.lo
    BY <1>1, <1>2, <1>4, <1>5
  <1>7. /\ all \in Seq(Extents) /\ Len(all) = Len(rs) + 1
        /\ DistinctStarts(all) /\ Range(all) = Range(rs) \cup {r}
    BY <1>1, <1>6, AddRange DEF ListExact
  <1>8. Cardinality(H \cup {i}) = Cardinality(H) + 1
    BY FS_AddElement
  <1>9. /\ bl1[i] = p /\ sz1[i] = size
        /\ \A j \in H : bl1[j] = bl[j] /\ sz1[j] = sz[j]
    OBVIOUS
  <1>10. \A j, k \in H \cup {i} : bl1[j] = bl1[k] => j = k
    BY <1>5, <1>9 DEF ListExact
  <1>11. R1(i) = r /\ \A j \in H : R1(j) = R(j)
    BY <1>9
  <1> HIDE DEF r, all, bl1, sz1, R, R1
  <1>12. Range(all) = {R1(j) : j \in H \cup {i}}
    BY <1>4, <1>7, <1>11
  <1>13. Len(all) = Cardinality(H \cup {i})
    BY <1>7, <1>8 DEF ListExact
  <1>. QED BY <1>7, <1>10, <1>12, <1>13 DEF ListExact, all, r, bl1, sz1, R1

\* A block that overlaps no block held passes add_range's tests.
LEMMA PlacedAccepted ==
    ASSUME NEW rs, NEW H, H \subseteq Ids, ArraysTyped, H \subseteq held,
           ListExact(rs, H, blocks, block_sizes),
           NEW p \in Nat, NEW size \in Nat, size > 0, Placed(H, p, size)
    PROVE  Acceptable(rs, RangeOf(p, size), Extent)
  <1> DEFINE r == RangeOf(p, size)
             R(j) == RangeOf(blocks[j], block_sizes[j])
  <1>1. r.lo = p /\ r.hi = p + size - 1
    BY DEF RangeOf
  <1>2. ASSUME NEW q \in Range(rs) PROVE ~EndInside(r, q)
    <2>1. PICK j \in H : q = R(j)
      BY DEF ListExact
    <2>2. /\ q.lo = blocks[j] /\ q.hi = blocks[j] + block_sizes[j] - 1
          /\ blocks[j] \in Nat /\ block_sizes[j] \in Nat
      BY <2>1 DEF RangeOf, ArraysTyped
    <2>3. ~Overlap(r, q)
      BY <2>1 DEF Placed
    <2>. QED BY <1>1, <2>2, <2>3 DEF Overlap, EndInside, Within
  <1>. QED BY <1>1, <1>2 DEF Acceptable, Placed

(***************************************************************************)
(* The steps of a trace                                                    *)
(***************************************************************************)
\* The empty list is exact for a trace that holds nothing.
LEMMA ListEmpty ==
    ASSUME NEW bl, NEW sz
    PROVE  ListExact(<<>>, {}, bl, sz)
  <1>1. <<>> \in Seq(Extents) /\ Len(<<>>) = 0 /\ Range(<<>>) = {}
    BY DEF Range
  <1>2. Cardinality({}) = 0
    BY FS_EmptySet
  <1>. QED BY <1>1, <1>2 DEF ListExact, DistinctStarts

\* A new trace starts with the invariant.
LEMMA FreshTrace ==
    [i \in Ids |-> NULL] \in [Ids -> Nat] /\ [i \in Ids |-> 0] \in [Ids -> Nat]
    /\ IsFiniteSet({})
  BY FS_EmptySet DEF NULL

\* The block of index i is recorded after its record has been accepted by a
\* list that is exact for the others: H is held without i.
LEMMA Remembered ==
    ASSUME ArraysTyped, NEW rs, NEW i \in Ids, NEW p \in Nat,
           NEW size \in Nat, size > 0, reason = "none",
           ListExact(rs, held \ {i}, blocks, block_sizes),
           add_range(rs, p, size, Extent).ok,
           ranges' = add_range(rs, p, size, Extent).ranges,
           Remember(i, p, size)
    PROVE  EvalInv'
  <1> DEFINE H == held \ {i}
  <1>1. H \subseteq Ids /\ IsFiniteSet(H) /\ i \in Ids \ H /\ H \cup {i} = held'
    BY FS_Difference DEF ArraysTyped, Remember
  <1>2. Acceptable(rs, RangeOf(p, size), Extent)
        /\ ranges' = <<RangeOf(p, size)>> \o rs
    BY DEF add_range
  <1>3. blocks \in [Ids -> Nat] /\ block_sizes \in [Ids -> Nat]
        /\ \A j \in H : block_sizes[j] > 0
    BY DEF ArraysTyped
  <1>4. ListExact(rs, H, blocks, block_sizes)
    OBVIOUS
  <1> HIDE DEF H
  <1>5. ListExact(ranges', held', blocks', block_sizes')
    <2>1. ListExact(<<RangeOf(p, size)>> \o rs, H \cup {i},
                    [blocks EXCEPT ![i] = p], [block_sizes EXCEPT ![i] = size])
      BY <1>1, <1>2, <1>3, <1>4, ListAdd
    <2>. QED BY <1>1, <1>2, <2>1 DEF Remember
  <1>6. IsFiniteSet(held') /\ held' \subseteq Ids
    BY <1>1, FS_AddElement
  <1>7. blocks' \in [Ids -> Nat] /\ block_sizes' \in [Ids -> Nat]
    BY <1>3 DEF Remember
  <1>8. \A j \in held' : block_sizes'[j] > 0
    BY <1>1, <1>3 DEF Remember
  <1>9. reason' = "none"
    BY DEF Remember
  <1>. QED BY <1>5, <1>6, <1>7, <1>8, <1>9 DEF EvalInv, ArraysTyped, ListExact

\* A step that ends the trace leaves the arrays alone.
LEMMA TraceEnded ==
    ASSUME ArraysTyped, UNCHANGED <<blocks, block_sizes, held>>,
           verdict' \in {"invalid", "abort"}
    PROVE  EvalInv'
  BY DEF EvalInv, ArraysTyped

\* mm_malloc's answer.
LEMMA AllocStep ==
    ASSUME EvalInv, NEW i \in Ids, NEW size \in Sizes, NEW p \in Answers,
           Alloc(i, size, p)
    PROVE  EvalInv'
  <1>1. size \in Nat /\ p \in Nat
    BY EvalAssumption
  <1>2. ArraysTyped /\ reason = "none" /\ i \notin held
        /\ ListExact(ranges, held, blocks, block_sizes)
    BY DEF EvalInv, Alloc
  <1>3. CASE Reject("null") \/ AssertFails \/ Reject("range")
    BY <1>2, <1>3, TraceEnded DEF Reject, AssertFails
  <1>4. CASE /\ size > 0 /\ add_range(ranges, p, size, Extent).ok
             /\ ranges' = add_range(ranges, p, size, Extent).ranges
             /\ Remember(i, p, size)
    <2>1. held \ {i} = held
      BY <1>2
    <2>. QED BY <1>1, <1>2, <1>4, <2>1, Remembered
  <1>. QED BY <1>3, <1>4 DEF Alloc

\* mm_realloc's answer.
LEMMA ReallocStep ==
    ASSUME EvalInv, NEW i \in Ids, NEW size \in Sizes, NEW p \in Answers,
           NEW b \in Bytes, Realloc(i, size, p, b)
    PROVE  EvalInv'
  <1> DEFINE gone == remove_range(ranges, blocks[i])
  <1>1. size \in Nat /\ p \in Nat
    BY EvalAssumption
  <1>2. ArraysTyped /\ reason = "none" /\ i \in held
        /\ ListExact(ranges, held, blocks, block_sizes)
    BY DEF EvalInv, Realloc
  <1>3. ListExact(gone, held \ {i}, blocks, block_sizes)
    BY <1>2, ListRemove DEF ArraysTyped
  <1>4. CASE Reject("null") \/ AssertFails \/ Reject("range") \/ Reject("data")
    BY <1>2, <1>4, TraceEnded DEF Reject, AssertFails
  <1>5. CASE /\ size > 0 /\ add_range(gone, p, size, Extent).ok
             /\ ranges' = add_range(gone, p, size, Extent).ranges
             /\ Remember(i, p, size)
    <2> HIDE DEF gone
    <2>. QED BY <1>1, <1>2, <1>3, <1>5, Remembered
  <1>. QED BY <1>4, <1>5 DEF Realloc

\* mm_free's request.
LEMMA FreeStep ==
    ASSUME EvalInv, NEW i \in Ids, Free(i)
    PROVE  EvalInv'
  <1>1. ArraysTyped /\ reason = "none" /\ i \in held
        /\ ListExact(ranges, held, blocks, block_sizes)
    BY DEF EvalInv, Free
  <1>2. ListExact(remove_range(ranges, blocks[i]), held \ {i}, blocks, block_sizes)
    BY <1>1, ListRemove DEF ArraysTyped
  <1>3. ListExact(ranges', held', blocks', block_sizes')
    BY <1>2 DEF Free
  <1>4. IsFiniteSet(held')
    BY <1>1, FS_Difference DEF ArraysTyped, Free
  <1>5. ArraysTyped'
    BY <1>1, <1>4 DEF ArraysTyped, Free
  <1>. QED BY <1>1, <1>3, <1>5 DEF EvalInv, ListExact, Free

(***************************************************************************)
(* The theorems                                                            *)
(***************************************************************************)
\* The invariant holds of every trace replayed.
THEOREM EvalInvariance == EvalSpec => []EvalInv
  <1>1. EvalInit => EvalInv
    BY ListEmpty, FreshTrace DEF EvalInit, Started, EvalInv, ArraysTyped
  <1>2. EvalInv /\ [EvalNext]_evalVars => EvalInv'
    <2> SUFFICES ASSUME EvalInv, [EvalNext]_evalVars PROVE EvalInv'
      OBVIOUS
    <2>1. CASE \E i \in Ids, size \in Sizes, p \in Answers : Alloc(i, size, p)
      BY <2>1, AllocStep
    <2>2. CASE \E i \in Ids, size \in Sizes, p \in Answers, b \in Bytes :
                  Realloc(i, size, p, b)
      BY <2>2, ReallocStep
    <2>3. CASE \E i \in Ids : Free(i)
      BY <2>3, FreeStep
    <2>4. CASE Finish
      BY <2>4 DEF Finish, EvalInv, ArraysTyped, ListExact
    <2>5. CASE NextTrace
      <3>1. ListExact(<<>>, {}, blocks', block_sizes')
        BY ListEmpty
      <3>2. ListExact(ranges', held', blocks', block_sizes')
        BY <2>5, <3>1 DEF NextTrace, clear_ranges
      <3>3. ArraysTyped'
        BY <2>5, FreshTrace DEF NextTrace, ArraysTyped
      <3>. QED BY <2>5, <3>2, <3>3 DEF NextTrace, Started, EvalInv, ListExact
    <2>6. CASE UNCHANGED evalVars
      BY <2>6 DEF evalVars, EvalInv, ArraysTyped, ListExact
    <2>. QED BY <2>1, <2>2, <2>3, <2>4, <2>5, <2>6 DEF EvalNext
  <1>. QED BY <1>1, <1>2, PTL DEF EvalSpec

\* The range list is exact while a trace runs, whatever the package answers:
\* add_range, remove_range and clear_ranges neither lose nor keep a record.
THEOREM RangeListExact == EvalSpec => []RangesTrackHeld
  <1>1. EvalInv => RangesTrackHeld
    BY DEF EvalInv, ListExact, RangesTrackHeld
  <1>. QED BY <1>1, EvalInvariance, PTL

\* With trace indices whose low byte a plain char keeps, a package that keeps
\* its promises is never reported for its blocks or its data.
THEOREM HonestNotReported ==
    ASSUME \A i \in Ids : LowByte(i) < 128
    PROVE  EvalSpec => []NoFalseAlarm
  <1>1. EvalInit => NoFalseAlarm
    BY DEF EvalInit, Started, NoFalseAlarm
  <1>2. EvalInv /\ NoFalseAlarm /\ [EvalNext]_evalVars => NoFalseAlarm'
    <2> SUFFICES ASSUME EvalInv, NoFalseAlarm, [EvalNext]_evalVars PROVE NoFalseAlarm'
      OBVIOUS
    <2>1. ASSUME NEW i \in Ids, NEW size \in Sizes, NEW p \in Answers,
                 Alloc(i, size, p)
          PROVE  NoFalseAlarm'
      <3>1. size \in Nat /\ p \in Nat
        BY EvalAssumption
      <3>2. ArraysTyped /\ reason = "none" /\ held \subseteq Ids
            /\ ListExact(ranges, held, blocks, block_sizes)
        BY <2>1 DEF EvalInv, ArraysTyped, Alloc
      <3>3. CASE /\ p # NULL /\ size > 0 /\ Reject("range")
                 /\ ~add_range(ranges, p, size, Extent).ok
        <4>1. ~Acceptable(ranges, RangeOf(p, size), Extent)
          BY <3>3 DEF add_range
        <4>2. ~Placed(held, p, size)
          BY <3>1, <3>2, <3>3, <4>1, PlacedAccepted
        <4>3. ~honest'
          BY <2>1, <3>3, <4>2 DEF Alloc
        <4>. QED BY <4>3 DEF NoFalseAlarm
      <3>4. CASE Reject("null") \/ AssertFails \/ Remember(i, p, size)
        BY <3>2, <3>4 DEF Reject, AssertFails, Remember, NoFalseAlarm
      <3>. QED BY <2>1, <3>3, <3>4 DEF Alloc
    <2>2. ASSUME NEW i \in Ids, NEW size \in Sizes, NEW p \in Answers,
                 NEW b \in Bytes, Realloc(i, size, p, b)
          PROVE  NoFalseAlarm'
      <3> DEFINE gone == remove_range(ranges, blocks[i])
                 H == held \ {i}
      <3>1. size \in Nat /\ p \in Nat /\ b \in 0 .. 255
        BY EvalAssumption
      <3>2. ArraysTyped /\ reason = "none" /\ i \in held /\ H \subseteq Ids
            /\ H \subseteq held /\ ListExact(ranges, held, blocks, block_sizes)
        BY <2>2 DEF EvalInv, ArraysTyped, Realloc
      <3>3. ListExact(gone, H, blocks, block_sizes)
        BY <3>2, ListRemove DEF ArraysTyped
      <3> HIDE DEF gone
      <3>4. CASE /\ p # NULL /\ size > 0 /\ Reject("range")
                 /\ ~add_range(gone, p, size, Extent).ok
        <4>1. ~Acceptable(gone, RangeOf(p, size), Extent)
          BY <3>4 DEF add_range
        <4>2. ~Placed(H, p, size)
          <5> HIDE DEF H
          <5>. QED BY <3>1, <3>2, <3>3, <3>4, <4>1, PlacedAccepted
        <4>3. ~honest'
          BY <2>2, <3>4, <4>2 DEF Realloc
        <4>. QED BY <4>3 DEF NoFalseAlarm
      <3>5. CASE p # NULL /\ AsChar(b) # LowByte(i)
        <4>1. b # LowByte(i)
          BY <3>1, <3>5 DEF AsChar
        <4>2. ~honest'
          BY <2>2, <3>5, <4>1 DEF Realloc
        <4>. QED BY <4>2 DEF NoFalseAlarm
      <3>6. CASE Reject("null") \/ AssertFails \/ Remember(i, p, size)
        BY <3>2, <3>6 DEF Reject, AssertFails, Remember, NoFalseAlarm
      <3>. QED BY <2>2, <3>4, <3>5, <3>6 DEF Realloc, gone
    <2>3. CASE (\E i \in Ids : Free(i)) \/ Finish \/ UNCHANGED evalVars
      BY <2>3 DEF Free, Finish, evalVars, NoFalseAlarm
    <2>4. CASE NextTrace
      <3>1. reason' \in {"none", "init"}
        BY <2>4 DEF NextTrace, Started
      <3>. QED BY <3>1 DEF NoFalseAlarm
    <2>. QED BY <2>1, <2>2, <2>3, <2>4 DEF EvalNext
  <1>. QED BY <1>1, <1>2, EvalInvariance, PTL DEF EvalSpec

(***************************************************************************)
(* The two-word counter                                                    *)
(***************************************************************************)
\* Quotient and remainder.
LEMMA DivMod ==
    ASSUME NEW a \in Int, NEW w \in Nat \ {0}
    PROVE  /\ a \div w \in Int /\ a % w \in 0 .. w - 1
           /\ a = w * (a \div w) + (a % w)
  OBVIOUS

\* They are the only numbers of that kind.
LEMMA DivModUnique ==
    ASSUME NEW w \in Nat \ {0}, NEW q \in Int, NEW r \in 0 .. w - 1
    PROVE  (w * q + r) \div w = q /\ (w * q + r) % w = r
  OBVIOUS

\* The high word of a time stamp is a word.
LEMMA HighWord ==
    ASSUME NEW w \in Nat \ {0}, NEW q \in Int, NEW r \in 0 .. w - 1,
           w * q + r \in 0 .. w * w - 1
    PROVE  q \in 0 .. w - 1
  <1>1. q >= 0
    <2>1. SUFFICES ASSUME q <= -1 PROVE FALSE
      OBVIOUS
    <2>2. w * q <= w * (-1)
      BY <2>1
    <2>. QED BY <2>2
  <1>2. q < w
    <2>1. SUFFICES ASSUME q >= w PROVE FALSE
      OBVIOUS
    <2>2. w * q >= w * w
      BY <2>1
    <2>. QED BY <2>2
  <1>. QED BY <1>1, <1>2

\* A product over a sum, for the provers.
LEMMA Distribute ==
    ASSUME NEW a \in Int, NEW b \in Int, NEW c \in Int, NEW e \in Int
    PROVE  a * (b + c - e) = a * b + a * c - a * e
  OBVIOUS

\* get_counter is exact: whatever the counter's value when start_counter read
\* it, and wherever its words wrapped since, the difference with its borrow is
\* the number of cycles, if they are fewer than a turn of the counter.
THEOREM GetCounterExact ==
    ASSUME NEW t \in Stamps, NEW d \in Stamps
    PROVE  get_counter(access_counter(t), access_counter(After(t, d))) = d
  <1> DEFINE n == After(t, d)
             k == (t + d) \div (WORD * WORD)
             th == t \div WORD
             tl == t % WORD
             nh == n \div WORD
             nl == n % WORD
  <1>1. WORD \in Nat \ {0} /\ WORD * WORD \in Nat \ {0} /\ t \in Nat /\ d \in Nat
    BY WordAssumption DEF Stamps
  <1>2. k \in Int /\ n \in Int /\ t + d = WORD * WORD * k + n
    <2> DEFINE w == WORD * WORD
    <2>1. t + d \in Int /\ w \in Nat \ {0}
      BY <1>1
    <2>2. (t + d) \div w \in Int /\ (t + d) % w \in 0 .. w - 1
          /\ t + d = w * ((t + d) \div w) + ((t + d) % w)
      <3> HIDE DEF w
      <3>. QED BY <2>1, DivMod
    <2>. QED BY <2>1, <2>2 DEF After
  <1>3. th \in Int /\ tl \in 0 .. WORD - 1 /\ t = WORD * th + tl
    BY <1>1, DivMod
  <1>4. nh \in Int /\ nl \in 0 .. WORD - 1 /\ n = WORD * nh + nl
    BY <1>1, <1>2, DivMod
  <1>8. WORD * k \in Int /\ d = WORD * (WORD * k + nh - th) + (nl - tl)
    <2> HIDE DEF n, k, th, tl, nh, nl
    <2>1. WORD * k \in Int
      BY <1>1, <1>2
    <2>2. WORD * (WORD * k + nh - th) = WORD * (WORD * k) + WORD * nh - WORD * th
      BY <1>1, <1>3, <1>4, <2>1, Distribute
    <2>3. WORD * (WORD * k) = WORD * WORD * k
      BY <1>1, <1>2
    <2>. QED BY <1>1, <1>2, <1>3, <1>4, <2>1, <2>2, <2>3
  <1> DEFINE lo == (nl - tl) % WORD
             borrow == IF lo > nl THEN 1 ELSE 0
             hi == (nh - th - borrow) % WORD
  <1>5. get_counter(access_counter(t), access_counter(After(t, d))) = hi * WORD + lo
    BY DEF get_counter, access_counter
  <1>6. CASE nl >= tl
    <2> DEFINE q == WORD * k + nh - th
    <2> HIDE DEF n, k, th, tl, nh, nl
    <2>1. nl - tl \in 0 .. WORD - 1 /\ WORD * 0 + (nl - tl) = nl - tl
      BY <1>1, <1>3, <1>4, <1>6
    <2>2. lo = nl - tl
      BY <1>1, <2>1, DivModUnique
    <2>3. borrow = 0
      BY <1>1, <1>3, <1>4, <2>2
    <2>4. q \in Int /\ d = WORD * q + (nl - tl)
      BY <1>1, <1>2, <1>3, <1>4, <1>8
    <2>5. q \in 0 .. WORD - 1
      BY <1>1, <2>1, <2>4, HighWord DEF Stamps
    <2>6. nh - th - borrow = WORD * (-k) + q
      BY <1>1, <1>2, <1>3, <1>4, <2>3
    <2>7. hi = q
      <3>1. -k \in Int
        BY <1>2
      <3>. QED BY <1>1, <2>5, <2>6, <3>1, DivModUnique
    <2>8. q * WORD = WORD * q
      BY <1>1, <2>4
    <2>. QED BY <1>5, <2>2, <2>4, <2>7, <2>8
  <1>7. CASE nl < tl
    <2> DEFINE q == WORD * k + nh - th - 1
               r == nl - tl + WORD
    <2> HIDE DEF n, k, th, tl, nh, nl
    <2>1. r \in 0 .. WORD - 1 /\ WORD * (-1) + r = nl - tl
      BY <1>1, <1>3, <1>4, <1>7
    <2>2. lo = r
      <3>1. (WORD * (-1) + r) % WORD = r
        BY <1>1, <2>1, DivModUnique, -1 \in Int
      <3>. QED BY <2>1, <3>1
    <2>3. borrow = 1
      BY <1>1, <1>3, <1>4, <2>2
    <2>4. q \in Int /\ d = WORD * q + r
      <3>1. WORD * q = WORD * (WORD * k + nh - th) - WORD
        BY <1>1, <1>2, <1>3, <1>4
      <3>. QED BY <1>1, <1>2, <1>3, <1>4, <1>8, <3>1
    <2>5. q \in 0 .. WORD - 1
      BY <1>1, <2>1, <2>4, HighWord DEF Stamps
    <2>6. nh - th - borrow = WORD * (-k) + q
      BY <1>1, <1>2, <1>3, <1>4, <2>3
    <2>7. hi = q
      <3>1. -k \in Int
        BY <1>2
      <3>. QED BY <1>1, <2>5, <2>6, <3>1, DivModUnique
    <2>8. q * WORD = WORD * q
      BY <1>1, <2>4
    <2>. QED BY <1>5, <2>2, <2>4, <2>7, <2>8
  <1>. QED BY <1>3, <1>4, <1>6, <1>7

(***************************************************************************)
(* The inductive invariants                                                *)
(***************************************************************************)
\* The buffer has the size that clear will read, or there is none.
CacheInv == par \in ParRecords /\ cache_buf \in {NO_BUFFER, par.cache_bytes}

\* The rate is the least of the ratios recorded.
RateInv ==
    /\ cal \in [e : Nat, gap : Nat, ticks : Nat]
    /\ ratios \subseteq Nat \ {0}
    /\ IF ratios = {} THEN cyc_per_tick = 0
       ELSE cyc_per_tick \in ratios /\ \A r \in ratios : cyc_per_tick <= r

Measurements ==
    [now : Int, left : Int, stv : [sec : Int, usec : Int], start : Int,
     runs : Int, took : Int, shift : Int]

\* The clock's first reading is worth what the clock shows less what has
\* happened to it since.
ElapsedInv ==
    /\ timer \in {"fcyc", "itimer", "gettod"}
    /\ timer # "fcyc" => pc \in {"off", "returned", "timing", "killed"}
    /\ pc = "timing" => timer # "fcyc"
    /\ calls \in Nat /\ (pc = "off" => calls = 0)
    /\ ft \in Measurements
    /\ pc = "timing" /\ timer = "gettod" =>
          ft.stv = timeval(ft.now - ft.took - ft.shift)
    /\ pc = "timing" /\ timer = "itimer" =>
          ft.start = MAX_ETIME * USEC - ft.left - ft.took
    /\ ElapsedIsExact

\* mhz has measured the cycles of its sleep.
RateMeasured == Mhz = slept

TimingInv == CacheInv /\ RateInv /\ ElapsedInv /\ RateMeasured

\* A step of Next, action by action.
LEMMA NextCases ==
    ASSUME Next
    PROVE  \/ \E t \in Stamps, c \in Sleeps : init_fsecs(t, c)
           \/ fsecs
           \/ \E fails \in BOOLEAN :
                 Prepare(fails) /\ UNCHANGED <<timer, Mhz, slept, calls, sets, ft>>
           \/ \E dt \in Gaps, n \in 0 .. MAX_TICKS :
                 Calibrate(dt, n) /\ UNCHANGED <<timer, Mhz, slept, calls, sets, ft>>
           \/ \E t \in Stamps, d \in Durations, n \in Ticks :
                 Measure(t, d, n) /\ UNCHANGED <<timer, Mhz, slept, calls, sets, ft>>
           \/ \E d \in RunTimes : TimedRun(d)
           \/ ClockSet
           \/ SetParameter
  BY DEF Next, Turn, FcycTurn

(***************************************************************************)
(* clear's buffer                                                          *)
(***************************************************************************)
LEMMA CacheInit == Init => CacheInv
  BY KBestAssumption DEF Init, CacheInv

\* Every step leaves cache_buf unallocated or cache_bytes long.
LEMMA CacheKept == CacheInv /\ [Next]_vars => CacheInv'
  <1> SUFFICES ASSUME CacheInv, [Next]_vars PROVE CacheInv'
    OBVIOUS
  <1>1. CASE UNCHANGED <<par, cache_buf>>
    BY <1>1 DEF CacheInv
  <1>2. ASSUME NEW t \in Stamps, NEW c \in Sleeps, init_fsecs(t, c) PROVE CacheInv'
    BY <1>2, KBestAssumption DEF CacheInv, init_fsecs, Configured, ParRecords
  <1>3. ASSUME NEW fails \in BOOLEAN, Prepare(fails) PROVE CacheInv'
    BY <1>3 DEF CacheInv, Prepare, Cleared
  <1>4. CASE SetParameter
    <2> USE <1>4, KBestAssumption DEF CacheInv, ParRecords
    <2>1. ASSUME NEW b \in BOOLEAN, set_fcyc_clear_cache(b) \/ set_fcyc_compensate(b)
          PROVE  CacheInv'
      BY <2>1 DEF set_fcyc_clear_cache, set_fcyc_compensate
    <2>2. ASSUME NEW k \in SetK, set_fcyc_k(k) PROVE CacheInv'
      BY <2>2 DEF set_fcyc_k
    <2>3. ASSUME NEW n \in SetMax, set_fcyc_maxsamples(n) PROVE CacheInv'
      BY <2>3 DEF set_fcyc_maxsamples
    <2>4. ASSUME NEW e \in SetEps, set_fcyc_epsilon(e) PROVE CacheInv'
      BY <2>4 DEF set_fcyc_epsilon
    <2>5. ASSUME NEW n \in SetBytes, set_fcyc_cache_size(n) PROVE CacheInv'
      BY <2>5 DEF set_fcyc_cache_size
    <2>6. ASSUME NEW n \in SetBlock, set_fcyc_cache_block(n) PROVE CacheInv'
      BY <2>6 DEF set_fcyc_cache_block
    <2>. QED BY <2>1, <2>2, <2>3, <2>4, <2>5, <2>6 DEF SetParameter, Setting
  <1>5. ASSUME fsecs \/ ClockSet \/ UNCHANGED vars PROVE CacheInv'
    BY <1>1, <1>5 DEF fsecs, ClockSet, BeginSampling, vars, fcycVars
  <1>6. ASSUME NEW dt, NEW n, Calibrate(dt, n) PROVE CacheInv'
    BY <1>1, <1>6 DEF Calibrate, fcycVars
  <1>7. ASSUME NEW t, NEW d, NEW n, Measure(t, d, n) PROVE CacheInv'
    BY <1>1, <1>7 DEF Measure
  <1>8. ASSUME NEW d, TimedRun(d) PROVE CacheInv'
    BY <1>1, <1>8 DEF TimedRun
  <1>. QED BY <1>2, <1>3, <1>4, <1>5, <1>6, <1>7, <1>8, NextCases

(***************************************************************************)
(* callibrate's rate                                                       *)
(***************************************************************************)
LEMMA RateInit == Init => RateInv
  BY DEF Init, RateInv, NoEvents

\* An event leaves the least ratio above RECORDTHRESH.
LEMMA EventKept ==
    ASSUME RateInv, NEW gap \in Nat, NEW n \in Nat \ {0}, Event(gap, n)
    PROVE  RateInv'
  <1> DEFINE cpt == gap \div n
  <1>1. cpt \in Int /\ RECORDTHRESH \in Nat
    BY CompAssumption, DivMod
  <1>2. cal' \in [e : Nat, gap : Nat, ticks : Nat]
    BY DEF Event, NoEvents, RateInv
  <1>3. CASE cpt > RECORDTHRESH
    <2>1. ratios' = ratios \cup {cpt} /\ cpt \in Nat \ {0}
      BY <1>1, <1>3 DEF Event
    <2>2. cyc_per_tick' = IF cyc_per_tick = 0 \/ cyc_per_tick > cpt THEN cpt ELSE cyc_per_tick
      BY <1>3 DEF Event, Least
    <2> HIDE DEF cpt
    <2>3. CASE ratios = {}
      BY <1>2, <2>1, <2>2, <2>3 DEF RateInv
    <2>4. CASE ratios # {}
      <3>1. /\ cyc_per_tick \in ratios /\ ratios \subseteq Nat \ {0}
            /\ \A r \in ratios : cyc_per_tick <= r
        BY <2>4 DEF RateInv
      <3>2. cyc_per_tick' \in ratios' /\ ratios' # {} /\ ratios' \subseteq Nat \ {0}
        BY <2>1, <2>2, <3>1
      <3>3. cyc_per_tick' <= cpt /\ cyc_per_tick' <= cyc_per_tick
        BY <2>1, <2>2, <3>1
      <3>4. \A r \in ratios' : cyc_per_tick' <= r
        BY <2>1, <3>1, <3>2, <3>3
      <3>. QED BY <1>2, <3>2, <3>4 DEF RateInv
    <2>. QED BY <2>3, <2>4
  <1>4. CASE ~(cpt > RECORDTHRESH)
    BY <1>2, <1>4 DEF Event, Least, RateInv
  <1>. QED BY <1>3, <1>4

\* Only callibrate's events change the rate.
LEMMA RateKept == RateInv /\ [Next]_vars => RateInv'
  <1> SUFFICES ASSUME RateInv, [Next]_vars PROVE RateInv'
    OBVIOUS
  <1>1. CASE UNCHANGED compVars
    BY <1>1 DEF RateInv, compVars
  <1>2. ASSUME NEW fails \in BOOLEAN, Prepare(fails) PROVE RateInv'
    BY <1>2 DEF RateInv, Prepare, NoEvents
  <1>3. ASSUME NEW dt \in Gaps, NEW n \in 0 .. MAX_TICKS, Calibrate(dt, n) PROVE RateInv'
    <2> DEFINE gap == cal.gap + dt
               all == cal.ticks + n
    <2>1. gap \in Nat /\ all \in Nat
      BY CompAssumption DEF RateInv
    <2>2. CASE gap >= THRESHOLD /\ all > 0
      <3>1. Event(gap, all)
        BY <1>3, <2>2 DEF Calibrate, Look
      <3>. QED BY <2>1, <2>2, <3>1, EventKept
    <2>3. CASE ~(gap >= THRESHOLD /\ all > 0)
      <3>1. UNCHANGED <<cyc_per_tick, ratios>>
        BY <1>3, <2>3 DEF Calibrate, Look
      <3>2. \E g \in Nat : cal' = [cal EXCEPT !.gap = g, !.ticks = all]
        BY <1>3, <2>1, <2>3 DEF Calibrate, Look
      <3>3. cal' \in [e : Nat, gap : Nat, ticks : Nat]
        BY <2>1, <3>2 DEF RateInv
      <3>. QED BY <3>1, <3>3 DEF RateInv
    <2>. QED BY <2>2, <2>3
  <1>4. ASSUME fsecs \/ ClockSet \/ SetParameter \/ UNCHANGED vars PROVE RateInv'
    BY <1>1, <1>4 DEF fsecs, ClockSet, SetParameter, vars
  <1>5. ASSUME NEW t, NEW c, init_fsecs(t, c) PROVE RateInv'
    BY <1>1, <1>5 DEF init_fsecs
  <1>6. ASSUME NEW t, NEW d, NEW n, Measure(t, d, n) PROVE RateInv'
    BY <1>1, <1>6 DEF Measure
  <1>7. ASSUME NEW d, TimedRun(d) PROVE RateInv'
    BY <1>1, <1>7 DEF TimedRun
  <1>. QED BY <1>2, <1>3, <1>4, <1>5, <1>6, <1>7, NextCases

\* The least ratio is what Min means.
LEMMA RateImplies == RateInv => RateIsLeast
  <1> SUFFICES ASSUME RateInv, ratios # {} PROVE cyc_per_tick = Min(ratios)
    BY DEF RateInv, RateIsLeast
  <1>1. cyc_per_tick \in ratios /\ \A r \in ratios : cyc_per_tick <= r
    BY DEF RateInv
  <1>2. Min(ratios) \in ratios /\ \A r \in ratios : Min(ratios) <= r
    BY <1>1 DEF Min
  <1>3. cyc_per_tick \in Nat /\ Min(ratios) \in Nat
    BY <1>1, <1>2 DEF RateInv
  <1>4. cyc_per_tick <= Min(ratios) /\ Min(ratios) <= cyc_per_tick
    BY <1>1, <1>2
  <1>. QED BY <1>3, <1>4

(***************************************************************************)
(* mhz                                                                     *)
(***************************************************************************)
LEMMA MeasuredKept == RateMeasured /\ [Next]_vars => RateMeasured'
  <1> SUFFICES ASSUME RateMeasured, [Next]_vars PROVE RateMeasured'
    OBVIOUS
  <1>1. ASSUME NEW t \in Stamps, NEW c \in Sleeps, init_fsecs(t, c) PROVE RateMeasured'
    <2>1. c \in Stamps
      BY FsecsAssumption
    <2>2. mhz_full(t, c) = c
      BY <2>1, GetCounterExact DEF mhz_full
    <2>. QED BY <1>1, <2>2 DEF init_fsecs, RateMeasured
  <1>2. CASE UNCHANGED <<Mhz, slept>>
    BY <1>2 DEF RateMeasured
  <1>3. ASSUME fsecs \/ ClockSet \/ SetParameter \/ UNCHANGED vars PROVE RateMeasured'
    BY <1>2, <1>3 DEF fsecs, ClockSet, SetParameter, vars
  <1>4. ASSUME NEW d, TimedRun(d) PROVE RateMeasured'
    BY <1>2, <1>4 DEF TimedRun
  <1>. QED BY <1>1, <1>2, <1>3, <1>4, NextCases

(***************************************************************************)
(* ftimer                                                                  *)
(***************************************************************************)
\* The difference of two struct timevals, field by field, is exact, also when
\* the later one has the smaller tv_usec.
LEMMA BetweenExact ==
    ASSUME NEW a \in Int, NEW b \in Int
    PROVE  Between(timeval(a), timeval(b)) = b - a
  <1> DEFINE aq == a \div USEC
             ar == a % USEC
             bq == b \div USEC
             br == b % USEC
  <1>1. USEC \in Nat \ {0}
    BY FTimerAssumption
  <1>2. aq \in Int /\ ar \in Int /\ a = USEC * aq + ar
    BY <1>1, DivMod
  <1>3. bq \in Int /\ br \in Int /\ b = USEC * bq + br
    BY <1>1, DivMod
  <1>4. Between(timeval(a), timeval(b)) = USEC * (bq - aq) + (br - ar)
    BY DEF Between, timeval
  <1> HIDE DEF aq, ar, bq, br
  <1>5. USEC * (0 + bq - aq) = USEC * 0 + USEC * bq - USEC * aq
    BY <1>1, <1>2, <1>3, Distribute
  <1>. QED BY <1>1, <1>2, <1>3, <1>4, <1>5

\* A time as seconds and microseconds.
LEMMA TimevalType ==
    ASSUME NEW a \in Int
    PROVE  timeval(a) \in [sec : Int, usec : Int]
  BY FTimerAssumption, DivMod DEF timeval

\* get_etime is the time the interval timer has run.
LEMMA EtimeExact ==
    ASSUME NEW left \in Int
    PROVE  MAX_ETIME * USEC \in Int /\ get_etime(left) = MAX_ETIME * USEC - left
  <1>1. MAX_ETIME * USEC \in Int
    BY FTimerAssumption
  <1>. QED BY <1>1, BetweenExact DEF get_etime, first_p

\* No measurement has been made.
LEMMA ElapsedInit == Init => ElapsedInv
  <1> SUFFICES ASSUME Init PROVE ElapsedInv
    OBVIOUS
  <1>1. timeval(0) \in [sec : Int, usec : Int]
    BY TimevalType
  <1>. QED BY <1>1 DEF Init, ElapsedInv, Measurements, NoMeasurement, ElapsedIsExact

\* ftimer's part of fsecs: the clock is read before the first run.
LEMMA ElapsedFsecs == ElapsedInv /\ fsecs => ElapsedInv'
  <1> SUFFICES ASSUME ElapsedInv, fsecs PROVE ElapsedInv'
    OBVIOUS
  <1>1. timeval(0) \in [sec : Int, usec : Int]
    BY TimevalType
  <1>2. timer' = timer /\ calls' \in Nat /\ timer \in {"fcyc", "itimer", "gettod"}
    BY DEF fsecs, ElapsedInv
  <1>3. CASE timer = "fcyc"
    BY <1>2, <1>3 DEF fsecs, BeginSampling, ElapsedInv, ElapsedIsExact
  <1>4. CASE timer = "gettod"
    <2>1. PICK now \in Now : ft' = gettod(now)
      BY <1>4 DEF fsecs
    <2>2. now \in Int /\ timeval(now) \in [sec : Int, usec : Int]
      BY FTimerAssumption, TimevalType
    <2>3. ft' = [now |-> now, left |-> 0, stv |-> timeval(now), start |-> 0,
                 runs |-> 0, took |-> 0, shift |-> 0]
      BY <2>1 DEF gettod, NoMeasurement
    <2>4. now - 0 - 0 = now
      BY <2>2
    <2>5. pc' = "timing"
      BY <1>4 DEF fsecs
    <2>. QED BY <1>2, <1>4, <2>2, <2>3, <2>4, <2>5 DEF ElapsedInv, Measurements, ElapsedIsExact
  <1>5. CASE timer = "itimer"
    <2>1. PICK delay \in Delays : ft' = itimer(delay)
      BY <1>5 DEF fsecs
    <2> DEFINE left == MAX_ETIME * USEC - delay
    <2>2. left \in Int /\ MAX_ETIME * USEC \in Int /\ get_etime(left) = MAX_ETIME * USEC - left
      <3>1. left \in Int
        BY FTimerAssumption
      <3>. QED BY <3>1, EtimeExact
    <2>3. ft' = [now |-> 0, left |-> left, stv |-> timeval(0),
                 start |-> MAX_ETIME * USEC - left, runs |-> 0, took |-> 0, shift |-> 0]
      BY <2>1, <2>2 DEF itimer, NoMeasurement
    <2>4. pc' = "timing"
      BY <1>5 DEF fsecs
    <2> HIDE DEF left
    <2>. QED BY <1>1, <1>2, <1>5, <2>2, <2>3, <2>4 DEF ElapsedInv, Measurements, ElapsedIsExact
  <1>. QED BY <1>2, <1>3, <1>4, <1>5

\* A timed run: the clock advances with the run, and the last difference is the
\* sum of all of them.
LEMMA ElapsedRun ==
    ASSUME ElapsedInv, NEW d \in RunTimes, TimedRun(d)
    PROVE  ElapsedInv'
  <1>1. d \in Int /\ MAX_ETIME * USEC \in Int
    BY FTimerAssumption
  <1>2. ft' = [ft EXCEPT !.now = ft.now + d, !.left = ft.left - d,
                         !.runs = ft.runs + 1, !.took = ft.took + d]
    BY DEF TimedRun, Ran
  <1>3. /\ ft' \in Measurements
        /\ ft'.now = ft.now + d /\ ft'.left = ft.left - d /\ ft'.took = ft.took + d
        /\ ft'.stv = ft.stv /\ ft'.start = ft.start /\ ft'.shift = ft.shift
    <2>1. ft \in Measurements
      BY DEF ElapsedInv
    <2>2. ft.now \in Int /\ ft.left \in Int /\ ft.runs \in Int /\ ft.took \in Int
      BY <2>1 DEF Measurements
    <2>3. ft.now + d \in Int /\ ft.left - d \in Int /\ ft.runs + 1 \in Int /\ ft.took + d \in Int
      BY <1>1, <2>2
    <2>4. ft' \in Measurements
      BY <1>2, <2>1, <2>3 DEF Measurements
    <2>5. /\ ft'.now = ft.now + d /\ ft'.left = ft.left - d /\ ft'.took = ft.took + d
          /\ ft'.stv = ft.stv /\ ft'.start = ft.start /\ ft'.shift = ft.shift
      BY <1>2, <2>1 DEF Measurements
    <2>. QED BY <2>4, <2>5
  <1>4. /\ pc = "timing" /\ timer' = timer /\ calls' = calls
        /\ pc' \in {"timing", "killed", "returned"}
    BY DEF TimedRun
  <1>5. timer \in {"itimer", "gettod"}
    BY <1>4 DEF ElapsedInv
  <1>6. /\ ft.now \in Int /\ ft.left \in Int /\ ft.took \in Int /\ ft.shift \in Int
        /\ ft.start \in Int
    BY DEF ElapsedInv, Measurements
  <1>7. timer = "gettod" =>
          /\ ft'.stv = timeval(ft'.now - ft'.took - ft'.shift)
          /\ gettod_result(ft') = ft'.took + ft'.shift
    <2> SUFFICES ASSUME timer = "gettod"
                 PROVE  /\ ft'.stv = timeval(ft'.now - ft'.took - ft'.shift)
                        /\ gettod_result(ft') = ft'.took + ft'.shift
      OBVIOUS
    <2> DEFINE first == ft.now - ft.took - ft.shift
    <2>1. ft.stv = timeval(first)
      BY <1>4 DEF ElapsedInv
    <2>2. first \in Int /\ ft'.now \in Int /\ ft'.now - ft'.took - ft'.shift = first
      BY <1>1, <1>3, <1>6
    <2>3. Between(ft'.stv, timeval(ft'.now)) = ft'.now - first
      <3> HIDE DEF first
      <3>. QED BY <1>3, <2>1, <2>2, BetweenExact
    <2>4. ft'.now - first = ft'.took + ft'.shift
      BY <1>1, <1>3, <1>6
    <2>. QED BY <1>3, <2>1, <2>2, <2>3, <2>4 DEF gettod_result
  <1>8. timer = "itimer" =>
          /\ ft'.start = MAX_ETIME * USEC - ft'.left - ft'.took
          /\ itimer_result(ft') = ft'.took
    <2> SUFFICES ASSUME timer = "itimer"
                 PROVE  /\ ft'.start = MAX_ETIME * USEC - ft'.left - ft'.took
                        /\ itimer_result(ft') = ft'.took
      OBVIOUS
    <2>1. ft.start = MAX_ETIME * USEC - ft.left - ft.took
      BY <1>4 DEF ElapsedInv
    <2>2. get_etime(ft'.left) = MAX_ETIME * USEC - ft'.left /\ ft'.left \in Int
      BY <1>1, <1>3, <1>6, EtimeExact
    <2>. QED BY <1>1, <1>3, <1>6, <2>1, <2>2 DEF itimer_result
  <1>9. ElapsedIsExact'
    <2> SUFFICES ASSUME pc' = "returned"
                 PROVE  result' = ft'.took + (IF timer = "gettod" THEN ft'.shift ELSE 0)
      BY <1>4 DEF ElapsedIsExact
    <2>1. result' = IF timer = "itimer" THEN itimer_result(ft') ELSE gettod_result(ft')
      BY DEF TimedRun
    <2>2. ft'.took + 0 = ft'.took
      BY <1>3 DEF Measurements
    <2>. QED BY <1>5, <1>7, <1>8, <2>1, <2>2
  <1>. QED BY <1>3, <1>4, <1>5, <1>7, <1>8, <1>9 DEF ElapsedInv

\* Every step keeps the measured times exact.
LEMMA ElapsedKept == ElapsedInv /\ [Next]_vars => ElapsedInv'
  <1> SUFFICES ASSUME ElapsedInv, [Next]_vars PROVE ElapsedInv'
    OBVIOUS
  <1>1. ASSUME NEW t, NEW c, init_fsecs(t, c) PROVE ElapsedInv'
    BY <1>1 DEF init_fsecs, ElapsedInv, ElapsedIsExact
  <1>2. CASE fsecs
    BY <1>2, ElapsedFsecs
  <1>3. ASSUME NEW d \in RunTimes, TimedRun(d) PROVE ElapsedInv'
    BY <1>3, ElapsedRun
  <1>4. CASE timer = "fcyc" /\ UNCHANGED <<timer, calls, ft>>
               /\ pc' \notin {"off", "timing"}
    BY <1>4 DEF ElapsedInv, ElapsedIsExact
  <1>5. ASSUME pc \in {"prepare", "calibrate", "run"} PROVE timer = "fcyc"
    BY <1>5 DEF ElapsedInv
  <1>6. ASSUME NEW fails, Prepare(fails), UNCHANGED <<timer, calls, ft>> PROVE ElapsedInv'
    BY <1>4, <1>5, <1>6 DEF Prepare
  <1>7. ASSUME NEW dt, NEW n, Calibrate(dt, n), UNCHANGED <<timer, calls, ft>>
        PROVE  ElapsedInv'
    BY <1>4, <1>5, <1>7 DEF Calibrate
  <1>8. ASSUME NEW t, NEW d, NEW n, Measure(t, d, n), UNCHANGED <<timer, calls, ft>>
        PROVE  ElapsedInv'
    BY <1>4, <1>5, <1>8 DEF Measure
  <1>9. CASE SetParameter
    <2>1. pc = "returned"
      BY <1>9 DEF SetParameter, Setting
    <2>. QED BY <1>4, <1>9, <2>1 DEF SetParameter
  <1>10. CASE ClockSet
    <2>1. /\ pc = "timing" /\ UNCHANGED <<pc, timer, calls, result>>
      BY <1>10 DEF ClockSet, fcycVars
    <2>2. PICK s \in ClockSteps : ft' = [ft EXCEPT !.now = ft.now + s, !.shift = ft.shift + s]
      BY <1>10 DEF ClockSet, SetClock
    <2>3. ft \in Measurements /\ s \in Int
      BY FTimerAssumption DEF ElapsedInv
    <2>4. ft.now \in Int /\ ft.took \in Int /\ ft.shift \in Int
      BY <2>3 DEF Measurements
    <2>5. ft.now + s \in Int /\ ft.shift + s \in Int
      BY <2>3, <2>4
    <2>6. /\ ft' \in Measurements /\ ft'.now = ft.now + s /\ ft'.shift = ft.shift + s
          /\ ft'.took = ft.took /\ ft'.stv = ft.stv /\ ft'.start = ft.start
          /\ ft'.left = ft.left
      BY <2>2, <2>3, <2>5 DEF Measurements
    <2>7. ft'.now - ft'.took - ft'.shift = ft.now - ft.took - ft.shift
      BY <2>3, <2>4, <2>6
    <2>. QED BY <2>1, <2>6, <2>7 DEF ElapsedInv, ElapsedIsExact
  <1>11. CASE UNCHANGED vars
    BY <1>11 DEF vars, fcycVars, ElapsedInv, ElapsedIsExact
  <1>. QED BY <1>1, <1>2, <1>3, <1>6, <1>7, <1>8, <1>9, <1>10, <1>11, NextCases

(***************************************************************************)
(* The theorems                                                            *)
(***************************************************************************)
\* The invariant of the timing code holds in every reachable state.
THEOREM TimingInvariance == Spec => []TimingInv
  <1>1. Init => TimingInv
    BY CacheInit, RateInit, ElapsedInit DEF TimingInv, RateMeasured, Init
  <1>2. TimingInv /\ [Next]_vars => TimingInv'
    BY CacheKept, RateKept, ElapsedKept, MeasuredKept DEF TimingInv
  <1>. QED BY <1>1, <1>2, PTL DEF Spec

\* clear never reads past its buffer: set_fcyc_cache_size and clear keep
\* cache_buf and cache_bytes in step, whatever is called in between.
THEOREM ClearInBuffer == Spec => []ClearStaysInBuffer
  <1>1. TimingInv => ClearStaysInBuffer
    BY DEF TimingInv, CacheInv, ClearStaysInBuffer
  <1>. QED BY <1>1, TimingInvariance, PTL

\* The charge per tick is the least ratio that callibrate ever recorded.
THEOREM RateCorrect == Spec => []RateIsLeast
  <1>1. TimingInv => RateIsLeast
    BY RateImplies DEF TimingInv
  <1>. QED BY <1>1, TimingInvariance, PTL

\* ftimer_gettod and ftimer_itimer return the time that the runs took; a change
\* of the wall clock shows in gettimeofday's answer only, with its full amount.
THEOREM ElapsedCorrect == Spec => []ElapsedIsExact
  <1>1. TimingInv => ElapsedIsExact
    BY DEF TimingInv, ElapsedInv
  <1>. QED BY <1>1, TimingInvariance, PTL

\* The clock rate that fsecs divides by is the number of cycles slept.
THEOREM MhzCorrect == Spec => []RateMeasured
  <1>1. TimingInv => RateMeasured
    BY DEF TimingInv
  <1>. QED BY <1>1, TimingInvariance, PTL

\* The charge per tick is a number.
LEMMA RateType == TimingInv => cyc_per_tick \in Int
  <1> SUFFICES ASSUME TimingInv PROVE cyc_per_tick \in Int
    OBVIOUS
  <1>1. CASE ratios = {}
    BY <1>1 DEF TimingInv, RateInv
  <1>2. CASE ratios # {}
    <2>1. cyc_per_tick \in ratios /\ ratios \subseteq Nat
      BY <1>2 DEF TimingInv, RateInv
    <2>. QED BY <2>1
  <1>. QED BY <1>1, <1>2

\* Every sample that fcyc hands to add_sample is what the run took, less the
\* charge for its ticks: the counter's wraps do not show, with or without
\* compensation.
THEOREM SampleExact ==
    ASSUME TimingInv, NEW t \in Stamps, NEW d \in Durations, NEW n \in Ticks
    PROVE  Sample(t, d, n) = Took(d, n)
  <1>1. d \in Stamps /\ d \in Int
    <2>1. d \in Stamps
      BY KBestAssumption
    <2>. QED BY <2>1 DEF Stamps
  <1>2. get_counter(access_counter(t), access_counter(After(t, d))) = d
    BY <1>1, GetCounterExact
  <1>3. cyc_per_tick \in Int
    BY RateType
  <1>4. d - 0 * cyc_per_tick = d
    BY <1>1, <1>3
  <1>. QED BY <1>2, <1>4 DEF Sample, Took, get_comp_counter

(***************************************************************************)
(* The samples in order                                                    *)
(***************************************************************************)
\* A set of numbers up to N has a largest.
LEMMA MaxUpTo ==
    ASSUME NEW N \in Nat, NEW S, S \subseteq 0 .. N, S # {}
    PROVE  Max(S) \in S /\ \A y \in S : y <= Max(S)
  <1> DEFINE T == {z \in 0 .. N : N - z \in S}
  <1>1. T \subseteq Nat /\ T # {}
    <2>1. PICK y \in S : TRUE
      OBVIOUS
    <2>2. N - y \in 0 .. N /\ N - (N - y) = y
      BY <2>1
    <2>. QED BY <2>1, <2>2
  <1>2. PICK m \in T : \A z \in T : m <= z
    <2> HIDE DEF T
    <2>. QED BY <1>1, LeastNumber
  <1>3. N - m \in S /\ \A y \in S : y <= N - m
    <2>1. N - m \in S /\ m \in 0 .. N
      BY <1>2
    <2>2. ASSUME NEW y \in S PROVE y <= N - m
      <3>1. y \in 0 .. N /\ N - y \in 0 .. N /\ N - (N - y) = y
        OBVIOUS
      <3>2. m <= N - y
        BY <1>2, <3>1
      <3>. QED BY <2>1, <3>1, <3>2
    <2>. QED BY <2>1, <2>2
  <1>. QED BY <1>3, Zenon DEF Max

\* In order of size.
Sorted(s) == \A a, b \in 1 .. Len(s) : a <= b => s[a] <= s[b]

\* The place of x in s: nothing up to "at" is larger, all after it is.
Splits(s, n, x, at) ==
    /\ at \in 0 .. n
    /\ \A j \in 1 .. n : IF j <= at THEN s[j] <= x ELSE x < s[j]

\* There is one such place only.
LEMMA SplitsOnce ==
    ASSUME NEW s, NEW n \in Nat, NEW x \in Int, \A j \in 1 .. n : s[j] \in Int,
           NEW a, Splits(s, n, x, a), NEW b, Splits(s, n, x, b)
    PROVE  a = b
  <1>0. a \in 0 .. n /\ b \in 0 .. n
    BY DEF Splits
  <1>1. ASSUME a < b PROVE FALSE
    <2>1. b \in 1 .. n /\ ~(b <= a) /\ b <= b
      BY <1>0, <1>1
    <2>. QED BY <2>1 DEF Splits
  <1>2. ASSUME b < a PROVE FALSE
    <2>1. a \in 1 .. n /\ ~(a <= b) /\ a <= a
      BY <1>0, <1>2
    <2>. QED BY <2>1 DEF Splits
  <1>. QED BY <1>0, <1>1, <1>2

\* InOrder puts the number into its place.
LEMMA InOrderIs ==
    ASSUME NEW s \in Seq(Int), Sorted(s), NEW x \in Int
    PROVE  \E at : /\ Splits(s, Len(s), x, at)
                   /\ InOrder(s, x) = [j \in 1 .. Len(s) + 1 |->
                         IF j <= at THEN s[j] ELSE IF j = at + 1 THEN x ELSE s[j - 1]]
  <1> DEFINE n == Len(s)
             S == {0} \cup {j \in 1 .. n : s[j] <= x}
             at == Max(S)
  <1>1. n \in Nat /\ S \subseteq 0 .. n /\ S # {}
    OBVIOUS
  <1>2. at \in S /\ \A y \in S : y <= at
    <2> HIDE DEF S
    <2>. QED BY <1>1, MaxUpTo
  <1>3. Splits(s, n, x, at)
    <2> HIDE DEF at
    <2>1. at \in 0 .. n
      BY <1>1, <1>2
    <2>2. ASSUME NEW j \in 1 .. n, j <= at PROVE s[j] <= x
      <3>1. at \in 1 .. n /\ s[at] <= x
        BY <1>2, <2>1, <2>2
      <3>2. s[j] <= s[at] /\ s[j] \in Int /\ s[at] \in Int
        BY <2>2, <3>1 DEF Sorted
      <3>. QED BY <3>1, <3>2
    <2>3. ASSUME NEW j \in 1 .. n, ~(j <= at) PROVE x < s[j]
      <3>1. j \notin S /\ s[j] \in Int
        BY <1>2, <2>3
      <3>. QED BY <3>1
    <2>. QED BY <2>1, <2>2, <2>3 DEF Splits
  <1>4. InOrder(s, x) = [j \in 1 .. Len(s) + 1 |->
            IF j <= at THEN s[j] ELSE IF j = at + 1 THEN x ELSE s[j - 1]]
    BY DEF InOrder
  <1> HIDE DEF at
  <1>. QED BY <1>3, <1>4

\* The insertion sort of add_sample moves the new sample into its place.
LEMMA SiftIs ==
    ASSUME NEW K \in Nat, NEW v \in [1 .. K -> Int], NEW pos \in 1 .. K,
           \A a, b \in 1 .. pos - 1 : a <= b => v[a] <= v[b]
    PROVE  \E at : /\ Splits(v, pos - 1, v[pos], at)
                   /\ Sift(v, pos) = [k \in 1 .. K |->
                         IF k <= at \/ k > pos THEN v[k]
                         ELSE IF k = at + 1 THEN v[pos] ELSE v[k - 1]]
  <1> DEFINE S == {k \in 1 .. pos : k = 1 \/ v[k - 1] <= v[pos]}
             stop == Max(S)
  <1>1. S \subseteq 0 .. K /\ 1 \in S
    OBVIOUS
  <1>2. stop \in S /\ \A y \in S : y <= stop
    <2> HIDE DEF S
    <2>. QED BY <1>1, MaxUpTo
  <1>3. Splits(v, pos - 1, v[pos], stop - 1)
    <2> HIDE DEF stop
    <2>1. stop \in 1 .. pos /\ stop - 1 \in 0 .. pos - 1
      BY <1>2
    <2>2. ASSUME NEW j \in 1 .. pos - 1, j <= stop - 1 PROVE v[j] <= v[pos]
      <3>1. stop - 1 \in 1 .. pos - 1 /\ v[stop - 1] <= v[pos]
        BY <1>2, <2>1, <2>2
      <3>2. v[j] <= v[stop - 1] /\ v[j] \in Int /\ v[stop - 1] \in Int /\ v[pos] \in Int
        BY <2>2, <3>1
      <3>. QED BY <3>1, <3>2
    <2>3. ASSUME NEW j \in 1 .. pos - 1, ~(j <= stop - 1) PROVE v[pos] < v[j]
      <3>1. j + 1 \in 1 .. pos /\ (j + 1) - 1 = j /\ j + 1 # 1 /\ ~(j + 1 <= stop)
        BY <2>1, <2>3
      <3>2. j + 1 \notin S
        BY <1>2, <3>1
      <3>3. v[j] \in Int /\ v[pos] \in Int
        OBVIOUS
      <3>. QED BY <3>1, <3>2, <3>3
    <2>. QED BY <2>1, <2>2, <2>3 DEF Splits
  <1>4. Sift(v, pos) = [k \in 1 .. K |->
                         IF k < stop \/ k > pos THEN v[k]
                         ELSE IF k = stop THEN v[pos] ELSE v[k - 1]]
    BY DEF Sift
  <1>5. stop \in Int
    <2> HIDE DEF stop
    <2>. QED BY <1>2
  <1> HIDE DEF stop
  <1>6. \A k \in 1 .. K : (k < stop <=> k <= stop - 1) /\ (k = stop <=> k = (stop - 1) + 1)
    BY <1>5
  <1>7. Sift(v, pos) = [k \in 1 .. K |->
                         IF k <= stop - 1 \/ k > pos THEN v[k]
                         ELSE IF k = (stop - 1) + 1 THEN v[pos] ELSE v[k - 1]]
    BY <1>4, <1>6
  <1>. QED BY <1>3, <1>7

\* A number more keeps the order.
LEMMA InOrderSorted ==
    ASSUME NEW s \in Seq(Int), Sorted(s), NEW x \in Int
    PROVE  /\ InOrder(s, x) \in Seq(Int) /\ Len(InOrder(s, x)) = Len(s) + 1
           /\ Sorted(InOrder(s, x))
  <1> DEFINE n == Len(s)
  <1>1. PICK at : /\ Splits(s, n, x, at)
                  /\ InOrder(s, x) = [j \in 1 .. n + 1 |->
                        IF j <= at THEN s[j] ELSE IF j = at + 1 THEN x ELSE s[j - 1]]
    BY InOrderIs
  <1>2. PICK t : t = InOrder(s, x)
    OBVIOUS
  <1>3. n \in Nat /\ at \in 0 .. n /\ \A j \in 1 .. n : s[j] \in Int
    BY <1>1 DEF Splits
  <1>4. ASSUME NEW j \in 1 .. n + 1 PROVE t[j] \in Int
    BY <1>1, <1>2, <1>3, <1>4
  <1>5. t \in Seq(Int) /\ Len(t) = n + 1
    <2>1. t \in [1 .. n + 1 -> Int]
      BY <1>1, <1>2, <1>4
    <2>. QED BY <1>3, <2>1
  <1>6. ASSUME NEW a \in 1 .. n + 1, NEW b \in 1 .. n + 1, a <= b PROVE t[a] <= t[b]
    <2>1. \A j \in 1 .. n : IF j <= at THEN s[j] <= x ELSE x < s[j]
      BY <1>1 DEF Splits
    <2>2. \A p, q \in 1 .. n : p <= q => s[p] <= s[q]
      BY DEF Sorted
    <2>3. t[a] = IF a <= at THEN s[a] ELSE IF a = at + 1 THEN x ELSE s[a - 1]
      BY <1>1, <1>2
    <2>4. t[b] = IF b <= at THEN s[b] ELSE IF b = at + 1 THEN x ELSE s[b - 1]
      BY <1>1, <1>2
    <2>5. CASE b <= at
      <3>1. a <= at /\ a \in 1 .. n /\ b \in 1 .. n
        BY <1>3, <1>6, <2>5
      <3>. QED BY <1>6, <2>2, <2>3, <2>4, <2>5, <3>1
    <2>6. CASE b = at + 1
      <3>1. a = at + 1 \/ (a <= at /\ a \in 1 .. n)
        BY <1>3, <1>6, <2>6
      <3>. QED BY <1>3, <2>1, <2>3, <2>4, <2>6, <3>1
    <2>7. CASE b > at + 1
      <3>1. b - 1 \in 1 .. n /\ b - 1 > at /\ t[b] = s[b - 1] /\ s[b - 1] \in Int
        BY <1>3, <2>4, <2>7
      <3>2. CASE a <= at
        <4>1. a \in 1 .. n /\ a <= b - 1
          BY <1>3, <3>1, <3>2
        <4>. QED BY <2>2, <2>3, <3>1, <3>2, <4>1
      <3>3. CASE a = at + 1
        <4>1. ~(a <= at)
          BY <1>3, <3>3
        <4>2. x < s[b - 1]
          BY <1>3, <2>1, <3>1
        <4>. QED BY <2>3, <3>1, <3>3, <4>1, <4>2
      <3>4. CASE a > at + 1
        <4>1. a - 1 \in 1 .. n /\ a - 1 <= b - 1 /\ t[a] = s[a - 1]
          BY <1>3, <1>6, <2>3, <3>1, <3>4
        <4>. QED BY <2>2, <3>1, <4>1
      <3>. QED BY <1>3, <3>2, <3>3, <3>4
    <2>. QED BY <1>3, <2>5, <2>6, <2>7
  <1>. QED BY <1>2, <1>5, <1>6 DEF Sorted

\* The array holds what comes first in s.
Holds(v, K, s) == v \in [1 .. K -> Int] /\ \A j \in 1 .. K : j <= Len(s) => v[j] = s[j]

\* A new sample is sorted in where it belongs among all samples.
LEMMA PlaceSame ==
    ASSUME NEW K \in Nat, NEW s \in Seq(Int), Sorted(s), NEW x \in Int,
           NEW v, Holds(v, K, s),
           NEW pos \in 1 .. K, pos - 1 <= Len(s),
           pos = Len(s) + 1 \/ (pos <= Len(s) /\ pos = K /\ x < s[K])
    PROVE  Holds(Sift([v EXCEPT ![pos] = x], pos), K, InOrder(s, x))
  <1> DEFINE n == Len(s)
  <1>1. PICK u : u = [v EXCEPT ![pos] = x]
    OBVIOUS
  <1>2. /\ u \in [1 .. K -> Int] /\ u[pos] = x /\ n \in Nat
        /\ \A j \in 1 .. K : j # pos => u[j] = v[j]
    BY <1>1 DEF Holds
  <1>3. \A j \in 1 .. pos - 1 : u[j] = s[j] /\ j \in 1 .. n /\ s[j] \in Int /\ j \in 1 .. K
    <2> TAKE j \in 1 .. pos - 1
    <2>1. j \in 1 .. K /\ j # pos /\ j \in 1 .. n
      BY <1>2
    <2>. QED BY <1>2, <2>1 DEF Holds
  <1>4. \A a, b \in 1 .. pos - 1 : a <= b => u[a] <= u[b]
    BY <1>3 DEF Sorted
  <1>5. PICK p : /\ Splits(u, pos - 1, u[pos], p)
                 /\ Sift(u, pos) = [k \in 1 .. K |->
                       IF k <= p \/ k > pos THEN u[k]
                       ELSE IF k = p + 1 THEN u[pos] ELSE u[k - 1]]
    BY <1>2, <1>4, SiftIs
  <1>6. PICK at : /\ Splits(s, n, x, at)
                  /\ InOrder(s, x) = [j \in 1 .. n + 1 |->
                        IF j <= at THEN s[j] ELSE IF j = at + 1 THEN x ELSE s[j - 1]]
    BY InOrderIs
  <1>7. at \in 0 .. n /\ at <= pos - 1
    <2>1. at \in 0 .. n
      BY <1>6 DEF Splits
    <2>2. CASE pos = n + 1
      BY <2>1, <2>2
    <2>3. CASE pos <= n /\ pos = K /\ x < s[K]
      <3>1. K \in 1 .. n /\ s[K] \in Int
        BY <1>2, <2>3
      <3>2. ~(K <= at)
        BY <1>6, <2>3, <3>1 DEF Splits
      <3>. QED BY <2>1, <2>3, <3>2
    <2>. QED BY <1>2, <2>1, <2>2, <2>3
  <1>8. Splits(s, pos - 1, x, at)
    BY <1>3, <1>6, <1>7 DEF Splits
  <1>9. Splits(s, pos - 1, x, p) /\ p \in 0 .. pos - 1
    BY <1>2, <1>3, <1>5 DEF Splits
  <1>10. p = at
    <2>1. pos - 1 \in Nat /\ \A j \in 1 .. pos - 1 : s[j] \in Int
      BY <1>3
    <2>. QED BY <1>8, <1>9, <2>1, SplitsOnce
  <1>11. PICK t : t = InOrder(s, x)
    OBVIOUS
  <1>12. Len(t) = n + 1
    BY <1>11, InOrderSorted
  <1>13. PICK w : w = Sift(u, pos)
    OBVIOUS
  <1>14. w \in [1 .. K -> Int]
    <2>1. ASSUME NEW k \in 1 .. K PROVE w[k] \in Int
      <3>1. w[k] = IF k <= p \/ k > pos THEN u[k] ELSE IF k = p + 1 THEN u[pos] ELSE u[k - 1]
        BY <1>5, <1>13
      <3>2. k > p + 1 => k - 1 \in 1 .. K
        BY <1>9
      <3>. QED BY <1>2, <1>9, <3>1, <3>2
    <2>. QED BY <1>5, <1>13, <2>1
  <1>15. ASSUME NEW k \in 1 .. K, k <= n + 1 PROVE w[k] = t[k]
    <2>1. w[k] = IF k <= at \/ k > pos THEN u[k] ELSE IF k = at + 1 THEN x ELSE u[k - 1]
      BY <1>2, <1>5, <1>10, <1>13
    <2>2. t[k] = IF k <= at THEN s[k] ELSE IF k = at + 1 THEN x ELSE s[k - 1]
      BY <1>2, <1>6, <1>11, <1>15
    <2>3. k <= pos
      BY <1>2, <1>15
    <2>4. CASE k <= at
      <3>1. k \in 1 .. pos - 1
        BY <1>7, <2>4
      <3>. QED BY <1>3, <2>1, <2>2, <2>4, <3>1
    <2>5. CASE k = at + 1
      BY <1>7, <2>1, <2>2, <2>3, <2>5
    <2>6. CASE k > at + 1
      <3>1. k - 1 \in 1 .. pos - 1 /\ ~(k <= at) /\ ~(k > pos) /\ k # at + 1
        BY <1>7, <2>3, <2>6
      <3>. QED BY <1>3, <2>1, <2>2, <3>1
    <2>. QED BY <1>7, <2>4, <2>5, <2>6
  <1>. QED BY <1>1, <1>11, <1>12, <1>13, <1>14, <1>15 DEF Holds

\* add_sample keeps the first of all samples in order.
LEMMA StoredHolds ==
    ASSUME par.kbest \in Nat \ {0}, NEW s \in Seq(Int), Sorted(s), NEW x \in Int,
           NEW v, Holds(v, par.kbest, s)
    PROVE  Holds(Stored(v, Len(s), x), par.kbest, InOrder(s, x))
  <1> DEFINE K == par.kbest
             n == Len(s)
  <1>0. K \in Nat \ {0} /\ n \in Nat
    OBVIOUS
  <1>1. CASE n < K
    <2>1. n + 1 \in 1 .. K /\ (n + 1) - 1 <= n
      BY <1>0, <1>1
    <2>2. Holds(Sift([v EXCEPT ![n + 1] = x], n + 1), K, InOrder(s, x))
      <3> HIDE DEF K
      <3>. QED BY <1>0, <2>1, PlaceSame DEF K
    <2>. QED BY <1>1, <2>2 DEF Stored
  <1>2. CASE ~(n < K) /\ x < v[K]
    <2>1. K \in 1 .. K /\ K - 1 <= n /\ K <= n /\ v[K] = s[K]
      BY <1>0, <1>2 DEF Holds
    <2>2. Holds(Sift([v EXCEPT ![K] = x], K), K, InOrder(s, x))
      <3>1. K \in Nat /\ x < s[K]
        BY <1>0, <1>2, <2>1
      <3> HIDE DEF K
      <3>. QED BY <2>1, <3>1, PlaceSame DEF K
    <2>. QED BY <1>2, <2>2 DEF Stored
  <1>3. CASE ~(n < K) /\ ~(x < v[K])
    <2>1. PICK at : /\ Splits(s, n, x, at)
                    /\ InOrder(s, x) = [j \in 1 .. n + 1 |->
                          IF j <= at THEN s[j] ELSE IF j = at + 1 THEN x ELSE s[j - 1]]
      BY InOrderIs
    <2>2. K \in 1 .. n /\ v[K] = s[K] /\ s[K] \in Int
      BY <1>0, <1>3 DEF Holds
    <2>3. at \in 0 .. n /\ K <= at
      BY <1>3, <2>1, <2>2 DEF Splits
    <2>4. ASSUME NEW j \in 1 .. K PROVE v[j] = InOrder(s, x)[j]
      <3>1. j \in 1 .. n + 1 /\ j <= at /\ j <= n
        BY <1>0, <2>2, <2>3
      <3>. QED BY <2>1, <3>1 DEF Holds
    <2>5. Stored(v, n, x) = v
      BY <1>3 DEF Stored
    <2>. QED BY <2>4, <2>5 DEF Holds
  <1>. QED BY <1>1, <1>2, <1>3

(***************************************************************************)
(* fcyc's loop                                                             *)
(***************************************************************************)
Sampling == pc \in {"prepare", "calibrate", "run"}

\* While fcyc samples, the array holds the first of the samples in order, and they
\* are as many as samplecount says.
SamplesInv ==
    Sampling => /\ seen \in Seq(Int) /\ Sorted(seen)
                /\ Len(seen) = samplecount /\ samplecount < par.maxsamples
                /\ Holds(values, par.kbest, seen)

\* What a run adds: the array after add_sample is the first of all samples.
LEMMA MeasureAdds ==
    ASSUME TimingInv, SamplesInv, NEW t \in Stamps, NEW d \in Durations, NEW n \in Ticks,
           Measure(t, d, n)
    PROVE  \E v : /\ seen' \in Seq(Int) /\ Sorted(seen')
                  /\ Len(seen') = samplecount + 1 /\ samplecount' = samplecount + 1
                  /\ samplecount \in Nat
                  /\ Holds(v, par.kbest, seen')
                  /\ IF has_converged(v, samplecount + 1) \/ samplecount + 1 >= par.maxsamples
                     THEN pc' = "returned" /\ result' = v[1]
                     ELSE pc' = "prepare" /\ values' = v
  <1> DEFINE x == Took(d, n)
             v == Stored(values, samplecount, Sample(t, d, n))
  <1>1. Sample(t, d, n) = x
    BY SampleExact
  <1>2. x \in Int
    <2>1. d \in Int /\ n \in Int
      BY KBestAssumption DEF Stamps
    <2>2. cyc_per_tick \in Int
      BY RateType
    <2>3. n * cyc_per_tick \in Int
      BY <2>1, <2>2
    <2>. QED BY <2>1, <2>3 DEF Took
  <1>3. /\ seen \in Seq(Int) /\ Sorted(seen) /\ Len(seen) = samplecount
        /\ samplecount < par.maxsamples /\ Holds(values, par.kbest, seen)
    BY DEF Measure, SamplesInv, Sampling
  <1>4. par.kbest \in Nat \ {0}
    BY DEF TimingInv, CacheInv, ParRecords
  <1>5. /\ seen' = InOrder(seen, x) /\ samplecount' = samplecount + 1
        /\ IF has_converged(v, samplecount + 1) \/ samplecount + 1 >= par.maxsamples
           THEN pc' = "returned" /\ result' = v[1]
           ELSE pc' = "prepare" /\ values' = v
    BY <1>3 DEF Measure, Counted
  <1> HIDE DEF x
  <1>6. v = Stored(values, Len(seen), x)
    BY <1>1, <1>3
  <1> HIDE DEF v
  <1>7. Holds(v, par.kbest, InOrder(seen, x))
    BY <1>2, <1>3, <1>4, <1>6, StoredHolds
  <1>8. /\ InOrder(seen, x) \in Seq(Int) /\ Len(InOrder(seen, x)) = Len(seen) + 1
        /\ Sorted(InOrder(seen, x))
    BY <1>2, <1>3, InOrderSorted
  <1>9. samplecount \in Nat
    BY <1>3
  <1>. QED BY <1>3, <1>5, <1>7, <1>8, <1>9

\* Every step keeps it.
LEMMA SamplesKept == TimingInv /\ SamplesInv /\ [Next]_vars => SamplesInv'
  <1> SUFFICES ASSUME TimingInv, SamplesInv, [Next]_vars PROVE SamplesInv'
    OBVIOUS
  <1>1. CASE pc' \notin {"prepare", "calibrate", "run"}
    BY <1>1 DEF SamplesInv, Sampling
  <1>2. CASE Sampling /\ UNCHANGED <<par, values, samplecount, seen>>
    BY <1>2 DEF SamplesInv, Sampling, Sorted, Holds
  <1>3. CASE fsecs
    <2>1. CASE timer = "fcyc"
      <3>1. /\ values' = [k \in 1 .. par.kbest |-> 0] /\ samplecount' = 0 /\ seen' = <<>>
            /\ par' = par
        BY <1>3, <2>1 DEF fsecs, BeginSampling, NoValues
      <3>2. <<>> \in Seq(Int) /\ Len(<<>>) = 0
        OBVIOUS
      <3>3. Sorted(<<>>)
        BY <3>2 DEF Sorted
      <3>4. par.maxsamples \in Nat \ {0} /\ par.kbest \in Nat
        BY DEF TimingInv, CacheInv, ParRecords
      <3>5. Holds(values', par.kbest, <<>>)
        BY <3>1, <3>2, <3>4 DEF Holds
      <3>. QED BY <3>1, <3>2, <3>3, <3>4, <3>5 DEF SamplesInv, Sorted, Holds
    <2>2. CASE timer # "fcyc"
      BY <1>1, <1>3, <2>2 DEF fsecs
    <2>. QED BY <2>1, <2>2
  <1>4. ASSUME NEW t \in Stamps, NEW d \in Durations, NEW n \in Ticks, Measure(t, d, n)
        PROVE  SamplesInv'
    <2>1. PICK v : /\ seen' \in Seq(Int) /\ Sorted(seen')
                   /\ Len(seen') = samplecount + 1 /\ samplecount' = samplecount + 1
                   /\ samplecount \in Nat
                   /\ Holds(v, par.kbest, seen')
                   /\ IF has_converged(v, samplecount + 1) \/ samplecount + 1 >= par.maxsamples
                      THEN pc' = "returned" /\ result' = v[1]
                      ELSE pc' = "prepare" /\ values' = v
      BY <1>4, MeasureAdds
    <2>2. par' = par /\ par.maxsamples \in Nat
      BY <1>4 DEF Measure, TimingInv, CacheInv, ParRecords
    <2>3. CASE has_converged(v, samplecount + 1) \/ samplecount + 1 >= par.maxsamples
      BY <1>1, <2>1, <2>3
    <2>4. CASE ~(has_converged(v, samplecount + 1) \/ samplecount + 1 >= par.maxsamples)
      <3>1. values' = v /\ samplecount' < par.maxsamples
        BY <2>1, <2>2, <2>4
      <3>. QED BY <2>1, <2>2, <3>1 DEF SamplesInv, Sorted, Holds
    <2>. QED BY <2>3, <2>4
  <1>5. ASSUME NEW t, NEW c, init_fsecs(t, c) PROVE SamplesInv'
    BY <1>1, <1>5 DEF init_fsecs
  <1>6. ASSUME NEW fails, Prepare(fails) PROVE SamplesInv'
    BY <1>2, <1>6 DEF Prepare, Sampling
  <1>7. ASSUME NEW dt, NEW n, Calibrate(dt, n) PROVE SamplesInv'
    BY <1>2, <1>7 DEF Calibrate, fcycVars, Sampling
  <1>8. ASSUME NEW d, TimedRun(d) PROVE SamplesInv'
    BY <1>1, <1>8 DEF TimedRun
  <1>9. CASE ClockSet \/ SetParameter
    BY <1>1, <1>9 DEF ClockSet, SetParameter, Setting
  <1>10. CASE UNCHANGED vars
    BY <1>1, <1>2, <1>10 DEF vars, fcycVars, Sampling
  <1>. QED BY <1>3, <1>4, <1>5, <1>6, <1>7, <1>8, <1>9, <1>10, NextCases

\* The smaller of two.
LEMMA MinOfTwo ==
    ASSUME NEW a \in Int, NEW b \in Int
    PROVE  Min({a, b}) = IF a <= b THEN a ELSE b
  <1> DEFINE c == IF a <= b THEN a ELSE b
  <1>1. c \in {a, b} /\ \A y \in {a, b} : c <= y
    OBVIOUS
  <1>2. ASSUME NEW z \in {a, b}, \A y \in {a, b} : z <= y PROVE z = c
    BY <1>2
  <1>. QED BY <1>1, <1>2 DEF Min

\* The invariant says that the kbest shortest runs are kept.
LEMMA SamplesImply == TimingInv /\ SamplesInv => KeepsSmallest
  <1> SUFFICES ASSUME TimingInv, SamplesInv, Sampling
               PROVE  LET k == Min({par.kbest, Len(seen)})
                      IN  \A j \in 1 .. k : values[j] = Smallest(k)[j]
    BY DEF KeepsSmallest, Sampling
  <1>1. PICK k : k = Min({par.kbest, Len(seen)})
    OBVIOUS
  <1>2. seen \in Seq(Int) /\ Len(seen) \in Nat /\ Holds(values, par.kbest, seen)
        /\ par.kbest \in Nat
    BY DEF SamplesInv, TimingInv, CacheInv, ParRecords
  <1>3. k \in Nat /\ k <= par.kbest /\ k <= Len(seen)
    BY <1>1, <1>2, MinOfTwo
  <1>4. ASSUME NEW j \in 1 .. k PROVE values[j] = Smallest(k)[j]
    <2>1. j \in 1 .. par.kbest /\ j <= Len(seen)
      BY <1>2, <1>3
    <2>2. SubSeq(seen, 1, k)[j] = seen[j]
      BY <1>2, <1>3
    <2>. QED BY <1>2, <2>1, <2>2 DEF Holds, Smallest
  <1>. QED BY <1>1, <1>4

\* What fcyc returns.
LEMMA ReturnsFastest ==
    ASSUME TimingInv, TimingInv', SamplesInv, [Next]_vars, pc = "run", pc' = "returned"
    PROVE  FastestMeasured'
  <1>1. PICK t \in Stamps, d \in Durations, n \in Ticks : Measure(t, d, n)
    BY NextCases DEF init_fsecs, fsecs, Prepare, Calibrate, TimedRun, ClockSet,
                     SetParameter, Setting, vars
  <1>2. PICK v : /\ seen' \in Seq(Int) /\ Sorted(seen')
                 /\ Len(seen') = samplecount + 1 /\ samplecount' = samplecount + 1
                 /\ samplecount \in Nat
                 /\ Holds(v, par.kbest, seen')
                 /\ IF has_converged(v, samplecount + 1) \/ samplecount + 1 >= par.maxsamples
                    THEN pc' = "returned" /\ result' = v[1]
                    ELSE pc' = "prepare" /\ values' = v
    BY <1>1, MeasureAdds
  <1>3. PICK s : s = seen'
    OBVIOUS
  <1>4. /\ par' = par /\ par.kbest \in Nat \ {0} /\ par.epsilon \in Nat
        /\ par.maxsamples \in Nat
    BY <1>1 DEF Measure, TimingInv, CacheInv, ParRecords
  <1>5. /\ s \in Seq(Int) /\ Len(s) \in Nat /\ Len(s) >= 1 /\ s[1] \in Int
        /\ result' = s[1]
    BY <1>2, <1>3, <1>4 DEF Holds
  <1>6. Min(Range(s)) = s[1]
    <2>1. s[1] \in Range(s) /\ \A y \in Range(s) : s[1] <= y
      <3>1. Sorted(s)
        BY <1>2, <1>3
      <3>2. DOMAIN s = 1 .. Len(s) /\ 1 \in 1 .. Len(s)
        BY <1>5
      <3>3. s[1] \in Range(s)
        BY <3>2 DEF Range
      <3>4. ASSUME NEW y \in Range(s) PROVE s[1] <= y
        <4>1. PICK b \in 1 .. Len(s) : y = s[b]
          BY <3>2 DEF Range
        <4>2. 1 <= b
          BY <1>5
        <4>. QED BY <3>1, <3>2, <4>1, <4>2 DEF Sorted
      <3>. QED BY <3>3, <3>4
    <2>2. \A y \in Range(s) : y \in Int
      BY <1>5 DEF Range
    <2>3. ASSUME NEW z \in Range(s), \A y \in Range(s) : z <= y PROVE z = s[1]
      BY <1>5, <2>1, <2>2, <2>3
    <2>. QED BY <2>1, <2>3 DEF Min
  <1>7. ASSUME Len(s) < par.maxsamples
        PROVE  /\ Len(s) >= par.kbest
               /\ 100 * (SubSeq(s, 1, par.kbest)[par.kbest] - s[1]) <= par.epsilon * s[1]
    <2> DEFINE K == par.kbest
               e == par.epsilon
    <2>1. has_converged(v, samplecount + 1)
      <3>1. ~(samplecount + 1 >= par.maxsamples)
        BY <1>2, <1>3, <1>4, <1>7
      <3>2. pc' # "prepare"
        OBVIOUS
      <3>. QED BY <1>2, <3>1, <3>2, Zenon
    <2>2. K <= Len(s) /\ (100 + e) * v[1] >= 100 * v[K]
      BY <1>2, <1>3, <2>1 DEF has_converged
    <2>3. v[1] = s[1] /\ v[K] = s[K] /\ SubSeq(s, 1, K)[K] = s[K] /\ s[K] \in Int
      <3>1. K \in 1 .. Len(s) /\ 1 \in 1 .. K /\ K \in 1 .. K
        BY <1>4, <1>5, <2>2
      <3>2. s[K] \in Int /\ SubSeq(s, 1, K)[K] = s[K]
        BY <1>5, <3>1
      <3>. QED BY <1>2, <1>3, <1>5, <2>2, <3>1, <3>2 DEF Holds
    <2>4. PICK a \in Int, b \in Int : a = s[1] /\ b = s[K]
      BY <1>5, <2>3
    <2>5. (100 + e) * a = 100 * a + e * a /\ e * a \in Int
      BY <1>4, <2>4
    <2>6. (100 + e) * a >= 100 * b
      BY <2>2, <2>3, <2>4
    <2>7. 100 * (b - a) <= e * a
      BY <1>4, <2>4, <2>5, <2>6
    <2>. QED BY <1>5, <1>4, <2>2, <2>3, <2>4, <2>7
  <1>8. (Mhz = slept)'
    BY DEF TimingInv, RateMeasured
  <1>. QED BY <1>3, <1>4, <1>5, <1>6, <1>7, <1>8 DEF FastestMeasured, Smallest

\* add_sample and init_sampler keep the array in step with the runs of the call.
THEOREM SamplesInvariance == Spec => []SamplesInv
  <1>1. Init => SamplesInv
    BY DEF Init, SamplesInv, Sampling
  <1>. QED BY <1>1, SamplesKept, TimingInvariance, PTL DEF Spec

\* KeepsSmallest: add_sample's insertion keeps the kbest shortest runs of this call,
\* in order, for every kbest, number of samples and order in which they come.
THEOREM SmallestCorrect == Spec => []KeepsSmallest
  BY SamplesInvariance, TimingInvariance, SamplesImply, PTL

\* ResultIsFastest: fcyc returns what its fastest run took, and returns before the
\* sample limit only when the kbest fastest agree within epsilon.
THEOREM FastestCorrect == Spec => ResultIsFastest
  <1>1. TimingInv /\ TimingInv' /\ SamplesInv /\ [Next]_vars
           => [pc = "run" /\ pc' = "returned" => FastestMeasured']_vars
    BY ReturnsFastest
  <1>. QED BY <1>1, SamplesInvariance, TimingInvariance, PTL DEF Spec, ResultIsFastest
=============================================================================
