------------------------------ MODULE RangeList ------------------------------
(***************************************************************************)
(* mdriver.c's range list: the extents of the payloads that a trace holds, *)
(* newest first.  The heap's extent, from mem_heap_lo() to mem_heap_hi(),  *)
(* is a parameter: it grows while a trace is replayed.                     *)
(***************************************************************************)
EXTENDS Integers, Sequences, FiniteSetsExt, Functions

ALIGNMENT == 8

RangeOf(lo, size) == [lo |-> lo, hi |-> lo + size - 1]

Within(r) == r.lo .. r.hi
Overlap(r, s) == r.lo <= s.hi /\ s.lo <= r.hi

\* The overlap test: does an end of r lie in p?
EndInside(r, p) == r.lo \in Within(p) \/ r.hi \in Within(p)

\* A faulty variant whose range ends one byte late.
Acceptable_Long(rs, r, extent) ==
    /\ r.lo % ALIGNMENT = 0
    /\ r.lo \in Within(extent) /\ r.hi + 1 \in Within(extent)
    /\ \A p \in Range(rs) : ~EndInside([r EXCEPT !.hi = @ + 1], p)

\* add_range's three tests: aligned, inside the heap, apart from the others.
Acceptable(rs, r, extent) ==
    /\ r.lo % ALIGNMENT = 0
    /\ r.lo \in Within(extent) /\ r.hi \in Within(extent)
    /\ \A p \in Range(rs) : ~EndInside(r, p)

\* The outcome and the new list.  add_range asserts size > 0.
add_range(rs, lo, size, extent) ==
    LET r == RangeOf(lo, size)
        ok == Acceptable(rs, r, extent)
    IN  [ok |-> ok, ranges |-> IF ok THEN <<r>> \o rs ELSE rs]

\* A faulty variant that drops the newest record instead of the block's own.
remove_range_Newest(rs, lo) == IF rs = <<>> THEN rs ELSE Tail(rs)

\* The first record that starts at lo; no record, no change.
remove_range(rs, lo) ==
    LET at == {k \in 1 .. Len(rs) : rs[k].lo = lo}
    IN  IF at = {} THEN rs
        ELSE SubSeq(rs, 1, Min(at) - 1) \o SubSeq(rs, Min(at) + 1, Len(rs))

\* A faulty variant that leaves the records of the trace before.
clear_ranges_Keep(rs) == rs

clear_ranges(rs) == <<>>
=============================================================================
