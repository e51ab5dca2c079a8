------------------------------- MODULE MCBlocks -------------------------------
(***************************************************************************)
(* MMBlocks for TLC: a page of a few words, so that a handful of calls     *)
(* splits, merges, extends and exhausts the heap.                          *)
(***************************************************************************)
EXTENDS MMPromise, TLC

\* Which index holds a block does not matter to the allocator.
IdSymmetry == Permutations(Ids)
=============================================================================
