------------------------------ MODULE MMPromise ------------------------------
(***************************************************************************)
(* mm.c, at the level of blocks, as an implementation of Allocator.        *)
(***************************************************************************)
EXTENDS MMBlocks

\* The calls keep the promise of an allocator: aligned payloads inside the
\* arena that share no byte with a payload the caller still holds.
Promise == INSTANCE Allocator
KeepsPromise == Promise!Spec
=============================================================================
