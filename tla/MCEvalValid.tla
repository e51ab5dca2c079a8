----------------------------- MODULE MCEvalValid -----------------------------
(***************************************************************************)
(* EvalValid on a heap of three 8-byte cells.  The answers include a NULL, *)
(* a misaligned pointer and a pointer past the heap.                       *)
(***************************************************************************)
EXTENDS EvalValid
=============================================================================
