------------------------------ MODULE MCEvalUtil ------------------------------
(***************************************************************************)
(* EvalUtil on the small arena of MCBlocks.                                *)
(***************************************************************************)
EXTENDS EvalUtil, MMPromise, TLC

IdSymmetry == Permutations(Ids)
=============================================================================
