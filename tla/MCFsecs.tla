------------------------------- MODULE MCFsecs -------------------------------
(***************************************************************************)
(* Fsecs with a counter of two 2-bit words.  Runs of 5 and 6 cycles agree  *)
(* within epsilon, others do not; a tick's charge may exceed the run.      *)
(***************************************************************************)
EXTENDS Fsecs

Parameters ==
    [kbest |-> 2, maxsamples |-> 4, epsilon |-> 25, compensate |-> FALSE,
     clear_cache |-> FALSE, cache_bytes |-> 16, cache_block |-> 8]

Steps == {-5, 3}
=============================================================================
