------------------------------ MODULE Allocator ------------------------------
(***************************************************************************)
(* What malloc, realloc and free promise to their caller: the requirements *)
(* that the driver's eval_mm_valid and add_range test on a trace.          *)
(*                                                                         *)
(* The caller keeps, per trace index, the pointer and the size of the      *)
(* block it holds (trace->blocks, trace->block_sizes).  A call that        *)
(* returns NULL changes nothing for the caller: it is a stuttering step.   *)
(***************************************************************************)
EXTENDS Integers

CONSTANTS Ids, Requests, MAX_HEAP

VARIABLES blocks, block_sizes

vars == <<blocks, block_sizes>>

NULL == 0

Live == {i \in Ids : blocks[i] # NULL}

\* The n bytes at p lie in the heap, are aligned, and touch no byte of "others".
MayPlace(p, n, others) ==
    /\ p % 8 = 0
    /\ p + n <= MAX_HEAP
    /\ \A j \in others : p + n <= blocks[j] \/ blocks[j] + block_sizes[j] <= p

Give(i, p, n) ==
    /\ blocks' = [blocks EXCEPT ![i] = p]
    /\ block_sizes' = [block_sizes EXCEPT ![i] = n]

Malloc(i, n) ==
    /\ i \notin Live
    /\ \E p \in 1 .. MAX_HEAP : MayPlace(p, n, Live) /\ Give(i, p, n)

Realloc(i, n) ==
    /\ i \in Live
    /\ \E p \in 1 .. MAX_HEAP : MayPlace(p, n, Live \ {i}) /\ Give(i, p, n)

Free(i) ==
    /\ i \in Live
    /\ Give(i, NULL, 0)

Init ==
    /\ blocks = [i \in Ids |-> NULL]
    /\ block_sizes = [i \in Ids |-> 0]

Next ==
    \/ \E i \in Ids, n \in Requests \ {0} : Malloc(i, n) \/ Realloc(i, n)
    \/ \E i \in Ids : Free(i)

Spec == Init /\ [][Next]_vars
=============================================================================
