------------------------------- MODULE MCSizes -------------------------------
(***************************************************************************)
(* The size arithmetic of MMSizes against its reference definitions, for   *)
(* every value n of a size_t of SIZE_MOD values.                           *)
(***************************************************************************)
EXTENDS MMSizes

VARIABLE n

Init == n = 0
Next == n + 1 < SIZE_MOD /\ n' = n + 1
Spec == Init /\ [][Next]_n

\* ADJUST_BYTESIZE, with its detour over an odd number of words, gives the
\* least block size that holds the payload and its header.
AdjustedSizeIsLeast ==
    n <= LARGEST => ADJUST_BYTESIZE(n) = LeastBlockSize(n)

\* The loop of calc_list_index finds the power of two below a size, and the
\* last list takes all larger sizes.
ListClassIsLog ==
    LET i == calc_list_index(n)
    IN  n > 0 => /\ 2^i <= n
                 /\ n < 2^(i + 1) \/ i = FREELIST_COUNT - 1
=============================================================================
