----------------------------- MODULE CycleCounter -----------------------------
(***************************************************************************)
(* clock.c's cycle counter: the 64-bit time stamp is read as two words,    *)
(* and get_counter subtracts the start value word by word with a borrow.   *)
(* A word has WORD values (2^32).                                          *)
(***************************************************************************)
EXTENDS Integers

CONSTANT WORD

ASSUME WordAssumption == WORD \in Nat \ {0}

\* The values of the time stamp counter, and the counter d cycles after t.
Stamps == 0 .. WORD * WORD - 1
After(t, d) == (t + d) % (WORD * WORD)

\* rdtsc: the two words of the time stamp.
access_counter(t) == [hi |-> t \div WORD, lo |-> t % WORD]

\* A faulty variant that borrows also when the start's low word is zero.
get_counter_Borrow(cyc, ncyc) ==
    LET lo == (ncyc.lo - cyc.lo) % WORD
        borrow == IF lo >= ncyc.lo THEN 1 ELSE 0
        hi == (ncyc.hi - cyc.hi - borrow) % WORD
    IN  hi * WORD + lo

\* cyc holds the words that start_counter stored, ncyc the words now.
get_counter(cyc, ncyc) ==
    LET lo == (ncyc.lo - cyc.lo) % WORD
        borrow == IF lo > ncyc.lo THEN 1 ELSE 0
        hi == (ncyc.hi - cyc.hi - borrow) % WORD
    IN  hi * WORD + lo
=============================================================================
