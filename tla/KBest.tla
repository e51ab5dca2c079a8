-------------------------------- MODULE KBest --------------------------------
(***************************************************************************)
(* The K-best measurement scheme of fcyc.c: a function is timed until its  *)
(* kbest fastest runs agree within epsilon, or maxsamples runs were made;  *)
(* the result is the fastest.                                              *)
(*                                                                         *)
(* A turn of fcyc's loop is two steps: Prepare is what happens before the  *)
(* function is called, Measure the call and what follows it.  Between them *)
(* start_comp_counter may calibrate (CompCounter).  The function starts at *)
(* any value t of the processor's counter, takes d cycles and may see      *)
(* timer ticks.  epsilon is in percent.                                    *)
(***************************************************************************)
EXTENDS CompCounter, Sequences, Functions

CONSTANTS
    Defaults,   \* the parameters' values in fcyc.c
    Durations,  \* the cycles a run may take
    Ticks,      \* the ticks a run may see
    SetK, SetMax, SetEps, SetBytes, SetBlock  \* arguments of the set_fcyc functions

NO_BUFFER == -1  \* cache_buf before clear has allocated it
INT == 4    \* sizeof(int)

ParRecords ==
    [kbest : Nat \ {0}, maxsamples : Nat \ {0}, epsilon : Nat, compensate : BOOLEAN,
     clear_cache : BOOLEAN, cache_bytes : Nat \ 0 .. INT - 1, cache_block : Nat]

\* A run takes less than a turn of the counter.
ASSUME KBestAssumption ==
    /\ Defaults \in ParRecords
    /\ Durations \subseteq Stamps /\ Durations # {}
    /\ Ticks \subseteq Nat /\ Ticks # {}
    /\ SetK \subseteq Nat \ {0} /\ SetMax \subseteq Nat \ {0}
    /\ SetEps \subseteq Nat /\ SetBytes \subseteq Nat \ 0 .. INT - 1 /\ SetBlock \subseteq Nat

VARIABLES
    pc,          \* "prepare", "calibrate" and "run" inside fcyc
    par,         \* the parameters that the set_fcyc functions set
    cache_buf,   \* the bytes of the buffer that clear reads, or NO_BUFFER
    values,      \* the kbest smallest samples, in order, then unused zeros
    samplecount,
    result,
    seen         \* what the runs of this call took, in order of size

fcycVars == <<par, cache_buf, values, samplecount, result, seen>>

NoValues == [k \in 1 .. par.kbest |-> 0]

\* fcyc up to its loop: init_sampler.
BeginSampling ==
    /\ pc' = "prepare" /\ values' = NoValues /\ samplecount' = 0 /\ seen' = <<>>
    /\ UNCHANGED <<par, cache_buf, result>>

\* The buffer after clear, which allocates it when there is none.  clear then
\* reads par.cache_bytes bytes of it.
Cleared ==
    IF par.clear_cache /\ cache_buf = NO_BUFFER THEN par.cache_bytes ELSE cache_buf

\* clear's loop goes through the buffer in steps of cache_block/sizeof(int), and
\* stands still when that is zero.
ClearAdvances == par.cache_block \div INT > 0

\* clear, and start_comp_counter or start_counter; clear exits when its malloc
\* fails, start_comp_counter calibrates while there is no rate.
Prepare(mallocFails) ==
    /\ pc = "prepare"
    /\ IF mallocFails /\ par.clear_cache /\ cache_buf = NO_BUFFER
       THEN pc' = "exit" /\ UNCHANGED <<cache_buf, cal>>
       ELSE /\ cache_buf' = Cleared
            /\ IF par.clear_cache /\ ~ClearAdvances THEN UNCHANGED <<pc, cal>>
               ELSE IF par.compensate /\ cyc_per_tick = 0
               THEN pc' = "calibrate" /\ cal' = NoEvents
               ELSE pc' = "run" /\ UNCHANGED cal
    /\ UNCHANGED <<par, values, samplecount, result, seen, cyc_per_tick, ratios>>

\* A turn of callibrate's loop; after the last one start_comp_counter goes on,
\* with a rate or without.
Calibrate(dt, ticks) ==
    /\ pc = "calibrate" /\ Look(dt, ticks)
    /\ pc' = IF cal'.e < NEVENT THEN "calibrate" ELSE "run"
    /\ UNCHANGED fcycVars

\* The insertion sort: values[pos] moves down past every larger neighbour.
Sift(v, pos) ==
    LET stop == Max({k \in 1 .. pos : k = 1 \/ v[k - 1] <= v[pos]})
    IN  [k \in DOMAIN v |-> IF k < stop \/ k > pos THEN v[k]
                            ELSE IF k = stop THEN v[pos] ELSE v[k - 1]]

\* A faulty variant that stores the new sample without sorting it in.
Stored_NoSort(v, count, val) ==
    LET kbest == par.kbest
    IN  IF count < kbest THEN [v EXCEPT ![count + 1] = val]
        ELSE IF val < v[kbest] THEN [v EXCEPT ![kbest] = val]
        ELSE v

\* The array after add_sample(val): the sample fills the next place, or takes
\* the place of the largest when it is smaller, or is dropped.
Stored(v, count, val) ==
    LET kbest == par.kbest
    IN  IF count < kbest THEN Sift([v EXCEPT ![count + 1] = val], count + 1)
        ELSE IF val < v[kbest] THEN Sift([v EXCEPT ![kbest] = val], kbest)
        ELSE v

has_converged(v, count) ==
    count >= par.kbest /\ (100 + par.epsilon) * v[1] >= 100 * v[par.kbest]

\* samplecount++, whether or not the sample was kept.
Counted(count) == count + 1

\* The sample: get_comp_counter with compensation, get_counter without.
Sample(t, d, ticks) ==
    get_comp_counter(t, d, IF par.compensate THEN ticks ELSE 0)

\* What the run took, less what the ticks are reckoned to have cost.
Took(d, ticks) == IF par.compensate THEN d - ticks * cyc_per_tick ELSE d

\* The sequence s, which is in order of size, with one more number.
InOrder(s, x) ==
    LET at == Max({0} \cup {j \in 1 .. Len(s) : s[j] <= x})
    IN  [j \in 1 .. Len(s) + 1 |->
            IF j <= at THEN s[j] ELSE IF j = at + 1 THEN x ELSE s[j - 1]]

\* The rest of a turn of fcyc's loop, and fcyc's return when the loop ends.
Measure(t, d, ticks) ==
    /\ pc = "run"
    /\ LET v == Stored(values, samplecount, Sample(t, d, ticks))
           count == Counted(samplecount)
       IN  /\ samplecount' = count
           /\ seen' = IF Len(seen) < par.maxsamples
                      THEN InOrder(seen, Took(d, ticks)) ELSE seen
           /\ IF has_converged(v, count) \/ count >= par.maxsamples
              THEN pc' = "returned" /\ result' = v[1] /\ values' = <<>>
              ELSE pc' = "prepare" /\ values' = v /\ UNCHANGED result
    /\ UNCHANGED <<par, cache_buf>> /\ UNCHANGED compVars

\* The set_fcyc functions, called between measurements.
set_fcyc_clear_cache(b) ==
    par' = [par EXCEPT !.clear_cache = b] /\ UNCHANGED cache_buf
set_fcyc_compensate(b) ==
    par' = [par EXCEPT !.compensate = b] /\ UNCHANGED cache_buf
set_fcyc_k(k) == par' = [par EXCEPT !.kbest = k] /\ UNCHANGED cache_buf
set_fcyc_maxsamples(n) == par' = [par EXCEPT !.maxsamples = n] /\ UNCHANGED cache_buf
set_fcyc_epsilon(e) == par' = [par EXCEPT !.epsilon = e] /\ UNCHANGED cache_buf

set_fcyc_cache_block(bytes) == par' = [par EXCEPT !.cache_block = bytes] /\ UNCHANGED cache_buf

\* A faulty variant that keeps the buffer of the old size.
set_fcyc_cache_size_Keep(bytes) ==
    par' = [par EXCEPT !.cache_bytes = bytes] /\ UNCHANGED cache_buf

\* A buffer of another size is freed, and clear will allocate a new one.
set_fcyc_cache_size(bytes) ==
    /\ par' = [par EXCEPT !.cache_bytes = bytes]
    /\ cache_buf' = IF bytes # par.cache_bytes THEN NO_BUFFER ELSE cache_buf

Setting ==
    /\ pc = "returned"
    /\ \/ \E b \in BOOLEAN : set_fcyc_clear_cache(b)
       \/ \E b \in BOOLEAN : set_fcyc_compensate(b)
       \/ \E k \in SetK : set_fcyc_k(k)
       \/ \E n \in SetMax : set_fcyc_maxsamples(n)
       \/ \E e \in SetEps : set_fcyc_epsilon(e)
       \/ \E bytes \in SetBytes : set_fcyc_cache_size(bytes)
       \/ \E bytes \in SetBlock : set_fcyc_cache_block(bytes)

(***************************************************************************)
(* Properties                                                              *)
(***************************************************************************)
\* The k shortest runs of this call, in order.
Smallest(k) == SubSeq(seen, 1, k)

\* add_sample keeps the kbest shortest runs, sorted, with nothing left over
\* from an earlier call, whatever kbest was then.
KeepsSmallest ==
    pc \in {"prepare", "calibrate", "run"} =>
        LET k == Min({par.kbest, Len(seen)})
        IN  \A j \in 1 .. k : values[j] = Smallest(k)[j]

\* clear reads the buffer up to cache_bytes, so the buffer has that size, across
\* every change of cache_bytes.
ClearStaysInBuffer ==
    cache_buf # NO_BUFFER => cache_buf = par.cache_bytes
=============================================================================
