----------------------------- MODULE CompCounter -----------------------------
(***************************************************************************)
(* clock.c's compensated counter.  callibrate watches the cycle counter    *)
(* for gaps of at least THRESHOLD cycles in which the process' user time   *)
(* advanced by some ticks, NEVENT of them; the least number of cycles per  *)
(* tick above RECORDTHRESH is what get_comp_counter then deducts for every *)
(* tick.                                                                   *)
(*                                                                         *)
(* Cycles are counted in a unit in which the quotients are whole numbers   *)
(* (CompAssumption).                                                       *)
(***************************************************************************)
EXTENDS CycleCounter, FiniteSetsExt

CONSTANTS
    NEVENT, THRESHOLD, RECORDTHRESH,  \* 100, 1000 and 3000 in the code
    Gaps,       \* the cycles between two looks at the counter
    MAX_TICKS   \* the most ticks that a gap of THRESHOLD cycles can see

ASSUME CompAssumption ==
    /\ NEVENT \in Nat \ {0} /\ THRESHOLD \in Nat \ {0} /\ RECORDTHRESH \in Nat
    /\ Gaps \subseteq Nat \ {0} /\ Gaps # {} /\ MAX_TICKS \in Nat \ {0}
    /\ \A g \in Gaps, n \in 1 .. MAX_TICKS : g % n = 0

VARIABLES
    cyc_per_tick, \* 0 until a calibration has found a rate
    cal,          \* callibrate's e, newt - oldt and newc - oldc
    ratios        \* the ratios above RECORDTHRESH seen so far

compVars == <<cyc_per_tick, cal, ratios>>

NoEvents == [e |-> 0, gap |-> 0, ticks |-> 0]

\* A faulty variant that keeps the largest ratio.
Least_Largest(cpt) ==
    IF cpt > cyc_per_tick /\ cpt > RECORDTHRESH THEN cpt ELSE cyc_per_tick

\* cyc_per_tick after an event with cpt cycles per tick.
Least(cpt) ==
    IF (cyc_per_tick = 0 \/ cyc_per_tick > cpt) /\ cpt > RECORDTHRESH
    THEN cpt ELSE cyc_per_tick

\* A faulty variant that counts only the events it records.
Event_Recorded(gap, ticks) ==
    LET cpt == gap \div ticks
    IN  /\ cyc_per_tick' = Least(cpt)
        /\ ratios' = IF cpt > RECORDTHRESH THEN ratios \cup {cpt} ELSE ratios
        /\ cal' = [NoEvents EXCEPT !.e =
                      IF cyc_per_tick' # cyc_per_tick THEN cal.e + 1 ELSE cal.e]

\* A gap in which user time advanced.
Event(gap, ticks) ==
    LET cpt == gap \div ticks
    IN  /\ cyc_per_tick' = Least(cpt)
        /\ ratios' = IF cpt > RECORDTHRESH THEN ratios \cup {cpt} ELSE ratios
        /\ cal' = [NoEvents EXCEPT !.e = cal.e + 1]

\* One turn of callibrate's loop, dt cycles and "ticks" ticks after the last.
\* Ticks that fall into a short gap are seen when the next long one ends.
Look(dt, ticks) ==
    LET gap == cal.gap + dt
        all == cal.ticks + ticks
    IN  /\ cal.e < NEVENT /\ all <= MAX_TICKS
        /\ IF gap >= THRESHOLD /\ all > 0 THEN Event(gap, all)
           ELSE /\ cal' = [cal EXCEPT !.gap = IF gap >= THRESHOLD THEN 0 ELSE gap,
                                      !.ticks = all]
                /\ UNCHANGED <<cyc_per_tick, ratios>>

\* get_comp_counter for a run of d cycles from t on that saw some ticks.
get_comp_counter(t, d, ticks) ==
    get_counter(access_counter(t), access_counter(After(t, d))) - ticks * cyc_per_tick

\* callibrate keeps the least of all ratios above RECORDTHRESH that it ever saw,
\* over however many calibrations it took to see one, and none means no charge.
RateIsLeast == cyc_per_tick = IF ratios = {} THEN 0 ELSE Min(ratios)
=============================================================================
