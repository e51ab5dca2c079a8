-------------------------------- MODULE Fsecs --------------------------------
(***************************************************************************)
(* fsecs.c over the three timers that config.h chooses between: USE_FCYC   *)
(* (KBest), USE_ITIMER and USE_GETTOD (FTimer).  The driver calls          *)
(* init_fsecs once and then fsecs any number of times; fcyc.h also lets a  *)
(* client change the parameters of fcyc in between.                        *)
(***************************************************************************)
EXTENDS KBest, FTimer

CONSTANTS
    Sleeps,     \* the cycles that mhz's sleep may take
    MAX_CALLS,  \* bound on the number of calls of fsecs
    MAX_SETS    \* bound on the number of calls of the set_fcyc functions

ASSUME FsecsAssumption ==
    Sleeps \subseteq Stamps \ {0} /\ MAX_CALLS \in Nat /\ MAX_SETS \in Nat

VARIABLES
    timer,   \* which of the three timers the program was built with
    Mhz,     \* the clock rate, in cycles per sleep
    slept,   \* the cycles that the sleep really took
    calls,   \* calls of fsecs
    sets     \* calls of set_fcyc functions

vars == <<pc, timer, Mhz, slept, calls, sets, ft, fcycVars, compVars>>

\* The parameters that init_fsecs sets; the cache's are left alone.
Configured ==
    [par EXCEPT !.maxsamples = Defaults.maxsamples, !.clear_cache = TRUE,
                !.compensate = TRUE, !.epsilon = Defaults.epsilon,
                !.kbest = Defaults.kbest]

\* mhz_full: the counter across a sleep of c cycles that starts at t.
mhz_full(t, c) == get_counter(access_counter(t), access_counter(After(t, c)))

init_fsecs(t, c) ==
    /\ pc = "off" /\ pc' = "returned"
    /\ IF timer = "fcyc"
       THEN par' = Configured /\ Mhz' = mhz_full(t, c) /\ slept' = c
       ELSE UNCHANGED <<par, Mhz, slept>>
    /\ UNCHANGED <<timer, calls, sets, ft, cache_buf, values, samplecount, result, seen>>
    /\ UNCHANGED compVars

\* fsecs: into the timer's loop.
fsecs ==
    /\ pc = "returned" /\ calls < MAX_CALLS /\ calls' = calls + 1
    /\ \/ timer = "fcyc" /\ BeginSampling /\ UNCHANGED ft
       \/ /\ timer = "gettod" /\ \E now \in Now : ft' = gettod(now)
          /\ pc' = "timing" /\ UNCHANGED fcycVars
       \/ /\ timer = "itimer" /\ \E delay \in Delays : ft' = itimer(delay)
          /\ pc' = "timing" /\ UNCHANGED fcycVars
    /\ UNCHANGED <<timer, Mhz, slept, sets>> /\ UNCHANGED compVars

\* One run of the timed function, and the timer's return after the last.
TimedRun(d) ==
    /\ pc = "timing" /\ ft' = Ran(d)
    /\ pc' = CASE timer = "itimer" /\ ft'.left <= 0 -> "killed"
               [] ft'.runs < NRUNS -> "timing"
               [] OTHER -> "returned"
    /\ result' = CASE pc' # "returned" -> result
                   [] timer = "itimer" -> itimer_result(ft')
                   [] OTHER -> gettod_result(ft')
    /\ UNCHANGED <<timer, Mhz, slept, calls, sets, par, cache_buf, values, samplecount, seen>>
    /\ UNCHANGED compVars

\* The turns of fcyc's loop.
FcycTurn ==
    /\ \/ \E fails \in BOOLEAN : Prepare(fails)
       \/ \E dt \in Gaps, ticks \in 0 .. MAX_TICKS : Calibrate(dt, ticks)
       \/ \E t \in Stamps, d \in Durations, ticks \in Ticks : Measure(t, d, ticks)
    /\ UNCHANGED <<timer, Mhz, slept, calls, sets, ft>>

\* A look at the counter that finds user time advanced.
TickSeen ==
    /\ \E dt \in Gaps : Calibrate(dt, 1)
    /\ UNCHANGED <<timer, Mhz, slept, calls, sets, ft>>

\* The wall clock is set, once a measurement at most.
ClockSet ==
    /\ pc = "timing" /\ ft.shift = 0 /\ \E s \in ClockSteps : SetClock(s)
    /\ UNCHANGED <<pc, timer, Mhz, slept, calls, sets>>
    /\ UNCHANGED fcycVars /\ UNCHANGED compVars

SetParameter ==
    /\ timer = "fcyc" /\ sets < MAX_SETS /\ sets' = sets + 1 /\ Setting
    /\ UNCHANGED <<pc, timer, Mhz, slept, calls, ft, values, samplecount, result, seen>>
    /\ UNCHANGED compVars

Init ==
    /\ timer \in {"fcyc", "itimer", "gettod"}
    /\ pc = "off" /\ Mhz = 0 /\ slept = 0 /\ calls = 0 /\ sets = 0
    /\ par = Defaults /\ cache_buf = NO_BUFFER
    /\ values = <<>> /\ samplecount = 0 /\ result = 0 /\ seen = <<>>
    /\ cyc_per_tick = 0 /\ cal = NoEvents /\ ratios = {}
    /\ ft = NoMeasurement

\* What the program does by itself.
Turn == FcycTurn \/ \E d \in RunTimes : TimedRun(d)

Next ==
    \/ \E t \in Stamps, c \in Sleeps : init_fsecs(t, c)
    \/ fsecs \/ Turn \/ ClockSet \/ SetParameter

\* The program is sequential and waits for nothing, so a turn that can be made
\* is made; and callibrate's loop spends user time, so the user time advances.
Spec == Init /\ [][Next]_vars /\ WF_vars(Turn) /\ WF_vars(TickSeen)

(***************************************************************************)
(* Properties                                                              *)
(***************************************************************************)
\* What fcyc and mhz have measured is what happened.
FastestMeasured ==
    /\ Mhz = slept
    /\ result = Min(Range(seen))
    /\ Len(seen) < par.maxsamples =>
          /\ Len(seen) >= par.kbest
          /\ 100 * (Smallest(par.kbest)[par.kbest] - result) <= par.epsilon * result

\* With USE_FCYC, fsecs divides what the fastest run took by what mhz measured:
\* both are right wherever the counter's words wrapped meanwhile, and fcyc
\* returns early only when the kbest fastest runs agree within epsilon.
ResultIsFastest == [][pc = "run" /\ pc' = "returned" => FastestMeasured']_vars

\* With the other timers fsecs returns what the runs took, whichever of the
\* clock's two fields carried meanwhile; gettimeofday's answer, and only that
\* one, is off by exactly what the wall clock was set by.
ElapsedIsExact ==
    pc = "returned" /\ calls > 0 /\ timer # "fcyc" =>
        result = ft.took + (IF timer = "gettod" THEN ft.shift ELSE 0)

\* A call of fsecs ends, however the samples scatter and whether or not a
\* calibration finds a rate, unless clear has been given a cache block that is
\* smaller than an int.
MeasurementEnds ==
    [](pc \in {"prepare", "calibrate", "run", "timing"}
         /\ (par.clear_cache => ClearAdvances)
         => <>(pc \in {"returned", "exit", "killed"}))
=============================================================================
