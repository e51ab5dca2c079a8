-------------------------------- MODULE FTimer --------------------------------
(***************************************************************************)
(* ftimer.c: the average time of n runs of a function, by gettimeofday or  *)
(* by the interval timer.  Time is counted in microseconds, USEC to a      *)
(* second, and the sum of the runs stands for their average.               *)
(*                                                                         *)
(* The wall clock may be set while a measurement is under way.  The        *)
(* interval timer counts down whatever the wall clock does, and ends the   *)
(* process (SIGALRM) when it runs out.                                     *)
(***************************************************************************)
EXTENDS Integers

CONSTANTS
    USEC,        \* microseconds in a second (10^6)
    MAX_ETIME,   \* the seconds the interval timer is set to (86400)
    NRUNS,       \* n (10)
    Now,         \* times of day at which a measurement may start
    RunTimes,    \* how long a run of the function may take
    Delays,      \* time between setitimer and the first getitimer
    ClockSteps   \* how far the wall clock may be set forward or back

ASSUME FTimerAssumption ==
    /\ USEC \in Nat \ {0} /\ MAX_ETIME \in Nat \ {0} /\ NRUNS \in Nat \ {0}
    /\ Now \subseteq Nat /\ RunTimes \subseteq Nat /\ ClockSteps \subseteq Int
    /\ Delays \subseteq 0 .. MAX_ETIME * USEC - 1
    /\ \A t \in Now, s \in ClockSteps : t + s >= 0

VARIABLE ft  \* the measurement: clocks, what was read of them, runs made

\* struct timeval, and the microseconds from one to another.  usec may be the
\* smaller one in the later time.
timeval(us) == [sec |-> us \div USEC, usec |-> us % USEC]

\* A faulty variant that takes the difference of the microseconds as unsigned.
Between_Unsigned(a, b) == USEC * (b.sec - a.sec) + ((b.usec - a.usec) % USEC)

Between(a, b) == USEC * (b.sec - a.sec) + (b.usec - a.usec)

NoMeasurement ==
    [now |-> 0, left |-> 0, stv |-> timeval(0), start |-> 0,
     runs |-> 0, took |-> 0, shift |-> 0]

\* ftimer_gettod up to its loop.
gettod(now) == [NoMeasurement EXCEPT !.now = now, !.stv = timeval(now)]

\* init_etime's value of every timer, and get_etime with "left" still to go.
first_p == timeval(MAX_ETIME * USEC)
get_etime(left) == Between(timeval(left), first_p)

\* ftimer_itimer up to its loop.
itimer(delay) ==
    LET left == MAX_ETIME * USEC - delay
    IN  [NoMeasurement EXCEPT !.left = left, !.start = get_etime(left)]

\* A run of the function that takes d.
Ran(d) == [ft EXCEPT !.now = @ + d, !.left = @ - d, !.runs = @ + 1, !.took = @ + d]

\* Somebody sets the wall clock.
SetClock(s) == ft' = [ft EXCEPT !.now = @ + s, !.shift = @ + s]

gettod_result(f) == Between(f.stv, timeval(f.now))
itimer_result(f) == get_etime(f.left) - f.start
=============================================================================
