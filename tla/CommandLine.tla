----------------------------- MODULE CommandLine -----------------------------
(***************************************************************************)
(* mdriver.c's main from its first line: the options, in any order and     *)
(* number, the team check, and then the stages of Driver.  cmd holds       *)
(* main's variables while getopt runs; file_given and dir_given remember   *)
(* what was asked for.  -g only adds lines to the report.                  *)
(***************************************************************************)
EXTENDS Driver

CONSTANTS
    team,     \* per field of team_t: is it filled in?
    Dirs,     \* the directories that -t may name
    MAX_ARGS  \* bound on the number of options

ASSUME CommandLineAssumption ==
    /\ team \in [{"teamname", "name1", "id1", "name2", "id2"} -> BOOLEAN]
    /\ MAX_ARGS \in Nat

VARIABLE cmd

TRACEDIR == "traces/"

\* main's initial values.
NoOptions ==
    [run_libc |-> FALSE, verbose |-> FALSE, team_check |-> TRUE,
     num_tracefiles |-> 0, tracedir |-> TRACEDIR,
     args |-> 0, file_given |-> FALSE, dir_given |-> TRACEDIR]

\* -f: one trace file, relative to the current directory.
FileOption(c) ==
    [c EXCEPT !.num_tracefiles = 1, !.tracedir = "./", !.file_given = TRUE]

\* A faulty variant that does not look for an earlier -f.
DirOption_Always(c, d) == [c EXCEPT !.tracedir = d, !.dir_given = d]

\* -t: "ignore if -f already encountered".
DirOption(c, d) ==
    [c EXCEPT !.tracedir = IF c.num_tracefiles = 1 THEN @ ELSE d, !.dir_given = d]

\* The values after one more option that does not end the program.
AfterOption(c) ==
    {FileOption(c), [c EXCEPT !.team_check = FALSE], [c EXCEPT !.run_libc = TRUE],
     [c EXCEPT !.verbose = TRUE]} \cup {DirOption(c, d) : d \in Dirs}

\* -h, an unknown option, or no memory for the name of a file ends the program.
ReadOption ==
    /\ pc = "options" /\ cmd.args < MAX_ARGS
    /\ \/ \E c \in AfterOption(cmd) :
             cmd' = [c EXCEPT !.args = @ + 1] /\ UNCHANGED pc
       \/ Goto("exit") /\ UNCHANGED cmd
    /\ UNCHANGED <<options, package, i, runs, stats, errors, arenas, results>>

TeamComplete ==
    /\ team["teamname"] /\ team["name1"] /\ team["id1"]
    /\ team["name2"] = team["id2"]

\* No -f, so tracefiles is NULL: all default traces.
NumTracefiles(c) == IF c.num_tracefiles = 0 THEN MAX_TRACES ELSE c.num_tracefiles

\* The options are read: the team check, the default traces, init_fsecs.
EndOptions ==
    /\ pc = "options"
    /\ IF cmd.team_check /\ ~TeamComplete
       THEN Goto("exit") /\ UNCHANGED options
       ELSE /\ Goto("begin")
            /\ run_libc' = cmd.run_libc /\ verbose' = cmd.verbose
            /\ num_tracefiles' = NumTracefiles(cmd)
    /\ UNCHANGED <<cmd, package, i, runs, stats, errors, arenas, results>>

CmdInit ==
    /\ pc = "options" /\ cmd = NoOptions
    /\ run_libc = FALSE /\ verbose = FALSE /\ num_tracefiles = 0
    /\ Fresh

CmdNext ==
    \/ ReadOption
    \/ EndOptions
    \/ Next /\ UNCHANGED cmd

\* main is sequential code that waits for nothing.
CmdSpec == CmdInit /\ [][CmdNext]_<<vars, cmd>> /\ WF_<<vars, cmd>>(CmdNext)

(***************************************************************************)
(* Properties                                                              *)
(***************************************************************************)
\* The order of -f and -t does not matter: with -f one file of the current
\* directory is evaluated, without it the default traces of the last directory
\* that -t named.
FileOptionWins ==
    pc \notin {"options", "exit"} =>
        IF cmd.file_given
        THEN num_tracefiles = 1 /\ cmd.tracedir = "./"
        ELSE num_tracefiles = MAX_TRACES /\ cmd.tracedir = cmd.dir_given

\* main ends, whatever the options, the trace files and the package do: every
\* loop over options, traces and timed runs is left.
MainEnds == <>(pc \in Final)
=============================================================================
