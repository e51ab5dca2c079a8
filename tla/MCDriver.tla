------------------------------- MODULE MCDriver -------------------------------
(***************************************************************************)
(* The driver with two default traces.  The team lacks an id, so that the  *)
(* team check fails unless -a skips it.                                    *)
(***************************************************************************)
EXTENDS CommandLine

NoSecondId == [f \in {"teamname", "name1", "id1", "name2", "id2"} |-> f # "id2"]
=============================================================================
