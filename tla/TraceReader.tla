----------------------------- MODULE TraceReader -----------------------------
(***************************************************************************)
(* mdriver.c's read_trace.  The header of a trace file announces num_ids   *)
(* and num_ops, for which arrays are allocated; then requests are stored   *)
(* until the end of the file, and only there are the numbers compared with *)
(* what was read.                                                          *)
(*                                                                         *)
(* A file is any header and any sequence of lines.  Its requests free and  *)
(* reallocate only indices that an earlier line has allocated, as every    *)
(* trace does: read_trace itself does not look.                            *)
(***************************************************************************)
EXTENDS Integers, Sequences, FiniteSetsExt

CONSTANTS
    FileIndices,  \* the indices a line may name
    FileSizes,    \* the sizes a line may name
    MAX_LINES     \* bound on the number of requests in a file

ASSUME TraceAssumption ==
    FileIndices \subseteq Nat /\ FileSizes \subseteq Nat /\ MAX_LINES \in Nat

VARIABLES
    pc,        \* the driver's stage; "read" and "lines" are read_trace's
    trace,     \* trace->num_ids, num_ops and ops
    max_index  \* the largest index of an 'a' or 'r' line

readVars == <<pc, trace, max_index>>

NoTrace == [num_ids |-> 0, num_ops |-> 0, ops |-> <<>>]

\* The indices that are allocated after the requests in ops: the last request
\* that names the index is no free.
HeldAfter(ops) ==
    {id \in FileIndices :
        \E k \in 1 .. Len(ops) :
            /\ ops[k].index = id /\ ops[k].type # "f"
            /\ \A j \in k + 1 .. Len(ops) : ops[j].index # id}

\* The lines that may follow the requests in ops.
Lines(ops) ==
    LET held == HeldAfter(ops)
    IN  {op \in [type : {"a", "r"}, index : FileIndices, size : FileSizes] :
            (op.type = "a") = (op.index \notin held)}
        \cup {op \in [type : {"f"}, index : FileIndices, size : {0}] : op.index \in held}

\* The file is opened and its header read, and the arrays are allocated.
\* No file, or no memory, is a unix_error; a short header fails an assertion.
OpenTrace ==
    /\ pc = "read"
    /\ \/ /\ \E ids \in 0 .. Cardinality(FileIndices), n \in 0 .. MAX_LINES :
                trace' = [num_ids |-> ids, num_ops |-> n, ops |-> <<>>]
          /\ max_index' = 0
          /\ pc' = "lines"
       \/ /\ pc' \in {"exit", "abort"}
          /\ UNCHANGED <<trace, max_index>>

\* A request is stored and counted.  Past num_ops it is written behind the
\* array: that goes unnoticed, or ends the program.
ReadLine ==
    /\ pc = "lines" /\ Len(trace.ops) < MAX_LINES
    /\ \E op \in Lines(trace.ops) :
          /\ trace' = [trace EXCEPT !.ops = Append(@, op)]
          /\ max_index' = IF op.type = "f" THEN max_index
                          ELSE Max({op.index, max_index})
    /\ pc' \in IF Len(trace.ops) < trace.num_ops THEN {"lines"} ELSE {"lines", "abort"}

\* A line without its numbers fails an assertion; another letter is an exit.
BadLine ==
    /\ pc = "lines" /\ Len(trace.ops) < MAX_LINES
    /\ pc' \in {"abort", "exit"}
    /\ UNCHANGED <<trace, max_index>>

\* A faulty variant that trusts the header's number of indices.
EndOfFile_NoIds ==
    /\ pc = "lines"
    /\ pc' = IF trace.num_ops = Len(trace.ops) THEN "valid" ELSE "abort"
    /\ UNCHANGED <<trace, max_index>>

\* The end of the file, and the two assertions on what was read.
EndOfFile ==
    /\ pc = "lines"
    /\ pc' = IF max_index = trace.num_ids - 1 /\ trace.num_ops = Len(trace.ops)
             THEN "valid" ELSE "abort"
    /\ UNCHANGED <<trace, max_index>>

read_trace == OpenTrace \/ ReadLine \/ BadLine \/ EndOfFile
=============================================================================
