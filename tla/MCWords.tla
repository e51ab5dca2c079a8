------------------------------- MODULE MCWords -------------------------------
(***************************************************************************)
(* MMWords on an arena of a few blocks.  The trace indices are not         *)
(* symmetric: they are the data that the payloads hold.                    *)
(***************************************************************************)
EXTENDS MMWords
=============================================================================
