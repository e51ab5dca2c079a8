------------------------------- MODULE MCReplay -------------------------------
(***************************************************************************)
(* Replay with two traces of a few requests on an arena that the larger    *)
(* request exhausts.                                                       *)
(***************************************************************************)
EXTENDS ReplayDriver
=============================================================================
