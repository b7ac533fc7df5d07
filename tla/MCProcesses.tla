---------------------------- MODULE MCProcesses ----------------------------
(* Processes for TLC.  The slots are not symmetric: the first free one is   *)
(* taken.                                                                   *)
EXTENDS Processes
=============================================================================
