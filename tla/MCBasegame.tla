------------------------------ MODULE MCBasegame ------------------------------
(***************************************************************************)
(* All ten files, and two faults: an interruption, and one of the run that *)
(* is to clean up after it.                                                *)
(***************************************************************************)
EXTENDS Basegame

=============================================================================
