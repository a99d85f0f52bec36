----------------------------- MODULE MCAdvanced -----------------------------
(***************************************************************************)
(* A server that has the file, and ones that send nothing, less or more.   *)
(***************************************************************************)
EXTENDS Advanced

SomeBodies == 0..5

=============================================================================
