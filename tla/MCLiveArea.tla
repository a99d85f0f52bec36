------------------------------ MODULE MCLiveArea ------------------------------
(***************************************************************************)
(* Two faults, so that one can hit the repair of what another has spoiled. *)
(***************************************************************************)
EXTENDS LiveArea

=============================================================================
