----------------------------- MODULE UpdateFile -----------------------------
(***************************************************************************)
(* The 661.PBP as the rest of the installer sees it: a download, whatever  *)
(* becomes of it, is one step of which nothing, a part or the whole file   *)
(* stays; a part is cleaned up later; a whole file goes at the user's      *)
(* wish, or lost to a call that failed in looking at it, and to nothing    *)
(* else.  Advanced implements it; Installer's GetUpdate is the same step.  *)
(***************************************************************************)
VARIABLES
    update,
    asked,      \* the user wants it deleted
    misled      \* since the start, a look at it failed

Init == update = "none"
Fetch == update = "none" /\ update' \in {"none", "torn", "whole"}
Clean == update = "torn" /\ update' = "none"
Delete == asked /\ update = "whole" /\ update' = "none"

Lose == misled' /\ update = "whole" /\ update' = "none"

Spec == Init /\ [][Fetch \/ Clean \/ Delete \/ Lose]_update

=============================================================================
