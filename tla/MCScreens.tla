------------------------------ MODULE MCScreens ------------------------------
(***************************************************************************)
(* Texts that fill the screen, just not or just more, and longer ones.     *)
(***************************************************************************)
EXTENDS Screens

SomeLines == {1, 18, 19, 20, 21, 30}

=============================================================================
