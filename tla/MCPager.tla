------------------------------ MODULE MCPager ------------------------------
(***************************************************************************)
(* A database that can grow by a page, two statements, and three faults:   *)
(* enough for a write that fails, a recovery that is cut short, and the    *)
(* recovery of that.                                                       *)
(***************************************************************************)
EXTENDS Pager

=============================================================================
