------------------------------ MODULE MCFileTree ------------------------------
(***************************************************************************)
(* Every tree of three levels and two names in a folder, with a file, a    *)
(* folder or nothing beside it.                                            *)
(***************************************************************************)
EXTENDS FileTree

CONSTANTS a, b
TwoNames == {a, b}

Kinds == {"none", "file", "dir"}

(* What each path holds, given by its kind or the lack of a folder above.  *)
AllTrees ==
    {[p \in Paths |->
        CASE p = <<b>> -> beside
          [] p = <<a>> -> top
          [] Len(p) > 1 /\ p[1] = b -> "none"
          [] Len(p) = 2 -> IF top = "dir" THEN below[p] ELSE "none"
          [] OTHER -> IF top = "dir" /\ below[Parent(p)] = "dir" THEN leaves[p] ELSE "none"] :
        beside \in Kinds, top \in Kinds,
        below \in [{<<a, n>> : n \in TwoNames} -> Kinds],
        leaves \in [{<<a, n, m>> : n, m \in TwoNames} -> Kinds]}

=============================================================================
