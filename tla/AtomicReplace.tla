---------------------------- MODULE AtomicReplace ----------------------------
(***************************************************************************)
(* A file whose text is replaced as a whole by the installer (Edit) and    *)
(* read and completed by the system when it boots (Complete): what the     *)
(* write, remove, copy and remove calls of trigger_update_database are     *)
(* meant to amount to.  IdDat implements it while nothing goes wrong.      *)
(***************************************************************************)
CONSTANTS Texts, Edit(_), Complete(_)

VARIABLE text

Init == text \in Texts
Replace == text' = Edit(text)
Boot == text' = Complete(text)

Spec == Init /\ [][Replace \/ Boot]_text

=============================================================================
