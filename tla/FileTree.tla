------------------------------- MODULE FileTree -------------------------------
(***************************************************************************)
(* removePath and makePath (file.c:197-272) on the tree of the card, call  *)
(* by call.  removePath calls itself for every folder it reads: its frames *)
(* are on a stack, each with the directory handle it holds and the entries *)
(* it has yet to read, in any order.  Each call may fail.  A behaviour is   *)
(* one call on any tree.                                                   *)
(***************************************************************************)
EXTENDS Integers, Sequences

CONSTANTS
    Names,      \* of files and folders
    Depth,      \* of the tree
    Trees,      \* what the card may hold when a function is called
    MaxFaults   \* bound on I/O errors

Paths == UNION {[1..n -> Names] : n \in 1..Depth}
Parent(path) == SubSeq(path, 1, Len(path) - 1)
Under(path, top) == Len(path) >= Len(top) /\ SubSeq(path, 1, Len(top)) = top

(* Whatever something is in is a folder.                                   *)
IsTree(k) == \A p, q \in Paths : Under(q, p) /\ q # p /\ k[q] # "none" => k[p] = "dir"

ASSUME FileTreeAssumption ==
    /\ Names # {} /\ Depth \in Nat \ {0} /\ MaxFaults \in Nat
    /\ \A tree \in Trees : tree \in [Paths -> {"none", "file", "dir"}] /\ IsTree(tree)

VARIABLES
    kind,       \* what is at each path: "none", "file" or "dir"
    op,         \* the function called last: "remove" or "make"
    busy,       \* it has not returned
    arg,        \* its argument
    stack,      \* the frames of removePath, the topmost first
    handles,    \* the directories that are open
    level,      \* makePath: the length of the prefix to make
    result,     \* what the last call of removePath or makePath returned
    faults,
    before      \* kind when the function was called

vars == <<kind, op, busy, arg, stack, handles, level, result, faults, before>>

Frames == [path : Paths, phase : {"enter", "read"}, unread : SUBSET Names]
Results == {"none", "ok", "error"}

TypeOK ==
    /\ kind \in [Paths -> {"none", "file", "dir"}] /\ before \in [Paths -> {"none", "file", "dir"}]
    /\ op \in {"remove", "make"} /\ busy \in BOOLEAN /\ arg \in Paths
    /\ stack \in Seq(Frames) /\ Len(stack) <= Depth
    /\ handles \subseteq Paths
    /\ level \in 1..Depth + 1
    /\ result \in Results
    /\ faults \in 0..MaxFaults

Children(path) == {n \in Names : Append(path, n) \in Paths /\ kind[Append(path, n)] # "none"}

Fine == UNCHANGED faults
Wrong == faults < MaxFaults /\ faults' = faults + 1

-----------------------------------------------------------------------------
(* The calls of the system.                                                *)

Unlinked(path) == [kind EXCEPT ![path] = "none"]

(* Mutant: the name is not appended to the folder's path.                  *)
CallParent(path) ==
    [path |-> IF Len(path) > 1 THEN Parent(path) ELSE path, phase |-> "enter", unread |-> {}]

(* removePath is called with a path, by the program or by itself.          *)
Call(path) == [path |-> path, phase |-> "enter", unread |-> {}]

Remove ==
    /\ ~ busy /\ result = "none"
    /\ busy' = TRUE /\ op' = "remove" /\ stack' = <<Call(arg)>>
    /\ UNCHANGED <<kind, arg, handles, level, result, faults, before>>

Running == busy /\ op = "remove" /\ result = "none"
Top == Head(stack)
Same == UNCHANGED <<op, busy, arg, level, before>>

Return(value) == result' = value

(* sceIoDopen: a folder is opened, anything else is removed as a file.     *)
Enter ==
    /\ Running /\ Top.phase = "enter" /\ Same
    /\ \/ /\ kind[Top.path] = "dir" /\ Fine
          /\ stack' = <<[Top EXCEPT !.phase = "read", !.unread = Children(Top.path)]>> \o Tail(stack)
          /\ handles' = handles \cup {Top.path}
          /\ UNCHANGED <<kind, result>>
       \/ /\ kind[Top.path] = "file" /\ Fine
          /\ kind' = Unlinked(Top.path) /\ Return("ok")
          /\ UNCHANGED <<stack, handles>>
       \/ /\ \/ kind[Top.path] = "none" /\ Fine
             \/ Wrong
          /\ Return("error")
          /\ UNCHANGED <<kind, stack, handles>>

(* Mutant: an entry is not consumed.                                       *)
ReadAgain ==
    /\ Running /\ Top.phase = "read" /\ Top.unread # {} /\ Same
    /\ \E n \in Top.unread :
         LET path == Append(Top.path, n)
         IN  \/ kind[path] = "dir" /\ stack' = <<Call(path)>> \o stack /\ UNCHANGED kind
             \/ kind[path] = "file" /\ kind' = Unlinked(path) /\ UNCHANGED stack
    /\ UNCHANGED <<handles, result>> /\ Fine
(* sceIoDread: an entry is removed, or removePath called for it.           *)
Read ==
    /\ Running /\ Top.phase = "read" /\ Top.unread # {} /\ Same
    /\ \/ \E n \in Top.unread :
            LET path == Append(Top.path, n)
                rest == <<[Top EXCEPT !.unread = @ \ {n}]>> \o Tail(stack)
            IN  \/ /\ kind[path] = "dir" /\ Fine
                   /\ stack' = <<Call(path)>> \o rest
                   /\ UNCHANGED <<kind, handles, result>>
                \/ /\ kind[path] = "file" /\ Fine
                   /\ kind' = Unlinked(path) /\ stack' = rest
                   /\ UNCHANGED <<handles, result>>
                \/ /\ kind[path] = "file" /\ Wrong
                   /\ handles' = handles \ {Top.path} /\ Return("error")
                   /\ UNCHANGED <<kind, stack>>
       \/ /\ Wrong      \* taken for the end of the folder
          /\ stack' = <<[Top EXCEPT !.unread = {}]>> \o Tail(stack)
          /\ UNCHANGED <<kind, handles, result>>

(* Mutant: sceIoRmdir is not looked at.                                    *)
RmdirUnchecked ==
    /\ Running /\ Top.phase = "read" /\ Top.unread = {} /\ Same
    /\ handles' = handles \ {Top.path}
    /\ Return("ok")
    /\ \/ Children(Top.path) = {} /\ kind' = Unlinked(Top.path) /\ Fine
       \/ UNCHANGED kind /\ Wrong
    /\ UNCHANGED stack

(* sceIoRmdir of the folder that has been read to its end.                 *)
Rmdir ==
    /\ Running /\ Top.phase = "read" /\ Top.unread = {} /\ Same
    /\ handles' = handles \ {Top.path}
    /\ \/ /\ Children(Top.path) = {} /\ Fine
          /\ kind' = Unlinked(Top.path) /\ Return("ok")
       \/ /\ \/ Children(Top.path) # {} /\ Fine
             \/ Wrong
          /\ Return("error") /\ UNCHANGED kind
    /\ UNCHANGED stack

(* Mutant: the caller's handle stays open when a call inside has failed.   *)
ReturnedKeepsHandle ==
    /\ busy /\ op = "remove" /\ result # "none"
    /\ stack' = Tail(stack)
    /\ IF Len(stack) = 1
       THEN busy' = FALSE /\ UNCHANGED result
       ELSE UNCHANGED busy /\ result' = IF result = "ok" THEN "none" ELSE result
    /\ UNCHANGED <<kind, op, arg, level, handles, faults, before>>

(* The caller goes on, or closes its folder and fails as well.             *)
Returned ==
    /\ busy /\ op = "remove" /\ result # "none"
    /\ stack' = Tail(stack)
    /\ IF Len(stack) = 1
       THEN busy' = FALSE /\ UNCHANGED <<handles, result>>
       ELSE /\ UNCHANGED busy
            /\ IF result = "ok" THEN result' = "none" /\ UNCHANGED handles
               ELSE UNCHANGED result /\ handles' = handles \ {stack[2].path}
    /\ UNCHANGED <<kind, op, arg, level, faults, before>>

-----------------------------------------------------------------------------
(* makePath: every prefix is made, whether or not there is one, and the    *)
(* folder opened in the end to see whether it is there.                    *)
Make ==
    /\ ~ busy /\ result = "none"
    /\ busy' = TRUE /\ op' = "make"
    /\ UNCHANGED <<kind, arg, stack, handles, level, result, faults, before>>

Made ==
    LET path == SubSeq(arg, 1, level)
    IN  IF kind[path] = "none" /\ (level > 1 => kind[Parent(path)] = "dir")
        THEN [kind EXCEPT ![path] = "dir"] ELSE kind

Mkdir ==
    /\ busy /\ op = "make" /\ level <= Len(arg)
    /\ (kind' = Made /\ Fine) \/ (UNCHANGED kind /\ Wrong)
    /\ level' = level + 1
    /\ UNCHANGED <<op, busy, arg, stack, handles, result, before>>

Test ==
    /\ busy /\ op = "make" /\ level > Len(arg)
    /\ busy' = FALSE
    /\ \/ Return(IF kind[arg] = "dir" THEN "ok" ELSE "error") /\ Fine
       \/ Return("error") /\ Wrong
    /\ UNCHANGED <<kind, op, arg, stack, handles, level, before>>

Init ==
    /\ kind \in Trees /\ before = kind
    /\ op = "remove" /\ busy = FALSE /\ arg \in Paths /\ stack = <<>> /\ handles = {}
    /\ level = 1 /\ result = "none" /\ faults = 0

Step == Enter \/ Read \/ Rmdir \/ Returned \/ Mkdir \/ Test
Next == Remove \/ Make \/ Step

Spec == Init /\ [][Next]_vars

(* A function that has been called runs on.                                *)
FairSpec == Spec /\ WF_vars(Step)

-----------------------------------------------------------------------------
(* Properties.                                                             *)

(* Who calls removePath with 1 returned finds nothing left of the path,    *)
(* and who calls makePath with 0 returned finds the folder.                *)
SuccessIsTrue ==
    ~ busy /\ result = "ok" =>
        IF op = "make" THEN kind[arg] = "dir" ELSE \A p \in Paths : Under(p, arg) => kind[p] = "none"

(* What is not under the path stays as it was, whatever the order of the   *)
(* entries and wherever an error ends the recursion.                       *)
OthersKept ==
    op = "remove" => \A p \in Paths : ~ Under(p, arg) => kind[p] = before[p]

(* While no call of the system fails, removePath fails only for what is    *)
(* not there and makePath only where a file is in the way.                 *)
FailsForACause ==
    ~ busy /\ result = "error" /\ faults = 0 =>
        IF op = "remove" THEN before[arg] = "none"
        ELSE \E p \in Paths : Under(arg, p) /\ before[p] = "file"

(* A caller of removePath or makePath can go by the result, both ways.     *)
ResultIsTrue == SuccessIsTrue /\ FailsForACause

(* Every directory that is open is one of a frame, so that none is when    *)
(* the function has returned, however deep the error.                      *)
HandlesClosed == ~ busy => handles = {}

(* The recursion ends.                                                     *)
Returns == busy ~> ~ busy

=============================================================================
