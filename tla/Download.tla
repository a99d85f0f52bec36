------------------------------ MODULE Download ------------------------------
(***************************************************************************)
(* download_file (file.c:274-339) with the code that calls it (main.c:     *)
(* 1650-1668 and 1893-1911) and the check of the file's size at the next   *)
(* start (main.c:372-389): how 661.PBP comes to the card.                  *)
(*                                                                         *)
(* A file is the number of its blocks.  A server may send any number of    *)
(* them, the page of a proxy or of a server that has moved the file        *)
(* included: the code looks neither at the HTTP status nor at the length   *)
(* it is told.                                                             *)
(***************************************************************************)
EXTENDS Integers

CONSTANTS
    Size,       \* UPDATE_SIZE, in blocks
    Bodies,     \* how many blocks a server may send
    MaxFaults   \* bound on errors of network and card and on losses of power

ASSUME DownloadAssumption ==
    Size \in Nat \ {0} /\ Bodies \subseteq Nat /\ Size \in Bodies /\ MaxFaults \in Nat

Absent == -1

VARIABLES
    file,       \* 661.PBP
    step,
    left,       \* what the server has still to send
    open,       \* the process has a handle of the file, which its end closes
    ret,        \* of download_file
    faults,
    misled      \* since the start, a call that looks at the file or removes it failed

vars == <<file, step, left, open, ret, faults, misled>>

Steps == {"off", "check", "menu", "connect", "open", "read", "write", "close", "remove", "done"}
Downloading == step \in {"connect", "open", "read", "write", "close", "remove"}

Init ==
    /\ file = Absent /\ step = "off" /\ left = 0 /\ open = FALSE
    /\ ret = "none" /\ faults = 0 /\ misled = FALSE

Fault == faults < MaxFaults /\ faults' = faults + 1
Fine == UNCHANGED faults
Fail == ret' = "error" /\ step' = "remove"

-----------------------------------------------------------------------------
(* The start; 661.PBP is removed when its size is not that of the update,  *)
(* or reads as an error because getFileSize cannot open the file.          *)
Start ==
    /\ step = "off" /\ step' = "check"
    /\ ret' = "none" /\ misled' = FALSE
    /\ UNCHANGED <<file, left, open, faults>>

(* Mutant: the comparison is the wrong way round.                          *)
CheckWrongWay ==
    /\ step = "check" /\ step' = "menu"
    /\ file' = IF file = Size THEN Absent ELSE file
    /\ UNCHANGED <<left, open, ret, faults, misled>>

(* One call fails: doesFileExist's open, or the removal of a wrong size,   *)
(* and the file stays; getFileSize's open, and even a whole file goes.     *)
CheckSize ==
    /\ step = "check" /\ step' = "menu"
    /\ \/ file' = (IF file = Size THEN file ELSE Absent) /\ Fine /\ UNCHANGED misled
       \/ file # Absent /\ file' \in {file, Absent} /\ Fault /\ misled' = TRUE
    /\ UNCHANGED <<left, open, ret>>

(* Mutant: the file is downloaded although it is there.                    *)
InstallAgain ==
    /\ step = "menu" /\ step' = "connect"
    /\ UNCHANGED <<file, left, open, ret, faults, misled>>

(* An install or a change gets to 661.PBP; a file it cannot open is not    *)
(* there for it.                                                           *)
Install ==
    /\ step = "menu"
    /\ \/ step' = (IF file = Absent THEN "connect" ELSE "done") /\ Fine /\ UNCHANGED misled
       \/ file # Absent /\ step' = "connect" /\ Fault /\ misled' = TRUE
    /\ UNCHANGED <<file, left, open, ret>>

(* Template, connection, request, send.                                    *)
Connect ==
    /\ step = "connect"
    /\ \/ (\E body \in Bodies : left' = body) /\ step' = "open" /\ Fine /\ UNCHANGED ret
       \/ Fail /\ Fault /\ UNCHANGED left
    /\ UNCHANGED <<file, open, misled>>

OpenFile ==
    /\ step = "open"
    /\ \/ file' = 0 /\ open' = TRUE /\ step' = "read" /\ Fine /\ UNCHANGED ret
       \/ Fail /\ Fault /\ UNCHANGED <<file, open>>
    /\ UNCHANGED <<left, misled>>

(* A block; the end, which a connection that is cut off looks like too; or *)
(* an error, on which the handle stays open.                               *)
Read ==
    /\ step = "read"
    /\ \/ left > 0 /\ left' = left - 1 /\ step' = "write" /\ Fine /\ UNCHANGED ret
       \/ left = 0 /\ step' = "close" /\ Fine /\ UNCHANGED <<left, ret>>
       \/ left > 0 /\ step' = "close" /\ Fault /\ UNCHANGED <<left, ret>>
       \/ Fail /\ Fault /\ UNCHANGED left
    /\ UNCHANGED <<file, open, misled>>

Write ==
    /\ step = "write"
    /\ \/ file' = file + 1 /\ step' = "read" /\ Fine /\ UNCHANGED ret
       \/ Fail /\ Fault /\ UNCHANGED file
    /\ UNCHANGED <<left, open, misled>>

(* Whatever sceIoClose says, 0 is returned.                                *)
Close ==
    /\ step = "close" /\ step' = "done"
    /\ open' = FALSE /\ ret' = "ok"
    /\ UNCHANGED <<file, left, faults, misled>>

(* The caller removes a broken file; a file that is still open may refuse. *)
Remove ==
    /\ step = "remove" /\ step' = "done"
    /\ file' = Absent \/ (open /\ UNCHANGED file)
    /\ UNCHANGED <<left, open, ret, faults, misled>>

Reboot ==
    /\ step = "done" /\ step' = "off" /\ open' = FALSE
    /\ UNCHANGED <<file, left, ret, faults, misled>>

PowerLoss ==
    /\ step # "off" /\ Fault /\ step' = "off" /\ open' = FALSE
    /\ UNCHANGED <<file, left, ret, misled>>

-----------------------------------------------------------------------------
(* Property.                                                               *)

(* Whatever ended the last download, and whatever the server sent, the     *)
(* menus find no file of the wrong size, unless a call of the size check   *)
(* itself failed.                                                          *)
MenuFindsNoPart == step = "menu" /\ ~ misled => file \in {Absent, Size}

=============================================================================
