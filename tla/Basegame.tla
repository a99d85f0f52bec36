------------------------------- MODULE Basegame -------------------------------
(***************************************************************************)
(* install_psp_basegame (main.c:2206-2397): a small PSP game is put into   *)
(* the first slot of the system's download queue, as if it had been        *)
(* downloaded: the queue's own files into ux0:/bgdl/t/00000001, the game's *)
(* into ux0:/pspemu/bgdl/00000001.  What the slot holds already is a       *)
(* download of the user's, which is deleted on demand first.  The system   *)
(* fills and empties the slot whenever it likes.                           *)
(***************************************************************************)
EXTENDS Integers, Sequences

CONSTANT MaxFaults      \* bound on power losses and I/O errors

ASSUME BasegameAssumption == MaxFaults \in Nat

QueueFiles == <<"d0.pdb", "d1.pdb", "f0.pdb", "icon.png">>
GameFiles == <<"body.bin", "head.bin", "stat.bin", "tail.bin", "work.bin", "EBOOT.PBP">>
Files == {QueueFiles[i] : i \in DOMAIN QueueFiles} \cup {GameFiles[i] : i \in DOMAIN GameFiles}
Contents == {"none", "user", "game", "torn"}

(* The slot's folder in bgdl, that in pspemu and the latter's two branches. *)
Folders == {"bgdl", "pspemu", "CONTENT", "package"}

FolderOf(f) ==
    IF f = "EBOOT.PBP" THEN "CONTENT"
    ELSE IF \E i \in DOMAIN QueueFiles : QueueFiles[i] = f THEN "bgdl" ELSE "package"
InPspemu == {f \in Files : FolderOf(f) # "bgdl"}

VARIABLES
    dirs,       \* the folders there are
    file,       \* what is in each file
    step,       \* the next call; "menu": a menu is shown; "home", "off": no process
    pos,        \* the file to copy
    graphics,   \* vita2d is initialised
    faults,
    clean,      \* no call has failed so far
    arrived     \* a download has come into the slot after a run's look at it,
                \* before that run was done with the slot

card == <<dirs, file>>
vars == <<card, step, pos, graphics, faults, clean, arrived>>

Steps == {"off", "home", "menu", "check", "ask", "delete_pspemu", "delete_bgdl", "make_bgdl",
          "copy_queue", "make_content", "make_package", "copy_game", "done"}
Working == Steps \ {"off", "home", "menu", "check", "done"}

TypeOK ==
    /\ dirs \subseteq Folders
    /\ file \in [Files -> Contents]
    /\ step \in Steps /\ pos \in 1..6
    /\ graphics \in BOOLEAN /\ clean \in BOOLEAN /\ arrived \in BOOLEAN
    /\ faults \in 0..MaxFaults

Go(next) == step' = next /\ pos' = 1 /\ UNCHANGED <<graphics, faults, clean, arrived>>

Fails(next) ==
    /\ faults < MaxFaults /\ faults' = faults + 1 /\ clean' = FALSE
    /\ step' = next /\ pos' = 1 /\ UNCHANGED <<graphics, arrived>>

PowerLoss ==
    /\ step # "off"
    /\ faults < MaxFaults /\ faults' = faults + 1
    /\ step' = "off" /\ graphics' = FALSE
    /\ UNCHANGED <<card, pos, clean, arrived>>

-----------------------------------------------------------------------------
Launch ==
    /\ step = "home" /\ step' = "menu" /\ graphics' = TRUE
    /\ UNCHANGED <<card, pos, faults, clean, arrived>>

(* Once confirmed, the graphics library gives way to the debug screen.     *)
Confirm ==
    /\ step = "menu" /\ step' = "check" /\ graphics' = FALSE
    /\ UNCHANGED <<card, pos, faults, clean, arrived>>

(* Mutant: the queue is not looked at.                                     *)
CheckNothing == step = "check" /\ Go("make_bgdl") /\ UNCHANGED card

Check ==
    /\ step = "check"
    /\ Go(IF "bgdl" \in dirs THEN "ask" ELSE "make_bgdl")
    /\ UNCHANGED card

Abort == step = "ask" /\ Go("home") /\ UNCHANGED card

(* Mutant: the queue's folder only.                                        *)
DeleteQueueOnly == step = "ask" /\ Go("delete_bgdl") /\ UNCHANGED card

Delete ==
    /\ step = "ask"
    /\ Go(IF "pspemu" \in dirs THEN "delete_pspemu" ELSE "delete_bgdl")
    /\ UNCHANGED card

(* removePath: in any order, a folder once it is empty, the slot's folder  *)
(* last.  A failure ends the loop and the function: back to the menu; so   *)
(* does a folder that is there no more, for the system has emptied it.     *)
Empty(d) == \A f \in Files : FolderOf(f) = d => file[f] = "none"

RemoveOne(inside, branches) ==
    \/ \E f \in inside :
         file[f] # "none" /\ file' = [file EXCEPT ![f] = "none"] /\ UNCHANGED dirs
    \/ \E d \in branches \cap dirs :
         Empty(d) /\ dirs' = dirs \ {d} /\ UNCHANGED file

Remove(top, branches, inside, next) ==
    \/ RemoveOne(inside, branches) /\ UNCHANGED <<step, pos, graphics, faults, clean, arrived>>
    \/ /\ top \in dirs /\ branches \cap dirs = {} /\ \A f \in inside : file[f] = "none"
       /\ dirs' = dirs \ {top} /\ UNCHANGED file
       /\ Go(next)
    \/ top \notin dirs /\ Go("menu") /\ UNCHANGED card
    \/ Fails("menu") /\ UNCHANGED card

DeletePspemu ==
    step = "delete_pspemu" /\ Remove("pspemu", {"CONTENT", "package"}, InPspemu, "delete_bgdl")
DeleteBgdl ==
    step = "delete_bgdl" /\ Remove("bgdl", {}, Files \ InPspemu, "make_bgdl")

MakeBgdl ==
    /\ step = "make_bgdl" /\ UNCHANGED file
    /\ \/ dirs' = dirs \cup {"bgdl"} /\ Go("copy_queue")
       \/ UNCHANGED dirs /\ Fails("make_content")

(* copyFile, file by file; an error is printed.                            *)
Copy(files, next) ==
    LET f == files[pos]
        last == pos = Len(files)
        on == step' = (IF last THEN next ELSE step) /\ pos' = (IF last THEN 1 ELSE pos + 1)
    IN  /\ UNCHANGED <<dirs, graphics, arrived>> /\ on
        /\ \/ /\ file' = IF FolderOf(f) \in dirs THEN [file EXCEPT ![f] = "game"] ELSE file
              /\ UNCHANGED <<faults, clean>>
           \/ /\ \/ UNCHANGED file
                 \/ FolderOf(f) \in dirs /\ file' = [file EXCEPT ![f] = "torn"]
              /\ faults < MaxFaults /\ faults' = faults + 1 /\ clean' = FALSE

CopyQueue == step = "copy_queue" /\ Copy(QueueFiles, "make_content")

(* The power is lost amid a write.                                         *)
TornWrite ==
    /\ step \in {"copy_queue", "copy_game"}
    /\ LET f == IF step = "copy_queue" THEN QueueFiles[pos] ELSE GameFiles[pos]
       IN  FolderOf(f) \in dirs /\ file' = [file EXCEPT ![f] = "torn"]
    /\ faults < MaxFaults /\ faults' = faults + 1
    /\ step' = "off"
    /\ UNCHANGED <<dirs, pos, graphics, clean, arrived>>

(* Only the result of the second makePath is looked at.                    *)
MakeContent ==
    /\ step = "make_content" /\ UNCHANGED file
    /\ \/ dirs' = dirs \cup {"pspemu", "CONTENT"} /\ Go("make_package")
       \/ dirs' \in {dirs, dirs \cup {"pspemu"}} /\ Fails("make_package")

MakePackage ==
    /\ step = "make_package" /\ UNCHANGED file
    /\ \/ dirs' = dirs \cup {"pspemu", "package"} /\ Go("copy_game")
       \/ dirs' \in {dirs, dirs \cup {"pspemu"}} /\ Fails("done")

(* Mutant: the last file of the list is forgotten.                         *)
CopyGameButLast == step = "copy_game" /\ Copy(SubSeq(GameFiles, 1, 5), "done")

CopyGame == step = "copy_game" /\ Copy(GameFiles, "done")

(* Mutant: the function returns to the menu.                               *)
FinishReturns == step = "done" /\ Go("menu") /\ UNCHANGED card

(* Enter reboots, Select and Start end the process.                        *)
Finish ==
    /\ step = "done"
    /\ Go("off") \/ Go("home")
    /\ UNCHANGED card

-----------------------------------------------------------------------------
(* The system.                                                             *)

(* A download of a PSP game comes into the slot, which the system takes    *)
(* for free when its folder in bgdl is not there.                          *)
Download ==
    /\ step # "off" /\ "bgdl" \notin dirs
    /\ dirs' = Folders /\ file' = [f \in Files |-> "user"]
    /\ arrived' = (arrived \/ step \in Working)
    /\ UNCHANGED <<step, pos, graphics, faults, clean>>

(* The queue offers what is complete for installation, which empties it.   *)
Whole == \E owner \in {"user", "game"} : \A f \in Files : file[f] = owner
InstallFromQueue ==
    /\ step # "off" /\ Whole
    /\ dirs' = {} /\ file' = [f \in Files |-> "none"]
    /\ UNCHANGED <<step, pos, graphics, faults, clean, arrived>>

Boot == step = "off" /\ Go("home") /\ UNCHANGED card

Init ==
    /\ dirs = {} /\ file = [f \in Files |-> "none"]
    /\ step = "home" /\ pos = 1 /\ graphics = FALSE
    /\ faults = 0 /\ clean = TRUE /\ arrived = FALSE

Next ==
    \/ Launch \/ Confirm \/ Check \/ Abort \/ Delete \/ DeletePspemu \/ DeleteBgdl
    \/ MakeBgdl \/ CopyQueue \/ MakeContent \/ MakePackage \/ CopyGame \/ TornWrite
    \/ Finish \/ Download \/ InstallFromQueue \/ Boot \/ PowerLoss

Spec == Init /\ [][Next]_vars

(* The user answers the question and the calls return.                     *)
FairSpec ==
    Spec /\ WF_vars(Check \/ Abort \/ Delete \/ DeletePspemu \/ DeleteBgdl \/ MakeBgdl
                    \/ CopyQueue \/ MakeContent \/ MakePackage \/ CopyGame \/ Finish)

-----------------------------------------------------------------------------
(* Properties.                                                             *)

(* What an interruption leaves in pspemu is found by the next run, which   *)
(* looks for the folder in bgdl only: the latter is the first to be made   *)
(* and the last to be deleted.  Only a failing call, or a download that    *)
(* came while a run worked on the slot, can leave something hidden.        *)
NothingHidden == clean /\ ~ arrived /\ "pspemu" \in dirs => "bgdl" \in dirs

(* The slot never holds files of a download of the user's together with    *)
(* files of the game, however many runs were cut short, whatever calls     *)
(* failed, and whenever the system empties the slot or fills it, with one  *)
(* exception: a download that comes into the free slot between a run's     *)
(* look at it and its last copy, which neither makePath nor copyFile       *)
(* notices.                                                                *)
Unmixed == ~ \E f, g \in Files : file[f] = "user" /\ file[g] \in {"game", "torn"}
NeverMixed == ~ arrived => Unmixed

(* "Done!" comes over files that are all there, though the system may have *)
(* emptied the slot while the run asked its question.                      *)
Done == step # "done" /\ step' = "done"
AllThere == dirs = Folders /\ \A f \in Files : file[f] = "game"
DoneMeansWhole == [][Done /\ clean' /\ ~ arrived => AllThere']_vars

(* Once confirmed, the installation comes to an end of the process, unless *)
(* a call fails, or the system has emptied the slot before it is deleted:  *)
(* no other way leads back to the menu.                                    *)
ConfirmedEnds ==
    step = "check" ~> \/ step \in {"home", "off"}
                       \/ ~ clean
                       \/ (step = "menu" /\ "bgdl" \notin dirs)

=============================================================================
