------------------------------ MODULE Advanced ------------------------------
(***************************************************************************)
(* The entries of "Advanced Options" that delete (main.c:907-960): the     *)
(* flash files, the 661.PBP of Download, the savestates; the start-up      *)
(* checks that decide whether an entry is offered (main.c:364-398); and    *)
(* what Adrenaline puts on the card while the installer does not run.      *)
(*                                                                         *)
(* One process does it all, so that Download's steps and the deletions     *)
(* exclude each other by `step', and share the faults.  A folder is whole, *)
(* cut short by a removePath that stopped half way (it is then still       *)
(* there, FileTree says why), or gone.                                     *)
(***************************************************************************)
EXTENDS Download

Flash == {"bin", "flash0", "flash1"}
Folders == Flash \cup {"savestate"}
Entries == {"flash", "pbp", "states"}

VARIABLES
    card,       \* [Folders -> ..]
    active,     \* the entries of more_menu of type MENU_ACTIVE
    says,       \* what the message on the screen says is deleted
    clean,      \* no I/O error since the start
    asked       \* the entry confirmed last

menuVars == <<card, active, says, clean, asked>>
allVars == <<vars, menuVars>>

MenuTypeOK ==
    /\ file \in {Absent} \cup Nat
    /\ card \in [Folders -> {"whole", "part", "gone"}] /\ card["bin"] # "part"
    /\ active \subseteq Entries
    /\ step \in Steps \cup Flash \cup {"pbp", "states", "message"}
    /\ says \in Entries \cup {"nothing", "error"}
    /\ faults \in 0..MaxFaults /\ clean \in BOOLEAN /\ misled \in BOOLEAN
    /\ asked \in Entries \cup {"none"}

There(thing) == card[thing] # "gone"

MenuInit ==
    /\ Init
    /\ card \in [Folders -> {"whole", "gone"}]
    /\ active = {} /\ says = "nothing" /\ clean = TRUE /\ asked = "none"

-----------------------------------------------------------------------------
(* The start.                                                              *)
Launch ==
    /\ Start
    /\ active' = {} /\ says' = "nothing" /\ clean' = TRUE /\ asked' = "none"
    /\ UNCHANGED card

(* flash0 stands for the flash files; a 661.PBP that is not there for the  *)
(* check, or of the wrong size for it, is not offered.                     *)
Offered ==
    {e \in Entries : CASE e = "flash" -> There("flash0")
                       [] e = "pbp" -> file = Size /\ ~ misled'
                       [] e = "states" -> There("savestate")}

Check ==
    /\ CheckSize
    /\ active' = Offered
    /\ clean' = (clean /\ ~ misled')
    /\ UNCHANGED <<card, says, asked>>

(* "Yes" to an entry's question.                                           *)
Confirm(entry) ==
    /\ step = "menu" /\ entry \in active
    /\ step' = (IF entry = "flash" THEN "bin" ELSE entry)
    /\ asked' = entry
    /\ UNCHANGED <<file, left, open, ret, faults, misled, card, active, says, clean>>

(* What an error, or a loss of power, leaves of something to be deleted.   *)
Leftovers(thing) == IF thing = "bin" THEN {card[thing]} ELSE {card[thing], "part"}

Delete(thing) == card' = [card EXCEPT ![thing] = "gone"] /\ UNCHANGED <<faults, clean>>
DeleteFails(thing) ==
    /\ There(thing) /\ Fault /\ clean' = FALSE
    /\ \E some \in Leftovers(thing) : card' = [card EXCEPT ![thing] = some]

(* Mutant: flash1 is forgotten.                                            *)
FlashWithoutFlash1 ==
    /\ step \in {"bin", "flash0"}
    /\ Delete(step) \/ DeleteFails(step)
    /\ IF step = "bin" THEN step' = "flash0" /\ UNCHANGED <<active, says>>
       ELSE step' = "message" /\ says' = "flash" /\ active' = active \ {"flash"}
    /\ UNCHANGED <<file, left, open, ret, misled, asked>>

(* option_delete_flash: adrenaline.bin, flash0, flash1; no result is       *)
(* looked at.                                                              *)
DeleteFlash ==
    /\ step \in Flash
    /\ Delete(step) \/ DeleteFails(step)
    /\ CASE step = "bin" -> step' = "flash0" /\ UNCHANGED <<active, says>>
         [] step = "flash0" -> step' = "flash1" /\ UNCHANGED <<active, says>>
         [] step = "flash1" -> /\ step' = "message" /\ says' = "flash"
                               /\ active' = active \ {"flash"}
    /\ UNCHANGED <<file, left, open, ret, misled, asked>>

DeleteSavestates ==
    /\ step = "states" /\ step' = "message"
    /\ \/ Delete("savestate") /\ says' = "states" /\ active' = active \ {"states"}
       \/ DeleteFails("savestate") /\ says' = "error" /\ UNCHANGED active
    /\ UNCHANGED <<file, left, open, ret, misled, asked>>

DeletePbp ==
    /\ step = "pbp" /\ step' = "message"
    /\ \/ /\ file' = Absent /\ says' = "pbp" /\ active' = active \ {"pbp"}
          /\ UNCHANGED <<faults, clean>>
       \/ Fault /\ says' = "error" /\ clean' = FALSE /\ UNCHANGED <<file, active>>
    /\ UNCHANGED <<left, open, ret, misled, card, asked>>

Okay ==
    /\ step = "message" /\ step' = "menu" /\ says' = "nothing" /\ asked' = "none"
    /\ UNCHANGED <<file, left, open, ret, faults, misled, card, active, clean>>

Quit ==
    /\ step = "menu" /\ step' = "off"
    /\ UNCHANGED <<file, left, open, ret, faults, misled, menuVars>>

(* The power goes amid a deletion.                                         *)
CutOff ==
    /\ Fault /\ step' = "off"
    /\ \E thing \in Folders :
         /\ step = (IF thing = "savestate" THEN "states" ELSE thing) /\ There(thing)
         /\ \E some \in Leftovers(thing) \cup {"gone"} : card' = [card EXCEPT ![thing] = some]
    /\ UNCHANGED <<file, left, open, ret, misled, active, says, clean, asked>>

(* Adrenaline runs: it makes its flash anew when there is none of it, and  *)
(* savestates.                                                             *)
Adrenaline ==
    /\ step = "off"
    /\ \/ card' = [f \in Folders |-> IF f \in Flash THEN "whole" ELSE card[f]]
       \/ card' = [card EXCEPT !["savestate"] = "whole"]
    /\ UNCHANGED <<vars, active, says, clean, asked>>

(* An install that comes to 661.PBP, and the losses of power of Download.  *)
Installing ==
    \/ (Install \/ Reboot \/ PowerLoss) /\ UNCHANGED menuVars
    \/ (Connect \/ OpenFile \/ Read \/ Write \/ Close \/ Remove) /\ UNCHANGED menuVars

MenuNext ==
    \/ Launch \/ Check \/ Installing
    \/ (\E entry \in Entries : Confirm(entry))
    \/ DeleteFlash \/ DeleteSavestates \/ DeletePbp
    \/ Okay \/ Quit \/ CutOff \/ Adrenaline

MenuSpec == MenuInit /\ [][MenuNext]_allVars

-----------------------------------------------------------------------------
(* Properties.                                                             *)

Kind(blocks) == IF blocks = Absent THEN "none" ELSE IF blocks = Size THEN "whole" ELSE "torn"

(* To the rest of the program a download is one step, wherever it ends;    *)
(* what is whole is neither fetched again nor removed unasked, as long as  *)
(* the calls that look at it succeed.                                      *)
Whole == INSTANCE UpdateFile WITH
    update <- IF Downloading THEN "none" ELSE Kind(file), asked <- (asked = "pbp")
ImplementsUpdateFile == Whole!Spec

(* In the menus an entry is offered for what is there, whatever failed or  *)
(* was cut short before, and what a deletion could not remove is offered   *)
(* once more: the savestates always, the 661.PBP if its size is right and  *)
(* the calls that look at it succeed.                                      *)
Offers(entry, there) == entry \in active <=> there
OfferedIsThere ==
    step = "menu" =>
        /\ "flash" \in active => There("flash0")
        /\ clean => Offers("flash", There("flash0"))
        /\ Offers("states", There("savestate"))
        /\ "pbp" \in active => file # Absent
        /\ ~ misled => Offers("pbp", file # Absent)

(* The file or folder a message says is deleted is gone; of the flash      *)
(* files, all three are as long as nothing failed.                         *)
MessageIsTrue ==
    step = "message" =>
        /\ says = "flash" /\ clean => \A thing \in Flash : ~ There(thing)
        /\ says = "states" => ~ There("savestate")
        /\ says = "pbp" => file = Absent

(* What the user reads in "Advanced Options" is what is on the card.       *)
MenuIsTrue == MenuFindsNoPart /\ OfferedIsThere /\ MessageIsTrue

(* Nothing the user has goes without a yes for it, with two exceptions: a  *)
(* file the download writes, which it may have to give up, and a 661.PBP   *)
(* for which a call of the very check that removes it failed.              *)
Spared ==
    /\ \A thing \in Folders : There(thing) /\ card'[thing] # card[thing] =>
         card'[thing] = "whole"
             \/ asked = (IF thing = "savestate" THEN "states" ELSE "flash")
    /\ file = Size /\ file' # Size => asked = "pbp" \/ Downloading \/ (step = "check" /\ misled')
GoesOnlyIfAsked == [][Spared]_allVars

=============================================================================
