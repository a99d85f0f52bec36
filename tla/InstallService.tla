--------------------------- MODULE InstallService ---------------------------
(***************************************************************************)
(* What the installer promises its user, without the steps it takes: a     *)
(* device has no Adrenaline, or one release of it hooked to one game; an   *)
(* operation leads from there to what was chosen and to nothing else,      *)
(* unless it is interrupted; what the user deletes is noticed later.       *)
(* Installer implements it: see Service in InstallerService.               *)
(***************************************************************************)
EXTENDS Naturals

CONSTANTS
    Games, Releases,
    Nothing,        \* no Adrenaline on the device
    Broken          \* an entry of which nothing works

Installations == [release : Releases, game : Games]
Having == Installations \union {Nothing, Broken}
Busy == [to : Installations \union {Nothing}, sure : BOOLEAN]

VARIABLES
    has,        \* what the device has, or where the operation under way leads
    games,      \* the games there are to play
    faults      \* errors and power losses so far

serviceVars == <<has, games, faults>>

Init == has \in Installations \union {Nothing} /\ games \subseteq Games /\ faults = 0

(* What a target turns out to be: its game may have been deleted since it  *)
(* was listed, or be listed and not be there to play.                      *)
Reached(x) == IF x = Nothing \/ x.game \in games THEN x ELSE Broken

(* The user chooses a release and a game; on a device with Adrenaline also *)
(* to have it no more.                                                     *)
Begin(sure) ==
    /\ has \in Having /\ UNCHANGED <<games, faults>>
    /\ has' \in Busy /\ has'.sure = sure
    /\ has = Nothing => has'.to # Nothing

Finish == has \in Busy /\ has.sure /\ has' = Reached(has.to) /\ UNCHANGED <<games, faults>>

(* An error, or the loss of power, in an operation or in a repair: then    *)
(* anything may be left.  Neither does harm to a device nobody works on.   *)
Fault ==
    /\ faults' = faults + 1 /\ UNCHANGED games
    /\ \/ has \in Busy /\ has' \in Having \union {[to |-> has.to, sure |-> FALSE]}
       \/ has = Broken /\ has' \in {Broken, Nothing}
       \/ has \in Having /\ UNCHANGED has

FinishSpoiled == has \in Busy /\ ~ has.sure /\ has' \in Having /\ UNCHANGED <<games, faults>>

DeleteGame ==
    /\ has \in Having
    /\ \E game \in games :
         /\ games' = games \ {game}
         /\ has' = IF has \in Installations /\ has.game = game THEN Broken ELSE has
         /\ UNCHANGED faults

(* The next start removes what works no more.                              *)
Heal == has = Broken /\ has' = Nothing /\ UNCHANGED <<games, faults>>

Next == Begin(TRUE) \/ Finish \/ DeleteGame \/ Heal
FaultyNext == Next \/ Begin(FALSE) \/ Fault \/ FinishSpoiled

Spec == Init /\ [][Next]_serviceVars
FaultySpec == Init /\ [][FaultyNext]_serviceVars

=============================================================================
