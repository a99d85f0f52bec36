-------------------------- MODULE InstallerService --------------------------
(***************************************************************************)
(* Installer implements InstallService: the mapping.  What the device has  *)
(* is what the next start of the installer will find on it; while an       *)
(* operation runs it is where the operation leads.                         *)
(***************************************************************************)
EXTENDS Installer

CONSTANTS
    Nothing,        \* no Adrenaline on the device
    Broken          \* an entry of which nothing works

ASSUME ServiceAssumption ==
    /\ Nothing # Broken
    /\ {Nothing, Broken} \cap [release : Releases, game : Games] = {}

(* The config that counts: between the removal and the copy, temp.txt.     *)
Effective ==
    IF step = "copy" /\ config[ram.tai] = Missing THEN [config EXCEPT ![ram.tai] = temp] ELSE config

EffectiveTai == IF Effective["ux0"] # Missing THEN "ux0" ELSE "ur0"
EffectiveId == GetId(LinesOf(Effective[EffectiveTai]), FoundFolder)

(* What the next start will find.                                          *)
Found ==
    LET files == disk[FoundFolder]
    IN  IF EffectiveId = NoId THEN Nothing
        ELSE IF EffectiveId \in Living /\ files["suprx"] \in Releases /\ files["skprx"] = files["suprx"]
        THEN [release |-> files["suprx"], game |-> EffectiveId]
        ELSE Broken

Operating == ram.op \in {"install", "change", "uninstall"} /\ step \notin {"done", "nofolder"}

Target == IF ram.op = "uninstall" THEN Nothing ELSE [release |-> ram.arg, game |-> ram.id]

Service == INSTANCE InstallService WITH
    games <- Living,
    has <- IF Operating THEN [to |-> Target, sure |-> clean] ELSE Found

(* The other folder is out of play: a torn release in the new folder hides *)
(* a whole one in the old, so that a start would find another device.      *)
OneFolder == ram.folder = NewFolder /\ ~ Exists(OldFolder, "skprx")

(* While nothing goes wrong the installer is the service: from what the    *)
(* start finds every operation leads to exactly what was chosen, as the    *)
(* next start will find it.                                                *)
FaultlessStep == faults' = 0 => Service!Next \/ UNCHANGED Service!serviceVars
FaultlessService == Service!Init /\ [][FaultlessStep]_vars

(* With a loss of power or an I/O error, only the operation it hits is     *)
(* spoiled, as long as one folder is used: the operations of later runs do *)
(* what they promise again.                                                *)
FaultyStep == OneFolder /\ OneFolder' => Service!FaultyNext \/ UNCHANGED Service!serviceVars

ImplementsService == FaultlessService /\ [][FaultyStep]_vars

=============================================================================
