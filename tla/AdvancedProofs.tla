--------------------------- MODULE AdvancedProofs ---------------------------
(***************************************************************************)
(* Theorems about Advanced, for an update of any size, any servers and any *)
(* number of faults.                                                       *)
(***************************************************************************)
EXTENDS Advanced, TLAPS

-----------------------------------------------------------------------------
(* The invariant.                                                          *)

Menus == {"menu", "message", "pbp", "states"} \cup Flash

(* From the check to the end of the process the entries match the card,    *)
(* the one for the flash files but for the moment flash1 is left of them.  *)
EntriesMatch ==
    step \in Menus =>
        /\ "pbp" \in active => file = Size
        /\ ~ misled => ("pbp" \in active <=> file = Size) /\ file \in {Absent, Size}
        /\ "states" \in active <=> There("savestate")
        /\ step # "flash1" => ("flash" \in active => There("flash0"))
        /\ clean /\ There("flash0") => "flash" \in active

(* What a deletion of the flash files has done by each of its steps.       *)
DeletedSoFar ==
    clean => /\ step \in {"flash0", "flash1"} => ~ There("bin")
             /\ step = "flash1" => ~ There("flash0")

(* A deletion is the one that was asked for.                               *)
AskedFor ==
    /\ step \in Flash => asked = "flash"
    /\ step \in {"pbp", "states"} => asked = step

IInv == MenuTypeOK /\ EntriesMatch /\ DeletedSoFar /\ AskedFor /\ MessageIsTrue

-----------------------------------------------------------------------------
(* The invariant holds before the first start.                             *)
LEMMA InitIInv == MenuInit => IInv
<1> SUFFICES ASSUME MenuInit PROVE IInv
    OBVIOUS
<1>1. step = "off" /\ file = Absent /\ active = {} /\ says = "nothing" /\ asked = "none"
      /\ faults = 0 /\ misled = FALSE /\ clean = TRUE
    BY DEF MenuInit, Init
<1>2. card \in [Folders -> {"whole", "gone"}]
    BY DEF MenuInit
<1>3. card \in [Folders -> {"whole", "part", "gone"}] /\ card["bin"] # "part"
    BY <1>2 DEF Folders, Flash
<1>5. clean \in BOOLEAN /\ misled \in BOOLEAN
    BY <1>1, Zenon
<1>6. faults \in 0..MaxFaults
    BY <1>1, DownloadAssumption
<1>4. MenuTypeOK
    BY <1>1, <1>3, <1>5, <1>6, Zenon DEF MenuTypeOK, Steps
<1> QED  BY <1>1, <1>4 DEF IInv, EntriesMatch, DeletedSoFar, AskedFor, MessageIsTrue, Menus, Flash

(* A start shows no menu yet.                                              *)
LEMMA LaunchKeeps == IInv /\ Launch => IInv'
BY DEF IInv, MenuTypeOK, EntriesMatch, DeletedSoFar, AskedFor, MessageIsTrue,
    Launch, Start, Steps, Menus, Flash, Folders, Entries, There, Absent

(* check_files leaves a whole file or none, unless a call of it fails, and *)
(* the entries are set by what it found.                                   *)
LEMMA CheckKeeps == IInv /\ Check => IInv'
<1> SUFFICES ASSUME IInv, Check PROVE IInv'
    OBVIOUS
<1>1. step' = "menu" /\ UNCHANGED <<card, says, asked>> /\ active' = Offered
    BY DEF Check, CheckSize
<1>2. clean' \in BOOLEAN /\ misled' \in BOOLEAN /\ faults' \in 0..MaxFaults
    <2>1. faults' \in 0..MaxFaults
        BY DownloadAssumption DEF IInv, MenuTypeOK, Check, CheckSize, Fault, Fine
    <2>2. misled' = misled \/ misled' = TRUE
        BY DEF Check, CheckSize
    <2>3. misled' \in BOOLEAN
        BY <2>2, Zenon DEF IInv, MenuTypeOK
    <2>4. clean' = (clean /\ ~ misled')
        BY DEF Check
    <2> QED  BY <2>1, <2>3, <2>4, Zenon
<1>3. (~ misled' => (file' = Size <=> file = Size) /\ file' \in {Absent, Size})
      /\ file' \in {Absent} \cup Nat
    BY DownloadAssumption DEF IInv, MenuTypeOK, Check, CheckSize, Fault, Fine, Absent
<1>4. ("pbp" \in active' <=> file = Size /\ ~ misled') /\ ("states" \in active' <=> There("savestate"))
      /\ ("flash" \in active' <=> There("flash0")) /\ active' \subseteq Entries
    BY <1>1 DEF Offered, Entries
<1>5. MenuTypeOK'
    BY <1>1, <1>2, <1>3, <1>4 DEF IInv, MenuTypeOK, Steps
<1>6. EntriesMatch'
    BY <1>1, <1>3, <1>4 DEF EntriesMatch, There
<1> QED  BY <1>1, <1>5, <1>6 DEF IInv, DeletedSoFar, AskedFor, MessageIsTrue, Flash

(* A yes starts what the entry is for.                                     *)
LEMMA ConfirmKeeps == ASSUME IInv, NEW entry \in Entries, Confirm(entry) PROVE IInv'
BY DEF IInv, MenuTypeOK, EntriesMatch, DeletedSoFar, AskedFor, MessageIsTrue,
    Confirm, Steps, Menus, Flash, Folders, Entries, There, Absent

(* A deletion that ends, with or without an error, has changed the folder  *)
(* it is for and no other.                                                 *)
LEMMA DeletionChanges ==
    ASSUME MenuTypeOK, NEW thing \in Folders, Delete(thing) \/ DeleteFails(thing)
    PROVE  /\ card' \in [Folders -> {"whole", "part", "gone"}] /\ card'["bin"] # "part"
           /\ faults' \in 0..MaxFaults /\ clean' \in BOOLEAN
           /\ \A f \in Folders \ {thing} : card'[f] = card[f]
           /\ clean' => clean /\ card'[thing] = "gone"
           /\ card'[thing] = "gone" \/ DeleteFails(thing)
<1>1. CASE Delete(thing)
    BY <1>1 DEF Delete, MenuTypeOK, Folders, Flash
<1>2. CASE DeleteFails(thing)
    <2>1. PICK some \in Leftovers(thing) : card' = [card EXCEPT ![thing] = some]
        BY <1>2 DEF DeleteFails
    <2>2. clean' = FALSE /\ faults' \in 0..MaxFaults
        BY <1>2, DownloadAssumption DEF DeleteFails, Fault, MenuTypeOK
    <2>3. some \in {"whole", "part", "gone"} /\ (thing = "bin" => some # "part")
        BY <2>1 DEF Leftovers, MenuTypeOK
    <2> QED  BY <1>2, <2>1, <2>2, <2>3 DEF MenuTypeOK, Folders, Flash
<1> QED  BY <1>1, <1>2

(* Three steps, the last of which blocks the entry and shows the message.  *)
LEMMA DeleteFlashKeeps == IInv /\ DeleteFlash => IInv'
<1> SUFFICES ASSUME IInv, DeleteFlash PROVE IInv'
    OBVIOUS
<1>0. step \in Folders /\ (Delete(step) \/ DeleteFails(step)) /\ MenuTypeOK
      /\ UNCHANGED <<file, misled, asked>>
    BY DEF DeleteFlash, IInv, Folders
<1>1. /\ card' \in [Folders -> {"whole", "part", "gone"}] /\ card'["bin"] # "part"
      /\ faults' \in 0..MaxFaults /\ clean' \in BOOLEAN
      /\ \A f \in Folders \ {step} : card'[f] = card[f]
      /\ clean' => clean /\ card'[step] = "gone"
    BY <1>0, DeletionChanges
<1>2. CASE step = "bin"
    <2>1. step' = "flash0" /\ UNCHANGED <<active, says>>
        BY <1>2 DEF DeleteFlash
    <2>2. card'["flash0"] = card["flash0"] /\ card'["savestate"] = card["savestate"]
        BY <1>1, <1>2 DEF Folders, Flash
    <2>3. MenuTypeOK'
        BY <1>0, <1>1, <2>1 DEF MenuTypeOK, Flash
    <2> QED  BY <1>0, <1>1, <1>2, <2>1, <2>2, <2>3
        DEF IInv, EntriesMatch, DeletedSoFar, AskedFor, MessageIsTrue, There, Menus, Flash
<1>3. CASE step = "flash0"
    <2>1. step' = "flash1" /\ UNCHANGED <<active, says>>
        BY <1>3 DEF DeleteFlash
    <2>2. card'["bin"] = card["bin"] /\ card'["savestate"] = card["savestate"]
        BY <1>1, <1>3 DEF Folders, Flash
    <2>3. MenuTypeOK'
        BY <1>0, <1>1, <2>1 DEF MenuTypeOK, Flash
    <2> QED  BY <1>0, <1>1, <1>3, <2>1, <2>2, <2>3
        DEF IInv, EntriesMatch, DeletedSoFar, AskedFor, MessageIsTrue, There, Menus, Flash
<1>4. CASE step = "flash1"
    <2>1. step' = "message" /\ says' = "flash" /\ active' = active \ {"flash"}
        BY <1>4 DEF DeleteFlash
    <2>2. card'["bin"] = card["bin"] /\ card'["savestate"] = card["savestate"]
          /\ card'["flash0"] = card["flash0"]
        BY <1>1, <1>4 DEF Folders, Flash
    <2>3. MenuTypeOK'
        BY <1>0, <1>1, <2>1 DEF MenuTypeOK, Flash, Entries
    <2> QED  BY <1>0, <1>1, <1>4, <2>1, <2>2, <2>3
        DEF IInv, EntriesMatch, DeletedSoFar, AskedFor, MessageIsTrue, There, Menus, Flash
<1> QED  BY <1>2, <1>3, <1>4 DEF DeleteFlash, Flash

(* One step, which blocks the entry only if it succeeded.                  *)
LEMMA DeleteSavestatesKeeps == IInv /\ DeleteSavestates => IInv'
<1> SUFFICES ASSUME IInv, DeleteSavestates PROVE IInv'
    OBVIOUS
<1>0. "savestate" \in Folders /\ (Delete("savestate") \/ DeleteFails("savestate")) /\ MenuTypeOK
      /\ step = "states" /\ step' = "message" /\ UNCHANGED <<file, misled, asked>>
    BY DEF DeleteSavestates, IInv, Folders
<1>1. /\ card' \in [Folders -> {"whole", "part", "gone"}] /\ card'["bin"] # "part"
      /\ faults' \in 0..MaxFaults /\ clean' \in BOOLEAN
      /\ \A f \in Folders \ {"savestate"} : card'[f] = card[f]
      /\ clean' => clean
    BY <1>0, DeletionChanges
<1>2. /\ card'["flash0"] = card["flash0"]
    BY <1>1 DEF Folders, Flash
<1>3. CASE Delete("savestate") /\ says' = "states" /\ active' = active \ {"states"}
    <2>1. card'["savestate"] = "gone"
        BY <1>0, <1>3 DEF Delete, MenuTypeOK
    <2>2. MenuTypeOK'
        BY <1>0, <1>1, <1>3 DEF MenuTypeOK, Entries
    <2> QED  BY <1>0, <1>1, <1>2, <1>3, <2>1, <2>2
        DEF IInv, EntriesMatch, DeletedSoFar, AskedFor, MessageIsTrue, There, Menus, Flash
<1>4. CASE DeleteFails("savestate") /\ says' = "error" /\ UNCHANGED active
    <2>0. PICK some \in Leftovers("savestate") : card' = [card EXCEPT !["savestate"] = some]
        BY <1>4 DEF DeleteFails
    <2>1. There("savestate") /\ card'["savestate"] # "gone"
        BY <1>0, <1>4, <2>0 DEF DeleteFails, Leftovers, There, MenuTypeOK
    <2>2. MenuTypeOK'
        BY <1>0, <1>1, <1>4 DEF MenuTypeOK, Entries
    <2> QED  BY <1>0, <1>1, <1>2, <1>4, <2>1, <2>2
        DEF IInv, EntriesMatch, DeletedSoFar, AskedFor, MessageIsTrue, There, Menus, Flash
<1> QED  BY <1>3, <1>4 DEF DeleteSavestates

(* The same for the update.                                                *)
LEMMA DeletePbpKeeps == IInv /\ DeletePbp => IInv'
<1> SUFFICES ASSUME IInv, DeletePbp PROVE IInv'
    OBVIOUS
<1>0. step = "pbp" /\ step' = "message" /\ UNCHANGED <<misled, card, asked>>
    BY DEF DeletePbp
<1>1. CASE file' = Absent /\ says' = "pbp" /\ active' = active \ {"pbp"} /\ UNCHANGED <<faults, clean>>
    <2>1. MenuTypeOK'
        BY <1>0, <1>1 DEF IInv, MenuTypeOK, Entries
    <2>2. file' # Size
        BY <1>1, DownloadAssumption DEF Absent
    <2> QED  BY <1>0, <1>1, <2>1, <2>2
        DEF IInv, EntriesMatch, DeletedSoFar, AskedFor, MessageIsTrue, There, Menus, Flash
<1>2. CASE Fault /\ says' = "error" /\ clean' = FALSE /\ UNCHANGED <<file, active>>
    <2>1. clean' \in BOOLEAN
        BY <1>2, Zenon
    <2>2. faults' \in 0..MaxFaults
        BY <1>2, DownloadAssumption DEF Fault, IInv, MenuTypeOK
    <2>3. MenuTypeOK'
        BY <1>0, <1>2, <2>1, <2>2 DEF IInv, MenuTypeOK
    <2> QED  BY <1>0, <1>2, <2>3
        DEF IInv, EntriesMatch, DeletedSoFar, AskedFor, MessageIsTrue, There, Menus, Flash
<1> QED  BY <1>1, <1>2 DEF DeletePbp

(* A process that does not run, or installs, has no menus.                 *)
LEMMA NoMenus ==
    ASSUME MenuTypeOK', step' \in Steps \ {"menu"}
    PROVE  EntriesMatch' /\ DeletedSoFar' /\ AskedFor' /\ MessageIsTrue'
BY DEF Steps, EntriesMatch, DeletedSoFar, AskedFor, MessageIsTrue, Menus, Flash

(* A message that is gone says nothing.                                    *)
LEMMA OkayKeeps == IInv /\ Okay => IInv'
<1> SUFFICES ASSUME IInv, Okay PROVE IInv'
    OBVIOUS
<1>0. step = "message" /\ step' = "menu" /\ says' = "nothing" /\ asked' = "none"
      /\ UNCHANGED <<file, faults, misled, card, active, clean>>
    BY DEF Okay
<1>1. MenuTypeOK'
    BY <1>0 DEF IInv, MenuTypeOK, Steps
<1>2. EntriesMatch'
    BY <1>0 DEF IInv, EntriesMatch, There, Menus, Flash
<1> QED  BY <1>0, <1>1, <1>2 DEF IInv, DeletedSoFar, AskedFor, MessageIsTrue, Flash

(* The entries end with the process.                                       *)
LEMMA QuitKeeps == IInv /\ Quit => IInv'
<1> SUFFICES ASSUME IInv, Quit PROVE IInv'
    OBVIOUS
<1>1. step' = "off" /\ MenuTypeOK'
    BY DEF Quit, menuVars, IInv, MenuTypeOK, Steps
<1> QED  BY <1>1, NoMenus DEF IInv, Steps

(* A loss of power amid a deletion.                                        *)
LEMMA CutOffKeeps == IInv /\ CutOff => IInv'
<1> SUFFICES ASSUME IInv, CutOff PROVE IInv'
    OBVIOUS
<1>1. PICK thing \in Folders :
        \E some \in Leftovers(thing) \cup {"gone"} : card' = [card EXCEPT ![thing] = some]
    BY DEF CutOff
<1>2. PICK some \in Leftovers(thing) \cup {"gone"} : card' = [card EXCEPT ![thing] = some]
    BY <1>1
<1>3. some \in {"whole", "part", "gone"} /\ (thing = "bin" => some # "part")
    BY <1>2 DEF Leftovers, IInv, MenuTypeOK
<1>4. card' \in [Folders -> {"whole", "part", "gone"}] /\ card'["bin"] # "part"
    BY <1>2, <1>3 DEF IInv, MenuTypeOK
<1>5. step' = "off" /\ faults' \in 0..MaxFaults /\ UNCHANGED <<file, misled, active, says, clean, asked>>
    BY DownloadAssumption DEF CutOff, Fault, IInv, MenuTypeOK
<1>6. MenuTypeOK'
    BY <1>4, <1>5 DEF IInv, MenuTypeOK, Steps
<1> QED  BY <1>5, <1>6, NoMenus DEF IInv, Steps

(* Adrenaline runs only while the installer does not.                      *)
LEMMA AdrenalineKeeps == IInv /\ Adrenaline => IInv'
<1> SUFFICES ASSUME IInv, Adrenaline PROVE IInv'
    OBVIOUS
<1>1. step = "off" /\ UNCHANGED <<file, step, faults, misled, active, says, clean, asked>>
    BY DEF Adrenaline, vars
<1>2. card' \in [Folders -> {"whole", "part", "gone"}] /\ card'["bin"] # "part"
    BY DEF Adrenaline, IInv, MenuTypeOK, Folders, Flash
<1>3. MenuTypeOK'
    BY <1>1, <1>2 DEF IInv, MenuTypeOK
<1> QED  BY <1>1, <1>3, NoMenus DEF IInv, Steps

(* An installation, step by step, with its download.                       *)
LEMMA InstallingKeeps == IInv /\ Installing => IInv'
<1> SUFFICES ASSUME IInv, Installing PROVE IInv'
    OBVIOUS
<1>1. UNCHANGED menuVars
    BY DEF Installing
<1>2. step' \in Steps \ {"menu"} /\ (misled' = misled \/ misled' = TRUE)
    BY DEF Installing, Install, Reboot, PowerLoss, Connect, OpenFile, Read, Write, Close, Remove, Fail, Steps
<1>3. file' \in {Absent} \cup Nat
    BY DEF Installing, Install, Reboot, PowerLoss, Connect, OpenFile, Read, Write, Close, Remove,
        IInv, MenuTypeOK, Absent
<1>4. faults' \in 0..MaxFaults
    BY DownloadAssumption
    DEF Installing, Install, Reboot, PowerLoss, Connect, OpenFile, Read, Write, Close, Remove,
        Fault, Fine, IInv, MenuTypeOK
<1>5. misled' \in BOOLEAN
    BY <1>2, Zenon DEF IInv, MenuTypeOK
<1>6. MenuTypeOK'
    BY <1>1, <1>2, <1>3, <1>4, <1>5 DEF IInv, MenuTypeOK, menuVars
<1> QED  BY <1>2, <1>6, NoMenus DEF IInv

(* Every step of the menus, of an installation and of Adrenaline.          *)
LEMMA IInvInductive == IInv /\ [MenuNext]_allVars => IInv'
<1> SUFFICES ASSUME IInv, [MenuNext]_allVars PROVE IInv'
    OBVIOUS
<1>1. CASE UNCHANGED allVars
    BY <1>1 DEF allVars, vars, menuVars, IInv, MenuTypeOK, EntriesMatch, DeletedSoFar, AskedFor,
        MessageIsTrue, There
<1>2. ASSUME NEW entry \in Entries, Confirm(entry) PROVE IInv'
    BY <1>2, ConfirmKeeps
<1> QED  BY <1>1, <1>2, LaunchKeeps, CheckKeeps, InstallingKeeps, DeleteFlashKeeps,
        DeleteSavestatesKeeps, DeletePbpKeeps, OkayKeeps, QuitKeeps, CutOffKeeps, AdrenalineKeeps
    DEF MenuNext

-----------------------------------------------------------------------------
(* The theorems.                                                           *)

(* What the entries and messages of "Advanced Options" say is so, for any  *)
(* size of the update, any server and any number of errors.                *)
THEOREM MenuTellsTrue == MenuSpec => []MenuIsTrue
<1>1. IInv => MenuIsTrue
    <2> SUFFICES ASSUME IInv, step = "menu" PROVE MenuFindsNoPart /\ OfferedIsThere
        BY DEF IInv, MenuIsTrue, MenuFindsNoPart, OfferedIsThere
    <2>1. /\ "pbp" \in active => file = Size
          /\ ~ misled => ("pbp" \in active <=> file = Size) /\ file \in {Absent, Size}
          /\ "states" \in active <=> There("savestate")
          /\ "flash" \in active => There("flash0")
          /\ clean /\ There("flash0") => "flash" \in active
        BY DEF IInv, EntriesMatch, Menus
    <2>2. Size # Absent
        BY DownloadAssumption DEF Absent
    <2>3. MenuFindsNoPart
        BY <2>1 DEF MenuFindsNoPart
    <2>4. OfferedIsThere
        BY <2>1, <2>2 DEF OfferedIsThere, Offers
    <2> QED  BY <2>3, <2>4
<1> QED  BY <1>1, InitIInv, IInvInductive, PTL DEF MenuSpec

(* Nothing of the user's goes unasked.                                     *)
THEOREM NothingGoesUnasked == MenuSpec => GoesOnlyIfAsked
<1>1. IInv /\ [MenuNext]_allVars => [Spared]_allVars
    <2> SUFFICES ASSUME IInv, MenuNext PROVE Spared
        BY DEF allVars
    <2>1. CASE Launch \/ Check \/ Installing \/ (\E entry \in Entries : Confirm(entry))
               \/ DeletePbp \/ Okay \/ Quit
        <3>1. UNCHANGED card
            BY <2>1 DEF Launch, Check, Installing, Confirm, DeletePbp, Okay, Quit, menuVars
        <3>2. file = Size /\ file' # Size => asked = "pbp" \/ Downloading \/ (step = "check" /\ misled')
            BY <2>1 DEF Launch, Start, Check, CheckSize, Installing, Install, Reboot, PowerLoss, Connect,
                OpenFile, Read, Write, Close, Remove, Confirm, DeletePbp, Okay, Quit, Downloading,
                IInv, AskedFor
        <3> QED  BY <3>1, <3>2 DEF Spared
    <2>2. CASE DeleteFlash
        <3>1. step \in Folders /\ (Delete(step) \/ DeleteFails(step)) /\ step # "savestate"
              /\ asked = "flash" /\ UNCHANGED file
            BY <2>2 DEF DeleteFlash, IInv, AskedFor, Flash, Folders
        <3>2. \A f \in Folders \ {step} : card'[f] = card[f]
            BY <3>1, DeletionChanges DEF IInv
        <3> QED  BY <3>1, <3>2 DEF Spared
    <2>3. CASE DeleteSavestates
        <3>1. "savestate" \in Folders /\ (Delete("savestate") \/ DeleteFails("savestate"))
              /\ asked = "states" /\ UNCHANGED file
            BY <2>3 DEF DeleteSavestates, IInv, AskedFor, Folders
        <3>2. \A f \in Folders \ {"savestate"} : card'[f] = card[f]
            BY <3>1, DeletionChanges DEF IInv
        <3> QED  BY <3>1, <3>2 DEF Spared
    <2>4. CASE CutOff
        <3>1. PICK thing \in Folders : /\ step = (IF thing = "savestate" THEN "states" ELSE thing)
                                       /\ \E some \in Leftovers(thing) \cup {"gone"} :
                                            card' = [card EXCEPT ![thing] = some]
            BY <2>4 DEF CutOff
        <3>2. asked = (IF thing = "savestate" THEN "states" ELSE "flash") /\ UNCHANGED file
            BY <2>4, <3>1 DEF CutOff, IInv, AskedFor, Folders
        <3>3. \A f \in Folders \ {thing} : card'[f] = card[f]
            BY <3>1 DEF IInv, MenuTypeOK
        <3>4. \A f \in Flash : f # "savestate"
            BY DEF Flash
        <3> QED  BY <3>1, <3>2, <3>3, <3>4 DEF Spared, Folders
    <2>5. CASE Adrenaline
        <3>1. \A f \in Folders : card'[f] = card[f] \/ card'[f] = "whole"
            BY <2>5 DEF Adrenaline, IInv, MenuTypeOK
        <3> QED  BY <2>5, <3>1 DEF Spared, Adrenaline, vars
    <2> QED  BY <2>1, <2>2, <2>3, <2>4, <2>5 DEF MenuNext
<1> QED  BY <1>1, InitIInv, IInvInductive, PTL DEF MenuSpec, GoesOnlyIfAsked

(* A download, block by block, implements the one step of UpdateFile, and  *)
(* all the rest of the installer leaves the file as UpdateFile allows.     *)
THEOREM DownloadIsOneStep == MenuSpec => ImplementsUpdateFile
<1> DEFINE seen == IF Downloading THEN "none" ELSE Kind(file)
<1>1. MenuInit => Whole!Init
    BY DownloadAssumption DEF MenuInit, Init, Whole!Init, Downloading, Kind
<1>2. IInv /\ [MenuNext]_allVars =>
        [Whole!Fetch \/ Whole!Clean \/ Whole!Delete \/ Whole!Lose]_seen
    <2> SUFFICES ASSUME IInv, [MenuNext]_allVars
                 PROVE  \/ Whole!Fetch \/ Whole!Clean \/ Whole!Delete \/ Whole!Lose
                         \/ UNCHANGED seen
        OBVIOUS
    <2>0. seen' \in {"none", "torn", "whole"}
        BY DEF Kind
    <2>1. CASE UNCHANGED <<file, step>>
        <3>1. UNCHANGED seen
            BY <2>1 DEF Kind, Downloading
        <3> QED  BY <3>1
    <2>9. CASE Install /\ misled' /\ step' = "connect"
        <3>1. seen' = "none" /\ seen \in {"none", "torn", "whole"}
            BY <2>9 DEF Kind, Downloading
        <3> QED  BY <2>9, <3>1 DEF Whole!Clean, Whole!Lose
    <2>2. CASE Downloading \/ (Install /\ file = Absent)
        <3>1. seen = "none"
            BY <2>2 DEF Install, Downloading, Kind
        <3> QED  BY <2>0, <3>1 DEF Whole!Fetch
    <2>3. CASE UNCHANGED file /\ ~ Downloading /\ ~ Downloading'
        <3>1. UNCHANGED seen
            BY <2>3 DEF Kind, Downloading
        <3> QED  BY <3>1
    <2>4. CASE Check
        <3>1. ~ Downloading /\ ~ Downloading'
            BY <2>4 DEF Check, CheckSize, Downloading
        <3>2. file' = file \/ (file # Size /\ file' = Absent) \/ (file' = Absent /\ misled')
            BY <2>4 DEF Check, CheckSize
        <3>3. CASE file' = file
            BY <2>3, <3>1, <3>3
        <3>4. CASE file # Size /\ file # Absent /\ file' = Absent
            <4>1. seen = "torn" /\ seen' = "none"
                BY <3>1, <3>4 DEF Kind, Downloading
            <4> QED  BY <4>1 DEF Whole!Clean
        <3>5. CASE file # Absent /\ file' = Absent /\ misled'
            <4>1. seen \in {"torn", "whole"} /\ seen' = "none"
                BY <3>1, <3>5 DEF Kind, Downloading
            <4> QED  BY <3>5, <4>1 DEF Whole!Clean, Whole!Lose
        <3> QED  BY <3>2, <3>3, <3>4, <3>5
    <2>5. CASE DeletePbp
        <3>1. ~ Downloading /\ ~ Downloading' /\ asked = "pbp" /\ (file' = file \/ file' = Absent)
            BY <2>5 DEF DeletePbp, Downloading, IInv, AskedFor
        <3>2. CASE file' = file
            BY <2>3, <3>1, <3>2
        <3>3. CASE file # Absent /\ file' = Absent
            <4>1. seen \in {"torn", "whole"} /\ seen' = "none"
                BY <3>1, <3>3 DEF Kind, Downloading
            <4> QED  BY <3>1, <4>1 DEF Whole!Clean, Whole!Delete
        <3> QED  BY <3>1, <3>2, <3>3
    <2>6. CASE Launch \/ (\E entry \in Entries : Confirm(entry)) \/ DeleteFlash \/ DeleteSavestates
               \/ Okay \/ Quit \/ CutOff
        <3>1. UNCHANGED file /\ (Downloading \/ ~ Downloading')
            BY <2>6 DEF Launch, Start, Confirm, DeleteFlash, DeleteSavestates, Okay, Quit, CutOff,
                Downloading, Entries, Flash
        <3> QED  BY <2>2, <2>3, <3>1
    <2>7. CASE Installing
        <3>1. CASE Install /\ file # Absent
            BY <2>3, <2>9, <3>1 DEF Install, Downloading
        <3>2. CASE Reboot \/ PowerLoss
            <4>1. UNCHANGED file /\ ~ Downloading'
                BY <3>2 DEF Reboot, PowerLoss, Downloading
            <4> QED  BY <2>2, <2>3, <4>1
        <3>3. CASE Connect \/ OpenFile \/ Read \/ Write \/ Close \/ Remove
            BY <2>2, <3>3 DEF Connect, OpenFile, Read, Write, Close, Remove, Downloading
        <3> QED  BY <2>2, <2>7, <3>1, <3>2, <3>3 DEF Installing
    <2>8. CASE Adrenaline \/ UNCHANGED allVars
        BY <2>1, <2>8 DEF Adrenaline, allVars, vars
    <2> QED  BY <2>4, <2>5, <2>6, <2>7, <2>8 DEF MenuNext
<1> QED  BY <1>1, <1>2, InitIInv, IInvInductive, PTL DEF MenuSpec, ImplementsUpdateFile, Whole!Spec

=============================================================================
