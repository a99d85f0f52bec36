--------------------------- MODULE BasegameProofs ---------------------------
(***************************************************************************)
(* Theorems about Basegame, for any number of power losses and I/O errors. *)
(***************************************************************************)
EXTENDS Basegame, TLAPS

-----------------------------------------------------------------------------
(* The invariant.                                                          *)

(* No folder without the one it is in, no file without its folder.         *)
Nested ==
    /\ dirs \cap {"CONTENT", "package"} # {} => "pspemu" \in dirs
    /\ \A f \in Files : file[f] # "none" => FolderOf(f) \in dirs

Installing == {"make_bgdl", "copy_queue", "make_content", "make_package", "copy_game"}

(* As long as no download came amid a run, what is the user's shows in     *)
(* bgdl, and is gone when a run begins to copy.                            *)
NothingOfTheUsers ==
    /\ Unmixed
    /\ \A f \in Files : file[f] = "user" => "bgdl" \in dirs
    /\ step \in Installing => \A f \in Files : file[f] # "user"
    /\ step = "delete_bgdl" => \A f \in InPspemu : file[f] # "user"

(* If no call failed either, an installation starts from an empty slot and *)
(* fills it folder by folder and file by file, the EBOOT.PBP last.         *)
DoneSoFar ==
    /\ step \in Installing \ {"make_bgdl"} => "bgdl" \in dirs
    /\ step = "copy_queue" => \A i \in 1..4 : i < pos => file[QueueFiles[i]] = "game"
    /\ step \in {"make_content", "make_package", "copy_game"} =>
         \A i \in 1..4 : file[QueueFiles[i]] = "game"
    /\ step = "make_package" => {"pspemu", "CONTENT"} \subseteq dirs
    /\ step = "copy_game" => dirs = Folders
    /\ step = "copy_game" => \A i \in 1..6 : i < pos => file[GameFiles[i]] = "game"
    /\ step \in Installing => file["EBOOT.PBP"] = "none"

SlotInv ==
    /\ "pspemu" \in dirs => "bgdl" \in dirs
    /\ step = "delete_bgdl" => "pspemu" \notin dirs
    /\ step = "make_bgdl" => dirs = {}
    /\ DoneSoFar

PosFits == pos \in 1..6 /\ (step = "copy_queue" => pos \in 1..4)

CardInv ==
    /\ Nested
    /\ ~ arrived => NothingOfTheUsers
    /\ clean /\ ~ arrived => SlotInv

IInv == TypeOK /\ PosFits /\ CardInv

-----------------------------------------------------------------------------
(* The files of the two lists, and where they go.                          *)
LEMMA Layout ==
    /\ \A i \in 1..4 : QueueFiles[i] \in Files /\ FolderOf(QueueFiles[i]) = "bgdl"
    /\ \A i \in 1..6 : GameFiles[i] \in Files /\ FolderOf(GameFiles[i]) \in {"CONTENT", "package"}
    /\ \A f \in Files : (\E i \in 1..4 : f = QueueFiles[i]) \/ (\E i \in 1..6 : f = GameFiles[i])
    /\ \A f \in Files : FolderOf(f) \in {"bgdl", "CONTENT", "package"}
    /\ Len(QueueFiles) = 4 /\ Len(GameFiles) = 6
    /\ GameFiles[6] = "EBOOT.PBP" /\ "EBOOT.PBP" \in InPspemu /\ "EBOOT.PBP" \in Files
    /\ \A i \in 1..4 : QueueFiles[i] # "EBOOT.PBP"
    /\ \A i \in 1..5 : GameFiles[i] # "EBOOT.PBP"
<1>1. DOMAIN QueueFiles = 1..4 /\ DOMAIN GameFiles = 1..6
    BY DEF QueueFiles, GameFiles
<1>2. Len(QueueFiles) = 4 /\ Len(GameFiles) = 6
    BY DEF QueueFiles, GameFiles
<1>3. \A i \in 1..4 : QueueFiles[i] \in Files
    BY <1>1 DEF Files
<1>4. \A i \in 1..6 : GameFiles[i] \in Files
    BY <1>1 DEF Files
<1>5. \A f \in Files : (\E i \in 1..4 : f = QueueFiles[i]) \/ (\E i \in 1..6 : f = GameFiles[i])
    BY <1>1 DEF Files
<1>6. \A i \in 1..4 : FolderOf(QueueFiles[i]) = "bgdl"
    <2>1. \A i \in 1..4 : QueueFiles[i] # "EBOOT.PBP"
        BY DEF QueueFiles
    <2> QED  BY <1>1, <2>1 DEF FolderOf
<1>7. \A i \in 1..6 : FolderOf(GameFiles[i]) \in {"CONTENT", "package"}
    <2>1. \A i \in 1..5, j \in 1..4 : GameFiles[i] # QueueFiles[j]
        BY DEF QueueFiles, GameFiles
    <2>2. GameFiles[6] = "EBOOT.PBP"
        BY DEF GameFiles
    <2>3. \A i \in 1..5 : FolderOf(GameFiles[i]) \in {"CONTENT", "package"}
        BY <1>1, <2>1 DEF FolderOf
    <2>4. FolderOf(GameFiles[6]) = "CONTENT"
        BY <2>2 DEF FolderOf
    <2>5. \A i \in 1..6 : i \in 1..5 \/ i = 6
        OBVIOUS
    <2> QED  BY <2>3, <2>4, <2>5
<1>8. \A f \in Files : FolderOf(f) \in {"bgdl", "CONTENT", "package"}
    BY <1>5, <1>6, <1>7
<1>9. /\ GameFiles[6] = "EBOOT.PBP"
      /\ \A i \in 1..4 : QueueFiles[i] # "EBOOT.PBP"
      /\ \A i \in 1..5 : GameFiles[i] # "EBOOT.PBP"
    BY DEF QueueFiles, GameFiles
<1>10. "EBOOT.PBP" \in Files
    BY <1>4, <1>9
<1>11. "EBOOT.PBP" \in InPspemu
    BY <1>10 DEF InPspemu, FolderOf
<1> QED  BY <1>2, <1>3, <1>4, <1>5, <1>6, <1>7, <1>8, <1>9, <1>10, <1>11

(* The invariant holds before the first start.                             *)
LEMMA InitIInv == Init => IInv
<1> SUFFICES ASSUME Init PROVE IInv
    OBVIOUS
<1>1. graphics \in BOOLEAN /\ clean \in BOOLEAN /\ arrived \in BOOLEAN
    BY Zenon DEF Init
<1>2. TypeOK /\ PosFits
    BY <1>1, BasegameAssumption DEF Init, TypeOK, PosFits, Contents, Steps
<1>3. Nested /\ NothingOfTheUsers
    BY DEF Init, Nested, Unmixed, NothingOfTheUsers, Installing, InPspemu
<1>4. SlotInv
    BY DEF Init, SlotInv, DoneSoFar, Installing
<1> QED  BY <1>2, <1>3, <1>4 DEF IInv, CardInv

-----------------------------------------------------------------------------
(* Types.                                                                  *)

CardOK == dirs \subseteq Folders /\ file \in [Files -> Contents]
RestOK == /\ step \in Steps /\ graphics \in BOOLEAN /\ clean \in BOOLEAN /\ arrived \in BOOLEAN
          /\ faults \in 0..MaxFaults /\ PosFits

(* The type invariant with the copy's place, in two halves.                *)
LEMMA Halves == TypeOK /\ PosFits <=> CardOK /\ RestOK
BY Zenon DEF TypeOK, PosFits, CardOK, RestOK

(* How a step ends.                                                        *)
LEMMA GoTyped == ASSUME RestOK, NEW next \in Steps, Go(next) PROVE RestOK'
<1>1. pos' \in 1..4 /\ pos' \in 1..6 /\ step' \in Steps /\ faults' \in 0..MaxFaults
    BY DEF Go, RestOK
<1>2. graphics' \in BOOLEAN /\ clean' \in BOOLEAN /\ arrived' \in BOOLEAN
    BY Zenon DEF Go, RestOK
<1> QED  BY <1>1, <1>2, Zenon DEF RestOK, PosFits

(* The same for a call that fails.                                         *)
LEMMA FailsTyped == ASSUME RestOK, NEW next \in Steps, Fails(next)
    PROVE  RestOK' /\ clean' = FALSE /\ step' = next /\ UNCHANGED arrived
<1>1. pos' \in 1..4 /\ pos' \in 1..6 /\ step' \in Steps /\ faults' \in 0..MaxFaults
    BY BasegameAssumption DEF Fails, RestOK
<1>2. graphics' \in BOOLEAN /\ clean' \in BOOLEAN /\ arrived' \in BOOLEAN
    BY Zenon DEF Fails, RestOK
<1> QED  BY <1>1, <1>2, Zenon DEF RestOK, PosFits, Fails

-----------------------------------------------------------------------------
(* Steps that leave the card as it is.                                     *)

(* A start, the end of a process, a loss of power, a refusal.              *)
LEMMA IdleKeeps ==
    ASSUME IInv, Launch \/ Confirm \/ Abort \/ Finish \/ Boot \/ PowerLoss PROVE IInv'
<1>1. /\ UNCHANGED card /\ UNCHANGED clean /\ UNCHANGED arrived
      /\ step' \in {"menu", "check", "home", "off"}
    BY DEF Launch, Confirm, Abort, Finish, Boot, PowerLoss, Go, card
<1>2. CardOK'
    BY <1>1, Halves DEF IInv, card, CardOK
<1>3. RestOK
    BY Halves DEF IInv
<1>4. pos' \in 1..6 /\ step' # "copy_queue" /\ step' \in Steps
    BY <1>1, <1>3 DEF Launch, Confirm, Abort, Finish, Boot, PowerLoss, Go, RestOK, PosFits, Steps
<1>5. faults' \in 0..MaxFaults
    BY <1>3, BasegameAssumption DEF Launch, Confirm, Abort, Finish, Boot, PowerLoss, Go, RestOK
<1>6. graphics' = TRUE \/ graphics' = FALSE \/ graphics' = graphics
    BY DEF Launch, Confirm, Abort, Finish, Boot, PowerLoss, Go
<1>7. graphics' \in BOOLEAN /\ clean' \in BOOLEAN /\ arrived' \in BOOLEAN
    BY <1>1, <1>3, <1>6, Zenon DEF RestOK
<1>8. TypeOK' /\ PosFits'
    <2>1. RestOK'
        BY <1>4, <1>5, <1>7, Zenon DEF RestOK, PosFits
    <2> QED  BY <1>2, <2>1, Halves, PTL
<1>9. Nested'
    BY <1>1 DEF IInv, CardInv, Nested, card
<1>10. ASSUME ~ arrived' PROVE NothingOfTheUsers'
    BY <1>1, <1>10 DEF IInv, CardInv, NothingOfTheUsers, Unmixed, Installing, card
<1>11. ASSUME clean', ~ arrived' PROVE SlotInv'
    BY <1>1, <1>11 DEF IInv, CardInv, SlotInv, DoneSoFar, Installing, card
<1> QED  BY <1>8, <1>9, <1>10, <1>11 DEF IInv, CardInv

(* The slot is looked at: with no folder in bgdl nothing is the user's.    *)
LEMMA CheckKeeps == IInv /\ (Check \/ Delete) => IInv'
<1> SUFFICES ASSUME IInv, Check \/ Delete PROVE IInv'
    OBVIOUS
<1>1. /\ step' \in {"ask", "make_bgdl", "delete_pspemu", "delete_bgdl"} /\ Go(step')
      /\ UNCHANGED card /\ UNCHANGED clean /\ UNCHANGED arrived
      /\ step' = "make_bgdl" => "bgdl" \notin dirs
      /\ step' = "delete_bgdl" => "pspemu" \notin dirs
    BY DEF Check, Delete, Go
<1>2. TypeOK' /\ PosFits'
    <2>1. CardOK /\ RestOK
        BY Halves DEF IInv
    <2>2. step' \in Steps
        BY <1>1 DEF Steps
    <2>3. RestOK'
        BY <1>1, <2>1, <2>2, GoTyped
    <2>4. CardOK'
        BY <1>1, <2>1 DEF CardOK, card
    <2> QED  BY <2>3, <2>4, Halves, PTL
<1>3. Nested /\ Nested' /\ dirs \subseteq Folders
    BY <1>1 DEF IInv, CardInv, Nested, card, TypeOK
<1>4. "pspemu" \notin dirs => \A f \in InPspemu : file[f] = "none"
    BY <1>3, Layout DEF Nested, InPspemu
<1>5. ASSUME ~ arrived' PROVE NothingOfTheUsers'
    <2>1. NothingOfTheUsers /\ UNCHANGED <<dirs, file>>
        BY <1>1, <1>5 DEF IInv, CardInv, card
    <2>2. step' = "make_bgdl" => \A f \in Files : file[f] # "user"
        BY <1>1, <2>1 DEF NothingOfTheUsers
    <2>3. step' = "delete_bgdl" => \A f \in InPspemu : file[f] # "user"
        BY <1>1, <1>4
    <2> QED  BY <1>1, <2>1, <2>2, <2>3 DEF NothingOfTheUsers, Unmixed, Installing
<1>6. ASSUME clean', ~ arrived' PROVE SlotInv'
    <2>1. SlotInv /\ UNCHANGED <<dirs, file>>
        BY <1>1, <1>6 DEF IInv, CardInv, card
    <2>2. step' = "make_bgdl" => dirs = {} /\ file["EBOOT.PBP"] = "none"
        BY <1>1, <1>3, <1>4, <2>1, Layout DEF SlotInv, Nested, Folders
    <2>3. DoneSoFar'
        BY <1>1, <2>1, <2>2 DEF DoneSoFar, Installing
    <2> QED  BY <1>1, <2>1, <2>2, <2>3 DEF SlotInv
<1> QED  BY <1>2, <1>3, <1>5, <1>6 DEF IInv, CardInv

-----------------------------------------------------------------------------
(* removePath.                                                             *)

(* One file, or one folder of pspemu that is empty.                        *)
LEMMA RemoveOneKeeps ==
    ASSUME CardOK, Nested, NEW inside \in SUBSET Files,
           NEW branches \in SUBSET {"CONTENT", "package"}, RemoveOne(inside, branches)
    PROVE  /\ CardOK' /\ Nested'
           /\ dirs' \subseteq dirs /\ ("bgdl" \in dirs' <=> "bgdl" \in dirs)
           /\ \A f \in Files : file'[f] = file[f] \/ file'[f] = "none"
<1>1. ASSUME NEW f \in inside, file' = [file EXCEPT ![f] = "none"], UNCHANGED dirs
      PROVE  CardOK' /\ Nested' /\ \A g \in Files : file'[g] = file[g] \/ file'[g] = "none"
    <2>1. \A g \in Files : file'[g] = file[g] \/ file'[g] = "none"
        BY <1>1 DEF CardOK
    <2>2. CardOK'
        BY <1>1 DEF CardOK, Contents
    <2>3. Nested'
        BY <1>1, <2>1 DEF Nested
    <2> QED  BY <2>1, <2>2, <2>3
<1>2. ASSUME NEW d \in branches \cap dirs, Empty(d), dirs' = dirs \ {d}, UNCHANGED file
      PROVE  CardOK' /\ Nested' /\ dirs' \subseteq dirs /\ ("bgdl" \in dirs' <=> "bgdl" \in dirs)
    <2>1. d # "pspemu" /\ d # "bgdl"
        BY <1>2
    <2>2. Nested'
        BY <1>2, <2>1 DEF Nested, Empty
    <2> QED  BY <1>2, <2>1, <2>2 DEF CardOK
<1>3. CASE \E f \in inside : file[f] # "none" /\ file' = [file EXCEPT ![f] = "none"] /\ UNCHANGED dirs
    BY <1>1, <1>3
<1>4. CASE \E d \in branches \cap dirs : Empty(d) /\ dirs' = dirs \ {d} /\ UNCHANGED file
    BY <1>2, <1>4
<1> QED  BY <1>3, <1>4 DEF RemoveOne

(* A deletion that goes on, or back to the menu for want of the folder or  *)
(* for an error.                                                           *)
LEMMA RemovalKeeps ==
    ASSUME IInv, step \in {"delete_pspemu", "delete_bgdl"},
           NEW inside \in SUBSET Files, NEW branches \in SUBSET {"CONTENT", "package"},
           \/ RemoveOne(inside, branches) /\ UNCHANGED <<step, pos, graphics, faults, clean, arrived>>
           \/ Go("menu") /\ UNCHANGED card
           \/ Fails("menu") /\ UNCHANGED card
    PROVE  IInv'
<1>0. CardOK /\ RestOK /\ Nested
    BY Halves DEF IInv, CardInv
<1>1. CASE RemoveOne(inside, branches) /\ UNCHANGED <<step, pos, graphics, faults, clean, arrived>>
    <2>1. /\ CardOK' /\ Nested'
          /\ dirs' \subseteq dirs /\ ("bgdl" \in dirs' <=> "bgdl" \in dirs)
          /\ \A f \in Files : file'[f] = file[f] \/ file'[f] = "none"
        BY <1>0, <1>1, RemoveOneKeeps
    <2>2. RestOK'
        BY <1>0, <1>1 DEF RestOK, PosFits
    <2>3. TypeOK' /\ PosFits'
        BY <2>1, <2>2, Halves, PTL
    <2>4. ASSUME ~ arrived' PROVE NothingOfTheUsers'
        <3>1. NothingOfTheUsers /\ UNCHANGED step
            BY <1>1, <2>4 DEF IInv, CardInv
        <3>2. Unmixed'
            BY <2>1, <3>1 DEF NothingOfTheUsers, Unmixed
        <3> QED  BY <2>1, <3>1, <3>2 DEF NothingOfTheUsers, InPspemu, Installing
    <2>5. ASSUME clean', ~ arrived' PROVE SlotInv'
        BY <1>1, <2>1, <2>5 DEF IInv, CardInv, SlotInv, DoneSoFar, Installing
    <2> QED  BY <2>1, <2>3, <2>4, <2>5 DEF IInv, CardInv
<1>2. CASE (Go("menu") \/ Fails("menu")) /\ UNCHANGED card
    <2>1. /\ RestOK' /\ step' = "menu" /\ UNCHANGED arrived
          /\ clean' => clean
        <3>1. "menu" \in Steps
            BY DEF Steps
        <3>2. CASE Go("menu")
            BY <1>0, <3>1, <3>2, GoTyped DEF Go
        <3>3. CASE Fails("menu")
            BY <1>0, <3>1, <3>3, FailsTyped
        <3> QED  BY <1>2, <3>2, <3>3
    <2>2. CardOK' /\ UNCHANGED <<dirs, file>>
        BY <1>0, <1>2 DEF CardOK, card
    <2>3. TypeOK' /\ PosFits'
        BY <2>1, <2>2, Halves, PTL
    <2>4. Nested'
        BY <1>0, <2>2 DEF Nested
    <2>5. ASSUME ~ arrived' PROVE NothingOfTheUsers'
        BY <2>1, <2>2, <2>5 DEF IInv, CardInv, NothingOfTheUsers, Unmixed, Installing
    <2>6. ASSUME clean', ~ arrived' PROVE SlotInv'
        BY <2>1, <2>2, <2>6 DEF IInv, CardInv, SlotInv, DoneSoFar, Installing
    <2> QED  BY <2>3, <2>4, <2>5, <2>6 DEF IInv, CardInv
<1> QED  BY <1>1, <1>2

(* The end of the deletion in pspemu.                                      *)
LEMMA DeletePspemuKeeps == IInv /\ DeletePspemu => IInv'
<1> SUFFICES ASSUME IInv, DeletePspemu PROVE IInv'
    OBVIOUS
<1>0. CardOK /\ RestOK /\ Nested /\ step = "delete_pspemu"
    BY Halves DEF IInv, CardInv, DeletePspemu
<1>1. CASE /\ {"CONTENT", "package"} \cap dirs = {} /\ \A f \in InPspemu : file[f] = "none"
           /\ dirs' = dirs \ {"pspemu"} /\ UNCHANGED file
           /\ Go("delete_bgdl")
    <2>1. CardOK'
        BY <1>0, <1>1 DEF CardOK
    <2>2. RestOK'
        BY <1>0, <1>1, GoTyped DEF Steps
    <2>3. TypeOK' /\ PosFits'
        BY <2>1, <2>2, Halves, PTL
    <2>4. Nested'
        <3>1. \A f \in Files : file[f] # "none" => FolderOf(f) = "bgdl"
            BY <1>1 DEF InPspemu
        <3> QED  BY <1>0, <1>1, <3>1 DEF Nested
    <2>5. ASSUME ~ arrived' PROVE NothingOfTheUsers'
        BY <1>1, <2>5 DEF Go, IInv, CardInv, NothingOfTheUsers, Unmixed, Installing
    <2>6. ASSUME clean', ~ arrived' PROVE SlotInv'
        BY <1>1, <2>6 DEF Go, IInv, CardInv, SlotInv, DoneSoFar, Installing
    <2> QED  BY <2>3, <2>4, <2>5, <2>6 DEF IInv, CardInv
<1>2. InPspemu \in SUBSET Files
    BY DEF InPspemu
<1> QED  BY <1>0, <1>1, <1>2, RemovalKeeps DEF DeletePspemu, Remove

(* The same for the queue's folder, which leaves nothing of the user's.    *)
LEMMA DeleteBgdlKeeps == IInv /\ DeleteBgdl => IInv'
<1> SUFFICES ASSUME IInv, DeleteBgdl PROVE IInv'
    OBVIOUS
<1>0. CardOK /\ RestOK /\ Nested /\ step = "delete_bgdl"
    BY Halves DEF IInv, CardInv, DeleteBgdl
<1>1. CASE /\ \A f \in Files \ InPspemu : file[f] = "none"
           /\ dirs' = dirs \ {"bgdl"} /\ UNCHANGED file
           /\ Go("make_bgdl")
    <2>1. CardOK'
        BY <1>0, <1>1 DEF CardOK
    <2>2. RestOK'
        BY <1>0, <1>1, GoTyped DEF Steps
    <2>3. TypeOK' /\ PosFits'
        BY <2>1, <2>2, Halves, PTL
    <2>4. Nested'
        <3>1. \A f \in Files : file[f] # "none" => FolderOf(f) # "bgdl"
            BY <1>1 DEF InPspemu
        <3> QED  BY <1>0, <1>1, <3>1 DEF Nested
    <2>5. ASSUME ~ arrived' PROVE NothingOfTheUsers'
        <3>1. \A f \in Files : file[f] # "user"
            BY <1>0, <1>1, <2>5 DEF Go, IInv, CardInv, NothingOfTheUsers
        <3> QED  BY <1>1, <3>1 DEF Go, NothingOfTheUsers, Unmixed, InPspemu
    <2>6. ASSUME clean', ~ arrived' PROVE SlotInv'
        <3>1. "pspemu" \notin dirs /\ step' = "make_bgdl"
            BY <1>0, <1>1, <2>6 DEF Go, IInv, CardInv, SlotInv
        <3>2. dirs' = {}
            BY <1>0, <1>1, <3>1 DEF Nested, CardOK, Folders
        <3>3. file'["EBOOT.PBP"] = "none"
            BY <2>4, <3>2, Layout DEF Nested
        <3> QED  BY <3>1, <3>2, <3>3 DEF SlotInv, DoneSoFar, Installing
    <2> QED  BY <2>3, <2>4, <2>5, <2>6 DEF IInv, CardInv
<1>2. Files \ InPspemu \in SUBSET Files /\ {} \in SUBSET {"CONTENT", "package"}
    OBVIOUS
<1> QED  BY <1>0, <1>1, <1>2, RemovalKeeps DEF DeleteBgdl, Remove

-----------------------------------------------------------------------------
(* The installation.                                                       *)

(* A folder that is made, or not, beside those that are there.             *)
LEMMA FolderMade ==
    ASSUME IInv, step \in Installing, dirs \subseteq dirs', UNCHANGED file, UNCHANGED arrived,
           Nested', step' # "delete_bgdl", ~ arrived'
    PROVE  NothingOfTheUsers'
BY DEF IInv, CardInv, NothingOfTheUsers, Unmixed

(* The queue's folder.                                                     *)
LEMMA MakeBgdlKeeps == IInv /\ MakeBgdl => IInv'
<1> SUFFICES ASSUME IInv, MakeBgdl PROVE IInv'
    OBVIOUS
<1>0. CardOK /\ RestOK /\ Nested /\ step = "make_bgdl" /\ step \in Installing /\ UNCHANGED file
    BY Halves DEF IInv, CardInv, MakeBgdl, Installing
<1>1. CASE dirs' = dirs \cup {"bgdl"} /\ Go("copy_queue")
    <2>1. CardOK'
        BY <1>0, <1>1 DEF CardOK, Folders
    <2>2. RestOK'
        BY <1>0, <1>1, GoTyped DEF Steps
    <2>3. TypeOK' /\ PosFits'
        BY <2>1, <2>2, Halves, PTL
    <2>4. Nested'
        BY <1>0, <1>1 DEF Nested
    <2>5. ASSUME ~ arrived' PROVE NothingOfTheUsers'
        BY <1>0, <1>1, <2>4, <2>5, FolderMade DEF Go
    <2>6. ASSUME clean', ~ arrived' PROVE SlotInv'
        BY <1>0, <1>1, <2>6 DEF Go, IInv, CardInv, SlotInv, DoneSoFar, Installing
    <2> QED  BY <2>3, <2>4, <2>5, <2>6 DEF IInv, CardInv
<1>2. CASE UNCHANGED dirs /\ Fails("make_content")
    <2>1. RestOK' /\ clean' = FALSE /\ step' = "make_content" /\ UNCHANGED arrived
        BY <1>0, <1>2, FailsTyped DEF Steps
    <2>2. CardOK'
        BY <1>0, <1>2 DEF CardOK
    <2>3. TypeOK' /\ PosFits'
        BY <2>1, <2>2, Halves, PTL
    <2>4. Nested'
        BY <1>0, <1>2 DEF Nested
    <2>5. ASSUME ~ arrived' PROVE NothingOfTheUsers'
        BY <1>0, <1>2, <2>1, <2>4, <2>5, FolderMade
    <2> QED  BY <2>1, <2>3, <2>4, <2>5 DEF IInv, CardInv
<1> QED  BY <1>1, <1>2 DEF MakeBgdl

(* The two branches of pspemu.                                             *)
LEMMA MakeBranchKeeps == IInv /\ (MakeContent \/ MakePackage) => IInv'
<1> SUFFICES ASSUME IInv, MakeContent \/ MakePackage PROVE IInv'
    OBVIOUS
<1>0. CardOK /\ RestOK /\ Nested /\ step \in Installing /\ UNCHANGED file
    BY Halves DEF IInv, CardInv, MakeContent, MakePackage, Installing
<1>1. CASE \/ /\ step = "make_content" /\ dirs' = dirs \cup {"pspemu", "CONTENT"} /\ Go("make_package")
           \/ /\ step = "make_package" /\ dirs' = dirs \cup {"pspemu", "package"} /\ Go("copy_game")
    <2>1. CardOK'
        BY <1>0, <1>1 DEF CardOK, Folders
    <2>2. RestOK'
        BY <1>0, <1>1, GoTyped DEF Steps
    <2>3. TypeOK' /\ PosFits'
        BY <2>1, <2>2, Halves, PTL
    <2>4. Nested'
        BY <1>0, <1>1 DEF Nested
    <2>5. ASSUME ~ arrived' PROVE NothingOfTheUsers'
        <3>1. step' # "delete_bgdl" /\ UNCHANGED arrived /\ dirs \subseteq dirs'
            BY <1>1 DEF Go
        <3> QED  BY <1>0, <2>4, <2>5, <3>1, FolderMade
    <2>6. ASSUME clean', ~ arrived' PROVE SlotInv'
        <3>1. SlotInv /\ pos' = 1
            BY <1>1, <2>6 DEF Go, IInv, CardInv
        <3>2. "bgdl" \in dirs
            BY <1>1, <3>1 DEF SlotInv, DoneSoFar, Installing
        <3>3. CASE step = "make_content"
            BY <1>0, <1>1, <3>1, <3>2, <3>3 DEF Go, SlotInv, DoneSoFar, Installing
        <3>4. CASE step = "make_package"
            <4>1. dirs' = Folders
                BY <1>0, <1>1, <3>1, <3>2, <3>4 DEF SlotInv, DoneSoFar, CardOK, Folders
            <4> QED  BY <1>0, <1>1, <3>1, <3>2, <3>4, <4>1 DEF Go, SlotInv, DoneSoFar, Installing
        <3> QED  BY <1>1, <3>3, <3>4
    <2> QED  BY <2>3, <2>4, <2>5, <2>6 DEF IInv, CardInv
<1>2. CASE dirs' \in {dirs, dirs \cup {"pspemu"}} /\ (Fails("make_package") \/ Fails("done"))
    <2>1. RestOK' /\ clean' = FALSE /\ step' # "delete_bgdl" /\ UNCHANGED arrived
        BY <1>0, <1>2, FailsTyped DEF Steps
    <2>2. CardOK'
        BY <1>0, <1>2 DEF CardOK, Folders
    <2>3. TypeOK' /\ PosFits'
        BY <2>1, <2>2, Halves, PTL
    <2>4. Nested'
        BY <1>0, <1>2 DEF Nested
    <2>5. ASSUME ~ arrived' PROVE NothingOfTheUsers'
        BY <1>0, <1>2, <2>1, <2>4, <2>5, FolderMade
    <2> QED  BY <2>1, <2>3, <2>4, <2>5 DEF IInv, CardInv
<1> QED  BY <1>1, <1>2 DEF MakeContent, MakePackage

(* What one file that is written leaves of the slot.                       *)
LEMMA WriteKeeps ==
    ASSUME CardOK, Nested, NEW f \in Files, NEW what \in {"game", "torn"},
           FolderOf(f) \in dirs, file' = [file EXCEPT ![f] = what], UNCHANGED dirs
    PROVE  /\ CardOK' /\ Nested'
           /\ (\A g \in Files : file[g] # "user") => \A g \in Files : file'[g] # "user"
<1>1. CardOK'
    BY DEF CardOK, Contents
<1>2. \A g \in Files : file'[g] = (IF g = f THEN what ELSE file[g])
    BY DEF CardOK
<1>3. Nested'
    BY <1>2 DEF Nested
<1> QED  BY <1>1, <1>2, <1>3

(* A file of a list, copied, half copied or not, and the place after it.   *)
LEMMA CopyTyped ==
    ASSUME CardOK, RestOK, Nested, NEW files, NEW n \in {4, 6}, Len(files) = n,
           \A i \in 1..n : files[i] \in Files, pos \in 1..n,
           step = "copy_queue" => n = 4, NEW next \in Steps \ {"copy_queue"}, Copy(files, next)
    PROVE  /\ CardOK' /\ RestOK' /\ Nested'
           /\ step' = (IF pos = n THEN next ELSE step) /\ pos' = (IF pos = n THEN 1 ELSE pos + 1)
           /\ UNCHANGED <<dirs, arrived>>
           /\ (\A g \in Files : file[g] # "user") => \A g \in Files : file'[g] # "user"
           /\ clean' => /\ clean
                        /\ file' = IF FolderOf(files[pos]) \in dirs
                                   THEN [file EXCEPT ![files[pos]] = "game"] ELSE file
<1>1. step' = (IF pos = n THEN next ELSE step) /\ pos' = (IF pos = n THEN 1 ELSE pos + 1)
      /\ UNCHANGED <<dirs, graphics, arrived>>
    BY DEF Copy
<1>2. /\ pos' \in 1..6 /\ step' \in Steps /\ (step' = "copy_queue" => pos' \in 1..4)
    BY <1>1 DEF RestOK, PosFits
<1>3. /\ CardOK' /\ Nested'
      /\ (\A g \in Files : file[g] # "user") => \A g \in Files : file'[g] # "user"
    <2>1. CASE UNCHANGED file
        BY <1>1, <2>1 DEF CardOK, Nested
    <2>2. CASE /\ FolderOf(files[pos]) \in dirs
               /\ \E what \in {"game", "torn"} : file' = [file EXCEPT ![files[pos]] = what]
        BY <1>1, <2>2, WriteKeeps
    <2> QED  BY <2>1, <2>2 DEF Copy
<1>4. CASE /\ file' = IF FolderOf(files[pos]) \in dirs
                      THEN [file EXCEPT ![files[pos]] = "game"] ELSE file
           /\ UNCHANGED <<faults, clean>>
    <2>1. RestOK'
        BY <1>1, <1>2, <1>4, Zenon DEF RestOK, PosFits
    <2> QED  BY <1>1, <1>3, <1>4, <2>1
<1>5. CASE faults < MaxFaults /\ faults' = faults + 1 /\ clean' = FALSE
    <2>1. faults' \in 0..MaxFaults
        BY <1>5, BasegameAssumption DEF RestOK
    <2>2. clean' \in BOOLEAN
        BY <1>5, Zenon
    <2>3. RestOK'
        BY <1>1, <1>2, <2>1, <2>2, Zenon DEF RestOK, PosFits
    <2> QED  BY <1>1, <1>3, <1>5, <2>3
<1> QED  BY <1>4, <1>5 DEF Copy

(* With nothing of the user's before it, a copy leaves nothing of it.      *)
LEMMA CopySpares ==
    ASSUME IInv, step \in Installing, ~ arrived, step' # "delete_bgdl",
           (\A g \in Files : file[g] # "user") => \A g \in Files : file'[g] # "user"
    PROVE  NothingOfTheUsers'
BY DEF IInv, CardInv, NothingOfTheUsers, Unmixed, InPspemu

(* The queue's files.                                                      *)
LEMMA CopyQueueKeeps == IInv /\ CopyQueue => IInv'
<1> SUFFICES ASSUME IInv, CopyQueue PROVE IInv'
    OBVIOUS
<1>0. CardOK /\ RestOK /\ Nested /\ step = "copy_queue" /\ pos \in 1..4
    BY Halves DEF IInv, CardInv, CopyQueue, PosFits
<1>1. /\ CardOK' /\ RestOK' /\ Nested'
      /\ step' = (IF pos = 4 THEN "make_content" ELSE step) /\ pos' = (IF pos = 4 THEN 1 ELSE pos + 1)
      /\ UNCHANGED <<dirs, arrived>>
      /\ (\A g \in Files : file[g] # "user") => \A g \in Files : file'[g] # "user"
      /\ clean' => /\ clean
                   /\ file' = IF FolderOf(QueueFiles[pos]) \in dirs
                              THEN [file EXCEPT ![QueueFiles[pos]] = "game"] ELSE file
    <2>1. Copy(QueueFiles, "make_content") /\ "make_content" \in Steps \ {"copy_queue"}
        BY DEF CopyQueue, Steps
    <2>2. Len(QueueFiles) = 4 /\ \A i \in 1..4 : QueueFiles[i] \in Files
        BY Layout
    <2> QED  BY <1>0, <2>1, <2>2, CopyTyped
<1>2. TypeOK' /\ PosFits'
    BY <1>1, Halves, PTL
<1>3. ASSUME ~ arrived' PROVE NothingOfTheUsers'
    BY <1>0, <1>1, <1>3, CopySpares DEF Installing
<1>4. ASSUME clean', ~ arrived' PROVE SlotInv'
    <2>1. SlotInv
        BY <1>1, <1>4 DEF IInv, CardInv
    <2>2. QueueFiles[pos] \in Files /\ FolderOf(QueueFiles[pos]) = "bgdl" /\ "bgdl" \in dirs
        BY <1>0, <2>1, Layout DEF SlotInv, DoneSoFar, Installing
    <2>3. file' = [file EXCEPT ![QueueFiles[pos]] = "game"]
        BY <1>1, <1>4, <2>2
    <2>4. \A i \in 1..4 : i <= pos => file'[QueueFiles[i]] = "game"
        BY <1>0, <2>1, <2>3, Layout DEF SlotInv, DoneSoFar, CardOK
    <2>5. file'["EBOOT.PBP"] = "none"
        BY <1>0, <2>1, <2>3, Layout DEF SlotInv, DoneSoFar, Installing, CardOK
    <2>6. DoneSoFar'
        BY <1>0, <1>1, <2>2, <2>4, <2>5 DEF DoneSoFar, Installing
    <2> QED  BY <1>0, <1>1, <2>1, <2>6 DEF SlotInv
<1> QED  BY <1>1, <1>2, <1>3, <1>4 DEF IInv, CardInv

(* The game's files, of which the last completes the slot.                 *)
LEMMA CopyGameKeeps ==
    ASSUME IInv, CopyGame
    PROVE  IInv' /\ (Done /\ clean' /\ ~ arrived => AllThere')
<1>0. CardOK /\ RestOK /\ Nested /\ step = "copy_game" /\ pos \in 1..6
    BY Halves DEF IInv, CardInv, CopyGame, PosFits
<1>1. /\ CardOK' /\ RestOK' /\ Nested'
      /\ step' = (IF pos = 6 THEN "done" ELSE step) /\ pos' = (IF pos = 6 THEN 1 ELSE pos + 1)
      /\ UNCHANGED <<dirs, arrived>>
      /\ (\A g \in Files : file[g] # "user") => \A g \in Files : file'[g] # "user"
      /\ clean' => /\ clean
                   /\ file' = IF FolderOf(GameFiles[pos]) \in dirs
                              THEN [file EXCEPT ![GameFiles[pos]] = "game"] ELSE file
    <2>1. Copy(GameFiles, "done") /\ "done" \in Steps \ {"copy_queue"}
        BY DEF CopyGame, Steps
    <2>2. Len(GameFiles) = 6 /\ \A i \in 1..6 : GameFiles[i] \in Files
        BY Layout
    <2> QED  BY <1>0, <2>1, <2>2, CopyTyped
<1>2. TypeOK' /\ PosFits'
    BY <1>1, Halves, PTL
<1>3. ASSUME ~ arrived' PROVE NothingOfTheUsers'
    BY <1>0, <1>1, <1>3, CopySpares DEF Installing
<1>4. ASSUME clean', ~ arrived' PROVE SlotInv' /\ (Done => AllThere')
    <2>1. SlotInv /\ dirs = Folders
        BY <1>0, <1>1, <1>4 DEF IInv, CardInv, SlotInv, DoneSoFar
    <2>2. GameFiles[pos] \in Files /\ FolderOf(GameFiles[pos]) \in dirs
        BY <1>0, <2>1, Layout DEF Folders
    <2>3. file' = [file EXCEPT ![GameFiles[pos]] = "game"]
        BY <1>1, <1>4, <2>2
    <2>4. \A i \in 1..6 : i <= pos => file'[GameFiles[i]] = "game"
        BY <1>0, <2>1, <2>3, Layout DEF SlotInv, DoneSoFar, CardOK
    <2>5. \A i \in 1..4 : file'[QueueFiles[i]] = "game"
        BY <1>0, <2>1, <2>3, Layout DEF SlotInv, DoneSoFar, CardOK
    <2>6. pos # 6 => file'["EBOOT.PBP"] = "none"
        BY <1>0, <2>1, <2>3, Layout DEF SlotInv, DoneSoFar, Installing, CardOK
    <2>7. DoneSoFar'
        BY <1>0, <1>1, <2>1, <2>4, <2>5, <2>6 DEF DoneSoFar, Installing, Folders
    <2>8. Done => pos = 6
        BY <1>0, <1>1 DEF Done
    <2>9. Done => AllThere'
        BY <1>1, <2>1, <2>4, <2>5, <2>8, Layout DEF AllThere
    <2> QED  BY <1>0, <1>1, <2>1, <2>7, <2>9 DEF SlotInv
<1> QED  BY <1>1, <1>2, <1>3, <1>4 DEF IInv, CardInv

(* A loss of power amid a write.                                           *)
LEMMA TornWriteKeeps == IInv /\ TornWrite => IInv'
<1> SUFFICES ASSUME IInv, TornWrite PROVE IInv'
    OBVIOUS
<1>0. CardOK /\ RestOK /\ Nested
    BY Halves DEF IInv, CardInv
<1>1. PICK f \in Files : FolderOf(f) \in dirs /\ file' = [file EXCEPT ![f] = "torn"]
    BY <1>0, Layout DEF TornWrite, RestOK, PosFits
<1>2. /\ step \in {"copy_queue", "copy_game"} /\ step' = "off"
      /\ faults' \in 0..MaxFaults /\ UNCHANGED <<dirs, pos, graphics, clean, arrived>>
    BY <1>0, BasegameAssumption DEF TornWrite, RestOK
<1>3. /\ CardOK' /\ Nested'
      /\ (\A g \in Files : file[g] # "user") => \A g \in Files : file'[g] # "user"
    BY <1>0, <1>1, <1>2, WriteKeeps
<1>4. RestOK'
    BY <1>0, <1>2 DEF RestOK, PosFits, Steps
<1>5. TypeOK' /\ PosFits'
    BY <1>3, <1>4, Halves, PTL
<1>6. ASSUME ~ arrived' PROVE NothingOfTheUsers'
    BY <1>2, <1>3, <1>6, CopySpares DEF Installing
<1>7. ASSUME clean', ~ arrived' PROVE SlotInv'
    BY <1>2, <1>7 DEF IInv, CardInv, SlotInv, DoneSoFar, Installing
<1> QED  BY <1>3, <1>5, <1>6, <1>7 DEF IInv, CardInv

-----------------------------------------------------------------------------
(* The system.                                                             *)

(* A download that arrives is whole, and amid a run it is on record.       *)
LEMMA DownloadKeeps == IInv /\ Download => IInv'
<1> SUFFICES ASSUME IInv, Download PROVE IInv'
    OBVIOUS
<1>0. CardOK /\ RestOK /\ UNCHANGED <<step, pos, graphics, faults, clean>>
    BY Halves DEF IInv, Download
<1>1. dirs' = Folders /\ file' = [f \in Files |-> "user"]
    BY DEF Download
<1>2. CardOK'
    BY <1>1 DEF CardOK, Contents
<1>3. arrived' \in BOOLEAN
    BY <1>0, Zenon DEF Download, RestOK
<1>4. RestOK'
    BY <1>0, <1>3, Zenon DEF RestOK, PosFits
<1>5. TypeOK' /\ PosFits'
    BY <1>2, <1>4, Halves, PTL
<1>6. Nested'
    BY <1>1, Layout DEF Nested, Folders
<1>7. ~ arrived' => step' \notin Installing \cup {"delete_bgdl"}
    BY <1>0 DEF Download, Working, Installing, RestOK, Steps
<1>8. ~ arrived' => NothingOfTheUsers'
    BY <1>1, <1>7 DEF NothingOfTheUsers, Unmixed, Folders
<1>9. ~ arrived' => SlotInv'
    BY <1>1, <1>7 DEF SlotInv, DoneSoFar, Folders, Installing
<1> QED  BY <1>5, <1>6, <1>8, <1>9 DEF IInv, CardInv

(* The slot is emptied only if it is complete, which it is not amid an     *)
(* installation: the EBOOT.PBP is still to come.                           *)
LEMMA InstallFromQueueKeeps == IInv /\ InstallFromQueue => IInv'
<1> SUFFICES ASSUME IInv, InstallFromQueue PROVE IInv'
    OBVIOUS
<1>0. CardOK /\ RestOK /\ UNCHANGED <<step, pos, graphics, faults, clean, arrived>>
    BY Halves DEF IInv, InstallFromQueue
<1>1. dirs' = {} /\ file' = [f \in Files |-> "none"]
    BY DEF InstallFromQueue
<1>2. CardOK'
    BY <1>1 DEF CardOK, Contents
<1>3. RestOK'
    BY <1>0 DEF RestOK, PosFits
<1>4. TypeOK' /\ PosFits'
    BY <1>2, <1>3, Halves, PTL
<1>5. Nested' /\ NothingOfTheUsers'
    BY <1>1, Layout DEF Nested, NothingOfTheUsers, Unmixed, InPspemu
<1>6. file["EBOOT.PBP"] # "none"
    BY Layout DEF InstallFromQueue, Whole
<1>7. ASSUME clean', ~ arrived' PROVE SlotInv'
    <2>1. step \notin Installing
        BY <1>0, <1>6, <1>7 DEF IInv, CardInv, SlotInv, DoneSoFar
    <2> QED  BY <1>0, <1>1, <2>1 DEF SlotInv, DoneSoFar, Installing
<1> QED  BY <1>4, <1>5, <1>7 DEF IInv, CardInv

(* Every step.                                                             *)
LEMMA IInvInductive == IInv /\ [Next]_vars => IInv'
<1> SUFFICES ASSUME IInv, [Next]_vars PROVE IInv'
    OBVIOUS
<1>1. CASE UNCHANGED vars
    <2>1. UNCHANGED <<dirs, file, step, pos, graphics, faults, clean, arrived>>
        BY <1>1 DEF vars, card
    <2>2. TypeOK' /\ PosFits'
        BY <2>1 DEF IInv, TypeOK, PosFits
    <2>3. Nested' /\ (~ arrived' => NothingOfTheUsers') /\ (clean' /\ ~ arrived' => SlotInv')
        BY <2>1 DEF IInv, CardInv, Nested, NothingOfTheUsers, Unmixed, SlotInv, DoneSoFar
    <2> QED  BY <2>2, <2>3 DEF IInv, CardInv
<1> QED  BY <1>1, IdleKeeps, CheckKeeps, DeletePspemuKeeps, DeleteBgdlKeeps, MakeBgdlKeeps,
        MakeBranchKeeps, CopyQueueKeeps, CopyGameKeeps, TornWriteKeeps, DownloadKeeps,
        InstallFromQueueKeeps
    DEF Next

-----------------------------------------------------------------------------
(* The theorems.                                                           *)

(* The folders and files of the slot keep their types.                     *)
THEOREM TypeCorrect == Spec => []TypeOK
<1>1. IInv => TypeOK
    BY DEF IInv
<1> QED  BY <1>1, InitIInv, IInvInductive, PTL DEF Spec

(* After any number of losses of power, wherever they come, what is in     *)
(* pspemu can be found by the folder in bgdl, unless a call failed or a    *)
(* download came amid a run.                                               *)
THEOREM NothingStaysHidden == Spec => []NothingHidden
<1>1. IInv => NothingHidden
    BY DEF IInv, CardInv, SlotInv, NothingHidden
<1> QED  BY <1>1, InitIInv, IInvInductive, PTL DEF Spec

(* Whatever fails or is cut short, and whenever the system acts on the     *)
(* slot, a download of the user's is mixed with the game only after one    *)
(* came between a run's look at the slot and its last copy.                *)
THEOREM SlotUnmixed == Spec => []NeverMixed
<1>1. IInv => NeverMixed
    BY DEF IInv, CardInv, NothingOfTheUsers, NeverMixed
<1> QED  BY <1>1, InitIInv, IInvInductive, PTL DEF Spec

(* "Done!" comes when all ten files are there, if no call failed and no    *)
(* download came amid a run.                                               *)
THEOREM DoneIsWhole == Spec => DoneMeansWhole
<1>1. IInv /\ [Next]_vars => [Done /\ clean' /\ ~ arrived => AllThere']_vars
    <2> SUFFICES ASSUME IInv, Next, Done, clean', ~ arrived PROVE AllThere'
        BY DEF vars
    <2>1. CASE CopyGame
        BY <2>1, CopyGameKeeps
    <2>2. CASE MakePackage
        BY <2>2 DEF MakePackage, Fails, Go, Done
    <2>3. CASE DeletePspemu \/ DeleteBgdl \/ CopyQueue
        BY <2>3 DEF DeletePspemu, DeleteBgdl, Remove, CopyQueue, Copy, Go, Fails, Done
    <2>4. CASE \/ Launch \/ Confirm \/ Check \/ Abort \/ Delete \/ MakeBgdl \/ MakeContent
               \/ TornWrite \/ Finish \/ Download \/ InstallFromQueue \/ Boot \/ PowerLoss
        BY <2>4 DEF Launch, Confirm, Check, Abort, Delete, MakeBgdl, MakeContent, TornWrite,
            Finish, Download, InstallFromQueue, Boot, PowerLoss, Go, Fails, Done
    <2> QED  BY <2>1, <2>2, <2>3, <2>4 DEF Next
<1> QED  BY <1>1, InitIInv, IInvInductive, PTL DEF Spec, DoneMeansWhole

=============================================================================
