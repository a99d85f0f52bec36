--------------------------- MODULE InstallerProofs ---------------------------
(***************************************************************************)
(* What holds of every run of the installer, whatever the games, the       *)
(* releases and the config, and however many faults there are.             *)
(***************************************************************************)
EXTENDS InstallerService, TLAPS

(* What the helpers of TaiConfig return.                                   *)
LEMMA IdIsWord ==
    ASSUME NEW c \in ConfigFiles, NEW path
    PROVE  GetId(c, path) \in Words
<1>1. ASSUME NEW n PROVE Section(c, n) \in Words
  <2> DEFINE nearest == Lowest(HeadersAbove(c, n))
  <2>1. nearest \subseteq Lines
    BY DEF Lowest, HeadersAbove, ConfigFiles
  <2>2. nearest # {} => (CHOOSE h \in nearest : TRUE) \in nearest
    OBVIOUS
  <2> QED BY <2>1, <2>2, WordsAssumption DEF Section, Lines
<1> DEFINE hits == Lowest({line \in c : IsPlugin(line, "suprx", path)})
<1>2. Section(c, (CHOOSE h \in hits : TRUE).at) \in Words
  BY <1>1
<1>3. NoId \in Words
  BY WordsAssumption
<1> QED BY <1>2, <1>3, Zenon DEF GetId

LEMMA EndIsNat ==
    ASSUME NEW c \in ConfigFiles
    PROVE  End(c) \in Nat
<1>1. Lowest(c) \subseteq Lines
  BY DEF Lowest, ConfigFiles
<1>2. Lowest(c) # {} => (CHOOSE last \in Lowest(c) : TRUE) \in Lowest(c)
  OBVIOUS
<1> QED BY <1>1, <1>2 DEF End, Lines

(* The texts an install and an uninstall write are config files, and so is *)
(* all that an interrupted write leaves of one.                            *)
LEMMA WriteTyped ==
    ASSUME NEW c \in ConfigFiles, NEW path \in Folders, NEW id \in Words
    PROVE  WriteLines(c, path, id) \in ConfigFiles
<1>1. path \in Words /\ "vs0" \in Words
  BY WordsAssumption DEF Folders
<1>2. End(c) + 1 \in Nat
  BY EndIsNat
<1>3. ASSUME NEW n \in Nat PROVE
        /\ Header(n, id) \in Lines
        /\ Plugin(n, "skprx", path) \in Lines /\ Plugin(n, "suprx", path) \in Lines
        /\ Plugin(n, "libpgf", "vs0") \in Lines
  BY <1>1, <1>3 DEF Header, Plugin, Lines, Kinds
<1>4. \A h \in c : h \in Lines /\ h.at \in Nat
  BY DEF ConfigFiles, Lines
<1>5. {Plugin(h.at, "skprx", path) : h \in {g \in c : g = Header(g.at, Kernel)}} \subseteq Lines
  BY <1>3, <1>4
<1> QED BY <1>2, <1>3, <1>4, <1>5 DEF WriteLines, ConfigFiles

LEMMA DeleteTyped ==
    ASSUME NEW c \in ConfigFiles, NEW path, NEW id
    PROVE  DeleteLines(c, path, id) \in ConfigFiles
BY DEF DeleteLines, ConfigFiles

LEMMA CutsTyped ==
    ASSUME NEW c \in ConfigFiles
    PROVE  Cuts(c) \subseteq ConfigFiles
BY DEF Cuts, Above, ConfigFiles

(* A plugin line of the user's survives in both texts, unless it contains  *)
(* the id that is deleted.                                                 *)
LEMMA UserLinesSurvive ==
    ASSUME NEW c \in ConfigFiles, NEW path, NEW id, NEW line \in UserLines(c)
    PROVE  /\ line \in WriteLines(c, path, id)
           /\ id # NoId /\ line.of # id => line \in DeleteLines(c, path, id)
BY DEF UserLines, WriteLines, DeleteLines, Dropped, IsPlugin, ContainsId

LEMMA FreshTyped == Fresh \in Rams
<1>1. Latest \in Releases /\ NoId \in Words
  BY InstallerAssumption, WordsAssumption
<1>2. Absent \in Contents
  BY DEF Contents
<1>3. NewFolder \in Folders /\ "ux0" \in Places
  BY DEF Folders, Places
<1> QED BY <1>1, <1>2, <1>3 DEF Fresh, Rams

LEMMA FolderTyped ==
    ASSUME NEW release
    PROVE  Folder(release) \in Folders
BY DEF Folder, Folders

-----------------------------------------------------------------------------
(* Types.                                                                  *)

LEMMA LinesTyped ==
    ASSUME NEW file \in ConfigFiles \union {Missing}
    PROVE  LinesOf(file) \in ConfigFiles
BY DEF LinesOf, ConfigFiles

(* The ends of a step keep the types of the globals and of the history.    *)
GlobalsOK ==
    step \in Steps /\ ram \in Rams /\ faults \in 0..MaxFaults /\ clean \in BOOLEAN
    /\ before \in [tai : Places, lines : ConfigFiles, marked : SUBSET Games, playable : SUBSET Games]
CardOK ==
    /\ dir \in [Folders -> BOOLEAN]
    /\ disk \in [Folders -> [Files -> Contents]]
    /\ games \subseteq Games
    /\ pboot \in [Games -> {"none", "torn", "ours"}]
    /\ config \in [Places -> ConfigFiles \union {Missing}]
    /\ temp \in ConfigFiles \union {Missing}

LEMMA TypeSplit == (TypeOK <=> CardOK /\ GlobalsOK) /\ (TypeOK' <=> CardOK' /\ GlobalsOK')
BY DEF TypeOK, CardOK, GlobalsOK

LEMMA GoTyped ==
    ASSUME GlobalsOK, NEW next \in Steps, NEW r \in Rams, Go(next, r) \/ GoWrong(next, r)
    PROVE  GlobalsOK'
<1>1. "off" \in Steps
  BY DEF Steps
<1>2. CASE Go(next, r)
  BY <1>2 DEF Go, GlobalsOK, history
<1>3. CASE GoWrong(next, r)
  <2>1. faults' \in 0..MaxFaults
    BY <1>3, InstallerAssumption DEF GoWrong, GlobalsOK
  <2> QED BY <1>1, <1>3, <2>1, FreshTyped DEF GoWrong, GlobalsOK
<1> QED BY <1>2, <1>3

LEMMA CardStays == CardOK /\ UNCHANGED card => CardOK'
BY DEF CardOK, card

LEMMA PutFileTyped ==
    ASSUME TypeOK, NEW path \in Folders, NEW file \in Files, NEW content \in Contents,
           NEW next \in Steps, NEW r \in Rams, PutFile(path, file, content, next, r)
    PROVE  TypeOK'
<1>1. Go(next, r) \/ GoWrong(next, r)
  BY DEF PutFile
<1>2. GlobalsOK'
  BY <1>1, GoTyped, TypeSplit
<1>3. Torn \in Contents /\ disk \in [Folders -> [Files -> Contents]] /\ disk[path][file] \in Contents
  BY DEF Contents, TypeOK
<1>4. \E left \in Contents : disk' = disk \/ disk' = [disk EXCEPT ![path][file] = left]
  BY <1>3 DEF PutFile
<1>5. disk' \in [Folders -> [Files -> Contents]]
  BY <1>3, <1>4
<1> QED BY <1>2, <1>5, TypeSplit DEF PutFile, CardOK

LEMMA RemoveFileTyped ==
    ASSUME TypeOK, NEW path \in Folders, NEW file \in Files,
           NEW next \in Steps, NEW r \in Rams, RemoveFile(path, file, next, r)
    PROVE  TypeOK'
<1>1. Go(next, r) \/ GoWrong(next, r)
  BY DEF RemoveFile
<1>2. GlobalsOK'
  BY <1>1, GoTyped, TypeSplit
<1>3. Absent \in Contents /\ disk \in [Folders -> [Files -> Contents]]
  BY DEF Contents, TypeOK
<1>4. disk' \in [Folders -> [Files -> Contents]]
  BY <1>3 DEF RemoveFile
<1> QED BY <1>2, <1>4, TypeSplit DEF RemoveFile, CardOK

(* A rewrite of the config returns into the operation it is part of.       *)
LEMMA AfterRewriteTyped ==
    ASSUME NEW edit
    PROVE  AfterRewrite(edit) \in Steps \ {"off", "unlink", "copy", "drop", "unhook", "hook", "mkdir",
                                           "pboot", "rmpboot", "rmfolder"}
BY DEF AfterRewrite, Steps

LEMMA EditTyped ==
    ASSUME TypeOK, NEW text \in ConfigFiles, NEW edit \in {"write", "delete"}, EditTo(text, edit)
    PROVE  TypeOK'
<1> DEFINE r == [ram EXCEPT !.edit = edit]
<1>1. r \in Rams
  BY DEF TypeOK, Rams
<1>2. AfterRewrite(edit) \in Steps /\ "unlink" \in Steps
  BY AfterRewriteTyped DEF Steps
<1>3. \E next \in Steps : Go(next, r) \/ GoWrong(next, r)
  BY <1>2 DEF EditTo
<1>4. GlobalsOK'
  BY <1>1, <1>3, GoTyped, TypeSplit
<1>5. temp' \in ConfigFiles
  <2>1. {} \in ConfigFiles /\ Cuts(text) \subseteq ConfigFiles
    BY CutsTyped DEF ConfigFiles
  <2> QED BY <2>1 DEF EditTo
<1> QED BY <1>4, <1>5, TypeSplit DEF EditTo, CardOK

LEMMA InitTyped == Init => TypeOK
<1> SUFFICES ASSUME Init PROVE TypeOK
  OBVIOUS
<1>1. /\ games \subseteq Games /\ temp \in ConfigFiles \union {Missing}
      /\ step \in Steps /\ ram \in Rams /\ faults \in 0..MaxFaults /\ clean \in BOOLEAN
  BY FreshTyped, InstallerAssumption DEF Init, Steps
<1>2. Absent \in Contents /\ Releases \subseteq Contents
  BY DEF Contents
<1>3. NoFiles \in [Files -> Contents]
  BY <1>2 DEF NoFiles
<1>4. ASSUME NEW release \in Releases PROVE HandFiles(release) \in [Files -> Contents]
  BY <1>2, <1>3 DEF HandFiles
<1>5. PICK place \in TaiPlaces, c \in UserConfigs, has \in GameFiles :
        /\ before = [tai |-> place, lines |-> c, marked |-> has.marked, playable |-> has.playable]
        /\ \/ /\ dir = [path \in Folders |-> FALSE]
              /\ disk = [path \in Folders |-> NoFiles]
              /\ pboot = [game \in Games |-> "none"]
              /\ config = [p \in Places |-> IF p = place THEN c ELSE Missing]
           \/ \E release \in Releases, game \in has.playable :
                /\ dir = [path \in Folders |-> path = Folder(release)]
                /\ disk = [path \in Folders |->
                              IF path = Folder(release) THEN HandFiles(release) ELSE NoFiles]
                /\ pboot = [g \in Games |-> IF g = game THEN "ours" ELSE "none"]
                /\ config = [p \in Places |->
                               IF p = place THEN WriteLines(c, Folder(release), game) ELSE Missing]
  BY DEF Init
<1>6. place \in Places /\ c \in ConfigFiles /\ has \in [marked : SUBSET Games, playable : SUBSET Games]
  BY InstallerAssumption
<1>7. before \in [tai : Places, lines : ConfigFiles, marked : SUBSET Games, playable : SUBSET Games]
  BY <1>5, <1>6
<1>8. CASE /\ dir = [path \in Folders |-> FALSE]
           /\ disk = [path \in Folders |-> NoFiles]
           /\ pboot = [game \in Games |-> "none"]
           /\ config = [p \in Places |-> IF p = place THEN c ELSE Missing]
  BY <1>1, <1>3, <1>6, <1>7, <1>8 DEF TypeOK
<1>9. ASSUME NEW release \in Releases, NEW game \in has.playable,
             dir = [path \in Folders |-> path = Folder(release)],
             disk = [path \in Folders |->
                       IF path = Folder(release) THEN HandFiles(release) ELSE NoFiles],
             pboot = [g \in Games |-> IF g = game THEN "ours" ELSE "none"],
             config = [p \in Places |->
                         IF p = place THEN WriteLines(c, Folder(release), game) ELSE Missing]
      PROVE  TypeOK
  <2>1. WriteLines(c, Folder(release), game) \in ConfigFiles
    BY <1>6, FolderTyped, WriteTyped, InstallerAssumption
  <2>2. config \in [Places -> ConfigFiles \union {Missing}]
    BY <2>1, <1>9
  <2>3. disk \in [Folders -> [Files -> Contents]]
    BY <1>3, <1>4, <1>9
  <2>4. dir \in [Folders -> BOOLEAN] /\ pboot \in [Games -> {"none", "torn", "ours"}]
    BY <1>9
  <2> QED BY <1>1, <1>7, <2>2, <2>3, <2>4 DEF TypeOK
<1> QED BY <1>5, <1>6, <1>8, <1>9

LEMMA Fields ==
    ASSUME TypeOK
    PROVE  /\ ram \in Rams
           /\ ram.folder \in Folders /\ ram.arg \in Releases /\ ram.tai \in Places
           /\ ram.gameId \in Words /\ ram.id \in Words /\ ram.listed \subseteq Games
           /\ ram.version \in Contents /\ ram.installed \in BOOLEAN
           /\ config[ram.tai] \in ConfigFiles \union {Missing}
           /\ LinesOf(config[ram.tai]) \in ConfigFiles
           /\ {Update, Torn, Absent} \subseteq Contents /\ Releases \subseteq Contents
BY LinesTyped DEF TypeOK, Rams, Contents

(* The start-up check.                                                     *)
LEMMA CheckTyped ==
    ASSUME TypeOK, Check
    PROVE  TypeOK'
<1> USE Fields
<1>1. CASE Launch
  <2> DEFINE unhook == FoundId # NoId /\ ~ Works
  <2>1. StartCheck(FoundVersion, Works, unhook)
    BY <1>1 DEF Launch
  <2>2. FoundTai \in Places /\ FoundFolder \in Folders
    BY DEF FoundTai, FoundFolder, Places, Folders
  <2>3. config[FoundTai] \in ConfigFiles
    BY <2>1, <2>2 DEF StartCheck, TypeOK
  <2>4. FoundId \in Words
    BY <2>3, IdIsWord DEF FoundId
  <2>5. FoundVersion \in Contents
    BY <2>2 DEF FoundVersion, TypeOK, Files
  <2>6. Works \in BOOLEAN /\ Listed \subseteq Games
    BY DEF Works, Listed, TypeOK
  <2>7. ram' \in Rams
    BY <2>1, <2>2, <2>4, <2>5, <2>6, FreshTyped DEF StartCheck, Rams
  <2>8. step' \in Steps
    BY <2>1 DEF StartCheck, Steps
  <2>9. GlobalsOK'
    BY <2>1, <2>2, <2>3, <2>7, <2>8 DEF StartCheck, GlobalsOK, TypeOK
  <2> QED BY <2>1, <2>9, CardStays, TypeSplit DEF StartCheck
<1>2. CASE RemoveSkprx
  BY <1>2, RemoveFileTyped DEF RemoveSkprx, Steps, Files
<1>3. CASE RemoveSuprx
  BY <1>3, RemoveFileTyped DEF RemoveSuprx, Steps, Files
<1>4. CASE CheckUpdate
  <2> DEFINE r == [ram EXCEPT !.op = "none", !.gameId = IF ram.installed THEN @ ELSE NoId]
  <2>1. r \in Rams
    BY WordsAssumption DEF Rams
  <2>2. "menu" \in Steps /\ "update" \in Files
    BY DEF Steps, Files
  <2>3. RemoveFile(ram.folder, "update", "menu", r) => TypeOK'
    BY <2>1, <2>2, RemoveFileTyped
  <2>4. Go("menu", r) /\ UNCHANGED card => TypeOK'
    BY <2>1, <2>2, GoTyped, CardStays, TypeSplit
  <2>5. ASSUME disk' = [disk EXCEPT ![ram.folder]["update"] = Absent],
               UNCHANGED <<dir, games, pboot, config, temp>>, GoWrong("menu", r)
        PROVE  TypeOK'
    <3>1. disk' \in [Folders -> [Files -> Contents]]
      BY <2>5 DEF TypeOK
    <3>2. GlobalsOK'
      BY <2>1, <2>2, <2>5, GoTyped, TypeSplit
    <3> QED BY <3>1, <3>2, <2>5, TypeSplit DEF CardOK
  <2> QED BY <1>4, <2>3, <2>4, <2>5 DEF CheckUpdate
<1> QED BY <1>1, <1>2, <1>3, <1>4 DEF Check

(* The rewrites of the config.                                             *)
LEMMA RewriteTyped ==
    ASSUME TypeOK, Rewrite
    PROVE  TypeOK'
<1> USE Fields
<1>1. CASE Hook
  BY <1>1, WriteTyped, EditTyped DEF Hook
<1>2. CASE Unhook
  BY <1>2, DeleteTyped, EditTyped DEF Unhook
<1>3. CASE RemoveConfig
  <2>1. GlobalsOK'
    BY <1>3, GoTyped, TypeSplit DEF RemoveConfig, Steps
  <2>2. config' \in [Places -> ConfigFiles \union {Missing}]
    BY <1>3 DEF RemoveConfig, TypeOK
  <2> QED BY <1>3, <2>1, <2>2, TypeSplit DEF RemoveConfig, CardOK
<1>4. CASE CopyTemp
  <2>1. GlobalsOK'
    BY <1>4, GoTyped, TypeSplit DEF CopyTemp, Steps
  <2>2. Cuts(LinesOf(temp)) \subseteq ConfigFiles
    BY LinesTyped, CutsTyped DEF TypeOK
  <2>3. \E left \in ConfigFiles \union {Missing} : config' = [config EXCEPT ![ram.tai] = left]
    BY <1>4, <2>2 DEF CopyTemp, TypeOK
  <2>4. config' \in [Places -> ConfigFiles \union {Missing}]
    BY <2>3 DEF TypeOK
  <2> QED BY <1>4, <2>1, <2>4, TypeSplit DEF CopyTemp, CardOK
<1>5. CASE DropTemp
  <2>1. GlobalsOK'
    BY <1>5, AfterRewriteTyped, GoTyped, TypeSplit DEF DropTemp
  <2> QED BY <1>5, <2>1, TypeSplit DEF DropTemp, CardOK
<1> QED BY <1>1, <1>2, <1>3, <1>4, <1>5 DEF Rewrite

(* The steps of the three operations.                                      *)
LEMMA OperateTyped ==
    ASSUME TypeOK, Operate
    PROVE  TypeOK'
<1> USE Fields
<1>c. CardOK
  BY TypeSplit
<1>g. GlobalsOK
  BY TypeSplit
<1>1. CASE MakeFolder
  <2> DEFINE path == IF ram.op = "install" THEN ram.folder ELSE Folder(ram.arg)
             next == IF ram.op = "install" THEN "suprx" ELSE "unhook"
  <2>1. path \in Folders /\ next \in Steps
    BY FolderTyped DEF Steps
  <2>2. Go(next, ram) \/ GoWrong(next, ram)
    BY <1>1 DEF MakeFolder
  <2>3. dir' = [dir EXCEPT ![path] = TRUE] \/ dir' = dir
    BY <1>1, Zenon DEF MakeFolder
  <2>4. dir' \in [Folders -> BOOLEAN]
    BY <2>1, <2>3, <1>c DEF CardOK
  <2>5. GlobalsOK'
    BY <2>1, <2>2, <1>g, GoTyped
  <2> QED BY <1>1, <1>c, <2>4, <2>5, TypeSplit DEF MakeFolder, CardOK
<1>2. CASE CopySuprx
  BY <1>2, PutFileTyped DEF CopySuprx, Steps, Files
<1>3. CASE CopySkprx
  BY <1>3, PutFileTyped DEF CopySkprx, Steps, Files
<1>4. CASE CopyUsb
  <2> DEFINE next == IF ram.op = "install" THEN "pboot" ELSE "version"
  <2>1. next \in Steps /\ "usbdevice" \in Files
    BY DEF Steps, Files
  <2>2. \/ PutFile(ram.folder, "usbdevice", ram.arg, next, ram)
        \/ RemoveFile(ram.folder, "usbdevice", next, ram)
        \/ Go(next, ram) /\ UNCHANGED card
    BY <1>4 DEF CopyUsb
  <2> HIDE DEF next
  <2> QED BY <2>1, <2>2, <1>c, <1>g, PutFileTyped, RemoveFileTyped, GoTyped, CardStays, TypeSplit
<1>5. CASE CopyPboot
  <2> DEFINE next == IF ram.op = "install" THEN "hook"
                     ELSE IF ram.mode = 0 THEN "unhook" ELSE "dircheck"
  <2>1. next \in Steps
    BY DEF Steps
  <2>2. Go(next, ram) \/ GoWrong(next, ram)
    BY <1>5 DEF CopyPboot
  <2>3. \/ pboot' = pboot
        \/ \E left \in {pboot[ram.id], "torn", "ours"} :
              ram.id \in games /\ pboot' = [pboot EXCEPT ![ram.id] = left]
    BY <1>5 DEF CopyPboot
  <2>4. pboot' \in [Games -> {"none", "torn", "ours"}]
    BY <2>3, <1>c DEF CardOK
  <2>5. GlobalsOK'
    BY <2>1, <2>2, <1>g, GoTyped
  <2> QED BY <1>5, <1>c, <2>4, <2>5, TypeSplit DEF CopyPboot, CardOK
<1>6. CASE RemovePboot
  <2> DEFINE next == IF ram.op = "uninstall" THEN "unhook" ELSE "pboot"
  <2>1. next \in Steps
    BY DEF Steps
  <2>2. Go(next, ram) \/ GoWrong(next, ram)
    BY <1>6 DEF RemovePboot
  <2>3. pboot' = pboot \/ pboot' = [pboot EXCEPT ![ram.gameId] = "none"]
    BY <1>6 DEF RemovePboot
  <2>4. pboot' \in [Games -> {"none", "torn", "ours"}]
    BY <2>3, <1>c DEF CardOK
  <2>5. GlobalsOK'
    BY <2>1, <2>2, <1>g, GoTyped
  <2> QED BY <1>6, <1>c, <2>4, <2>5, TypeSplit DEF RemovePboot, CardOK
<1>7. CASE WriteVersion
  BY <1>7, PutFileTyped DEF WriteVersion, Steps, Files
<1>8. CASE GetUpdate
  <2> DEFINE next == IF ram.op = "change" /\ (ram.mode = 1 \/ Changed) THEN "hook" ELSE "done"
  <2>1. next \in Steps /\ "update" \in Files
    BY DEF Steps, Files
  <2>2. \/ \E got \in {Update, Torn, Absent} : PutFile(ram.folder, "update", got, next, ram)
        \/ Go(next, ram) /\ UNCHANGED card
    BY <1>8 DEF GetUpdate
  <2> HIDE DEF next
  <2> QED BY <2>1, <2>2, <1>c, <1>g, PutFileTyped, GoTyped, CardStays, TypeSplit
<1>9. CASE SaveUpdate
  <2>1. "rmfolder" \in Steps /\ "update" \in Files /\ Folder(ram.arg) \in Folders
    BY FolderTyped DEF Steps, Files
  <2>2. disk[ram.folder]["update"] \in Contents
    BY <2>1 DEF TypeOK
  <2>3. \/ PutFile(Folder(ram.arg), "update", disk[ram.folder]["update"], "rmfolder", ram)
        \/ Go("rmfolder", ram) /\ UNCHANGED card
    BY <1>9 DEF SaveUpdate
  <2> QED BY <2>1, <2>2, <2>3, <1>c, <1>g, PutFileTyped, GoTyped, CardStays, TypeSplit
<1>10. CASE RemoveFolder
  <2> DEFINE r == IF ram.op = "change" THEN [ram EXCEPT !.folder = Folder(ram.arg)] ELSE ram
             next == IF ram.op = "change" /\ ~ Changed THEN "dircheck" ELSE "rmpboot"
  <2>1. next \in Steps
    BY DEF Steps
  <2>2. r \in Rams
    BY FolderTyped DEF Rams
  <2>3. Go(next, r) \/ GoWrong(next, r)
    BY <1>10 DEF RemoveFolder
  <2>4. dir' \in [Folders -> BOOLEAN]
    <3>1. dir' = [dir EXCEPT ![ram.folder] = FALSE] \/ dir' = dir
      BY <1>10, Zenon DEF RemoveFolder
    <3> QED BY <3>1, <1>c DEF CardOK
  <2>5. disk' \in [Folders -> [Files -> Contents]]
    <3>1. CASE disk' = [disk EXCEPT ![ram.folder] = [file \in Files |-> Absent]]
      BY <3>1, <1>c DEF CardOK
    <3>2. ASSUME NEW gone \in SUBSET {file \in Files : Exists(ram.folder, file)},
                 disk' = [disk EXCEPT ![ram.folder] =
                            [file \in Files |-> IF file \in gone THEN Absent ELSE @[file]]]
          PROVE  disk' \in [Folders -> [Files -> Contents]]
      <4> DEFINE left == [file \in Files |-> IF file \in gone THEN Absent ELSE disk[ram.folder][file]]
      <4>1. left \in [Files -> Contents]
        BY <1>c DEF CardOK
      <4>2. disk' = [disk EXCEPT ![ram.folder] = left]
        BY <3>2
      <4> HIDE DEF left
      <4> QED BY <4>1, <4>2, <1>c DEF CardOK
    <3> QED BY <1>10, <3>1, <3>2 DEF RemoveFolder
  <2>6. GlobalsOK'
    BY <2>1, <2>2, <2>3, <1>g, GoTyped
  <2> QED BY <1>10, <1>c, <2>4, <2>5, <2>6, TypeSplit DEF RemoveFolder, CardOK
<1>11. CASE CheckFolder
  <2>1. \E next \in Steps : Go(next, ram)
    BY <1>11 DEF CheckFolder, Steps
  <2>2. UNCHANGED card
    BY <1>11 DEF CheckFolder
  <2> QED BY <2>1, <2>2, <1>c, <1>g, GoTyped, CardStays, TypeSplit
<1>12. CASE RemoveBin
  BY <1>12, RemoveFileTyped DEF RemoveBin, Steps, Files
<1> QED BY <1>1, <1>2, <1>3, <1>4, <1>5, <1>6, <1>7, <1>8, <1>9, <1>10, <1>11, <1>12 DEF Operate

(* The user at the menus, and what happens beside the installer.           *)
LEMMA ChooseTyped ==
    ASSUME TypeOK, Choose
    PROVE  TypeOK'
<1> USE Fields
<1>c. CardOK
  BY TypeSplit
<1>g. GlobalsOK
  BY TypeSplit
<1>1. ASSUME NEW release \in Releases, NEW game \in Games, Install(release, game)
      PROVE  TypeOK'
  <2> DEFINE r == [ram EXCEPT !.op = "install", !.arg = release, !.id = game,
                      !.folder = IF release \in OldReleases THEN OldFolder ELSE @]
  <2>1. r \in Rams
    BY InstallerAssumption DEF Rams, Folders
  <2>2. Go("mkdir", r) /\ UNCHANGED card
    BY <1>1 DEF Install
  <2>3. "mkdir" \in Steps
    BY DEF Steps
  <2> QED BY <2>1, <2>2, <2>3, <1>c, <1>g, GoTyped, CardStays, TypeSplit
<1>2. ASSUME NEW release \in Releases, NEW game \in Games, Change(release, game)
      PROVE  TypeOK'
  <2> DEFINE mode == IF Folder(release) = ram.folder THEN 0 ELSE 1
             r == [ram EXCEPT !.op = "change", !.arg = release, !.id = game, !.mode = mode]
             next == IF mode = 1 THEN "mkdir" ELSE IF ram.gameId # game THEN "rmpboot" ELSE "dircheck"
  <2>1. r \in Rams
    BY InstallerAssumption DEF Rams
  <2>2. Go(next, r) /\ UNCHANGED card
    BY <1>2 DEF Change
  <2>3. next \in Steps
    BY DEF Steps
  <2> QED BY <2>1, <2>2, <2>3, <1>c, <1>g, GoTyped, CardStays, TypeSplit
<1>3. CASE Uninstall
  <2> DEFINE r == [ram EXCEPT !.op = "uninstall", !.id = ram.gameId]
  <2>1. r \in Rams /\ "rmfolder" \in Steps
    BY DEF Rams, Steps
  <2>2. Go("rmfolder", r) /\ UNCHANGED card
    BY <1>3 DEF Uninstall
  <2> QED BY <2>1, <2>2, <1>c, <1>g, GoTyped, CardStays, TypeSplit
<1>4. CASE DeletePbp
  BY <1>4, RemoveFileTyped DEF DeletePbp, Steps, Files
<1>5. CASE DeleteFlash
  BY <1>5, RemoveFileTyped DEF DeleteFlash, Steps, Files
<1> QED BY <1>1, <1>2, <1>3, <1>4, <1>5 DEF Choose

LEMMA WorldTyped ==
    ASSUME TypeOK, World
    PROVE  TypeOK'
<1>1. ASSUME NEW game \in Games, DeleteGame(game) PROVE TypeOK'
  BY <1>1 DEF DeleteGame, TypeOK, history
<1>2. ASSUME NEW path \in Folders, RunAdrenaline(path) PROVE TypeOK'
  <2>1. disk[path]["suprx"] \in Contents
    BY DEF TypeOK, Files
  <2>2. disk' \in [Folders -> [Files -> Contents]]
    BY <1>2, <2>1 DEF RunAdrenaline, TypeOK
  <2> QED BY <1>2, <2>2 DEF RunAdrenaline, TypeOK, history
<1> QED BY <1>1, <1>2 DEF World

(* The variables keep their types; above all, whatever a rewrite of the    *)
(* config is cut short in, the config and temp.txt hold lines of a config. *)
THEOREM TypeCorrect == Spec => []TypeOK
<1>1. TypeOK /\ [Next]_vars => TypeOK'
  <2> SUFFICES ASSUME TypeOK, [Next]_vars PROVE TypeOK'
    OBVIOUS
  <2>1. CASE Quit
    <3>1. Go("off", Fresh) /\ UNCHANGED card /\ "off" \in Steps
      BY <2>1 DEF Quit, Steps
    <3> QED BY <3>1, FreshTyped, GoTyped, CardStays, TypeSplit
  <2>2. CASE PowerLoss
    <3>1. faults' \in 0..MaxFaults
      BY <2>2, InstallerAssumption DEF PowerLoss, TypeOK
    <3>2. GlobalsOK'
      BY <2>2, <3>1, FreshTyped DEF PowerLoss, GlobalsOK, TypeOK, Steps
    <3> QED BY <2>2, <3>2, CardStays, TypeSplit DEF PowerLoss
  <2>3. CASE Refuse \/ UNCHANGED vars
    BY <2>3 DEF Refuse, vars, card, history, TypeOK
  <2> QED BY <2>1, <2>2, <2>3, CheckTyped, RewriteTyped, OperateTyped, ChooseTyped, WorldTyped DEF Next
<1> QED BY <1>1, InitTyped, PTL DEF Spec

-----------------------------------------------------------------------------
(* The inductive invariant behind the safety theorems.                     *)

(* Which operation a step may belong to, and when PSP_GAME_ID is set: only *)
(* a run that found a game to remove ever comes to a delete.               *)
StepFitsOp(at, r) ==
    /\ at \in {"mkdir", "pboot"} => r.op \in {"install", "change"}
    /\ at \in {"rmfolder", "rmpboot"} => r.op \in {"change", "uninstall"}
    /\ at = "save661" => r.op = "change"
    /\ at \in {"hook", "unhook", "unlink", "copy", "drop"} => r.op # "none"
GameNamed(at, r) ==
    r.op \in {"change", "uninstall"} \/ r.installed \/ at = "unhook" => r.gameId # NoId
OpInv(at, r) == StepFitsOp(at, r) /\ GameNamed(at, r)

IInv == OpInv(step, ram)

(* A step leads to `next' with globals r, or the power goes.               *)
Moves(next, r) ==
    /\ (step' = next /\ ram' = r) \/ (step' = "off" /\ ram' = Fresh)
    /\ UNCHANGED before /\ (clean' => clean)
Aside(next, r) == Moves(next, r) /\ OpInv(next, r)

LEMMA GoMoves ==
    ASSUME NEW next, NEW r, Go(next, r) \/ GoWrong(next, r)
    PROVE  Moves(next, r)
<1>1. /\ (step' = next /\ ram' = r) \/ (step' = "off" /\ ram' = Fresh)
      /\ UNCHANGED before
  <2>1. CASE Go(next, r)
    BY <2>1 DEF Go, history
  <2>2. CASE GoWrong(next, r)
    BY <2>2, Zenon DEF GoWrong
  <2> QED BY <2>1, <2>2
<1>2. UNCHANGED clean \/ clean' = FALSE
  BY Zenon DEF Go, GoWrong, history
<1>3. clean' => clean
  BY <1>2, Zenon
<1> QED BY <1>1, <1>3, Zenon DEF Moves

LEMMA FreshInv == OpInv("off", Fresh)
BY DEF OpInv, StepFitsOp, GameNamed, Fresh

LEMMA AsideKeeps ==
    ASSUME NEW next, NEW r, Aside(next, r)
    PROVE  IInv'
<1>1. CASE step' = next /\ ram' = r
  BY <1>1 DEF Aside, IInv, OpInv, StepFitsOp, GameNamed
<1>2. CASE step' = "off" /\ ram' = Fresh
  BY <1>2, FreshInv DEF IInv, OpInv, StepFitsOp, GameNamed
<1> QED BY <1>1, <1>2 DEF Aside, Moves

LEMMA PutFileMoves ==
    ASSUME NEW path, NEW file, NEW content, NEW next, NEW r,
           PutFile(path, file, content, next, r) \/ RemoveFile(path, file, next, r)
    PROVE  Moves(next, r) /\ UNCHANGED <<config, temp>>
<1>1. Go(next, r) \/ GoWrong(next, r)
  BY Zenon DEF PutFile, RemoveFile
<1>2. UNCHANGED <<config, temp>>
  BY DEF PutFile, RemoveFile
<1> QED BY <1>1, <1>2, GoMoves

(* Missing is no config file, so that a file there is has its own lines.   *)
LEMMA LinesOfFile ==
    ASSUME NEW file \in ConfigFiles
    PROVE  LinesOf(file) = file
<1>1. [at |-> 0, kind |-> "missing", of |-> NoId] \notin Lines
  BY DEF Lines, Kinds
<1>2. file # Missing
  BY <1>1 DEF Missing, ConfigFiles
<1> QED BY <1>2 DEF LinesOf

LEMMA InitKeeps == Init => IInv
BY FreshInv DEF Init, IInv

LEMMA CheckUpdateMoves ==
    ASSUME CheckUpdate
    PROVE  /\ Moves("menu", [ram EXCEPT !.op = "none", !.gameId = IF ram.installed THEN @ ELSE NoId])
           /\ step = "size" /\ UNCHANGED <<config, temp>>
<1> DEFINE r == [ram EXCEPT !.op = "none", !.gameId = IF ram.installed THEN @ ELSE NoId]
<1>1. CASE RemoveFile(ram.folder, "update", "menu", r)
  BY <1>1, PutFileMoves DEF CheckUpdate
<1>2. CASE Go("menu", r) /\ UNCHANGED card
  BY <1>2, GoMoves DEF CheckUpdate, card
<1>3. CASE GoWrong("menu", r) /\ UNCHANGED <<dir, games, pboot, config, temp>>
  BY <1>3, GoMoves DEF CheckUpdate
<1> QED BY <1>1, <1>2, <1>3 DEF CheckUpdate

LEMMA CheckKeeps ==
    ASSUME TypeOK, IInv, Check
    PROVE  IInv'
<1>1. CASE Launch
  <2> DEFINE unhook == FoundId # NoId /\ ~ Works
  <2>1. StartCheck(FoundVersion, Works, unhook)
    BY <1>1 DEF Launch
  <2>2. /\ ram'.op = "check" /\ ram'.installed = Works /\ ram'.gameId = FoundId
        /\ step' = IF unhook THEN "unhook" ELSE "size"
    BY <2>1 DEF StartCheck, Fresh
  <2>3. Works => FoundId # NoId
    BY InstallerAssumption DEF Works, Living, TypeOK
  <2> QED BY <2>2, <2>3 DEF IInv, OpInv, StepFitsOp, GameNamed
<1>2. CASE RemoveSkprx
  <2>1. Moves("rmsuprx", ram) /\ UNCHANGED <<config, temp>> /\ step = "rmskprx"
    BY <1>2, PutFileMoves DEF RemoveSkprx
  <2>2. Aside("rmsuprx", ram)
    BY <2>1 DEF Aside, IInv, OpInv, StepFitsOp, GameNamed
  <2> QED BY <2>2, AsideKeeps
<1>3. CASE RemoveSuprx
  <2>1. Moves("size", ram) /\ UNCHANGED <<config, temp>> /\ step = "rmsuprx"
    BY <1>3, PutFileMoves DEF RemoveSuprx
  <2>2. Aside("size", ram)
    BY <2>1 DEF Aside, IInv, OpInv, StepFitsOp, GameNamed
  <2> QED BY <2>2, AsideKeeps
<1>4. CASE CheckUpdate
  <2> DEFINE r == [ram EXCEPT !.op = "none", !.gameId = IF ram.installed THEN @ ELSE NoId]
  <2>1. Moves("menu", r)
    BY <1>4, CheckUpdateMoves
  <2>2. /\ r.op = "none" /\ r.installed = ram.installed
        /\ ram.installed => r.gameId = ram.gameId
    BY DEF TypeOK, Rams
  <2>3. OpInv("menu", r)
    BY <2>2 DEF IInv, OpInv, StepFitsOp, GameNamed
  <2>4. Aside("menu", r)
    BY <2>1, <2>3 DEF Aside
  <2> QED BY <2>4, AsideKeeps
<1> QED BY <1>1, <1>2, <1>3, <1>4 DEF Check

LEMMA EditKeeps ==
    ASSUME TypeOK, IInv, step \in {"hook", "unhook"},
           NEW text, NEW edit \in {"write", "delete"}, EditTo(text, edit)
    PROVE  IInv'
<1> DEFINE r == [ram EXCEPT !.edit = edit]
<1>1. /\ r.op = ram.op /\ r.installed = ram.installed /\ r.gameId = ram.gameId
      /\ ram.op \in {"none", "check", "install", "change", "uninstall"}
  BY DEF TypeOK, Rams
<1>2. OpInv("unlink", r) /\ OpInv(AfterRewrite(edit), r)
  <2>1. ram.op # "none" /\ GameNamed(step, ram)
    BY DEF IInv, OpInv, StepFitsOp
  <2>2. AfterRewrite(edit) = "save661" => ram.op = "change"
    BY <1>1, <2>1 DEF AfterRewrite
  <2> QED BY <1>1, <2>1, <2>2, AfterRewriteTyped DEF OpInv, StepFitsOp, GameNamed
<1>3. Moves("unlink", r) \/ Moves(AfterRewrite(edit), r)
  BY GoMoves DEF EditTo
<1> QED BY <1>2, <1>3, AsideKeeps DEF Aside

LEMMA RewriteKeeps ==
    ASSUME TypeOK, IInv, Rewrite
    PROVE  IInv'
<1>1. CASE Hook
  BY <1>1, EditKeeps DEF Hook
<1>2. CASE Unhook
  BY <1>2, EditKeeps DEF Unhook
<1>3. CASE RemoveConfig
  <2>1. Moves("copy", ram) /\ step = "unlink"
    BY <1>3, GoMoves DEF RemoveConfig
  <2> QED BY <2>1, AsideKeeps DEF Aside, IInv, OpInv, StepFitsOp, GameNamed
<1>4. CASE CopyTemp
  <2>1. Moves("drop", ram) /\ step = "copy"
    BY <1>4, GoMoves DEF CopyTemp
  <2> QED BY <2>1, AsideKeeps DEF Aside, IInv, OpInv, StepFitsOp, GameNamed
<1>5. CASE DropTemp
  <2> DEFINE next == AfterRewrite(ram.edit)
  <2>1. Moves(next, ram) /\ step = "drop"
    BY <1>5, GoMoves DEF DropTemp
  <2>2. OpInv(next, ram)
    <3>1. ram.op # "none" /\ GameNamed("drop", ram)
      BY <2>1 DEF IInv, OpInv, StepFitsOp
    <3>2. ram.op \in {"none", "check", "install", "change", "uninstall"}
      BY DEF TypeOK, Rams
    <3>3. next = "save661" => ram.op = "change"
      BY <3>1, <3>2 DEF AfterRewrite
    <3> QED BY <3>1, <3>3, AfterRewriteTyped DEF OpInv, StepFitsOp, GameNamed
  <2> QED BY <2>1, <2>2, AsideKeeps DEF Aside
<1> QED BY <1>1, <1>2, <1>3, <1>4, <1>5 DEF Rewrite

(* A step of an operation that leaves the globals as they are, or that     *)
(* only moves to another folder.                                           *)
LEMMA OperateStepKeeps ==
    ASSUME IInv, NEW next, NEW r, Moves(next, r),
           r.op = ram.op, r.installed = ram.installed, r.gameId = ram.gameId,
           StepFitsOp(next, ram), next = "unhook" => ram.op \in {"change", "uninstall"}
    PROVE  IInv'
<1>1. OpInv(next, r)
  BY DEF IInv, OpInv, StepFitsOp, GameNamed
<1>2. Aside(next, r)
  BY <1>1 DEF Aside
<1> QED BY <1>2, AsideKeeps

LEMMA OperateKeeps ==
    ASSUME TypeOK, IInv, Operate
    PROVE  IInv'
<1>o. ram.op \in {"none", "check", "install", "change", "uninstall"} /\ StepFitsOp(step, ram)
  BY DEF TypeOK, Rams, IInv, OpInv
<1>1. CASE MakeFolder
  <2> DEFINE next == IF ram.op = "install" THEN "suprx" ELSE "unhook"
  <2>1. Moves(next, ram) /\ UNCHANGED <<config, temp>> /\ step = "mkdir"
    BY <1>1, GoMoves DEF MakeFolder
  <2> QED BY <1>o, <2>1, OperateStepKeeps DEF StepFitsOp
<1>2. CASE CopySuprx
  <2>1. Moves("skprx", ram) /\ UNCHANGED <<config, temp>> /\ step = "suprx"
    BY <1>2, PutFileMoves DEF CopySuprx
  <2> QED BY <2>1, OperateStepKeeps DEF StepFitsOp
<1>3. CASE CopySkprx
  <2>1. Moves("usbdevice", ram) /\ UNCHANGED <<config, temp>> /\ step = "skprx"
    BY <1>3, PutFileMoves DEF CopySkprx
  <2> QED BY <2>1, OperateStepKeeps DEF StepFitsOp
<1>4. CASE CopyUsb
  <2> DEFINE next == IF ram.op = "install" THEN "pboot" ELSE "version"
  <2>1. Moves(next, ram) /\ UNCHANGED <<config, temp>> /\ step = "usbdevice"
    <3>1. CASE PutFile(ram.folder, "usbdevice", ram.arg, next, ram)
      BY <1>4, <3>1, PutFileMoves DEF CopyUsb
    <3>2. CASE RemoveFile(ram.folder, "usbdevice", next, ram)
      BY <1>4, <3>2, PutFileMoves DEF CopyUsb
    <3>3. CASE Go(next, ram) /\ UNCHANGED card
      BY <1>4, <3>3, GoMoves DEF CopyUsb, card
    <3> QED BY <1>4, <3>1, <3>2, <3>3 DEF CopyUsb
  <2> QED BY <1>o, <2>1, OperateStepKeeps DEF StepFitsOp
<1>5. CASE CopyPboot
  <2> DEFINE next == IF ram.op = "install" THEN "hook"
                     ELSE IF ram.mode = 0 THEN "unhook" ELSE "dircheck"
  <2>1. Moves(next, ram) /\ UNCHANGED <<config, temp>> /\ step = "pboot"
    BY <1>5, GoMoves DEF CopyPboot
  <2> QED BY <1>o, <2>1, OperateStepKeeps DEF StepFitsOp
<1>6. CASE RemovePboot
  <2> DEFINE next == IF ram.op = "uninstall" THEN "unhook" ELSE "pboot"
  <2>1. Moves(next, ram) /\ UNCHANGED <<config, temp>> /\ step = "rmpboot"
    BY <1>6, GoMoves DEF RemovePboot
  <2> QED BY <1>o, <2>1, OperateStepKeeps DEF StepFitsOp
<1>7. CASE WriteVersion
  <2>1. Moves("update", ram) /\ UNCHANGED <<config, temp>> /\ step = "version"
    BY <1>7, PutFileMoves DEF WriteVersion
  <2> QED BY <2>1, OperateStepKeeps DEF StepFitsOp
<1>8. CASE GetUpdate
  <2> DEFINE next == IF ram.op = "change" /\ (ram.mode = 1 \/ Changed) THEN "hook" ELSE "done"
  <2>1. Moves(next, ram) /\ UNCHANGED <<config, temp>> /\ step = "update"
    <3>1. CASE \E got \in {Update, Torn, Absent} : PutFile(ram.folder, "update", got, next, ram)
      BY <1>8, <3>1, PutFileMoves DEF GetUpdate
    <3>2. CASE Go(next, ram) /\ UNCHANGED card
      BY <1>8, <3>2, GoMoves DEF GetUpdate, card
    <3> QED BY <1>8, <3>1, <3>2 DEF GetUpdate
  <2>2. next = "hook" => ram.op = "change"
    OBVIOUS
  <2> QED BY <2>1, <2>2, OperateStepKeeps DEF StepFitsOp
<1>9. CASE SaveUpdate
  <2>1. Moves("rmfolder", ram) /\ UNCHANGED <<config, temp>> /\ step = "save661"
    <3>1. CASE PutFile(Folder(ram.arg), "update", disk[ram.folder]["update"], "rmfolder", ram)
      BY <1>9, <3>1, PutFileMoves DEF SaveUpdate
    <3>2. CASE Go("rmfolder", ram) /\ UNCHANGED card
      BY <1>9, <3>2, GoMoves DEF SaveUpdate, card
    <3> QED BY <1>9, <3>1, <3>2 DEF SaveUpdate
  <2> QED BY <1>o, <2>1, OperateStepKeeps DEF StepFitsOp
<1>10. CASE RemoveFolder
  <2> DEFINE r == IF ram.op = "change" THEN [ram EXCEPT !.folder = Folder(ram.arg)] ELSE ram
             next == IF ram.op = "change" /\ ~ Changed THEN "dircheck" ELSE "rmpboot"
  <2>1. Moves(next, r) /\ UNCHANGED <<config, temp>> /\ step = "rmfolder"
    BY <1>10, GoMoves DEF RemoveFolder
  <2>2. r.op = ram.op /\ r.tai = ram.tai /\ r.installed = ram.installed /\ r.gameId = ram.gameId
    BY DEF TypeOK, Rams
  <2>3. next \in {"dircheck", "rmpboot"}
    OBVIOUS
  <2> HIDE DEF r, next
  <2> QED BY <1>o, <2>1, <2>2, <2>3, OperateStepKeeps DEF StepFitsOp
<1>11. CASE CheckFolder
  <2> DEFINE next == IF dir[ram.folder] THEN "bin" ELSE "nofolder"
  <2>1. Moves(next, ram) /\ UNCHANGED <<config, temp>> /\ step = "dircheck"
    BY <1>11, GoMoves DEF CheckFolder, card
  <2>2. next \in {"bin", "nofolder"}
    OBVIOUS
  <2> HIDE DEF next
  <2> QED BY <2>1, <2>2, OperateStepKeeps DEF StepFitsOp
<1>12. CASE RemoveBin
  <2>1. Moves("suprx", ram) /\ UNCHANGED <<config, temp>> /\ step = "bin"
    BY <1>12, PutFileMoves DEF RemoveBin
  <2> QED BY <2>1, OperateStepKeeps DEF StepFitsOp
<1> QED BY <1>1, <1>2, <1>3, <1>4, <1>5, <1>6, <1>7, <1>8, <1>9, <1>10, <1>11, <1>12 DEF Operate

LEMMA ChooseKeeps ==
    ASSUME TypeOK, IInv, Choose
    PROVE  IInv'
<1>n. step = "menu" => (ram.installed => ram.gameId # NoId)
  BY DEF IInv, OpInv, GameNamed
<1>1. ASSUME NEW release \in Releases, NEW game \in Games, Install(release, game)
      PROVE  IInv'
  <2> DEFINE r == [ram EXCEPT !.op = "install", !.arg = release, !.id = game,
                      !.folder = IF release \in OldReleases THEN OldFolder ELSE @]
  <2>1. Moves("mkdir", r) /\ UNCHANGED <<config, temp>> /\ step = "menu" /\ ~ ram.installed
    BY <1>1, GoMoves DEF Install, card
  <2>2. r.op = "install" /\ r.tai = ram.tai /\ r.installed = ram.installed
    BY DEF TypeOK, Rams
  <2>3. OpInv("mkdir", r)
    BY <2>1, <2>2 DEF OpInv, StepFitsOp, GameNamed
  <2>4. Aside("mkdir", r)
    BY <2>1, <2>2, <2>3 DEF Aside
  <2> QED BY <2>4, AsideKeeps
<1>2. ASSUME NEW release \in Releases, NEW game \in Games, Change(release, game)
      PROVE  IInv'
  <2> DEFINE mode == IF Folder(release) = ram.folder THEN 0 ELSE 1
             r == [ram EXCEPT !.op = "change", !.arg = release, !.id = game, !.mode = mode]
             next == IF mode = 1 THEN "mkdir" ELSE IF ram.gameId # game THEN "rmpboot" ELSE "dircheck"
  <2>1. Moves(next, r) /\ UNCHANGED <<config, temp>> /\ step = "menu" /\ ram.installed
    BY <1>2, GoMoves DEF Change, card
  <2>2. /\ r.op = "change" /\ r.tai = ram.tai /\ r.installed = ram.installed
        /\ r.gameId = ram.gameId /\ next \in {"mkdir", "rmpboot", "dircheck"}
    BY DEF TypeOK, Rams
  <2> HIDE DEF r, next
  <2>3. OpInv(next, r)
    BY <1>n, <2>1, <2>2 DEF OpInv, StepFitsOp, GameNamed
  <2>4. Aside(next, r)
    BY <2>1, <2>2, <2>3 DEF Aside
  <2> QED BY <2>4, AsideKeeps
<1>3. CASE Uninstall
  <2> DEFINE r == [ram EXCEPT !.op = "uninstall", !.id = ram.gameId]
  <2>1. Moves("rmfolder", r) /\ UNCHANGED <<config, temp>> /\ step = "menu" /\ ram.installed
    BY <1>3, GoMoves DEF Uninstall, card
  <2>2. /\ r.op = "uninstall" /\ r.tai = ram.tai /\ r.installed = ram.installed
        /\ r.gameId = ram.gameId
    BY DEF TypeOK, Rams
  <2>3. OpInv("rmfolder", r)
    BY <1>n, <2>1, <2>2 DEF OpInv, StepFitsOp, GameNamed
  <2>4. Aside("rmfolder", r)
    BY <2>1, <2>2, <2>3 DEF Aside
  <2> QED BY <2>4, AsideKeeps
<1>4. CASE DeletePbp \/ DeleteFlash
  <2>1. Moves("menu", ram) /\ UNCHANGED <<config, temp>> /\ step = "menu"
    BY <1>4, PutFileMoves DEF DeletePbp, DeleteFlash
  <2> QED BY <2>1, OperateStepKeeps DEF StepFitsOp
<1> QED BY <1>1, <1>2, <1>3, <1>4 DEF Choose

LEMMA StepKeeps == TypeOK /\ IInv /\ [Next]_vars => IInv'
<1> SUFFICES ASSUME TypeOK, IInv, [Next]_vars PROVE IInv'
  OBVIOUS
<1>1. CASE Quit \/ PowerLoss
  BY <1>1, FreshInv DEF Quit, Go, PowerLoss, IInv
<1>2. CASE World \/ Refuse \/ UNCHANGED vars
  BY <1>2, Zenon DEF World, DeleteGame, RunAdrenaline, Refuse, vars, IInv
<1> QED BY <1>1, <1>2, CheckKeeps, RewriteKeeps, OperateKeeps, ChooseKeeps DEF Next

LEMMA Invariant == Spec => []IInv
<1>1. Spec => []TypeOK
  BY TypeCorrect
<1> QED BY <1>1, InitKeeps, StepKeeps, PTL DEF Spec

-----------------------------------------------------------------------------
(* No delete ever runs with an empty id, for any games and releases: the   *)
(* steps that lead to delete_adrenaline_from_config belong to runs that    *)
(* found an entry, a change or an uninstall to an installation with a game.*)
THEOREM DeleteIsNamed == Spec => []DeleteNamesGame
<1>1. IInv => DeleteNamesGame
  BY DEF IInv, OpInv, GameNamed, DeleteNamesGame
<1> QED BY <1>1, Invariant, PTL

-----------------------------------------------------------------------------
(* Why the start-up check leaves a working installation alone: it only     *)
(* begins a delete when the plugin or the game of the entry is missing,    *)
(* and neither comes back before the delete is done.                       *)
Dead == ~ Exists(FoundFolder, "skprx") \/ ram.gameId \notin Living
CheckInv == ram.op = "check" /\ step \in {"hook", "unhook", "unlink", "copy"} => Dead

LEMMA DeadStays ==
    ASSUME Dead, UNCHANGED <<disk, games, before>>, ram'.gameId = ram.gameId
    PROVE  Dead'
BY DEF Dead, FoundFolder, Exists, Living

LEMMA EditKeepsCheck ==
    ASSUME TypeOK, CheckInv, step \in {"hook", "unhook"}, NEW text, NEW edit, EditTo(text, edit)
    PROVE  CheckInv'
<1> DEFINE r == [ram EXCEPT !.edit = edit]
<1>1. (ram' = r \/ ram' = Fresh) /\ UNCHANGED <<disk, games, before>>
  <2>1. \E next : Moves(next, r)
    BY GoMoves DEF EditTo
  <2> QED BY <2>1 DEF Moves, EditTo
<1>2. r.op = ram.op /\ r.gameId = ram.gameId
  BY DEF TypeOK, Rams
<1>3. CASE ram' = r
  BY <1>1, <1>2, <1>3, DeadStays DEF CheckInv
<1>4. CASE ram' = Fresh
  BY <1>4 DEF Fresh, CheckInv
<1> QED BY <1>1, <1>3, <1>4

LEMMA CheckInvKept == TypeOK /\ IInv /\ CheckInv /\ [Next]_vars => CheckInv'
<1> SUFFICES ASSUME TypeOK, IInv, CheckInv, [Next]_vars PROVE CheckInv'
  OBVIOUS
<1>o. ram.op \in {"none", "check", "install", "change", "uninstall"} /\ StepFitsOp(step, ram)
  BY DEF TypeOK, Rams, IInv, OpInv
<1>e. ASSUME NEW next, NEW r, Moves(next, r),
             r.op # "check" \/ next \notin {"hook", "unhook", "unlink", "copy"}
      PROVE  CheckInv'
  BY <1>e DEF Moves, Fresh, CheckInv
<1>1. CASE Check
  <2>1. CASE Launch
    <3>1. /\ StartCheck(FoundVersion, Works, FoundId # NoId /\ ~ Works)
          /\ UNCHANGED <<disk, games, before>>
      BY <2>1 DEF Launch, StartCheck, card
    <3>2. ram'.gameId = FoundId /\ (step' = "unhook" => ~ Works) /\ step' \in {"unhook", "size"}
      BY <3>1 DEF StartCheck, Fresh
    <3> QED BY <3>1, <3>2 DEF Works, Dead, CheckInv, FoundFolder, Exists, Living
  <2>2. CASE RemoveSkprx
    BY <2>2, <1>e, PutFileMoves DEF RemoveSkprx
  <2>3. CASE RemoveSuprx
    BY <2>3, <1>e, PutFileMoves DEF RemoveSuprx
  <2>4. CASE CheckUpdate
    BY <2>4, <1>e, CheckUpdateMoves
  <2> QED BY <1>1, <2>1, <2>2, <2>3, <2>4 DEF Check
<1>2. CASE Rewrite
  <2>1. CASE Hook \/ Unhook
    BY <2>1, EditKeepsCheck DEF Hook, Unhook
  <2>2. CASE RemoveConfig
    <3>1. Moves("copy", ram) /\ step = "unlink" /\ UNCHANGED <<disk, games, before>>
      BY <2>2, GoMoves DEF RemoveConfig, Moves
    <3> QED BY <3>1, DeadStays DEF Moves, Fresh, CheckInv
  <2>3. CASE CopyTemp
    BY <2>3, <1>e, GoMoves DEF CopyTemp
  <2>4. CASE DropTemp
    BY <2>4, <1>e, GoMoves, AfterRewriteTyped DEF DropTemp
  <2> QED BY <1>2, <2>1, <2>2, <2>3, <2>4 DEF Rewrite
<1>3. CASE Operate
  <2>1. CASE MakeFolder
    BY <2>1, <1>o, <1>e, GoMoves DEF MakeFolder, StepFitsOp
  <2>2. CASE CopySuprx \/ CopySkprx \/ WriteVersion \/ RemoveBin
    BY <2>2, <1>e, PutFileMoves DEF CopySuprx, CopySkprx, WriteVersion, RemoveBin
  <2>3. CASE CopyUsb
    BY <2>3, <1>e, PutFileMoves, GoMoves DEF CopyUsb
  <2>4. CASE CopyPboot
    BY <2>4, <1>o, <1>e, GoMoves DEF CopyPboot, StepFitsOp
  <2>5. CASE RemovePboot
    BY <2>5, <1>o, <1>e, GoMoves DEF RemovePboot, StepFitsOp
  <2>6. CASE GetUpdate
    BY <2>6, <1>e, PutFileMoves, GoMoves DEF GetUpdate
  <2>7. CASE SaveUpdate
    BY <2>7, <1>e, PutFileMoves, GoMoves DEF SaveUpdate
  <2>8. CASE RemoveFolder
    BY <2>8, <1>e, GoMoves DEF RemoveFolder
  <2>9. CASE CheckFolder
    BY <2>9, <1>e, GoMoves DEF CheckFolder
  <2> QED BY <1>3, <2>1, <2>2, <2>3, <2>4, <2>5, <2>6, <2>7, <2>8, <2>9 DEF Operate
<1>4. CASE Choose
  <2>1. ASSUME NEW release \in Releases, NEW game \in Games, Install(release, game)
        PROVE  CheckInv'
    BY <2>1, <1>e, GoMoves DEF Install
  <2>2. ASSUME NEW release \in Releases, NEW game \in Games, Change(release, game)
        PROVE  CheckInv'
    <3>1. step' \in {"mkdir", "rmpboot", "dircheck"}
      BY <2>2 DEF Change, Go
    <3> QED BY <3>1 DEF CheckInv
  <2>3. CASE Uninstall
    BY <2>3, <1>e, GoMoves DEF Uninstall
  <2>4. CASE DeletePbp \/ DeleteFlash
    BY <2>4, <1>e, PutFileMoves DEF DeletePbp, DeleteFlash
  <2> QED BY <1>4, <2>1, <2>2, <2>3, <2>4 DEF Choose
<1>5. CASE Quit \/ PowerLoss
  BY <1>5 DEF Quit, PowerLoss, Go, CheckInv
<1>6. CASE World
  BY <1>6 DEF World, DeleteGame, RunAdrenaline, CheckInv
<1>7. CASE Refuse \/ UNCHANGED vars
  BY <1>7, DeadStays DEF Refuse, vars, card, history, CheckInv
<1> QED BY <1>1, <1>2, <1>3, <1>4, <1>5, <1>6, <1>7 DEF Next

(* Only a rewrite touches the config and temp.txt.                         *)
LEMMA OnlyRewritesEdit ==
    ASSUME [Next]_vars, ~ Rewrite
    PROVE  UNCHANGED <<config, temp, before>>
<1>1. CASE Check
  BY <1>1, PutFileMoves, CheckUpdateMoves
     DEF Check, Launch, StartCheck, RemoveSkprx, RemoveSuprx, Moves, card
<1>2. CASE Operate
  <2>1. UNCHANGED <<config, temp>>
    BY <1>2, PutFileMoves
       DEF Operate, MakeFolder, CopySuprx, CopySkprx, CopyUsb, CopyPboot, RemovePboot,
           WriteVersion, GetUpdate, SaveUpdate, RemoveFolder, CheckFolder, RemoveBin, card
  <2>2. \E next, r : Moves(next, r)
    BY <1>2, GoMoves, PutFileMoves
       DEF Operate, MakeFolder, CopySuprx, CopySkprx, CopyUsb, CopyPboot, RemovePboot,
           WriteVersion, GetUpdate, SaveUpdate, RemoveFolder, CheckFolder, RemoveBin
  <2> QED BY <2>1, <2>2 DEF Moves
<1>3. CASE Choose
  BY <1>3, PutFileMoves
     DEF Choose, Install, Change, Uninstall, DeletePbp, DeleteFlash, card, Go, history, Moves
<1>4. CASE Quit \/ PowerLoss \/ World \/ Refuse \/ UNCHANGED vars
  BY <1>4 DEF Quit, Go, PowerLoss, World, DeleteGame, RunAdrenaline, Refuse, vars, card, history
<1> QED BY <1>1, <1>2, <1>3, <1>4 DEF Next

LEMMA BeforeStays ==
    ASSUME [Next]_vars
    PROVE  before' = before
<1>1. CASE Rewrite
  BY <1>1 DEF Rewrite, Hook, Unhook, EditTo, RemoveConfig, CopyTemp, DropTemp, Go, GoWrong, history
<1> QED BY <1>1, OnlyRewritesEdit

(* Once a run has read a config whose entry names a game that is there,    *)
(* beside the plugin, its start-up check writes no config, for any games   *)
(* and any releases and however earlier runs were interrupted.             *)
THEOREM CheckSparesWorking == Spec => CheckSparesTheLiving
<1>1. Init => CheckInv
  BY DEF Init, CheckInv
<1>2. ASSUME TypeOK, IInv, CheckInv, [Next]_vars
      PROVE  [ram.op = "check" /\ Exists(FoundFolder, "skprx") /\ ram.gameId \in Living
                 => UNCHANGED config]_vars
  <2> SUFFICES ASSUME ram.op = "check", ~ Dead
               PROVE  UNCHANGED config
    BY DEF Dead
  <2>1. step \notin {"unlink", "copy"}
    BY <1>2 DEF CheckInv
  <2>2. CASE Rewrite
    BY <2>1, <2>2 DEF Rewrite, Hook, Unhook, EditTo, RemoveConfig, CopyTemp, DropTemp
  <2> QED BY <1>2, <2>2, OnlyRewritesEdit
<1> QED BY <1>1, <1>2, CheckInvKept, TypeCorrect, Invariant, PTL DEF Spec, CheckSparesTheLiving

-----------------------------------------------------------------------------
(* The invariant behind what the menu shows and what "Done!" promises.     *)

(* The way each operation takes through its steps, as long as no call of   *)
(* this run failed: which steps it has, what its rewrite of the config is  *)
(* for, and on which side of the move to another folder it stands.         *)
Rewriting == step \in {"unlink", "copy", "drop"}
Writing == Rewriting /\ ram.edit = "write"
Deleting == Rewriting /\ ram.edit = "delete"
Leaving == step \in {"mkdir", "unhook", "save661", "rmfolder"} \/ Deleting
Copying == step \in {"suprx", "skprx", "usbdevice", "version", "update"}

Route ==
    /\ ram.op = "none" <=> step = "menu"
    /\ ram.op = "check" =>
          \/ step \in {"unhook", "rmskprx", "rmsuprx"} /\ ~ ram.installed
          \/ Deleting /\ ~ ram.installed
          \/ step = "size"
    /\ ram.op = "install" => step \in {"mkdir", "pboot", "hook", "done"} \/ Copying \/ Writing
    /\ ram.op = "uninstall" => step \in {"rmfolder", "rmpboot", "unhook", "done"} \/ Deleting
    /\ ram.op = "change" /\ ram.mode = 1 =>
          /\ step \notin {"menu", "size", "rmskprx", "rmsuprx"} /\ (Rewriting => Writing \/ Deleting)
          /\ ram.folder # Folder(ram.arg) <=> Leaving
    /\ ram.op = "change" /\ ram.mode = 0 =>
          /\ \/ step \in {"dircheck", "bin", "done"}
             \/ Copying
             \/ Changed /\ (step \in {"rmpboot", "pboot", "unhook", "hook"} \/ Writing \/ Deleting)
          /\ ram.folder = Folder(ram.arg)
    /\ ram.op = "change" /\ step \in {"rmpboot", "pboot"} => Changed
    /\ step # "nofolder"
    /\ ram.op \in {"install", "change"} => ram.id \in Games

(* What lies in the folder by the time the plugins are copied.             *)
Placed ==
    \/ step \in {"hook", "version", "update", "done"}
    \/ Writing
    \/ ram.op = "install" /\ step = "pboot"
FilesPut ==
    /\ Copying \/ Placed => dir[ram.folder]
    /\ ram.op = "change" /\ step # "mkdir" => dir[Folder(ram.arg)]
    /\ step \in {"skprx", "usbdevice"} \/ Placed => disk[ram.folder]["suprx"] = ram.arg
    /\ step = "usbdevice" \/ Placed => disk[ram.folder]["skprx"] = ram.arg
    /\ Placed /\ ram.arg \in UsbReleases => disk[ram.folder]["usbdevice"] = ram.arg
    /\ step \in {"update", "done"} \/ (ram.op = "change" /\ (step = "hook" \/ Writing))
          => disk[ram.folder]["version"] = ram.arg
    /\ ram.op = "change" /\ (Copying \/ Placed) => ~ Exists(ram.folder, "bin")
    /\ ram.op = "change" /\ Placed /\ ram.arg \notin UsbReleases => ~ Exists(ram.folder, "usbdevice")
FilesGone ==
    step # "rmfolder" => ~ dir[ram.folder] /\ \A file \in Files : ~ Exists(ram.folder, file)
Placement ==
    /\ ram.op \in {"install", "change"} => FilesPut
    /\ ram.op = "uninstall" => FilesGone

(* The text of a rewrite is in temp.txt, then in the config.  A change of  *)
(* the game alone has deleted all of the folder's lines before it writes   *)
(* its own.                                                                *)
ToHook == step \in {"dircheck", "bin", "hook"} \/ Copying
OtherGame == ram.op = "change" /\ ram.mode = 0 /\ Changed
Hooked(c) ==
    /\ GetId(c, ram.folder) = ram.id
    /\ OtherGame => HookedTo(c, ram.folder) = {ram.id}
Unhooked(c) == ~ Names(c, ram.folder)
Text ==
    /\ step = "copy" <=> config[ram.tai] = Missing
    /\ step \in {"unlink", "copy"} => temp # Missing
    /\ Writing /\ step # "drop" => Hooked(temp)
    /\ Writing /\ step = "drop" => Hooked(config[ram.tai])
    /\ Deleting /\ step # "drop" => Unhooked(temp)
    /\ Deleting /\ step = "drop" => Unhooked(config[ram.tai])
    /\ ram.op = "change" /\ step \in {"save661", "rmfolder"} => Unhooked(config[ram.tai])
    /\ ram.op = "install" /\ step \in {"version", "update", "done"} => Hooked(config[ram.tai])
    /\ ram.op = "change" /\ (step = "done" \/ (ram.mode = 0 /\ ~ Changed)) => Hooked(config[ram.tai])
    /\ ram.op = "uninstall" /\ step = "done" => Unhooked(config[ram.tai])
    /\ OtherGame /\ ToHook => Unhooked(config[ram.tai])
    /\ step \in {"rmskprx", "rmsuprx"} => Unhooked(config[ram.tai])

(* The PBOOT of the game that was left, and of the one that was chosen.    *)
Pboots ==
    /\ ram.op = "install" /\ (step \in {"hook", "version", "update", "done"} \/ Rewriting)
          => (ram.id \in games => pboot[ram.id] = "ours")
    /\ ram.op = "change" /\ Changed /\ ram.folder = Folder(ram.arg) =>
          /\ step # "rmpboot" => (ram.gameId \in games => pboot[ram.gameId] = "none")
          /\ step \notin {"rmpboot", "pboot"} => (ram.id \in games => pboot[ram.id] = "ours")
    /\ ram.op = "uninstall" /\ step \notin {"rmfolder", "rmpboot"}
          => (ram.gameId \in games => pboot[ram.gameId] = "none")

(* What the start-up check has found, and the menu shows.                  *)
Checked ==
    /\ ram.op \in {"none", "check"} =>
          /\ disk[ram.folder]["version"] = ram.version
          /\ ram.installed =>
                /\ Exists(ram.folder, "skprx")
                /\ ram.gameId \in before.playable
                /\ GetId(config[ram.tai], ram.folder) = ram.gameId
    /\ step = "size" /\ ~ ram.installed => GetId(config[ram.tai], ram.folder) = NoId
    /\ step = "menu" =>
          /\ ~ ram.installed => ram.gameId = NoId /\ GetId(config[ram.tai], ram.folder) = NoId
          /\ disk[ram.folder]["update"] # Torn
    /\ step = "rmsuprx" => ~ Exists(ram.folder, "skprx")

Here == Route /\ Placement /\ Text /\ Pboots /\ Checked
Whole == clean /\ step # "off" => Here

(* Always: a config ends, in that of any lines of it some stand last, and  *)
(* above each of Adrenaline's plugins for a game stand all "*KERNEL"       *)
(* headers with its kernel plugin below them.                              *)
Ended(c) == \A some \in SUBSET c : some = {} \/ Lowest(some) # {}
Hooks(c, path) ==
    \A line, h \in c :
        IsPlugin(line, "suprx", path) /\ h = Header(h.at, Kernel)
            => h.at < line.at /\ Plugin(h.at, "skprx", path) \in c
Titled(c) == \A line \in c : line.kind = "head" => line.of # NoId
Sound(c) == Ended(c) /\ Titled(c) /\ \A path \in Folders : Hooks(c, path)
Texts == Sound(temp) /\ \A place \in Places : Sound(config[place])
FilesInFolders == \A path \in Folders : ~ dir[path] => \A file \in Files : ~ Exists(path, file)
Chosen ==
    /\ ram.op \in {"install", "change"} => ram.id \in Games
    /\ step = "hook" => ram.op \in {"install", "change"}
    /\ step = "off" => ram.op = "none"

(* Until something goes wrong the version file tells what lies beside it,  *)
(* but for the folder that is being written.                               *)
BeingWritten(path) ==
    /\ path = ram.folder
    /\ \/ /\ ram.op = "install"
          /\ step \in {"skprx", "usbdevice", "pboot", "hook", "version"} \/ Rewriting
       \/ ram.op = "change" /\ step \in {"skprx", "usbdevice", "version"}
Coherent(path) ==
    Exists(path, "skprx") /\ disk[path]["version"] \in Releases =>
        disk[path]["suprx"] = disk[path]["version"] /\ disk[path]["skprx"] = disk[path]["version"]
Versioned == \A path \in Folders : Coherent(path) \/ BeingWritten(path)

(* ... and one folder at most is in use: it has the plugin just when the   *)
(* config names it, and its entry has an id.                               *)
Clear(path, c) == ~ Exists(path, "skprx") /\ ~ Names(c, path)
Idle(path, c) ==
    /\ \A other \in Folders : other # path => Clear(other, c)
    /\ Exists(path, "skprx") <=> Names(c, path)
    /\ Names(c, path) => GetId(c, path) # NoId
Tidy ==
    /\ step = "off" => Idle(FoundFolder, config[FoundTai])
    /\ step # "off" =>
          /\ ram.tai = "ur0" => config["ux0"] = Missing
          /\ \A other \in Folders : other # ram.folder =>
                /\ ~ Exists(other, "skprx")
                /\ step # "copy" => ~ Names(config[ram.tai], other)
                /\ step \in {"unlink", "copy"} => ~ Names(temp, other)
    /\ step \in {"size", "menu"} /\ ~ ram.installed => Clear(ram.folder, config[ram.tai])
    /\ ram.op = "check" /\ step \in {"unhook", "unlink"} =>
          ~ (Exists(ram.folder, "skprx") /\ GetId(config[ram.tai], ram.folder) \in Living)
    /\ ram.op = "install" /\ step \in {"mkdir", "suprx", "skprx", "usbdevice", "pboot", "hook"}
          => ~ Names(config[ram.tai], ram.folder)
    /\ ram.op = "change" /\ ram.mode = 1 /\ (ToHook \/ step \in {"rmpboot", "pboot"})
          => ~ Names(config[ram.tai], ram.folder)

(* ... and the sections a folder's plugin is loaded for are one.           *)
Single(c, path) == HookedTo(c, path) \subseteq {GetId(c, path)}
Singles == \A path \in Folders : Single(temp, path) /\ \A place \in Places : Single(config[place], path)
Faultless == faults = 0 => clean /\ Versioned /\ Tidy /\ Singles

-----------------------------------------------------------------------------
(* Lemmas about the texts of a rewrite.  Every line of a config that ends  *)
(* is at or above its last section.                                        *)
LEMMA EndIsLast ==
    ASSUME NEW c \in ConfigFiles, Ended(c)
    PROVE  End(c) \in Nat /\ \A line \in c : line.at <= End(c)
<1>1. CASE c = {}
  BY <1>1 DEF End, Lowest
<1>2. CASE c # {}
  <2>1. Lowest(c) # {}
    BY <1>2 DEF Ended
  <2>2. (CHOOSE last \in Lowest(c) : TRUE) \in Lowest(c)
    BY <2>1
  <2> QED BY <2>1, <2>2 DEF End, Lowest, ConfigFiles, Lines
<1> QED BY <1>1, <1>2

LEMMA PartEnds ==
    ASSUME NEW c, Ended(c), NEW part \in SUBSET c
    PROVE  Ended(part)
BY DEF Ended

(* The text with Adrenaline's lines ends where its new section stands.     *)
LEMMA WriteEnds ==
    ASSUME NEW c \in ConfigFiles, Ended(c), NEW path, NEW id
    PROVE  Ended(WriteLines(c, path, id))
<1> DEFINE n == End(c) + 1
           kernel == {Plugin(h.at, "skprx", path) : h \in {g \in c : g = Header(g.at, Kernel)}}
           new == {Header(n, id), Plugin(n, "suprx", path)}
                    \union (IF path = OldFolder THEN {Plugin(n, "libpgf", "vs0")} ELSE {})
<1>1. n \in Nat /\ \A line \in c : line.at \in Nat /\ line.at < n
  BY EndIsLast DEF ConfigFiles, Lines
<1>2. WriteLines(c, path, id) = c \union kernel \union new
  BY DEF WriteLines
<1>3. \A line \in kernel : \E h \in c : line.at = h.at
  BY DEF Plugin
<1>4. \A line \in new : line.at = n
  BY DEF Plugin, Header
<1>5. ASSUME NEW some \in SUBSET (c \union kernel \union new), some # {}
      PROVE  Lowest(some) # {}
  <2>1. CASE some \cap new # {}
    <3>1. PICK line \in some : line \in new
      BY <2>1
    <3>2. \A other \in some : other.at <= n
      BY <1>1, <1>3, <1>4
    <3>3. line \in Lowest(some)
      BY <1>4, <3>1, <3>2 DEF Lowest
    <3> QED BY <3>3
  <2>2. CASE some \cap new = {}
    <3> DEFINE beside == {line \in c : \E x \in some : x.at = line.at}
    <3>1. \A x \in some : \E line \in beside : x.at = line.at
      BY <1>3, <2>2
    <3>2. beside \in SUBSET c /\ beside # {}
      BY <1>5, <3>1
    <3>3. PICK last \in beside : \A other \in beside : other.at <= last.at
      BY <3>2 DEF Ended, Lowest
    <3>4. PICK x \in some : x.at = last.at
      BY <3>3
    <3>5. x \in Lowest(some)
      BY <3>1, <3>3, <3>4 DEF Lowest
    <3> QED BY <3>5
  <2> QED BY <2>1, <2>2
<1> QED BY <1>2, <1>5 DEF Ended

(* What an interrupted write leaves is a part of the text.                 *)
LEMMA CutIsPart ==
    ASSUME NEW c, NEW cut \in Cuts(c)
    PROVE  cut \in SUBSET c
BY DEF Cuts, Above

LEMMA HooksCut ==
    ASSUME NEW c \in ConfigFiles, NEW path, Hooks(c, path), NEW cut \in Cuts(c)
    PROVE  Hooks(cut, path)
<1>1. PICK n \in {line.at : line \in c} :
        cut = Above(c, n) \/ cut = Above(c, n) \union {h \in c : h.at = n /\ h.kind = "head"}
  BY DEF Cuts
<1>2. n \in Nat /\ cut \subseteq c /\ \A line \in c : line.at \in Nat
  BY <1>1, CutIsPart DEF ConfigFiles, Lines
<1>3. ASSUME NEW line \in cut, NEW h \in cut,
             IsPlugin(line, "suprx", path), h = Header(h.at, Kernel)
      PROVE  h.at < line.at /\ Plugin(h.at, "skprx", path) \in cut
  <2>1. h.at < line.at /\ Plugin(h.at, "skprx", path) \in c
    BY <1>2, <1>3 DEF Hooks
  <2>2. line.at < n
    BY <1>1, <1>3 DEF Above, IsPlugin
  <2>3. Plugin(h.at, "skprx", path).at = h.at
    BY DEF Plugin
  <2>4. Plugin(h.at, "skprx", path) \in Above(c, n)
    BY <1>2, <2>1, <2>2, <2>3 DEF Above
  <2> QED BY <1>1, <2>1, <2>4
<1> QED BY <1>3 DEF Hooks

LEMMA HooksDelete ==
    ASSUME NEW c \in ConfigFiles, NEW path, NEW gone, NEW id, Hooks(c, path)
    PROVE  Hooks(DeleteLines(c, gone, id), path)
<1>1. ASSUME NEW line \in DeleteLines(c, gone, id), NEW h \in DeleteLines(c, gone, id),
             IsPlugin(line, "suprx", path), h = Header(h.at, Kernel)
      PROVE  h.at < line.at /\ Plugin(h.at, "skprx", path) \in DeleteLines(c, gone, id)
  <2>1. h.at < line.at /\ Plugin(h.at, "skprx", path) \in c
    BY <1>1 DEF Hooks, DeleteLines
  <2>2. path # gone /\ id # NoId
    BY <1>1 DEF DeleteLines, Dropped, IsPlugin, ContainsId
  <2>3. ~ Dropped(Plugin(h.at, "skprx", path), gone, id)
    BY <2>2 DEF Dropped, Plugin, IsPlugin, ContainsId
  <2> QED BY <2>1, <2>3 DEF DeleteLines
<1> QED BY <1>1 DEF Hooks

LEMMA HooksWrite ==
    ASSUME NEW c \in ConfigFiles, NEW path, NEW new, NEW id, id # Kernel, Ended(c), Hooks(c, path)
    PROVE  Hooks(WriteLines(c, new, id), path)
<1> DEFINE n == End(c) + 1
           text == WriteLines(c, new, id)
<1>1. n \in Nat /\ \A line \in c : line.at \in Nat /\ line.at < n
  BY EndIsLast DEF ConfigFiles, Lines
<1>2. ASSUME NEW line \in text, NEW h \in text,
             IsPlugin(line, "suprx", path), h = Header(h.at, Kernel)
      PROVE  h.at < line.at /\ Plugin(h.at, "skprx", path) \in text
  <2>1. h \in c
    <3>1. h.kind = "head" /\ h.of = Kernel
      BY <1>2 DEF Header
    <3> QED BY <3>1 DEF WriteLines, Header, Plugin
  <2>2. line \in c \/ (line = Plugin(n, "suprx", new) /\ new = path)
    BY <1>2 DEF WriteLines, Header, Plugin, IsPlugin
  <2>3. CASE line \in c
    <3>1. h.at < line.at /\ Plugin(h.at, "skprx", path) \in c
      BY <1>2, <2>1, <2>3 DEF Hooks
    <3> QED BY <3>1 DEF WriteLines
  <2>4. CASE line = Plugin(n, "suprx", new) /\ new = path
    <3>1. line.at = n
      BY <2>4 DEF Plugin
    <3>2. Plugin(h.at, "skprx", path) \in text
      BY <1>2, <2>1, <2>4 DEF WriteLines
    <3> QED BY <1>1, <2>1, <3>1, <3>2
  <2> QED BY <2>2, <2>3, <2>4
<1> QED BY <1>2 DEF Hooks

(* The new section is the game's.                                          *)
LEMMA NewSection ==
    ASSUME NEW c \in ConfigFiles, Ended(c), NEW path, NEW id
    PROVE  Section(WriteLines(c, path, id), End(c) + 1) = id
<1> DEFINE n == End(c) + 1
           text == WriteLines(c, path, id)
           nearest == Lowest(HeadersAbove(text, n))
<1>1. n \in Nat /\ \A line \in c : line.at \in Nat /\ line.at < n
  BY EndIsLast DEF ConfigFiles, Lines
<1>4. nearest = {Header(n, id)}
  <2>1. Header(n, id) \in text /\ Header(n, id).at = n /\ Header(n, id).kind = "head"
    BY DEF WriteLines, Header
  <2>2. Header(n, id) \in nearest
    BY <1>1, <2>1 DEF Lowest, HeadersAbove
  <2>3. \A line \in nearest : line \in text /\ line.kind = "head" /\ n <= line.at
    BY <1>1, <2>1 DEF Lowest, HeadersAbove
  <2>4. \A line \in text : line.at \in Nat /\ (line.kind = "head" /\ ~ line.at < n => line = Header(n, id))
    BY <1>1 DEF WriteLines, Plugin, Header
  <2> HIDE DEF nearest
  <2> QED BY <1>1, <2>2, <2>3, <2>4
<1>5. Section(text, n) = id
  <2>1. Section(text, n) = IF nearest = {} THEN NoId ELSE (CHOOSE h \in nearest : TRUE).of
    BY DEF Section
  <2>2. (CHOOSE h \in {Header(n, id)} : TRUE) = Header(n, id)
    OBVIOUS
  <2> HIDE DEF nearest
  <2> QED BY <1>4, <2>1, <2>2 DEF Header
<1> QED BY <1>5

(* After an install or a change the entry for the folder is the new one,   *)
(* and the only one if there was none.                                     *)
LEMMA WrittenAlone ==
    ASSUME NEW c \in ConfigFiles, Ended(c), NEW path, NEW id, ~ Names(c, path)
    PROVE  HookedTo(WriteLines(c, path, id), path) = {id}
<1> DEFINE n == End(c) + 1
           text == WriteLines(c, path, id)
<1>1. {line \in text : IsPlugin(line, "suprx", path)} = {Plugin(n, "suprx", path)}
  BY DEF WriteLines, Plugin, Header, IsPlugin, Names
<1>2. Plugin(n, "suprx", path).at = n
  BY DEF Plugin
<1>3. Section(text, n) = id
  BY NewSection
<1> HIDE DEF text, n
<1>4. HookedTo(text, path) = {id}
  BY <1>1, <1>2, <1>3 DEF HookedTo
<1> QED BY <1>4 DEF text

LEMMA WrittenIsRead ==
    ASSUME NEW c \in ConfigFiles, Ended(c), NEW path, NEW id
    PROVE  GetId(WriteLines(c, path, id), path) = id
<1> DEFINE n == End(c) + 1
           text == WriteLines(c, path, id)
           hits == Lowest({line \in text : IsPlugin(line, "suprx", path)})
<1>1. n \in Nat /\ \A line \in c : line.at \in Nat /\ line.at < n
  BY EndIsLast DEF ConfigFiles, Lines
<1>2. \A line \in text : line.at <= n
  BY <1>1 DEF WriteLines, Plugin, Header
<1>3. hits = {Plugin(n, "suprx", path)}
  <2>1. Plugin(n, "suprx", path) \in text /\ IsPlugin(Plugin(n, "suprx", path), "suprx", path)
    BY DEF WriteLines, Plugin, IsPlugin
  <2>2. Plugin(n, "suprx", path).at = n
    BY DEF Plugin
  <2>3. \A line \in text : IsPlugin(line, "suprx", path) /\ ~ line.at < n
                              => line = Plugin(n, "suprx", path)
    BY <1>1 DEF WriteLines, Plugin, Header, IsPlugin
  <2>4. \A line \in text : line.at \in Nat
    BY <1>1 DEF WriteLines, Plugin, Header
  <2>5. Plugin(n, "suprx", path) \in hits
    BY <1>2, <2>1, <2>2 DEF Lowest
  <2>6. \A line \in hits : line \in text /\ IsPlugin(line, "suprx", path) /\ n <= line.at
    BY <2>1, <2>2 DEF Lowest
  <2> HIDE DEF hits
  <2>7. \A line \in hits : line = Plugin(n, "suprx", path)
    BY <1>1, <2>3, <2>4, <2>6
  <2> QED BY <2>5, <2>7
<1>5. Section(text, n) = id
  BY NewSection
<1>6. GetId(text, path) = IF hits = {} THEN NoId ELSE Section(text, (CHOOSE h \in hits : TRUE).at)
  BY DEF GetId
<1>7. (CHOOSE h \in {Plugin(n, "suprx", path)} : TRUE) = Plugin(n, "suprx", path)
  OBVIOUS
<1>8. Plugin(n, "suprx", path).at = n
  BY DEF Plugin
<1> HIDE DEF hits, text, n
<1>9. GetId(text, path) = id
  BY <1>3, <1>5, <1>6, <1>7, <1>8
<1> QED BY <1>9 DEF text

LEMMA NamelessHasNoId ==
    ASSUME NEW c, NEW path, ~ Names(c, path)
    PROVE  GetId(c, path) = NoId
<1>1. {line \in c : IsPlugin(line, "suprx", path)} = {}
  BY DEF Names
<1> QED BY <1>1 DEF GetId, Lowest

(* An entry is an entry of a suprx line.                                   *)
LEMMA EntryHasLine ==
    ASSUME NEW c, NEW path, GetId(c, path) # NoId
    PROVE  \E line \in c : IsPlugin(line, "suprx", path)
<1>1. {line \in c : IsPlugin(line, "suprx", path)} = {} => GetId(c, path) = NoId
  BY DEF GetId, Lowest
<1> QED BY <1>1

LEMMA NamelessIsSingle ==
    ASSUME NEW c, NEW path, ~ Names(c, path)
    PROVE  HookedTo(c, path) = {} /\ Single(c, path)
<1>1. {line \in c : IsPlugin(line, "suprx", path)} = {}
  BY DEF Names
<1> QED BY <1>1 DEF HookedTo, Single

(* The id that is read is one the plugin is loaded for.                    *)
LEMMA IdIsHooked ==
    ASSUME NEW c, NEW path, GetId(c, path) # NoId
    PROVE  GetId(c, path) \in HookedTo(c, path)
<1> DEFINE lines == {line \in c : IsPlugin(line, "suprx", path)}
           last == CHOOSE h \in Lowest(lines) : TRUE
<1>1. Lowest(lines) # {} /\ GetId(c, path) = Section(c, last.at)
  BY DEF GetId
<1>2. last \in lines
  <2>1. last \in Lowest(lines)
    BY <1>1
  <2> QED BY <2>1 DEF Lowest
<1> HIDE DEF last, lines
<1>3. HookedTo(c, path) = {Section(c, line.at) : line \in lines}
  BY DEF HookedTo, lines
<1> QED BY <1>1, <1>2, <1>3

(* If no id is read, no line of the folder stands below any header.        *)
LEMMA NoEntryNoSection ==
    ASSUME NEW c \in ConfigFiles, Ended(c), Titled(c), NEW path, GetId(c, path) = NoId
    PROVE  HookedTo(c, path) \subseteq {NoId}
<1> DEFINE lines == {line \in c : IsPlugin(line, "suprx", path)}
           last == CHOOSE h \in Lowest(lines) : TRUE
           nearest == Lowest(HeadersAbove(c, last.at))
<1>1. SUFFICES ASSUME NEW line \in lines PROVE Section(c, line.at) = NoId
  BY DEF HookedTo
<1>2. last \in lines /\ line.at <= last.at
  <2>1. Lowest(lines) # {}
    BY <1>1 DEF Ended
  <2>2. last \in Lowest(lines)
    BY <2>1
  <2> HIDE DEF last
  <2> QED BY <1>1, <2>2 DEF Lowest
<1>3. Section(c, last.at) = NoId
  BY <1>1 DEF GetId, Ended
<1>4. nearest = {}
  <2>1. CASE nearest # {}
    <3> DEFINE h == CHOOSE h \in nearest : TRUE
    <3>1. h \in nearest
      BY <2>1
    <3>2. h.of = NoId
      BY <1>3, <2>1 DEF Section
    <3> HIDE DEF h
    <3> QED BY <3>1, <3>2 DEF Lowest, HeadersAbove, Titled
  <2> QED BY <2>1
<1>5. HeadersAbove(c, last.at) = {}
  BY <1>4 DEF HeadersAbove, Ended
<1> HIDE DEF last
<1>6. HeadersAbove(c, line.at) = {}
  <2>1. last.at \in Nat /\ \A h \in c : h.at \in Nat
    BY <1>2 DEF ConfigFiles, Lines
  <2> QED BY <1>1, <1>2, <1>5, <2>1 DEF HeadersAbove
<1> QED BY <1>6 DEF Section, Lowest

(* Neither edit brings in a line of the other folder.                      *)
LEMMA WriteNames ==
    ASSUME NEW c, NEW path, NEW id, NEW other, other # path, Names(WriteLines(c, path, id), other)
    PROVE  Names(c, other)
BY DEF Names, WriteLines, IsPlugin, Plugin, Header

LEMMA DeleteNames ==
    ASSUME NEW c, NEW path, NEW id, NEW other, Names(DeleteLines(c, path, id), other)
    PROVE  Names(c, other)
BY DEF Names, DeleteLines

LEMMA DeletedIsNameless ==
    ASSUME NEW c, NEW path, NEW id
    PROVE  ~ Names(DeleteLines(c, path, id), path)
BY DEF Names, DeleteLines, Dropped

-----------------------------------------------------------------------------
(* Whatever is interrupted, config.txt and temp.txt stay sound.            *)
LEMMA PartSound ==
    ASSUME NEW c \in ConfigFiles, Sound(c), NEW cut \in Cuts(c)
    PROVE  Sound(cut)
BY CutIsPart, PartEnds, HooksCut DEF Sound, Titled

LEMMA SmallSound == Sound({}) /\ Sound(Missing)
<1>1. \A line \in Missing : line.kind = "missing" /\ line.at = 0
  BY DEF Missing
<1>2. Ended(Missing)
  <2>1. \A some \in SUBSET Missing : \A line \in some : line \in Lowest(some)
    BY <1>1 DEF Lowest
  <2> QED BY <2>1 DEF Ended
<1>3. \A path : Hooks(Missing, path)
  BY <1>1 DEF Hooks, IsPlugin
<1>4. Ended({}) /\ \A path : Hooks({}, path)
  BY DEF Ended, Hooks
<1>5. Titled({}) /\ Titled(Missing)
  BY <1>1 DEF Titled
<1> QED BY <1>2, <1>3, <1>4, <1>5 DEF Sound

LEMMA LinesSound ==
    ASSUME NEW file, Sound(file)
    PROVE  Sound(LinesOf(file))
BY SmallSound DEF LinesOf

LEMMA DeleteSound ==
    ASSUME NEW c \in ConfigFiles, Sound(c), NEW path, NEW id
    PROVE  Sound(DeleteLines(c, path, id))
<1>1. DeleteLines(c, path, id) \in SUBSET c
  BY DEF DeleteLines
<1>2. Titled(DeleteLines(c, path, id))
  BY <1>1 DEF Sound, Titled
<1> QED BY <1>1, <1>2, PartEnds, HooksDelete DEF Sound

LEMMA WriteSound ==
    ASSUME NEW c \in ConfigFiles, Sound(c), NEW path, NEW id, id # Kernel, id # NoId
    PROVE  Sound(WriteLines(c, path, id))
<1>1. Titled(WriteLines(c, path, id))
  BY DEF Sound, Titled, WriteLines, Header, Plugin
<1> QED BY <1>1, WriteEnds, HooksWrite DEF Sound

LEMMA InitTexts == Init => Texts /\ Chosen
<1> SUFFICES ASSUME Init PROVE Texts /\ Chosen
  OBVIOUS
<1>1. Chosen
  BY DEF Init, Fresh, Chosen
<1>2. temp = Missing
  BY DEF Init
<1>3. PICK place \in TaiPlaces, c \in UserConfigs :
        \/ config = [p \in Places |-> IF p = place THEN c ELSE Missing]
        \/ \E release \in Releases, game \in Games :
             config = [p \in Places |->
                         IF p = place THEN WriteLines(c, Folder(release), game) ELSE Missing]
  BY InstallerAssumption DEF Init
<1>4. /\ c \in ConfigFiles /\ Ended(c)
      /\ \A line \in c : line.kind \in {"head", "user"} /\ (line.kind = "head" => line.of # NoId)
  BY InstallerAssumption DEF Ended
<1>5. Sound(c)
  BY <1>4 DEF Sound, Hooks, IsPlugin, Titled
<1>6. ASSUME NEW release \in Releases, NEW game \in Games
      PROVE  Sound(WriteLines(c, Folder(release), game))
  BY <1>4, <1>5, WriteSound, InstallerAssumption
<1>7. \A p \in Places : Sound(config[p])
  BY <1>3, <1>5, <1>6, SmallSound
<1> QED BY <1>1, <1>2, <1>7, SmallSound DEF Texts

LEMMA EditTexts ==
    ASSUME TypeOK, Texts, NEW text \in ConfigFiles, Sound(text), NEW edit, EditTo(text, edit)
    PROVE  Texts'
<1>1. config' = config
  BY DEF EditTo
<1>2. temp' = {} \/ temp' = text \/ temp' \in Cuts(text)
  BY Zenon DEF EditTo
<1>3. Sound(temp')
  BY <1>2, SmallSound, PartSound
<1> QED BY <1>1, <1>3 DEF Texts

LEMMA StepTexts == TypeOK /\ IInv /\ Texts /\ Chosen /\ [Next]_vars => Texts' /\ Chosen'
<1> SUFFICES ASSUME TypeOK, IInv, Texts, Chosen, [Next]_vars PROVE Texts' /\ Chosen'
  OBVIOUS
<1> USE Fields
<1>s. Sound(LinesOf(config[ram.tai]))
  BY LinesSound DEF Texts
<1>o. ram.op \in {"none", "check", "install", "change", "uninstall"} /\ StepFitsOp(step, ram)
  BY DEF TypeOK, Rams, IInv, OpInv
<1>m. ASSUME NEW next, NEW r, Moves(next, r), r.op = ram.op, r.id = ram.id,
             next = "hook" => ram.op \in {"install", "change"}, next # "off"
      PROVE  Chosen'
  BY <1>m DEF Moves, Chosen, Fresh
<1>k. UNCHANGED <<config, temp>> => Texts'
  BY DEF Texts
<1>1. CASE Check
  <2>1. CASE Launch
    <3>1. step' \in {"unhook", "size"} /\ ram'.op = "check" /\ UNCHANGED <<config, temp>>
      BY <2>1 DEF Launch, StartCheck, card, Fresh
    <3> QED BY <1>k, <3>1 DEF Chosen
  <2>2. CASE RemoveSkprx \/ RemoveSuprx
    BY <2>2, <1>k, <1>m, PutFileMoves DEF RemoveSkprx, RemoveSuprx
  <2>3. CASE CheckUpdate
    <3> DEFINE r == [ram EXCEPT !.op = "none", !.gameId = IF ram.installed THEN @ ELSE NoId]
    <3>1. Moves("menu", r) /\ UNCHANGED <<config, temp>>
      BY <2>3, CheckUpdateMoves
    <3>2. r.op = "none"
      BY DEF TypeOK, Rams
    <3> HIDE DEF r
    <3> QED BY <1>k, <3>1, <3>2 DEF Moves, Chosen, Fresh
  <2> QED BY <1>1, <2>1, <2>2, <2>3 DEF Check
<1>2. CASE Rewrite
  <2>e. ASSUME NEW text, NEW edit, EditTo(text, edit) PROVE Chosen'
    <3> DEFINE r == [ram EXCEPT !.edit = edit]
    <3>1. PICK next \in {"unlink", AfterRewrite(edit)} : Moves(next, r)
      BY <2>e, GoMoves DEF EditTo
    <3>2. r.op = ram.op /\ r.id = ram.id
      BY DEF TypeOK, Rams
    <3>3. next \notin {"hook", "off"}
      BY <3>1, AfterRewriteTyped
    <3> QED BY <1>m, <3>1, <3>2, <3>3
  <2>1. CASE Hook
    <3> DEFINE text == WriteLines(LinesOf(config[ram.tai]), ram.folder, ram.id)
    <3>1. ram.id # Kernel /\ ram.id # NoId
      BY <2>1, InstallerAssumption DEF Hook, Chosen
    <3>2. text \in ConfigFiles /\ Sound(text)
      BY <1>s, <3>1, WriteTyped, WriteSound
    <3>3. EditTo(text, "write")
      BY <2>1 DEF Hook
    <3> HIDE DEF text
    <3> QED BY <2>e, <3>2, <3>3, EditTexts
  <2>2. CASE Unhook
    <3> DEFINE text == DeleteLines(LinesOf(config[ram.tai]), ram.folder, ram.gameId)
    <3>1. text \in ConfigFiles /\ Sound(text)
      BY <1>s, DeleteTyped, DeleteSound
    <3>2. EditTo(text, "delete")
      BY <2>2 DEF Unhook
    <3> HIDE DEF text
    <3> QED BY <2>e, <3>1, <3>2, EditTexts
  <2>3. CASE RemoveConfig
    <3>1. Moves("copy", ram)
      BY <2>3, GoMoves DEF RemoveConfig
    <3>2. temp' = temp /\ \A place \in Places : config'[place] \in {config[place], Missing}
      BY <2>3 DEF RemoveConfig, TypeOK
    <3> QED BY <1>m, <3>1, <3>2, SmallSound DEF Texts
  <2>4. CASE CopyTemp
    <3>1. Moves("drop", ram) /\ temp' = temp
      BY <2>4, GoMoves DEF CopyTemp
    <3>2. \E left \in {temp, config[ram.tai]} \union Cuts(LinesOf(temp)) :
             config' = [config EXCEPT ![ram.tai] = left]
      BY <2>4 DEF CopyTemp
    <3>3. PICK left : /\ left \in {temp, config[ram.tai]} \union Cuts(LinesOf(temp))
                      /\ config' = [config EXCEPT ![ram.tai] = left]
      BY <3>2
    <3>4. LinesOf(temp) \in ConfigFiles /\ Sound(LinesOf(temp))
      BY LinesTyped, LinesSound DEF TypeOK, Texts
    <3>5. Sound(left)
      BY <3>3, <3>4, PartSound DEF Texts
    <3>6. \A place \in Places : config'[place] \in {config[place], left}
      BY <3>3 DEF TypeOK
    <3> QED BY <1>m, <3>1, <3>5, <3>6 DEF Texts
  <2>5. CASE DropTemp
    <3>1. Moves(AfterRewrite(ram.edit), ram) /\ config' = config
      BY <2>5, GoMoves DEF DropTemp
    <3>2. temp' = Missing \/ temp' = temp
      BY <2>5 DEF DropTemp
    <3> QED BY <1>m, <3>1, <3>2, AfterRewriteTyped, SmallSound DEF Texts
  <2> QED BY <1>2, <2>1, <2>2, <2>3, <2>4, <2>5 DEF Rewrite
<1>3. CASE Operate
  <2>1. CASE MakeFolder
    BY <2>1, <1>k, <1>m, GoMoves DEF MakeFolder
  <2>2. CASE CopySuprx \/ CopySkprx \/ WriteVersion \/ RemoveBin
    <3>1. \E next \in {"skprx", "usbdevice", "update", "suprx"} :
             Moves(next, ram) /\ UNCHANGED <<config, temp>>
      BY <2>2, PutFileMoves DEF CopySuprx, CopySkprx, WriteVersion, RemoveBin
    <3> QED BY <1>k, <1>m, <3>1
  <2>3. CASE CopyUsb
    <3> DEFINE next == IF ram.op = "install" THEN "pboot" ELSE "version"
    <3>1. Moves(next, ram) /\ UNCHANGED <<config, temp>>
      BY <2>3, PutFileMoves, GoMoves DEF CopyUsb, card
    <3> QED BY <1>k, <1>m, <3>1
  <2>4. CASE CopyPboot
    BY <2>4, <1>o, <1>k, <1>m, GoMoves DEF CopyPboot, StepFitsOp
  <2>5. CASE RemovePboot
    BY <2>5, <1>o, <1>k, <1>m, GoMoves DEF RemovePboot, StepFitsOp
  <2>6. CASE GetUpdate
    <3> DEFINE next == IF ram.op = "change" /\ (ram.mode = 1 \/ Changed) THEN "hook" ELSE "done"
    <3>1. Moves(next, ram) /\ UNCHANGED <<config, temp>>
      BY <2>6, PutFileMoves, GoMoves DEF GetUpdate, card
    <3> QED BY <1>k, <1>m, <3>1
  <2>7. CASE SaveUpdate
    BY <2>7, <1>k, <1>m, PutFileMoves, GoMoves DEF SaveUpdate, card
  <2>8. CASE RemoveFolder
    <3> DEFINE r == IF ram.op = "change" THEN [ram EXCEPT !.folder = Folder(ram.arg)] ELSE ram
               next == IF ram.op = "change" /\ ~ Changed THEN "dircheck" ELSE "rmpboot"
    <3>1. Moves(next, r) /\ UNCHANGED <<config, temp>>
      BY <2>8, GoMoves DEF RemoveFolder
    <3>2. r.op = ram.op /\ r.id = ram.id
      BY DEF TypeOK, Rams
    <3> HIDE DEF r
    <3> QED BY <1>k, <1>m, <3>1, <3>2
  <2>9. CASE CheckFolder
    BY <2>9, <1>k, <1>m, GoMoves DEF CheckFolder, card
  <2> QED BY <1>3, <2>1, <2>2, <2>3, <2>4, <2>5, <2>6, <2>7, <2>8, <2>9 DEF Operate
<1>4. CASE Choose
  <2>1. ASSUME NEW release \in Releases, NEW game \in Games, Install(release, game)
        PROVE  Texts' /\ Chosen'
    <3>1. step' = "mkdir" /\ ram'.id = game /\ UNCHANGED <<config, temp>>
      BY <2>1 DEF Install, Go, card, TypeOK, Rams
    <3> QED BY <1>k, <3>1 DEF Chosen
  <2>2. ASSUME NEW release \in Releases, NEW game \in Games, Change(release, game)
        PROVE  Texts' /\ Chosen'
    <3>1. step' \notin {"hook", "off"} /\ ram'.id = game /\ UNCHANGED <<config, temp>>
      BY <2>2 DEF Change, Go, card, TypeOK, Rams
    <3> QED BY <1>k, <3>1 DEF Chosen
  <2>3. CASE Uninstall
    <3>1. step' = "rmfolder" /\ ram'.op = "uninstall" /\ UNCHANGED <<config, temp>>
      BY <2>3 DEF Uninstall, Go, card, TypeOK, Rams
    <3> QED BY <1>k, <3>1 DEF Chosen
  <2>4. CASE DeletePbp \/ DeleteFlash
    BY <2>4, <1>k, <1>m, PutFileMoves DEF DeletePbp, DeleteFlash
  <2> QED BY <1>4, <2>1, <2>2, <2>3, <2>4 DEF Choose
<1>5. CASE Quit \/ PowerLoss
  BY <1>5, <1>k DEF Quit, PowerLoss, Go, card, Chosen, Fresh
<1>6. CASE World
  BY <1>6, <1>k DEF World, DeleteGame, RunAdrenaline, Chosen
<1>7. CASE Refuse \/ UNCHANGED vars
  BY <1>7, <1>k DEF Refuse, vars, card, Chosen
<1> QED BY <1>1, <1>2, <1>3, <1>4, <1>5, <1>6, <1>7 DEF Next

-----------------------------------------------------------------------------
(* The operations as long as nothing fails: a step that fails ends in      *)
(* "off" or in a run that is not clean, of which nothing is claimed.       *)
Smooth == clean' /\ step' # "off"

(* A step of a smooth run does all it is to do.                            *)
LEMMA GoSmoothly ==
    ASSUME Smooth, NEW next, NEW r, Go(next, r) \/ GoWrong(next, r)
    PROVE  step' = next /\ ram' = r /\ clean /\ before' = before /\ ~ GoWrong(next, r)
<1>1. ~ GoWrong(next, r)
  BY Zenon DEF Smooth, GoWrong
<1>2. Go(next, r)
  BY <1>1
<1>3. clean /\ before' = before
  BY <1>2, Zenon DEF Go, history, Smooth
<1>4. step' = next /\ ram' = r
  BY <1>2, Zenon DEF Go
<1> QED BY <1>1, <1>3, <1>4

(* What a copy and a removal do to the files.                              *)
Others(path, file) ==
    \A p \in Folders, f \in Files : p # path \/ f # file => disk'[p][f] = disk[p][f]

LEMMA PutSmoothly ==
    ASSUME TypeOK, Smooth, NEW path \in Folders, NEW file \in Files, NEW content, NEW next, NEW r,
           PutFile(path, file, content, next, r)
    PROVE  /\ step' = next /\ ram' = r /\ clean
           /\ UNCHANGED <<dir, games, pboot, config, temp, before>>
           /\ Others(path, file)
           /\ dir[path] => disk'[path][file] = content
<1>1. step' = next /\ ram' = r /\ clean /\ before' = before /\ ~ GoWrong(next, r)
  BY GoSmoothly DEF PutFile
<1>2. UNCHANGED <<dir, games, pboot, config, temp>>
  BY DEF PutFile
<1>3. disk' = IF dir[path] THEN [disk EXCEPT ![path][file] = content] ELSE disk
  BY <1>1, Zenon DEF PutFile
<1>4. disk \in [Folders -> [Files -> Contents]]
  BY DEF TypeOK
<1>5. Others(path, file)
  BY <1>3, <1>4 DEF Others
<1>6. dir[path] => disk'[path][file] = content
  BY <1>3, <1>4
<1> QED BY <1>1, <1>2, <1>5, <1>6

LEMMA RemoveSmoothly ==
    ASSUME TypeOK, Smooth, NEW path \in Folders, NEW file \in Files, NEW next, NEW r,
           RemoveFile(path, file, next, r)
    PROVE  /\ step' = next /\ ram' = r /\ clean
           /\ UNCHANGED <<dir, games, pboot, config, temp, before>>
           /\ Others(path, file)
           /\ disk'[path][file] = Absent
<1>1. step' = next /\ ram' = r /\ clean /\ before' = before /\ ~ GoWrong(next, r)
  BY GoSmoothly DEF RemoveFile
<1>2. UNCHANGED <<dir, games, pboot, config, temp>>
  BY DEF RemoveFile
<1>3. disk' = [disk EXCEPT ![path][file] = Absent]
  BY <1>1, Zenon DEF RemoveFile
<1>4. disk \in [Folders -> [Files -> Contents]]
  BY DEF TypeOK
<1>5. Others(path, file)
  BY <1>3, <1>4 DEF Others
<1>6. disk'[path][file] = Absent
  BY <1>3, <1>4
<1> QED BY <1>1, <1>2, <1>5, <1>6

(* What a step is shown to keep.                                           *)
Keeps == Here' /\ (Versioned => Versioned') /\ (Tidy => Tidy')

LEMMA MissingIsNoConfig == Missing \notin ConfigFiles
<1>1. [at |-> 0, kind |-> "missing", of |-> NoId] \notin Lines
  BY DEF Lines, Kinds
<1> QED BY <1>1 DEF Missing, ConfigFiles

LEMMA RamShape ==
    ASSUME TypeOK
    PROVE  /\ ram.op \in {"none", "check", "install", "change", "uninstall"}
           /\ ram.mode \in {0, 1} /\ ram.edit \in {"none", "write", "delete"}
           /\ ram.installed \in BOOLEAN
BY DEF TypeOK, Rams

(* The steps that copy and remove a file each.                             *)
LEMMA CopySuprxHere ==
    ASSUME TypeOK, Smooth, Here, CopySuprx
    PROVE  Keeps
<1> USE Fields, RamShape DEF Here, Route, Rewriting, Writing, Deleting, Leaving, Copying, Changed,
           ToHook, OtherGame, Living
<1>1. /\ step = "suprx" /\ step' = "skprx" /\ ram' = ram
      /\ UNCHANGED <<dir, games, pboot, config, temp, before>>
      /\ Others(ram.folder, "suprx")
      /\ dir[ram.folder] => disk'[ram.folder]["suprx"] = ram.arg
  BY PutSmoothly DEF CopySuprx, Files
<1>2. Route'
  BY <1>1
<1>3. Placement'
  BY <1>1 DEF Placement, FilesPut, FilesGone, Placed, Others, Exists, Files
<1>4. Text'
  BY <1>1 DEF Text, Hooked, Unhooked
<1>5. Pboots'
  BY <1>1 DEF Pboots
<1>6. Checked'
  BY <1>1 DEF Checked, Others, Exists, Files
<1>7. Versioned => Versioned'
  BY <1>1, <1>3 DEF Versioned, Coherent, BeingWritten, Others, Exists, Files, Folders
<1>8. Tidy => Tidy'
  BY <1>1 DEF Tidy, Clear, Others, Exists, Files, Folders
<1> QED BY <1>2, <1>3, <1>4, <1>5, <1>6, <1>7, <1>8 DEF Keeps

LEMMA CopySkprxHere ==
    ASSUME TypeOK, Smooth, Here, CopySkprx
    PROVE  Keeps
<1> USE Fields, RamShape DEF Here, Route, Rewriting, Writing, Deleting, Leaving, Copying, Changed,
           ToHook, OtherGame, Living
<1>1. /\ step = "skprx" /\ step' = "usbdevice" /\ ram' = ram
      /\ UNCHANGED <<dir, games, pboot, config, temp, before>>
      /\ Others(ram.folder, "skprx")
      /\ dir[ram.folder] => disk'[ram.folder]["skprx"] = ram.arg
  BY PutSmoothly DEF CopySkprx, Files
<1>2. Route'
  BY <1>1
<1>3. Placement'
  BY <1>1 DEF Placement, FilesPut, FilesGone, Placed, Others, Exists, Files
<1>4. Text'
  BY <1>1 DEF Text, Hooked, Unhooked
<1>5. Pboots'
  BY <1>1 DEF Pboots
<1>6. Checked'
  BY <1>1 DEF Checked, Others, Exists, Files
<1>7. Versioned => Versioned'
  BY <1>1, <1>3 DEF Versioned, Coherent, BeingWritten, Others, Exists, Files, Folders
<1>8. Tidy => Tidy'
  BY <1>1 DEF Tidy, Clear, Others, Exists, Files, Folders
<1> QED BY <1>2, <1>3, <1>4, <1>5, <1>6, <1>7, <1>8 DEF Keeps

LEMMA WriteVersionHere ==
    ASSUME TypeOK, Smooth, Here, WriteVersion
    PROVE  Keeps
<1> USE Fields, RamShape DEF Here, Route, Rewriting, Writing, Deleting, Leaving, Copying, Changed,
           ToHook, OtherGame, Living
<1>1. /\ step = "version" /\ step' = "update" /\ ram' = ram
      /\ UNCHANGED <<dir, games, pboot, config, temp, before>>
      /\ Others(ram.folder, "version")
      /\ dir[ram.folder] => disk'[ram.folder]["version"] = ram.arg
  BY PutSmoothly DEF WriteVersion, Files
<1>2. Route'
  BY <1>1
<1>3. Placement'
  BY <1>1 DEF Placement, FilesPut, FilesGone, Placed, Others, Exists, Files
<1>4. Text'
  BY <1>1 DEF Text, Hooked, Unhooked
<1>5. Pboots'
  BY <1>1 DEF Pboots
<1>6. Checked'
  BY <1>1 DEF Checked, Others, Exists, Files
<1>7. Versioned => Versioned'
  BY <1>1, <1>3 DEF Versioned, Coherent, BeingWritten, Others, Exists, Files, Folders, Placement, FilesPut, Placed
<1>8. Tidy => Tidy'
  BY <1>1 DEF Tidy, Clear, Others, Exists, Files, Folders
<1> QED BY <1>2, <1>3, <1>4, <1>5, <1>6, <1>7, <1>8 DEF Keeps

LEMMA RemoveBinHere ==
    ASSUME TypeOK, Smooth, Here, RemoveBin
    PROVE  Keeps
<1> USE Fields, RamShape DEF Here, Route, Rewriting, Writing, Deleting, Leaving, Copying, Changed,
           ToHook, OtherGame, Living
<1>1. /\ step = "bin" /\ step' = "suprx" /\ ram' = ram
      /\ UNCHANGED <<dir, games, pboot, config, temp, before>>
      /\ Others(ram.folder, "bin")
      /\ disk'[ram.folder]["bin"] = Absent
  BY RemoveSmoothly DEF RemoveBin, Files
<1>2. Route'
  BY <1>1
<1>3. Placement'
  BY <1>1 DEF Placement, FilesPut, FilesGone, Placed, Others, Exists, Files
<1>4. Text'
  BY <1>1 DEF Text, Hooked, Unhooked
<1>5. Pboots'
  BY <1>1 DEF Pboots
<1>6. Checked'
  BY <1>1 DEF Checked, Others, Exists, Files
<1>7. Versioned => Versioned'
  BY <1>1, <1>3 DEF Versioned, Coherent, BeingWritten, Others, Exists, Files, Folders
<1>8. Tidy => Tidy'
  BY <1>1 DEF Tidy, Clear, Others, Exists, Files, Folders
<1> QED BY <1>2, <1>3, <1>4, <1>5, <1>6, <1>7, <1>8 DEF Keeps

LEMMA RemoveSkprxHere ==
    ASSUME TypeOK, Smooth, Here, RemoveSkprx
    PROVE  Keeps
<1> USE Fields, RamShape DEF Here, Route, Rewriting, Writing, Deleting, Leaving, Copying, Changed,
           ToHook, OtherGame, Living
<1>1. /\ step = "rmskprx" /\ step' = "rmsuprx" /\ ram' = ram
      /\ UNCHANGED <<dir, games, pboot, config, temp, before>>
      /\ Others(ram.folder, "skprx")
      /\ disk'[ram.folder]["skprx"] = Absent
  BY RemoveSmoothly DEF RemoveSkprx, Files
<1>2. Route'
  BY <1>1
<1>3. Placement'
  BY <1>1 DEF Placement, FilesPut, FilesGone, Placed, Others, Exists, Files
<1>4. Text'
  BY <1>1 DEF Text, Hooked, Unhooked
<1>5. Pboots'
  BY <1>1 DEF Pboots
<1>6. Checked'
  BY <1>1 DEF Checked, Others, Exists, Files
<1>7. Versioned => Versioned'
  BY <1>1, <1>3 DEF Versioned, Coherent, BeingWritten, Others, Exists, Files, Folders
<1>8. Tidy => Tidy'
  BY <1>1 DEF Tidy, Clear, Others, Exists, Files, Folders
<1> QED BY <1>2, <1>3, <1>4, <1>5, <1>6, <1>7, <1>8 DEF Keeps

LEMMA RemoveSuprxHere ==
    ASSUME TypeOK, Smooth, Here, RemoveSuprx
    PROVE  Keeps
<1> USE Fields, RamShape DEF Here, Route, Rewriting, Writing, Deleting, Leaving, Copying, Changed,
           ToHook, OtherGame, Living
<1>1. /\ step = "rmsuprx" /\ step' = "size" /\ ram' = ram
      /\ UNCHANGED <<dir, games, pboot, config, temp, before>>
      /\ Others(ram.folder, "suprx")
      /\ disk'[ram.folder]["suprx"] = Absent
  BY RemoveSmoothly DEF RemoveSuprx, Files
<1>2. Route'
  BY <1>1
<1>3. Placement'
  BY <1>1 DEF Placement, FilesPut, FilesGone, Placed, Others, Exists, Files
<1>4. Text'
  BY <1>1 DEF Text, Hooked, Unhooked
<1>5. Pboots'
  BY <1>1 DEF Pboots
<1>6. Checked'
  BY <1>1, NamelessHasNoId DEF Checked, Others, Exists, Files, Text, Unhooked
<1>7. Versioned => Versioned'
  BY <1>1, <1>3 DEF Versioned, Coherent, BeingWritten, Others, Exists, Files, Folders, Checked
<1>8. Tidy => Tidy'
  BY <1>1 DEF Tidy, Clear, Others, Exists, Files, Folders, Checked, Text, Unhooked
<1> QED BY <1>2, <1>3, <1>4, <1>5, <1>6, <1>7, <1>8 DEF Keeps

(* The steps that end the check, and the two deletions of the menu.        *)
LEMMA CheckUpdateHere ==
    ASSUME TypeOK, Smooth, Here, CheckUpdate
    PROVE  Keeps
<1> USE Fields, RamShape DEF Here, Route, Rewriting, Writing, Deleting, Leaving, Copying, Changed,
           ToHook, OtherGame, Living
<1>r. ram \in Rams
  OBVIOUS
<1>1. /\ step = "size" /\ step' = "menu"
      /\ ram' = [ram EXCEPT !.op = "none", !.gameId = IF ram.installed THEN @ ELSE NoId]
      /\ UNCHANGED <<dir, games, pboot, config, temp, before>>
      /\ Others(ram.folder, "update") /\ disk'[ram.folder]["update"] # Torn
  BY RemoveSmoothly, GoSmoothly, InstallerAssumption DEF CheckUpdate, Others, card, Files
<1>2. Route'
  BY <1>1
<1>3. Placement'
  BY <1>1 DEF Placement, FilesPut, FilesGone, Placed, Others, Exists, Files
<1>4. Text'
  BY <1>1 DEF Text, Hooked, Unhooked
<1>5. Pboots'
  BY <1>1 DEF Pboots
<1>6. Checked'
  BY <1>1 DEF Checked, Others, Exists, Files
<1>7. Versioned => Versioned'
  BY <1>1, <1>3 DEF Versioned, Coherent, BeingWritten, Others, Exists, Files, Folders
<1>8. Tidy => Tidy'
  BY <1>1 DEF Tidy, Clear, Others, Exists, Files, Folders, Checked
<1> QED BY <1>2, <1>3, <1>4, <1>5, <1>6, <1>7, <1>8 DEF Keeps

LEMMA DeleteOptionHere ==
    ASSUME TypeOK, Smooth, Here, DeletePbp \/ DeleteFlash
    PROVE  Keeps
<1> USE Fields, RamShape DEF Here, Route, Rewriting, Writing, Deleting, Leaving, Copying, Changed,
           ToHook, OtherGame, Living
<1>1. /\ step = "menu" /\ step' = "menu" /\ ram' = ram
      /\ UNCHANGED <<dir, games, pboot, config, temp, before>>
      /\ \E file \in {"update", "bin"} : Others(ram.folder, file) /\ disk'[ram.folder][file] = Absent
  BY RemoveSmoothly DEF DeletePbp, DeleteFlash, Files
<1>2. Route'
  BY <1>1
<1>3. Placement'
  BY <1>1 DEF Placement, FilesPut, FilesGone, Placed, Others, Exists, Files
<1>4. Text'
  BY <1>1 DEF Text, Hooked, Unhooked
<1>5. Pboots'
  BY <1>1 DEF Pboots
<1>6. Checked'
  BY <1>1, InstallerAssumption DEF Checked, Others, Exists, Files
<1>7. Versioned => Versioned'
  BY <1>1, <1>3 DEF Versioned, Coherent, BeingWritten, Others, Exists, Files, Folders
<1>8. Tidy => Tidy'
  BY <1>1 DEF Tidy, Clear, Others, Exists, Files, Folders
<1> QED BY <1>2, <1>3, <1>4, <1>5, <1>6, <1>7, <1>8 DEF Keeps

(* The steps of the operations that take more than one way.                *)
LEMMA CopyUsbHere ==
    ASSUME TypeOK, Smooth, Here, CopyUsb
    PROVE  Keeps
<1> USE Fields, RamShape DEF Here, Route, Rewriting, Writing, Deleting, Leaving, Copying, Changed,
           ToHook, OtherGame, Living
<1>1. /\ step = "usbdevice" /\ step' = IF ram.op = "install" THEN "pboot" ELSE "version"
      /\ ram' = ram
      /\ UNCHANGED <<dir, games, pboot, config, temp, before>>
      /\ Others(ram.folder, "usbdevice")
      /\ dir[ram.folder] /\ ram.arg \in UsbReleases => disk'[ram.folder]["usbdevice"] = ram.arg
      /\ ram.op = "change" /\ ram.arg \notin UsbReleases => disk'[ram.folder]["usbdevice"] = Absent
  BY PutSmoothly, RemoveSmoothly, GoSmoothly DEF CopyUsb, Others, card, Files
<1>2. Route'
  BY <1>1
<1>3. Placement'
  BY <1>1 DEF Placement, FilesPut, FilesGone, Placed, Others, Exists, Files
<1>4. Text'
  BY <1>1 DEF Text, Hooked, Unhooked
<1>5. Pboots'
  BY <1>1 DEF Pboots
<1>6. Checked'
  BY <1>1 DEF Checked, Others, Exists, Files
<1>7. Versioned => Versioned'
  BY <1>1, <1>3 DEF Versioned, Coherent, BeingWritten, Others, Exists, Files, Folders
<1>8. Tidy => Tidy'
  BY <1>1 DEF Tidy, Clear, Others, Exists, Files, Folders
<1> QED BY <1>2, <1>3, <1>4, <1>5, <1>6, <1>7, <1>8 DEF Keeps

LEMMA CopyPbootHere ==
    ASSUME TypeOK, Smooth, Here, CopyPboot
    PROVE  Keeps
<1> USE Fields, RamShape DEF Here, Route, Rewriting, Writing, Deleting, Leaving, Copying, Changed,
           ToHook, OtherGame, Living
<1>1. /\ step = "pboot"
      /\ step' = IF ram.op = "install" THEN "hook" ELSE IF ram.mode = 0 THEN "unhook" ELSE "dircheck"
      /\ ram' = ram
      /\ UNCHANGED <<dir, disk, games, config, temp, before>>
      /\ ram.id \in games => pboot'[ram.id] = "ours"
      /\ \A game \in Games : game # ram.id => pboot'[game] = pboot[game]
  BY GoSmoothly DEF CopyPboot, TypeOK
<1>2. Route'
  BY <1>1
<1>3. Placement'
  BY <1>1 DEF Placement, FilesPut, FilesGone, Placed, Others, Exists, Files
<1>4. Text'
  BY <1>1 DEF Text, Hooked, Unhooked
<1>5. Pboots'
  BY <1>1 DEF Pboots, TypeOK
<1>6. Checked'
  BY <1>1 DEF Checked, Others, Exists, Files
<1>7. Versioned => Versioned'
  BY <1>1, <1>3 DEF Versioned, Coherent, BeingWritten, Others, Exists, Files, Folders
<1>8. Tidy => Tidy'
  BY <1>1 DEF Tidy, Clear, Others, Exists, Files, Folders
<1> QED BY <1>2, <1>3, <1>4, <1>5, <1>6, <1>7, <1>8 DEF Keeps

LEMMA RemovePbootHere ==
    ASSUME TypeOK, Smooth, Here, RemovePboot
    PROVE  Keeps
<1> USE Fields, RamShape DEF Here, Route, Rewriting, Writing, Deleting, Leaving, Copying, Changed,
           ToHook, OtherGame, Living
<1>1. /\ step = "rmpboot"
      /\ step' = IF ram.op = "uninstall" THEN "unhook" ELSE "pboot"
      /\ ram' = ram
      /\ UNCHANGED <<dir, disk, games, config, temp, before>>
      /\ ram.gameId \in games => pboot'[ram.gameId] = "none"
  BY GoSmoothly DEF RemovePboot, TypeOK
<1>2. Route'
  BY <1>1
<1>3. Placement'
  BY <1>1 DEF Placement, FilesPut, FilesGone, Placed, Others, Exists, Files
<1>4. Text'
  BY <1>1 DEF Text, Hooked, Unhooked
<1>5. Pboots'
  BY <1>1 DEF Pboots
<1>6. Checked'
  BY <1>1 DEF Checked, Others, Exists, Files
<1>7. Versioned => Versioned'
  BY <1>1, <1>3 DEF Versioned, Coherent, BeingWritten, Others, Exists, Files, Folders
<1>8. Tidy => Tidy'
  BY <1>1 DEF Tidy, Clear, Others, Exists, Files, Folders
<1> QED BY <1>2, <1>3, <1>4, <1>5, <1>6, <1>7, <1>8 DEF Keeps

LEMMA GetUpdateHere ==
    ASSUME TypeOK, Smooth, Here, GetUpdate
    PROVE  Keeps
<1> USE Fields, RamShape DEF Here, Route, Rewriting, Writing, Deleting, Leaving, Copying, Changed,
           ToHook, OtherGame, Living
<1>1. /\ step = "update"
      /\ step' = IF ram.op = "change" /\ (ram.mode = 1 \/ Changed) THEN "hook" ELSE "done"
      /\ ram' = ram
      /\ UNCHANGED <<dir, games, pboot, config, temp, before>>
      /\ Others(ram.folder, "update")
  BY PutSmoothly, GoSmoothly DEF GetUpdate, Others, card, Files
<1>2. Route'
  BY <1>1
<1>3. Placement'
  BY <1>1 DEF Placement, FilesPut, FilesGone, Placed, Others, Exists, Files
<1>4. Text'
  BY <1>1 DEF Text, Hooked, Unhooked
<1>5. Pboots'
  BY <1>1 DEF Pboots
<1>6. Checked'
  BY <1>1 DEF Checked, Others, Exists, Files
<1>7. Versioned => Versioned'
  BY <1>1, <1>3 DEF Versioned, Coherent, BeingWritten, Others, Exists, Files, Folders
<1>8. Tidy => Tidy'
  BY <1>1 DEF Tidy, Clear, Others, Exists, Files, Folders
<1> QED BY <1>2, <1>3, <1>4, <1>5, <1>6, <1>7, <1>8 DEF Keeps

LEMMA SaveUpdateHere ==
    ASSUME TypeOK, Smooth, Here, SaveUpdate
    PROVE  Keeps
<1> USE Fields, RamShape DEF Here, Route, Rewriting, Writing, Deleting, Leaving, Copying, Changed,
           ToHook, OtherGame, Living
<1>1. /\ step = "save661" /\ step' = "rmfolder" /\ ram' = ram
      /\ UNCHANGED <<dir, games, pboot, config, temp, before>>
      /\ \A p \in Folders, f \in Files : f # "update" => disk'[p][f] = disk[p][f]
  BY PutSmoothly, GoSmoothly, FolderTyped DEF SaveUpdate, Others, card, Files
<1>2. Route'
  BY <1>1
<1>3. Placement'
  BY <1>1 DEF Placement, FilesPut, FilesGone, Placed, Others, Exists, Files
<1>4. Text'
  BY <1>1 DEF Text, Hooked, Unhooked
<1>5. Pboots'
  BY <1>1 DEF Pboots
<1>6. Checked'
  BY <1>1 DEF Checked, Others, Exists, Files
<1>7. Versioned => Versioned'
  BY <1>1, <1>3 DEF Versioned, Coherent, BeingWritten, Others, Exists, Files, Folders
<1>8. Tidy => Tidy'
  BY <1>1 DEF Tidy, Clear, Others, Exists, Files, Folders
<1> QED BY <1>2, <1>3, <1>4, <1>5, <1>6, <1>7, <1>8 DEF Keeps

LEMMA CheckFolderHere ==
    ASSUME TypeOK, Smooth, Here, CheckFolder
    PROVE  Keeps
<1> USE Fields, RamShape DEF Here, Route, Rewriting, Writing, Deleting, Leaving, Copying, Changed,
           ToHook, OtherGame, Living
<1>1. /\ step = "dircheck" /\ ram' = ram /\ UNCHANGED <<dir, disk, games, pboot, config, temp, before>>
      /\ step' = IF dir[ram.folder] THEN "bin" ELSE "nofolder"
  BY GoSmoothly DEF CheckFolder, card
<1>2. Route'
  BY <1>1 DEF Placement, FilesPut
<1>3. Placement'
  BY <1>1 DEF Placement, FilesPut, FilesGone, Placed, Others, Exists, Files
<1>4. Text'
  BY <1>1 DEF Text, Hooked, Unhooked
<1>5. Pboots'
  BY <1>1 DEF Pboots
<1>6. Checked'
  BY <1>1 DEF Checked, Others, Exists, Files
<1>7. Versioned => Versioned'
  BY <1>1, <1>3 DEF Versioned, Coherent, BeingWritten, Others, Exists, Files, Folders
<1>8. Tidy => Tidy'
  BY <1>1 DEF Tidy, Clear, Others, Exists, Files, Folders
<1> QED BY <1>2, <1>3, <1>4, <1>5, <1>6, <1>7, <1>8 DEF Keeps

LEMMA MakeFolderHere ==
    ASSUME TypeOK, Smooth, Here, MakeFolder
    PROVE  Keeps
<1> USE Fields, RamShape DEF Here, Route, Rewriting, Writing, Deleting, Leaving, Copying, Changed,
           ToHook, OtherGame, Living
<1>1. /\ step = "mkdir" /\ step' = IF ram.op = "install" THEN "suprx" ELSE "unhook"
      /\ ram' = ram /\ UNCHANGED <<disk, games, pboot, config, temp>>
      /\ ram.op = "install" => dir'[ram.folder]
      /\ ram.op # "install" => dir'[Folder(ram.arg)]
  BY GoSmoothly, FolderTyped DEF MakeFolder, TypeOK
<1>2. Route'
  BY <1>1
<1>3. Placement'
  BY <1>1 DEF Placement, FilesPut, FilesGone, Placed, Others, Exists, Files
<1>4. Text'
  BY <1>1 DEF Text, Hooked, Unhooked
<1>5. Pboots'
  BY <1>1 DEF Pboots
<1>6. Checked'
  BY <1>1 DEF Checked, Others, Exists, Files
<1>7. Versioned => Versioned'
  BY <1>1, <1>3 DEF Versioned, Coherent, BeingWritten, Others, Exists, Files, Folders
<1>8. Tidy => Tidy'
  BY <1>1 DEF Tidy, Clear, Others, Exists, Files, Folders
<1> QED BY <1>2, <1>3, <1>4, <1>5, <1>6, <1>7, <1>8 DEF Keeps

LEMMA RemoveFolderHere ==
    ASSUME TypeOK, Smooth, Here, RemoveFolder
    PROVE  Keeps
<1> USE Fields, RamShape DEF Here, Route, Rewriting, Writing, Deleting, Leaving, Copying, Changed,
           ToHook, OtherGame, Living
<1>r. ram \in Rams
  OBVIOUS
<1>1. /\ step = "rmfolder" /\ step' = IF ram.op = "change" /\ ~ Changed THEN "dircheck" ELSE "rmpboot"
      /\ ram' = IF ram.op = "change" THEN [ram EXCEPT !.folder = Folder(ram.arg)] ELSE ram
      /\ UNCHANGED <<games, pboot, config, temp, before>>
      /\ \A p \in Folders : p # ram.folder => disk'[p] = disk[p] /\ dir'[p] = dir[p]
      /\ ~ dir'[ram.folder] /\ \A file \in Files : disk'[ram.folder][file] = Absent
  BY GoSmoothly DEF RemoveFolder, TypeOK
<1>f. Folder(ram.arg) \in Folders
  BY FolderTyped
<1>2. Route'
  BY <1>1
<1>3. Placement'
  BY <1>1, <1>f DEF Folders, Placement, FilesPut, FilesGone, Placed, Others, Exists, Files
<1>4. Text'
  BY <1>1 DEF Text, Hooked, Unhooked
<1>5. Pboots'
  BY <1>1 DEF Pboots
<1>6. Checked'
  BY <1>1 DEF Checked, Others, Exists, Files
<1>7. Versioned => Versioned'
  BY <1>1, <1>3 DEF Versioned, Coherent, BeingWritten, Others, Exists, Files, Folders
<1>8. Tidy => Tidy'
  BY <1>1, <1>f DEF Tidy, Clear, Others, Exists, Files, Folders, Text, Unhooked
<1> QED BY <1>2, <1>3, <1>4, <1>5, <1>6, <1>7, <1>8 DEF Keeps

(* The rewrite: its text is right, then temp.txt has it, then the config.  *)
LEMMA RemoveConfigHere ==
    ASSUME TypeOK, Smooth, Here, RemoveConfig
    PROVE  Keeps
<1> USE Fields, RamShape DEF Here, Route, Rewriting, Writing, Deleting, Leaving, Copying, Changed,
           ToHook, OtherGame, Living
<1>1. /\ step = "unlink" /\ step' = "copy" /\ ram' = ram
      /\ UNCHANGED <<dir, disk, games, pboot, temp, before>>
      /\ config'[ram.tai] = Missing
      /\ \A place \in Places : place # ram.tai => config'[place] = config[place]
  BY GoSmoothly DEF RemoveConfig, TypeOK
<1>2. Route'
  BY <1>1
<1>3. Placement'
  BY <1>1 DEF Placement, FilesPut, FilesGone, Placed, Others, Exists, Files
<1>4. Text'
  BY <1>1 DEF Text, Hooked, Unhooked
<1>5. Pboots'
  BY <1>1 DEF Pboots
<1>6. Checked'
  BY <1>1 DEF Checked, Others, Exists, Files
<1>7. Versioned => Versioned'
  BY <1>1, <1>3 DEF Versioned, Coherent, BeingWritten, Others, Exists, Files, Folders
<1>8. Tidy => Tidy'
  BY <1>1 DEF Tidy, Clear, Others, Exists, Files, Folders, Text, Places
<1> QED BY <1>2, <1>3, <1>4, <1>5, <1>6, <1>7, <1>8 DEF Keeps

LEMMA CopyTempHere ==
    ASSUME TypeOK, Smooth, Here, CopyTemp
    PROVE  Keeps
<1> USE Fields, RamShape DEF Here, Route, Rewriting, Writing, Deleting, Leaving, Copying, Changed,
           ToHook, OtherGame, Living
<1>1. /\ step = "copy" /\ step' = "drop" /\ ram' = ram
      /\ UNCHANGED <<dir, disk, games, pboot, temp, before>>
      /\ config'[ram.tai] = temp
      /\ \A place \in Places : place # ram.tai => config'[place] = config[place]
  BY GoSmoothly DEF CopyTemp, TypeOK
<1>2. Route'
  BY <1>1
<1>3. Placement'
  BY <1>1 DEF Placement, FilesPut, FilesGone, Placed, Others, Exists, Files
<1>4. Text'
  BY <1>1 DEF Text, Hooked, Unhooked
<1>5. Pboots'
  BY <1>1 DEF Pboots
<1>6. Checked'
  BY <1>1 DEF Checked, Others, Exists, Files
<1>7. Versioned => Versioned'
  BY <1>1, <1>3 DEF Versioned, Coherent, BeingWritten, Others, Exists, Files, Folders
<1>8. Tidy => Tidy'
  BY <1>1 DEF Tidy, Clear, Others, Exists, Files, Folders, Text, Places
<1> QED BY <1>2, <1>3, <1>4, <1>5, <1>6, <1>7, <1>8 DEF Keeps

LEMMA DropTempHere ==
    ASSUME TypeOK, Smooth, Here, DropTemp
    PROVE  Keeps
<1> USE Fields, RamShape DEF Here, Route, Rewriting, Writing, Deleting, Leaving, Copying, Changed,
           ToHook, OtherGame, Living
<1>1. /\ step = "drop" /\ step' = AfterRewrite(ram.edit) /\ ram' = ram
      /\ UNCHANGED <<dir, disk, games, pboot, config, before>>
  BY GoSmoothly DEF DropTemp
<1>2. Route'
  BY <1>1 DEF AfterRewrite, Exists
<1>3. Placement'
  BY <1>1 DEF Placement, FilesPut, FilesGone, Placed, Others, Exists, Files, AfterRewrite
<1>4. Text'
  BY <1>1 DEF Text, Hooked, Unhooked, AfterRewrite, Exists
<1>5. Pboots'
  BY <1>1 DEF Pboots, AfterRewrite, Exists
<1>6. Checked'
  BY <1>1, NamelessHasNoId DEF Checked, Exists, AfterRewrite, Text, Unhooked
<1>7. Versioned => Versioned'
  BY <1>1, <1>3 DEF Versioned, Coherent, BeingWritten, Others, Exists, Files, Folders, AfterRewrite
<1>8. Tidy => Tidy'
  BY <1>1 DEF Tidy, Clear, Others, Exists, Files, Folders, AfterRewrite, Text, Unhooked
<1> QED BY <1>2, <1>3, <1>4, <1>5, <1>6, <1>7, <1>8 DEF Keeps

LEMMA HookHere ==
    ASSUME TypeOK, Smooth, Here, Texts, Hook
    PROVE  Keeps
<1> USE Fields, RamShape DEF Here, Route, Rewriting, Writing, Deleting, Leaving, Copying, Changed,
           ToHook, OtherGame, Living
<1>r. ram \in Rams
  OBVIOUS
<1>0. config[ram.tai] # Missing
  BY DEF Hook, Text
<1> DEFINE text == WriteLines(LinesOf(config[ram.tai]), ram.folder, ram.id)
<1>e. /\ text \in ConfigFiles /\ GetId(text, ram.folder) = ram.id
      /\ ~ Names(config[ram.tai], ram.folder) => HookedTo(text, ram.folder) = {ram.id}
      /\ \A other \in Folders : other # ram.folder /\ Names(text, other) => Names(config[ram.tai], other)
  <2>1. Ended(LinesOf(config[ram.tai]))
    BY LinesSound DEF Texts, Sound
  <2>2. LinesOf(config[ram.tai]) = config[ram.tai]
    BY <1>0 DEF LinesOf
  <2>3. ~ Names(config[ram.tai], ram.folder) => HookedTo(text, ram.folder) = {ram.id}
    BY <2>1, <2>2, WrittenAlone
  <2> QED BY <1>0, <2>1, <2>3, WriteTyped, WrittenIsRead, WriteNames DEF LinesOf
<1> HIDE DEF text
<1>1. /\ step = "hook" /\ step' = "unlink" /\ ram' = [ram EXCEPT !.edit = "write"]
      /\ UNCHANGED <<dir, disk, games, pboot, config, before>>
      /\ temp' \in ConfigFiles /\ GetId(temp', ram.folder) = ram.id
      /\ ~ Names(config[ram.tai], ram.folder) => HookedTo(temp', ram.folder) = {ram.id}
      /\ \A other \in Folders : other # ram.folder /\ Names(temp', other) => Names(config[ram.tai], other)
  <2>1. step = "hook" /\ EditTo(text, "write")
    BY DEF Hook, text
  <2> QED BY <1>0, <1>e, <2>1, GoSmoothly DEF EditTo
<1>2. Route'
  BY <1>1
<1>3. Placement'
  BY <1>1 DEF Placement, FilesPut, FilesGone, Placed, Others, Exists, Files
<1>m. Missing \notin ConfigFiles
  BY MissingIsNoConfig
<1>4. Text'
  BY <1>1, <1>m DEF Text, Hooked, Unhooked
<1>5. Pboots'
  BY <1>1 DEF Pboots
<1>6. Checked'
  BY <1>1 DEF Checked, Others, Exists, Files
<1>7. Versioned => Versioned'
  BY <1>1, <1>3 DEF Versioned, Coherent, BeingWritten, Others, Exists, Files, Folders
<1>8. Tidy => Tidy'
  BY <1>1, <1>m DEF Tidy, Clear, Others, Exists, Files, Folders, Text
<1> QED BY <1>2, <1>3, <1>4, <1>5, <1>6, <1>7, <1>8 DEF Keeps

LEMMA UnhookHere ==
    ASSUME TypeOK, Smooth, Here, Unhook
    PROVE  Keeps
<1> USE Fields, RamShape DEF Here, Route, Rewriting, Writing, Deleting, Leaving, Copying, Changed,
           ToHook, OtherGame, Living
<1>r. ram \in Rams
  OBVIOUS
<1>0. config[ram.tai] # Missing
  BY DEF Unhook, Text
<1> DEFINE text == DeleteLines(LinesOf(config[ram.tai]), ram.folder, ram.gameId)
<1>e. /\ text \in ConfigFiles /\ ~ Names(text, ram.folder)
      /\ \A other : Names(text, other) => Names(config[ram.tai], other)
  BY <1>0, DeleteTyped, DeletedIsNameless, DeleteNames DEF LinesOf
<1> HIDE DEF text
<1>1. /\ step = "unhook" /\ step' = "unlink" /\ ram' = [ram EXCEPT !.edit = "delete"]
      /\ UNCHANGED <<dir, disk, games, pboot, config, before>>
      /\ temp' \in ConfigFiles /\ ~ Names(temp', ram.folder)
      /\ \A other : Names(temp', other) => Names(config[ram.tai], other)
  <2>1. step = "unhook" /\ EditTo(text, "delete")
    BY DEF Unhook, text
  <2> QED BY <1>0, <1>e, <2>1, GoSmoothly DEF EditTo
<1>2. Route'
  BY <1>1
<1>3. Placement'
  BY <1>1 DEF Placement, FilesPut, FilesGone, Placed, Others, Exists, Files
<1>m. Missing \notin ConfigFiles
  BY MissingIsNoConfig
<1>4. Text'
  BY <1>1, <1>m DEF Text, Hooked, Unhooked
<1>5. Pboots'
  BY <1>1 DEF Pboots
<1>6. Checked'
  BY <1>1 DEF Checked, Others, Exists, Files
<1>7. Versioned => Versioned'
  BY <1>1, <1>3 DEF Versioned, Coherent, BeingWritten, Others, Exists, Files, Folders
<1>8. Tidy => Tidy'
  BY <1>1, <1>m DEF Tidy, Clear, Others, Exists, Files, Folders, Text
<1> QED BY <1>2, <1>3, <1>4, <1>5, <1>6, <1>7, <1>8 DEF Keeps

(* What the user chooses, and does beside the installer.                   *)
LEMMA InstallHere ==
    ASSUME TypeOK, Smooth, Here, NEW release \in Releases, NEW game \in Games, Install(release, game)
    PROVE  Keeps
<1> USE Fields, RamShape DEF Here, Route, Rewriting, Writing, Deleting, Leaving, Copying, Changed,
           ToHook, OtherGame, Living
<1>r. ram \in Rams
  OBVIOUS
<1>1. /\ step = "menu" /\ ~ ram.installed /\ step' = "mkdir"
      /\ UNCHANGED <<dir, disk, games, pboot, config, temp, before>>
      /\ ram' = [ram EXCEPT !.op = "install", !.arg = release, !.id = game,
                    !.folder = IF release \in OldReleases THEN OldFolder ELSE @]
  BY GoSmoothly DEF Install, card
<1>2. Route'
  BY <1>1
<1>3. Placement'
  BY <1>1 DEF Placement, FilesPut, FilesGone, Placed, Others, Exists, Files
<1>4. Text'
  BY <1>1 DEF Text, Hooked, Unhooked
<1>5. Pboots'
  BY <1>1 DEF Pboots
<1>6. Checked'
  BY <1>1 DEF Checked, Others, Exists, Files
<1>7. Versioned => Versioned'
  BY <1>1, <1>3 DEF Versioned, Coherent, BeingWritten, Others, Exists, Files, Folders
<1>f. OldFolder \in Folders
  BY DEF Folders
<1>8. Tidy => Tidy'
  BY <1>1, <1>f DEF Tidy, Clear, Others, Exists, Files, Folders
<1> QED BY <1>2, <1>3, <1>4, <1>5, <1>6, <1>7, <1>8 DEF Keeps

LEMMA ChangeHere ==
    ASSUME TypeOK, Smooth, Here, FilesInFolders, NEW release \in Releases, NEW game \in Games, Change(release, game)
    PROVE  Keeps
<1> USE Fields, RamShape DEF Here, Route, Rewriting, Writing, Deleting, Leaving, Copying, Changed,
           ToHook, OtherGame, Living
<1>r. ram \in Rams
  OBVIOUS
<1>1. /\ step = "menu" /\ ram.installed /\ UNCHANGED <<dir, disk, games, pboot, config, temp, before>>
      /\ ram'.op = "change" /\ ram'.arg = release /\ ram'.id = game /\ ram'.folder = ram.folder
      /\ ram'.tai = ram.tai /\ ram'.gameId = ram.gameId /\ ram'.installed = ram.installed
      /\ ram'.mode = IF Folder(release) = ram.folder THEN 0 ELSE 1
      /\ step' = IF Folder(release) # ram.folder THEN "mkdir"
               ELSE IF ram.gameId # game THEN "rmpboot" ELSE "dircheck"
  <2> DEFINE mode == IF Folder(release) = ram.folder THEN 0 ELSE 1
             r == [ram EXCEPT !.op = "change", !.arg = release, !.id = game, !.mode = mode]
             next == IF mode = 1 THEN "mkdir" ELSE IF ram.gameId # game THEN "rmpboot" ELSE "dircheck"
  <2>1. step = "menu" /\ ram.installed /\ Go(next, r) /\ UNCHANGED card
    BY DEF Change
  <2>2. step' = next /\ ram' = r /\ before' = before
    BY <2>1, GoSmoothly
  <2>3. mode = 1 <=> Folder(release) # ram.folder
    OBVIOUS
  <2>4. /\ r.op = "change" /\ r.arg = release /\ r.id = game /\ r.folder = ram.folder /\ r.tai = ram.tai
        /\ r.gameId = ram.gameId /\ r.installed = ram.installed /\ r.mode = mode
    BY <1>r DEF Rams
  <2> QED BY <2>1, <2>2, <2>3, <2>4 DEF card
<1>2. Route'
  BY <1>1
<1>3. Placement'
  BY <1>1 DEF FilesInFolders, Checked, Placement, FilesPut, FilesGone, Placed, Others, Exists, Files
<1>4. Text'
  BY <1>1 DEF Text, Hooked, Unhooked, Checked
<1>5. Pboots'
  BY <1>1 DEF Pboots
<1>6. Checked'
  BY <1>1 DEF Checked, Others, Exists, Files
<1>7. Versioned => Versioned'
  BY <1>1, <1>3 DEF Versioned, Coherent, BeingWritten, Others, Exists, Files, Folders
<1>8. Tidy => Tidy'
  BY <1>1 DEF Tidy, Clear, Others, Exists, Files, Folders, Checked
<1> QED BY <1>2, <1>3, <1>4, <1>5, <1>6, <1>7, <1>8 DEF Keeps

LEMMA UninstallHere ==
    ASSUME TypeOK, Smooth, Here, Uninstall
    PROVE  Keeps
<1> USE Fields, RamShape DEF Here, Route, Rewriting, Writing, Deleting, Leaving, Copying, Changed,
           ToHook, OtherGame, Living
<1>r. ram \in Rams
  OBVIOUS
<1>1. /\ step = "menu" /\ step' = "rmfolder" /\ UNCHANGED <<dir, disk, games, pboot, config, temp, before>>
      /\ ram' = [ram EXCEPT !.op = "uninstall", !.id = ram.gameId]
  BY GoSmoothly DEF Uninstall, card
<1>2. Route'
  BY <1>1
<1>3. Placement'
  BY <1>1 DEF Placement, FilesPut, FilesGone, Placed, Others, Exists, Files
<1>4. Text'
  BY <1>1 DEF Text, Hooked, Unhooked
<1>5. Pboots'
  BY <1>1 DEF Pboots
<1>6. Checked'
  BY <1>1 DEF Checked, Others, Exists, Files
<1>7. Versioned => Versioned'
  BY <1>1, <1>3 DEF Versioned, Coherent, BeingWritten, Others, Exists, Files, Folders
<1>8. Tidy => Tidy'
  BY <1>1 DEF Tidy, Clear, Others, Exists, Files, Folders
<1> QED BY <1>2, <1>3, <1>4, <1>5, <1>6, <1>7, <1>8 DEF Keeps

LEMMA DeleteGameHere ==
    ASSUME TypeOK, Smooth, Here, NEW game \in Games, DeleteGame(game)
    PROVE  Keeps
<1> USE Fields, RamShape DEF Here, Route, Rewriting, Writing, Deleting, Leaving, Copying, Changed,
           ToHook, OtherGame, Living
<1>1. /\ step = "menu" /\ step' = "menu" /\ ram' = ram
      /\ UNCHANGED <<dir, disk, config, temp, before>>
  BY DEF DeleteGame, Smooth, history
<1>2. Route'
  BY <1>1
<1>3. Placement'
  BY <1>1 DEF Placement, FilesPut, FilesGone, Placed, Others, Exists, Files
<1>4. Text'
  BY <1>1 DEF Text, Hooked, Unhooked
<1>5. Pboots'
  BY <1>1 DEF Pboots
<1>6. Checked'
  BY <1>1 DEF Checked, Others, Exists, Files
<1>7. Versioned => Versioned'
  BY <1>1, <1>3 DEF Versioned, Coherent, BeingWritten, Others, Exists, Files, Folders
<1>8. Tidy => Tidy'
  BY <1>1 DEF Tidy, Clear, Others, Exists, Files, Folders
<1> QED BY <1>2, <1>3, <1>4, <1>5, <1>6, <1>7, <1>8 DEF Keeps

(* What the start-up check finds is what it goes on with.                  *)
LEMMA LaunchHere ==
    ASSUME TypeOK, Launch
    PROVE  Keeps
<1> DEFINE unhook == FoundId # NoId /\ ~ Works
<1>1. StartCheck(FoundVersion, Works, unhook)
  BY DEF Launch
<1>2. /\ ram'.op = "check" /\ ram'.tai = FoundTai /\ ram'.folder = FoundFolder
      /\ ram'.version = disk[FoundFolder]["version"] /\ ram'.installed = Works
      /\ ram'.gameId = FoundId
      /\ step = "off" /\ step' = IF unhook THEN "unhook" ELSE "size"
      /\ UNCHANGED <<dir, disk, games, pboot, config, temp, before>>
      /\ config[FoundTai] # Missing
  BY <1>1 DEF StartCheck, Fresh, FoundVersion, card
<1>3. Works <=> Exists(FoundFolder, "skprx") /\ FoundId \in Living
  BY DEF Works
<1>4. FoundId = GetId(config[FoundTai], FoundFolder)
  BY DEF FoundId
<1> HIDE DEF unhook
<1>5. step' = "size" => Works \/ FoundId = NoId
  BY <1>2 DEF unhook
<1>6. step' = "unhook" => ~ Works
  BY <1>2 DEF unhook
<1>s. step' \in {"unhook", "size"}
  BY <1>2
<1>w. Works \in BOOLEAN
  BY DEF Works
<1>7. Route'
  BY <1>2, <1>6, <1>s DEF Route, Rewriting, Writing, Deleting, Leaving, Copying, Changed,
           ToHook, OtherGame, Living
<1>8. Placement' /\ Pboots'
  BY <1>2 DEF Placement, Pboots
<1>9. Text'
  BY <1>2, <1>s DEF Text, Rewriting, Writing, Deleting, OtherGame
<1>10. Checked'
  BY <1>2, <1>3, <1>4, <1>5, <1>s, <1>w DEF Checked, Exists, Living
<1>11. Versioned => Versioned'
  BY <1>2 DEF Versioned, Coherent, BeingWritten, Rewriting, Exists
<1>12. ASSUME Tidy PROVE Tidy'
  <2>1. Idle(FoundFolder, config[FoundTai])
    BY <1>2, <1>12 DEF Tidy
  <2>2. ram'.tai = "ur0" => config["ux0"] = Missing
    BY <1>2 DEF FoundTai
  <2>3. FoundFolder \in Folders
    BY DEF FoundFolder, Folders
  <2>4. Works' <=> Works
    BY <1>2 DEF Works, Exists, FoundFolder, FoundId, FoundTai, Living
  <2>5. Living' = Living
    BY <1>2 DEF Living
  <2> QED BY <1>2, <1>3, <1>4, <1>5, <1>6, <1>s, <1>w, <2>1, <2>2, <2>5 DEF Tidy, Idle, Clear, Exists
<1> QED BY <1>7, <1>8, <1>9, <1>10, <1>11, <1>12 DEF Keeps, Here

(* A run only becomes clean by starting.                                   *)
LEMMA CleanBefore ==
    ASSUME [Next]_vars, Smooth, ~ Launch
    PROVE  clean /\ step # "off"
<1>g. (\E next, r : Go(next, r) \/ GoWrong(next, r)) => clean
  BY GoSmoothly
<1>1. CASE Check
  <2>1. step # "off"
    BY <1>1 DEF Check, RemoveSkprx, RemoveSuprx, CheckUpdate
  <2>2. clean
    BY <1>1, <1>g DEF Check, RemoveSkprx, RemoveSuprx, CheckUpdate, RemoveFile
  <2> QED BY <2>1, <2>2
<1>2. CASE Rewrite
  <2>1. step # "off"
    BY <1>2 DEF Rewrite, Hook, Unhook, RemoveConfig, CopyTemp, DropTemp
  <2>2. clean
    BY <1>2, <1>g DEF Rewrite, Hook, Unhook, RemoveConfig, CopyTemp, DropTemp, EditTo
  <2> QED BY <2>1, <2>2
<1>3. CASE Operate
  <2>1. step # "off"
    BY <1>3 DEF Operate, MakeFolder, CopySuprx, CopySkprx, CopyUsb, CopyPboot, RemovePboot,
          WriteVersion, GetUpdate, SaveUpdate, RemoveFolder, CheckFolder, RemoveBin
  <2>2. clean
    BY <1>3, <1>g DEF Operate, MakeFolder, CopySuprx, CopySkprx, CopyUsb, CopyPboot, RemovePboot,
          WriteVersion, GetUpdate, SaveUpdate, RemoveFolder, CheckFolder, RemoveBin, PutFile, RemoveFile
  <2> QED BY <2>1, <2>2
<1>4. CASE Choose
  <2>1. step # "off"
    BY <1>4 DEF Choose, Install, Change, Uninstall, DeletePbp, DeleteFlash
  <2>2. clean
    BY <1>4, <1>g DEF Choose, Install, Change, Uninstall, DeletePbp, DeleteFlash, RemoveFile
  <2> QED BY <2>1, <2>2
<1>5. CASE Quit \/ PowerLoss
  BY <1>5 DEF Quit, PowerLoss, Go, Smooth
<1>6. CASE World \/ Refuse \/ UNCHANGED vars
  <2>1. step' = step /\ clean' = clean
    BY <1>6 DEF World, DeleteGame, RunAdrenaline, Refuse, vars, history
  <2> QED BY <2>1 DEF Smooth
<1> QED BY <1>1, <1>2, <1>3, <1>4, <1>5, <1>6 DEF Next

(* Every step of a smooth run keeps what is claimed of it.                 *)
LEMMA StepHere ==
    ASSUME TypeOK, Texts, FilesInFolders, Here, Smooth, step # "off", [Next]_vars, ~ Launch
    PROVE  Keeps
<1>1. CASE Check
  BY <1>1, RemoveSkprxHere, RemoveSuprxHere, CheckUpdateHere DEF Check
<1>2. CASE Rewrite
  BY <1>2, HookHere, UnhookHere, RemoveConfigHere, CopyTempHere, DropTempHere DEF Rewrite
<1>3. CASE Operate
  BY <1>3, MakeFolderHere, CopySuprxHere, CopySkprxHere, CopyUsbHere, CopyPbootHere, RemovePbootHere,
     WriteVersionHere, GetUpdateHere, SaveUpdateHere, RemoveFolderHere, CheckFolderHere, RemoveBinHere
     DEF Operate
<1>4. CASE Choose
  BY <1>4, InstallHere, ChangeHere, UninstallHere, DeleteOptionHere DEF Choose
<1>5. CASE Quit \/ PowerLoss \/ Refuse
  BY <1>5 DEF Quit, PowerLoss, Refuse, Go, Smooth
<1>6. CASE World
  BY <1>6, DeleteGameHere DEF World, RunAdrenaline
<1>7. CASE UNCHANGED vars
  <2>1. UNCHANGED <<dir, disk, games, pboot, config, temp, step, ram, before>>
    BY <1>7 DEF vars, card, history
  <2>2. Route' /\ Placement' /\ Text' /\ Pboots' /\ Checked'
    BY <2>1 DEF Here, Route, Placement, Text, Pboots, Checked, Rewriting, Writing, Deleting, Leaving,
          Copying, Changed, FilesPut, FilesGone, Placed, Exists, Hooked, Unhooked, OtherGame, ToHook
  <2>3. Versioned => Versioned'
    BY <2>1 DEF Versioned, Coherent, BeingWritten, Rewriting, Exists
  <2>4. Tidy => Tidy'
    BY <2>1 DEF Tidy, Idle, Clear, Exists, FoundFolder, FoundTai, Living, ToHook, Copying
  <2> QED BY <2>2, <2>3, <2>4 DEF Keeps, Here
<1> QED BY <1>1, <1>2, <1>3, <1>4, <1>5, <1>6, <1>7 DEF Next

(* The files of the plugins and of the version stay as they are when the   *)
(* program ends and while it does not run.                                 *)
LEMMA IdleVersioned ==
    ASSUME TypeOK, Versioned, Quit \/ World
    PROVE  Versioned'
<1>1. CASE Quit
  <2>1. UNCHANGED disk /\ step' = "off" /\ step \in {"menu", "done", "nofolder"}
    BY <1>1 DEF Quit, Go, card
  <2> QED BY <2>1 DEF Versioned, Coherent, BeingWritten, Rewriting, Exists
<1>2. ASSUME NEW game \in Games, DeleteGame(game) PROVE Versioned'
  BY <1>2 DEF DeleteGame, Versioned, Coherent, BeingWritten, Rewriting, Exists
<1>3. ASSUME NEW path \in Folders, RunAdrenaline(path) PROVE Versioned'
  <2>1. \A p \in Folders, f \in Files : f # "bin" => disk'[p][f] = disk[p][f]
    BY <1>3 DEF RunAdrenaline, TypeOK
  <2>2. step' = step /\ ram' = ram
    BY <1>3 DEF RunAdrenaline
  <2> QED BY <2>1, <2>2 DEF Versioned, Coherent, BeingWritten, Rewriting, Exists, Files
<1> QED BY <1>1, <1>2, <1>3 DEF World

(* An operation leaves one folder in use, or none; so does the check.      *)
LEMMA QuitTidy ==
    ASSUME TypeOK, IInv, Here, Tidy, Quit
    PROVE  Tidy'
<1> USE Fields, RamShape
<1> DEFINE c == config[ram.tai]
<1>1. /\ step \in {"menu", "done", "nofolder"} /\ step' = "off" /\ ram' = Fresh
      /\ UNCHANGED <<dir, disk, games, pboot, config, temp>>
  BY DEF Quit, Go, card
<1>2. FoundTai = ram.tai
  BY <1>1 DEF Tidy, Here, Text, FoundTai, Places
<1>3. \A other \in Folders : other # ram.folder => Clear(other, c)
  BY <1>1 DEF Tidy, Clear
<1> DEFINE used == Exists(ram.folder, "skprx") /\ Names(c, ram.folder) /\ GetId(c, ram.folder) # NoId
<1>4. Clear(ram.folder, c) \/ used
  <2>1. ram.folder \in Folders /\ (GetId(c, ram.folder) # NoId => Names(c, ram.folder))
    BY EntryHasLine DEF Names
  <2>2. CASE step = "menu"
    <3>1. ram.op = "none" /\ (ram.installed => ram.gameId # NoId)
      BY <2>2 DEF Here, Route, IInv, OpInv, GameNamed
    <3> QED BY <2>1, <2>2, <3>1 DEF Here, Checked, Tidy
  <2>3. CASE step = "done" /\ ram.op \in {"install", "change"}
    <3>1. ram.arg \in Releases /\ Absent \notin Releases /\ NoId \notin Games
      BY InstallerAssumption
    <3>2. disk[ram.folder]["skprx"] = ram.arg
      BY <2>3 DEF Here, Placement, FilesPut, Placed
    <3>3. GetId(c, ram.folder) = ram.id /\ ram.id \in Games
      BY <2>3 DEF Here, Route, Text, Hooked
    <3> QED BY <2>1, <3>1, <3>2, <3>3 DEF Exists
  <2>4. CASE step = "done" /\ ram.op = "uninstall"
    BY <2>4 DEF Here, Placement, FilesGone, Text, Unhooked, Clear, Files
  <2> QED BY <1>1, <2>2, <2>3, <2>4 DEF Here, Route, Deleting, Rewriting
<1>5. Idle(FoundFolder, c)
  <2>1. CASE used
    BY <1>3, <2>1 DEF Idle, Clear, FoundFolder, Folders
  <2>2. CASE Clear(ram.folder, c)
    BY <1>3, <2>2 DEF Idle, Clear, FoundFolder, Folders
  <2> QED BY <1>4, <2>1, <2>2
<1>6. Idle(FoundFolder, config[FoundTai])'
  BY <1>1, <1>2, <1>5 DEF Idle, Clear, Exists, FoundFolder, FoundTai
<1> QED BY <1>1, <1>6 DEF Tidy, Fresh

LEMMA WorldTidy ==
    ASSUME TypeOK, Tidy, World
    PROVE  Tidy'
<1>1. ASSUME NEW game \in Games, DeleteGame(game) PROVE Tidy'
  <2>1. Living' \subseteq Living /\ UNCHANGED <<disk, config, temp, step, ram>>
    BY <1>1 DEF DeleteGame, Living, history
  <2> QED BY <2>1 DEF Tidy, Idle, Clear, Exists, FoundFolder, FoundTai, ToHook, Copying
<1>2. ASSUME NEW path \in Folders, RunAdrenaline(path) PROVE Tidy'
  <2>1. \A p \in Folders, f \in Files : f # "bin" => disk'[p][f] = disk[p][f]
    BY <1>2 DEF RunAdrenaline, TypeOK
  <2>2. step = "off" /\ Living' = Living /\ UNCHANGED <<config, temp, step, ram>>
    BY <1>2 DEF RunAdrenaline, Living, history
  <2>3. \A p \in Folders : Exists(p, "skprx")' <=> Exists(p, "skprx")
    BY <2>1 DEF Exists, Files
  <2>4. FoundFolder' = FoundFolder /\ FoundTai' = FoundTai /\ FoundFolder \in Folders
    BY <2>2, <2>3 DEF FoundFolder, FoundTai, Folders
  <2> QED BY <2>2, <2>3, <2>4 DEF Tidy, Idle, Clear, ToHook, Copying
<1> QED BY <1>1, <1>2 DEF World

(* Until something goes wrong a rewrite finds no line of the folder where  *)
(* it writes its own, and so leaves the plugin one section.                *)
LEMMA NoFileIsNameless == \A path : ~ Names(Missing, path)
BY DEF Names, Missing, IsPlugin

LEMMA SinglesKept ==
    ASSUME TypeOK, Texts, Here, Tidy, Singles, Smooth, Rewrite
    PROVE  Singles'
<1> USE Fields, RamShape
<1> DEFINE c == config[ram.tai]
<1>1. SUFFICES \A path \in Folders :
                 Single(temp', path) /\ \A place \in Places : Single(config'[place], path)
  BY DEF Singles, Single
<1>e. step \in {"hook", "unhook"} =>
        c \in ConfigFiles /\ LinesOf(c) = c /\ Ended(c)
  BY DEF Here, Text, LinesOf, Texts, Sound
<1>o. step \in {"hook", "unhook"} => \A other \in Folders : other # ram.folder => ~ Names(c, other)
  BY DEF Tidy
<1>2. CASE Hook
  <2>1. temp' = WriteLines(c, ram.folder, ram.id) /\ config' = config
    BY <1>2, <1>e, GoSmoothly DEF Hook, EditTo, Here, Text
  <2>2. ~ Names(c, ram.folder)
    BY <1>2 DEF Hook, Here, Route, Text, Tidy, OtherGame, ToHook, Unhooked, Writing, Deleting,
          Rewriting, Copying
  <2>3. Single(temp', ram.folder)
    BY <1>2, <1>e, <2>1, <2>2, WrittenAlone, WrittenIsRead DEF Hook, Single
  <2>4. \A other \in Folders : other # ram.folder => Single(temp', other)
    BY <1>2, <1>o, <2>1, WriteNames, NamelessIsSingle DEF Hook
  <2> QED BY <2>1, <2>3, <2>4 DEF Singles
<1>3. CASE Unhook
  <2>1. temp' = DeleteLines(c, ram.folder, ram.gameId) /\ config' = config
    BY <1>3, <1>e, GoSmoothly DEF Unhook, EditTo, Here, Text
  <2>2. \A path \in Folders : ~ Names(temp', path)
    BY <1>3, <1>o, <2>1, DeleteNames, DeletedIsNameless DEF Unhook
  <2> QED BY <2>1, <2>2, NamelessIsSingle DEF Singles
<1>4. CASE RemoveConfig
  <2>1. temp' = temp /\ \A place \in Places : config'[place] \in {config[place], Missing}
    BY <1>4 DEF RemoveConfig, TypeOK
  <2> QED BY <2>1, NoFileIsNameless, NamelessIsSingle DEF Singles
<1>5. CASE CopyTemp
  <2>1. temp' = temp /\ config' = [config EXCEPT ![ram.tai] = temp]
    BY <1>5, GoSmoothly DEF CopyTemp
  <2>2. \A place \in Places : config'[place] \in {config[place], temp}
    BY <2>1 DEF TypeOK
  <2> QED BY <2>1, <2>2 DEF Singles
<1>6. CASE DropTemp
  <2>1. config' = config /\ temp' \in {temp, Missing}
    BY <1>6 DEF DropTemp
  <2> QED BY <2>1, NoFileIsNameless, NamelessIsSingle DEF Singles
<1> QED BY <1>2, <1>3, <1>4, <1>5, <1>6 DEF Rewrite

(* Nothing lies in a folder that is not there.                             *)
LEMMA StepFiles == TypeOK /\ FilesInFolders /\ [Next]_vars => FilesInFolders'
<1> SUFFICES ASSUME TypeOK, FilesInFolders, [Next]_vars PROVE FilesInFolders'
  OBVIOUS
<1> USE Fields
<1>p. ASSUME NEW path \in Folders, NEW file, NEW content, NEW next, NEW r,
             PutFile(path, file, content, next, r)
      PROVE  FilesInFolders'
  <2>1. dir' = dir
    BY <1>p DEF PutFile
  <2>2. \A other \in Folders : ~ dir[other] => disk'[other] = disk[other]
    BY <1>p DEF PutFile, TypeOK
  <2> QED BY <2>1, <2>2 DEF FilesInFolders, Exists
<1>r. ASSUME NEW path \in Folders, NEW file, NEW next, NEW r, RemoveFile(path, file, next, r)
      PROVE  FilesInFolders'
  <2>1. dir' = dir
    BY <1>r DEF RemoveFile
  <2>2. \A other \in Folders, f \in Files : disk'[other][f] \in {disk[other][f], Absent}
    BY <1>r DEF RemoveFile, TypeOK
  <2> QED BY <2>1, <2>2 DEF FilesInFolders, Exists
<1>k. UNCHANGED <<dir, disk>> => FilesInFolders'
  BY DEF FilesInFolders, Exists
<1>1. CASE Check
  <2>1. CASE CheckUpdate
    <3>1. CASE /\ dir' = dir
               /\ disk' = [disk EXCEPT ![ram.folder]["update"] = Absent]
      <4>1. \A other \in Folders, f \in Files : disk'[other][f] \in {disk[other][f], Absent}
        BY <3>1 DEF TypeOK
      <4> QED BY <3>1, <4>1 DEF FilesInFolders, Exists
    <3> QED BY <2>1, <3>1, <1>r, <1>k DEF CheckUpdate, card, Files
  <2> QED BY <1>1, <1>r, <1>k, <2>1 DEF Check, Launch, StartCheck, RemoveSkprx, RemoveSuprx, card, Files
<1>2. CASE Rewrite
  BY <1>2, <1>k DEF Rewrite, Hook, Unhook, RemoveConfig, CopyTemp, DropTemp, EditTo
<1>3. CASE Operate
  <2>1. CASE CopySuprx \/ CopySkprx \/ WriteVersion \/ GetUpdate \/ SaveUpdate
    BY <2>1, <1>p, <1>k, FolderTyped
       DEF CopySuprx, CopySkprx, WriteVersion, GetUpdate, SaveUpdate, card
  <2>2. CASE CopyUsb \/ RemoveBin \/ CopyPboot \/ RemovePboot \/ CheckFolder
    BY <2>2, <1>p, <1>r, <1>k DEF CopyUsb, RemoveBin, CopyPboot, RemovePboot, CheckFolder, card
  <2>3. CASE MakeFolder
    <3>1. disk' = disk /\ \A path \in Folders : dir[path] => dir'[path]
      BY <2>3 DEF MakeFolder, TypeOK
    <3> QED BY <3>1 DEF FilesInFolders, Exists
  <2>4. CASE RemoveFolder
    <3>1. \A path \in Folders : path # ram.folder => disk'[path] = disk[path] /\ (dir[path] => dir'[path])
      BY <2>4 DEF RemoveFolder, TypeOK
    <3>2. (\A file \in Files : disk'[ram.folder][file] = Absent) \/ dir'[ram.folder]
      BY <2>4 DEF RemoveFolder, TypeOK
    <3> QED BY <3>1, <3>2 DEF FilesInFolders, Exists
  <2> QED BY <1>3, <2>1, <2>2, <2>3, <2>4 DEF Operate
<1>4. CASE Choose
  BY <1>4, <1>r, <1>k DEF Choose, Install, Change, Uninstall, DeletePbp, DeleteFlash, card
<1>5. CASE Quit \/ PowerLoss \/ Refuse \/ UNCHANGED vars
  BY <1>5, <1>k DEF Quit, PowerLoss, Refuse, vars, card
<1>6. ASSUME NEW game \in Games, DeleteGame(game) PROVE FilesInFolders'
  BY <1>6, <1>k DEF DeleteGame
<1>7. ASSUME NEW path \in Folders, RunAdrenaline(path) PROVE FilesInFolders'
  <2>1. dir[path]
    BY <1>7, InstallerAssumption DEF RunAdrenaline, FilesInFolders, Exists, Files
  <2>2. dir' = dir /\ \A other \in Folders : other # path => disk'[other] = disk[other]
    BY <1>7 DEF RunAdrenaline, TypeOK
  <2> QED BY <2>1, <2>2 DEF FilesInFolders, Exists
<1> QED BY <1>1, <1>2, <1>3, <1>4, <1>5, <1>6, <1>7 DEF Next, World

(* Without a fault nothing has gone wrong.                                 *)
LEMMA FaultsBefore ==
    ASSUME TypeOK, [Next]_vars, faults' = 0
    PROVE  /\ faults = 0 /\ (clean => clean')
           /\ step' # "off" \/ Quit \/ World \/ Refuse \/ UNCHANGED vars
<1>f. faults \in Nat
  BY InstallerAssumption DEF TypeOK
<1>g. ASSUME NEW next, NEW r, next # "off", Go(next, r) \/ GoWrong(next, r)
      PROVE  faults = 0 /\ clean' = clean /\ step' # "off"
  BY <1>f, <1>g DEF Go, GoWrong, history
<1>1. CASE Check
  <2>1. CASE Launch
    BY <2>1 DEF Launch, StartCheck
  <2>2. CASE RemoveSkprx \/ RemoveSuprx \/ CheckUpdate
    BY <2>2, <1>g DEF RemoveSkprx, RemoveSuprx, CheckUpdate, RemoveFile
  <2> QED BY <1>1, <2>1, <2>2 DEF Check
<1>2. CASE Rewrite
  BY <1>2, <1>g, AfterRewriteTyped DEF Rewrite, Hook, Unhook, RemoveConfig, CopyTemp, DropTemp, EditTo
<1>3. CASE Operate
  BY <1>3, <1>g DEF Operate, MakeFolder, CopySuprx, CopySkprx, CopyUsb, CopyPboot, RemovePboot,
        WriteVersion, GetUpdate, SaveUpdate, RemoveFolder, CheckFolder, RemoveBin, PutFile, RemoveFile
<1>4. CASE Choose
  BY <1>4, <1>g DEF Choose, Install, Change, Uninstall, DeletePbp, DeleteFlash, RemoveFile
<1>5. CASE Quit
  BY <1>5 DEF Quit, Go, history
<1>6. CASE PowerLoss
  BY <1>6, <1>f DEF PowerLoss
<1>7. CASE World \/ Refuse \/ UNCHANGED vars
  BY <1>7 DEF World, DeleteGame, RunAdrenaline, Refuse, vars, history
<1> QED BY <1>1, <1>2, <1>3, <1>4, <1>5, <1>6, <1>7 DEF Next

(* The inductive invariant of the theorems below.                          *)
Full == Texts /\ Chosen /\ FilesInFolders /\ Whole /\ Faultless

(* A device as the installer finds it: nothing of Adrenaline, or one       *)
(* release in its folder with an entry for a game.                         *)
Bare ==
    /\ \A path \in Folders : dir[path] = FALSE /\ \A file \in Files : ~ Exists(path, file)
    /\ config[FoundTai] # Missing /\ \A path : ~ Names(config[FoundTai], path)
HandMade(release, game) ==
    /\ FoundFolder = Folder(release) /\ dir[Folder(release)]
    /\ \A path \in Folders, file \in Files : path # Folder(release) => ~ Exists(path, file)
    /\ \A path \in Folders : disk[path]["version"] = Absent
    /\ disk[FoundFolder]["suprx"] = release /\ disk[FoundFolder]["skprx"] = release
    /\ config[FoundTai] # Missing /\ GetId(config[FoundTai], FoundFolder) = game
    /\ Names(config[FoundTai], FoundFolder)
    /\ \A path : path # FoundFolder => ~ Names(config[FoundTai], path)

LEMMA InitDevice ==
    Init => /\ step = "off" /\ ram = Fresh /\ faults = 0 /\ games = Games
            /\ Bare \/ \E release \in Releases, game \in Living : HandMade(release, game)
<1> SUFFICES ASSUME Init
             PROVE  Bare \/ \E release \in Releases, game \in Living : HandMade(release, game)
  BY DEF Init
<1>2. PICK place \in TaiPlaces, c \in UserConfigs, has \in GameFiles :
         /\ before = [tai |-> place, lines |-> c, marked |-> has.marked, playable |-> has.playable]
         /\ \/ /\ dir = [path \in Folders |-> FALSE]
               /\ disk = [path \in Folders |-> NoFiles]
               /\ config = [p \in Places |-> IF p = place THEN c ELSE Missing]
            \/ \E release \in Releases, game \in has.playable :
                 /\ dir = [path \in Folders |-> path = Folder(release)]
                 /\ disk = [path \in Folders |->
                               IF path = Folder(release) THEN HandFiles(release) ELSE NoFiles]
                 /\ config = [p \in Places |->
                                IF p = place THEN WriteLines(c, Folder(release), game) ELSE Missing]
  BY DEF Init
<1>3. /\ place \in Places /\ c \in ConfigFiles /\ Ended(c) /\ Missing \notin ConfigFiles
      /\ \A line \in c : line.kind \in {"head", "user"}
  BY InstallerAssumption, MissingIsNoConfig DEF Ended
<1>l. has.playable = Living /\ Living \subseteq Games
  BY <1>2, InstallerAssumption DEF Init, Living
<1>4. \A path : ~ Names(c, path)
  BY <1>3 DEF Names, IsPlugin
<1>5. CASE /\ dir = [path \in Folders |-> FALSE]
           /\ disk = [path \in Folders |-> NoFiles]
           /\ config = [p \in Places |-> IF p = place THEN c ELSE Missing]
  <2>1. \A path \in Folders, file \in Files : ~ Exists(path, file)
    BY <1>5 DEF NoFiles, Exists
  <2>2. config[FoundTai] = c
    BY <1>3, <1>5 DEF FoundTai, Places
  <2> QED BY <1>3, <1>4, <1>5, <2>1, <2>2 DEF Bare
<1>6. ASSUME NEW release \in Releases, NEW game \in Games,
             dir = [path \in Folders |-> path = Folder(release)],
             disk = [path \in Folders |->
                       IF path = Folder(release) THEN HandFiles(release) ELSE NoFiles],
             config = [p \in Places |->
                         IF p = place THEN WriteLines(c, Folder(release), game) ELSE Missing]
      PROVE  HandMade(release, game)
  <2> DEFINE text == WriteLines(c, Folder(release), game)
  <2>1. Folder(release) \in Folders
    BY FolderTyped
  <2>2. /\ \A path \in Folders, file \in Files : path # Folder(release) => ~ Exists(path, file)
        /\ \A path \in Folders : dir[path] <=> path = Folder(release)
        /\ Exists(Folder(release), "skprx")
        /\ \A path \in Folders : disk[path]["version"] = Absent
        /\ disk[Folder(release)]["suprx"] = release /\ disk[Folder(release)]["skprx"] = release
    BY <1>6, <2>1, InstallerAssumption DEF NoFiles, HandFiles, Exists, Files
  <2>3. text # Missing
    <3>1. Header(End(c) + 1, game) \in text /\ Header(End(c) + 1, game).kind = "head"
      BY DEF WriteLines, Header
    <3>2. \A line \in Missing : line.kind # "head"
      BY DEF Missing
    <3> QED BY <3>1, <3>2
  <2>4. GetId(text, Folder(release)) = game /\ game # NoId
    BY <1>3, WrittenIsRead, InstallerAssumption
  <2>5. Names(text, Folder(release))
    BY <2>4, EntryHasLine DEF Names
  <2>6. \A path : path # Folder(release) => ~ Names(text, path)
    BY <1>4, WriteNames
  <2> HIDE DEF text
  <2>7. config[FoundTai] = text
    BY <1>3, <1>6, <2>3 DEF FoundTai, Places, text
  <2>8. FoundFolder = Folder(release)
    BY <2>1, <2>2 DEF FoundFolder, Folders, Files
  <2> QED BY <2>2, <2>3, <2>4, <2>5, <2>6, <2>7, <2>8, <2>1 DEF HandMade
<1> QED BY <1>2, <1>l, <1>5, <1>6

LEMMA InitTidy == Init => FilesInFolders /\ Versioned /\ Tidy
<1> SUFFICES ASSUME Init PROVE FilesInFolders /\ Versioned /\ Tidy
  OBVIOUS
<1>1. CASE Bare
  BY <1>1, InitDevice DEF Bare, FilesInFolders, Versioned, Coherent, Tidy, Idle, Clear, FoundFolder,
        Folders, Files, Fresh
<1>2. ASSUME NEW release \in Releases, NEW game \in Living, HandMade(release, game)
      PROVE  FilesInFolders /\ Versioned /\ Tidy
  <2>1. Folder(release) \in Folders /\ game # NoId /\ release # Absent /\ Absent \notin Releases
    BY FolderTyped, InstallerAssumption, InitDevice DEF Living
  <2>2. Idle(FoundFolder, config[FoundTai])
    BY <1>2, <2>1 DEF HandMade, Idle, Clear, Exists, Files
  <2> QED BY <1>2, <2>1, <2>2, InitDevice DEF HandMade, FilesInFolders, Versioned, Coherent, Tidy, Fresh
<1> QED BY <1>1, <1>2, InitDevice

LEMMA InitSingles == Init => Singles
<1> SUFFICES ASSUME Init PROVE Singles
  OBVIOUS
<1>1. PICK place \in TaiPlaces, c \in UserConfigs :
        \/ config = [p \in Places |-> IF p = place THEN c ELSE Missing]
        \/ \E release \in Releases, game \in Games :
             config = [p \in Places |->
                         IF p = place THEN WriteLines(c, Folder(release), game) ELSE Missing]
  BY InstallerAssumption DEF Init
<1>2. c \in ConfigFiles /\ Ended(c) /\ \A path : ~ Names(c, path)
  BY InstallerAssumption DEF Ended, Names, IsPlugin
<1>3. ASSUME NEW release \in Releases, NEW game \in Games, NEW path \in Folders
      PROVE  Single(WriteLines(c, Folder(release), game), path)
  <2>1. CASE path = Folder(release)
    BY <1>2, <2>1, WrittenAlone, WrittenIsRead DEF Single
  <2>2. CASE path # Folder(release)
    BY <1>2, <2>2, WriteNames, NamelessIsSingle
  <2> QED BY <2>1, <2>2
<1>4. \A p \in Places, path \in Folders : Single(config[p], path)
  BY <1>1, <1>2, <1>3, NoFileIsNameless, NamelessIsSingle
<1> QED BY <1>4, NoFileIsNameless, NamelessIsSingle DEF Singles, Init

LEMMA InitFull == Init => Full
<1> SUFFICES ASSUME Init PROVE Full
  OBVIOUS
<1>1. Whole
  BY DEF Init, Whole
<1>2. clean
  BY DEF Init
<1> QED BY <1>1, <1>2, InitTexts, InitTidy, InitSingles DEF Full, Faultless

LEMMA StepFull == TypeOK /\ IInv /\ Full /\ [Next]_vars => Full'
<1> SUFFICES ASSUME TypeOK, IInv, Full, [Next]_vars PROVE Full'
  OBVIOUS
<1>1. Texts' /\ Chosen'
  BY StepTexts DEF Full
<1>f. FilesInFolders'
  BY StepFiles DEF Full
<1>2. Smooth => Keeps
  <2>1. CASE Launch
    BY <2>1, LaunchHere
  <2>2. CASE ~ Launch
    <3> SUFFICES ASSUME Smooth PROVE Keeps
      OBVIOUS
    <3>1. clean /\ step # "off"
      BY <2>2, CleanBefore
    <3>2. Here
      BY <3>1, Zenon DEF Full, Whole
    <3> QED BY <2>2, <3>1, <3>2, StepHere DEF Full
  <2> QED BY <2>1, <2>2
<1>3. Whole'
  BY <1>2 DEF Whole, Smooth, Keeps
<1>4. Faultless'
  <2> SUFFICES ASSUME faults' = 0 PROVE clean' /\ Versioned' /\ Tidy' /\ Singles'
    BY Zenon DEF Faultless
  <2>1. faults = 0 /\ (clean => clean')
    BY FaultsBefore
  <2>2. clean /\ Versioned /\ Tidy /\ Singles
    BY <2>1, Zenon DEF Full, Faultless
  <2>3. clean'
    BY <2>1, <2>2, Zenon
  <2>8. Singles'
    <3>1. CASE Rewrite
      <4>1. step # "off" /\ step' # "off"
        BY <3>1, FaultsBefore
           DEF Rewrite, Hook, Unhook, RemoveConfig, CopyTemp, DropTemp, Quit, World, DeleteGame,
               RunAdrenaline, Refuse, vars
      <4>2. Here /\ Texts
        BY <2>2, <4>1, Zenon DEF Full, Whole
      <4> QED BY <2>2, <2>3, <3>1, <4>1, <4>2, SinglesKept DEF Smooth
    <3>2. CASE ~ Rewrite
      BY <2>2, <3>2, OnlyRewritesEdit DEF Singles
    <3> QED BY <3>1, <3>2
  <2>4. CASE step' # "off"
    <3>1. Smooth
      BY <2>3, <2>4 DEF Smooth
    <3> QED BY <1>2, <2>2, <2>3, <2>8, <3>1, Zenon DEF Keeps
  <2>5. CASE Quit \/ World
    <3>1. Versioned'
      BY <2>2, <2>5, IdleVersioned
    <3>2. Quit => step # "off"
      BY DEF Quit
    <3>3. Quit => Here
      BY <2>2, <3>2, Zenon DEF Full, Whole
    <3>4. Tidy'
      BY <2>2, <2>5, <3>3, QuitTidy, WorldTidy
    <3> QED BY <2>3, <2>8, <3>1, <3>4, Zenon
  <2>6. CASE Refuse \/ UNCHANGED vars
    <3>1. UNCHANGED <<disk, games, config, temp, step, ram, before>>
      BY <2>6 DEF Refuse, vars, card, history
    <3>2. Versioned'
      BY <2>2, <3>1 DEF Versioned, Coherent, BeingWritten, Rewriting, Exists
    <3>3. Tidy'
      BY <2>2, <3>1 DEF Tidy, Idle, Clear, Exists, FoundFolder, FoundTai, Living, ToHook, Copying
    <3> QED BY <2>3, <2>8, <3>2, <3>3, Zenon
  <2>7. step' # "off" \/ Quit \/ World \/ Refuse \/ UNCHANGED vars
    BY FaultsBefore
  <2> QED BY <2>4, <2>5, <2>6, <2>7, Zenon
<1> QED BY <1>1, <1>f, <1>3, <1>4 DEF Full

LEMMA FullInvariant == Spec => []Full
<1> QED BY InitFull, StepFull, TypeCorrect, Invariant, PTL DEF Spec

-----------------------------------------------------------------------------
(* What the menus are built from tells what is on the card, for any games, *)
(* releases and configs, whatever earlier runs were interrupted in: the    *)
(* check reads one entry and one folder, and either leaves both or removes *)
(* the entry, with every line of the folder, before the plugins.           *)
THEOREM MenuIsTheCard == Spec => []MenuTellsTheCard
<1>1. TypeOK /\ IInv /\ Full => MenuTellsTheCard
  <2> SUFFICES ASSUME TypeOK, IInv, Full, step = "menu", clean
               PROVE  MenuTellsTheCard
    BY DEF MenuTellsTheCard
  <2> DEFINE c == config[ram.tai]
  <2>1. Here /\ OpInv(step, ram)
    BY DEF Full, Whole, IInv
  <2>2. /\ GetId(c, ram.folder) = ram.gameId
        /\ ram.installed <=> ram.gameId # NoId
        /\ ram.installed => Exists(ram.folder, "skprx") /\ ram.gameId \in before.playable
        /\ disk[ram.folder]["update"] # Torn
        /\ disk[ram.folder]["version"] = ram.version
    BY <2>1, RamShape DEF Here, Route, Checked, OpInv, GameNamed
  <2>3. c \in ConfigFiles /\ Ended(c) /\ Titled(c)
    BY <2>1, Fields DEF Here, Text, Full, Texts, Sound
  <2>4. ~ ram.installed => HookedTo(c, ram.folder) \subseteq {NoId}
    BY <2>2, <2>3, NoEntryNoSection
  <2>5. faults = 0 => HookedTo(c, ram.folder) \subseteq {ram.gameId}
    BY <2>2, Fields DEF Full, Faultless, Singles, Single
  <2> QED BY <2>2, <2>4, <2>5 DEF MenuTellsTheCard
<1> QED BY <1>1, TypeCorrect, Invariant, FullInvariant, PTL

(* After "Done!" of an install or a change the card holds the release that *)
(* was chosen, in the folder and with the files it is to have, for any     *)
(* releases and whatever earlier runs left behind.                         *)
THEOREM ReleaseInPlace == Spec => []ChosenReleaseInPlace
<1>1. TypeOK /\ Full => ChosenReleaseInPlace
  <2> SUFFICES ASSUME TypeOK, Full, step = "done", clean, ram.op \in {"install", "change"}
               PROVE  /\ \A file \in {"suprx", "skprx", "version"} : disk[ram.folder][file] = ram.arg
                      /\ ram.arg \in UsbReleases => disk[ram.folder]["usbdevice"] = ram.arg
                      /\ ram.op = "change" =>
                            /\ ~ Exists(ram.folder, "bin")
                            /\ ram.folder = Folder(ram.arg)
                            /\ ram.arg \notin UsbReleases => ~ Exists(ram.folder, "usbdevice")
    BY DEF ChosenReleaseInPlace
  <2>1. Here
    BY DEF Full, Whole
  <2> QED BY <2>1, RamShape DEF Here, Route, Leaving, Deleting, Rewriting, Placement, FilesPut, Placed
<1> QED BY <1>1, TypeCorrect, FullInvariant, PTL

(* After "Done!" of an install or a change tai loads Adrenaline for the    *)
(* chosen game and in the kernel, for any config a user may have; for no   *)
(* other game as long as nothing went wrong before, or if the operation    *)
(* was a change of the game in one folder.  The first is a matter of every *)
(* earlier operation: each finds no line of the folder where it writes its *)
(* own.  So is the kernel line: it was written below every "*KERNEL" above *)
(* the entry, and none ever stands below it.                               *)
THEOREM GameHooked == Spec => []ChosenGameHooked
<1>1. TypeOK /\ Full => ChosenGameHooked
  <2> SUFFICES ASSUME TypeOK, Full, step = "done", clean, ram.op \in {"install", "change"}
               PROVE  ChosenGameHooked
    BY DEF ChosenGameHooked
  <2>1. Here
    BY DEF Full, Whole
  <2>2. GetId(config[ram.tai], ram.folder) = ram.id
    BY <2>1 DEF Here, Text, Hooked
  <2>3. ram.id # NoId
    BY <2>1, InstallerAssumption DEF Here, Route
  <2>4. PICK line \in config[ram.tai] : IsPlugin(line, "suprx", ram.folder)
    BY <2>2, <2>3, EntryHasLine
  <2>5. Hooks(config[ram.tai], ram.folder)
    BY Fields DEF Full, Texts, Sound
  <2>6. \A h \in config[ram.tai] : h = Header(h.at, Kernel)
            => Plugin(h.at, "skprx", ram.folder) \in config[ram.tai]
    BY <2>4, <2>5 DEF Hooks
  <2>7. ram.id \in games /\ (ram.op = "install" \/ Changed) => pboot[ram.id] = "ours"
    BY <2>1, RamShape DEF Here, Route, Pboots, Leaving, Deleting, Rewriting
  <2>8. ram.op = "change" /\ Changed /\ ram.gameId \in games => pboot[ram.gameId] = "none"
    BY <2>1, RamShape DEF Here, Route, Pboots, Leaving, Deleting, Rewriting
  <2>9. faults = 0 => HookedTo(config[ram.tai], ram.folder) = {ram.id}
    <3>1. faults = 0 => HookedTo(config[ram.tai], ram.folder) \subseteq {ram.id}
      BY <2>2, Fields DEF Full, Faultless, Singles, Single
    <3> QED BY <2>2, <2>3, <3>1, IdIsHooked
  <2>10. OtherGame => HookedTo(config[ram.tai], ram.folder) = {ram.id}
    BY <2>1 DEF Here, Text, Hooked, OtherGame
  <2> QED BY <2>2, <2>6, <2>7, <2>8, <2>9, <2>10 DEF ChosenGameHooked, OtherGame
<1> QED BY <1>1, TypeCorrect, FullInvariant, PTL

(* After "Done!" of an uninstall nothing of the folder is left, on the     *)
(* card or in the config, whatever other lines the config has.             *)
THEOREM NothingIsLeft == Spec => []NothingLeft
<1>1. TypeOK /\ Full => NothingLeft
  <2> SUFFICES ASSUME TypeOK, Full, step = "done", clean, ram.op = "uninstall"
               PROVE  /\ ~ dir[ram.folder] /\ \A file \in Files : ~ Exists(ram.folder, file)
                      /\ ~ Names(config[ram.tai], ram.folder)
                      /\ ram.gameId \in games => pboot[ram.gameId] = "none"
    BY DEF NothingLeft
  <2>1. Here
    BY DEF Full, Whole
  <2> QED BY <2>1 DEF Here, Placement, FilesGone, Text, Unhooked, Pboots
<1> QED BY <1>1, TypeCorrect, FullInvariant, PTL

(* Until something goes wrong the version file names the release whose     *)
(* plugins lie beside it, for any releases and any number of operations:   *)
(* every operation that replaces a plugin gets to the version file.        *)
THEOREM VersionTellsRelease == Spec => []VersionIsTheRelease
<1>1. TypeOK /\ Full => VersionIsTheRelease
  <2> SUFFICES ASSUME TypeOK, Full, faults = 0, step = "menu", ram.installed,
                      ram.version \in Releases
               PROVE  disk[ram.folder]["suprx"] = ram.version /\ disk[ram.folder]["skprx"] = ram.version
    BY DEF VersionIsTheRelease
  <2>1. clean /\ Versioned
    BY Zenon DEF Full, Faultless
  <2>2. Here
    BY <2>1 DEF Full, Whole
  <2>3. Exists(ram.folder, "skprx") /\ disk[ram.folder]["version"] = ram.version
    BY <2>2 DEF Here, Route, Checked
  <2>4. Coherent(ram.folder)
    BY <2>1, Fields DEF Versioned, BeingWritten, Rewriting
  <2> QED BY <2>3, <2>4 DEF Coherent
<1> QED BY <1>1, TypeCorrect, FullInvariant, PTL

-----------------------------------------------------------------------------
(* What holds at every step, whatever failed before it: one place at most  *)
(* holds a config, and it is the one the run writes; the start-up check    *)
(* removes nothing but an entry of a game or a plugin that is gone; an     *)
(* installation shown at the menu has its entry.                           *)
Entry == GetId(LinesOf(config[ram.tai]), ram.folder)
OnePlace ==
    /\ \A p, q \in Places : config[p] # Missing /\ config[q] # Missing => p = q
    /\ step # "off" => \A p \in Places : config[p] # Missing => p = ram.tai
Repairs ==
    /\ ram.op = "none" <=> step \in {"off", "menu"}
    /\ step \in {"size", "rmskprx", "rmsuprx"} => ram.op = "check"
    /\ ram.op = "check" => step \in {"unhook", "unlink", "copy", "drop", "rmskprx", "rmsuprx", "size"}
    /\ ram.op = "check" /\ ram.installed => step = "size"
    /\ ram.op = "check" /\ ~ ram.installed =>
          /\ Entry \in {NoId, ram.gameId}
          /\ step \in {"unlink", "copy"} => ~ Names(temp, ram.folder)
          /\ ~ Exists(ram.folder, "skprx") \/ ram.gameId \notin Living
    /\ step \in {"size", "menu"} /\ ram.installed => Entry # NoId

(* How a step ends: done, done with an error, or not at all.               *)
Ends(next, r) ==
    \/ step' = next /\ ram' = r /\ UNCHANGED history
    \/ step' = next /\ ram' = r /\ faults' = faults + 1 /\ clean' = FALSE
    \/ step' = "off" /\ ram' = Fresh /\ faults' = faults + 1

LEMMA StepEnds ==
    ASSUME NEW next, NEW r, Go(next, r) \/ GoWrong(next, r)
    PROVE  Ends(next, r)
BY Zenon DEF Go, GoWrong, Ends

LEMMA LivingStays ==
    ASSUME [Next]_vars, games' = games
    PROVE  Living' = Living
BY BeforeStays DEF Living

(* An operation keeps to what was chosen, from its first step to its last. *)
Carries ==
    /\ Living' = Living
    /\ \E r \in Rams, next \in Steps \ {"off", "menu", "size", "rmskprx", "rmsuprx"} :
          Ends(next, r) /\ r.op = ram.op /\ r.arg = ram.arg /\ r.id = ram.id /\ r.tai = ram.tai

LEMMA OperationCarriesOn ==
    ASSUME TypeOK, Repairs, Operating, Next
    PROVE  Carries
<1> USE Fields
<1>o. /\ step \notin {"off", "menu", "done", "nofolder", "size", "rmskprx", "rmsuprx"}
      /\ ram.op \in {"install", "change", "uninstall"}
  BY DEF Operating, Repairs
<1>g. ASSUME NEW next \in Steps \ {"off", "menu", "size", "rmskprx", "rmsuprx"}, NEW r \in Rams,
             Go(next, r) \/ GoWrong(next, r), r.op = ram.op, r.arg = ram.arg, r.id = ram.id,
             r.tai = ram.tai, games' = games
      PROVE  Carries
  BY <1>g, StepEnds, LivingStays DEF Carries
<1>a. ASSUME NEW edit \in {"none", "write", "delete"}
      PROVE  AfterRewrite(edit) \in Steps \ {"off", "menu", "size", "rmskprx", "rmsuprx"}
  BY <1>o DEF AfterRewrite, Steps
<1>1. ~ (Check \/ Choose \/ Refuse \/ Quit \/ World)
  BY <1>o DEF Check, Launch, StartCheck, RemoveSkprx, RemoveSuprx, CheckUpdate, Choose, Install, Change,
        Uninstall, DeletePbp, DeleteFlash, Refuse, Quit, World, DeleteGame, RunAdrenaline
<1>2. CASE Rewrite
  <2>1. ASSUME NEW text, NEW edit \in {"write", "delete"}, EditTo(text, edit)
        PROVE  Carries
    <3> DEFINE r == [ram EXCEPT !.edit = edit]
    <3>1. PICK next \in {"unlink", AfterRewrite(edit)} : Go(next, r) \/ GoWrong(next, r)
      BY <2>1 DEF EditTo
    <3>2. r \in Rams /\ r.op = ram.op /\ r.arg = ram.arg /\ r.id = ram.id /\ r.tai = ram.tai
      BY DEF Rams
    <3>3. next \in Steps \ {"off", "menu", "size", "rmskprx", "rmsuprx"} /\ games' = games
      BY <2>1, <3>1, <1>a DEF Steps, EditTo
    <3> HIDE DEF r
    <3> QED BY <1>g, <3>1, <3>2, <3>3
  <2>2. CASE Hook \/ Unhook
    BY <2>1, <2>2 DEF Hook, Unhook
  <2>3. CASE RemoveConfig \/ CopyTemp
    BY <1>g, <2>3 DEF RemoveConfig, CopyTemp, Steps
  <2>4. CASE DropTemp
    BY <1>a, <1>g, <2>4, RamShape DEF DropTemp
  <2> QED BY <1>2, <2>2, <2>3, <2>4 DEF Rewrite
<1>3. CASE Operate
  <2>p. ASSUME NEW path, NEW file, NEW content,
               NEW next \in Steps \ {"off", "menu", "size", "rmskprx", "rmsuprx"},
               PutFile(path, file, content, next, ram) \/ RemoveFile(path, file, next, ram)
        PROVE  Carries
    <3>1. (Go(next, ram) \/ GoWrong(next, ram)) /\ games' = games
      BY <2>p DEF PutFile, RemoveFile
    <3> QED BY <1>g, <3>1
  <2>1. CASE MakeFolder \/ CopyPboot \/ RemovePboot \/ CheckFolder
    BY <1>g, <2>1 DEF MakeFolder, CopyPboot, RemovePboot, CheckFolder, Steps, card
  <2>2. CASE CopySuprx \/ CopySkprx \/ WriteVersion \/ RemoveBin
    BY <2>p, <2>2 DEF CopySuprx, CopySkprx, WriteVersion, RemoveBin, Steps
  <2>3. CASE CopyUsb \/ GetUpdate \/ SaveUpdate
    BY <1>g, <2>p, <2>3 DEF CopyUsb, GetUpdate, SaveUpdate, Steps, card
  <2>4. CASE RemoveFolder
    <3> DEFINE r == IF ram.op = "change" THEN [ram EXCEPT !.folder = Folder(ram.arg)] ELSE ram
               next == IF ram.op = "change" /\ ~ Changed THEN "dircheck" ELSE "rmpboot"
    <3>1. r \in Rams /\ r.op = ram.op /\ r.arg = ram.arg /\ r.id = ram.id /\ r.tai = ram.tai
      BY FolderTyped DEF Rams
    <3>2. /\ Go(next, r) \/ GoWrong(next, r)
          /\ next \in Steps \ {"off", "menu", "size", "rmskprx", "rmsuprx"} /\ games' = games
      BY <2>4 DEF RemoveFolder, Steps
    <3> HIDE DEF r, next
    <3> QED BY <1>g, <3>1, <3>2
  <2> QED BY <1>3, <2>1, <2>2, <2>3, <2>4 DEF Operate
<1>4. CASE PowerLoss
  <2>1. Ends("unhook", ram) /\ games' = games
    BY <1>4 DEF PowerLoss, Ends, card
  <2> QED BY <2>1, LivingStays DEF Carries, Steps
<1> QED BY <1>1, <1>2, <1>3, <1>4 DEF Next

(* A step of the start-up check takes at most the entry and the plugins,   *)
(* and those of a working installation not at all.                         *)
Plugins == {"suprx", "skprx"}
EntryOf(file) == GetId(LinesOf(file), ram.folder)
Mends ==
    /\ Living' = Living
    /\ \A p \in Places : p # ram.tai => config'[p] = config[p]
    /\ \A path \in Folders : disk'[path]["skprx"] \in {disk[path]["skprx"], Absent}
    /\ EntryOf(config'[ram.tai]) \in {Entry, NoId}
    /\ ram.installed =>
          config' = config /\ \A path \in Folders, file \in Plugins : disk'[path][file] = disk[path][file]
MendsOn(next, r) ==
    /\ r \in Rams /\ r.tai = ram.tai /\ r.folder = ram.folder /\ r.installed = ram.installed
    /\ \/ step = "size" /\ next = "menu" /\ r.op = "none"
       \/ /\ step # "size" /\ next \in {"unlink", "copy", "drop", "rmskprx", "rmsuprx", "size"}
          /\ r.op = "check" /\ r.gameId = ram.gameId
    /\ next \in {"unlink", "copy"} => ~ Names(temp', ram.folder)

LEMMA NamelessText ==
    ASSUME NEW file, NEW path, ~ Names(file, path)
    PROVE  GetId(LinesOf(file), path) = NoId
<1>1. ~ Names({}, path)
  BY DEF Names
<1> QED BY <1>1, NamelessHasNoId DEF LinesOf

LEMMA EmptyHasNoId == \A path : GetId(LinesOf(Missing), path) = NoId
<1>1. \A path : ~ Names({}, path)
  BY DEF Names
<1> QED BY <1>1, NamelessHasNoId DEF LinesOf

LEMMA RepairMends ==
    ASSUME TypeOK, Repairs, ram.op = "check", Check \/ Rewrite \/ Operate
    PROVE  Mends /\ \E next, r : Ends(next, r) /\ MendsOn(next, r)
<1> USE Fields
<1>s. /\ step \in {"unhook", "unlink", "copy", "drop", "rmskprx", "rmsuprx", "size"}
      /\ ram.installed => step = "size"
  BY DEF Repairs
<1>b. games' = games => Living' = Living
  BY LivingStays DEF Next
<1>p. ASSUME UNCHANGED <<disk, games, config>> PROVE Mends
  BY <1>b, <1>p DEF Mends, Entry, EntryOf
<1>1. CASE step = "unhook"
  <2>1. Unhook
    BY <1>1 DEF Check, Launch, StartCheck, RemoveSkprx, RemoveSuprx, CheckUpdate, Rewrite, Hook,
          RemoveConfig, CopyTemp, DropTemp, Operate, MakeFolder, CopySuprx, CopySkprx, CopyUsb,
          CopyPboot, RemovePboot, WriteVersion, GetUpdate, SaveUpdate, RemoveFolder, CheckFolder, RemoveBin
  <2> DEFINE text == DeleteLines(LinesOf(config[ram.tai]), ram.folder, ram.gameId)
             r == [ram EXCEPT !.edit = "delete"]
  <2>2. Mends
    BY <1>p, <2>1 DEF Unhook, EditTo
  <2>3. /\ r \in Rams /\ r.tai = ram.tai /\ r.folder = ram.folder /\ r.installed = ram.installed
        /\ r.op = "check" /\ r.gameId = ram.gameId
    BY DEF Rams
  <2>4. \A cut \in Cuts(text) \union {text, {}} : ~ Names(cut, ram.folder)
    <3>1. ~ Names(text, ram.folder)
      BY DeletedIsNameless
    <3> HIDE DEF text
    <3> QED BY <3>1, CutIsPart DEF Names
  <2>5. AfterRewrite("delete") \in {"rmskprx", "size"}
    BY DEF AfterRewrite
  <2> HIDE DEF text, r
  <2>6. PICK next \in {"unlink", AfterRewrite("delete")} :
           (Go(next, r) \/ GoWrong(next, r)) /\ temp' \in Cuts(text) \union {text, {}}
    BY <2>1 DEF Unhook, EditTo, r, text
  <2>7. MendsOn(next, r)
    BY <1>1, <2>3, <2>4, <2>5, <2>6 DEF MendsOn
  <2> QED BY <2>2, <2>6, <2>7, StepEnds
<1>2. CASE step = "unlink"
  <2>1. RemoveConfig
    BY <1>2 DEF Check, Launch, StartCheck, RemoveSkprx, RemoveSuprx, CheckUpdate, Rewrite, Hook, Unhook,
          CopyTemp, DropTemp, Operate, MakeFolder, CopySuprx, CopySkprx, CopyUsb,
          CopyPboot, RemovePboot, WriteVersion, GetUpdate, SaveUpdate, RemoveFolder, CheckFolder, RemoveBin
  <2>2. /\ Go("copy", ram) \/ GoWrong("copy", ram)
        /\ UNCHANGED <<disk, games, temp>>
        /\ config'[ram.tai] \in {config[ram.tai], Missing}
        /\ \A p \in Places : p # ram.tai => config'[p] = config[p]
    BY <2>1 DEF RemoveConfig, TypeOK
  <2>3. EntryOf(config'[ram.tai]) \in {Entry, NoId}
    BY <2>2, EmptyHasNoId DEF EntryOf, Entry
  <2>4. Mends
    BY <1>2, <1>b, <1>s, <2>2, <2>3 DEF Mends
  <2>5. MendsOn("copy", ram)
    BY <1>2, <1>s, <2>2 DEF MendsOn, Repairs
  <2> QED BY <2>2, <2>4, <2>5, StepEnds
<1>3. CASE step = "copy"
  <2>1. CopyTemp
    BY <1>3 DEF Check, Launch, StartCheck, RemoveSkprx, RemoveSuprx, CheckUpdate, Rewrite, Hook, Unhook,
          RemoveConfig, DropTemp, Operate, MakeFolder, CopySuprx, CopySkprx, CopyUsb,
          CopyPboot, RemovePboot, WriteVersion, GetUpdate, SaveUpdate, RemoveFolder, CheckFolder, RemoveBin
  <2>2. /\ Go("drop", ram) \/ GoWrong("drop", ram)
        /\ UNCHANGED <<disk, games>>
        /\ config'[ram.tai] \in {config[ram.tai], temp} \union Cuts(LinesOf(temp))
        /\ \A p \in Places : p # ram.tai => config'[p] = config[p]
    BY <2>1 DEF CopyTemp, TypeOK
  <2>3. ~ Names(temp, ram.folder)
    BY <1>3, <1>s DEF Repairs
  <2>4. \A cut \in Cuts(LinesOf(temp)) : ~ Names(cut, ram.folder)
    BY <2>3, CutIsPart DEF Names, LinesOf
  <2>5. EntryOf(config'[ram.tai]) \in {Entry, NoId}
    BY <2>2, <2>3, <2>4, NamelessText DEF EntryOf, Entry
  <2>6. Mends
    BY <1>3, <1>b, <1>s, <2>2, <2>5 DEF Mends
  <2>7. MendsOn("drop", ram)
    BY <1>3, <1>s DEF MendsOn
  <2> QED BY <2>2, <2>6, <2>7, StepEnds
<1>4. CASE step = "drop"
  <2>1. DropTemp
    BY <1>4 DEF Check, Launch, StartCheck, RemoveSkprx, RemoveSuprx, CheckUpdate, Rewrite, Hook, Unhook,
          RemoveConfig, CopyTemp, Operate, MakeFolder, CopySuprx, CopySkprx, CopyUsb,
          CopyPboot, RemovePboot, WriteVersion, GetUpdate, SaveUpdate, RemoveFolder, CheckFolder, RemoveBin
  <2> DEFINE next == AfterRewrite(ram.edit)
  <2>2. next \in {"rmskprx", "size"}
    BY DEF AfterRewrite
  <2>3. (Go(next, ram) \/ GoWrong(next, ram)) /\ UNCHANGED <<disk, games, config>>
    BY <2>1 DEF DropTemp
  <2> HIDE DEF next
  <2>4. MendsOn(next, ram)
    BY <1>4, <1>s, <2>2 DEF MendsOn
  <2> QED BY <1>p, <2>3, <2>4, StepEnds
<1>5. CASE step \in {"rmskprx", "rmsuprx"}
  <2>1. RemoveSkprx \/ RemoveSuprx
    BY <1>5 DEF Check, Launch, StartCheck, CheckUpdate, Rewrite, Hook, Unhook,
          RemoveConfig, CopyTemp, DropTemp, Operate, MakeFolder, CopySuprx, CopySkprx, CopyUsb,
          CopyPboot, RemovePboot, WriteVersion, GetUpdate, SaveUpdate, RemoveFolder, CheckFolder, RemoveBin
  <2>2. PICK next \in {"rmsuprx", "size"}, file \in Plugins : RemoveFile(ram.folder, file, next, ram)
    BY <2>1 DEF RemoveSkprx, RemoveSuprx, Plugins
  <2>3. /\ Go(next, ram) \/ GoWrong(next, ram)
        /\ UNCHANGED <<games, config>>
        /\ \A path \in Folders : disk'[path]["skprx"] \in {disk[path]["skprx"], Absent}
    BY <2>2 DEF RemoveFile, TypeOK, Files, Plugins
  <2>4. Mends
    BY <1>5, <1>b, <1>s, <2>3 DEF Mends, Entry, EntryOf
  <2>5. MendsOn(next, ram)
    BY <1>5, <1>s DEF MendsOn
  <2> QED BY <2>3, <2>4, <2>5, StepEnds
<1>6. CASE step = "size"
  <2>1. CheckUpdate
    BY <1>6 DEF Check, Launch, StartCheck, RemoveSkprx, RemoveSuprx, Rewrite, Hook, Unhook,
          RemoveConfig, CopyTemp, DropTemp, Operate, MakeFolder, CopySuprx, CopySkprx, CopyUsb,
          CopyPboot, RemovePboot, WriteVersion, GetUpdate, SaveUpdate, RemoveFolder, CheckFolder, RemoveBin
  <2> DEFINE r == [ram EXCEPT !.op = "none", !.gameId = IF ram.installed THEN @ ELSE NoId]
  <2>2. /\ r \in Rams /\ r.op = "none"
        /\ r.tai = ram.tai /\ r.folder = ram.folder /\ r.installed = ram.installed
    BY WordsAssumption DEF Rams
  <2>3. /\ Go("menu", r) \/ GoWrong("menu", r)
        /\ UNCHANGED <<games, config>>
        /\ \A path \in Folders, file \in Plugins : disk'[path][file] = disk[path][file]
    BY <2>1 DEF CheckUpdate, RemoveFile, card, TypeOK, Files, Plugins, r
  <2> HIDE DEF r
  <2>4. Mends
    BY <1>b, <2>3 DEF Mends, Entry, EntryOf, Plugins
  <2>5. MendsOn("menu", r)
    BY <1>6, <2>2 DEF MendsOn
  <2> QED BY <2>3, <2>4, <2>5, StepEnds
<1> QED BY <1>s, <1>1, <1>2, <1>3, <1>4, <1>5, <1>6

(* What the user chooses at the menu: an operation, or an option, which    *)
(* leaves the plugins and the config alone.                                *)
Begins(next, r) ==
    /\ next \in {"mkdir", "rmpboot", "dircheck", "rmfolder"}
    /\ UNCHANGED history
    /\ \/ r.op \in {"install", "change"} /\ r.id \in Games
       \/ r.op = "uninstall" /\ ram.installed
Chooses ==
    \E next, r :
        /\ Ends(next, r) /\ r \in Rams /\ r.tai = ram.tai
        /\ (next = "menu" /\ r = ram) \/ Begins(next, r)

LEMMA ChoiceMoves ==
    ASSUME TypeOK, Choose
    PROVE  /\ step = "menu" /\ UNCHANGED <<games, config>>
           /\ \A path \in Folders, file \in Plugins : disk'[path][file] = disk[path][file]
           /\ Chooses
<1> USE Fields
<1>g. ASSUME NEW next \in {"mkdir", "rmpboot", "dircheck", "rmfolder"}, NEW r \in Rams,
             Go(next, r), UNCHANGED card, r.tai = ram.tai,
             \/ r.op \in {"install", "change"} /\ r.id \in Games
             \/ r.op = "uninstall" /\ ram.installed
      PROVE  /\ UNCHANGED <<games, config>> /\ Chooses
             /\ \A path \in Folders, file \in Plugins : disk'[path][file] = disk[path][file]
  <2>1. Ends(next, r)
    BY <1>g, StepEnds
  <2>2. Begins(next, r)
    BY <1>g, Zenon DEF Go, Begins
  <2>3. Chooses
    BY <1>g, <2>1, <2>2, Zenon DEF Chooses
  <2> QED BY <1>g, <2>3 DEF card
<1>1. step = "menu"
  BY DEF Choose, Install, Change, Uninstall, DeletePbp, DeleteFlash
<1>2. ASSUME NEW release \in Releases, NEW game \in Games, Install(release, game)
      PROVE  /\ UNCHANGED <<games, config>> /\ Chooses
             /\ \A path \in Folders, file \in Plugins : disk'[path][file] = disk[path][file]
  <2> DEFINE folder == IF release \in OldReleases THEN OldFolder ELSE ram.folder
             r == [ram EXCEPT !.op = "install", !.arg = release, !.id = game, !.folder = folder]
  <2>1. game \in Words /\ folder \in Folders
    BY InstallerAssumption DEF Folders
  <2>2. Go("mkdir", r) /\ UNCHANGED card
    BY <1>2 DEF Install
  <2> HIDE DEF folder
  <2>3. r \in Rams /\ r.tai = ram.tai /\ r.op = "install" /\ r.id = game
    BY <2>1 DEF Rams
  <2> HIDE DEF r
  <2> QED BY <1>g, <2>2, <2>3
<1>3. ASSUME NEW release \in Releases, NEW game \in Games, Change(release, game)
      PROVE  /\ UNCHANGED <<games, config>> /\ Chooses
             /\ \A path \in Folders, file \in Plugins : disk'[path][file] = disk[path][file]
  <2> DEFINE mode == IF Folder(release) = ram.folder THEN 0 ELSE 1
             r == [ram EXCEPT !.op = "change", !.arg = release, !.id = game, !.mode = mode]
             next == IF mode = 1 THEN "mkdir" ELSE IF ram.gameId # game THEN "rmpboot" ELSE "dircheck"
  <2>1. game \in Words /\ mode \in {0, 1}
    BY InstallerAssumption
  <2>2. Go(next, r) /\ UNCHANGED card
    BY <1>3 DEF Change
  <2>n. next \in {"mkdir", "rmpboot", "dircheck", "rmfolder"}
    OBVIOUS
  <2> HIDE DEF mode, next
  <2>3. r \in Rams /\ r.tai = ram.tai /\ r.op = "change" /\ r.id = game
    BY <2>1 DEF Rams
  <2> HIDE DEF r
  <2> QED BY <1>g, <2>2, <2>3, <2>n
<1>4. ASSUME Uninstall
      PROVE  /\ UNCHANGED <<games, config>> /\ Chooses
             /\ \A path \in Folders, file \in Plugins : disk'[path][file] = disk[path][file]
  <2> DEFINE r == [ram EXCEPT !.op = "uninstall", !.id = ram.gameId]
  <2>1. Go("rmfolder", r) /\ UNCHANGED card /\ ram.installed
    BY <1>4 DEF Uninstall
  <2>2. r \in Rams /\ r.tai = ram.tai /\ r.op = "uninstall"
    BY DEF Rams
  <2> HIDE DEF r
  <2> QED BY <1>g, <2>1, <2>2
<1>5. ASSUME DeletePbp \/ DeleteFlash
      PROVE  /\ UNCHANGED <<games, config>> /\ Chooses
             /\ \A path \in Folders, file \in Plugins : disk'[path][file] = disk[path][file]
  <2>1. PICK option \in {"update", "bin"} : RemoveFile(ram.folder, option, "menu", ram)
    BY <1>5 DEF DeletePbp, DeleteFlash
  <2>2. Go("menu", ram) \/ GoWrong("menu", ram)
    BY <2>1 DEF RemoveFile
  <2>3. UNCHANGED <<games, config>>
        /\ \A path \in Folders, file \in Plugins : disk'[path][file] = disk[path][file]
    BY <2>1 DEF RemoveFile, TypeOK, Files, Plugins
  <2>4. Ends("menu", ram)
    BY <2>2, StepEnds
  <2> QED BY <2>3, <2>4 DEF Chooses
<1> QED BY <1>1, <1>2, <1>3, <1>4, <1>5 DEF Choose

LEMMA OnePlaceKept == TypeOK /\ Repairs /\ OnePlace /\ [Next]_vars => OnePlace'
<1> SUFFICES ASSUME TypeOK, Repairs, OnePlace, [Next]_vars PROVE OnePlace'
  OBVIOUS
<1> USE Fields
<1>s. ASSUME config' = config, step' = "off" \/ (step # "off" /\ ram'.tai = ram.tai)
      PROVE  OnePlace'
  BY <1>s DEF OnePlace
<1>w. ASSUME \A p \in Places : p # ram.tai => config'[p] = config[p],
             step # "off", step' = "off" \/ ram'.tai = ram.tai
      PROVE  OnePlace'
  BY <1>w DEF OnePlace
<1>1. CASE Launch
  <2>1. config' = config /\ ram'.tai = FoundTai /\ config[FoundTai] # Missing /\ step = "off"
    BY <1>1 DEF Launch, StartCheck, Fresh, card
  <2>2. FoundTai \in Places
    BY DEF FoundTai, Places
  <2>3. \A p \in Places : config[p] # Missing => p = FoundTai
    BY <2>1, <2>2 DEF OnePlace
  <2> QED BY <2>1, <2>3 DEF OnePlace
<1>2. CASE RemoveConfig \/ CopyTemp
  <2>1. /\ step # "off" /\ \A p \in Places : p # ram.tai => config'[p] = config[p]
        /\ \E next : Go(next, ram) \/ GoWrong(next, ram)
    BY <1>2 DEF RemoveConfig, CopyTemp, TypeOK
  <2> QED BY <1>w, <2>1, StepEnds DEF Ends
<1>3. CASE (Check \/ Rewrite \/ Operate) /\ ram.op = "check"
  <2>1. /\ \A p \in Places : p # ram.tai => config'[p] = config[p]
        /\ step' = "off" \/ ram'.tai = ram.tai
    BY <1>3, RepairMends DEF Mends, MendsOn, Ends
  <2> QED BY <1>3, <1>w, <2>1 DEF Repairs
<1>4. CASE (Check \/ Rewrite \/ Operate) /\ ram.op # "check" /\ ~ (Launch \/ RemoveConfig \/ CopyTemp)
  <2>1. config' = config
    BY <1>4, PutFileMoves DEF Check, Launch, StartCheck, RemoveSkprx, RemoveSuprx, CheckUpdate, card, Rewrite,
          Hook, Unhook, EditTo, DropTemp, Operate, MakeFolder, CopySuprx, CopySkprx, CopyUsb, CopyPboot,
          RemovePboot, WriteVersion, GetUpdate, SaveUpdate, RemoveFolder, CheckFolder, RemoveBin
  <2>2. step \notin {"off", "menu", "done", "nofolder", "size", "rmskprx", "rmsuprx"}
    BY <1>4 DEF Repairs, Check, RemoveSkprx, RemoveSuprx, CheckUpdate, Rewrite, Hook, Unhook, DropTemp, Operate,
          MakeFolder, CopySuprx, CopySkprx, CopyUsb, CopyPboot, RemovePboot,
          WriteVersion, GetUpdate, SaveUpdate, RemoveFolder, CheckFolder, RemoveBin
  <2>3. Operating
    BY <1>4, <2>2, RamShape DEF Operating, Repairs
  <2>4. Next
    BY <1>4 DEF Next
  <2>5. step' = "off" \/ ram'.tai = ram.tai
    BY <2>3, <2>4, OperationCarriesOn DEF Carries, Ends
  <2> QED BY <1>s, <2>1, <2>2, <2>5
<1>5. CASE Choose
  <2>1. /\ step = "menu" /\ config' = config
        /\ \E next, r : Ends(next, r) /\ r.tai = ram.tai
    BY <1>5, ChoiceMoves DEF Chooses
  <2> QED BY <1>s, <2>1 DEF Ends
<1>6. CASE Quit \/ PowerLoss
  BY <1>6, <1>s DEF Quit, PowerLoss, Go, card
<1>7. CASE World \/ Refuse \/ UNCHANGED vars
  BY <1>7 DEF World, DeleteGame, RunAdrenaline, Refuse, vars, card, OnePlace
<1> QED BY <1>1, <1>2, <1>3, <1>4, <1>5, <1>6, <1>7 DEF Next

LEMMA RepairsKept == TypeOK /\ IInv /\ Repairs /\ [Next]_vars => Repairs'
<1> SUFFICES ASSUME TypeOK, IInv, Repairs, [Next]_vars PROVE Repairs'
  OBVIOUS
<1> USE Fields
<1>e. ASSUME step' = "off", ram' = Fresh
      PROVE  Repairs'
  BY <1>e DEF Repairs, Fresh
<1>1. CASE Launch
  <2>1. /\ UNCHANGED <<config, disk, games>> /\ config[FoundTai] # Missing
        /\ ram'.op = "check" /\ ram'.tai = FoundTai /\ ram'.folder = FoundFolder
        /\ ram'.installed = Works /\ ram'.gameId = FoundId
        /\ step' \in {"unhook", "size"} /\ (step' = "unhook" => ~ Works)
    BY <1>1 DEF Launch, StartCheck, Fresh, card
  <2>2. Entry' = FoundId
    BY <2>1 DEF Entry, FoundId, LinesOf
  <2>3. Works => FoundId # NoId
    BY InstallerAssumption DEF Works, TypeOK, Living
  <2>4. ~ Works => ~ Exists(FoundFolder, "skprx") \/ FoundId \notin Living
    BY DEF Works
  <2>5. Living' = Living
    BY <2>1, LivingStays
  <2> QED BY <2>1, <2>2, <2>3, <2>4, <2>5 DEF Repairs, Exists
<1>2. CASE (Check \/ Rewrite \/ Operate) /\ ram.op = "check"
  <2>1. PICK next, r : Mends /\ Ends(next, r) /\ MendsOn(next, r)
    BY <1>2, RepairMends
  <2>2. CASE step' = next /\ ram' = r
    <3>1. Entry' = EntryOf(config'[ram.tai])
      BY <2>1, <2>2 DEF MendsOn, Entry, EntryOf
    <3>2. CASE step = "size"
      <4>1. ram.installed => Entry' = Entry
        BY <2>1, <3>1 DEF Mends, Entry, EntryOf
      <4> QED BY <2>1, <2>2, <3>2, <4>1, Zenon DEF MendsOn, Repairs
    <3>3. CASE step # "size"
      <4>1. ~ ram.installed /\ Entry' \in {NoId, ram.gameId}
        BY <1>2, <2>1, <3>1, <3>3 DEF Repairs, Mends
      <4>2. ~ Exists(ram.folder, "skprx")' \/ ram'.gameId \notin Living'
        BY <1>2, <2>1, <2>2, <3>3, <4>1 DEF Repairs, Mends, MendsOn, Exists
      <4>3. /\ step' \in {"unlink", "copy", "drop", "rmskprx", "rmsuprx", "size"} /\ ram'.op = "check"
            /\ ram'.installed = ram.installed /\ ram'.gameId = ram.gameId /\ ram'.folder = ram.folder
            /\ step' \in {"unlink", "copy"} => ~ Names(temp', ram.folder)
        BY <2>1, <2>2, <3>3 DEF MendsOn
      <4> QED BY <4>1, <4>2, <4>3 DEF Repairs, Exists
    <3> QED BY <3>2, <3>3
  <2> QED BY <1>e, <2>1, <2>2 DEF Ends
<1>3. CASE (Check \/ Rewrite \/ Operate) /\ ram.op # "check" /\ ~ Launch
  <2>2. step \notin {"off", "menu", "done", "nofolder", "size", "rmskprx", "rmsuprx"}
    BY <1>3 DEF Repairs, Check, RemoveSkprx, RemoveSuprx, CheckUpdate, Rewrite, Hook, Unhook, RemoveConfig,
          CopyTemp, DropTemp, Operate, MakeFolder, CopySuprx, CopySkprx, CopyUsb, CopyPboot, RemovePboot,
          WriteVersion, GetUpdate, SaveUpdate, RemoveFolder, CheckFolder, RemoveBin
  <2>3. Operating
    BY <1>3, <2>2, RamShape DEF Operating, Repairs
  <2>4. Next
    BY <1>3 DEF Next
  <2>5. \/ step' = "off" /\ ram' = Fresh
        \/ step' \notin {"off", "menu", "size", "rmskprx", "rmsuprx"} /\ ram'.op = ram.op
    BY <2>3, <2>4, OperationCarriesOn DEF Carries, Ends
  <2> QED BY <1>3, <1>e, <2>2, <2>5 DEF Repairs
<1>4. CASE Choose
  <2>1. step = "menu" /\ config' = config /\ ram.op = "none"
    BY <1>4, ChoiceMoves DEF Repairs
  <2>2. \/ step' = "off" /\ ram' = Fresh
        \/ step' = "menu" /\ ram' = ram
        \/ step' \in {"mkdir", "rmpboot", "dircheck", "rmfolder"} /\ ram'.op \in {"install", "change", "uninstall"}
    BY <1>4, ChoiceMoves DEF Ends, Chooses, Begins
  <2> QED BY <1>e, <2>1, <2>2 DEF Repairs, Entry
<1>5. CASE Quit \/ PowerLoss
  BY <1>5, <1>e DEF Quit, PowerLoss, Go
<1>6. CASE World
  <2>1. /\ step \in {"off", "menu"} /\ UNCHANGED <<config, step, ram>>
    BY <1>6 DEF World, DeleteGame, RunAdrenaline
  <2> QED BY <2>1 DEF Repairs, Entry
<1>7. CASE Refuse \/ UNCHANGED vars
  BY <1>7 DEF Refuse, vars, card, history, Repairs, Entry, Exists, Living
<1> QED BY <1>1, <1>2, <1>3, <1>4, <1>5, <1>6, <1>7 DEF Next

LEMMA RepairsInvariant == Spec => [](OnePlace /\ Repairs)
<1>1. Init => OnePlace /\ Repairs
  <2> SUFFICES ASSUME Init PROVE OnePlace /\ Repairs
    OBVIOUS
  <2>1. step = "off" /\ ram = Fresh
    BY DEF Init
  <2>2. \E place \in Places : \A p \in Places : p # place => config[p] = Missing
    <3>1. TaiPlaces \subseteq Places
      BY InstallerAssumption
    <3> QED BY <3>1 DEF Init
  <2> QED BY <2>1, <2>2 DEF OnePlace, Repairs, Fresh
<1> QED BY <1>1, OnePlaceKept, RepairsKept, TypeCorrect, Invariant, PTL DEF Spec

-----------------------------------------------------------------------------
(* What becomes of the user's lines.  The config has one place, and the    *)
(* run that rewrites it works on that place; the names its headers have,   *)
(* and the id a rewrite deletes, are those of games or of the user's       *)
(* sections.  While a rewrite is under way that no failed call has         *)
(* touched, temp.txt has the user's lines if the config has them, and from *)
(* the copy on the config has them if temp.txt has.                        *)
Known == Games \union SectionNames
Named(c) == \A line \in c : line.kind = "head" => line.of \in Known
Home ==
    /\ \A p \in Places : config[p] # Missing => p = before.tai
    /\ step # "off" => ram.tai = before.tai
    /\ ram.gameId \in Known \union {NoId}
    /\ Named(temp) /\ \A p \in Places : Named(config[p])
Way ==
    clean => /\ step \in {"unlink", "copy"} /\ HasOwn(config[before.tai]) => HasOwn(temp)
             /\ step = "drop" /\ HasOwn(temp) => HasOwn(config[before.tai])

LEMMA IdIsKnown ==
    ASSUME NEW c, Named(c), NEW path
    PROVE  GetId(c, path) \in Known \union {NoId}
<1>1. ASSUME NEW n PROVE Section(c, n) \in Known \union {NoId}
  <2> DEFINE nearest == Lowest(HeadersAbove(c, n))
  <2>1. \A h \in nearest : h.of \in Known
    BY DEF Lowest, HeadersAbove, Named
  <2>2. nearest # {} => (CHOOSE h \in nearest : TRUE) \in nearest
    OBVIOUS
  <2> QED BY <2>1, <2>2 DEF Section
<1> QED BY <1>1 DEF GetId

LEMMA MissingIsNamed == Named(Missing) /\ Named({})
BY DEF Named, Missing

LEMMA WriteNamed ==
    ASSUME NEW c, Named(c), NEW path, NEW id \in Known
    PROVE  Named(WriteLines(c, path, id))
BY DEF Named, WriteLines, Header, Plugin

(* The user's own lines pass both texts.                                   *)
LEMMA OwnSurvive ==
    ASSUME NEW c \in ConfigFiles, Own \subseteq c, NEW path, NEW id
    PROVE  /\ Own \subseteq WriteLines(c, path, id)
           /\ id \in Known => Own \subseteq DeleteLines(c, path, id) \/ id = NoId
<1>1. \A line \in Own : line \in UserLines(c) /\ line.of \notin Known
  BY DEF Own, UserLines, Known
<1> QED BY <1>1, UserLinesSurvive

(* Beside the launch the globals a rewrite works with stay, and only a     *)
(* rewrite gets into the middle of one.                                    *)
LEMMA RamStays ==
    ASSUME TypeOK, [Next]_vars, ~ Launch
    PROVE  \/ step' = "off" /\ ram' = Fresh
           \/ /\ ram'.tai = ram.tai /\ ram'.gameId \in {ram.gameId, NoId}
              /\ step = "off" => step' = "off"
              /\ Rewriting' => Rewrite \/ UNCHANGED <<step, config, temp, clean>>
<1> USE Fields
<1> DEFINE Stay == \/ step' = "off" /\ ram' = Fresh
                   \/ /\ ram'.tai = ram.tai /\ ram'.gameId \in {ram.gameId, NoId}
                      /\ step = "off" => step' = "off"
                      /\ Rewriting' => Rewrite \/ UNCHANGED <<step, config, temp, clean>>
<1>m. ASSUME NEW next, NEW r, Moves(next, r), step # "off", r.tai = ram.tai,
             r.gameId \in {ram.gameId, NoId}, next \notin {"unlink", "copy", "drop"} \/ Rewrite
      PROVE  Stay
  BY <1>m DEF Moves, Rewriting
<1>1. CASE Check
  <2>1. CASE RemoveSkprx \/ RemoveSuprx
    BY <2>1, <1>m, PutFileMoves DEF RemoveSkprx, RemoveSuprx
  <2>2. CASE CheckUpdate
    <3> DEFINE r == [ram EXCEPT !.op = "none", !.gameId = IF ram.installed THEN @ ELSE NoId]
    <3>1. Moves("menu", r) /\ step = "size"
      BY <2>2, CheckUpdateMoves
    <3>2. r.tai = ram.tai /\ r.gameId \in {ram.gameId, NoId}
      BY DEF Rams
    <3> HIDE DEF r
    <3> QED BY <1>m, <3>1, <3>2
  <2> QED BY <1>1, <2>1, <2>2 DEF Check
<1>2. CASE Rewrite
  <2>1. ASSUME NEW text, NEW edit, EditTo(text, edit), step # "off" PROVE Stay
    <3> DEFINE r == [ram EXCEPT !.edit = edit]
    <3>1. PICK next : Moves(next, r)
      BY <2>1, GoMoves DEF EditTo
    <3>2. r.tai = ram.tai /\ r.gameId = ram.gameId
      BY DEF Rams
    <3> HIDE DEF r
    <3> QED BY <1>2, <1>m, <2>1, <3>1, <3>2
  <2>2. CASE Hook \/ Unhook
    BY <2>1, <2>2 DEF Hook, Unhook
  <2>3. CASE RemoveConfig \/ CopyTemp \/ DropTemp
    <3>1. step # "off" /\ \E next : Moves(next, ram)
      BY <2>3, GoMoves DEF RemoveConfig, CopyTemp, DropTemp
    <3> QED BY <1>2, <1>m, <3>1
  <2> QED BY <1>2, <2>2, <2>3 DEF Rewrite
<1>3. CASE Operate
  <2>p. ASSUME NEW path, NEW file, NEW content, NEW next \in Steps \ {"unlink", "copy", "drop"}, step # "off",
               PutFile(path, file, content, next, ram) \/ RemoveFile(path, file, next, ram)
        PROVE  Stay
    BY <2>p, <1>m, PutFileMoves
  <2>1. CASE MakeFolder \/ CopyPboot \/ RemovePboot \/ CheckFolder
    <3>1. /\ step # "off"
          /\ \E next \in Steps \ {"unlink", "copy", "drop"} : Moves(next, ram)
      BY <2>1, GoMoves DEF MakeFolder, CopyPboot, RemovePboot, CheckFolder, Steps
    <3> QED BY <1>m, <3>1
  <2>2. CASE CopySuprx \/ CopySkprx \/ WriteVersion \/ RemoveBin
    BY <2>p, <2>2 DEF CopySuprx, CopySkprx, WriteVersion, RemoveBin, Steps
  <2>3. CASE CopyUsb \/ GetUpdate \/ SaveUpdate
    <3>1. /\ step # "off"
          /\ \E next \in Steps \ {"unlink", "copy", "drop"} : Moves(next, ram)
      BY <2>3, GoMoves, PutFileMoves DEF CopyUsb, GetUpdate, SaveUpdate, Steps
    <3> QED BY <1>m, <3>1
  <2>4. CASE RemoveFolder
    <3> DEFINE r == IF ram.op = "change" THEN [ram EXCEPT !.folder = Folder(ram.arg)] ELSE ram
               next == IF ram.op = "change" /\ ~ Changed THEN "dircheck" ELSE "rmpboot"
    <3>1. r.tai = ram.tai /\ r.gameId = ram.gameId
      BY DEF Rams
    <3>2. Moves(next, r) /\ next \notin {"unlink", "copy", "drop"} /\ step # "off"
      BY <2>4, GoMoves DEF RemoveFolder
    <3> HIDE DEF r, next
    <3> QED BY <1>m, <3>1, <3>2
  <2> QED BY <1>3, <2>1, <2>2, <2>3, <2>4 DEF Operate
<1>4. CASE Choose
  <2>1. CASE \E release \in Releases, game \in Games : Install(release, game) \/ Change(release, game)
    BY <2>1 DEF Install, Change, Go, Rams, Rewriting
  <2>2. CASE Uninstall
    BY <2>2 DEF Uninstall, Go, Rams, Rewriting
  <2>3. CASE DeletePbp \/ DeleteFlash
    BY <2>3, <1>m, PutFileMoves DEF DeletePbp, DeleteFlash
  <2> QED BY <1>4, <2>1, <2>2, <2>3 DEF Choose
<1>5. CASE Quit \/ PowerLoss
  BY <1>5 DEF Quit, PowerLoss, Go
<1>6. CASE World \/ Refuse \/ UNCHANGED vars
  BY <1>6 DEF World, DeleteGame, RunAdrenaline, Refuse, vars, card, history
<1> QED BY <1>1, <1>2, <1>3, <1>4, <1>5, <1>6 DEF Next

LEMMA HomeKept == TypeOK /\ Chosen /\ Home /\ [Next]_vars => Home'
<1> SUFFICES ASSUME TypeOK, Chosen, Home, [Next]_vars PROVE Home'
  OBVIOUS
<1> USE Fields
<1>1. before' = before /\ Known' = Known
  BY BeforeStays DEF Known, SectionNames
<1>2. /\ step' # "off" => ram'.tai = before.tai
      /\ ram'.gameId \in Known \union {NoId}
  <2>1. CASE Launch
    <3>1. config[FoundTai] # Missing /\ ram'.tai = FoundTai /\ ram'.gameId = FoundId
      BY <2>1 DEF Launch, StartCheck, Fresh
    <3>2. FoundTai \in Places
      BY DEF FoundTai, Places
    <3>3. Named(config[FoundTai])
      BY <3>2 DEF Home
    <3> QED BY <3>1, <3>2, <3>3, IdIsKnown DEF Home, FoundId
  <2>2. CASE ~ Launch
    BY <2>2, RamStays DEF Home, Fresh
  <2> QED BY <2>1, <2>2
<1>3. /\ \A p \in Places : config'[p] # Missing => p = before.tai
      /\ Named(temp') /\ \A p \in Places : Named(config'[p])
  <2>1. CASE ~ Rewrite
    BY <2>1, OnlyRewritesEdit DEF Home
  <2>e. ASSUME NEW text, Named(text), NEW edit, EditTo(text, edit)
        PROVE  config' = config /\ Named(temp')
    <3>1. config' = config /\ (temp' \in {{}, text} \/ temp' \in Cuts(text))
      BY <2>e DEF EditTo
    <3> QED BY <2>e, <3>1, CutIsPart DEF Named
  <2>s. Named(LinesOf(config[ram.tai])) /\ Named(LinesOf(temp))
    BY MissingIsNamed DEF Home, LinesOf
  <2>2. CASE Hook
    <3>1. ram.id \in Known
      BY <2>2 DEF Hook, Chosen, Known
    <3>2. Named(WriteLines(LinesOf(config[ram.tai]), ram.folder, ram.id))
      BY <2>s, <3>1, WriteNamed
    <3> QED BY <2>2, <2>e, <3>2 DEF Hook, Home
  <2>3. CASE Unhook
    <3>1. Named(DeleteLines(LinesOf(config[ram.tai]), ram.folder, ram.gameId))
      BY <2>s DEF Named, DeleteLines
    <3> QED BY <2>3, <2>e, <3>1 DEF Unhook, Home
  <2>4. CASE RemoveConfig \/ CopyTemp
    <3>1. /\ step # "off" /\ temp' = temp
          /\ \A p \in Places : p # ram.tai => config'[p] = config[p]
          /\ config'[ram.tai] \in {Missing, config[ram.tai], temp} \union Cuts(LinesOf(temp))
      BY <2>4 DEF RemoveConfig, CopyTemp, TypeOK
    <3>2. \A cut \in Cuts(LinesOf(temp)) : Named(cut)
      BY <2>s, CutIsPart DEF Named
    <3> QED BY <3>1, <3>2, MissingIsNamed DEF Home
  <2>5. CASE DropTemp
    BY <2>5, MissingIsNamed DEF DropTemp, Home
  <2> QED BY <2>1, <2>2, <2>3, <2>4, <2>5 DEF Rewrite
<1> QED BY <1>1, <1>2, <1>3 DEF Home, Named

(* What a rewrite does to the user's lines, in a step after which the run  *)
(* is still without a failed call: the facts the next two lemmas share.    *)
LEMMA EditsOwn ==
    ASSUME TypeOK, IInv, Home, Hook \/ Unhook, clean'
    PROVE  /\ config' = config
           /\ Rewriting' => step' = "unlink" /\ (HasOwn(config[before.tai]) => HasOwn(temp'))
<1> USE Fields
<1>1. ram.tai = before.tai
  BY DEF Home, Hook, Unhook
<1>2. ASSUME NEW text \in ConfigFiles, NEW edit \in {"write", "delete"}, EditTo(text, edit),
             HasOwn(config[before.tai]) => Own \subseteq text
      PROVE  /\ config' = config
             /\ Rewriting' => step' = "unlink" /\ (HasOwn(config[before.tai]) => HasOwn(temp'))
  <2>1. config' = config
    BY <1>2 DEF EditTo
  <2>2. AfterRewrite(edit) \notin {"unlink", "copy", "drop"}
    BY AfterRewriteTyped
  <2>3. ASSUME Rewriting'
        PROVE  temp' = text /\ step' = "unlink"
    <3> DEFINE r == [ram EXCEPT !.edit = edit]
    <3>1. ~ Go(AfterRewrite(edit), r)
      BY <2>2, <2>3 DEF Go, Rewriting
    <3>2. ~ GoWrong("unlink", r)
      <4>1. step' # "off"
        BY <2>3 DEF Rewriting
      <4> QED BY <4>1, Zenon DEF GoWrong
    <3>3. temp' = text /\ Go("unlink", r)
      BY <1>2, <3>1, <3>2 DEF EditTo
    <3> QED BY <3>3 DEF Go
  <2>4. LinesOf(text) = text
    BY LinesOfFile
  <2> QED BY <1>2, <2>1, <2>3, <2>4 DEF HasOwn
<1> DEFINE lines == LinesOf(config[ram.tai])
<1>3. HasOwn(config[before.tai]) => Own \subseteq lines
  BY <1>1 DEF HasOwn
<1>4. CASE Hook
  <2>1. WriteLines(lines, ram.folder, ram.id) \in ConfigFiles
    BY WriteTyped
  <2>2. HasOwn(config[before.tai]) => Own \subseteq WriteLines(lines, ram.folder, ram.id)
    BY <1>3, OwnSurvive
  <2> QED BY <1>2, <1>4, <2>1, <2>2 DEF Hook
<1>5. CASE Unhook
  <2>1. DeleteLines(lines, ram.folder, ram.gameId) \in ConfigFiles
    BY DeleteTyped
  <2>2. ram.gameId \in Known /\ ram.gameId # NoId
    BY <1>5 DEF Unhook, IInv, OpInv, GameNamed, Home
  <2>3. HasOwn(config[before.tai]) => Own \subseteq DeleteLines(lines, ram.folder, ram.gameId)
    BY <1>3, <2>2, OwnSurvive
  <2> QED BY <1>2, <1>5, <2>1, <2>3 DEF Unhook
<1> QED BY <1>4, <1>5

LEMMA CopiesOwn ==
    ASSUME TypeOK, Home, RemoveConfig \/ CopyTemp \/ DropTemp, clean'
    PROVE  /\ clean
           /\ RemoveConfig => temp' = temp /\ (step' \in {"copy", "off"})
                              /\ (step' = "copy" => config'[before.tai] = Missing)
           /\ CopyTemp => temp' = temp /\ (step' \in {"drop", "off"})
                          /\ (step' = "drop" => config'[before.tai] = temp)
           /\ DropTemp => config' = config /\ ~ Rewriting'
<1> USE Fields
<1>1. ram.tai = before.tai /\ before.tai \in Places
  BY DEF Home, RemoveConfig, CopyTemp, DropTemp
<1>2. ASSUME NEW next, Go(next, ram) \/ GoWrong(next, ram)
      PROVE  /\ clean /\ step' \in {next, "off"}
             /\ step' # "off" => ~ GoWrong(next, ram)
  <2>1. Moves(next, ram)
    BY <1>2, GoMoves
  <2>2. step' # "off" => ~ GoWrong(next, ram)
    BY Zenon DEF GoWrong
  <2> QED BY <2>1, <2>2 DEF Moves
<1>3. CASE RemoveConfig
  BY <1>1, <1>2, <1>3 DEF RemoveConfig, TypeOK, CopyTemp, DropTemp
<1>4. CASE CopyTemp
  BY <1>1, <1>2, <1>4 DEF RemoveConfig, TypeOK, CopyTemp, DropTemp
<1>5. CASE DropTemp
  BY <1>1, <1>2, <1>5, AfterRewriteTyped DEF RemoveConfig, CopyTemp, DropTemp, Rewriting
<1> QED BY <1>3, <1>4, <1>5

LEMMA OwnStays ==
    ASSUME [Next]_vars
    PROVE  Own' = Own
BY BeforeStays DEF Own, SectionNames

LEMMA MissingHasNothing ==
    ASSUME NEW file, HasOwn(Missing)
    PROVE  HasOwn(file)
BY DEF HasOwn, LinesOf

LEMMA WayKept == TypeOK /\ IInv /\ Home /\ Way /\ [Next]_vars => Way'
<1> SUFFICES ASSUME TypeOK, IInv, Home, Way, [Next]_vars, clean', Rewriting'
             PROVE  /\ step' \in {"unlink", "copy"} /\ HasOwn(config[before.tai])' => HasOwn(temp)'
                    /\ step' = "drop" /\ HasOwn(temp)' => HasOwn(config[before.tai])'
  BY DEF Way, Rewriting
<1>1. before' = before /\ Own' = Own
  BY BeforeStays, OwnStays
<1>2. /\ HasOwn(config[before.tai])' <=> HasOwn(config'[before.tai])
      /\ HasOwn(temp)' <=> HasOwn(temp')
  BY <1>1 DEF HasOwn, LinesOf
<1>3. CASE Hook \/ Unhook
  BY <1>2, <1>3, EditsOwn
<1>4. CASE RemoveConfig \/ CopyTemp \/ DropTemp
  BY <1>2, <1>4, CopiesOwn, MissingHasNothing DEF Rewriting
<1>5. CASE ~ Rewrite
  <2>1. ~ Launch
    BY DEF Launch, StartCheck, Rewriting
  <2>2. UNCHANGED <<step, config, temp, clean>>
    BY <1>5, <2>1, RamStays DEF Rewriting
  <2>3. clean
    BY <2>2, Zenon
  <2> QED BY <1>2, <2>2, <2>3 DEF Way
<1> QED BY <1>3, <1>4, <1>5 DEF Rewrite

LEMMA InitHome == Init => Home /\ Way
<1> SUFFICES ASSUME Init PROVE Home /\ Way
  OBVIOUS
<1>1. PICK place \in TaiPlaces, c \in UserConfigs, has \in GameFiles :
         /\ before = [tai |-> place, lines |-> c, marked |-> has.marked, playable |-> has.playable]
         /\ \/ config = [p \in Places |-> IF p = place THEN c ELSE Missing]
            \/ \E release \in Releases, game \in has.playable :
                 config = [p \in Places |->
                             IF p = place THEN WriteLines(c, Folder(release), game) ELSE Missing]
  BY DEF Init
<1>2. step = "off" /\ ram = Fresh /\ temp = Missing
  BY DEF Init
<1>3. before.lines = c /\ before.tai = place /\ has.playable \subseteq Games
  BY <1>1, InstallerAssumption
<1>4. Named(c)
  BY <1>3 DEF Named, Known, SectionNames
<1>5. ASSUME NEW release \in Releases, NEW game \in has.playable
      PROVE  Named(WriteLines(c, Folder(release), game))
  BY <1>3, <1>4, WriteNamed DEF Known
<1>6. \A p \in Places : Named(config[p]) /\ (config[p] # Missing => p = before.tai)
  BY <1>1, <1>3, <1>4, <1>5, MissingIsNamed
<1> QED BY <1>2, <1>6, MissingIsNamed DEF Home, Way, Fresh

(* Whatever the device had, and however often the installer was started    *)
(* and interrupted since, no step of a run in which no call has failed     *)
(* takes the user's own lines out of both the config and temp.txt, but for *)
(* the rewrite of a config that has lost them to an earlier loss of power. *)
THEOREM UserLinesAreKept == Spec => OnlyRewriteOfCutLoses
<1>1. ASSUME TypeOK, IInv, Home, Way, [Next]_vars
      PROVE  [(HasOwn(config[before.tai]) \/ HasOwn(temp)) /\ clean' /\ ~ RewriteOfCut
                 => (HasOwn(config[before.tai]) \/ HasOwn(temp))']_vars
  <2> SUFFICES ASSUME HasOwn(config[before.tai]) \/ HasOwn(temp), clean', ~ RewriteOfCut
               PROVE  (HasOwn(config[before.tai]) \/ HasOwn(temp))'
    OBVIOUS
  <2>1. /\ HasOwn(config[before.tai])' <=> HasOwn(config'[before.tai])
        /\ HasOwn(temp)' <=> HasOwn(temp')
    BY <1>1, BeforeStays, OwnStays DEF HasOwn, LinesOf
  <2>2. CASE ~ Rewrite
    BY <1>1, <2>1, <2>2, OnlyRewritesEdit
  <2>3. CASE Hook \/ Unhook
    <3>1. HasOwn(config[before.tai])
      BY <2>3 DEF RewriteOfCut, Hook, Unhook
    <3> QED BY <1>1, <2>1, <2>3, <3>1, EditsOwn
  <2>4. CASE RemoveConfig \/ CopyTemp
    <3>1. HasOwn(temp) /\ temp' = temp
      BY <1>1, <2>4, CopiesOwn DEF Way, RemoveConfig, CopyTemp
    <3> QED BY <2>1, <3>1
  <2>5. CASE DropTemp
    <3>1. HasOwn(config[before.tai]) /\ config' = config
      BY <1>1, <2>5, CopiesOwn DEF Way, DropTemp
    <3> QED BY <2>1, <3>1
  <2> QED BY <2>2, <2>3, <2>4, <2>5 DEF Rewrite
<1>2. Spec => [](Home /\ Way)
  BY InitHome, HomeKept, WayKept, TypeCorrect, Invariant, FullInvariant, PTL DEF Spec, Full
<1> QED BY <1>1, <1>2, TypeCorrect, Invariant, PTL DEF Spec, OnlyRewriteOfCutLoses

-----------------------------------------------------------------------------
(* The service, as long as nothing goes wrong.  What the device has is     *)
(* told by the config that counts, by the games and by the two plugins.    *)
Seen == Effective[EffectiveTai]
Has == IF Operating THEN [to |-> Target, sure |-> clean] ELSE Found

LEMMA HasStays ==
    UNCHANGED <<Has, Living, faults>> => UNCHANGED Service!serviceVars
BY DEF Has, Service!serviceVars

LEMMA FoundTyped == TypeOK => Found \in Service!Having
<1> SUFFICES ASSUME TypeOK PROVE Found \in Service!Having
  OBVIOUS
<1>1. \A id \in Living : id \in Games
  BY DEF TypeOK, Living
<1> QED BY <1>1 DEF Found, Service!Having, Service!Installations

(* Where the program finds what it looks for while it runs.                *)
LEMMA SeenInRun ==
    TypeOK /\ Here /\ Tidy /\ step # "off" =>
        Seen = (IF step = "copy" THEN temp ELSE config[ram.tai]) /\ LinesOf(Seen) = Seen
<1> SUFFICES ASSUME TypeOK, Here, Tidy, step # "off"
             PROVE  Seen = (IF step = "copy" THEN temp ELSE config[ram.tai]) /\ LinesOf(Seen) = Seen
  OBVIOUS
<1> USE Fields
<1>1. /\ step = "copy" <=> config[ram.tai] = Missing
      /\ step = "copy" => temp # Missing
      /\ ram.tai = "ur0" => config["ux0"] = Missing
  BY DEF Here, Text, Tidy
<1>2. Effective[ram.tai] = (IF step = "copy" THEN temp ELSE config[ram.tai])
  BY <1>1 DEF Effective, TypeOK
<1>3. ram.tai = "ur0" => Effective["ux0"] = Missing
  BY <1>1 DEF Effective, TypeOK, Places
<1>4. EffectiveTai = ram.tai
  BY <1>1, <1>2, <1>3 DEF EffectiveTai, Places
<1> QED BY <1>1, <1>2, <1>4 DEF Seen, LinesOf

LEMMA SeenAtRest ==
    step \notin {"copy"} => Seen = config[FoundTai]
BY DEF Seen, Effective, EffectiveTai, FoundTai

LEMMA NamelessHasNothing ==
    (\A path \in Folders : ~ Names(LinesOf(Seen), path)) => Found = Nothing
<1> SUFFICES ASSUME \A path \in Folders : ~ Names(LinesOf(Seen), path) PROVE Found = Nothing
  OBVIOUS
<1>1. FoundFolder \in Folders
  BY DEF FoundFolder, Folders
<1>2. EffectiveId = NoId
  BY <1>1, NamelessHasNoId DEF EffectiveId, Seen
<1> QED BY <1>2 DEF Found

LEMMA SeenInRunNext ==
    (TypeOK /\ Here /\ Tidy /\ step # "off")' =>
        (Seen = (IF step = "copy" THEN temp ELSE config[ram.tai]) /\ LinesOf(Seen) = Seen)'
BY SeenInRun, PTL

LEMMA NamelessHasNothingNext ==
    (\A path \in Folders : ~ Names(LinesOf(Seen), path))' => (Found = Nothing)'
BY NamelessHasNothing, PTL

LEMMA FoundStays ==
    ASSUME Seen' = Seen, Living' = Living,
           \A path \in Folders, file \in {"suprx", "skprx"} : disk'[path][file] = disk[path][file]
    PROVE  Found' = Found
<1>1. FoundFolder' = FoundFolder /\ FoundFolder \in Folders
  BY DEF FoundFolder, Folders, Exists
<1>2. EffectiveId' = EffectiveId
  BY <1>1 DEF EffectiveId, Seen
<1> QED BY <1>1, <1>2 DEF Found

LEMMA SeenStays ==
    ASSUME config' = config, step # "copy", step' # "copy"
    PROVE  Seen' = Seen
BY DEF Seen, Effective, EffectiveTai

(* What an operation leaves is what it was to lead to.                     *)
LEMMA DoneFound ==
    TypeOK /\ Here /\ Tidy /\ step = "done" => Found = Service!Reached(Target)
<1> SUFFICES ASSUME TypeOK, Here, Tidy, step = "done" PROVE Found = Service!Reached(Target)
  OBVIOUS
<1> USE Fields
<1> DEFINE c == config[ram.tai]
<1>1. Seen = c /\ LinesOf(Seen) = c
  BY SeenInRun
<1>2. \A other \in Folders : other # ram.folder => Clear(other, c)
  BY DEF Tidy, Clear
<1>3. CASE ram.op \in {"install", "change"}
  <2>1. /\ ram.arg \in Releases /\ Absent \notin Releases /\ NoId \notin Games
    BY InstallerAssumption
  <2>2. disk[ram.folder]["suprx"] = ram.arg /\ disk[ram.folder]["skprx"] = ram.arg
    BY <1>3 DEF Here, Placement, FilesPut, Placed
  <2>3. GetId(c, ram.folder) = ram.id /\ ram.id \in Games
    BY <1>3 DEF Here, Route, Text, Hooked
  <2>4. FoundFolder = ram.folder
    BY <1>2, <2>1, <2>2 DEF FoundFolder, Folders, Exists, Clear
  <2>5. EffectiveId = ram.id
    BY <1>1, <2>3, <2>4 DEF EffectiveId, Seen
  <2>6. Target = [release |-> ram.arg, game |-> ram.id] /\ Target # Nothing
    <3>1. [release |-> ram.arg, game |-> ram.id] \in [release : Releases, game : Games]
      BY <2>1, <2>3
    <3> QED BY <1>3, <3>1, ServiceAssumption DEF Target
  <2> QED BY <2>1, <2>2, <2>3, <2>4, <2>5, <2>6 DEF Found, Service!Reached
<1>4. CASE ram.op = "uninstall"
  <2>1. \A path \in Folders : ~ Names(c, path)
    BY <1>2, <1>4 DEF Here, Text, Unhooked, Clear
  <2> QED BY <1>1, <1>4, <2>1, NamelessHasNothing DEF Target, Service!Reached
<1> QED BY <1>3, <1>4, RamShape DEF Here, Route, Deleting, Rewriting

LEMMA ServiceInit == Init => Service!Init
<1> SUFFICES ASSUME Init PROVE Service!Init
  OBVIOUS
<1>1. ~ Operating /\ Living \subseteq Games /\ faults = 0 /\ step = "off"
  BY InitDevice DEF Operating, Fresh, Living
<1>2. Seen = config[FoundTai]
  BY <1>1, SeenAtRest
<1>3. CASE Bare
  <2>1. LinesOf(Seen) = Seen
    BY <1>2, <1>3 DEF Bare, LinesOf
  <2>2. Found = Nothing
    BY <1>2, <1>3, <2>1, NamelessHasNothing DEF Bare
  <2> QED BY <1>1, <2>2 DEF Service!Init
<1>4. ASSUME NEW release \in Releases, NEW game \in Living, HandMade(release, game)
      PROVE  Service!Init
  <2>1. EffectiveId = game /\ game # NoId
    BY <1>1, <1>2, <1>4, InstallerAssumption DEF HandMade, EffectiveId, Seen, LinesOf
  <2>2. Found = [release |-> release, game |-> game]
    BY <1>1, <1>4, <2>1 DEF Found, HandMade
  <2> QED BY <1>1, <2>2 DEF Service!Init, Service!Installations
<1> QED BY <1>3, <1>4, InitDevice

(* A step without a fault does all it is to do.                            *)
LEMMA GoCalmly ==
    ASSUME TypeOK, faults' = 0, NEW next, NEW r, Go(next, r) \/ GoWrong(next, r)
    PROVE  step' = next /\ ram' = r /\ faults = 0 /\ ~ GoWrong(next, r)
<1>f. faults \in Nat
  BY InstallerAssumption DEF TypeOK
<1>1. ~ GoWrong(next, r)
  BY <1>f DEF GoWrong
<1> QED BY <1>1 DEF Go, history

LEMMA RemoveCalmly ==
    ASSUME TypeOK, faults' = 0, NEW path \in Folders, NEW file, NEW next, NEW r,
           RemoveFile(path, file, next, r)
    PROVE  /\ step' = next /\ ram' = r /\ UNCHANGED <<games, config>>
           /\ \A p \in Folders, f \in Files : f # file => disk'[p][f] = disk[p][f]
<1>1. step' = next /\ ram' = r
  BY GoCalmly DEF RemoveFile
<1>2. UNCHANGED <<games, config>>
  BY DEF RemoveFile
<1>3. \A p \in Folders, f \in Files : f # file => disk'[p][f] = disk[p][f]
  BY DEF RemoveFile, TypeOK
<1> QED BY <1>1, <1>2, <1>3

(* An operation under way is one the service is busy with; its last step   *)
(* is the one that finishes it.                                            *)
LEMMA OperationServed ==
    ASSUME TypeOK, Repairs, Here, Chosen, Operating, Next, faults = 0, faults' = 0, clean, clean',
           Here', step' = "done" => Found' = Service!Reached(Target)'
    PROVE  Service!Finish \/ UNCHANGED Service!serviceVars
<1> USE Fields
<1>1. /\ ram'.op = ram.op /\ ram'.arg = ram.arg /\ ram'.id = ram.id
      /\ step' # "off" /\ Living' = Living
  BY OperationCarriesOn DEF Carries, Ends
<1>2. clean = TRUE /\ clean' = TRUE
  BY Zenon DEF TypeOK
<1>3. Target' = Target
  BY <1>1 DEF Target
<1>4. Has = [to |-> Target, sure |-> TRUE]
  BY <1>2, Zenon DEF Has
<1>5. CASE step' = "done"
  <2>1. ~ Operating'
    BY <1>5 DEF Operating
  <2>2. Has' = Service!Reached(Target)
    BY <1>1, <1>3, <1>5, <2>1 DEF Has, Service!Reached
  <2>3. Target \in Service!Installations \union {Nothing}
    BY DEF Operating, Chosen, Target, Service!Installations
  <2>4. Has \in Service!Busy
    BY <1>4, <2>3 DEF Service!Busy
  <2> QED BY <1>1, <1>4, <2>2, <2>4 DEF Service!Finish, Has
<1>6. CASE step' # "done"
  <2>1. Operating'
    BY <1>1, <1>6 DEF Operating, Here, Route
  <2>2. Has' = [to |-> Target, sure |-> TRUE]
    BY <1>2, <1>3, <2>1, Zenon DEF Has
  <2> QED BY <1>1, <1>4, <2>2, HasStays
<1> QED BY <1>5, <1>6

(* The user begins an operation: from what the device has to what was      *)
(* chosen.                                                                 *)
LEMMA ChoiceServed ==
    ASSUME TypeOK, IInv, Here, Tidy, Choose, faults = 0, faults' = 0, clean, clean'
    PROVE  Service!Begin(TRUE) \/ UNCHANGED Service!serviceVars
<1> USE Fields
<1>1. step = "menu" /\ ram.op = "none" /\ ~ Operating /\ Has = Found /\ Found \in Service!Having
  <2>1. step = "menu"
    BY DEF Choose, Install, Change, Uninstall, DeletePbp, DeleteFlash
  <2>2. ram.op = "none"
    BY <2>1 DEF Here, Route
  <2> QED BY <2>1, <2>2, FoundTyped DEF Operating, Has
<1>2. clean' = TRUE
  BY Zenon
<1>b. ASSUME NEW next \in Steps \ {"done", "nofolder"}, NEW r \in Rams, Go(next, r), UNCHANGED card,
             r.op \in {"install", "change", "uninstall"}, r.op # "uninstall" => r.id \in Games,
             r.op = "uninstall" => Found # Nothing
      PROVE  Service!Begin(TRUE)
  <2> DEFINE target == IF r.op = "uninstall" THEN Nothing ELSE [release |-> r.arg, game |-> r.id]
  <2>1. step' = next /\ ram' = r /\ Living' = Living
    BY <1>b, LivingStays DEF Go, card, Next
  <2>2. Operating' /\ Target' = target
    BY <1>b, <2>1 DEF Operating, Target
  <2>3. Has' = [to |-> target, sure |-> TRUE]
    BY <1>2, <2>2, Zenon DEF Has
  <2>4. target \in Service!Installations \union {Nothing}
    BY <1>b DEF Service!Installations, Rams
  <2>5. target = Nothing => Found # Nothing
    BY <1>b, ServiceAssumption DEF Rams
  <2> HIDE DEF target
  <2>6. Has' \in Service!Busy /\ Has'.sure = TRUE /\ Has'.to = target
    BY <2>3, <2>4 DEF Service!Busy
  <2> QED BY <1>1, <2>1, <2>5, <2>6 DEF Service!Begin, Has
<1>3. ASSUME NEW release \in Releases, NEW game \in Games, Install(release, game) \/ Change(release, game)
      PROVE  Service!Begin(TRUE)
  <2>w. game \in Words
    BY InstallerAssumption
  <2>1. CASE Install(release, game)
    <3> DEFINE r == [ram EXCEPT !.op = "install", !.arg = release, !.id = game,
                        !.folder = IF release \in OldReleases THEN OldFolder ELSE @]
    <3>1. r \in Rams /\ r.op = "install" /\ r.id = game
      BY <2>w DEF Rams, Folders
    <3>2. Go("mkdir", r) /\ UNCHANGED card
      BY <2>1 DEF Install
    <3> HIDE DEF r
    <3> QED BY <1>b, <3>1, <3>2 DEF Steps
  <2>2. CASE Change(release, game)
    <3> DEFINE mode == IF Folder(release) = ram.folder THEN 0 ELSE 1
               r == [ram EXCEPT !.op = "change", !.arg = release, !.id = game, !.mode = mode]
               next == IF mode = 1 THEN "mkdir" ELSE IF ram.gameId # game THEN "rmpboot" ELSE "dircheck"
    <3>1. r \in Rams /\ r.op = "change" /\ r.id = game
      BY <2>w DEF Rams
    <3>2. Go(next, r) /\ UNCHANGED card
      BY <2>2 DEF Change
    <3>3. next \in Steps \ {"done", "nofolder"}
      BY DEF Steps
    <3> HIDE DEF r, next
    <3> QED BY <1>b, <3>1, <3>2, <3>3
  <2> QED BY <1>3, <2>1, <2>2
<1>4. CASE Uninstall
  <2> DEFINE r == [ram EXCEPT !.op = "uninstall", !.id = ram.gameId]
  <2>1. r \in Rams /\ r.op = "uninstall"
    BY DEF Rams
  <2>2. Go("rmfolder", r) /\ UNCHANGED card /\ ram.installed
    BY <1>4 DEF Uninstall
  <2>3. Exists(ram.folder, "skprx") /\ GetId(config[ram.tai], ram.folder) # NoId
    BY <1>1, <2>2 DEF Here, Checked, IInv, OpInv, GameNamed
  <2>4. FoundFolder = ram.folder
    BY <1>1, <2>3 DEF Tidy, FoundFolder, Folders
  <2>5. Seen = config[ram.tai] /\ LinesOf(Seen) = Seen
    BY <1>1, SeenInRun
  <2>6. Found # Nothing
    <3>1. EffectiveId # NoId
      BY <2>3, <2>4, <2>5 DEF EffectiveId, Seen
    <3>2. EffectiveId \in Living => EffectiveId \in Games
      BY DEF TypeOK, Living
    <3> QED BY <3>1, <3>2, ServiceAssumption DEF Found
  <2> HIDE DEF r
  <2> QED BY <1>b, <2>1, <2>2, <2>6 DEF Steps
<1>5. CASE DeletePbp \/ DeleteFlash
  <2>1. /\ step' = "menu" /\ ram' = ram /\ Living' = Living /\ config' = config
        /\ \A path \in Folders, file \in {"suprx", "skprx"} : disk'[path][file] = disk[path][file]
    <3>1. PICK option \in {"update", "bin"} : RemoveFile(ram.folder, option, "menu", ram)
      BY <1>5 DEF DeletePbp, DeleteFlash
    <3>2. /\ step' = "menu" /\ ram' = ram /\ UNCHANGED <<games, config>>
          /\ \A path \in Folders, file \in Files : file # option => disk'[path][file] = disk[path][file]
      BY <3>1, RemoveCalmly
    <3> QED BY <3>2, LivingStays DEF Files, Next
  <2>2. Found' = Found
    BY <1>1, <2>1, SeenStays, FoundStays
  <2>3. ~ Operating'
    BY <1>1, <2>1 DEF Operating
  <2> QED BY <1>1, <2>1, <2>2, <2>3, HasStays DEF Has
<1> QED BY <1>3, <1>4, <1>5 DEF Choose

(* The check removes an entry that works no more, and nothing else.        *)
LEMMA CheckServed ==
    ASSUME TypeOK, Here, Tidy, Here', Tidy', TypeOK', ram.op = "check", Check \/ Rewrite \/ Operate,
           step # "off", faults = 0, faults' = 0
    PROVE  Service!Heal \/ UNCHANGED Service!serviceVars
<1> USE Fields
<1>1. ~ Operating /\ Has = Found /\ Found \in Service!Having
  BY FoundTyped DEF Operating, Has
<1>l. games' = games => Living' = Living
  BY LivingStays DEF Next
<1>s. \/ step \in {"unhook", "rmskprx", "rmsuprx"} /\ ~ ram.installed
      \/ Deleting /\ ~ ram.installed
      \/ step = "size"
  BY DEF Here, Route
<1>q. ASSUME Found' = Found, Living' = Living, ~ Operating' PROVE UNCHANGED Service!serviceVars
  BY <1>1, <1>q, HasStays DEF Has
<1>2. CASE step \in {"rmskprx", "rmsuprx"}
  <2>1. /\ step' \in {"rmsuprx", "size"} /\ ram' = ram /\ Living' = Living /\ config' = config
    BY <1>2, <1>l, RemoveCalmly DEF Check, Launch, StartCheck, RemoveSkprx, RemoveSuprx, CheckUpdate, Rewrite, Hook,
          Unhook, RemoveConfig, CopyTemp, DropTemp, Operate, MakeFolder, CopySuprx, CopySkprx, CopyUsb,
          CopyPboot, RemovePboot, WriteVersion, GetUpdate, SaveUpdate, RemoveFolder, CheckFolder,
          RemoveBin, Files
  <2>2. \A path \in Folders : ~ Names(config[ram.tai], path)
    BY <1>2 DEF Here, Text, Unhooked, Tidy
  <2>3. Seen = config[ram.tai] /\ LinesOf(Seen) = Seen
    BY <1>2, SeenInRun
  <2>4. Seen' = Seen
    BY <1>2, <2>1, SeenStays
  <2>5. Found = Nothing /\ Found' = Nothing
    BY <2>2, <2>3, <2>4, NamelessHasNothing, NamelessHasNothingNext
  <2> QED BY <1>q, <2>1, <2>5 DEF Operating
<1>3. CASE step = "size"
  <2>1. CheckUpdate
    BY <1>3 DEF Check, Launch, StartCheck, RemoveSkprx, RemoveSuprx, Rewrite, Hook,
          Unhook, RemoveConfig, CopyTemp, DropTemp, Operate, MakeFolder, CopySuprx, CopySkprx, CopyUsb,
          CopyPboot, RemovePboot, WriteVersion, GetUpdate, SaveUpdate, RemoveFolder, CheckFolder, RemoveBin
  <2> DEFINE r == [ram EXCEPT !.op = "none", !.gameId = IF ram.installed THEN @ ELSE NoId]
  <2>2. /\ step' = "menu" /\ ram' = r /\ Living' = Living /\ config' = config
        /\ \A path \in Folders, file \in {"suprx", "skprx"} : disk'[path][file] = disk[path][file]
    <3>1. CASE RemoveFile(ram.folder, "update", "menu", r)
      <4>1. /\ step' = "menu" /\ ram' = r /\ UNCHANGED <<games, config>>
            /\ \A path \in Folders, file \in Files : file # "update" => disk'[path][file] = disk[path][file]
        BY <3>1, RemoveCalmly
      <4> QED BY <1>l, <4>1 DEF Files
    <3>2. CASE Go("menu", r) /\ UNCHANGED card
      BY <1>l, <3>2 DEF Go, card
    <3>3. ~ GoWrong("menu", r)
      BY InstallerAssumption DEF GoWrong, TypeOK
    <3> QED BY <2>1, <3>1, <3>2, <3>3 DEF CheckUpdate
  <2>3. r.op = "none"
    BY DEF Rams
  <2> HIDE DEF r
  <2>4. Found' = Found
    BY <1>3, <2>2, SeenStays, FoundStays
  <2> QED BY <1>q, <2>2, <2>3, <2>4 DEF Operating
<1>4. CASE step = "unhook"
  <2>1. Unhook
    BY <1>4 DEF Check, Launch, StartCheck, RemoveSkprx, RemoveSuprx, CheckUpdate, Rewrite, Hook,
          RemoveConfig, CopyTemp, DropTemp, Operate, MakeFolder, CopySuprx, CopySkprx, CopyUsb,
          CopyPboot, RemovePboot, WriteVersion, GetUpdate, SaveUpdate, RemoveFolder, CheckFolder, RemoveBin
  <2> DEFINE r == [ram EXCEPT !.edit = "delete"]
  <2>2. step' = "unlink" /\ ram' = r /\ UNCHANGED <<disk, Living, config>>
    <3>1. config[ram.tai] # Missing
      BY <1>4 DEF Here, Text
    <3> QED BY <1>l, <2>1, <3>1, GoCalmly DEF Unhook, EditTo
  <2>3. r.op = "check"
    BY DEF Rams
  <2> HIDE DEF r
  <2>4. Found' = Found
    BY <1>4, <2>2, SeenStays, FoundStays
  <2> QED BY <1>q, <2>2, <2>3, <2>4 DEF Operating
<1>5. CASE step \in {"copy", "drop"}
  <2>1. CopyTemp \/ DropTemp
    BY <1>5 DEF Check, Launch, StartCheck, RemoveSkprx, RemoveSuprx, CheckUpdate, Rewrite, Hook, Unhook,
          RemoveConfig, Operate, MakeFolder, CopySuprx, CopySkprx, CopyUsb,
          CopyPboot, RemovePboot, WriteVersion, GetUpdate, SaveUpdate, RemoveFolder, CheckFolder, RemoveBin
  <2>2. /\ ram' = ram /\ UNCHANGED <<disk, Living>> /\ step' \notin {"copy", "off"}
        /\ step = "copy" => config'[ram.tai] = temp
        /\ step = "drop" => config' = config
    BY <1>l, <2>1, GoCalmly, AfterRewriteTyped DEF CopyTemp, DropTemp, TypeOK
  <2>3. Seen' = Seen
    BY <1>5, <2>2, SeenInRun, SeenInRunNext
  <2>4. Found' = Found
    BY <2>2, <2>3, FoundStays
  <2> QED BY <1>q, <2>2, <2>4 DEF Operating
<1>6. CASE step = "unlink"
  <2>1. RemoveConfig
    BY <1>6 DEF Check, Launch, StartCheck, RemoveSkprx, RemoveSuprx, CheckUpdate, Rewrite, Hook, Unhook,
          CopyTemp, DropTemp, Operate, MakeFolder, CopySuprx, CopySkprx, CopyUsb,
          CopyPboot, RemovePboot, WriteVersion, GetUpdate, SaveUpdate, RemoveFolder, CheckFolder, RemoveBin
  <2>2. ram' = ram /\ UNCHANGED <<disk, Living, temp>> /\ step' = "copy"
    BY <1>l, <2>1, GoCalmly DEF RemoveConfig
  <2>3. \A path \in Folders : ~ Names(temp, path)
    BY <1>6, <1>s DEF Here, Text, Unhooked, Tidy
  <2>4. Found' = Nothing
    BY <2>2, <2>3, SeenInRunNext, NamelessHasNothingNext
  <2>5. Seen = config[ram.tai] /\ LinesOf(Seen) = Seen
    BY <1>6, SeenInRun
  <2>6. Found \in {Nothing, Broken}
    <3>1. ~ (Exists(ram.folder, "skprx") /\ GetId(config[ram.tai], ram.folder) \in Living)
      BY <1>6 DEF Tidy
    <3>2. FoundFolder \in Folders
      BY DEF FoundFolder, Folders
    <3>3. CASE FoundFolder = ram.folder
      <4>1. EffectiveId = GetId(config[ram.tai], ram.folder)
        BY <2>5, <3>3 DEF EffectiveId, Seen
      <4> QED BY <3>1, <3>3, <4>1, InstallerAssumption DEF Found, Exists
    <3>4. CASE FoundFolder # ram.folder
      <4>1. ~ Names(config[ram.tai], FoundFolder)
        BY <1>6, <3>2, <3>4 DEF Tidy
      <4>2. EffectiveId = NoId
        BY <2>5, <4>1, NamelessHasNoId DEF EffectiveId, Seen
      <4> QED BY <4>2 DEF Found
    <3> QED BY <3>3, <3>4
  <2>7. ~ Operating'
    BY <2>2 DEF Operating
  <2>8. Found = Broken => Service!Heal
    BY <1>1, <2>2, <2>4, <2>7 DEF Service!Heal, Has
  <2>9. Found = Nothing => UNCHANGED Service!serviceVars
    BY <1>q, <2>2, <2>4, <2>7
  <2> QED BY <2>6, <2>8, <2>9
<1> QED BY <1>s, <1>2, <1>3, <1>4, <1>5, <1>6 DEF Deleting, Rewriting

LEMMA DoneFoundNext ==
    (TypeOK /\ Here /\ Tidy /\ step = "done")' => (Found = Service!Reached(Target))'
BY DoneFound, PTL

(* Whoever deletes a game deletes an installation with it.                 *)
LEMMA DeletionServed ==
    ASSUME TypeOK, ram.op = "none", NEW game \in Games, DeleteGame(game)
    PROVE  Service!DeleteGame \/ UNCHANGED Service!serviceVars
<1>1. /\ Living' = Living \ {game} /\ faults' = faults
      /\ UNCHANGED <<disk, config, step, ram>> /\ step \in {"off", "menu"}
  BY DEF DeleteGame, history, Living
<1>2. ~ Operating /\ ~ Operating' /\ Found \in Service!Having
  BY <1>1, FoundTyped DEF Operating
<1>3. Seen' = Seen
  BY <1>1, SeenStays
<1>4. FoundFolder' = FoundFolder
  BY <1>1 DEF FoundFolder, Exists
<1>5. EffectiveId' = EffectiveId
  BY <1>3, <1>4 DEF EffectiveId, Seen
<1>6. Found' = IF Found \in Service!Installations /\ Found.game = game THEN Broken ELSE Found
  <2> DEFINE release == disk[FoundFolder]["suprx"]
  <2>1. CASE EffectiveId = NoId
    BY <1>5, <2>1, ServiceAssumption DEF Found, Service!Installations
  <2>2. CASE /\ EffectiveId # NoId /\ EffectiveId \in Living
             /\ release \in Releases /\ disk[FoundFolder]["skprx"] = release
    <3>1. Found = [release |-> release, game |-> EffectiveId]
      BY <2>2 DEF Found
    <3>2. Found \in Service!Installations /\ Found.game = EffectiveId
      BY <2>2, <3>1 DEF Service!Installations, TypeOK, Living
    <3>3. Found' = IF EffectiveId = game THEN Broken ELSE Found
      BY <1>1, <1>4, <1>5, <2>2, <3>1 DEF Found
    <3> QED BY <3>2, <3>3
  <2>3. CASE /\ EffectiveId # NoId
             /\ ~ (EffectiveId \in Living /\ release \in Releases /\ disk[FoundFolder]["skprx"] = release)
    <3>1. Found = Broken /\ Found' = Broken
      BY <1>1, <1>4, <1>5, <2>3 DEF Found
    <3> QED BY <3>1
  <2> QED BY <2>1, <2>2, <2>3
<1>7. Has = Found /\ Has' = Found'
  BY <1>2 DEF Has
<1>8. CASE game \in Living
  BY <1>1, <1>2, <1>6, <1>7, <1>8 DEF Service!DeleteGame, Has
<1>9. CASE game \notin Living
  <2>1. Living' = Living
    BY <1>1, <1>9
  <2>2. Found' = Found
    BY <1>1, <1>3, <2>1, FoundStays
  <2> QED BY <1>1, <1>7, <2>1, <2>2, HasStays
<1> QED BY <1>8, <1>9

LEMMA StepServed ==
    TypeOK /\ IInv /\ Full /\ Repairs /\ TypeOK' /\ Full' /\ [Next]_vars => FaultlessStep
<1> SUFFICES ASSUME TypeOK, IInv, Full, Repairs, TypeOK', Full', [Next]_vars, faults' = 0
             PROVE  Service!Next \/ UNCHANGED Service!serviceVars
  BY DEF FaultlessStep
<1> USE Fields
<1>1. /\ faults = 0 /\ (clean => clean')
      /\ step' # "off" \/ Quit \/ World \/ Refuse \/ UNCHANGED vars
  BY FaultsBefore
<1>2. clean /\ Tidy /\ clean' /\ Tidy'
  BY <1>1, Zenon DEF Full, Faultless
<1>3. (step # "off" => Here) /\ (step' # "off" => Here')
  BY <1>2, Zenon DEF Full, Whole
<1>4. Chosen
  BY DEF Full
<1>q. ASSUME ~ Operating, ~ Operating', Found' = Found, Living' = Living
      PROVE  UNCHANGED Service!serviceVars
  BY <1>1, <1>q, HasStays DEF Has
<1>5. CASE Refuse \/ UNCHANGED vars
  <2>1. UNCHANGED <<disk, Living, config, temp, step, ram, clean, faults>>
    BY <1>5 DEF Refuse, vars, card, history, Living
  <2>2. UNCHANGED <<Operating, Target, Found>>
    BY <2>1 DEF Operating, Target, Found, EffectiveId, EffectiveTai, Effective, FoundFolder, Exists
  <2> QED BY <2>1, <2>2, HasStays DEF Has
<1>6. CASE Launch
  <2>1. /\ step = "off" /\ step' \in {"unhook", "size"} /\ ram'.op = "check"
        /\ UNCHANGED <<disk, Living, config>>
    BY <1>6, LivingStays DEF Launch, StartCheck, Fresh, card
  <2>2. Found' = Found
    BY <2>1, SeenStays, FoundStays
  <2> QED BY <1>4, <1>q, <2>1, <2>2 DEF Operating, Chosen
<1>7. CASE World
  <2>1. ram.op = "none"
    <3>1. step \in {"off", "menu"}
      BY <1>7 DEF World, DeleteGame, RunAdrenaline
    <3> QED BY <1>3, <1>4, <3>1 DEF Chosen, Here, Route
  <2>2. ASSUME NEW game \in Games, DeleteGame(game) PROVE Service!DeleteGame \/ UNCHANGED Service!serviceVars
    BY <2>1, <2>2, DeletionServed
  <2>3. ASSUME NEW path \in Folders, RunAdrenaline(path) PROVE UNCHANGED Service!serviceVars
    <3>1. /\ UNCHANGED <<Living, config, step, ram>> /\ step = "off"
          /\ \A p \in Folders, file \in {"suprx", "skprx"} : disk'[p][file] = disk[p][file]
      BY <2>3, LivingStays DEF RunAdrenaline, TypeOK, Files
    <3>2. Found' = Found
      BY <3>1, SeenStays, FoundStays
    <3> QED BY <1>q, <2>1, <3>1, <3>2 DEF Operating
  <2> QED BY <1>7, <2>2, <2>3 DEF World, Service!Next
<1>8. CASE Quit
  <2>1. /\ step \in {"menu", "done", "nofolder"} /\ step' = "off" /\ ram' = Fresh
        /\ UNCHANGED <<disk, Living, config>>
    BY <1>8, LivingStays DEF Quit, Go, card
  <2>2. Found' = Found
    BY <2>1, SeenStays, FoundStays
  <2>3. ~ Operating /\ ~ Operating'
    BY <1>3, <2>1 DEF Operating, Fresh, Here, Route
  <2> QED BY <1>q, <2>1, <2>2, <2>3
<1>9. CASE PowerLoss
  BY <1>1, <1>9 DEF PowerLoss
<1>10. CASE Choose
  <2>1. step # "off"
    BY <1>10 DEF Choose, Install, Change, Uninstall, DeletePbp, DeleteFlash
  <2> QED BY <1>1, <1>2, <1>3, <1>10, <2>1, ChoiceServed DEF Service!Next
<1>11. CASE (Check \/ Rewrite \/ Operate) /\ ~ Launch
  <2>1. step \notin {"off", "menu", "done", "nofolder"}
    BY <1>11 DEF Check, RemoveSkprx, RemoveSuprx, CheckUpdate, Rewrite, Hook, Unhook, RemoveConfig,
          CopyTemp, DropTemp, Operate, MakeFolder, CopySuprx, CopySkprx, CopyUsb, CopyPboot, RemovePboot,
          WriteVersion, GetUpdate, SaveUpdate, RemoveFolder, CheckFolder, RemoveBin
  <2>2. Here /\ ram.op # "none"
    BY <1>3, <2>1 DEF Here, Route
  <2>3. step' # "off" \/ UNCHANGED vars
    BY <1>1, <2>1 DEF Quit, World, DeleteGame, RunAdrenaline, Refuse
  <2>4. CASE step' # "off" /\ Operating
    <3>1. Here'
      BY <1>3, <2>4
    <3>2. step' = "done" => Found' = Service!Reached(Target)'
      BY <1>2, <3>1, DoneFoundNext
    <3>3. Next
      BY <1>11 DEF Next
    <3> QED BY <1>1, <1>2, <1>4, <2>2, <2>4, <3>1, <3>2, <3>3, OperationServed DEF Service!Next
  <2>5. CASE step' # "off" /\ ~ Operating
    <3>1. ram.op = "check"
      BY <2>1, <2>2, <2>5, RamShape DEF Operating
    <3> QED BY <1>1, <1>2, <1>3, <1>11, <2>1, <2>2, <2>5, <3>1, CheckServed DEF Service!Next
  <2> QED BY <1>5, <2>3, <2>4, <2>5
<1> QED BY <1>5, <1>6, <1>7, <1>8, <1>9, <1>10, <1>11 DEF Next

(* Until something goes wrong the installer is the service of              *)
(* InstallService, for any games, releases and configs and over any number *)
(* of runs: every operation leads from what the device has to exactly what *)
(* was chosen, as the next start will find it, and nothing but an          *)
(* operation, the user and the check of an entry that works no more        *)
(* changes what the device has.                                            *)
THEOREM ServiceWithoutFaults == Spec => FaultlessService
<1>1. TypeOK /\ IInv /\ Full /\ Repairs /\ TypeOK' /\ Full' /\ [Next]_vars => [FaultlessStep]_vars
  BY StepServed
<1> QED BY <1>1, ServiceInit, TypeCorrect, Invariant, FullInvariant, RepairsInvariant, PTL
        DEF Spec, FaultlessService

-----------------------------------------------------------------------------
(* The service under any number of faults.                                 *)

(* Where a start finds the config, when one place holds one.               *)
LEMMA SeenAt ==
    \A t \in Places : step # "copy" /\ (\A p \in Places : p # t => config[p] = Missing) => Seen = config[t]
<1> SUFFICES ASSUME NEW t \in Places, step # "copy", \A p \in Places : p # t => config[p] = Missing
             PROVE  Seen = config[t]
  OBVIOUS
<1>1. Effective = config
  BY DEF Effective
<1>2. t \in {"ux0", "ur0"}
  BY DEF Places
<1> QED BY <1>1, <1>2 DEF Seen, EffectiveTai, Places

LEMMA SeenRunning ==
    TypeOK /\ OnePlace /\ step # "off" =>
        Seen = (IF step = "copy" /\ config[ram.tai] = Missing THEN temp ELSE config[ram.tai])
<1> SUFFICES ASSUME TypeOK, OnePlace, step # "off"
             PROVE  Seen = (IF step = "copy" /\ config[ram.tai] = Missing THEN temp ELSE config[ram.tai])
  OBVIOUS
<1> USE Fields
<1>1. \A p \in Places : p # ram.tai => config[p] = Missing /\ Effective[p] = Missing
  BY DEF OnePlace, Effective, TypeOK
<1>2. Effective[ram.tai] = (IF step = "copy" /\ config[ram.tai] = Missing THEN temp ELSE config[ram.tai])
  BY DEF Effective, TypeOK
<1>3. ram.tai \in {"ux0", "ur0"}
  BY DEF Places
<1>4. Seen = Effective[ram.tai]
  BY <1>1, <1>3 DEF Seen, EffectiveTai, Places
<1> QED BY <1>2, <1>4

LEMMA FoundInOneFolder == OneFolder => FoundFolder = NewFolder /\ ram.folder = NewFolder
BY DEF OneFolder, FoundFolder

LEMMA EntryFound == TypeOK /\ OnePlace /\ OneFolder /\ step \notin {"off", "copy"} => EffectiveId = Entry
<1> SUFFICES ASSUME TypeOK, OnePlace, OneFolder, step \notin {"off", "copy"} PROVE EffectiveId = Entry
  OBVIOUS
<1>1. Seen = config[ram.tai]
  BY SeenRunning
<1> QED BY <1>1, FoundInOneFolder DEF EffectiveId, Entry, Seen

LEMMA CheckedFound ==
    ASSUME TypeOK, OnePlace, Repairs, OneFolder, ram.op = "check"
    PROVE  EffectiveId = Entry
<1> USE Fields
<1>1. step # "off" /\ (step = "copy" => ~ Names(temp, ram.folder))
  BY DEF Repairs
<1>2. Seen = config[ram.tai] \/ (Seen = temp /\ config[ram.tai] = Missing /\ step = "copy")
  BY <1>1, SeenRunning
<1>3. EffectiveId = EntryOf(Seen)
  BY FoundInOneFolder DEF EffectiveId, EntryOf, Seen
<1>4. Entry = EntryOf(config[ram.tai]) /\ EntryOf(Missing) = NoId
  BY EmptyHasNoId DEF Entry, EntryOf
<1>5. step = "copy" => EntryOf(temp) = NoId
  BY <1>1, NamelessText DEF EntryOf
<1> QED BY <1>2, <1>3, <1>4, <1>5

LEMMA NextSeenAt ==
    (\A t \in Places :
        step # "copy" /\ (\A p \in Places : p # t => config[p] = Missing) => Seen = config[t])'
BY SeenAt, PTL

LEMMA NextSeenRunning ==
    (TypeOK /\ OnePlace /\ step # "off")' =>
        (Seen = (IF step = "copy" /\ config[ram.tai] = Missing THEN temp ELSE config[ram.tai]))'
BY SeenRunning, PTL

LEMMA NextFoundTyped == TypeOK' => Found' \in Service!Having
<1>1. TypeOK' => (Found \in Service!Having)'
  BY FoundTyped, PTL
<1> QED BY <1>1 DEF Service!Having, Service!Installations

LEMMA NextFoundInOneFolder == OneFolder' => (FoundFolder = NewFolder /\ ram.folder = NewFolder)'
BY FoundInOneFolder, PTL

(* Beside the operations a fault does no harm.                             *)
LEMMA NothingHappens ==
    ASSUME TypeOK, ~ Operating, ~ Operating', Found' = Found, Living' = Living, faults' \in {faults, faults + 1}
    PROVE  Service!Fault \/ UNCHANGED Service!serviceVars
<1>1. Has = Found /\ Has' = Has /\ Found \in Service!Having
  BY FoundTyped DEF Has
<1>2. CASE faults' = faults
  BY <1>1, <1>2, HasStays
<1>3. CASE faults' = faults + 1
  BY <1>1, <1>3 DEF Service!Fault, Has
<1> QED BY <1>2, <1>3

(* The check mends what is broken, and what it breaks off stays broken.    *)
LEMMA RepairServed ==
    ASSUME TypeOK, OnePlace, Repairs, OneFolder, TypeOK', OnePlace', OneFolder', ram.op = "check",
           Check \/ Rewrite \/ Operate
    PROVE  Service!Heal \/ Service!Fault \/ UNCHANGED Service!serviceVars
<1> USE Fields
<1>1. PICK next, r : Mends /\ Ends(next, r) /\ MendsOn(next, r)
  BY RepairMends
<1>2. /\ ~ Operating /\ ~ Operating' /\ Living' = Living
      /\ faults' \in {faults, faults + 1}
  BY <1>1 DEF Operating, Ends, Mends, MendsOn, Fresh, history
<1>3. EffectiveId = Entry
  BY CheckedFound
<1>4. EffectiveId' \in {Entry, NoId} /\ (ram.installed => EffectiveId' = Entry)
  <2>1. \A p \in Places : p # ram.tai => config'[p] = Missing
    BY <1>1 DEF Mends, OnePlace, Repairs
  <2>2. EffectiveId' = EntryOf(Seen')
    BY FoundInOneFolder, NextFoundInOneFolder DEF EffectiveId, Seen, EntryOf
  <2>3. CASE step' = "copy" /\ config'[ram.tai] = Missing
    <3>1. step' = next /\ ram' = r /\ next = "copy" /\ r.tai = ram.tai
      BY <1>1, <2>3 DEF Ends, MendsOn
    <3>2. Seen' = temp' /\ ~ Names(temp', ram.folder)
      BY <1>1, <2>3, <3>1, NextSeenRunning DEF MendsOn
    <3>3. EffectiveId' = NoId
      BY <2>2, <3>2, NamelessText DEF EntryOf
    <3>4. ~ ram.installed
      BY <1>1, <3>1 DEF MendsOn, Repairs
    <3> QED BY <3>3, <3>4
  <2>4. CASE step' # "copy"
    <3>1. Seen' = config'[ram.tai]
      BY <2>1, <2>4, NextSeenAt
    <3> QED BY <1>1, <2>2, <3>1 DEF Mends, Entry, EntryOf
  <2>5. CASE step' = "copy" /\ config'[ram.tai] # Missing
    <3>1. step' = next /\ ram' = r /\ r.tai = ram.tai
      BY <1>1, <2>5 DEF Ends, MendsOn
    <3>2. Seen' = config'[ram.tai]
      BY <2>5, <3>1, NextSeenRunning
    <3> QED BY <1>1, <2>2, <3>2 DEF Mends, Entry, EntryOf
  <2> QED BY <2>3, <2>4, <2>5
<1>5. FoundFolder = NewFolder /\ FoundFolder' = NewFolder /\ ram.folder = NewFolder /\ NewFolder \in Folders
  BY FoundInOneFolder, NextFoundInOneFolder DEF Folders
<1>6. CASE ram.installed
  <2>1. Found' = Found
    BY <1>1, <1>2, <1>3, <1>4, <1>5, <1>6 DEF Found, Mends, Plugins
  <2> QED BY <1>2, <2>1, NothingHappens
<1>7. CASE ~ ram.installed
  <2>1. /\ Entry \in {NoId, ram.gameId}
        /\ ~ Exists(NewFolder, "skprx") \/ ram.gameId \notin Living
    BY <1>5, <1>7 DEF Repairs
  <2>2. ~ Exists(NewFolder, "skprx")' \/ ram.gameId \notin Living'
    BY <1>1, <1>5, <2>1 DEF Mends, Exists
  <2>3. Absent \notin Releases
    BY InstallerAssumption
  <2>4. Found = IF Entry = NoId THEN Nothing ELSE Broken
    BY <1>3, <1>5, <2>1, <2>3 DEF Found, Exists
  <2>5. Found' = IF EffectiveId' = NoId THEN Nothing ELSE Broken
    BY <1>4, <1>5, <2>1, <2>2, <2>3 DEF Found, Exists
  <2>6. Found' = Found \/ (Found = Broken /\ Found' = Nothing)
    BY <1>4, <2>4, <2>5
  <2>7. ASSUME Found = Broken, Found' = Nothing
        PROVE  Service!Heal \/ Service!Fault
    <3>1. Has = Broken /\ Has' = Nothing
      BY <1>2, <2>7 DEF Has
    <3> QED BY <1>2, <3>1 DEF Service!Heal, Service!Fault, Has
  <2> QED BY <1>2, <2>6, <2>7, NothingHappens
<1> QED BY <1>6, <1>7

(* What an operation leaves when nothing failed in its run, whatever       *)
(* failed in earlier ones.                                                 *)
LEMMA DoneFoundOnce ==
    TypeOK /\ OnePlace /\ OneFolder /\ Here /\ step = "done" => Found = Service!Reached(Target)
<1> SUFFICES ASSUME TypeOK, OnePlace, OneFolder, Here, step = "done"
             PROVE  Found = Service!Reached(Target)
  OBVIOUS
<1> USE Fields
<1> DEFINE c == config[ram.tai]
<1>1. Seen = c /\ c # Missing /\ FoundFolder = ram.folder
  BY SeenRunning, FoundInOneFolder DEF Here, Text
<1>2. EffectiveId = GetId(c, ram.folder)
  BY <1>1 DEF EffectiveId, Seen, LinesOf
<1>3. CASE ram.op \in {"install", "change"}
  <2>1. /\ ram.arg \in Releases /\ NoId \notin Games
    BY InstallerAssumption
  <2>2. disk[ram.folder]["suprx"] = ram.arg /\ disk[ram.folder]["skprx"] = ram.arg
    BY <1>3 DEF Here, Placement, FilesPut, Placed
  <2>3. EffectiveId = ram.id /\ ram.id \in Games
    BY <1>2, <1>3 DEF Here, Route, Text, Hooked
  <2>4. Target = [release |-> ram.arg, game |-> ram.id] /\ Target # Nothing
    <3>1. [release |-> ram.arg, game |-> ram.id] \in [release : Releases, game : Games]
      BY <2>1, <2>3
    <3> QED BY <1>3, <3>1, ServiceAssumption DEF Target
  <2> QED BY <1>1, <2>1, <2>2, <2>3, <2>4 DEF Found, Service!Reached
<1>4. CASE ram.op = "uninstall"
  <2>1. EffectiveId = NoId
    BY <1>2, <1>4, NamelessHasNoId DEF Here, Text, Unhooked
  <2> QED BY <1>4, <2>1 DEF Found, Target, Service!Reached
<1> QED BY <1>3, <1>4, RamShape DEF Here, Route, Deleting, Rewriting

LEMMA NextDoneFoundOnce ==
    (TypeOK /\ OnePlace /\ OneFolder /\ Here /\ step = "done")' => (Found = Service!Reached(Target))'
BY DoneFoundOnce, PTL

(* An operation runs to its end: surely, when no call of its run failed.   *)
LEMMA OperationServedAnyway ==
    ASSUME TypeOK, Repairs, Chosen, Operating, Next, TypeOK', OnePlace', OneFolder', Whole'
    PROVE  Service!FaultyNext \/ UNCHANGED Service!serviceVars
<1> USE Fields
<1>1. PICK r \in Rams, next \in Steps \ {"off", "menu", "size", "rmskprx", "rmsuprx"} :
         Ends(next, r) /\ r.op = ram.op /\ r.arg = ram.arg /\ r.id = ram.id
  BY OperationCarriesOn DEF Carries
<1>2. Living' = Living /\ Found' \in Service!Having
  BY OperationCarriesOn, NextFoundTyped DEF Carries
<1>3. Has = [to |-> Target, sure |-> clean] /\ Has \in Service!Busy
  <2>1. Target \in Service!Installations \union {Nothing}
    BY DEF Operating, Chosen, Target, Service!Installations
  <2>2. clean \in BOOLEAN
    BY Zenon DEF TypeOK
  <2>3. Has = [to |-> Target, sure |-> clean]
    BY Zenon DEF Has
  <2> QED BY <2>1, <2>2, <2>3, Zenon DEF Service!Busy
<1>4. CASE step' = "off" /\ ram' = Fresh /\ faults' = faults + 1
  <2>1. Has' = Found'
    BY <1>4 DEF Has, Operating, Fresh
  <2> QED BY <1>2, <1>3, <1>4, <2>1 DEF Service!Fault, Service!FaultyNext, Has
<1>5. CASE step' = next /\ ram' = r /\ UNCHANGED history
  <2>1. Target' = Target /\ faults' = faults
    BY <1>1, <1>5 DEF Target, history
  <2>2. clean' = clean
    BY <1>5, Zenon DEF history
  <2>3. CASE step' \notin {"done", "nofolder"}
    <3>1. Operating'
      BY <1>1, <1>5, <2>3 DEF Operating
    <3>2. Has' = Has
      BY <1>3, <2>1, <2>2, <3>1, Zenon DEF Has
    <3> QED BY <1>2, <2>1, <3>2, HasStays
  <2>4. CASE step' \in {"done", "nofolder"} /\ clean
    <3>1. Here'
      BY <1>1, <1>5, <2>2, <2>4, Zenon DEF Whole
    <3>2. step' = "done"
      BY <2>4, <3>1 DEF Here, Route
    <3>3. Found' = Service!Reached(Target)
      BY <1>2, <2>1, <3>1, <3>2, NextDoneFoundOnce DEF Service!Reached
    <3>4. Has' = Service!Reached(Target)
      BY <3>2, <3>3 DEF Has, Operating
    <3>5. Has.to = Target /\ Has.sure
      BY <1>3, <2>4, Zenon
    <3> QED BY <1>2, <1>3, <2>1, <3>4, <3>5 DEF Service!Finish, Service!Next, Service!FaultyNext, Has
  <2>5. CASE step' \in {"done", "nofolder"} /\ ~ clean
    <3>1. Has' = Found'
      BY <2>5 DEF Has, Operating
    <3>2. ~ Has.sure
      BY <1>3, <2>5, Zenon
    <3> QED BY <1>2, <1>3, <2>1, <3>1, <3>2 DEF Service!FinishSpoiled, Service!FaultyNext, Has
  <2> QED BY <2>3, <2>4, <2>5
<1>6. CASE step' = next /\ ram' = r /\ faults' = faults + 1 /\ clean' = FALSE
  <2>1. Target' = Target
    BY <1>1, <1>6 DEF Target
  <2>2. CASE step' \notin {"done", "nofolder"}
    <3>1. Operating'
      BY <1>1, <1>6, <2>2 DEF Operating
    <3>2. Has' = [to |-> Target, sure |-> FALSE]
      BY <1>6, <2>1, <3>1, Zenon DEF Has
    <3>3. Has.to = Target
      BY <1>3, Zenon
    <3>4. Has' = [to |-> Has.to, sure |-> FALSE]
      BY <3>2, <3>3, Zenon
    <3>5. Service!Fault
      BY <1>2, <1>3, <1>6, <3>4, Zenon DEF Service!Fault, Has
    <3> QED BY <3>5 DEF Service!FaultyNext
  <2>3. CASE step' \in {"done", "nofolder"}
    <3>1. Has' = Found'
      BY <2>3 DEF Has, Operating
    <3> QED BY <1>2, <1>3, <1>6, <3>1 DEF Service!Fault, Service!FaultyNext, Has
  <2> QED BY <2>2, <2>3
<1> QED BY <1>1, <1>4, <1>5, <1>6 DEF Ends

(* Whatever earlier runs left, an operation begins from what the device    *)
(* has.                                                                    *)
LEMMA ChoiceServedAnyway ==
    ASSUME TypeOK, OnePlace, Repairs, OneFolder, TypeOK', Choose
    PROVE  Service!FaultyNext \/ UNCHANGED Service!serviceVars
<1> USE Fields
<1>1. /\ step = "menu" /\ ram.op = "none" /\ ~ Operating /\ UNCHANGED <<Living, config>>
      /\ \A path \in Folders, file \in Plugins : disk'[path][file] = disk[path][file]
  BY ChoiceMoves, LivingStays DEF Repairs, Operating, Next
<1>2. PICK next, r :
         /\ Ends(next, r) /\ r \in Rams /\ r.tai = ram.tai
         /\ (next = "menu" /\ r = ram) \/ Begins(next, r)
  BY ChoiceMoves DEF Chooses
<1>f. faults \in Nat
  BY InstallerAssumption DEF TypeOK
<1>3. CASE (step' = "off" /\ ram' = Fresh) \/ (next = "menu" /\ r = ram)
  <2>1. step' \in {"off", "menu"} /\ ~ Operating'
    BY <1>1, <1>2, <1>3 DEF Ends, Operating, Fresh
  <2>2. Found' = Found
    BY <1>1, <2>1, SeenStays, FoundStays DEF Plugins
  <2>3. faults' \in {faults, faults + 1}
    BY <1>2 DEF Ends, history
  <2> QED BY <1>1, <2>1, <2>2, <2>3, NothingHappens DEF Service!FaultyNext
<1>4. CASE step' = next /\ ram' = r /\ Begins(next, r)
  <2>1. faults' = faults
    BY <1>4 DEF Begins, history
  <2>2. Operating'
    BY <1>4 DEF Begins, Operating
  <2>3. Target' \in Service!Installations \union {Nothing}
    BY <1>2, <1>4 DEF Begins, Target, Service!Installations, Rams
  <2>4. clean' \in BOOLEAN
    BY Zenon DEF TypeOK
  <2>5. Has' = [to |-> Target', sure |-> clean'] /\ Has' \in Service!Busy
    <3>1. Has' = [to |-> Target', sure |-> clean']
      BY <2>2, Zenon DEF Has
    <3> QED BY <2>3, <2>4, <3>1, Zenon DEF Service!Busy
  <2>6. Has'.to = Target' /\ Has'.sure \in {TRUE, FALSE}
    BY <2>4, <2>5, Zenon
  <2>7. Found = Nothing => Target' # Nothing
    <3>1. CASE r.op = "uninstall" /\ ram.installed
      <4>1. EffectiveId # NoId
        BY <1>1, <3>1, EntryFound DEF Repairs
      <4>2. \A id \in Living : id \in Games
        BY DEF TypeOK, Living
      <4> QED BY <4>1, <4>2, ServiceAssumption DEF Found
    <3>2. CASE r.op \in {"install", "change"} /\ r.id \in Games
      <4>1. Target' = [release |-> r.arg, game |-> r.id] /\ r.arg \in Releases
        BY <1>2, <1>4, <3>2 DEF Target, Rams
      <4> QED BY <3>2, <4>1, ServiceAssumption
    <3> QED BY <1>4, <3>1, <3>2 DEF Begins
  <2>8. Has = Found /\ Found \in Service!Having
    BY <1>1, FoundTyped DEF Has
  <2> QED BY <1>1, <2>1, <2>5, <2>6, <2>7, <2>8
          DEF Service!Begin, Service!Next, Service!FaultyNext, Has
<1> QED BY <1>2, <1>3, <1>4 DEF Ends

LEMMA StepServedAnyway ==
    TypeOK /\ Full /\ OnePlace /\ Repairs /\ TypeOK' /\ Full' /\ OnePlace' /\ [Next]_vars => FaultyStep
<1> SUFFICES ASSUME TypeOK, Full, OnePlace, Repairs, TypeOK', Full', OnePlace', [Next]_vars,
                    OneFolder, OneFolder'
             PROVE  Service!FaultyNext \/ UNCHANGED Service!serviceVars
  BY DEF FaultyStep
<1> USE Fields
<1>c. Chosen /\ Whole'
  BY Zenon DEF Full
<1>q. ASSUME ~ Operating, ~ Operating', Found' = Found, Living' = Living, faults' \in {faults, faults + 1}
      PROVE  Service!FaultyNext \/ UNCHANGED Service!serviceVars
  BY <1>q, NothingHappens DEF Service!FaultyNext
<1>1. CASE Refuse \/ UNCHANGED vars
  <2>1. UNCHANGED <<disk, Living, config, temp, step, ram, clean, faults>>
    BY <1>1 DEF Refuse, vars, card, history, Living
  <2>2. UNCHANGED <<Operating, Target, Found>>
    BY <2>1 DEF Operating, Target, Found, EffectiveId, EffectiveTai, Effective, FoundFolder, Exists
  <2> QED BY <2>1, <2>2, HasStays DEF Has
<1>2. CASE Launch
  <2>1. /\ step = "off" /\ step' \in {"unhook", "size"} /\ ram'.op = "check"
        /\ UNCHANGED <<disk, Living, config, faults>>
    BY <1>2, LivingStays DEF Launch, StartCheck, Fresh, card
  <2>2. Found' = Found
    BY <2>1, SeenStays, FoundStays
  <2> QED BY <1>q, <2>1, <2>2 DEF Operating, Repairs
<1>3. CASE World
  <2>1. ram.op = "none"
    BY <1>3 DEF World, DeleteGame, RunAdrenaline, Repairs
  <2>2. ASSUME NEW game \in Games, DeleteGame(game) PROVE Service!DeleteGame \/ UNCHANGED Service!serviceVars
    BY <2>1, <2>2, DeletionServed
  <2>3. ASSUME NEW path \in Folders, RunAdrenaline(path)
        PROVE  Service!FaultyNext \/ UNCHANGED Service!serviceVars
    <3>1. /\ UNCHANGED <<Living, config, step, ram, faults>> /\ step = "off"
          /\ \A p \in Folders, file \in {"suprx", "skprx"} : disk'[p][file] = disk[p][file]
      BY <2>3, LivingStays DEF RunAdrenaline, TypeOK, Files, history
    <3>2. Found' = Found
      BY <3>1, SeenStays, FoundStays
    <3> QED BY <1>q, <2>1, <3>1, <3>2 DEF Operating
  <2> QED BY <1>3, <2>2, <2>3 DEF World, Service!Next, Service!FaultyNext
<1>4. CASE Operating /\ Next
  BY <1>4, <1>c, OperationServedAnyway
<1>5. CASE ~ Operating /\ (Quit \/ PowerLoss)
  <2>1. /\ step' = "off" /\ ram' = Fresh /\ UNCHANGED <<disk, Living, config>>
        /\ faults' \in {faults, faults + 1}
    BY <1>5, LivingStays DEF Quit, PowerLoss, Go, card, history
  <2>2. ~ Operating'
    BY <2>1 DEF Operating, Fresh
  <2>3. CASE step # "copy"
    <3>1. Found' = Found
      BY <2>1, <2>3, SeenStays, FoundStays
    <3> QED BY <1>5, <1>q, <2>1, <2>2, <3>1
  <2>4. CASE step = "copy"
    <3>1. ram.op = "check"
      BY <1>5, <2>4, RamShape DEF Operating, Repairs
    <3>2. EffectiveId = Entry
      BY <3>1, CheckedFound
    <3>3. Seen' = config[ram.tai]
      <4>1. \A p \in Places : p # ram.tai => config'[p] = Missing
        BY <2>1, <2>4 DEF OnePlace
      <4>2. step' # "copy" /\ config' = config
        BY <2>1
      <4>3. Seen' = config'[ram.tai]
        BY <4>1, <4>2, NextSeenAt
      <4> QED BY <4>2, <4>3
    <3>4. EffectiveId' = EffectiveId
      BY <3>2, <3>3, FoundInOneFolder, NextFoundInOneFolder DEF EffectiveId, Seen, Entry
    <3>5. Found' = Found
      BY <2>1, <3>4, FoundInOneFolder, NextFoundInOneFolder DEF Found
    <3> QED BY <1>5, <1>q, <2>1, <2>2, <3>5
  <2> QED BY <2>3, <2>4
<1>6. CASE Choose
  BY <1>6, ChoiceServedAnyway
<1>7. CASE ~ Operating /\ ~ Launch /\ (Check \/ Rewrite \/ Operate)
  <2>1. step \notin {"off", "menu", "done", "nofolder"}
    BY <1>7 DEF Check, RemoveSkprx, RemoveSuprx, CheckUpdate, Rewrite, Hook, Unhook, RemoveConfig,
          CopyTemp, DropTemp, Operate, MakeFolder, CopySuprx, CopySkprx, CopyUsb, CopyPboot, RemovePboot,
          WriteVersion, GetUpdate, SaveUpdate, RemoveFolder, CheckFolder, RemoveBin
  <2>2. ram.op = "check"
    BY <1>7, <2>1, RamShape DEF Operating, Repairs
  <2> QED BY <1>7, <2>2, RepairServed DEF Service!Next, Service!FaultyNext
<1> QED BY <1>1, <1>2, <1>3, <1>4, <1>5, <1>6, <1>7 DEF Next

(* The installer is the service under any number of errors and losses of   *)
(* power, as long as one folder is used: a fault spoils the operation or   *)
(* the repair it hits, and no other.  The operations of later runs, which  *)
(* start from whatever was left, lead to what was chosen.                  *)
THEOREM ServiceImplemented == Spec => ImplementsService
<1>1. /\ TypeOK /\ Full /\ OnePlace /\ Repairs /\ TypeOK' /\ Full' /\ OnePlace' /\ [Next]_vars
      => [FaultyStep]_vars
  BY StepServedAnyway
<1> QED BY <1>1, ServiceWithoutFaults, TypeCorrect, FullInvariant, RepairsInvariant, PTL
        DEF Spec, ImplementsService

=====================
