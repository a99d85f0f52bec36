------------------------------ MODULE Installer ------------------------------
(***************************************************************************)
(* The installer proper: what main.c does to the memory card and to the    *)
(* tai config when it starts (system_check), installs, changes the release *)
(* or the basegame, and uninstalls.                                        *)
(*                                                                         *)
(* The program is one thread.  What makes it hard is the card: every step  *)
(* is a write that survives the process, a step may fail and the code goes *)
(* on all the same, the power may go between two steps or inside one, and  *)
(* the next start has to make sense of what it finds.                      *)
(***************************************************************************)
EXTENDS TaiConfig

CONSTANTS
    Games,          \* title ids of PSP games (directories of ux0:pspemu/PSP/GAME)
    GameFiles,      \* which of them may have an __sce_ebootpbp and which an EBOOT.PBP
    Releases,       \* the args of files_menu
    OldReleases,    \* "adrenaline" and "adrenaline_fix2", whose folder is OldFolder
    UsbReleases,    \* the releases packaged with a usbdevice.skprx
    Latest,         \* files_menu[0].arg
    UserConfigs,    \* tai configs as users have them before the first install
    Update,         \* a 661.PBP of UPDATE_SIZE bytes
    Torn,           \* a file cut short
    Absent,         \* no such file
    TaiPlaces,      \* the places a device may have its config in
    MaxFaults,      \* bound on power losses and I/O errors
    MaxSections     \* bound on the sections of a config an install starts from

Places == {"ux0", "ur0"}     \* of tai/config.txt

ASSUME InstallerAssumption ==
    /\ Games \subseteq Words /\ {NoId, Kernel} \cap Games = {}
    /\ GameFiles \subseteq [marked : SUBSET Games, playable : SUBSET Games]
    /\ OldReleases \subseteq Releases /\ UsbReleases \subseteq Releases
    /\ Latest \in Releases \ OldReleases
    /\ {Update, Torn, Absent} \cap Releases = {}
    /\ Update # Torn /\ Update # Absent /\ Torn # Absent
    /\ UserConfigs \subseteq ConfigFiles
    /\ \A c \in UserConfigs : \A line \in c :
          line.kind \in {"head", "user"} /\ (line.kind = "head" => line.of # NoId)
    /\ \A c \in UserConfigs : \A some \in SUBSET c : some = {} \/ Lowest(some) # {}
    /\ TaiPlaces \subseteq Places
    /\ MaxFaults \in Nat /\ MaxSections \in Nat

Files == {"suprx", "skprx", "usbdevice", "bin", "version", "update"}
Contents == Releases \union {Update, Torn, Absent}
Folder(release) == IF release \in OldReleases THEN OldFolder ELSE NewFolder

VARIABLES
    dir,        \* [Folders -> BOOLEAN]: the Adrenaline folders that exist
    disk,       \* [Folders -> [Files -> Contents]]
    games,      \* the games whose directories there are
    pboot,      \* [Games -> {"none", "torn", "ours"}]: their PBOOT.PBP
    config,     \* [Places -> ConfigFiles \union {Missing}]: <place>:tai/config.txt
    temp,       \* ur0:temp.txt
    step,       \* what the process does next; "off": it does not run
    ram,        \* its globals and the arguments of the operation under way
    faults,     \* power losses and I/O errors so far
    clean,      \* no I/O error since the last start
    before      \* the device before the first start: where its config is, the user's
                \* lines in it, and the games with an __sce_ebootpbp and an EBOOT.PBP

card == <<dir, disk, games, pboot, config, temp>>
history == <<faults, clean, before>>
vars == <<card, step, ram, history>>

Steps == {"off", "rmskprx", "rmsuprx", "size", "menu", "mkdir", "suprx", "skprx", "usbdevice",
          "pboot", "hook", "unhook", "unlink", "copy", "drop", "version", "update", "save661", "rmfolder",
          "rmpboot", "dircheck", "bin", "done", "nofolder"}

(* A process that has just started: the initial values of main.h.          *)
Fresh == [op |-> "none", edit |-> "none", tai |-> "ux0", folder |-> NewFolder, version |-> Absent,
          installed |-> FALSE, gameId |-> NoId, listed |-> {}, mode |-> 0, arg |-> Latest, id |-> NoId]

Rams == [op : {"none", "check", "install", "change", "uninstall"}, edit : {"none", "write", "delete"},
         tai : Places, folder : Folders, version : Contents, installed : BOOLEAN, gameId : Words,
         listed : SUBSET Games, mode : {0, 1}, arg : Releases, id : Words]

(* The variables keep their types; the lines of a config stay lines.       *)
TypeOK ==
    /\ dir \in [Folders -> BOOLEAN]
    /\ disk \in [Folders -> [Files -> Contents]]
    /\ games \subseteq Games
    /\ pboot \in [Games -> {"none", "torn", "ours"}]
    /\ config \in [Places -> ConfigFiles \union {Missing}]
    /\ temp \in ConfigFiles \union {Missing}
    /\ step \in Steps
    /\ ram \in Rams
    /\ faults \in 0..MaxFaults
    /\ clean \in BOOLEAN
    /\ before \in [tai : Places, lines : ConfigFiles, marked : SUBSET Games, playable : SUBSET Games]

Exists(path, file) == disk[path][file] # Absent
LinesOf(file) == IF file = Missing THEN {} ELSE file

(* The check looks for the EBOOT.PBP of the game, check_for_psp_content    *)
(* lists by the __sce_ebootpbp: neither file implies the other.            *)
Living == games \cap before.playable
Listed == games \cap before.marked

(* The folder system_check settles on, and the id it reads for it.         *)
FoundFolder ==
    IF ~ Exists(NewFolder, "skprx") /\ Exists(OldFolder, "skprx") THEN OldFolder ELSE NewFolder
FoundTai == IF config["ux0"] # Missing THEN "ux0" ELSE "ur0"
FoundId == GetId(config[FoundTai], FoundFolder)

-----------------------------------------------------------------------------
(* How a step ends: at `next', with globals r.                             *)
Go(next, r) == step' = next /\ ram' = r /\ UNCHANGED history

(* Something goes wrong inside a step: an I/O error, which the code prints *)
(* and then ignores, or a loss of power.                                   *)
GoWrong(next, r) ==
    /\ faults < MaxFaults
    /\ faults' = faults + 1
    /\ UNCHANGED before
    /\ \/ step' = next /\ ram' = r /\ clean' = FALSE
       \/ step' = "off" /\ ram' = Fresh /\ UNCHANGED clean

(* The power goes between two steps.                                       *)
PowerLoss ==
    /\ step # "off"
    /\ faults < MaxFaults
    /\ faults' = faults + 1
    /\ step' = "off" /\ ram' = Fresh
    /\ UNCHANGED <<card, clean, before>>

(* copyFile, fopen(.., "w") or download_file to a file of a folder: nothing *)
(* is written when the folder is not there.                                *)
PutFile(path, file, content, next, r) ==
    /\ UNCHANGED <<dir, games, pboot, config, temp>>
    /\ \/ /\ disk' = IF dir[path] THEN [disk EXCEPT ![path][file] = content] ELSE disk
          /\ Go(next, r)
       \/ /\ dir[path]
          /\ \E left \in {disk[path][file], Torn} : disk' = [disk EXCEPT ![path][file] = left]
          /\ GoWrong(next, r)

RemoveFile(path, file, next, r) ==
    /\ UNCHANGED <<dir, games, pboot, config, temp>>
    /\ \/ disk' = [disk EXCEPT ![path][file] = Absent] /\ Go(next, r)
       \/ Exists(path, file) /\ UNCHANGED disk /\ GoWrong(next, r)

-----------------------------------------------------------------------------
(* Rewriting the tai config: the new text goes to ur0:temp.txt, then the   *)
(* config is removed, the text copied back, and temp.txt removed.          *)

AfterRewrite(edit) ==
    CASE ram.op = "check"     -> IF Exists(ram.folder, "skprx") THEN "rmskprx" ELSE "size"
      [] ram.op = "install"   -> "version"
      [] ram.op = "uninstall" -> "done"
      [] OTHER                -> IF edit = "write" THEN "done"
                                 ELSE IF ram.mode = 1 THEN "save661" ELSE "dircheck"

EditTo(text, edit) ==
    LET r == [ram EXCEPT !.edit = edit]
    IN  /\ UNCHANGED <<dir, disk, games, pboot, config>>
        /\ \/ /\ config[ram.tai] = Missing      \* fopen(taiconfig) fails, after
              /\ temp' = {}                     \* fopen("ur0:temp.txt", "w") made it
              /\ Go(AfterRewrite(edit), r)
           \/ /\ config[ram.tai] # Missing
              /\ temp' = text
              /\ Go("unlink", r)
           \/ /\ config[ram.tai] # Missing
              /\ temp' \in Cuts(text)
              /\ GoWrong("unlink", r)

Hook == step = "hook" /\ EditTo(WriteLines(LinesOf(config[ram.tai]), ram.folder, ram.id), "write")
Unhook == step = "unhook" /\ EditTo(DeleteLines(LinesOf(config[ram.tai]), ram.folder, ram.gameId), "delete")

RemoveConfig ==
    /\ step = "unlink"
    /\ UNCHANGED <<dir, disk, games, pboot, temp>>
    /\ \/ config' = [config EXCEPT ![ram.tai] = Missing] /\ Go("copy", ram)
       \/ UNCHANGED config /\ GoWrong("copy", ram)

CopyTemp ==
    /\ step = "copy"
    /\ UNCHANGED <<dir, disk, games, pboot, temp>>
    /\ \/ config' = [config EXCEPT ![ram.tai] = temp] /\ Go("drop", ram)
       \/ /\ \E left \in {config[ram.tai]} \union Cuts(LinesOf(temp)) :
                config' = [config EXCEPT ![ram.tai] = left]
          /\ GoWrong("drop", ram)

DropTemp ==
    /\ step = "drop"
    /\ UNCHANGED <<dir, disk, games, pboot, config>>
    /\ \/ temp' = Missing /\ Go(AfterRewrite(ram.edit), ram)
       \/ UNCHANGED temp /\ GoWrong(AfterRewrite(ram.edit), ram)

-----------------------------------------------------------------------------
(* system_check.  Its reads, up to the decision what to do with the entry  *)
(* it found, are one action: nothing else runs between them.  It is not    *)
(* reached on a Vita without act.dat or on a firmware the checks refuse.   *)
StartCheck(version, installed, unhook) ==
    /\ step = "off"
    /\ config[FoundTai] # Missing
    /\ ram' = [Fresh EXCEPT !.op = "check", !.tai = FoundTai, !.folder = FoundFolder,
                  !.version = version, !.installed = installed, !.gameId = FoundId,
                  !.listed = Listed]
    /\ step' = IF unhook THEN "unhook" ELSE "size"
    /\ clean' = TRUE
    /\ UNCHANGED <<card, faults, before>>

Works == Exists(FoundFolder, "skprx") /\ FoundId \in Living
FoundVersion == disk[FoundFolder]["version"]

(* Mutants: an entry is removed though none was found; an entry is removed *)
(* though it works; the game of the entry is not looked for.               *)
LaunchUnhooksNothing == StartCheck(FoundVersion, Works, ~ Works)
LaunchUnhooksLiving == StartCheck(FoundVersion, Works, FoundId # NoId)
LaunchTrustsEntry ==
    LET prx == Exists(FoundFolder, "skprx") /\ FoundId # NoId
    IN  StartCheck(FoundVersion, prx, FoundId # NoId /\ ~ prx)

Launch == StartCheck(FoundVersion, Works, FoundId # NoId /\ ~ Works)

(* taiHENkaku's config is nowhere: error_exit.                             *)
Refuse == step = "off" /\ config[FoundTai] = Missing /\ UNCHANGED vars

(* The game is gone: the plugins are removed as well.                      *)
RemoveSkprx == step = "rmskprx" /\ RemoveFile(ram.folder, "skprx", "rmsuprx", ram)
RemoveSuprx == step = "rmsuprx" /\ RemoveFile(ram.folder, "suprx", "size", ram)

(* Mutant: the id of a removed entry stays in PSP_GAME_ID.                 *)
CheckKeepsId ==
    /\ step = "size"
    /\ LET r == [ram EXCEPT !.op = "none"]
       IN  IF disk[ram.folder]["update"] = Torn
           THEN RemoveFile(ram.folder, "update", "menu", r)
           ELSE Go("menu", r) /\ UNCHANGED card

(* A 661.PBP of the wrong size is removed, and so is a whole one whose     *)
(* size cannot be read.  The id of a removed entry has been cleared.       *)
CheckUpdate ==
    /\ step = "size"
    /\ LET r == [ram EXCEPT !.op = "none", !.gameId = IF ram.installed THEN @ ELSE NoId]
       IN  \/ /\ disk[ram.folder]["update"] = Torn
              /\ RemoveFile(ram.folder, "update", "menu", r)
           \/ disk[ram.folder]["update"] # Torn /\ Go("menu", r) /\ UNCHANGED card
           \/ /\ Exists(ram.folder, "update")
              /\ disk' = [disk EXCEPT ![ram.folder]["update"] = Absent]
              /\ UNCHANGED <<dir, games, pboot, config, temp>>
              /\ GoWrong("menu", r) /\ step' = "menu"

-----------------------------------------------------------------------------
(* The menus.  An entry whose arg is the installed version is blocked, so  *)
(* an empty version file blocks every entry whose arg is "".               *)

Offered(release) ==
    /\ ram.listed # {}
    /\ \/ release = Latest /\ ~ (ram.installed /\ ram.version = Latest)
       \/ ram.version # Torn /\ ram.version # release

(* draw_psp_games, with the dialogs confirmed.                             *)
Install(release, game) ==
    /\ step = "menu" /\ ~ ram.installed
    /\ Offered(release) /\ game \in ram.listed
    /\ End(LinesOf(config[ram.tai])) < MaxSections
    /\ Go("mkdir", [ram EXCEPT !.op = "install", !.arg = release, !.id = game,
                        !.folder = IF release \in OldReleases THEN OldFolder ELSE @])
    /\ UNCHANGED card

Change(release, game) ==
    /\ step = "menu" /\ ram.installed
    /\ Offered(release) /\ game \in ram.listed
    /\ End(LinesOf(config[ram.tai])) < MaxSections
    /\ LET mode == IF Folder(release) = ram.folder THEN 0 ELSE 1
       IN  Go(IF mode = 1 THEN "mkdir" ELSE IF ram.gameId # game THEN "rmpboot" ELSE "dircheck",
              [ram EXCEPT !.op = "change", !.arg = release, !.id = game, !.mode = mode])
    /\ UNCHANGED card

Uninstall ==
    /\ step = "menu" /\ ram.installed /\ ram.version # Torn
    /\ Go("rmfolder", [ram EXCEPT !.op = "uninstall", !.id = ram.gameId])
    /\ UNCHANGED card

(* option_delete_pbp and option_delete_flash.  The flash folders are not   *)
(* modelled, so that the second is available at any time.                  *)
DeletePbp ==
    /\ step = "menu" /\ ram.version # Torn /\ Exists(ram.folder, "update")
    /\ RemoveFile(ram.folder, "update", "menu", ram)

DeleteFlash ==
    /\ step = "menu" /\ ram.version # Torn /\ Exists(ram.folder, "bin")
    /\ RemoveFile(ram.folder, "bin", "menu", ram)

(* Leaving the menu; the reset or the exit an operation ends with.         *)
Quit == step \in {"menu", "done", "nofolder"} /\ Go("off", Fresh) /\ UNCHANGED card

-----------------------------------------------------------------------------
(* The steps of install_adrenaline_files, change_adrenaline_files and      *)
(* uninstall_adrenaline_files.                                             *)

Changed == ram.gameId # ram.id       \* strcmp(PSP_GAME_ID, id) != 0

MakeFolder ==
    /\ step = "mkdir"
    /\ UNCHANGED <<disk, games, pboot, config, temp>>
    /\ LET path == IF ram.op = "install" THEN ram.folder ELSE Folder(ram.arg)
           next == IF ram.op = "install" THEN "suprx" ELSE "unhook"
       IN  \/ dir' = [dir EXCEPT ![path] = TRUE] /\ Go(next, ram)
           \/ ~ dir[path] /\ UNCHANGED dir /\ GoWrong(next, ram)

CopySuprx == step = "suprx" /\ PutFile(ram.folder, "suprx", ram.arg, "skprx", ram)

(* Mutant: a kernel plugin that is there already is kept.                  *)
SkprxIfMissing ==
    /\ step = "skprx"
    /\ IF ram.op = "install" /\ Exists(ram.folder, "skprx")
       THEN Go("usbdevice", ram) /\ UNCHANGED card
       ELSE PutFile(ram.folder, "skprx", ram.arg, "usbdevice", ram)

CopySkprx == step = "skprx" /\ PutFile(ram.folder, "skprx", ram.arg, "usbdevice", ram)

(* Only a change removes the usbdevice.skprx of another release.           *)
CopyUsb ==
    /\ step = "usbdevice"
    /\ LET next == IF ram.op = "install" THEN "pboot" ELSE "version"
       IN  \/ ram.arg \in UsbReleases /\ PutFile(ram.folder, "usbdevice", ram.arg, next, ram)
           \/ /\ ram.arg \notin UsbReleases /\ ram.op = "change"
              /\ RemoveFile(ram.folder, "usbdevice", next, ram)
           \/ ram.arg \notin UsbReleases /\ ram.op = "install" /\ Go(next, ram) /\ UNCHANGED card

(* Mutant: a change of the game forgets to delete the old entry.           *)
CopyPbootOnly ==
    /\ step = "pboot"
    /\ UNCHANGED <<dir, disk, games, config, temp>>
    /\ LET next == IF ram.op = "install" THEN "hook" ELSE "dircheck"
       IN  \/ /\ pboot' = IF ram.id \in games THEN [pboot EXCEPT ![ram.id] = "ours"] ELSE pboot
              /\ Go(next, ram)
           \/ /\ ram.id \in games
              /\ \E left \in {pboot[ram.id], "torn"} : pboot' = [pboot EXCEPT ![ram.id] = left]
              /\ GoWrong(next, ram)

(* The game may have been deleted since it was listed: no directory.       *)
CopyPboot ==
    /\ step = "pboot"
    /\ UNCHANGED <<dir, disk, games, config, temp>>
    /\ LET next == IF ram.op = "install" THEN "hook"
                   ELSE IF ram.mode = 0 THEN "unhook" ELSE "dircheck"
       IN  \/ /\ pboot' = IF ram.id \in games THEN [pboot EXCEPT ![ram.id] = "ours"] ELSE pboot
              /\ Go(next, ram)
           \/ /\ ram.id \in games
              /\ \E left \in {pboot[ram.id], "torn"} : pboot' = [pboot EXCEPT ![ram.id] = left]
              /\ GoWrong(next, ram)

RemovePboot ==
    /\ step = "rmpboot"
    /\ UNCHANGED <<dir, disk, games, config, temp>>
    /\ LET next == IF ram.op = "uninstall" THEN "unhook" ELSE "pboot"
       IN  \/ /\ pboot' = IF ram.gameId \in games THEN [pboot EXCEPT ![ram.gameId] = "none"] ELSE pboot
              /\ Go(next, ram)
           \/ /\ ram.gameId \in games /\ pboot[ram.gameId] # "none"
              /\ UNCHANGED pboot
              /\ GoWrong(next, ram)

(* Mutant: a change writes no version file.                                *)
VersionOnInstall ==
    /\ step = "version"
    /\ \/ ram.op = "install" /\ PutFile(ram.folder, "version", ram.arg, "update", ram)
       \/ ram.op = "change" /\ Go("update", ram) /\ UNCHANGED card

WriteVersion == step = "version" /\ PutFile(ram.folder, "version", ram.arg, "update", ram)

(* 661.PBP is downloaded when it is not there.  An answer that ends early  *)
(* counts as a success; a broken file is removed.                          *)
GetUpdate ==
    /\ step = "update"
    /\ LET next == IF ram.op = "change" /\ (ram.mode = 1 \/ Changed) THEN "hook" ELSE "done"
       IN  \/ Exists(ram.folder, "update") /\ Go(next, ram) /\ UNCHANGED card
           \/ /\ ~ Exists(ram.folder, "update")
              /\ \E got \in {Update, Torn, Absent} : PutFile(ram.folder, "update", got, next, ram)

(* The update file moves to the new folder, then the old folder goes.      *)
SaveUpdate ==
    /\ step = "save661"
    /\ \/ /\ Exists(ram.folder, "update")
          /\ PutFile(Folder(ram.arg), "update", disk[ram.folder]["update"], "rmfolder", ram)
       \/ ~ Exists(ram.folder, "update") /\ Go("rmfolder", ram) /\ UNCHANGED card

(* removePath stops at the first file it cannot remove.                    *)
RemoveFolder ==
    /\ step = "rmfolder"
    /\ UNCHANGED <<games, pboot, config, temp>>
    /\ LET r == IF ram.op = "change" THEN [ram EXCEPT !.folder = Folder(ram.arg)] ELSE ram
           next == IF ram.op = "change" /\ ~ Changed THEN "dircheck" ELSE "rmpboot"
       IN  \/ /\ dir' = [dir EXCEPT ![ram.folder] = FALSE]
              /\ disk' = [disk EXCEPT ![ram.folder] = [file \in Files |-> Absent]]
              /\ Go(next, r)
           \/ /\ dir[ram.folder]
              /\ \E gone \in SUBSET {file \in Files : Exists(ram.folder, file)} :
                    disk' = [disk EXCEPT ![ram.folder] =
                                [file \in Files |-> IF file \in gone THEN Absent ELSE @[file]]]
              /\ UNCHANGED dir
              /\ GoWrong(next, r)

CheckFolder ==
    /\ step = "dircheck"
    /\ Go(IF dir[ram.folder] THEN "bin" ELSE "nofolder", ram)
    /\ UNCHANGED card

(* Mutant: the other release's adrenaline.bin stays.                       *)
KeepBin == step = "bin" /\ Go("suprx", ram) /\ UNCHANGED card
RemoveBin == step = "bin" /\ RemoveFile(ram.folder, "bin", "suprx", ram)

-----------------------------------------------------------------------------
(* What happens on the device beside the installer.                        *)

(* The user deletes a game, and its PBOOT.PBP with it.                     *)
DeleteGame(game) ==
    /\ step \in {"off", "menu"} /\ game \in games
    /\ games' = games \ {game}
    /\ pboot' = [pboot EXCEPT ![game] = "none"]
    /\ UNCHANGED <<dir, disk, config, temp, step, ram, history>>

(* Adrenaline starts from its game and creates the adrenaline.bin of its   *)
(* release.                                                                *)
RunAdrenaline(path) ==
    /\ step = "off" /\ config[FoundTai] # Missing
    /\ GetId(config[FoundTai], path) \in Living
    /\ disk[path]["suprx"] \in Releases /\ ~ Exists(path, "bin")
    /\ disk' = [disk EXCEPT ![path]["bin"] = disk[path]["suprx"]]
    /\ UNCHANGED <<dir, games, pboot, config, temp, step, ram, history>>

-----------------------------------------------------------------------------
(* A device without Adrenaline, or with a release somebody installed by    *)
(* hand, which leaves no version file.                                     *)
NoFiles == [file \in Files |-> Absent]
HandFiles(release) ==
    [NoFiles EXCEPT !["suprx"] = release, !["skprx"] = release,
                    !["usbdevice"] = IF release \in UsbReleases THEN release ELSE Absent]

Init ==
    /\ games = Games
    /\ temp = Missing
    /\ step = "off" /\ ram = Fresh
    /\ faults = 0 /\ clean = TRUE
    /\ \E place \in TaiPlaces, c \in UserConfigs, has \in GameFiles :
         /\ before = [tai |-> place, lines |-> c, marked |-> has.marked, playable |-> has.playable]
         /\ \/ /\ dir = [path \in Folders |-> FALSE]
               /\ disk = [path \in Folders |-> NoFiles]
               /\ pboot = [game \in Games |-> "none"]
               /\ config = [p \in Places |-> IF p = place THEN c ELSE Missing]
            \/ \E release \in Releases, game \in has.playable :
                 /\ dir = [path \in Folders |-> path = Folder(release)]
                 /\ disk = [path \in Folders |->
                               IF path = Folder(release) THEN HandFiles(release) ELSE NoFiles]
                 /\ pboot = [g \in Games |-> IF g = game THEN "ours" ELSE "none"]
                 /\ config = [p \in Places |->
                                IF p = place THEN WriteLines(c, Folder(release), game) ELSE Missing]

Check == Launch \/ RemoveSkprx \/ RemoveSuprx \/ CheckUpdate
Rewrite == Hook \/ Unhook \/ RemoveConfig \/ CopyTemp \/ DropTemp
Operate ==
    \/ MakeFolder \/ CopySuprx \/ CopySkprx \/ CopyUsb \/ CopyPboot \/ RemovePboot
    \/ WriteVersion \/ GetUpdate \/ SaveUpdate \/ RemoveFolder \/ CheckFolder \/ RemoveBin
Choose ==
    \/ \E release \in Releases, game \in Games : Install(release, game) \/ Change(release, game)
    \/ Uninstall \/ DeletePbp \/ DeleteFlash
World == (\E game \in Games : DeleteGame(game)) \/ (\E path \in Folders : RunAdrenaline(path))

Next == Check \/ Refuse \/ Rewrite \/ Operate \/ Choose \/ Quit \/ PowerLoss \/ World

Spec == Init /\ [][Next]_vars

(* The thread runs on, and somebody starts the installer again and leaves  *)
(* it again.                                                               *)
FairSpec == Spec /\ WF_vars(Check \/ Rewrite \/ Operate) /\ WF_vars(Quit)

-----------------------------------------------------------------------------
(* Properties.                                                             *)

(* No delete ever runs with an empty id, which strstr would find in every  *)
(* line of the config and so remove the whole file.                        *)
DeleteNamesGame == step = "unhook" => ram.gameId # NoId

(* The user's plugin lines, but for those in which the name of a game or   *)
(* of one of the user's sections appears: delete_adrenaline_from_config    *)
(* drops every line that has the id in it.                                 *)
SectionNames == {h.of : h \in {line \in before.lines : line.kind = "head"}}
Own == {line \in UserLines(before.lines) : line.of \notin Games \union SectionNames}
HasOwn(file) == Own \subseteq LinesOf(file)

(* A rewrite that starts on a config an earlier loss of power cut short:   *)
(* it truncates temp.txt, where the lines still were.                      *)
RewriteOfCut == step \in {"hook", "unhook"} /\ ~ HasOwn(config[before.tai])

(* In a run without I/O errors the user's lines, whatever section they are *)
(* in by now, stay whole in the config or in temp.txt, wherever the power  *)
(* goes and however many starts ago they were written; the one step that   *)
(* loses them is a later rewrite of a config that was cut.                 *)
OnlyRewriteOfCutLoses ==
    [][(HasOwn(config[before.tai]) \/ HasOwn(temp)) /\ clean' /\ ~ RewriteOfCut
          => (HasOwn(config[before.tai]) \/ HasOwn(temp))']_vars

(* At the menu the globals the menus are built from tell what is on the    *)
(* card, whatever an earlier run was interrupted in: an installation       *)
(* counts as one only with its plugin and with an entry for a game of      *)
(* which there was an EBOOT.PBP; without one tai loads the folder's plugin *)
(* for no section at all, and with one, until something goes wrong, for no *)
(* other game; an update file that is there is whole.                      *)
MenuTellsTheCard ==
    step = "menu" /\ clean =>
        LET hooked == HookedTo(config[ram.tai], ram.folder)
        IN  /\ GetId(config[ram.tai], ram.folder) = ram.gameId
            /\ ram.installed <=> ram.gameId # NoId
            /\ ram.installed => Exists(ram.folder, "skprx") /\ ram.gameId \in before.playable
            /\ ~ ram.installed => hooked \subseteq {NoId}
            /\ faults = 0 => hooked \subseteq {ram.gameId}
            /\ disk[ram.folder]["update"] # Torn
            /\ disk[ram.folder]["version"] = ram.version

(* After "Done!" of an install or a change the release that was chosen is  *)
(* the one on the card and the one the version file names, with no file of *)
(* another release where a change has to remove it.                        *)
ChosenReleaseInPlace ==
    step = "done" /\ clean /\ ram.op \in {"install", "change"} =>
        /\ \A file \in {"suprx", "skprx", "version"} : disk[ram.folder][file] = ram.arg
        /\ ram.arg \in UsbReleases => disk[ram.folder]["usbdevice"] = ram.arg
        /\ ram.op = "change" =>
              /\ ~ Exists(ram.folder, "bin")
              /\ ram.folder = Folder(ram.arg)
              /\ ram.arg \notin UsbReleases => ~ Exists(ram.folder, "usbdevice")

(* After "Done!" of an install or a change tai loads Adrenaline in the     *)
(* kernel and for the game that was chosen, and the PBOOT lies with that   *)
(* game alone.  It loads it for no other game unless something went wrong  *)
(* before; nor then after a change to another game in the same folder,     *)
(* which has just deleted the old entries.                                 *)
ChosenGameHooked ==
    step = "done" /\ clean /\ ram.op \in {"install", "change"} =>
        LET c == config[ram.tai]
        IN  /\ GetId(c, ram.folder) = ram.id
            /\ faults = 0 \/ (ram.op = "change" /\ ram.mode = 0 /\ Changed) =>
                  HookedTo(c, ram.folder) = {ram.id}
            /\ \A h \in c : h = Header(h.at, Kernel) => Plugin(h.at, "skprx", ram.folder) \in c
            /\ ram.id \in games /\ (ram.op = "install" \/ Changed) => pboot[ram.id] = "ours"
            /\ ram.op = "change" /\ Changed /\ ram.gameId \in games => pboot[ram.gameId] = "none"

(* After "Done!" of an uninstall nothing of the folder is left, on the     *)
(* card or in the config.                                                  *)
NothingLeft ==
    step = "done" /\ clean /\ ram.op = "uninstall" =>
        /\ ~ dir[ram.folder] /\ \A file \in Files : ~ Exists(ram.folder, file)
        /\ ~ Names(config[ram.tai], ram.folder)
        /\ ram.gameId \in games => pboot[ram.gameId] = "none"

(* Until something goes wrong, the version file names the release whose    *)
(* plugins lie beside it, over any sequence of installs, changes,          *)
(* uninstalls, deleted games and hand-made installations.                  *)
VersionIsTheRelease ==
    faults = 0 /\ step = "menu" /\ ram.installed /\ ram.version \in Releases =>
        disk[ram.folder]["suprx"] = ram.version /\ disk[ram.folder]["skprx"] = ram.version

(* The start-up check leaves the config of a working installation alone.   *)
CheckSparesTheLiving ==
    [][ram.op = "check" /\ Exists(FoundFolder, "skprx") /\ ram.gameId \in Living
          => UNCHANGED config]_vars

(* The last entry for the folder is one of a game that is gone.            *)
Stale == config[FoundTai] # Missing /\ FoundId \notin Living \union {NoId}

(* An entry for a game that is gone is removed in the end, however often   *)
(* the check that removes it is interrupted.                               *)
StaleEntryHealed == Stale ~> ~ Stale

==============================================================================
