------------------------------- MODULE LiveArea -------------------------------
(***************************************************************************)
(* The two ways the installer changes the LiveArea page of the game that   *)
(* runs Adrenaline: the theme, which replaces files of ur0:appmeta/<game>  *)
(* (install_theme_files, uninstall_theme_files), and the style, which      *)
(* edits the system's database app.db by a script of SQL statements        *)
(* (add_livearea_style, remove_livearea_style).  What is installed is told *)
(* by two indicators among the files: the backup icon0_.dds and the folder *)
(* temp.                                                                   *)
(*                                                                         *)
(* A statement is a transaction of sqlite and takes effect whole or not at *)
(* all.  sql_simple_exec closes the database on an error, and its callers  *)
(* go on with the closed handle: sqlite tells them of the misuse without a *)
(* message, or, reading freed memory, the process crashes.                 *)
(***************************************************************************)
EXTENDS Sequences, Integers

CONSTANT MaxFaults      \* bound on power losses and I/O errors

ASSUME LiveAreaAssumption == MaxFaults \in Nat

VARIABLES
    meta,       \* the files of ur0:appmeta/<game>
    db,         \* app.db: its two triggers, the game's row and frames
    step,       \* the next call; "menu": a menu is shown; "home", "off": no process
    script,     \* the statements still to execute
    open,       \* the database handle is open
    menu,       \* the active entries of theme_menu
    said,       \* the last message of a style operation in this process
    update,     \* the system will update its database when it boots
    faults,
    sound       \* no fault since the start or the last rebuild of app.db

process == <<step, script, open, menu, said>>
vars == <<meta, db, process, update, faults, sound>>

FileNames == {"icon0", "icon0_", "bg0", "startup"}
Folders == {"livearea", "temp"}
Contents == {"none", "own", "theme", "torn"}
Triggers == {"del_img", "frame_del_item"}
Frames == {"frame2", "frame3", "frame4"}
Entries == 0..3

Statement == [do : {"DROP", "CREATE"}, what : Triggers] \cup
             [do : {"INSERT"}, what : {"psmobile", "pspemu"} \cup Frames] \cup
             [do : {"DELETE"}, what : {"row", "frames"}]

ThemeSteps == {"dir", "backup", "rmicon", "icon0", "bg0", "startup", "done"}
StyleSteps == {"sql_add", "sql_remove", "mark_add", "mark_remove"}

TypeOK ==
    /\ meta \in [file : [FileNames -> Contents], dir : SUBSET Folders]
    /\ db \in [triggers : SUBSET Triggers, row : {"none", "pspemu", "psmobile"}, frames : SUBSET Frames]
    /\ step \in {"off", "home", "menu", "wipe", "wiped"} \cup ThemeSteps \cup StyleSteps
    /\ script \in Seq(Statement) /\ Len(script) <= 10
    /\ open \in BOOLEAN
    /\ menu \subseteq Entries
    /\ said \in {"nothing", "modified", "restored"}
    /\ update \in BOOLEAN
    /\ faults \in 0..MaxFaults
    /\ sound \in BOOLEAN

-----------------------------------------------------------------------------
(* The scripts.                                                            *)

DoIt(do, what) == [do |-> do, what |-> what]

DropTriggers == <<DoIt("DROP", "del_img"), DoIt("DROP", "frame_del_item")>>
CreateTriggers == <<DoIt("CREATE", "del_img"), DoIt("CREATE", "frame_del_item")>>

AddStatements ==
    <<DoIt("DELETE", "row"), DoIt("INSERT", "psmobile"), DoIt("DELETE", "frames"),
      DoIt("INSERT", "frame2"), DoIt("INSERT", "frame3"), DoIt("INSERT", "frame4")>>
RemoveStatements ==
    <<DoIt("DELETE", "row"), DoIt("INSERT", "pspemu"), DoIt("DELETE", "frames")>>

AddScript == DropTriggers \o AddStatements \o CreateTriggers
RemoveScript == DropTriggers \o RemoveStatements \o CreateTriggers

(* sqlite refuses to drop what is not there and to create what is.         *)
Fails(s, d) ==
    \/ s.do = "DROP" /\ s.what \notin d.triggers
    \/ s.do = "CREATE" /\ s.what \in d.triggers

After(s, d) ==
    CASE s.do = "DROP" -> [d EXCEPT !.triggers = @ \ {s.what}]
      [] s.do = "CREATE" -> [d EXCEPT !.triggers = @ \cup {s.what}]
      [] s.do = "DELETE" /\ s.what = "row" -> [d EXCEPT !.row = "none"]
      [] s.do = "DELETE" /\ s.what = "frames" -> [d EXCEPT !.frames = {}]
      [] s.do = "INSERT" /\ s.what \in Frames -> [d EXCEPT !.frames = @ \cup {s.what}]
      [] OTHER -> [d EXCEPT !.row = s.what]

-----------------------------------------------------------------------------
(* Faults: a call that fails, or the loss of power.                        *)

Wrong == faults < MaxFaults /\ faults' = faults + 1 /\ sound' = FALSE
Fine == UNCHANGED <<faults, sound>>

Quiet == UNCHANGED <<script, open, menu, said>>
Go(next) == step' = next /\ Quiet

PowerLoss ==
    /\ step # "off" /\ Wrong
    /\ Go("off")
    /\ UNCHANGED <<meta, db, update>>

(* copyFile into appmeta: OK, or no source or folder to write to, or an    *)
(* I/O error or loss of power that leaves a torn file.                     *)
Put(file, content, possible, next) ==
    /\ UNCHANGED <<db, update>>
    /\ \/ /\ meta' = IF possible THEN [meta EXCEPT !.file[file] = content] ELSE meta
          /\ Go(next) /\ Fine
       \/ /\ \/ UNCHANGED meta
             \/ possible /\ meta' = [meta EXCEPT !.file[file] = "torn"]
          /\ step' \in {next, "off"} /\ Quiet /\ Wrong

-----------------------------------------------------------------------------
(* The theme.                                                              *)

(* The system makes the page's folder when the page is opened.             *)
WithPage(m) ==
    IF "livearea" \in m.dir THEN m
    ELSE [m EXCEPT !.dir = @ \cup {"livearea"}, !.file["bg0"] = "own", !.file["startup"] = "own"]

(* The user opens the page, or is sent there by the installer and comes    *)
(* back, having opened it or not.                                          *)
OpenPage ==
    /\ step = "home"
    /\ meta' = WithPage(meta)
    /\ UNCHANGED <<process, db, update>> /\ Fine

InstallTheme ==
    /\ step = "menu" /\ 0 \in menu
    /\ Go("dir")
    /\ UNCHANGED <<meta, db, update>> /\ Fine

CheckDir ==
    /\ step = "dir"
    /\ meta' \in {meta, WithPage(meta)}
    /\ Go("backup")
    /\ UNCHANGED <<db, update>> /\ Fine

Backup ==
    /\ step = "backup"
    /\ Put("icon0_", meta.file["icon0"], meta.file["icon0"] # "none", "rmicon")

(* Removed even if the backup failed.                                      *)
RemoveIcon ==
    /\ step = "rmicon"
    /\ UNCHANGED <<db, update>>
    /\ \/ meta' = [meta EXCEPT !.file["icon0"] = "none"] /\ Go("icon0") /\ Fine
       \/ UNCHANGED meta /\ step' \in {"icon0", "off"} /\ Quiet /\ Wrong

(* Without the folder appmeta/<game> no icon can be written; there is one  *)
(* whenever there is something in it.                                      *)
HasFolder == meta.dir # {} \/ \E f \in FileNames : meta.file[f] # "none"

(* Mutant: the icon, too, is only written next to a page.                  *)
WriteIconInPage == step = "icon0" /\ Put("icon0", "theme", "livearea" \in meta.dir, "bg0")

WriteIcon == step = "icon0" /\ Put("icon0", "theme", HasFolder, "bg0")
WriteBg == step = "bg0" /\ Put("bg0", "theme", "livearea" \in meta.dir, "startup")
WriteStartup == step = "startup" /\ Put("startup", "theme", "livearea" \in meta.dir, "done")

UninstallTheme ==
    /\ step = "menu" /\ 1 \in menu
    /\ Go("wipe")
    /\ UNCHANGED <<meta, db, update>> /\ Fine

(* removePath: the files in the order the folder is read, a folder after   *)
(* what is in it.                                                          *)
Wipe ==
    /\ step = "wipe"
    /\ UNCHANGED <<db, update>>
    /\ \/ /\ \/ \E f \in FileNames :
                  meta.file[f] # "none" /\ meta' = [meta EXCEPT !.file[f] = "none"]
             \/ \E d \in meta.dir :
                  /\ d = "livearea" => meta.file["bg0"] = "none" /\ meta.file["startup"] = "none"
                  /\ meta' = [meta EXCEPT !.dir = @ \ {d}]
          /\ UNCHANGED process /\ Fine
       \/ ~ HasFolder /\ Go("wiped") /\ Fine /\ UNCHANGED meta
       \/ HasFolder /\ Go("wiped") /\ Wrong /\ UNCHANGED meta

(* Enter reboots, after an uninstall with the update of the database;      *)
(* Select and Start end the process.                                       *)
Finish ==
    /\ step \in {"done", "wiped"}
    /\ \/ Go("off") /\ update' = (update \/ step = "wiped")
       \/ Go("home") /\ UNCHANGED update
    /\ UNCHANGED <<meta, db>> /\ Fine

-----------------------------------------------------------------------------
(* The style.                                                              *)

(* One entry is blocked, another active.                                   *)
Swapped(entries, from, to) == (entries \ {from}) \cup {to}

(* sqlite3_open opens, or is out of memory: then -1, which is not 0 and    *)
(* counts as success.                                                      *)
StartStyle(entry, opened, statements, other, claim) ==
    /\ step = "menu" /\ entry \in menu
    /\ UNCHANGED <<meta, db, update>>
    /\ \/ /\ step' = opened /\ script' = statements /\ open' = TRUE
          /\ said' = "nothing" /\ UNCHANGED menu /\ Fine
       \/ /\ said' = claim /\ menu' = Swapped(menu, entry, other)
          /\ UNCHANGED <<step, script, open>> /\ Wrong

AddStyle == StartStyle(2, "sql_add", AddScript, 3, "modified")
RemoveStyle == StartStyle(3, "sql_remove", RemoveScript, 2, "restored")

(* Mutant: a failed statement does not close the database.                 *)
ExecGoesOn ==
    /\ step \in {"sql_add", "sql_remove"} /\ script # <<>>
    /\ script' = Tail(script)
    /\ \/ Fine /\ db' = IF Fails(Head(script), db) THEN db ELSE After(Head(script), db)
       \/ Wrong /\ UNCHANGED db
    /\ UNCHANGED <<meta, step, open, menu, said, update>>

(* sql_simple_exec.                                                        *)
Exec ==
    /\ step \in {"sql_add", "sql_remove"} /\ script # <<>>
    /\ script' = Tail(script)
    /\ UNCHANGED <<meta, menu, said, update>>
    /\ LET s == Head(script)
       IN  \/ /\ open /\ ~ Fails(s, db) /\ Fine
              /\ db' = After(s, db) /\ UNCHANGED <<step, open>>
           \/ /\ open /\ Fails(s, db) /\ Fine
              /\ open' = FALSE /\ UNCHANGED <<db, step>>
           \/ /\ open /\ Wrong
              /\ open' = FALSE /\ UNCHANGED <<db, step>>
           \/ /\ ~ open /\ Fine
              /\ step' \in {step, "home"} /\ UNCHANGED <<db, open>>

(* sqlite3_close, the second one on a handle that is closed.               *)
Close ==
    /\ step \in {"sql_add", "sql_remove"} /\ script = <<>>
    /\ \/ step' = IF step = "sql_add" THEN "mark_add" ELSE "mark_remove"
       \/ ~ open /\ step' = "home"
    /\ open' = FALSE
    /\ UNCHANGED <<meta, db, script, menu, said, update>> /\ Fine

(* Mutant: the indicator is forgotten.                                     *)
MarkNothing ==
    /\ step \in {"mark_add", "mark_remove"} /\ step' = "menu"
    /\ LET adding == step = "mark_add"
       IN  /\ menu' = IF adding THEN Swapped(menu, 2, 3) ELSE Swapped(menu, 3, 2)
           /\ said' = IF adding THEN "modified" ELSE "restored"
    /\ UNCHANGED <<meta, db, script, open, update>> /\ Fine

(* makePath and removePath of the folder temp, then the menu's entries.    *)
Mark ==
    /\ step \in {"mark_add", "mark_remove"}
    /\ LET adding == step = "mark_add"
       IN  /\ \/ /\ meta' = [meta EXCEPT !.dir = IF adding THEN @ \cup {"temp"} ELSE @ \ {"temp"}]
                 /\ Fine
              \/ UNCHANGED meta /\ Wrong
           /\ menu' = IF adding THEN Swapped(menu, 2, 3) ELSE Swapped(menu, 3, 2)
           /\ said' = IF adding THEN "modified" ELSE "restored"
    /\ step' = "menu"
    /\ UNCHANGED <<db, script, open, update>>

-----------------------------------------------------------------------------
(* The process and the device.                                             *)

(* system_check: the entries of the theme menu, for a game that runs       *)
(* Adrenaline.                                                             *)
FoundEntries ==
    {IF meta.file["icon0_"] # "none" THEN 1 ELSE 0} \cup
    (IF "temp" \in meta.dir THEN {3} ELSE IF "livearea" \in meta.dir THEN {2} ELSE {})

Launch ==
    /\ step = "home"
    /\ step' = "menu" /\ menu' = FoundEntries /\ said' = "nothing"
    /\ script' = <<>> /\ open' = FALSE
    /\ UNCHANGED <<meta, db, update>> /\ Fine

Exit ==
    /\ step = "menu" /\ Go("home")
    /\ UNCHANGED <<meta, db, update>> /\ Fine

(* trigger_rebuild_database: app.db is removed, the system makes a new one *)
(* when it boots; the files of appmeta stay.                               *)
Rebuild ==
    /\ step = "menu" /\ Go("off")
    /\ db' = [triggers |-> Triggers, row |-> "pspemu", frames |-> {}]
    /\ sound' = TRUE
    /\ UNCHANGED <<meta, update, faults>>

(* Updating the database, the system writes the files of a game that are   *)
(* missing.                                                                *)
Boot ==
    /\ step = "off" /\ Go("home")
    /\ meta' = IF update /\ meta.file["icon0"] = "none" THEN [meta EXCEPT !.file["icon0"] = "own"] ELSE meta
    /\ update' = FALSE
    /\ UNCHANGED db /\ Fine

Init ==
    /\ meta \in [file : {[f \in FileNames |-> IF f = "icon0_" \/ (f # "icon0" /\ ~ page)
                                              THEN "none" ELSE "own"] : page \in BOOLEAN},
                 dir : {{}, {"livearea"}}]
    /\ "livearea" \in meta.dir <=> meta.file["bg0"] = "own"
    /\ db = [triggers |-> Triggers, row |-> "pspemu", frames |-> {}]
    /\ step = "home" /\ script = <<>> /\ open = FALSE
    /\ menu = {} /\ said = "nothing"
    /\ update = FALSE /\ faults = 0 /\ sound = TRUE

Next ==
    \/ OpenPage \/ InstallTheme \/ CheckDir \/ Backup \/ RemoveIcon
    \/ WriteIcon \/ WriteBg \/ WriteStartup \/ UninstallTheme \/ Wipe \/ Finish
    \/ AddStyle \/ RemoveStyle \/ Exec \/ Close \/ Mark
    \/ Launch \/ Exit \/ Rebuild \/ Boot \/ PowerLoss

Spec == Init /\ [][Next]_vars

-----------------------------------------------------------------------------
(* Properties.                                                             *)

Styled == db.row = "psmobile" /\ db.frames = Frames /\ db.triggers = Triggers
Plain == db.row = "pspemu" /\ db.frames = {} /\ db.triggers = Triggers

(* After "modified successfully" the page is styled, and after "restored   *)
(* successfully" it is plain, with the database as the system made it      *)
(* otherwise and the indicator right: whatever was installed, removed or   *)
(* rebuilt before, as long as nothing has failed since the last rebuild.   *)
Claimed ==
    /\ said = "modified" => Styled /\ "temp" \in meta.dir
    /\ said = "restored" => Plain /\ "temp" \notin meta.dir
SuccessIsTrueIfSound == sound /\ step = "menu" => Claimed

(* However often a script was interrupted, or refused, and started again:  *)
(* what is left of a page half styled has lost both triggers.  So the      *)
(* first statement of any later script is refused, which closes the        *)
(* database, and nothing of that script gets through to put a trigger back *)
(* around half a page: only the rebuild of app.db changes it.              *)
WholePage ==
    \/ db.row = "psmobile" /\ db.frames = Frames
    \/ db.row = "pspemu" /\ db.frames = {}
HalfStyledLostTriggers == ~ WholePage => db.triggers = {}

(* The backup tells of an installed theme, whatever was installed, wiped,  *)
(* left without a reboot or opened before, while nothing fails.            *)
BackupTold == step = "menu" /\ meta.file["icon0_"] # "none" => meta.file["icon0"] = "theme"
BackupTellsIfNothingFails == faults = 0 => BackupTold

=============================================================================
