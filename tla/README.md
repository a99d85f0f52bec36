# Adrenaline EasyInstaller in TLA+

The EasyInstaller is a PS Vita homebrew that installs, changes and removes the
Adrenaline eCFW: it copies two or three plugins into a folder of the memory card,
a `PBOOT.PBP` into a PSP game, and writes two lines into taiHENkaku's
`config.txt`, the file that tells the system at every boot which plugins to load.
Around that it downloads a firmware file, puts a game into the system's download
queue, edits the system's database of the home screen and deletes what earlier
installations left. A mistake costs the user his plugins or leaves a device that
does not start what it should.

The program is one thread. What makes it hard is not concurrency but the memory
card: every step is a write that outlives the process, most results are printed
and ignored, the power may go between two steps or inside one, and the next start
has to make sense of what it finds. The second hard part is small and purely
sequential: menus, screens and text, whose cursor, window, blocked entries and key
repeat are kept in step by hand in several places.

## 1. The system

| Component | State it keeps | Operations | Modelled in |
|---|---|---|---|
| Start-up check (`system_check`, main.c:172) | the globals `ADR_FOLDER`, `ADR_VERSION`, `ADR_INSTALLED`, `PSP_GAME_ID`, `TAI_CONFIG`; the types of the menu entries | finds config, folder, version and game; repairs an entry that works no more; removes a broken 661.PBP; unblocks the other entries | `Installer`, `Advanced`, `LiveArea` |
| Install, change, uninstall (main.c:1570-2048) | the Adrenaline folders, the PBOOTs, the config | one long function each, ending in a reboot or an exit | `Installer`, `InstallService` |
| tai config editing (file.c:342-461) | `tai/config.txt`, `ur0:temp.txt` | read the game's id, write the plugins, delete them | `TaiConfig`, `ConfigText`, `Installer` |
| Menus (main.c:107-167, 452-817, 1093-1278) | `selection`, `toption`, the types of the entries | open, move, enter, cancel | `Menu` |
| Advanced options (main.c:891-1087) | flash files, 661.PBP, savestates | delete, rebuild, reload | `Advanced`; the two database triggers in `IdDat` and `LiveArea` |
| 661.PBP download (file.c:274, main.c:1648) | the file, its open handle | fetch, clean up, check the size | `Download`, `Advanced`; in `Installer` by its outcomes |
| File helpers (file.c:121-271) | the tree of the card, open directories | remove a tree, make a path, copy | `FileTree`; copies where they are made |
| PSP game list (file.c:463) | `content_array`, `gamesfound` | scan at start | `Installer`, as a set (`Listed`) |
| Pad, dialogs, text view (main.c:1281-1560, 2405) | the buttons of the last reading, the repeat counter, the choice, the first line shown | draw, read the pad, answer | `Screens` |
| LiveArea theme (main.c:2051-2202, 2438-2522) | icons and images in appmeta, app.db | install, remove, style, restore | `LiveArea` |
| Basegame installer (main.c:2206) | a slot of the download queue | delete what is there, write a fake finished download | `Basegame` |
| Database triggers (file.c:504-574) | id.dat, app.db | rewrite, remove | `IdDat`, `LiveArea` |
| sqlite VFS (vita_sqlite.c) and sqlite's pager | app.db and its journal | open, read, write, delete; not: sync, truncate, lock | `Pager` |
| Graphics, font, library start-up; the rest of sqlite; packaged files | - | - | left out: output, third-party code, data |

How they interact: `main` runs the check once, then the main menu. The check
talks to the rest through globals: what it found decides which menu entries are
active and with which folder, version and id an operation starts. The big
operations end the process, so they never meet the result of another one except
through the card and the next check; the deletions and the LiveArea style return
to the menu and swap its entries themselves. The check, the change and the
uninstall edit the config through the same two functions, with ids that come from
different places. Outside the program, the user deletes games, Adrenaline creates
its flash files and savestates, and the system fills its queue and installs from
it, completes id.dat and rebuilds app.db. The queue is the one place where another
program writes while this one runs.

What makes each part correct:

- check: the globals tell what is on the card after any history of interrupted
  runs; a working installation is left alone; an entry that works no more goes;
- operations: after "Done!" the card holds what was chosen and nothing else;
- config editing: no order of steps loses the user's own lines but one, which the
  code does not avoid (divergence 16); the plugins appear in the right sections and, without
  a fault, in no other; a delete always names what it deletes;
- menus and screens: the cursor is on an entry that is open and drawn, the window
  stays in the array, no loop over blocked entries hangs, an answer is one to the
  question that is shown;
- deletions: what is offered is there, what is said to be deleted is gone, nothing
  goes unasked;
- LiveArea and app.db: a statement takes effect as a whole; as long as nothing fails
  a script does too, and the message and the menu say so; what a failed script has left
  half done, no later one changes;
- queue: the user's downloads and the basegame are not mixed, whenever the system
  fills or empties the queue, but for one window of time (divergence 17).

The hazards behind these are listed, at their lines, in `PROJECT.json`.

## 2. The modules

Each component's module has its state as VARIABLES and an action per step of the
code; the module MC*X* gives its constants values. Three modules are abstract
specifications (`InstallService`, `AtomicReplace`, `UpdateFile`), and the modules
*X*`Proofs` hold theorems.

**`TaiConfig`** - the config file as the set of its lines. A line has the ordinal
of its section, a kind and a name. Deleting a header leaves its body behind,
which then belongs to the section above: this is what the file does, and the
finding comes from it. `GetId`, `WriteLines` and `DeleteLines` are the three
functions of file.c, `Lowest` the "last one wins" of their loops; `HookedTo` is what
taiHENkaku reads, every section with the plugin in it. `ContainsId` is the `strstr` of
file.c:442: it finds an id in a header and in a line of the user's that has it in it; `Cuts` gives what
a write cut short leaves, at the granularity of a section header and its body (a
header may be there without its body).

**`ConfigText`** - the same three functions on the text: a line is a sequence of
words, a word may carry what the code looks for inside it, the last line may lack
its newline. `get_id...` reads word by word (`ReadWord`), the other two line by
line (`WriteLine`, `WriteSection`, `DeleteLine`). The program reads only when it
starts (`Start`), with `GAME_ID`, which is static, still empty; a second read in one
process would take a plugin above the first header for the game of the read before,
and `CallAgrees` would be false. `CallAgrees` says for which files
`TaiConfig`'s view is the right one; it is what entitles `Installer` to use it.

**`Installer`** - the card, the process and the user. `step` is what the process
does next and `ram` its globals and arguments; `"off"` means it does not run.
`Launch` is the check's reading part (nothing else runs in between, so it is one
action) and fixes which way the repair goes. From then on every call that writes
is an action: `Unhook` and `Hook` write temp.txt, `RemoveConfig`, `CopyTemp` and
`DropTemp` are the last three calls of both config functions, `CopySuprx`,
`CopySkprx`, `CopyUsb`, `CopyPboot`, `RemovePboot`, `WriteVersion`, `GetUpdate`,
`SaveUpdate`, `RemoveFolder`, `CheckFolder` and `RemoveBin` the steps of the three
long functions. Where the functions share a step, `ram.op` and `ram.mode` tell
what comes next. Every writing action has three outcomes: it works; it fails and
the code goes on, as it does everywhere; or the power goes while it writes.
`PowerLoss` is the power going between two steps. A file is absent, torn, the
update, or of some release, which is all the code can tell apart. A game is `Listed`
by its `__sce_ebootpbp` and `Living`, for the check of an entry, by its `EBOOT.PBP`:
any game may have one, both or none. `before` is the device before the first start
and never changes: what a run loses counts as lost, however many starts later.

**`InstallService`** - what the installer promises, without its steps: a device has
nothing, one release hooked to one game, or an entry of which nothing works
(`Broken`); an operation leads to what was chosen. **`InstallerService`** has the
refinement mapping: `has` is where the operation under way leads, or else what the
next start will find (`Found`), reading temp.txt in place of the config while there
is none, between the removal and the copy. `FaultlessStep` says that a history
without faults takes steps of `Next` only; `FaultyStep`, that with faults the steps
are those of `FaultyNext`, where an operation hit by a fault may leave anything and
every other one still does what it promises, as long as only the new folder is in
use (`OneFolder`; two folders are divergence 2 below).

**`Menu`** - `recovery_draw_submenu` for any list: how many entries, which may be
blocked at the start, which end the list, which block themselves when entered and
what they open. The `while` loops run one iteration a step, so that "the loop
ends" is a property and not an assumption. `Back` is the set of open entries below
those that block themselves. `recovery_draw_main` and
`draw_psp_games` have the same cursor code and lists that block nothing while
they are shown. `MCMenu` has the program's five tables and its game lists.

**`Screens`** - `readPad` and the screens a menu opens. A frame reads the pad once;
`Work` is an operation, during which the pad is not read. `age` and `arrow` are
history: the readings since the last change of buttons, and the arrow last pressed.
`Handle` and `Place` compute the scrollbar with the integer divisions of the code.

**`IdDat`** - `trigger_update_database` write by write, the system's completion of
the file at boot (external, as the comment at file.c:518 describes it), and losses
of power. It implements **`AtomicReplace`**, a file replaced as a whole, while
nothing fails.

**`LiveArea`** - the theme's file copies and the style's SQL script on the page of
the game that runs Adrenaline, with the two indicators the next start reads (the
backup icon, the folder `temp`), the menu entries they swap, and `Rebuild`
(trigger_rebuild_database). A statement works, is refused by sqlite or fails; from
then on the handle is closed, and using it is an error or a crash, as
`sql_simple_exec` has it. `sound` is history: nothing failed since app.db was made;
`HalfStyledLostTriggers` does without it.

**`Pager`** - one level below: a statement as the pager's journal and page writes on
`vita_sqlite.c`, each of which may fail or be cut short; hot journals, playback and
rollback. A page's content is the number of the statement that wrote it. It is what
entitles `LiveArea` to take a statement for atomic.

**`Basegame`** - `install_psp_basegame`: look at the slot, ask, delete, make the
folders, copy ten files. `Download` and `InstallFromQueue` are the system's and may
come at any of these steps: a download takes the slot while its folder in `bgdl` is
not there, and an installation empties it when all is in it, under the hands of the
program too. `arrived` is history: a download came into the slot after a run's look
at it and before that run was done.

**`FileTree`** - `removePath` with its recursion on an explicit stack, directory
handles and all, and `makePath`, on any tree, reading entries in any order.

**`Download`** - `download_file` block by block, its caller's clean-up and the size
check of the next start. **`Advanced`** extends it with the deletions of "Advanced
Options", the entries that offer them, and Adrenaline making flash files and
savestates: one process, whose `step` makes downloads and deletions exclude each
other. `misled` is history: since the start, a call that looks at the file or removes it
failed. `CheckSize` takes an error of `getFileSize` for a wrong size, as the code does. `Kind` maps its file to the variable of **`UpdateFile`**, in which a download
is one step of which nothing, a part or the whole file stays, a part is cleaned
up, and a whole file goes on the user's demand or, when a look at it fails, without.

**Proofs**: see 4.

## 3. What the runs check

| Run | Instance | Properties |
|---|---|---|
| `card` | `Installer`: 2 games, both listed and playable or one of each kind, the first folder's release and the latest, a config with a kernel plugin and two game plugins of the user's, one named like the game, 1 fault | `DeleteNamesGame`, `OnlyRewriteOfCutLoses`, `MenuTellsTheCard`, `ChosenGameHooked`, `NothingLeft`, `CheckSparesTheLiving` |
| `releases` | `Installer` in `InstallService`: 1 game, 3 releases of both folders, one with a usbdevice.skprx, config on ur0, 1 fault, fairness | `ChosenReleaseInPlace`, `VersionIsTheRelease`, `StaleEntryHealed`, `ImplementsService` |
| `menus` | all tables with all sets of blocked entries the checks can leave, those after an empty version file included, game lists of 1 to 7 games, fairness | `CursorOnOpenEntry`, `WindowInList`, `CursorVisible`, `FrameEnds` |
| `id_dat` | files of 1 to 4 rows in any order with one MID row, 2 faults | `FileComesBack`, `OnlyRetryLoses`, `ReplacesAtomically` |
| `livearea` | a page opened before or not, 2 faults | `SuccessIsTrueIfSound`, `HalfStyledLostTriggers`, `BackupTellsIfNothingFails` |
| `basegame` | the ten files, the system at any step, 2 faults, fairness | `NothingHidden`, `NeverMixed`, `DoneMeansWhole`, `ConfirmedEnds` |
| `file_tree` | every tree of three levels with two names in a folder, every path, 1 fault, fairness | `ResultIsTrue`, `OthersKept`, `HandlesClosed`, `Returns` |
| `screens` | up to two of six buttons held, texts of 1 to 30 lines | `RepeatsInTime`, `TextInView`, `AnswersAreMeant` |
| `config_text` | 19 files, two folders, two games, 4 calls | `CallAgrees`, `ForeignLinesKept` |
| `advanced` | a file of 4 blocks, servers that send 0 to 5, 2 faults | `MenuIsTrue`, `ImplementsUpdateFile`, `GoesOnlyIfAsked` |
| `pager` | 2 statements on a database of 2 pages that may grow to 3, 3 faults, fairness | `AllOrNothing`, `ToldTruly`, `OnlyCommitShows`, `CallEnds` |
| `system_sections` | as `releases`, without fairness | `SystemSectionsKept` is violated |

Each property has a comment in its module that says what it means and why it could
fail; `PROJECT.json` gives for each a change of the code's model that breaks it.

**Bounds.** `MaxFaults` bounds losses of power and I/O errors at any point of a
history; starts, operations, deleted games, boots and downloads are not bounded. One
fault is enough for `Installer`, where every property speaks of what an interruption
leaves for later runs that work: the loss of the user's lines, too, takes one loss of
power and a rewrite in the next run. `IdDat`, `LiveArea`, `Basegame` and `Advanced` have
two, so that one can hit the repair of what another has spoiled, and `Pager` three:
a write that fails, the recovery that is cut short, and the recovery of that.
`MaxSections` bounds the config an install or change starts from: each adds a
section at the end, and leftovers of interrupted runs accumulate; the bound leaves
room for the user's sections, one leftover and one new entry. Two games are the
least for which "another game" and "the game that was deleted" differ; `GameFiles`
gives them both files, or one `__sce_ebootpbp` to the one and an `EBOOT.PBP` to the
other. Three
releases are the least with both folders, a change within a folder, and with and
without usbdevice.skprx. The longest table has 11 entries and a window of 5; lists
of 1 to 7 games cover a window shorter than, as long as and longer than the list.
Trees of three levels have a recursion inside a recursion; two names give every
order of a file and a folder. Texts have 1, 18, 19, 20, 21 and 30 lines, around the
19 a screen shows; two buttons held together are the least that show one starting
the other's count anew. Four calls on config.txt are two rewrites between two
starts, each of which reads the game.
Two blocks are enough for a download cut between two of them, and 5 is one more
than the file has. A transaction of the pager that changes one page, all pages, or
appends one, after another that did the like, is all it distinguishes.

**Fairness.** `FairSpec` of `Installer` has weak fairness of the program's own steps
(a thread that runs goes on) and of `Quit`; `Launch` is among the steps, which
says that somebody starts the installer again. Nobody is made to choose an
operation. `FairSpec` of `Menu` is weak fairness of its steps: the thread runs
on; `ReadKeys` may read that no button is pressed. `FairSpec` of `FileTree` and
`Spec` of `Pager` have it for the steps of a call that has been made: system calls
return. `FairSpec` of `Basegame` has it for the calls and for the user's answer to
the question. No liveness property needs more than weak fairness, and each allows
for the faults: `MaxFaults` makes them stop, without which a repair could be
interrupted for ever.

**Deadlock** is checked except in `file_tree`, `config_text` and `pager`, which model
one or a bounded number of calls and stop after them.

### Finding

**A system section is taken for a game** (`system_sections`): the check at main.c:324
calls an entry whose game is not found a leftover of a deleted game. Leftovers of
the other folder, which the check never looks at (the TODO at main.c:313), make a
suprx line fall into `*main` when the header above it is deleted; a later start then
takes `*main` for the game and deletes that header.

### Where the code and its comments part

Seen while modelling, in the same models with a property that states the comment.
The properties checked above state what does hold in each case. The last four have
no comment that denies them, or one that is merely silent on them.

1. main.c:128 gives every release its folder; `install_adrenaline_files` switches
   `ADR_FOLDER` to the old one and never back (main.c:1584). After an install of an
   old release that was cut short before the config, the latest goes to the old
   folder. `ChosenReleaseInPlace` is about the folder in use.
2. main.c:299 switches the folder "if an old installation is found", but looks for
   it only when the new folder has no `adrenaline.skprx`: what an aborted
   installation left there hides a whole one in the old folder. Hence the clause on
   the old folder in `FaultyStep`.
3. main.c:425 blocks "Install the latest" when the version file names it; a change
   writes that file after the plugins, so that an interruption leaves the latest's
   name beside another release and the entry that would repair it blocked.
4. main.c:1121, "back is always active": with an empty version file (a write cut
   short) every entry of two menus equals `ADR_VERSION`, back included (main.c:1104),
   and the loops over blocked entries (main.c:1110, 1189, 1229) never end. These lists
   are among the starts of `menus`; `FrameEnds` says one open entry is enough.
5. main.c:1121, "this is save": after entries 1 to 3 of the advanced menu have
   blocked themselves, the jump leaves the cursor below the window.
   `CursorVisible` is for lists that do not block entries while they are open.
6. file.c:517 says one row of id.dat goes. A call after an interrupted one empties
   temp.dat, the last copy, and writes a file without rows: `OnlyRetryLoses`.
7. main.c:860 takes any result but 0 for success, -1 included, and 1 is returned
   whatever the statements did; once an interruption has left app.db without its
   triggers, every later style operation fails at its first statement and is called
   successful: a half styled page stays as it is until app.db is rebuilt.
   `SuccessIsTrueIfSound` and `HalfStyledLostTriggers`.
8. main.c:400 and 2484: the folder `temp` is to tell whether the style is there. A
   loss of power before it is made, or a database rebuilt while it is there, makes
   it wrong.
9. main.c:420: a backup icon "means a livearea theme must be installed"; the backup
   is written first, so an interruption leaves it alone: `BackupTellsIfNothingFails`.
10. file.c:358 reads "the Title_ID starting with a *"; a star anywhere in a word
    will do, and the id then starts at the word's second character. `CallAgrees` is
    for files without such words.
11. file.c:319, "done downloading": the end of a connection that was cut off looks
    the same, and the length announced is not compared. The size check of the next
    start makes up for it: `MenuIsTrue`.
12. main.c:921, "were deleted successfully": no result is looked at, so
    `MenuIsTrue` asks it of flash files only while nothing failed.
13. sqlite3.c:34148: a playback truncates the file to its original size;
    `vita_xTruncate` does nothing, so appended pages stay. `Holds` allows them.
14. sqlite3.c:36916: a commit is irrevocable; `vita_xSync` does nothing, so that it
    is so only if the card writes at once, which `Pager` assumes.
15. sqlite3.c:35552: a journal is hot only if nobody holds a lock; `vita_xLock`
    locks nothing. `Pager` has one process.
16. file.c:418 and 457 copy the new text to where the config was. A loss of power in
    the copy leaves a config cut short and all of it in temp.txt; nothing reads temp.txt
    again, the next start goes by the config as it is, and its first rewrite truncates temp.txt (file.c:380, 429). The user's lines are lost, over
    two runs, with no error in either. `OnlyRewriteOfCutLoses` names that step as the
    only one.
17. main.c:2221 looks for something in the queue once. A download that comes between
    this look and the last copy is mixed with the game: makePath and copyFile write
    into what is there. `NeverMixed` and `NothingHidden` are about the other histories.
18. main.c:379, "check for correct/complete/valid update file": `getFileSize` returns
    an error when it cannot open the file (file.c:142-144), which is not `UPDATE_SIZE`
    either, and a whole 661.PBP is deleted unasked. `GoesOnlyIfAsked` names it as the
    exception, `Lose` of `UpdateFile` is the step.
19. main.c:322 calls a game deleted that has no `EBOOT.PBP`; main.c:274 lists games by
    their `__sce_ebootpbp` (file.c:480). An installation to a game listed without an
    `EBOOT.PBP` is undone by the next start. `MenuTellsTheCard` counts as installed only
    what that start leaves.
## 4. What is proved

The runs check the properties on small instances; the theorems state them for
every value of the constants. They rest on the assumptions the modules name
(`WordsAssumption`, `InstallerAssumption`, `MenusAssumption`,
`IdDatAssumption` and so on), which the runs evaluate, and on nothing else unless it is said below.

`InstallerProofs`, for any sets of games and releases, any config a user may have,
any number of faults and no bound on a history's length:

| Theorem | Says | Argument |
|---|---|---|
| `TypeCorrect` | `Spec => []TypeOK` | one lemma per group of actions, on lemmas about the texts (`WriteTyped`, `DeleteTyped`, `CutsTyped`) and about how a step ends (`GoTyped`, `PutFileTyped`, `RemoveFileTyped`, `EditTyped`) |
| `DeleteIsNamed` | `Spec => []DeleteNamesGame` | from `OpInv`, which is `IInv` |
| `UserLinesAreKept` | `Spec => OnlyRewriteOfCutLoses` | `Home` and `Way`, below |
| `CheckSparesWorking` | `Spec => CheckSparesTheLiving` | from `CheckInv` |
| `MenuIsTheCard` | `Spec => []MenuTellsTheCard` | `Checked`, a part of `Full` |
| `ReleaseInPlace` | `Spec => []ChosenReleaseInPlace` | `Placement`, a part of `Full` |
| `GameHooked` | `Spec => []ChosenGameHooked` | `Text` and `Pboots`, on what is always so of the texts (`Sound`), and `Singles` for every other entry |
| `NothingIsLeft` | `Spec => []NothingLeft` | the same, and `FilesGone` |
| `VersionTellsRelease` | `Spec => []VersionIsTheRelease` | `Versioned`, a part of `Full` |
| `ServiceImplemented` | `Spec => ImplementsService`: without faults every step, with any number of them every step while one folder is in use | `Full`, `OnePlace` and `Repairs` |

None of these properties is inductive. That a delete has an id depends on how
the run came to it: `OpInv` says which operation each step may belong to
(`StepFitsOp`) and that a change, an uninstall, a repair or an installation has an
id (`GameNamed`). `Aside` names what all steps outside of a rewrite share, which
leaves one short case per action. `CheckInv` says that while the check deletes, what
made it delete is still so.

`OnlyRewriteOfCutLoses` speaks of a step, whatever the card has come to. It needs to
know that the run edits the place where the user's config was before the first start,
and that every id and every header is the name of a game or of a section of the user's,
so that a delete drops none of the lines in `Own` (`Home`, with `Known`). And
`Way` says of a run without an I/O error that temp.txt has the lines, if the config
still has them, before the config is removed, and that the config has them, if temp.txt
has, before temp.txt is.

What a "Done!" promises needs an invariant that follows the whole card through
every operation. `Full` has five parts. `Texts`: every text of the config, cut short
or not, is `Sound` (it ends, its sections have names, and a plugin of Adrenaline that a
game loads has its kernel plugin above it), so that what delete and write do to it can be told.
`Chosen` and `FilesInFolders` are about the globals and the folders. `Whole`: while
this run has had no fault and is not off, `Here` holds, which says by step and
operation which way was taken (`Route`), which files are in the folder
(`Placement`), what the rewrite has left in the two texts (`Text`), whose PBOOT.PBP
are there (`Pboots`) and what the start-up check has found (`Checked`). `Faultless`:
as long as no run had a fault, the version file tells the release beside it
(`Versioned`), one folder at most is in use, by the files and by the config
(`Tidy`), and no text has entries of two sections for one folder (`Singles`).

`ServiceImplemented` maps every step of `Installer` to one of `InstallService` or to
a stutter. Up to the first fault this follows from `Full`, whatever folders are in use
(`ServiceWithoutFaults`). After it `Faultless` says nothing; what carries on is `OnePlace` (at most one place has
a config, and it is the one the run writes) and `Repairs` (the check removes nothing
but an entry whose game, or plugin, is gone), which no fault can break. An operation
a later run completes ends with what was chosen by `Here` alone (`DoneFoundOnce`).
The proof corrected the model of the service: with two faults, a start whose config
could not be removed had been read as if it used temp.txt, which no call of the code
does; so `Effective` takes temp.txt only while the config is missing.

`ServiceAssumption` is about the values of the abstract state that are no installation.
`InstallerAssumption` says, among other things, that no game has the id "KERNEL", the
word that taiHEN has for its own section, and that the sections of the user's config
have names; the texts are told apart by both. `IInv`, `Full`, `Home`, `Way`, `OnePlace` and `Repairs` were run
through TLC on the instances of `card` and `releases` before they were proved, the
last two and `ImplementsService` with two faults as well.

`MenuProofs`, for lists of any length and any sets of blocked entries:

| Theorem | Says | Argument |
|---|---|---|
| `TypeCorrect` | `Spec => []TypeOK`: the cursor stays in the array or on its terminator | one case per action |
| `WindowCorrect` | `Spec => []WindowInList` | `WindowInv` adds that the loop of DOWN is entered above the end only |
| `CursorCorrect` | `Spec => []CursorOnOpenEntry` | `CursorInv`: while there is an open entry in `Back`, one is at or below the cursor whenever a loop looks downwards for one |
| `CursorStaysVisible` | `Spec => []CursorVisible` | `ScreenInv`: either the window has scrolled to the cursor (`Scrolled`) or all entries before the cursor are blocked and the window is about to follow (`Leading`) |

Both properties name their condition, that some entry of `Back` is open: divergence 4
above is a pair of menus without one. `WindowCorrect` does without.

The same module holds the theorems of `Screens`, whose specification it names
`ScreensSpec`, for any combinations of buttons and texts:

| Theorem | Says | Argument |
|---|---|---|
| `HeldButtonsRepeat` | `ScreensSpec => []RepeatsInTime` | `PadInv`: the counter of `readPad` as a function of how long the combination has been held |
| `AnswersMeant` | `ScreensSpec => AnswersAreMeant` | `AnswerInv`: until a question is drawn, the Enter that opened it is among the buttons last read |
| `TextStaysInView` | `ScreensSpec => []TextInView`, for texts of at most 1900 lines | `TextInv`, and `Proportional`, which is about products of naturals |

The bound is the code's: the height of the handle is 4 times 1900 divided by the
lines, as integers (main.c:1363), which is 0 for more lines; the packaged text has 81.

`RewriteProofs` is about the two files that are rewritten through a temporary one. For
any config.txt, of any length, and any number of calls:

| Theorem | Says | Argument |
|---|---|---|
| `TypeCorrect` | `Spec => []TypeOK` | `CopyInv`, below, says that the temporary file can be appended to |
| `ForeignLinesStay` | `Spec => ForeignLinesKept` | `CopyInv`: the foreign lines among those dealt with are in temp.txt, in order (`KeptIn`) |
| `CallsAgree` | `Spec => CallAgrees` | `Agreeing`, below |

The induction over the length of the file is that of the loops themselves: `Agreeing`
says that a loop has done to the sections of the lines before it (`SoFar`) what
`TaiConfig` says. The word reader has the game in `PSP_GAME_ID` and the last header in
`GAME_ID` (`Reads`), the line writer has put the kernel plugin below every header
`*KERNEL` (`Writes`), the deleting one has kept the lines that are not dropped, under
the headers that are left (`Deletes`). A lemma for each of the operators of
`TaiConfig` says what one line more changes (`SectionGrows`, `GetIdGrows`,
`KernelsGrow`, `DeletedGrows`, `RenumberedGrows`); so `Meaning` is stated by counting
the headers before a line, without a fold. The proof showed that the
static `GAME_ID` matters: `Reads` holds of an empty one only, and a run of four calls
had a counterexample until `Start` said when the program reads.

For any rows and any text of id.dat with a MID row, the specification of `IdDat` being
named `DatSpec`:

| Theorem | Says | Argument |
|---|---|---|
| `DatTypeCorrect` | `DatSpec => []DatTypeOK` | one case per action, on lemmas about blanked, cut and filled texts |
| `FileComesBackAlways` | `DatSpec => []FileComesBack` | `Undisturbed`: while there was no fault, what the two files hold at each step |
| `CallsAreOneReplacement` | `DatSpec => ReplacesAtomically` | the steps of a call without faults map to `Replace`, `Boot` or a stutter |
| `LossesOnlyByRetry` | `DatSpec => OnlyRetryLoses` | `Kept`: the whole text is in temp.dat from the write on |

`AdvancedProofs`, for an update of any size, any servers and any number of faults:

| Theorem | Says | Argument |
|---|---|---|
| `MenuTellsTrue` | `MenuSpec => []MenuIsTrue` | `IInv`: the entries match the card outside of a deletion (`EntriesMatch`), what a deletion has done by each of its steps (`DeletedSoFar`), and that it is the one that was asked for (`AskedFor`); `misled` is a part of each |
| `NothingGoesUnasked` | `MenuSpec => GoesOnlyIfAsked` | the same invariant, with a case for each step that deletes |
| `DownloadIsOneStep` | `MenuSpec => ImplementsUpdateFile` | each step maps to one of `UpdateFile`, or to a stutter |

`LiveAreaProofs`, for any number of failed calls, of restarts and of losses of power:

| Theorem | Says | Argument |
|---|---|---|
| `TypeCorrect` | `Spec => []TypeOK` | one case per action |
| `StyleMessagesAreTrue` | `Spec => []SuccessIsTrueIfSound` | `StyleInv`, below |
| `HalfStyledIsLeftAlone` | `Spec => []HalfStyledLostTriggers` | `PageInv`, below |
| `BackupTells` | `Spec => []BackupTellsIfNothingFails` | `BackupInv`: without faults a backup is there without the icon of the theme only while files are being replaced or wiped |

`StyleInv` says what app.db is after the first k statements of either script
(`Adding`, `Removing`), and that outside of the scripts the page is styled or plain,
with both triggers. So no statement is ever refused: every trigger that is dropped
is there and every one that is created is not (`AddGoesOn`, `RemoveGoesOn`). `PageInv`
is about any faults: a script whose database is still open has either not come past
its first two statements (`Begun`), or has dropped both triggers and is as far as
`AfterAdd` and `AfterRemove` say; one whose database is closed changes nothing.

`BasegameProofs`, for any number of losses of power and of calls that fail, with the
system filling and emptying the slot at any step:

| Theorem | Says | Argument |
|---|---|---|
| `TypeCorrect` | `Spec => []TypeOK` | one case per action |
| `NothingStaysHidden` | `Spec => []NothingHidden` | `SlotInv`: what is in `pspemu` has its folder in `bgdl`, and a run that begins to copy finds the slot empty |
| `SlotUnmixed` | `Spec => []NeverMixed` | `NothingOfTheUsers`: as long as no download came amid a run, a file of the user's shows in `bgdl`, and there is none while the program writes |
| `DoneIsWhole` | `Spec => DoneMeansWhole` | `DoneSoFar`: what is there by each step |

The last three rest on one invariant, whose parts hold under different conditions:
`Nested`, no folder without the one around it and no file without its folder, always;
`NothingOfTheUsers` until a download comes amid a run, whatever fails; `SlotInv` until
a call fails as well. `SlotInv` is why removePath of `pspemu` before `bgdl` matters, and
the system's own steps keep all three, at any moment.

`PagerProofs`, for databases of any size, any number of statements, failed or torn
writes and losses of power:

| Theorem | Says | Argument |
|---|---|---|
| `TypeCorrect` | `Spec => []TypeOK`: no more records than pages | `JournalInv` counts records and pages still to be saved |
| `Atomic` | `Spec => []AllOrNothing` | `IInv`, below |
| `Truthful` | `Spec => []ToldTruly` | the same; what was told is a part of `ColdInv` and `HotInv` |
| `CommitDecides` | `Spec => OnlyCommitShows` | `FoundInv`: behind a hot journal, and until a statement is done, the next process finds what was there before it; without one, the database as it is |

`IInv` has a part for each moment. With a journal that is not hot the database is
whole (`ColdInv`). With a hot one every page is as before the statement or has a good
record (`HotInv`). While the journal is written the database is untouched and the
records and the pages still to be saved leave out no page that will change
(`JournalInv`); while pages are stored, those that are not are the old ones
(`StoreInv`); in a playback the records done are in their places (`PlaybackInv`). A
write cut short is a case of each of the three. `Contiguous` says that a database has no
holes, so that the size a statement starts from tells which pages it appends.

`FileTreeProofs`, for trees of any depth, any names and any number of I/O errors:

| Theorem | Says | Argument |
|---|---|---|
| `NoHandleLeft` | `Spec => []HandlesClosed` | `StackInv`: every open directory belongs to a frame that reads, and there are frames only during a call |
| `NothingElseGoes` | `Spec => []OthersKept` | the frames are for paths under the argument, entries of theirs are as well (`UnderAppend`), and nothing else is unlinked |
| `ResultTells` | `Spec => []ResultIsTrue` | `ResultInv`, below |

`ResultInv` has a part for each call. For removePath (`RemoveInv`): the frames are a
path down from the argument (`Chain`), and what is left in a folder that is being
read is still to be read or is what the frame above is for (`NothingMissed`), so a
folder that has no more entries is empty and can be removed. For makePath
(`MakeInv`): the prefixes it has come to are folders, unless a file was in the way.

Each of these invariants was run through TLC on the instance of its run before it
was proved.


Only model-checked is liveness (`StaleEntryHealed`, `FrameEnds`, `ConfirmedEnds`,
`Returns`, `CallEnds`): fairness and ENABLED are out of the prover's reach. Every
invariant, action property and refinement a run checks has a theorem.

## 5. What is not modelled

- The text on the screen, the debug mode behind L and R, graphics, fonts and the
  loading of system modules: output.
- The firmware, molecularShell and unsafe-homebrew checks (main.c:172-246), which
  only read and refuse.
- `createMS0structure` (main.c:1966-1980), which makes empty folders nothing else of
  the program reads, and `getEbootTitle` (file.c), which reads a title for the list.
- The list of games as an array: 256 entries and a loop that does not count
  (file.c:484), and the `memmove` of 255 bytes into `GAME_ID` (file.c:359). What lies
  behind the two in memory is the build's choice, and a model of it would be invented.
- Lines of `config.txt` longer than 1023 bytes, which `fgets` splits (file.c:388, 437)
  and `fscanf` overruns.
- What a file system shows in a directory whose entries are being deleted: `FileTree`
  reads what was there when the directory was opened, which is what removePath
  relies on.
- Presence tests that fail on a file that is there (`doesFileExist`, `doesDirExist`):
  only `Download` and `Advanced`, where a deletion hangs on one, have them; elsewhere
  they tell the truth.
- Downloads of the user's other than into the slot the basegame uses.
- The text view of an empty file, which divides by 0: undefined.
- A version file cut inside its one short write to a name that is itself a release
  (`adrenaline_v5` of `adrenaline_v5.1`).
- sqlite beyond the rollback journal: the parser, the virtual machine, the b-tree,
  spills of a full cache and journals of several databases. The vendored sources are
  112000 of the repository's 125000 lines; the program's own are main.c and file.c.
- Writes the card puts off and a second process that writes app.db: on the methods of
  vita_sqlite.c no property of the pager holds under either (divergences 14 and 15).
- Releases, images, the basegame and the build: data.
