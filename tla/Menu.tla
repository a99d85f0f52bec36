-------------------------------- MODULE Menu --------------------------------
(***************************************************************************)
(* The scrolling list all menus of main.c are: recovery_draw_submenu, and  *)
(* with the same cursor code recovery_draw_main and draw_psp_games, whose  *)
(* lists block no entry while they are shown.                              *)
(*                                                                         *)
(* An entry is its index; the index after the last is the terminator of    *)
(* the C array, which is of type MENU_DUMMY.  A window of `Shown' entries  *)
(* from `toption' on is drawn, `selection' is the cursor.  The while loops *)
(* over the types run one iteration a step.                                *)
(***************************************************************************)
EXTENDS Integers

CONSTANTS
    Menus,          \* the lists: see MenusAssumption
    ShowOptions     \* showoptions, "the number of options that should be displayed at once"

(* options: how many entries; exits: those of type MENU_EXIT; starts: the  *)
(* sets of entries that may be blocked when the list is first opened;      *)
(* closes: the entries whose function blocks the entry itself; opens: what *)
(* that function activates.                                                *)
ASSUME MenusAssumption ==
    /\ ShowOptions \in Nat \ {0, 1}
    /\ \A m \in Menus :
         /\ m.options \in Nat \ {0}
         /\ m.starts \subseteq SUBSET (0..m.options - 1)
         /\ m.exits \subseteq 0..m.options - 1
         /\ m.closes \subseteq 0..m.options - 1
         /\ m.opens \in [m.closes -> SUBSET (0..m.options - 1)]

Phases == {"closed", "first", "jump", "top", "input", "up", "uploop", "down", "downloop", "act"}
Keys == {"up", "down", "enter", "cancel"}

VARIABLES menu, blocked, selection, toption, phase, keys
vars == <<menu, blocked, selection, toption, phase, keys>>

Last == menu.options - 1
Shown == IF ShowOptions > menu.options THEN menu.options ELSE ShowOptions

(* The variables keep their types; the cursor stays in the array or on its *)
(* terminator.                                                             *)
TypeOK ==
    /\ menu \in Menus
    /\ blocked \subseteq 0..Last
    /\ selection \in 0..menu.options
    /\ toption \in Nat
    /\ phase \in Phases
    /\ keys \subseteq Keys

Init ==
    /\ menu \in Menus /\ blocked \in menu.starts
    /\ selection = 0 /\ toption = 0 /\ phase = "closed" /\ keys = {}

-----------------------------------------------------------------------------
Open ==
    /\ phase = "closed"
    /\ selection' = 0 /\ toption' = 0 /\ phase' = "first" /\ keys' = {}
    /\ UNCHANGED <<menu, blocked>>

(* To the first active entry on opening; past entries that were blocked    *)
(* while their function ran, at the top of every frame.                    *)
Skip(here, next) ==
    /\ phase = here
    /\ IF selection \in blocked
       THEN selection' = selection + 1 /\ UNCHANGED phase
       ELSE phase' = next /\ UNCHANGED selection
    /\ UNCHANGED <<menu, blocked, toption, keys>>

FirstActive == Skip("first", "jump")
(* Mutant: the cursor stays on the entry that has been blocked.            *)
NoJump == phase = "jump" /\ phase' = "top" /\ UNCHANGED <<menu, blocked, selection, toption, keys>>
NextActive == Skip("jump", "top")

(* The window follows the cursor upwards, then leaves blocked entries      *)
(* behind at its top.  The list is drawn and the pad is read.              *)
AdjustTop ==
    /\ phase = "top"
    /\ \/ selection < toption /\ toption' = selection /\ UNCHANGED phase
       \/ /\ selection >= toption
          /\ IF toption \in blocked /\ menu.options - toption > Shown
             THEN toption' = toption + 1 /\ UNCHANGED phase
             ELSE phase' = "input" /\ UNCHANGED toption
    /\ UNCHANGED <<menu, blocked, selection, keys>>

ReadKeys ==
    /\ phase = "input"
    /\ keys' \in SUBSET Keys
    /\ phase' = "up"
    /\ UNCHANGED <<menu, blocked, selection, toption>>

-----------------------------------------------------------------------------
(* Mutants: the first entry ends the list; the window does not follow the  *)
(* wrap-around.                                                            *)
EntryAboveClamped(s) == IF s <= 0 THEN 0 ELSE s - 1
TopStays(s, top) == top

(* One entry up, round from the first to the last.                         *)
EntryAbove(s) == IF s <= 0 THEN Last ELSE s - 1
TopAbove(s, top) == IF s <= 0 THEN menu.options - Shown ELSE top
ScrollUp(s, top) == IF top > 1 /\ s = 1 THEN top - 1 ELSE top

Up ==
    /\ phase = "up"
    /\ IF "up" \in keys
       THEN /\ selection' = EntryAbove(selection)
            /\ toption' = TopAbove(selection, toption)
            /\ phase' = "uploop"
       ELSE phase' = "down" /\ UNCHANGED <<selection, toption>>
    /\ UNCHANGED <<menu, blocked, keys>>

UpLoop ==
    /\ phase = "uploop"
    /\ IF selection \in blocked
       THEN /\ selection' = EntryAbove(selection)
            /\ toption' = ScrollUp(EntryAbove(selection), TopAbove(selection, toption))
            /\ UNCHANGED phase
       ELSE /\ toption' = ScrollUp(selection, toption)
            /\ phase' = "down" /\ UNCHANGED selection
    /\ UNCHANGED <<menu, blocked, keys>>

(* Mutant: the window scrolls past the end of the list.                    *)
ScrollDownFreely(s, top) == IF Shown # 1 /\ s = top + Shown - 1 THEN top + 1 ELSE top

(* One entry down, round from the last to the first.  A window of one      *)
(* entry is the cursor.                                                    *)
EntryBelow(s) == IF s >= Last THEN 0 ELSE s + 1
ScrollDown(s, top) ==
    IF Shown # 1 /\ top + Shown < menu.options /\ s = top + Shown - 1 THEN top + 1 ELSE top
TopBelow(s, top) == IF s >= Last THEN top ELSE ScrollDown(s + 1, top)

Down ==
    /\ phase = "down"
    /\ IF "down" \in keys
       THEN /\ selection' = EntryBelow(selection)
            /\ toption' = TopBelow(selection, toption)
            /\ phase' = "downloop"
       ELSE phase' = "act" /\ UNCHANGED <<selection, toption>>
    /\ UNCHANGED <<menu, blocked, keys>>

DownLoop ==
    /\ phase = "downloop"
    /\ IF selection \in blocked
       THEN /\ selection' = EntryBelow(selection)
            /\ toption' = TopBelow(selection, toption)
            /\ UNCHANGED phase
       ELSE /\ toption' = IF Shown = 1 THEN selection ELSE ScrollDown(selection, toption)
            /\ phase' = "act" /\ UNCHANGED selection
    /\ UNCHANGED <<menu, blocked, keys>>

-----------------------------------------------------------------------------
(* Cancel leaves after this frame; Enter leaves on an exit entry, and runs *)
(* the function of an active one, which may close its own entry or fail.   *)
Active(s) == s <= Last /\ s \notin blocked /\ s \notin menu.exits

Act ==
    /\ phase = "act"
    /\ \/ UNCHANGED blocked
       \/ /\ "enter" \in keys /\ Active(selection) /\ selection \in menu.closes
          /\ blocked' = (blocked \ menu.opens[selection]) \union {selection}
    /\ phase' = IF "cancel" \in keys \/ ("enter" \in keys /\ selection \in menu.exits \ blocked)
                THEN "closed" ELSE "jump"
    /\ keys' = {}
    /\ UNCHANGED <<menu, selection, toption>>

Next ==
    \/ Open \/ FirstActive \/ NextActive \/ AdjustTop \/ ReadKeys
    \/ Up \/ UpLoop \/ Down \/ DownLoop \/ Act

Spec == Init /\ [][Next]_vars

(* The loop runs on; nobody has to press a button.                         *)
FairSpec == Spec /\ WF_vars(Next)

-----------------------------------------------------------------------------
(* Properties.                                                             *)

(* The entries that are not blocked and stay so: those below all that      *)
(* block themselves.  "back is always active", says the code of the last   *)
(* one of a list; but an empty version file blocks every entry without an  *)
(* argument, so that of some lists none is left, and there the loops over  *)
(* blocked entries do not end.                                             *)
Back == {s \in 0..Last : s \notin blocked /\ \A c \in menu.closes : c < s}

(* Whenever a list with such an entry is drawn or a button acts on it, the *)
(* cursor is on an entry of the list, and not on a blocked one: Enter      *)
(* cannot start what the checks have ruled out.                            *)
CursorOnOpenEntry ==
    phase \in {"input", "act"} /\ Back # {} => selection \in (0..Last) \ blocked

(* The drawing loop reads no entry beyond the array, whatever is blocked.  *)
WindowInList == toption + Shown <= menu.options

OnScreen == selection \in toption..(toption + Shown - 1)

(* The entry under the cursor is among those drawn, over any sequence of   *)
(* wrap-arounds and jumps over blocked entries, in a list whose entries do *)
(* not block themselves and are not all blocked.                           *)
CursorVisible == phase = "input" /\ menu.closes = {} /\ Back # {} => OnScreen

(* No frame hangs in a loop over blocked entries, unless all are blocked.  *)
FrameEnds == phase \notin {"input", "closed"} /\ Back # {} ~> phase \in {"input", "closed"}

=============================================================================
