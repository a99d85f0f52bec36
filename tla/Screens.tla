------------------------------- MODULE Screens -------------------------------
(***************************************************************************)
(* The pad (readPad, main.c:2405-2426) and the screens a menu opens: the   *)
(* question recovery_draw_dialog, the message recovery_draw_message, the   *)
(* text recovery_draw_textfile (main.c:1281-1535).  Every frame of a       *)
(* screen reads the pad once and then draws; while an operation is at work *)
(* the pad is not read.  Menus themselves are modelled in Menu.            *)
(***************************************************************************)
EXTENDS Integers, FiniteSets

CONSTANTS
    Lines,      \* how many lines the text files may have
    MaxChord    \* bound on the buttons held down together

ASSUME ScreensAssumption == Lines \subseteq Nat \ {0} /\ MaxChord \in Nat

Buttons == {"up", "down", "left", "right", "enter", "cancel"}
Chords == {chord \in SUBSET Buttons : Cardinality(chord) <= MaxChord}

VARIABLES
    old,        \* old_buttons: the buttons at the last reading
    pressed,    \* pressed_buttons: those that were not down before
    hold,       \* hold_buttons: those that act, again and again when held
    hold_n,     \* the counter of readings without a change
    screen,
    choice,     \* of the dialog: 0 is No, 1 is Yes
    lines,      \* of the text file
    line,       \* current_line, the first that is shown
    shown,      \* the screen has been drawn
    age,        \* readings since the last change, counted on from 16 after 21
    arrow       \* the arrow last pressed in the dialog

pad == <<old, pressed, hold, hold_n, age>>
screensVars == <<pad, screen, choice, lines, line, shown, arrow>>

ScreensTypeOK ==
    /\ old \in Chords /\ pressed \in Chords /\ hold \in Chords
    /\ hold_n \in 0..9
    /\ screen \in {"menu", "dialog", "busy", "message", "text", "unreadable"}
    /\ choice \in {0, 1}
    /\ lines \in Lines \cup {0} /\ line \in Nat
    /\ shown \in BOOLEAN
    /\ age \in 0..21 /\ arrow \in {"none", "left", "right"}

-----------------------------------------------------------------------------
(* readPad.                                                                *)

FirstRepeat == 10       \* the readings until a held button acts again
NextRepeat == 4         \* what the counter starts from after that

(* Mutant: the counter is not reset by a change.                           *)
CountOn(down) == IF hold_n + 1 >= FirstRepeat THEN NextRepeat ELSE hold_n + 1

Count(down) ==
    IF down # old THEN 0
    ELSE IF hold_n + 1 >= FirstRepeat THEN NextRepeat ELSE hold_n + 1

ReadPad(down) ==
    /\ pressed' = down \ old
    /\ hold' = IF down = old /\ hold_n + 1 >= FirstRepeat THEN down ELSE down \ old
    /\ hold_n' = Count(down)
    /\ old' = down
    /\ age' = IF down # old THEN 0 ELSE IF age = 21 THEN 16 ELSE age + 1

Pressed(button) == button \in pressed'

(* A frame that leaves the screen as it is, and one that opens another.    *)
Draw == shown' = TRUE /\ UNCHANGED screen
OpenScreen(next) == screen' = next /\ shown' = FALSE

-----------------------------------------------------------------------------
(* Enter in a menu opens what its entry is for.                            *)
MenuFrame(down) ==
    /\ screen = "menu" /\ ReadPad(down)
    /\ choice' = 0 /\ line' = 0 /\ arrow' = "none"
    /\ IF Pressed("enter")
       THEN \/ OpenScreen("dialog") /\ UNCHANGED lines
            \/ OpenScreen("text") /\ lines' \in Lines
            \/ OpenScreen("unreadable") /\ UNCHANGED lines
       ELSE Draw /\ UNCHANGED lines

(* Right wins over left, Cancel over Enter.                                *)
Chosen == IF Pressed("right") THEN 1 ELSE IF Pressed("left") THEN 0 ELSE choice

DialogFrame(down) ==
    /\ screen = "dialog" /\ ReadPad(down)
    /\ choice' = IF Pressed("cancel") THEN 0 ELSE Chosen
    /\ arrow' = IF Pressed("right") THEN "right" ELSE IF Pressed("left") THEN "left" ELSE arrow
    /\ IF Pressed("enter") \/ Pressed("cancel")
       THEN OpenScreen(IF choice' = 1 THEN "busy" ELSE "menu")
       ELSE Draw
    /\ UNCHANGED <<lines, line>>

(* Mutant: each screen starts with a pad of its own.                       *)
WorkForgetsPad ==
    /\ screen = "busy" /\ OpenScreen("message")
    /\ old' = {}
    /\ UNCHANGED <<pressed, hold, hold_n, age, choice, lines, line, arrow>>

(* The operation that was confirmed, and its result.                       *)
Work ==
    /\ screen = "busy" /\ OpenScreen("message")
    /\ UNCHANGED <<pad, choice, lines, line, arrow>>

MessageFrame(down) ==
    /\ screen = "message" /\ ReadPad(down)
    /\ IF Pressed("enter") THEN OpenScreen("menu") ELSE Draw
    /\ UNCHANGED <<choice, lines, line, arrow>>

(* The text, at most 19 lines of it, and a scrollbar, which divides by the *)
(* number of lines.                                                        *)
ShowLines == IF lines < 19 THEN lines ELSE 19

(* Mutant: one line further.                                               *)
LineBelowEnd(held) ==
    LET up == IF "up" \in held /\ line > 0 THEN line - 1 ELSE line
    IN  IF "down" \in held /\ lines - up >= ShowLines THEN up + 1 ELSE up

LineAfter(held) ==
    LET up == IF "up" \in held /\ line > 0 THEN line - 1 ELSE line
    IN  IF "down" \in held /\ lines - up > ShowLines THEN up + 1 ELSE up

TextFrame(down) ==
    /\ screen = "text" /\ ReadPad(down)
    /\ line' = LineAfter(hold')
    /\ IF Pressed("cancel") THEN OpenScreen("menu") ELSE Draw
    /\ UNCHANGED <<choice, lines, arrow>>

(* A file that cannot be opened: "Error opening file!".                    *)
ErrorFrame(down) ==
    /\ screen = "unreadable" /\ ReadPad(down)
    /\ IF Pressed("cancel") THEN OpenScreen("menu") ELSE Draw
    /\ UNCHANGED <<choice, lines, line, arrow>>

ScreensInit ==
    /\ old = {} /\ pressed = {} /\ hold = {} /\ hold_n = 0 /\ age = 0
    /\ screen = "menu" /\ choice = 0 /\ lines = 0 /\ line = 0
    /\ shown = FALSE /\ arrow = "none"

ScreensNext ==
    \/ \E down \in Chords :
         \/ MenuFrame(down) \/ DialogFrame(down) \/ MessageFrame(down)
         \/ TextFrame(down) \/ ErrorFrame(down)
    \/ Work

ScreensSpec == ScreensInit /\ [][ScreensNext]_screensVars

-----------------------------------------------------------------------------
(* Properties.                                                             *)

(* A button that is held acts again after ten readings and then every six, *)
(* with the other buttons held; any change starts the count anew.          *)
RepeatRate == hold # pressed => age \in {10, 16}
RepeatsCome == age \in {10, 16} => hold = old
RepeatsInTime == RepeatRate /\ RepeatsCome

(* Enter answers a question or takes note of a message only once it has    *)
(* been drawn: neither the press that opened the screen nor one made while *)
(* an operation was at work counts.                                        *)
AnswersWhatIsShown ==
    screen \in {"dialog", "message"} /\ screen' # screen /\ Pressed("enter") => shown

(* Yes is what the user went to last, and Cancel is never taken for it.    *)
MeansYes ==
    screen = "dialog" /\ screen' = "busy" => arrow' = "right" /\ ~ Pressed("cancel")

(* An answer is one to the question on the screen, and the user's own.     *)
AnswersAreMeant == [][AnswersWhatIsShown /\ MeansYes]_screensVars

(* The scrollbar's handle, in 1/(lines - showlines) of a pixel: its height *)
(* (j) and its place in the track (i - y) of 400 pixels.                   *)
Handle == 4 * ((ShowLines * 100) \div lines)
Place == line * (400 - Handle)

(* There is no going past the last line; the handle stays in its track, is *)
(* visible, and reaches the end of the track with the last line.           *)
TextInView ==
    screen = "text" =>
        /\ line + ShowLines <= lines
        /\ Handle > 0 /\ Place <= (400 - Handle) * (lines - ShowLines)
        /\ lines > ShowLines =>
             (Place = (400 - Handle) * (lines - ShowLines) <=> line + ShowLines = lines)

=============================================================================
