----------------------------- MODULE MenuProofs -----------------------------
(***************************************************************************)
(* What holds of every list, of any length and with any entries blocked,   *)
(* and of the screens a list opens, for texts of any length and any        *)
(* combinations of buttons.                                                *)
(***************************************************************************)
EXTENDS Menu, Screens, TLAPS

(* The size of a list and of its window.                                   *)
LEMMA Sizes ==
    ASSUME TypeOK
    PROVE  /\ menu.options \in Nat /\ menu.options >= 1
           /\ Last \in Nat /\ Last = menu.options - 1
           /\ Shown \in Nat /\ Shown >= 1 /\ Shown <= menu.options
           /\ Shown = 1 => menu.options = 1
BY MenusAssumption DEF TypeOK, Last, Shown

(* The variables keep their types: the cursor never leaves the array and   *)
(* its terminator, and the window never starts below the first entry.      *)
THEOREM TypeCorrect == Spec => []TypeOK
<1>1. Init => TypeOK
  BY MenusAssumption DEF Init, TypeOK, Phases, Last
<1>2. TypeOK /\ [Next]_vars => TypeOK'
  <2> SUFFICES ASSUME TypeOK, [Next]_vars PROVE TypeOK'
    OBVIOUS
  <2>s. /\ menu.options \in Nat /\ menu.options >= 1
        /\ Last \in Nat /\ Last = menu.options - 1
        /\ Shown \in Nat /\ Shown >= 1 /\ Shown <= menu.options
    BY Sizes
  <2> USE <2>s
  <2>1. CASE Open
    BY <2>1 DEF Open, TypeOK, Phases, Last
  <2>2. CASE FirstActive
    BY <2>2 DEF FirstActive, Skip, TypeOK, Phases, Last
  <2>3. CASE NextActive
    BY <2>3 DEF NextActive, Skip, TypeOK, Phases, Last
  <2>4. CASE AdjustTop
    BY <2>4 DEF AdjustTop, TypeOK, Phases, Last
  <2>5. CASE ReadKeys
    BY <2>5 DEF ReadKeys, TypeOK, Phases, Keys, Last
  <2>6. CASE Up
    BY <2>6 DEF Up, TypeOK, Phases, EntryAbove, TopAbove, Last
  <2>7. CASE UpLoop
    BY <2>7 DEF UpLoop, TypeOK, Phases, EntryAbove, TopAbove, ScrollUp, Last
  <2>8. CASE Down
    BY <2>8 DEF Down, TypeOK, Phases, EntryBelow, TopBelow, ScrollDown, Last
  <2>9. CASE DownLoop
    BY <2>9 DEF DownLoop, TypeOK, Phases, EntryBelow, TopBelow, ScrollDown, Last
  <2>10. CASE Act
    <3>1. blocked' \subseteq 0..Last
      <4>1. CASE selection \in menu.closes
        <5>1. menu.closes \subseteq 0..Last
          BY MenusAssumption DEF TypeOK, Last
        <5> QED BY <2>10, <4>1, <5>1 DEF Act, TypeOK
      <4>2. CASE selection \notin menu.closes
        BY <2>10, <4>2 DEF Act, TypeOK
      <4> QED BY <4>1, <4>2
    <3> QED BY <2>10, <3>1 DEF Act, TypeOK, Phases, Last
  <2>11. CASE UNCHANGED vars
    BY <2>11 DEF vars, TypeOK, Last
  <2> QED BY <2>1, <2>2, <2>3, <2>4, <2>5, <2>6, <2>7, <2>8, <2>9, <2>10, <2>11 DEF Next
<1> QED BY <1>1, <1>2, PTL DEF Spec

-----------------------------------------------------------------------------
(* The window.                                                             *)

WindowInv == WindowInList /\ (phase = "downloop" => selection <= Last)

(* The drawing loop of a list of any length stays inside its array, also   *)
(* when every entry is blocked.                                            *)
THEOREM WindowCorrect == Spec => [](WindowInv /\ WindowInList)
<1>1. Init => WindowInv
  <2> SUFFICES ASSUME Init PROVE WindowInv
    OBVIOUS
  <2>1. menu.options \in Nat \ {0} /\ ShowOptions \in Nat
    BY MenusAssumption DEF Init
  <2> QED BY <2>1 DEF Init, WindowInv, WindowInList, Shown
<1>2. TypeOK /\ WindowInv /\ [Next]_vars => WindowInv'
  <2> SUFFICES ASSUME TypeOK, WindowInv, [Next]_vars PROVE WindowInv'
    OBVIOUS
  <2>s. /\ menu.options \in Nat /\ menu.options >= 1
        /\ Last \in Nat /\ Last = menu.options - 1
        /\ Shown \in Nat /\ Shown >= 1 /\ Shown <= menu.options
        /\ Shown = 1 => menu.options = 1
    BY Sizes
  <2>t. toption \in Nat /\ selection \in 0..menu.options
    BY DEF TypeOK
  <2>u. menu' = menu => Shown' = Shown /\ Last' = Last
    BY DEF Shown, Last
  <2> USE <2>s, <2>t, <2>u DEF WindowInv, WindowInList
  <2>1. CASE Open
    BY <2>1 DEF Open
  <2>2. CASE FirstActive
    BY <2>2 DEF FirstActive, Skip
  <2>3. CASE NextActive
    BY <2>3 DEF NextActive, Skip
  <2>4. CASE AdjustTop
    BY <2>4 DEF AdjustTop
  <2>5. CASE ReadKeys
    BY <2>5 DEF ReadKeys
  <2>6. CASE Up
    BY <2>6 DEF Up, TopAbove
  <2>7. CASE UpLoop
    BY <2>7 DEF UpLoop, TopAbove, ScrollUp
  <2>8. CASE Down
    BY <2>8 DEF Down, EntryBelow, TopBelow, ScrollDown
  <2>9. CASE DownLoop
    BY <2>9 DEF DownLoop, EntryBelow, TopBelow, ScrollDown
  <2>10. CASE Act
    BY <2>10 DEF Act
  <2>11. CASE UNCHANGED vars
    BY <2>11 DEF vars
  <2> QED BY <2>1, <2>2, <2>3, <2>4, <2>5, <2>6, <2>7, <2>8, <2>9, <2>10, <2>11 DEF Next
<1>3. WindowInv => WindowInList
  BY DEF WindowInv
<1> QED BY <1>1, <1>2, <1>3, TypeCorrect, PTL DEF Spec

-----------------------------------------------------------------------------
(* The cursor.  The loops that look for an entry that is not blocked end   *)
(* because one is ahead of the cursor, wherever there is one: back.        *)

Settled == {"top", "input", "up", "down", "act"}
CursorInv ==
    /\ phase \in {"uploop", "downloop"} => selection <= Last
    /\ Back # {} =>
          /\ phase \in {"first", "jump"} =>
                \/ selection \in (0..Last) \ blocked
                \/ \E s \in Back : selection <= s
          /\ phase \in Settled => selection \in (0..Last) \ blocked

(* As long as an open entry lies below those that block themselves, the    *)
(* list draws its cursor on, and Enter starts, only an entry that is not   *)
(* blocked.                                                                *)
THEOREM CursorCorrect == Spec => [](CursorInv /\ CursorOnOpenEntry)
<1>1. Init => CursorInv
  BY DEF Init, CursorInv, Settled
<1>2. TypeOK /\ CursorInv /\ [Next]_vars => CursorInv'
  <2> SUFFICES ASSUME TypeOK, CursorInv, [Next]_vars PROVE CursorInv'
    OBVIOUS
  <2>s. Last \in Nat /\ Last = menu.options - 1
    BY Sizes
  <2>t. selection \in 0..menu.options /\ blocked \subseteq 0..Last
    BY DEF TypeOK
  <2>u. menu' = menu => Last' = Last
    BY DEF Last
  <2>b. menu' = menu /\ blocked' = blocked => Back' = Back
    BY <2>u DEF Back
  <2>c. \A s \in Back : s \in 0..Last /\ s \notin blocked
    BY DEF Back
  <2>1. CASE Open
    <3>1. Back' # {} => \E s \in Back' : 0 <= s
      BY <2>1, <2>b, <2>c, <2>s DEF Open
    <3> QED BY <2>1, <2>b, <3>1 DEF Open, CursorInv, Settled
  <2>2. CASE FirstActive
    BY <2>2, <2>b, <2>c, <2>s, <2>t, <2>u DEF FirstActive, Skip, CursorInv, Settled
  <2>3. CASE NextActive
    BY <2>3, <2>b, <2>c, <2>s, <2>t, <2>u DEF NextActive, Skip, CursorInv, Settled
  <2>4. CASE AdjustTop
    BY <2>4, <2>b, <2>u DEF AdjustTop, CursorInv, Settled
  <2>5. CASE ReadKeys
    BY <2>5, <2>b, <2>u DEF ReadKeys, CursorInv, Settled
  <2>6. CASE Up
    <3>1. phase = "up" /\ menu' = menu /\ blocked' = blocked
      BY <2>6 DEF Up
    <3>2. CASE selection' = EntryAbove(selection) /\ phase' = "uploop"
      <4>1. selection' <= Last
        <5>1. menu.options \in Nat /\ Last = menu.options - 1 /\ Last \in Nat
          BY Sizes
        <5>2. selection \in 0..menu.options /\ selection' = IF selection <= 0 THEN Last ELSE selection - 1
          BY <2>t, <3>2 DEF EntryAbove
        <5> QED BY <5>1, <5>2
      <4> QED BY <2>u, <3>1, <3>2, <4>1 DEF CursorInv, Settled
    <3>3. CASE selection' = selection /\ phase' = "down"
      BY <2>b, <2>u, <3>1, <3>3 DEF CursorInv, Settled
    <3> QED BY <2>6, <3>2, <3>3 DEF Up
  <2>7. CASE UpLoop
    BY <2>7, <2>b, <2>s, <2>t, <2>u DEF UpLoop, EntryAbove, CursorInv, Settled
  <2>8. CASE Down
    BY <2>8, <2>b, <2>s, <2>t, <2>u DEF Down, EntryBelow, CursorInv, Settled
  <2>9. CASE DownLoop
    BY <2>9, <2>b, <2>s, <2>t, <2>u DEF DownLoop, EntryBelow, CursorInv, Settled
  <2>10. CASE Act
    <3>1. phase = "act" /\ phase' \in {"closed", "jump"} /\ menu' = menu /\ selection' = selection
      BY <2>10 DEF Act
    <3>2. CASE UNCHANGED blocked
      BY <3>1, <3>2, <2>b, <2>u DEF CursorInv, Settled
    <3>3. CASE selection \in menu.closes
      <4>1. \A s \in Back' : selection' <= s
        BY <2>s, <2>t, <2>u, <3>1, <3>3 DEF Back
      <4> QED BY <3>1, <4>1 DEF CursorInv, Settled
    <3> QED BY <2>10, <3>2, <3>3 DEF Act
  <2>11. CASE UNCHANGED vars
    BY <2>11, <2>b, <2>u DEF vars, CursorInv, Settled
  <2> QED BY <2>1, <2>2, <2>3, <2>4, <2>5, <2>6, <2>7, <2>8, <2>9, <2>10, <2>11 DEF Next
<1>3. CursorInv => CursorOnOpenEntry
  BY DEF CursorInv, CursorOnOpenEntry, Settled
<1> QED BY <1>1, <1>2, <1>3, TypeCorrect, PTL DEF Spec

-----------------------------------------------------------------------------
(* The cursor in the window.  Scrolled: the cursor has an entry below it   *)
(* in the window, unless the window is at the end of the list.  Leading:   *)
(* before the first frame, and until the window has caught up, everything  *)
(* in front of the cursor is blocked.                                      *)

Scrolled == toption + Shown = menu.options \/ selection <= toption + Shown - 2
Leading == \A s \in toption..(selection - 1) : s \in blocked

(* A step of the cursor downwards keeps it so.                             *)
LEMMA BelowScrolled ==
    ASSUME TypeOK, WindowInList, Scrolled
    PROVE  \/ TopBelow(selection, toption) + Shown = menu.options
           \/ EntryBelow(selection) <= TopBelow(selection, toption) + Shown - 2
<1>1. /\ menu.options \in Int /\ Shown \in Int /\ Shown >= 1
      /\ Last = menu.options - 1
  BY Sizes
<1>2. toption \in Int /\ selection \in Int /\ toption >= 0
  BY DEF TypeOK
<1>3. toption + Shown <= menu.options
  BY DEF WindowInList
<1>4. CASE selection >= Last
  <2>1. EntryBelow(selection) = 0 /\ TopBelow(selection, toption) = toption
    BY <1>4 DEF EntryBelow, TopBelow
  <2>2. CASE Shown = 1
    <3>1. menu.options = 1
      BY <2>2, Sizes
    <3>2. toption + Shown = menu.options
      BY <1>1, <1>2, <1>3, <2>2, <3>1
    <3> QED BY <2>1, <3>2
  <2>3. CASE Shown # 1
    <3>1. 0 <= toption + Shown - 2
      BY <1>1, <1>2, <2>3
    <3> QED BY <2>1, <3>1
  <2> QED BY <2>2, <2>3
<1>5. CASE selection < Last
  <2>1. EntryBelow(selection) = selection + 1
        /\ TopBelow(selection, toption) = ScrollDown(selection + 1, toption)
    BY <1>1, <1>2, <1>5 DEF EntryBelow, TopBelow
  <2>2. CASE toption + Shown = menu.options
    <3>1. ScrollDown(selection + 1, toption) = toption
      BY <1>1, <1>2, <2>2 DEF ScrollDown
    <3> QED BY <2>1, <2>2, <3>1
  <2>3. CASE toption + Shown < menu.options
    <3>1. selection <= toption + Shown - 2
      BY <1>1, <1>2, <2>3 DEF Scrolled
    <3>2. Shown # 1
      BY <1>1, <1>2, <2>3, Sizes
    <3>3. CASE selection + 1 = toption + Shown - 1
      <4>1. ScrollDown(selection + 1, toption) = toption + 1
        BY <2>3, <3>2, <3>3 DEF ScrollDown
      <4>2. selection + 1 <= toption + 1 + Shown - 2
        BY <1>1, <1>2, <3>3
      <4> QED BY <2>1, <4>1, <4>2
    <3>4. CASE selection + 1 # toption + Shown - 1
      <4>1. ScrollDown(selection + 1, toption) = toption
        BY <3>4 DEF ScrollDown
      <4>2. selection + 1 <= toption + Shown - 2
        BY <1>1, <1>2, <3>1, <3>4
      <4> QED BY <2>1, <4>1, <4>2
    <3> QED BY <3>3, <3>4
  <2> QED BY <1>1, <1>2, <1>3, <2>2, <2>3
<1> QED BY <1>1, <1>2, <1>4, <1>5

ScreenInv ==
    menu.closes = {} /\ Back # {} =>
        /\ phase = "first" => Leading
        /\ phase = "jump" => Leading \/ (Scrolled /\ selection \notin blocked)
        /\ phase = "top" => Leading \/ Scrolled
        /\ phase = "input" => toption <= selection
        /\ phase \in {"input", "up", "uploop", "down", "downloop", "act"} => Scrolled

(* In a list of any length whose entries do not block themselves, and are  *)
(* not all blocked, the cursor is always among the entries drawn.          *)
THEOREM CursorStaysVisible == Spec => []CursorVisible
<1> DEFINE Known == TypeOK /\ WindowInv /\ CursorInv
<1>1. Init => ScreenInv
  BY DEF Init, ScreenInv
<1>2. Known /\ Known' /\ ScreenInv /\ [Next]_vars => ScreenInv'
  <2>a. SUFFICES ASSUME Known, Known', ScreenInv, [Next]_vars,
                        menu.closes = {}, menu' = menu, Back # {}
                 PROVE  ScreenInv'
    <3>1. [Next]_vars => menu' = menu
      BY DEF Next, Open, FirstActive, NextActive, Skip, AdjustTop, ReadKeys, Up, UpLoop, Down,
             DownLoop, Act, vars
    <3>2. [Next]_vars /\ menu.closes = {} => blocked' = blocked
      BY DEF Next, Open, FirstActive, NextActive, Skip, AdjustTop, ReadKeys, Up, UpLoop, Down,
             DownLoop, Act, vars
    <3>3. menu' = menu /\ blocked' = blocked => Back' = Back
      BY DEF Back, Last
    <3> QED BY <3>1, <3>2, <3>3 DEF ScreenInv
  <2>s. /\ menu.options \in Nat /\ menu.options >= 1
        /\ Last \in Nat /\ Last = menu.options - 1
        /\ Shown \in Nat /\ Shown >= 1 /\ Shown <= menu.options
        /\ Shown = 1 => menu.options = 1
    BY <2>a, Sizes
  <2>t. toption \in Nat /\ selection \in 0..menu.options
    BY <2>a DEF TypeOK
  <2>t1. toption' \in Nat /\ selection' \in 0..menu.options
    BY <2>a DEF TypeOK
  <2>u. Shown' = Shown /\ Last' = Last /\ menu'.options = menu.options
    BY <2>a DEF Shown, Last
  <2>w. toption + Shown <= menu.options /\ toption' + Shown <= menu.options
    BY <2>a, <2>u DEF WindowInv, WindowInList
  <2>p. /\ phase = "first" => Leading
        /\ phase = "jump" => Leading \/ (Scrolled /\ selection \notin blocked)
        /\ phase = "top" => Leading \/ Scrolled
        /\ phase \in {"input", "up", "uploop", "down", "downloop", "act"} => Scrolled
    BY <2>a DEF ScreenInv
  <2>c1. phase = "downloop" => selection <= Last
    BY <2>a DEF CursorInv
  <2>i. /\ selection \in Int /\ selection' \in Int /\ toption \in Int /\ toption' \in Int
        /\ Shown \in Int /\ menu.options \in Int
    BY <2>s, <2>t, <2>t1
  <2>1. CASE Open
    <3>1. phase' = "first" /\ selection' = 0 /\ toption' = 0
      BY <2>1 DEF Open
    <3>2. Leading'
      BY <3>1 DEF Leading
    <3> QED BY <3>1, <3>2 DEF ScreenInv
  <2>2. CASE FirstActive
    <3>1. /\ phase = "first" /\ phase' \in {"first", "jump"}
          /\ \/ selection \in blocked /\ selection' = selection + 1
             \/ selection' = selection
          /\ toption' = toption /\ blocked' = blocked
      BY <2>2 DEF FirstActive, Skip
    <3>2. Leading
      BY <2>p, <3>1
    <3>3. ASSUME NEW s \in toption'..(selection' - 1) PROVE s \in blocked'
      <4>1. CASE selection \in blocked /\ selection' = selection + 1
        <5>1. s \in Int /\ toption <= s /\ s <= selection
          BY <2>i, <3>1, <4>1
        <5>2. s = selection \/ s \in toption..(selection - 1)
          BY <2>i, <5>1
        <5> QED BY <3>1, <3>2, <4>1, <5>2 DEF Leading
      <4>2. CASE selection' = selection
        BY <3>1, <3>2, <4>2 DEF Leading
      <4> QED BY <3>1, <4>1, <4>2
    <3>4. Leading'
      BY <3>3 DEF Leading
    <3> QED BY <3>1, <3>4 DEF ScreenInv
  <2>3. CASE NextActive
    <3>1. /\ phase = "jump"
          /\ \/ selection \in blocked /\ selection' = selection + 1 /\ phase' = "jump"
             \/ selection \notin blocked /\ selection' = selection /\ phase' = "top"
          /\ toption' = toption /\ blocked' = blocked
      BY <2>3 DEF NextActive, Skip
    <3>2. CASE Leading
      <4>1. ASSUME NEW s \in toption'..(selection' - 1) PROVE s \in blocked'
        <5>1. CASE selection \in blocked /\ selection' = selection + 1
          <6>1. s \in Int /\ toption <= s /\ s <= selection
            BY <2>i, <3>1, <5>1
          <6>2. s = selection \/ s \in toption..(selection - 1)
            BY <2>i, <6>1
          <6> QED BY <3>1, <3>2, <5>1, <6>2 DEF Leading
        <5>2. CASE selection' = selection
          BY <3>1, <3>2, <5>2 DEF Leading
        <5> QED BY <3>1, <5>1, <5>2
      <4>2. Leading'
        BY <4>1 DEF Leading
      <4> QED BY <3>1, <4>2 DEF ScreenInv
    <3>3. CASE Scrolled /\ selection \notin blocked
      <4>1. phase' = "top" /\ Scrolled'
        BY <3>1, <3>3, <2>u DEF Scrolled
      <4> QED BY <4>1 DEF ScreenInv
    <3> QED BY <3>1, <3>2, <3>3, <2>p
  <2>4. CASE AdjustTop
    <3>1. phase = "top" /\ selection' = selection /\ blocked' = blocked
      BY <2>4 DEF AdjustTop
    <3>2. CASE selection < toption /\ toption' = selection /\ phase' = "top"
      <4>1. Leading'
        BY <2>i, <3>1, <3>2 DEF Leading
      <4> QED BY <3>2, <4>1 DEF ScreenInv
    <3>3. CASE /\ selection >= toption /\ menu.options - toption > Shown
               /\ toption' = toption + 1 /\ phase' = "top"
      <4>1. CASE Leading
        <5>1. Leading'
          BY <2>i, <3>1, <3>3, <4>1 DEF Leading
        <5> QED BY <3>3, <5>1 DEF ScreenInv
      <4>2. CASE Scrolled
        <5>1. Scrolled'
          BY <2>i, <2>u, <3>1, <3>3, <4>2 DEF Scrolled
        <5> QED BY <3>3, <5>1 DEF ScreenInv
      <4> QED BY <3>1, <4>1, <4>2, <2>p
    <3>4. CASE /\ selection >= toption /\ ~ (toption \in blocked /\ menu.options - toption > Shown)
               /\ toption' = toption /\ phase' = "input"
      <4>1. CASE Scrolled
        <5>1. Scrolled' /\ toption' <= selection'
          BY <2>i, <2>u, <3>1, <3>4, <4>1 DEF Scrolled
        <5> QED BY <3>4, <5>1 DEF ScreenInv
      <4>2. CASE Leading /\ toption \notin blocked
        <5>1. toption = selection
          BY <2>i, <3>4, <4>2 DEF Leading
        <5>2. CASE Shown = 1
          <6>1. menu.options = 1 /\ toption = 0
            BY <2>s, <2>t, <2>w, <5>2
          <6>2. Scrolled' /\ toption' <= selection'
            BY <2>i, <2>u, <3>1, <3>4, <5>1, <5>2, <6>1 DEF Scrolled
          <6> QED BY <3>4, <6>2 DEF ScreenInv
        <5>3. CASE Shown # 1
          <6>1. selection <= toption + Shown - 2
            BY <2>i, <2>s, <5>1, <5>3
          <6>2. Scrolled' /\ toption' <= selection'
            BY <2>i, <2>u, <3>1, <3>4, <5>1, <6>1 DEF Scrolled
          <6> QED BY <3>4, <6>2 DEF ScreenInv
        <5> QED BY <5>2, <5>3
      <4>3. CASE menu.options - toption <= Shown
        <5>1. Scrolled' /\ toption' <= selection'
          BY <2>i, <2>u, <2>w, <3>1, <3>4, <4>3 DEF Scrolled
        <5> QED BY <3>4, <5>1 DEF ScreenInv
      <4>4. toption \notin blocked \/ menu.options - toption <= Shown
        BY <2>i, <3>4
      <4> QED BY <3>1, <4>1, <4>2, <4>3, <4>4, <2>p
    <3>5. \/ selection < toption /\ toption' = selection /\ phase' = "top"
          \/ /\ selection >= toption /\ menu.options - toption > Shown
             /\ toption' = toption + 1 /\ phase' = "top"
          \/ /\ selection >= toption /\ ~ (toption \in blocked /\ menu.options - toption > Shown)
             /\ toption' = toption /\ phase' = "input"
      BY <2>4, <3>1 DEF AdjustTop
    <3> QED BY <3>2, <3>3, <3>4, <3>5
  <2>5. CASE ReadKeys
    <3>1. phase = "input" /\ phase' = "up" /\ toption' = toption /\ selection' = selection
      BY <2>5 DEF ReadKeys
    <3>2. Scrolled'
      BY <2>p, <2>u, <3>1 DEF Scrolled
    <3> QED BY <3>1, <3>2 DEF ScreenInv
  <2>6. CASE Up
    <3>1. /\ phase = "up" /\ phase' \in {"uploop", "down"}
          /\ \/ selection' = EntryAbove(selection) /\ toption' = TopAbove(selection, toption)
             \/ selection' = selection /\ toption' = toption
      BY <2>6 DEF Up
    <3>2. Scrolled
      BY <2>p, <3>1
    <3>3. CASE selection' = EntryAbove(selection) /\ toption' = TopAbove(selection, toption)
      <4>1. Scrolled'
        BY <2>i, <2>s, <2>u, <2>w, <3>2, <3>3 DEF EntryAbove, TopAbove, Scrolled
      <4> QED BY <3>1, <4>1 DEF ScreenInv
    <3>4. CASE selection' = selection /\ toption' = toption
      <4>1. Scrolled'
        BY <2>i, <2>s, <2>u, <2>w, <3>2, <3>4 DEF EntryAbove, TopAbove, Scrolled
      <4> QED BY <3>1, <4>1 DEF ScreenInv
    <3> QED BY <3>1, <3>3, <3>4
  <2>7. CASE UpLoop
    <3>1. /\ phase = "uploop" /\ phase' \in {"uploop", "down"}
          /\ \/ /\ selection' = EntryAbove(selection)
                /\ toption' = ScrollUp(EntryAbove(selection), TopAbove(selection, toption))
             \/ selection' = selection /\ toption' = ScrollUp(selection, toption)
      BY <2>7 DEF UpLoop
    <3>2. Scrolled
      BY <2>p, <3>1
    <3>3. CASE /\ selection' = EntryAbove(selection)
               /\ toption' = ScrollUp(EntryAbove(selection), TopAbove(selection, toption))
      <4>1. Scrolled'
        BY <2>i, <2>s, <2>u, <2>w, <3>2, <3>3 DEF EntryAbove, TopAbove, ScrollUp, Scrolled
      <4> QED BY <3>1, <4>1 DEF ScreenInv
    <3>4. CASE selection' = selection /\ toption' = ScrollUp(selection, toption)
      <4>1. Scrolled'
        BY <2>i, <2>s, <2>u, <2>w, <3>2, <3>4 DEF EntryAbove, TopAbove, ScrollUp, Scrolled
      <4> QED BY <3>1, <4>1 DEF ScreenInv
    <3> QED BY <3>1, <3>3, <3>4
  <2>8. CASE Down
    <3>1. /\ phase = "down" /\ phase' \in {"downloop", "act"}
          /\ \/ selection' = EntryBelow(selection) /\ toption' = TopBelow(selection, toption)
             \/ selection' = selection /\ toption' = toption
      BY <2>8 DEF Down
    <3>2. Scrolled
      BY <2>p, <3>1
    <3>3. CASE selection' = EntryBelow(selection) /\ toption' = TopBelow(selection, toption)
      <4>1. Scrolled'
        BY <2>a, <2>u, <3>2, <3>3, BelowScrolled DEF Scrolled, WindowInv
      <4> QED BY <3>1, <4>1 DEF ScreenInv
    <3>4. CASE selection' = selection /\ toption' = toption
      <4>1. Scrolled'
        BY <2>i, <2>s, <2>u, <2>w, <3>2, <3>4 DEF EntryBelow, TopBelow, ScrollDown, Scrolled
      <4> QED BY <3>1, <4>1 DEF ScreenInv
    <3> QED BY <3>1, <3>3, <3>4
  <2>9. CASE DownLoop
    <3>1. /\ phase = "downloop" /\ phase' \in {"downloop", "act"}
          /\ \/ selection' = EntryBelow(selection) /\ toption' = TopBelow(selection, toption)
             \/ /\ selection' = selection
                /\ toption' = IF Shown = 1 THEN selection ELSE ScrollDown(selection, toption)
      BY <2>9 DEF DownLoop
    <3>2. Scrolled
      BY <2>p, <3>1
    <3>3. CASE selection' = EntryBelow(selection) /\ toption' = TopBelow(selection, toption)
      <4>1. Scrolled'
        BY <2>a, <2>u, <3>2, <3>3, BelowScrolled DEF Scrolled, WindowInv
      <4> QED BY <3>1, <4>1 DEF ScreenInv
    <3>4. CASE /\ selection' = selection
               /\ toption' = IF Shown = 1 THEN selection ELSE ScrollDown(selection, toption)
      <4>1. CASE Shown = 1
        <5>1. selection = 0 /\ toption' = selection
          BY <2>c1, <2>i, <2>s, <2>t, <3>1, <3>4, <4>1
        <5>2. Scrolled'
          BY <2>s, <2>u, <4>1, <5>1 DEF Scrolled
        <5> QED BY <3>1, <5>2 DEF ScreenInv
      <4>2. CASE Shown # 1 /\ toption' = toption + 1 /\ selection = toption + Shown - 1
        <5>1. Scrolled'
          BY <2>i, <2>u, <3>4, <4>2 DEF Scrolled
        <5> QED BY <3>1, <5>1 DEF ScreenInv
      <4>3. CASE Shown # 1 /\ toption' = toption
        <5>1. Scrolled'
          BY <2>u, <3>2, <3>4, <4>3 DEF Scrolled
        <5> QED BY <3>1, <5>1 DEF ScreenInv
      <4> QED BY <3>4, <4>1, <4>2, <4>3 DEF ScrollDown
    <3> QED BY <3>1, <3>3, <3>4
  <2>10. CASE Act
    <3>1. /\ phase = "act" /\ phase' \in {"closed", "jump"}
          /\ toption' = toption /\ selection' = selection
      BY <2>10 DEF Act
    <3>2. blocked' = blocked
      BY <2>a, <2>10 DEF Act
    <3>3. selection \notin blocked
      BY <2>a, <3>1 DEF CursorInv, Settled
    <3>4. Scrolled' /\ selection' \notin blocked'
      BY <2>p, <2>u, <3>1, <3>2, <3>3 DEF Scrolled
    <3> QED BY <3>1, <3>4 DEF ScreenInv
  <2>11. CASE UNCHANGED vars
    <3>1. /\ phase' = phase /\ toption' = toption /\ selection' = selection /\ blocked' = blocked
      BY <2>11 DEF vars
    <3> QED BY <2>a, <2>u, <3>1 DEF ScreenInv, Leading, Scrolled
  <2> QED BY <2>a, <2>1, <2>2, <2>3, <2>4, <2>5, <2>6, <2>7, <2>8, <2>9, <2>10, <2>11 DEF Next
<1>3. Known /\ ScreenInv => CursorVisible
  <2> SUFFICES ASSUME Known, ScreenInv, phase = "input", menu.closes = {}, Back # {}
               PROVE  OnScreen
    BY DEF CursorVisible
  <2>1. /\ menu.options \in Nat /\ Last = menu.options - 1 /\ Shown \in Nat
        /\ toption \in Nat /\ selection \in 0..menu.options
    BY Sizes DEF TypeOK
  <2>2. selection \in 0..Last /\ toption <= selection /\ Scrolled
    BY DEF CursorInv, Settled, ScreenInv
  <2> QED BY <2>1, <2>2 DEF OnScreen, Scrolled
<1> QED BY <1>1, <1>2, <1>3, TypeCorrect, WindowCorrect, CursorCorrect, PTL DEF Spec, Known

-----------------------------------------------------------------------------
(* The pad and the screens of module Screens: the invariants.              *)

(* The counter runs behind the age: it starts from 4 after each repeat.    *)
CounterFits ==
    /\ age \in 0..21
    /\ hold_n = IF age < FirstRepeat THEN age ELSE IF age < 16 THEN age - 6 ELSE age - 12

(* What acts, at an age.                                                   *)
ActsFits == hold = IF age \in {10, 16} THEN old ELSE pressed

PadInv == CounterFits /\ ActsFits

(* A question or a message that is not drawn yet was opened by an Enter    *)
(* that is still down for the pad, and so was the work between the two.    *)
EnterIsDown ==
    screen = "busy" \/ (screen \in {"dialog", "message"} /\ ~ shown) => "enter" \in old

(* Yes only after an arrow to the right.                                   *)
YesByArrow == screen = "dialog" /\ choice # 0 => arrow = "right"

AnswerInv == EnterIsDown /\ YesByArrow

(* The text does not move past its ends.                                   *)
TextInv ==
    screen = "text" => lines \in Lines /\ line \in Nat /\ line + ShowLines <= lines

-----------------------------------------------------------------------------
(* A reading of the pad keeps the count.                                   *)
LEMMA ReadingKeeps == ASSUME PadInv, NEW down \in Chords, ReadPad(down) PROVE PadInv'
<1>1. CASE down # old
    BY <1>1 DEF PadInv, CounterFits, ActsFits, ReadPad, Count, FirstRepeat, NextRepeat
<1>2. CASE down = old
    <2>1. CounterFits'
        BY <1>2 DEF PadInv, CounterFits, ReadPad, Count, FirstRepeat, NextRepeat
    <2>2. age' \in {10, 16} <=> hold_n + 1 >= FirstRepeat
        BY <1>2 DEF PadInv, CounterFits, ReadPad, FirstRepeat
    <2> QED  BY <1>2, <2>1, <2>2 DEF PadInv, ActsFits, ReadPad
<1> QED  BY <1>1, <1>2

(* Every step reads the pad once or leaves it alone.                       *)
LEMMA PadInductive == PadInv /\ [ScreensNext]_screensVars => PadInv'
<1> SUFFICES ASSUME PadInv, [ScreensNext]_screensVars PROVE PadInv'
    OBVIOUS
<1>1. CASE UNCHANGED pad
    BY <1>1 DEF pad, PadInv, CounterFits, ActsFits
<1>2. ASSUME NEW down \in Chords, ReadPad(down) PROVE PadInv'
    BY <1>2, ReadingKeeps
<1> QED  BY <1>1, <1>2
    DEF ScreensNext, screensVars, Work, MenuFrame, DialogFrame, MessageFrame, TextFrame, ErrorFrame

(* Each screen opens with what AnswerInv asks of it.                       *)
LEMMA AnswerInductive == AnswerInv /\ [ScreensNext]_screensVars => AnswerInv'
<1> SUFFICES ASSUME AnswerInv, [ScreensNext]_screensVars PROVE AnswerInv'
    OBVIOUS
<1> USE DEF AnswerInv, EnterIsDown, YesByArrow
<1>1. CASE UNCHANGED screensVars
    BY <1>1 DEF screensVars, pad
<1>2. CASE Work
    BY <1>2 DEF Work, OpenScreen, pad
<1>3. ASSUME NEW down \in Chords, MenuFrame(down) PROVE AnswerInv'
    BY <1>3 DEF MenuFrame, ReadPad, OpenScreen, Draw, Pressed
<1>4. ASSUME NEW down \in Chords, DialogFrame(down) PROVE AnswerInv'
    <2>1. YesByArrow'
        BY <1>4 DEF DialogFrame, Chosen, OpenScreen, Draw
    <2>2. choice' # 0 => ~ Pressed("cancel")
        BY <1>4 DEF DialogFrame
    <2>3. EnterIsDown'
        BY <1>4, <2>2 DEF DialogFrame, ReadPad, OpenScreen, Draw, Pressed
    <2> QED  BY <2>1, <2>3
<1>5. ASSUME NEW down \in Chords, MessageFrame(down) \/ TextFrame(down) \/ ErrorFrame(down)
      PROVE  AnswerInv'
    BY <1>5 DEF MessageFrame, TextFrame, ErrorFrame, OpenScreen, Draw
<1> QED  BY <1>1, <1>2, <1>3, <1>4, <1>5 DEF ScreensNext

(* A line at a time, and only as long as there are lines below.            *)
LEMMA TextInductive == TextInv /\ [ScreensNext]_screensVars => TextInv'
<1> SUFFICES ASSUME TextInv, [ScreensNext]_screensVars PROVE TextInv'
    OBVIOUS
<1>1. CASE UNCHANGED screensVars
    BY <1>1 DEF screensVars, pad, TextInv, ShowLines
<1>2. CASE Work
    BY <1>2 DEF Work, OpenScreen, TextInv
<1>3. ASSUME NEW down \in Chords, MenuFrame(down) PROVE TextInv'
    <2>1. screen' = "text" => lines' \in Lines /\ line' = 0
        BY <1>3 DEF MenuFrame, OpenScreen, Draw
    <2>2. ASSUME screen' = "text" PROVE lines' \in Nat /\ line' = 0
        BY <2>1, <2>2, ScreensAssumption
    <2> QED  BY <2>1, <2>2 DEF TextInv, ShowLines
<1>4. ASSUME NEW down \in Chords, TextFrame(down) PROVE TextInv'
    <2>1. line' = LineAfter(hold') /\ lines' = lines /\ screen = "text"
        BY <1>4 DEF TextFrame
    <2>2. lines \in Nat \ {0}
        BY <2>1, ScreensAssumption DEF TextInv
    <2> QED  BY <2>1, <2>2 DEF TextInv, LineAfter, ShowLines
<1>5. ASSUME NEW down \in Chords, DialogFrame(down) \/ MessageFrame(down) \/ ErrorFrame(down)
      PROVE  TextInv'
    BY <1>5 DEF DialogFrame, MessageFrame, ErrorFrame, OpenScreen, Draw, TextInv
<1> QED  BY <1>1, <1>2, <1>3, <1>4, <1>5 DEF ScreensNext

-----------------------------------------------------------------------------
(* The theorems about them.                                                *)

(* A held button acts again after ten readings and then every six, and at  *)
(* no other time, whatever combinations are held in whatever screens.      *)
THEOREM HeldButtonsRepeat == ScreensSpec => []RepeatsInTime
<1>1. ScreensInit => PadInv
    BY DEF ScreensInit, PadInv, CounterFits, ActsFits, FirstRepeat
<1>2. PadInv => RepeatsInTime
    BY DEF PadInv, ActsFits, RepeatsInTime, RepeatRate, RepeatsCome
<1> QED  BY <1>1, <1>2, PadInductive, PTL DEF ScreensSpec

(* No press made before a question or a message could be read answers it,  *)
(* and Yes is what the arrows last chose.                                  *)
THEOREM AnswersMeant == ScreensSpec => AnswersAreMeant
<1>1. ScreensInit => AnswerInv
    BY DEF ScreensInit, AnswerInv, EnterIsDown, YesByArrow
<1>2. AnswerInv /\ [ScreensNext]_screensVars => [AnswersWhatIsShown /\ MeansYes]_screensVars
    <2> SUFFICES ASSUME AnswerInv, ScreensNext PROVE AnswersWhatIsShown /\ MeansYes
        BY DEF screensVars
    <2>1. CASE Work
        BY <2>1 DEF Work, AnswersWhatIsShown, MeansYes
    <2>2. ASSUME NEW down \in Chords, MenuFrame(down) \/ TextFrame(down) \/ ErrorFrame(down)
          PROVE  AnswersWhatIsShown /\ MeansYes
        BY <2>2 DEF MenuFrame, TextFrame, ErrorFrame, AnswersWhatIsShown, MeansYes
    <2>3. ASSUME NEW down \in Chords, DialogFrame(down) PROVE AnswersWhatIsShown /\ MeansYes
        <3>1. AnswersWhatIsShown
            BY <2>3 DEF DialogFrame, ReadPad, Pressed, AnswersWhatIsShown, AnswerInv, EnterIsDown
        <3>2. screen' = "busy" => choice' = 1
            BY <2>3 DEF DialogFrame, OpenScreen, Draw
        <3>3. choice' = 1 => arrow' = "right" /\ ~ Pressed("cancel")
            BY <2>3 DEF DialogFrame, Chosen, AnswerInv, YesByArrow
        <3> QED  BY <3>1, <3>2, <3>3 DEF MeansYes
    <2>4. ASSUME NEW down \in Chords, MessageFrame(down) PROVE AnswersWhatIsShown /\ MeansYes
        BY <2>4 DEF MessageFrame, ReadPad, Pressed, AnswersWhatIsShown, MeansYes, AnswerInv, EnterIsDown
    <2> QED  BY <2>1, <2>2, <2>3, <2>4 DEF ScreensNext
<1> QED  BY <1>1, <1>2, AnswerInductive, PTL DEF ScreensSpec, AnswersAreMeant

(* The place in the track is proportional to the line.                     *)
LEMMA Proportional ==
    ASSUME NEW n \in Nat, NEW m \in Nat, NEW free \in Nat, n <= m, free > 0
    PROVE  /\ n * free <= free * m
           /\ n * free = free * m <=> n = m
<1>1. PICK rest \in Nat : m = n + rest
    <2>1. m - n \in Nat /\ m = n + (m - n)
        OBVIOUS
    <2> QED  BY <2>1
<1>2. free * m = n * free + rest * free
    BY <1>1
<1>3. rest * free >= 0 /\ (rest > 0 => rest * free > 0)
    OBVIOUS
<1>4. rest = 0 => rest * free = 0
    OBVIOUS
<1>5. n * free \in Nat /\ rest * free \in Nat
    OBVIOUS
<1> QED  BY <1>1, <1>2, <1>3, <1>4, <1>5

(* There is no going past the last line, and the handle is visible, in its *)
(* track, and at its end with the last line, for texts of up to 1900 lines:*)
(* beyond that it has no height.                                           *)
THEOREM TextStaysInView ==
    ASSUME \A n \in Lines : n <= 1900 PROVE ScreensSpec => []TextInView
<1>1. ScreensInit => TextInv
    BY DEF ScreensInit, TextInv
<1>2. TextInv => TextInView
    <2> SUFFICES ASSUME TextInv, screen = "text"
                 PROVE  /\ line + ShowLines <= lines
                        /\ Handle > 0 /\ Place <= (400 - Handle) * (lines - ShowLines)
                        /\ lines > ShowLines =>
                             (Place = (400 - Handle) * (lines - ShowLines)
                                <=> line + ShowLines = lines)
        BY DEF TextInView
    <2>1. /\ lines \in Nat \ {0} /\ lines <= 1900
          /\ line \in Nat /\ line + ShowLines <= lines
        <3>1. lines \in Lines /\ line \in Nat
            BY Zenon DEF TextInv
        <3>2. lines \in Nat \ {0}
            BY <3>1, ScreensAssumption
        <3>3. lines <= 1900
            BY <3>1
        <3>4. line + ShowLines <= lines
            BY <3>1, <3>2 DEF TextInv, ShowLines
        <3> QED  BY <3>1, <3>2, <3>3, <3>4
    <2>2. CASE lines < 19
        <3>1. ShowLines = lines
            BY <2>2 DEF ShowLines
        <3>2. (lines * 100) \div lines = 100
            BY <2>1
        <3>3. Handle = 400
            BY <3>1, <3>2 DEF Handle
        <3>4. Place = 0 /\ (400 - Handle) * (lines - ShowLines) = 0
            BY <2>1, <3>1, <3>3 DEF Place
        <3> QED  BY <2>1, <3>1, <3>3, <3>4
    <2>3. CASE lines >= 19
        <3>1. ShowLines = 19
            BY <2>1, <2>3 DEF ShowLines
        <3>2. 1900 \div lines \in 1..100 /\ (lines > 19 => 1900 \div lines < 100)
            BY <2>1, <2>3
        <3>3. Handle \in 4..400 /\ (lines > 19 => Handle < 400)
            BY <3>1, <3>2 DEF Handle
        <3>4. CASE lines = 19
            <4>1. line = 0
                BY <2>1, <3>1, <3>4
            <4>2. Place = 0 /\ (400 - Handle) * (lines - ShowLines) = 0
                BY <3>1, <3>3, <3>4, <4>1 DEF Place
            <4> QED  BY <2>1, <3>1, <3>3, <3>4, <4>2
        <3>5. CASE lines > 19
            <4>1. 400 - Handle \in Nat /\ 400 - Handle > 0 /\ lines - 19 \in Nat /\ line <= lines - 19
                BY <2>1, <3>1, <3>3, <3>5
            <4> DEFINE free == 400 - Handle
                       below == lines - 19
            <4>3. free \in Nat /\ free > 0 /\ below \in Nat /\ line \in Nat /\ line <= below
                BY <2>1, <4>1
            <4> HIDE DEF free, below
            <4>4. line * free <= free * below /\ (line * free = free * below <=> line = below)
                BY <4>3, Proportional
            <4>2. /\ line * (400 - Handle) <= (400 - Handle) * (lines - 19)
                  /\ line * (400 - Handle) = (400 - Handle) * (lines - 19) <=> line = lines - 19
                BY <4>4 DEF free, below
            <4> QED  BY <2>1, <3>1, <3>3, <4>2 DEF Place
        <3> QED  BY <2>1, <2>3, <3>4, <3>5
    <2> QED  BY <2>1, <2>2, <2>3
<1> QED  BY <1>1, <1>2, TextInductive, PTL DEF ScreensSpec

=============================================================================
