--------------------------- MODULE FileTreeProofs ---------------------------
(***************************************************************************)
(* Theorems about FileTree, for trees of any depth and names and any       *)
(* number of I/O errors.                                                   *)
(***************************************************************************)
EXTENDS FileTree, TLAPS

-----------------------------------------------------------------------------
(* The invariants.                                                         *)

(* Every frame is for the path of the call or one below it, and what it    *)
(* has yet to read are paths of the tree.                                  *)
FrameOK(top, frame) ==
    /\ Under(frame.path, top)
    /\ \A n \in frame.unread : Append(frame.path, n) \in Paths

FramesOK ==
    /\ arg \in Paths /\ kind \in [Paths -> {"none", "file", "dir"}]
    /\ stack \in Seq(Frames)
    /\ \A i \in 1..Len(stack) : FrameOK(arg, stack[i])
    /\ busy /\ op = "remove" => stack # <<>>

(* The frames that have opened their folder and not closed it.             *)
Reading == {i \in 1..Len(stack) : stack[i].phase = "read" /\ (i = 1 => result = "none")}

HandlesOfFrames == \A path \in handles : \E i \in Reading : stack[i].path = path

StackInv == FramesOK /\ HandlesOfFrames /\ (op = "make" \/ ~ busy => stack = <<>>)

-----------------------------------------------------------------------------
(* Paths are sequences of names.                                           *)
LEMMA PathsAreSequences == Paths \subseteq Seq(Names) /\ \A p \in Paths : Len(p) \in 1..Depth
<1> SUFFICES ASSUME NEW p \in Paths PROVE p \in Seq(Names) /\ Len(p) \in 1..Depth
    OBVIOUS
<1>1. PICK n \in 1..Depth : p \in [1..n -> Names]
    BY DEF Paths
<1>2. n \in Nat
    BY FileTreeAssumption
<1> QED  BY <1>1, <1>2

(* What is in a folder is under what the folder is under.                  *)
LEMMA UnderAppend ==
    ASSUME NEW p \in Paths, NEW n \in Names, NEW top \in Paths, Under(p, top)
    PROVE  Under(Append(p, n), top)
<1>1. p \in Seq(Names) /\ top \in Seq(Names)
    BY PathsAreSequences
<1>2. Len(Append(p, n)) = Len(p) + 1 /\ Len(p) \in Nat /\ Len(top) \in Nat
    BY <1>1
<1>3. Len(p) >= Len(top)
    BY DEF Under
<1>4. \A i \in 1..Len(p) : Append(p, n)[i] = p[i]
    BY <1>1
<1>5. SubSeq(Append(p, n), 1, Len(top)) = SubSeq(p, 1, Len(top))
    BY <1>1, <1>2, <1>3, <1>4
<1> QED  BY <1>2, <1>3, <1>5 DEF Under

(* A path is under itself.                                                 *)
LEMMA UnderItself == ASSUME NEW p \in Paths PROVE Under(p, p)
<1>1. p \in Seq(Names)
    BY PathsAreSequences
<1>2. SubSeq(p, 1, Len(p)) = p
    BY <1>1
<1> QED  BY <1>1, <1>2 DEF Under

(* The topmost frame is exchanged for another ...                          *)
LEMMA TopReplaced ==
    ASSUME stack \in Seq(Frames), stack # <<>>, NEW frame \in Frames
    PROVE  LET s == <<frame>> \o Tail(stack)
           IN  /\ s \in Seq(Frames) /\ Len(s) = Len(stack) /\ s[1] = frame /\ s # <<>>
               /\ \A i \in 2..Len(stack) : s[i] = stack[i]
BY DEF Top

(* ... or covered by another, or gone.                                     *)
LEMMA TopCovered ==
    ASSUME NEW s \in Seq(Frames), NEW frame \in Frames
    PROVE  LET t == <<frame>> \o s
           IN  /\ t \in Seq(Frames) /\ Len(t) = Len(s) + 1 /\ t[1] = frame /\ t # <<>>
               /\ \A i \in 1..Len(s) : t[i + 1] = s[i]
OBVIOUS

(* What is left when the topmost frame is taken away.                      *)
LEMMA TopGone ==
    ASSUME stack \in Seq(Frames), stack # <<>>
    PROVE  /\ Tail(stack) \in Seq(Frames) /\ Len(Tail(stack)) = Len(stack) - 1 /\ Len(stack) \in Nat \ {0}
           /\ \A i \in 1..Len(Tail(stack)) : Tail(stack)[i] = stack[i + 1]
           /\ Head(stack) = stack[1] /\ Head(stack) \in Frames
OBVIOUS

-----------------------------------------------------------------------------
(* The steps.                                                              *)

(* Nothing is open and no frame is there before the call.                  *)
LEMMA InitStackInv == Init => StackInv
<1> SUFFICES ASSUME Init PROVE StackInv
    OBVIOUS
<1>1. stack = <<>> /\ handles = {} /\ busy = FALSE /\ op = "remove" /\ arg \in Paths
    BY DEF Init
<1>2. kind \in [Paths -> {"none", "file", "dir"}]
    BY FileTreeAssumption DEF Init
<1>3. stack \in Seq(Frames) /\ Len(stack) = 0
    BY <1>1
<1>4. \A i \in 1..Len(stack) : FALSE
    BY <1>3
<1>5. ~ busy
    BY <1>1, Zenon
<1>6. FramesOK
    BY <1>1, <1>2, <1>3, <1>4, <1>5, Zenon DEF FramesOK
<1> QED  BY <1>1, <1>6, Zenon DEF StackInv, HandlesOfFrames

(* The first frame is the call's own.                                      *)
LEMMA RemoveKeeps == StackInv /\ Remove => StackInv'
<1> SUFFICES ASSUME StackInv, Remove PROVE StackInv'
    OBVIOUS
<1>1. /\ stack' = <<Call(arg)>> /\ op' = "remove" /\ stack = <<>> /\ busy' = TRUE
      /\ UNCHANGED <<kind, arg, handles, result>>
    BY DEF Remove, StackInv
<1>2. Call(arg) \in Frames /\ FrameOK(arg', Call(arg'))
    BY <1>1, UnderItself DEF StackInv, FramesOK, Call, Frames, FrameOK
<1>3. /\ stack' \in Seq(Frames) /\ Len(stack') = 1 /\ stack'[1] = Call(arg) /\ stack' # <<>>
    BY <1>1, <1>2
<1>4. FramesOK'
    BY <1>1, <1>2, <1>3 DEF StackInv, FramesOK
<1>5. handles = {}
    <2>1. Len(stack) = 0
        BY <1>1
    <2> QED  BY <2>1 DEF StackInv, HandlesOfFrames, Reading
<1>6. HandlesOfFrames'
    BY <1>1, <1>5 DEF HandlesOfFrames
<1>7. ~ (op' = "make" \/ ~ busy')
    BY <1>1
<1> QED  BY <1>4, <1>6, <1>7 DEF StackInv

(* The frames below the topmost are all the same after a step at it.       *)
LEMMA TopExchanged ==
    ASSUME FramesOK, stack # <<>>, NEW frame \in Frames, stack' = <<frame>> \o Tail(stack),
           FrameOK(arg, frame), UNCHANGED arg, kind' \in [Paths -> {"none", "file", "dir"}]
    PROVE  /\ FramesOK' /\ Len(stack') = Len(stack) /\ stack'[1] = frame
           /\ \A i \in 2..Len(stack) : stack'[i] = stack[i]
<1>1. /\ stack' \in Seq(Frames) /\ Len(stack') = Len(stack) /\ stack'[1] = frame /\ stack' # <<>>
      /\ \A i \in 2..Len(stack) : stack'[i] = stack[i]
    BY TopReplaced DEF FramesOK
<1>2. Len(stack) \in Nat
    BY DEF FramesOK
<1>3. \A i \in 1..Len(stack') : FrameOK(arg', stack'[i])
    <2> SUFFICES ASSUME NEW i \in 1..Len(stack') PROVE FrameOK(arg', stack'[i])
        OBVIOUS
    <2>1. CASE i = 1
        BY <1>1, <2>1
    <2>2. CASE i # 1
        <3>1. i \in 2..Len(stack) /\ i \in 1..Len(stack)
            BY <1>1, <1>2, <2>2
        <3> QED  BY <1>1, <3>1 DEF FramesOK
    <2> QED  BY <2>1, <2>2
<1> QED  BY <1>1, <1>3 DEF FramesOK

(* What a running call has at the top.                                     *)
LEMMA TopFrame ==
    ASSUME StackInv, Running
    PROVE  /\ stack # <<>> /\ Top \in Frames /\ Top = stack[1] /\ FrameOK(arg, Top)
           /\ Len(stack) \in Nat \ {0} /\ busy /\ op = "remove" /\ FramesOK
<1>1. stack # <<>> /\ stack \in Seq(Frames) /\ FramesOK
    BY DEF Running, StackInv, FramesOK
<1>2. Len(stack) \in Nat \ {0} /\ Top = stack[1] /\ Top \in Frames
    BY <1>1, TopGone DEF Top
<1>3. FrameOK(arg, stack[1])
    BY <1>1, <1>2 DEF FramesOK
<1> QED  BY <1>1, <1>2, <1>3, Zenon DEF Running

(* A folder is opened, a file unlinked, or neither.                        *)
LEMMA EnterKeeps == StackInv /\ Enter => StackInv'
<1> SUFFICES ASSUME StackInv, Enter PROVE StackInv'
    OBVIOUS
<1>0. Running /\ Top.phase = "enter" /\ UNCHANGED <<op, busy, arg>>
    BY DEF Enter, Same
<1>1. /\ stack # <<>> /\ Top \in Frames /\ Top = stack[1] /\ FrameOK(arg, Top)
      /\ Len(stack) \in Nat \ {0} /\ busy /\ op = "remove" /\ FramesOK
    BY <1>0, TopFrame
<1>2. ~ (op' = "make" \/ ~ busy')
    BY <1>0, <1>1
<1>3. \A path \in handles : \E i \in 2..Len(stack) : stack[i].phase = "read" /\ stack[i].path = path
    <2>1. \A i \in Reading : i \in 2..Len(stack)
        BY <1>0, <1>1 DEF Reading
    <2> QED  BY <2>1 DEF StackInv, HandlesOfFrames, Reading
<1>4. CASE /\ stack' = <<[Top EXCEPT !.phase = "read", !.unread = Children(Top.path)]>> \o Tail(stack)
           /\ handles' = handles \cup {Top.path} /\ UNCHANGED <<kind, result>>
    <2> DEFINE frame == [Top EXCEPT !.phase = "read", !.unread = Children(Top.path)]
    <2>1. frame \in Frames /\ frame.path = Top.path /\ frame.phase = "read"
          /\ frame.unread = Children(Top.path)
        BY <1>1 DEF Frames, Children
    <2>2. stack' = <<frame>> \o Tail(stack)
        BY <1>4
    <2> HIDE DEF frame
    <2>3. FrameOK(arg, frame)
        BY <1>1, <2>1 DEF FrameOK, Children
    <2>4. /\ FramesOK' /\ Len(stack') = Len(stack) /\ stack'[1] = frame
          /\ \A i \in 2..Len(stack) : stack'[i] = stack[i]
        BY <1>0, <1>1, <1>4, <2>1, <2>2, <2>3, TopExchanged DEF FramesOK
    <2>5. result' = "none"
        BY <1>0, <1>4 DEF Running
    <2>6. \A i \in 2..Len(stack) : i \in 1..Len(stack') /\ i # 1
        BY <1>1, <2>4
    <2>7. 1 \in Reading' /\ stack'[1].path = Top.path
        BY <1>1, <2>1, <2>4, <2>5 DEF Reading
    <2>8. HandlesOfFrames'
        <3> SUFFICES ASSUME NEW path \in handles \cup {Top.path}
                     PROVE  \E i \in Reading' : stack'[i].path = path
            BY <1>4 DEF HandlesOfFrames
        <3>1. CASE path = Top.path
            BY <2>7, <3>1
        <3>2. CASE path \in handles
            <4>1. PICK i \in 2..Len(stack) : stack[i].phase = "read" /\ stack[i].path = path
                BY <1>3, <3>2
            <4>2. i \in Reading' /\ stack'[i].path = path
                BY <2>4, <2>6, <4>1 DEF Reading
            <4> QED  BY <4>2
        <3> QED  BY <3>1, <3>2
    <2> QED  BY <1>2, <2>4, <2>8 DEF StackInv
<1>5. CASE UNCHANGED <<stack, handles>> /\ (kind' = Unlinked(Top.path) \/ kind' = kind)
    <2>1. kind' \in [Paths -> {"none", "file", "dir"}]
        BY <1>1, <1>5 DEF FramesOK, Unlinked
    <2>2. FramesOK'
        BY <1>0, <1>1, <1>5, <2>1 DEF FramesOK, FrameOK
    <2>3. \A i \in 2..Len(stack) : i \in 1..Len(stack') /\ i # 1
        BY <1>1, <1>5
    <2>4. HandlesOfFrames'
        BY <1>3, <1>5, <2>3 DEF HandlesOfFrames, Reading
    <2> QED  BY <1>2, <2>2, <2>4 DEF StackInv
<1> QED  BY <1>4, <1>5 DEF Enter

(* The folder that is read is removed, or not, and closed.                 *)
LEMMA RmdirKeeps == StackInv /\ Rmdir => StackInv'
<1> SUFFICES ASSUME StackInv, Rmdir PROVE StackInv'
    OBVIOUS
<1>0. /\ Running /\ handles' = handles \ {Top.path} /\ UNCHANGED <<stack, op, busy, arg>>
      /\ kind' = Unlinked(Top.path) \/ kind' = kind
    BY DEF Rmdir, Same
<1>1. /\ Top = stack[1] /\ Len(stack) \in Nat \ {0} /\ busy /\ op = "remove" /\ FramesOK
    BY <1>0, TopFrame
<1>2. kind' \in [Paths -> {"none", "file", "dir"}]
    BY <1>0, <1>1 DEF FramesOK, Unlinked
<1>3. FramesOK'
    BY <1>0, <1>1, <1>2 DEF FramesOK, FrameOK
<1>4. HandlesOfFrames'
    BY <1>0, <1>1 DEF StackInv, HandlesOfFrames, Reading
<1> QED  BY <1>0, <1>1, <1>3, <1>4 DEF StackInv

(* An entry is unlinked, or a frame for it put on top, or the folder is    *)
(* closed on an error.                                                     *)
LEMMA ReadKeeps == StackInv /\ Read => StackInv'
<1> SUFFICES ASSUME StackInv, Read PROVE StackInv'
    OBVIOUS
<1>0. Running /\ Top.phase = "read" /\ UNCHANGED <<op, busy, arg>>
    BY DEF Read, Same
<1>1. /\ stack # <<>> /\ Top \in Frames /\ Top = stack[1] /\ FrameOK(arg, Top)
      /\ Len(stack) \in Nat \ {0} /\ busy /\ op = "remove" /\ FramesOK
    BY <1>0, TopFrame
<1>2. ~ (op' = "make" \/ ~ busy')
    BY <1>0, <1>1
<1>3. result = "none" /\ HandlesOfFrames
    BY <1>0 DEF Running, StackInv
<1>4. ASSUME NEW some \in SUBSET Top.unread,
             stack' = <<[Top EXCEPT !.unread = some]>> \o Tail(stack),
             kind' \in [Paths -> {"none", "file", "dir"}], UNCHANGED <<handles, result>>
      PROVE  StackInv'
    <2> DEFINE frame == [Top EXCEPT !.unread = some]
    <2>1. frame \in Frames /\ frame.path = Top.path /\ frame.phase = "read" /\ frame.unread = some
        BY <1>0, <1>1 DEF Frames
    <2>2. stack' = <<frame>> \o Tail(stack)
        BY <1>4
    <2> HIDE DEF frame
    <2>3. FrameOK(arg, frame)
        BY <1>1, <2>1 DEF FrameOK
    <2>4. /\ FramesOK' /\ Len(stack') = Len(stack) /\ stack'[1] = frame
          /\ \A i \in 2..Len(stack) : stack'[i] = stack[i]
        BY <1>0, <1>1, <1>4, <2>1, <2>2, <2>3, TopExchanged
    <2>5. \A i \in Reading : i \in Reading' /\ stack'[i].path = stack[i].path
        <3> SUFFICES ASSUME NEW i \in Reading PROVE i \in Reading' /\ stack'[i].path = stack[i].path
            OBVIOUS
        <3>1. i \in 1..Len(stack) /\ stack[i].phase = "read"
            BY DEF Reading
        <3>2. CASE i = 1
            BY <1>1, <1>3, <1>4, <2>1, <2>4, <3>1, <3>2 DEF Reading
        <3>3. CASE i # 1
            <4>1. i \in 2..Len(stack)
                BY <1>1, <3>1, <3>3
            <4> QED  BY <2>4, <3>1, <3>3, <4>1 DEF Reading
        <3> QED  BY <3>2, <3>3
    <2>6. HandlesOfFrames'
        BY <1>3, <1>4, <2>5 DEF HandlesOfFrames
    <2> QED  BY <1>2, <2>4, <2>6 DEF StackInv
<1>5. ASSUME NEW n \in Top.unread,
             stack' = <<Call(Append(Top.path, n))>> \o
                        (<<[Top EXCEPT !.unread = @ \ {n}]>> \o Tail(stack)),
             UNCHANGED <<kind, handles, result>>
      PROVE  StackInv'
    <2> DEFINE frame == [Top EXCEPT !.unread = @ \ {n}]
               s == <<frame>> \o Tail(stack)
               call == Call(Append(Top.path, n))
    <2>1. frame \in Frames /\ frame.path = Top.path /\ frame.phase = "read" /\ frame.unread \subseteq Top.unread
        BY <1>0, <1>1 DEF Frames
    <2>2. call \in Frames /\ FrameOK(arg, call)
        <3>1. Top.path \in Paths /\ n \in Names /\ Append(Top.path, n) \in Paths
            BY <1>1, <1>5 DEF Frames, FrameOK
        <3>2. Under(Append(Top.path, n), arg)
            BY <1>1, <3>1, UnderAppend DEF FrameOK, FramesOK
        <3> QED  BY <3>1, <3>2 DEF Call, Frames, FrameOK
    <2> HIDE DEF frame, call
    <2>3. FrameOK(arg, frame)
        BY <1>1, <2>1 DEF FrameOK
    <2>4. /\ s \in Seq(Frames) /\ Len(s) = Len(stack) /\ s[1] = frame
          /\ \A i \in 2..Len(stack) : s[i] = stack[i]
        BY <1>1, <2>1, TopReplaced DEF FramesOK
    <2>5. stack' = <<call>> \o s
        BY <1>5 DEF frame, call
    <2> HIDE DEF s
    <2>6. /\ stack' \in Seq(Frames) /\ Len(stack') = Len(stack) + 1 /\ stack'[1] = call /\ stack' # <<>>
          /\ \A i \in 1..Len(stack) : stack'[i + 1] = s[i]
        BY <2>2, <2>4, <2>5, TopCovered
    <2>7. \A i \in 1..Len(stack) : FrameOK(arg, s[i]) /\ s[i].path = stack[i].path
                                   /\ (stack[i].phase = "read" => s[i].phase = "read")
        <3> SUFFICES ASSUME NEW i \in 1..Len(stack)
                     PROVE  FrameOK(arg, s[i]) /\ s[i].path = stack[i].path
                            /\ (stack[i].phase = "read" => s[i].phase = "read")
            OBVIOUS
        <3>1. CASE i = 1
            BY <1>1, <2>1, <2>3, <2>4, <3>1
        <3>2. CASE i # 1
            <4>1. i \in 2..Len(stack)
                BY <1>1, <3>2
            <4> QED  BY <1>1, <2>4, <4>1 DEF FramesOK
        <3> QED  BY <3>1, <3>2
    <2>8. \A i \in 1..Len(stack') : FrameOK(arg', stack'[i])
        <3> SUFFICES ASSUME NEW i \in 1..Len(stack') PROVE FrameOK(arg, stack'[i])
            BY <1>0
        <3>1. CASE i = 1
            BY <2>2, <2>6, <3>1
        <3>2. CASE i # 1
            <4>1. i - 1 \in 1..Len(stack) /\ (i - 1) + 1 = i
                BY <1>1, <2>6, <3>2
            <4>2. stack'[(i - 1) + 1] = s[i - 1]
                BY <2>6, <4>1
            <4> QED  BY <2>7, <4>1, <4>2
        <3> QED  BY <3>1, <3>2
    <2>9. FramesOK'
        BY <1>0, <1>1, <1>5, <2>6, <2>8 DEF FramesOK
    <2>10. \A i \in Reading : i + 1 \in Reading' /\ stack'[i + 1].path = stack[i].path
        <3> SUFFICES ASSUME NEW i \in Reading
                     PROVE  i + 1 \in Reading' /\ stack'[i + 1].path = stack[i].path
            OBVIOUS
        <3>1. i \in 1..Len(stack) /\ stack[i].phase = "read"
            BY DEF Reading
        <3>2. i + 1 \in 1..Len(stack') /\ i + 1 # 1
            BY <1>1, <2>6, <3>1
        <3> QED  BY <2>6, <2>7, <3>1, <3>2 DEF Reading
    <2>11. HandlesOfFrames'
        <3> SUFFICES ASSUME NEW path \in handles PROVE \E i \in Reading' : stack'[i].path = path
            BY <1>5 DEF HandlesOfFrames
        <3>1. PICK i \in Reading : stack[i].path = path
            BY <1>3 DEF HandlesOfFrames
        <3> QED  BY <2>10, <3>1
    <2> QED  BY <1>2, <2>9, <2>11 DEF StackInv
<1>6. CASE handles' = handles \ {Top.path} /\ UNCHANGED <<kind, stack>>
    <2>1. FramesOK'
        BY <1>0, <1>1, <1>6 DEF FramesOK, FrameOK
    <2>2. HandlesOfFrames'
        BY <1>1, <1>3, <1>6 DEF HandlesOfFrames, Reading
    <2> QED  BY <1>2, <2>1, <2>2 DEF StackInv
<1>7. CASE \E n \in Top.unread :
             LET path == Append(Top.path, n)
                 rest == <<[Top EXCEPT !.unread = @ \ {n}]>> \o Tail(stack)
             IN  \/ stack' = <<Call(path)>> \o rest /\ UNCHANGED <<kind, handles, result>>
                 \/ kind' = Unlinked(path) /\ stack' = rest /\ UNCHANGED <<handles, result>>
                 \/ handles' = handles \ {Top.path} /\ UNCHANGED <<kind, stack>>
    <2>1. PICK n \in Top.unread :
             LET path == Append(Top.path, n)
                 rest == <<[Top EXCEPT !.unread = @ \ {n}]>> \o Tail(stack)
             IN  \/ stack' = <<Call(path)>> \o rest /\ UNCHANGED <<kind, handles, result>>
                 \/ kind' = Unlinked(path) /\ stack' = rest /\ UNCHANGED <<handles, result>>
                 \/ handles' = handles \ {Top.path} /\ UNCHANGED <<kind, stack>>
        BY <1>7
    <2>2. CASE /\ stack' = <<Call(Append(Top.path, n))>> \o
                             (<<[Top EXCEPT !.unread = @ \ {n}]>> \o Tail(stack))
               /\ UNCHANGED <<kind, handles, result>>
        BY <1>5, <2>2
    <2>3. CASE /\ kind' = Unlinked(Append(Top.path, n))
               /\ stack' = <<[Top EXCEPT !.unread = @ \ {n}]>> \o Tail(stack)
               /\ UNCHANGED <<handles, result>>
        <3>1. kind' \in [Paths -> {"none", "file", "dir"}]
            BY <1>1, <2>3 DEF FramesOK, Unlinked
        <3>2. stack' = <<[Top EXCEPT !.unread = Top.unread \ {n}]>> \o Tail(stack)
            BY <2>3
        <3> QED  BY <1>4, <2>3, <3>1, <3>2
    <2> QED  BY <1>6, <2>1, <2>2, <2>3
<1>8. CASE stack' = <<[Top EXCEPT !.unread = {}]>> \o Tail(stack) /\ UNCHANGED <<kind, handles, result>>
    BY <1>1, <1>4, <1>8 DEF FramesOK
<1> QED  BY <1>7, <1>8 DEF Read

(* A call has returned into the frame below, or to the program: the        *)
(* topmost frame holds no handle by then.                                  *)
LEMMA ReturnedKeeps == StackInv /\ Returned => StackInv'
<1> SUFFICES ASSUME StackInv, Returned PROVE StackInv'
    OBVIOUS
<1>0. /\ busy /\ op = "remove" /\ result # "none" /\ stack' = Tail(stack)
      /\ UNCHANGED <<kind, op, arg>>
    BY DEF Returned
<1>1. stack # <<>> /\ stack \in Seq(Frames) /\ FramesOK /\ HandlesOfFrames
    BY <1>0 DEF StackInv, FramesOK
<1>2. /\ stack' \in Seq(Frames) /\ Len(stack') = Len(stack) - 1 /\ Len(stack) \in Nat \ {0}
      /\ \A i \in 1..Len(stack') : stack'[i] = stack[i + 1]
    BY <1>0, <1>1, TopGone
<1>3. \A i \in 1..Len(stack') : FrameOK(arg', stack'[i])
    <2> SUFFICES ASSUME NEW i \in 1..Len(stack') PROVE FrameOK(arg, stack'[i])
        BY <1>0
    <2>1. i + 1 \in 1..Len(stack)
        BY <1>2
    <2> QED  BY <1>1, <1>2, <2>1 DEF FramesOK
<1>4. \A path \in handles : \E i \in 2..Len(stack) : stack[i].phase = "read" /\ stack[i].path = path
    <2>1. \A i \in Reading : i \in 2..Len(stack)
        BY <1>0, <1>2 DEF Reading
    <2> QED  BY <1>1, <2>1 DEF HandlesOfFrames, Reading
<1>5. CASE Len(stack) = 1
    <2>1. busy' = FALSE /\ handles' = handles
        BY <1>5 DEF Returned
    <2>2. Len(stack') = 0 /\ stack' = <<>>
        BY <1>2, <1>5
    <2>3. handles' = {}
        BY <1>4, <1>5, <2>1
    <2>4. FramesOK'
        BY <1>0, <1>1, <1>2, <1>3, <2>1 DEF FramesOK
    <2>5. HandlesOfFrames'
        BY <2>3 DEF HandlesOfFrames
    <2> QED  BY <2>2, <2>4, <2>5 DEF StackInv
<1>6. CASE Len(stack) # 1
    <2>1. busy' = busy /\ Len(stack') # 0 /\ stack' # <<>>
        BY <1>2, <1>6 DEF Returned
    <2>2. FramesOK'
        BY <1>0, <1>1, <1>2, <1>3, <2>1 DEF FramesOK
    <2>3. ~ (op' = "make" \/ ~ busy')
        BY <1>0, <2>1
    <2>4. HandlesOfFrames'
        <3> SUFFICES ASSUME NEW path \in handles' PROVE \E i \in Reading' : stack'[i].path = path
            BY DEF HandlesOfFrames
        <3>1. path \in handles
            BY <1>6 DEF Returned
        <3>2. PICK i \in 2..Len(stack) : stack[i].phase = "read" /\ stack[i].path = path
            BY <1>4, <3>1
        <3>3. i - 1 \in 1..Len(stack') /\ (i - 1) + 1 = i
            BY <1>2, <3>2
        <3>4. stack'[i - 1] = stack[i]
            BY <1>2, <3>3
        <3>5. i - 1 = 1 => result' = "none"
            BY <1>6, <3>2 DEF Returned
        <3> QED  BY <3>2, <3>3, <3>4, <3>5 DEF Reading
    <2> QED  BY <2>2, <2>3, <2>4 DEF StackInv
<1> QED  BY <1>5, <1>6

(* makePath has no frames.                                                 *)
LEMMA MakingKeeps == StackInv /\ (Make \/ Mkdir \/ Test) => StackInv'
<1> SUFFICES ASSUME StackInv, Make \/ Mkdir \/ Test PROVE StackInv'
    OBVIOUS
<1>1. stack = <<>> /\ op' = "make" /\ UNCHANGED <<arg, stack, handles>>
    BY DEF StackInv, Make, Mkdir, Test
<1>2. kind' \in [Paths -> {"none", "file", "dir"}]
    <2>1. kind' = kind \/ kind' = [kind EXCEPT ![SubSeq(arg, 1, level)] = "dir"]
        BY DEF Make, Mkdir, Test, Made
    <2> QED  BY <2>1 DEF StackInv, FramesOK
<1>3. FramesOK'
    BY <1>1, <1>2 DEF StackInv, FramesOK
<1>4. handles = {}
    <2>1. Len(stack) = 0
        BY <1>1
    <2> QED  BY <2>1 DEF StackInv, HandlesOfFrames, Reading
<1>5. HandlesOfFrames'
    BY <1>1, <1>4 DEF HandlesOfFrames
<1> QED  BY <1>1, <1>3, <1>5 DEF StackInv

(* The frames account for the handles after any step.                      *)
LEMMA StackInductive == StackInv /\ [Next]_vars => StackInv'
<1> SUFFICES ASSUME StackInv, [Next]_vars PROVE StackInv'
    OBVIOUS
<1>1. CASE Remove
    BY <1>1, RemoveKeeps
<1>2. CASE Make \/ Mkdir \/ Test
    BY <1>2, MakingKeeps
<1>3. CASE Enter
    BY <1>3, EnterKeeps
<1>4. CASE Read
    BY <1>4, ReadKeeps
<1>5. CASE Rmdir
    BY <1>5, RmdirKeeps
<1>6. CASE Returned
    BY <1>6, ReturnedKeeps
<1>7. CASE UNCHANGED vars
    BY <1>7 DEF vars, StackInv, FramesOK, FrameOK, HandlesOfFrames, Reading
<1> QED  BY <1>1, <1>2, <1>3, <1>4, <1>5, <1>6, <1>7 DEF Next, Step

(* Without a call there is no frame and so nothing is open.                *)
LEMMA NothingOpen == StackInv => HandlesClosed
<1> SUFFICES ASSUME StackInv, ~ busy PROVE handles = {}
    BY DEF HandlesClosed
<1>1. stack = <<>> /\ Len(stack) = 0
    BY DEF StackInv
<1> QED  BY <1>1 DEF StackInv, HandlesOfFrames, Reading

(* However deep the tree and wherever an error ends the recursion, no      *)
(* directory is open when removePath has returned (file.c:197-253).        *)
THEOREM NoHandleLeft == Spec => []HandlesClosed
<1>1. Init => StackInv
    BY InitStackInv
<1>2. StackInv /\ [Next]_vars => StackInv'
    BY StackInductive
<1>3. StackInv => HandlesClosed
    BY NothingOpen
<1> QED  BY <1>1, <1>2, <1>3, PTL DEF Spec

-----------------------------------------------------------------------------
(* What is not under the path.                                             *)

(* Each call is a program's first and last, and makePath has told.         *)
OthersInv ==
    /\ StackInv
    /\ OthersKept
    /\ op = "remove" \/ (op = "make" /\ (~ busy => result # "none"))

(* removePath takes away nothing but what one of its frames stands for.    *)
LEMMA RemovesUnderOnly ==
    ASSUME StackInv, Enter \/ Read \/ Rmdir
    PROVE  kind' = kind \/ \E path \in Paths : Under(path, arg) /\ kind' = Unlinked(path)
<1>0. Running
    BY DEF Enter, Read, Rmdir
<1>1. Top \in Frames /\ FrameOK(arg, Top) /\ FramesOK
    BY <1>0, TopFrame
<1>2. Top.path \in Paths /\ Under(Top.path, arg)
    BY <1>1 DEF Frames, FrameOK
<1>3. CASE Enter \/ Rmdir
    BY <1>2, <1>3 DEF Enter, Rmdir
<1>4. CASE Read
    <2>1. kind' = kind \/ \E n \in Top.unread : kind' = Unlinked(Append(Top.path, n))
        BY <1>4 DEF Read
    <2>2. CASE \E n \in Top.unread : kind' = Unlinked(Append(Top.path, n))
        <3>1. PICK n \in Top.unread : kind' = Unlinked(Append(Top.path, n))
            BY <2>2
        <3>2. n \in Names /\ Append(Top.path, n) \in Paths /\ arg \in Paths
            BY <1>1 DEF Frames, FrameOK, FramesOK
        <3>3. Under(Append(Top.path, n), arg)
            BY <1>2, <3>2, UnderAppend
        <3> QED  BY <3>1, <3>2, <3>3
    <2> QED  BY <2>1, <2>2
<1> QED  BY <1>3, <1>4

(* So the rest is as it was, from the call to its end.                     *)
LEMMA OthersInductive == OthersInv /\ [Next]_vars => OthersInv'
<1> SUFFICES ASSUME OthersInv, [Next]_vars PROVE OthersInv'
    OBVIOUS
<1>0. StackInv /\ OthersKept /\ (op = "remove" \/ (op = "make" /\ (~ busy => result # "none")))
    BY DEF OthersInv
<1>1. StackInv'
    BY <1>0, StackInductive
<1>2. CASE Remove
    <2>1. ~ busy /\ result = "none"
        BY <1>2 DEF Remove
    <2>2. op = "remove" /\ op' = "remove"
        BY <1>0, <1>2, <2>1 DEF Remove
    <2> QED  BY <1>0, <1>1, <1>2, <2>2 DEF OthersInv, Remove, OthersKept
<1>3. CASE Make \/ Mkdir \/ Test
    <2>1. op' = "make"
        BY <1>3 DEF Make, Mkdir, Test
    <2>2. ~ busy' => result' # "none"
        BY <1>0, <1>3 DEF Make, Mkdir, Test, Return
    <2> QED  BY <1>1, <2>1, <2>2 DEF OthersInv, OthersKept
<1>4. CASE Enter \/ Read \/ Rmdir
    <2>1. UNCHANGED <<op, arg, before>> /\ op = "remove"
        BY <1>4 DEF Enter, Read, Rmdir, Same, Running
    <2>2. kind' = kind \/ \E path \in Paths : Under(path, arg) /\ kind' = Unlinked(path)
        BY <1>0, <1>4, RemovesUnderOnly
    <2>3. OthersKept'
        BY <1>0, <2>1, <2>2 DEF OthersKept, Unlinked, StackInv, FramesOK
    <2> QED  BY <1>1, <2>1, <2>3 DEF OthersInv
<1>5. CASE Returned
    BY <1>0, <1>1, <1>5 DEF OthersInv, Returned, OthersKept
<1>6. CASE UNCHANGED vars
    BY <1>0, <1>1, <1>6 DEF OthersInv, vars, OthersKept
<1> QED  BY <1>2, <1>3, <1>4, <1>5, <1>6 DEF Next, Step

(* However deep the tree, in whatever order its entries are read, and      *)
(* wherever an error ends it, removePath leaves all that is not under its  *)
(* argument as it was (file.c:197-253).                                    *)
THEOREM NothingElseGoes == Spec => []OthersKept
<1>1. Init => OthersInv
    <2> SUFFICES ASSUME Init PROVE OthersInv
        OBVIOUS
    <2>1. StackInv
        BY InitStackInv
    <2>2. OthersKept /\ op = "remove"
        BY DEF Init, OthersKept
    <2> QED  BY <2>1, <2>2 DEF OthersInv
<1>2. OthersInv /\ [Next]_vars => OthersInv'
    BY OthersInductive
<1>3. OthersInv => OthersKept
    BY DEF OthersInv
<1> QED  BY <1>1, <1>2, <1>3, PTL DEF Spec

-----------------------------------------------------------------------------
(* What the result tells.                                                  *)

(* Each frame is for an entry of the folder that the one below it reads,   *)
(* and the last is the program's call.                                     *)
Inside(upper, lower) ==
    lower.phase = "read" /\ \E n \in Names : upper.path = Append(lower.path, n)
Chain ==
    /\ stack[Len(stack)].path = arg
    /\ \A i \in 1..Len(stack) - 1 : Inside(stack[i], stack[i + 1])

(* A folder that is read has no entries but those still ahead and the one  *)
(* that is being removed.                                                  *)
Ahead(i, n) ==
    n \in stack[i].unread \/ (i > 1 /\ stack[i - 1].path = Append(stack[i].path, n))
Within(k, path) == {n \in Names : Append(path, n) \in Paths /\ k[Append(path, n)] # "none"}
NothingMissed ==
    \A i \in 1..Len(stack) :
        stack[i].phase = "read" => \A n \in Within(kind, stack[i].path) : Ahead(i, n)

(* A call that has just begun: the first finds what the program left, the  *)
(* others the folder they were made for.                                   *)
Begun ==
    result = "none" /\ stack[1].phase = "enter" =>
        IF Len(stack) = 1 THEN kind = before ELSE kind[stack[1].path] = "dir"

(* Without an I/O error only the program's own call can fail.              *)
Smooth ==
    IF result = "error" THEN Len(stack) = 1 /\ before[arg] = "none" ELSE NothingMissed /\ Begun

Calls ==
    /\ Chain
    /\ result = "ok" => kind[stack[1].path] = "none"
    /\ faults = 0 => Smooth

RemoveInv ==
    op = "remove" =>
        /\ level = 1
        /\ ~ busy /\ result = "none" => kind = before
        /\ ~ busy /\ result = "ok" => kind[arg] = "none"
        /\ ~ busy /\ result = "error" /\ faults = 0 => before[arg] = "none"
        /\ busy => Calls

(* Every prefix makePath has come to is a folder, unless a file is in the  *)
(* way or a call has failed.                                               *)
InTheWay == \E p \in Paths : Under(arg, p) /\ before[p] = "file"
MakeInv ==
    op = "make" =>
        /\ level \in 1..Len(arg) + 1
        /\ \A p \in Paths : kind[p] = "file" => before[p] = "file"
        /\ faults = 0 => InTheWay \/ \A j \in 1..level - 1 : kind[SubSeq(arg, 1, j)] = "dir"
        /\ ~ busy => /\ result # "none"
                     /\ result = "ok" => kind[arg] = "dir"
                     /\ result = "error" /\ faults = 0 => InTheWay

Few == faults \in Nat /\ result \in Results /\ op \in {"remove", "make"}

ResultInv == StackInv /\ Few /\ IsTree(kind) /\ RemoveInv /\ MakeInv

-----------------------------------------------------------------------------
(* A sequence of names that is short enough is a path.                     *)
LEMMA SequenceIsPath ==
    ASSUME NEW s \in Seq(Names), Len(s) \in 1..Depth
    PROVE  s \in Paths
<1>1. s \in [1..Len(s) -> Names]
    OBVIOUS
<1> QED  BY <1>1 DEF Paths

(* What lies under a folder lies in or under one of its entries.           *)
LEMMA UnderEntry ==
    ASSUME NEW p \in Paths, NEW q \in Paths, Under(q, p), q # p
    PROVE  \E n \in Names : Append(p, n) \in Paths /\ Under(q, Append(p, n))
<1>1. p \in Seq(Names) /\ q \in Seq(Names) /\ Len(p) \in 1..Depth /\ Len(q) \in 1..Depth
    BY PathsAreSequences
<1>2. Len(q) >= Len(p) /\ SubSeq(q, 1, Len(p)) = p
    BY DEF Under
<1>3. Len(q) # Len(p)
    <2> SUFFICES ASSUME Len(q) = Len(p) PROVE FALSE
        OBVIOUS
    <2>1. SubSeq(q, 1, Len(q)) = q
        BY <1>1
    <2> QED  BY <1>2, <2>1
<1> DEFINE n == q[Len(p) + 1]
           c == Append(p, n)
<1>4. Depth \in Nat /\ Len(p) + 1 \in 1..Len(q) /\ Len(p) + 1 \in 1..Depth
    BY <1>1, <1>2, <1>3, FileTreeAssumption
<1>5. n \in Names
    BY <1>1, <1>4
<1>6. c \in Seq(Names) /\ Len(c) = Len(p) + 1 /\ c[Len(p) + 1] = n /\ \A i \in 1..Len(p) : c[i] = p[i]
    BY <1>1, <1>5
<1>7. Len(c) \in 1..Depth
    BY <1>4, <1>6
<1>8. c \in Paths
    BY <1>6, <1>7, SequenceIsPath
<1>9. \A i \in 1..Len(p) : p[i] = q[i]
    BY <1>1, <1>2
<1>10. SubSeq(q, 1, Len(p) + 1) = c
    <2> DEFINE s == SubSeq(q, 1, Len(p) + 1)
    <2>1. s \in Seq(Names) /\ Len(s) = Len(p) + 1 /\ \A i \in 1..Len(p) + 1 : s[i] = q[i]
        BY <1>1, <1>4
    <2>2. \A i \in 1..Len(p) + 1 : s[i] = c[i]
        <3> TAKE i \in 1..Len(p) + 1
        <3>1. i = Len(p) + 1 \/ i \in 1..Len(p)
            BY <1>1
        <3> QED  BY <1>6, <1>9, <2>1, <3>1
    <2> HIDE DEF s, c
    <2> QED  BY <1>6, <2>1, <2>2
<1>11. Under(q, c)
    BY <1>1, <1>4, <1>6, <1>10 DEF Under
<1> QED  BY <1>5, <1>8, <1>11

(* An entry is under its folder, and not the folder.                       *)
LEMMA EntryUnder ==
    ASSUME NEW p \in Paths, NEW n \in Names
    PROVE  Under(Append(p, n), p) /\ Append(p, n) # p
<1>1. p \in Seq(Names)
    BY PathsAreSequences
<1>2. Len(Append(p, n)) = Len(p) + 1 /\ Len(p) \in Nat
    BY <1>1
<1>3. Append(p, n) # p
    BY <1>2
<1> QED  BY <1>3, UnderAppend, UnderItself

(* A tree stays one without a file ...                                     *)
LEMMA FileGone ==
    ASSUME IsTree(kind), kind \in [Paths -> {"none", "file", "dir"}],
           NEW p \in Paths, kind[p] = "file", kind' = Unlinked(p)
    PROVE  IsTree(kind')
BY DEF IsTree, Unlinked

(* ... without an empty folder ...                                         *)
LEMMA FolderGone ==
    ASSUME IsTree(kind), kind \in [Paths -> {"none", "file", "dir"}],
           NEW p \in Paths, Children(p) = {}, kind' = Unlinked(p)
    PROVE  IsTree(kind')
<1>1. \A q \in Paths : Under(q, p) /\ q # p => kind[q] = "none"
    <2> SUFFICES ASSUME NEW q \in Paths, Under(q, p), q # p, kind[q] # "none" PROVE FALSE
        OBVIOUS
    <2>1. PICK n \in Names : Append(p, n) \in Paths /\ Under(q, Append(p, n))
        BY UnderEntry
    <2>2. kind[Append(p, n)] # "none"
        BY <2>1 DEF IsTree
    <2> QED  BY <2>1, <2>2 DEF Children
<1> QED  BY <1>1 DEF IsTree, Unlinked

(* ... and with a new folder in one that is there.                         *)
LEMMA PrefixIsPath ==
    ASSUME NEW path \in Paths, NEW j \in 1..Len(path)
    PROVE  /\ SubSeq(path, 1, j) \in Paths /\ Under(path, SubSeq(path, 1, j)) /\ Len(SubSeq(path, 1, j)) = j
           /\ \A k \in 1..j : SubSeq(SubSeq(path, 1, j), 1, k) = SubSeq(path, 1, k)
<1>1. path \in Seq(Names) /\ Len(path) \in 1..Depth /\ Depth \in Nat
    BY PathsAreSequences, FileTreeAssumption
<1> DEFINE s == SubSeq(path, 1, j)
<1>2. s \in Seq(Names) /\ Len(s) = j /\ \A i \in 1..j : s[i] = path[i]
    BY <1>1
<1>3. Len(s) \in 1..Depth
    BY <1>1, <1>2
<1>4. s \in Paths
    BY <1>2, <1>3, SequenceIsPath
<1>5. ASSUME NEW k \in 1..j PROVE SubSeq(s, 1, k) = SubSeq(path, 1, k)
    <2> DEFINE one == SubSeq(s, 1, k)
               two == SubSeq(path, 1, k)
    <2>1. one \in Seq(Names) /\ Len(one) = k /\ \A i \in 1..k : one[i] = s[i]
        BY <1>2
    <2>2. two \in Seq(Names) /\ Len(two) = k /\ \A i \in 1..k : two[i] = path[i]
        BY <1>1
    <2>3. \A i \in 1..k : one[i] = two[i]
        BY <1>2, <2>1, <2>2
    <2> HIDE DEF one, two
    <2> QED  BY <2>1, <2>2, <2>3
<1> QED  BY <1>1, <1>2, <1>4, <1>5 DEF Under

-----------------------------------------------------------------------------
(* What a step at the topmost frame leaves of the frames below it.         *)
LEMMA ChainKept ==
    ASSUME FramesOK, stack # <<>>, Chain, UNCHANGED arg,
           Len(stack') = Len(stack), stack'[1].path = stack[1].path,
           \A i \in 2..Len(stack) : stack'[i] = stack[i]
    PROVE  Chain'
<1>1. Len(stack) \in Nat \ {0}
    BY DEF FramesOK
<1>2. stack'[Len(stack')].path = arg'
    BY <1>1 DEF Chain
<1>3. ASSUME NEW i \in 1..Len(stack') - 1 PROVE Inside(stack'[i], stack'[i + 1])
    <2>1. Inside(stack[i], stack[i + 1]) /\ i + 1 \in 2..Len(stack)
        BY <1>1, <1>3 DEF Chain
    <2>2. stack'[i].path = stack[i].path /\ stack'[i + 1] = stack[i + 1]
        BY <1>1, <1>3, <2>1
    <2> QED  BY <2>1, <2>2 DEF Inside
<1> QED  BY <1>2, <1>3 DEF Chain

LEMMA MissedKept ==
    ASSUME FramesOK, stack # <<>>, NothingMissed,
           Len(stack') = Len(stack), stack'[1].path = stack[1].path,
           \A i \in 2..Len(stack) : stack'[i] = stack[i],
           \A p \in Paths : Within(kind', p) \subseteq Within(kind, p),
           \A n \in Within(kind', stack[1].path) : n \in stack'[1].unread
    PROVE  NothingMissed'
<1>1. Len(stack) \in Nat \ {0} /\ \A i \in 1..Len(stack) : stack[i] \in Frames
    BY DEF FramesOK
<1> SUFFICES ASSUME NEW i \in 1..Len(stack'), stack'[i].phase = "read",
                    NEW n \in Within(kind', stack'[i].path)
             PROVE  \/ n \in stack'[i].unread
                    \/ i > 1 /\ stack'[i - 1].path = Append(stack'[i].path, n)
    BY DEF NothingMissed, Ahead
<1>2. CASE i = 1
    BY <1>2
<1>3. CASE i # 1
    <2>1. i \in 2..Len(stack) /\ i \in 1..Len(stack) /\ i - 1 \in 1..Len(stack)
        BY <1>1, <1>3
    <2>2. stack'[i] = stack[i] /\ stack'[i - 1].path = stack[i - 1].path /\ stack[i].path \in Paths
        BY <1>1, <2>1 DEF Frames
    <2>3. n \in Within(kind, stack[i].path)
        BY <2>2
    <2>4. n \in stack[i].unread \/ (i > 1 /\ stack[i - 1].path = Append(stack[i].path, n))
        BY <2>1, <2>2, <2>3 DEF NothingMissed, Ahead
    <2> QED  BY <2>2, <2>4
<1> QED  BY <1>2, <1>3

(* A removal leaves no folder with more in it.                             *)
LEMMA FewerChildren ==
    ASSUME kind \in [Paths -> {"none", "file", "dir"}], NEW p \in Paths, kind' = Unlinked(p)
    PROVE  /\ \A q \in Paths : Within(kind', q) \subseteq Within(kind, q)
           /\ kind' \in [Paths -> {"none", "file", "dir"}] /\ kind'[p] = "none"
BY DEF Within, Unlinked

(* What a running call goes on from.                                       *)
LEMMA RunningCall ==
    ASSUME ResultInv, Running
    PROVE  /\ stack # <<>> /\ Top \in Frames /\ Top = stack[1] /\ FrameOK(arg, Top)
           /\ Len(stack) \in Nat \ {0} /\ op = "remove" /\ FramesOK
           /\ Top.path \in Paths /\ kind \in [Paths -> {"none", "file", "dir"}]
           /\ IsTree(kind) /\ Chain /\ result = "none" /\ faults \in Nat
           /\ faults = 0 => NothingMissed /\ Begun
<1>1. /\ stack # <<>> /\ Top \in Frames /\ Top = stack[1] /\ FrameOK(arg, Top)
      /\ Len(stack) \in Nat \ {0} /\ op = "remove" /\ FramesOK
    BY TopFrame DEF ResultInv
<1>2. busy /\ result = "none"
    BY DEF Running
<1>3. Calls /\ faults \in Nat /\ IsTree(kind)
    BY <1>1, <1>2 DEF ResultInv, RemoveInv, Few
<1> QED  BY <1>1, <1>2, <1>3 DEF Calls, Smooth, FramesOK, Frames

(* A step with a fault.                                                    *)
LEMMA WrongCounts == ASSUME faults \in Nat, Wrong PROVE faults' \in Nat /\ faults' # 0
BY DEF Wrong

(* A folder is opened with all its entries ahead, a file unlinked, or      *)
(* nothing there: the last without a fault in the program's own call only. *)
LEMMA EnterTells == ResultInv /\ Enter => IsTree(kind') /\ Calls' /\ faults' \in Nat /\ result' \in Results
<1> SUFFICES ASSUME ResultInv, Enter
             PROVE  IsTree(kind') /\ Calls' /\ faults' \in Nat /\ result' \in Results
    OBVIOUS
<1>0. Running /\ Top.phase = "enter" /\ UNCHANGED <<op, busy, arg, before>>
    BY DEF Enter, Same
<1>1. /\ stack # <<>> /\ Top \in Frames /\ Top = stack[1] /\ FrameOK(arg, Top)
      /\ Len(stack) \in Nat \ {0} /\ op = "remove" /\ FramesOK
      /\ Top.path \in Paths /\ kind \in [Paths -> {"none", "file", "dir"}]
      /\ IsTree(kind) /\ Chain /\ result = "none" /\ faults \in Nat
      /\ faults = 0 => NothingMissed /\ Begun
    BY <1>0, RunningCall
<1>2. CASE /\ Fine
           /\ stack' = <<[Top EXCEPT !.phase = "read", !.unread = Children(Top.path)]>> \o Tail(stack)
           /\ UNCHANGED <<kind, result>>
    <2> DEFINE frame == [Top EXCEPT !.phase = "read", !.unread = Children(Top.path)]
    <2>1. frame \in Frames /\ frame.path = Top.path /\ frame.phase = "read"
          /\ frame.unread = Children(Top.path)
        BY <1>1 DEF Frames, Children
    <2>2. stack' = <<frame>> \o Tail(stack)
        BY <1>2
    <2> HIDE DEF frame
    <2>3. FrameOK(arg, frame)
        BY <1>1, <2>1 DEF FrameOK, Children
    <2>4. /\ Len(stack') = Len(stack) /\ stack'[1] = frame
          /\ \A i \in 2..Len(stack) : stack'[i] = stack[i]
        BY <1>0, <1>1, <1>2, <2>1, <2>2, <2>3, TopExchanged
    <2>5. Chain'
        BY <1>0, <1>1, <2>1, <2>4, ChainKept
    <2>6. Within(kind', Top.path) = Children(Top.path) /\ kind' = kind
        BY <1>2 DEF Children, Within
    <2>7. faults = 0 => NothingMissed'
        BY <1>1, <2>1, <2>4, <2>6, MissedKept
    <2>8. Begun'
        BY <2>1, <2>4 DEF Begun
    <2>9. IsTree(kind') /\ result' = "none" /\ faults' = faults
        BY <1>1, <1>2 DEF Fine
    <2> QED  BY <1>1, <2>5, <2>7, <2>8, <2>9 DEF Calls, Smooth, Results
<1>3. CASE /\ kind[Top.path] = "file" /\ Fine
           /\ kind' = Unlinked(Top.path) /\ Return("ok")
           /\ UNCHANGED stack
    <2>1. IsTree(kind')
        BY <1>1, <1>3, FileGone
    <2>2. /\ \A q \in Paths : Within(kind', q) \subseteq Within(kind, q)
          /\ kind'[Top.path] = "none"
        BY <1>1, <1>3, FewerChildren
    <2>3. Chain' /\ result' = "ok" /\ faults' = faults
        BY <1>0, <1>1, <1>3 DEF Chain, Return, Fine
    <2>4. kind'[stack'[1].path] = "none"
        BY <1>1, <1>3, <2>2
    <2>5. faults = 0 => NothingMissed'
        <3> SUFFICES ASSUME faults = 0, NEW i \in 1..Len(stack), stack[i].phase = "read",
                            NEW n \in Within(kind', stack[i].path)
                     PROVE  Ahead(i, n)
            BY <1>3 DEF NothingMissed, Ahead
        <3>1. stack[i] \in Frames
            BY <1>1 DEF FramesOK
        <3>2. n \in Within(kind, stack[i].path)
            BY <2>2, <3>1 DEF Frames
        <3> QED  BY <1>1, <3>2 DEF NothingMissed
    <2>6. Begun'
        BY <2>3 DEF Begun
    <2> QED  BY <1>1, <2>1, <2>3, <2>4, <2>5, <2>6 DEF Calls, Smooth, Results
<1>4. CASE /\ \/ kind[Top.path] = "none" /\ Fine
              \/ Wrong
           /\ Return("error")
           /\ UNCHANGED <<kind, stack>>
    <2>1. Chain' /\ result' = "error" /\ IsTree(kind')
        BY <1>0, <1>1, <1>4 DEF Chain, Return
    <2>2. faults' \in Nat
        BY <1>1, <1>4, WrongCounts DEF Fine
    <2>3. ASSUME faults' = 0 PROVE Len(stack') = 1 /\ before'[arg'] = "none"
        <3>1. kind[Top.path] = "none" /\ faults = 0
            BY <1>1, <1>4, <2>3, WrongCounts DEF Fine
        <3>2. Len(stack) = 1
            BY <1>0, <1>1, <3>1 DEF Begun
        <3>3. kind = before /\ Top.path = arg
            BY <1>0, <1>1, <3>1, <3>2 DEF Begun, Chain
        <3> QED  BY <1>0, <1>4, <3>1, <3>2, <3>3
    <2> QED  BY <2>1, <2>2, <2>3 DEF Calls, Smooth, Results
<1> QED  BY <1>2, <1>3, <1>4 DEF Enter

(* The folder that has been read is removed if nothing is left in it, and  *)
(* without a fault nothing is.                                             *)
LEMMA RmdirTells == ResultInv /\ Rmdir => IsTree(kind') /\ Calls' /\ faults' \in Nat /\ result' \in Results
<1> SUFFICES ASSUME ResultInv, Rmdir
             PROVE  IsTree(kind') /\ Calls' /\ faults' \in Nat /\ result' \in Results
    OBVIOUS
<1>0. /\ Running /\ Top.phase = "read" /\ Top.unread = {}
      /\ UNCHANGED <<op, busy, arg, before, stack>>
    BY DEF Rmdir, Same
<1>1. /\ stack # <<>> /\ Top \in Frames /\ Top = stack[1] /\ FrameOK(arg, Top)
      /\ Len(stack) \in Nat \ {0} /\ op = "remove" /\ FramesOK
      /\ Top.path \in Paths /\ kind \in [Paths -> {"none", "file", "dir"}]
      /\ IsTree(kind) /\ Chain /\ result = "none" /\ faults \in Nat
      /\ faults = 0 => NothingMissed /\ Begun
    BY <1>0, RunningCall
<1>2. Chain'
    BY <1>0, <1>1 DEF Chain
<1>3. CASE Children(Top.path) = {} /\ Fine /\ kind' = Unlinked(Top.path) /\ Return("ok")
    <2>1. IsTree(kind')
        BY <1>1, <1>3, FolderGone
    <2>2. /\ \A q \in Paths : Within(kind', q) \subseteq Within(kind, q)
          /\ kind'[Top.path] = "none"
        BY <1>1, <1>3, FewerChildren
    <2>3. result' = "ok" /\ faults' = faults
        BY <1>3 DEF Return, Fine
    <2>4. kind'[stack'[1].path] = "none"
        BY <1>0, <1>1, <2>2
    <2>5. Within(kind', stack[1].path) = {}
        BY <1>1, <1>3, <2>2 DEF Children, Within
    <2>6. faults = 0 => NothingMissed'
        BY <1>0, <1>1, <2>2, <2>5, MissedKept
    <2>7. Begun'
        BY <2>3 DEF Begun
    <2> QED  BY <1>1, <1>2, <2>1, <2>3, <2>4, <2>6, <2>7 DEF Calls, Smooth, Results
<1>4. CASE /\ \/ Children(Top.path) # {} /\ Fine
              \/ Wrong
           /\ Return("error") /\ UNCHANGED kind
    <2>1. result' = "error" /\ IsTree(kind')
        BY <1>1, <1>4 DEF Return
    <2>2. faults' \in Nat
        BY <1>1, <1>4, WrongCounts DEF Fine
    <2>3. faults' # 0
        <3> SUFFICES ASSUME faults' = 0 PROVE FALSE
            OBVIOUS
        <3>1. Children(Top.path) # {} /\ faults = 0
            BY <1>1, <1>4, WrongCounts DEF Fine
        <3>2. PICK n \in Within(kind, stack[1].path) : TRUE
            BY <1>1, <3>1 DEF Children, Within
        <3>3. Ahead(1, n)
            BY <1>0, <1>1, <3>1, <3>2 DEF NothingMissed
        <3> QED  BY <1>0, <1>1, <3>3 DEF Ahead
    <2> QED  BY <1>2, <2>1, <2>2, <2>3 DEF Calls, Results
<1> QED  BY <1>3, <1>4 DEF Rmdir

(* An entry is removed, or a call begun for it; an error is a fault.       *)
LEMMA ReadTells == ResultInv /\ Read => IsTree(kind') /\ Calls' /\ faults' \in Nat /\ result' \in Results
<1> SUFFICES ASSUME ResultInv, Read
             PROVE  IsTree(kind') /\ Calls' /\ faults' \in Nat /\ result' \in Results
    OBVIOUS
<1>0. Running /\ Top.phase = "read" /\ UNCHANGED <<op, busy, arg, before>>
    BY DEF Read, Same
<1>1. /\ stack # <<>> /\ Top \in Frames /\ Top = stack[1] /\ FrameOK(arg, Top)
      /\ Len(stack) \in Nat \ {0} /\ op = "remove" /\ FramesOK
      /\ Top.path \in Paths /\ kind \in [Paths -> {"none", "file", "dir"}]
      /\ IsTree(kind) /\ Chain /\ result = "none" /\ faults \in Nat
      /\ faults = 0 => NothingMissed /\ Begun
    BY <1>0, RunningCall
<1>3. ASSUME NEW n \in Top.unread, kind[Append(Top.path, n)] = "dir", Fine,
             stack' = <<Call(Append(Top.path, n))>> \o
                        (<<[Top EXCEPT !.unread = @ \ {n}]>> \o Tail(stack)),
             UNCHANGED <<kind, result>>
      PROVE  IsTree(kind') /\ Calls' /\ faults' \in Nat /\ result' \in Results
    <2> DEFINE frame == [Top EXCEPT !.unread = @ \ {n}]
               s == <<frame>> \o Tail(stack)
               call == Call(Append(Top.path, n))
    <2>0. frame \in Frames /\ frame.path = Top.path /\ frame.phase = "read"
          /\ frame.unread = Top.unread \ {n}
        BY <1>0, <1>1 DEF Frames
    <2> HIDE DEF frame
    <2>1. /\ s \in Seq(Frames) /\ Len(s) = Len(stack) /\ s # <<>>
          /\ s[1].path = Top.path /\ s[1].phase = "read" /\ s[1].unread = Top.unread \ {n}
          /\ \A i \in 2..Len(stack) : s[i] = stack[i]
        BY <1>1, <2>0, TopReplaced DEF FramesOK
    <2>2. n \in Names /\ Append(Top.path, n) \in Paths
        BY <1>1, <1>3 DEF Frames, FrameOK
    <2>3. call \in Frames /\ call.path = Append(Top.path, n) /\ call.phase = "enter"
        BY <2>2 DEF Call, Frames
    <2>4. stack' = <<call>> \o s
        BY <1>3 DEF frame
    <2> HIDE DEF s, call
    <2>5. /\ Len(stack') = Len(stack) + 1 /\ stack'[1] = call
          /\ \A i \in 1..Len(stack) : stack'[i + 1] = s[i]
        BY <2>1, <2>3, <2>4, TopCovered
    <2>6. \A i \in 1..Len(stack) : s[i].path = stack[i].path /\ s[i].phase = stack[i].phase
        <3> TAKE i \in 1..Len(stack)
        <3>1. i = 1 \/ i \in 2..Len(stack)
            BY <1>1
        <3> QED  BY <1>0, <1>1, <2>1, <3>1
    <2>7. Chain'
        <3>1. stack'[Len(stack')].path = arg'
            <4>1. Len(stack) \in 1..Len(stack)
                BY <1>1
            <4> QED  BY <1>0, <1>1, <2>5, <2>6, <4>1 DEF Chain
        <3>2. ASSUME NEW i \in 1..Len(stack') - 1 PROVE Inside(stack'[i], stack'[i + 1])
            <4>1. CASE i = 1
                <5>1. stack'[2] = s[1] /\ stack'[1] = call
                    BY <1>1, <2>5
                <5> QED  BY <2>1, <2>2, <2>3, <4>1, <5>1 DEF Inside
            <4>2. CASE i # 1
                <5>1. i - 1 \in 1..Len(stack) - 1 /\ i - 1 \in 1..Len(stack) /\ i \in 1..Len(stack)
                      /\ (i - 1) + 1 = i
                    BY <1>1, <2>5, <3>2, <4>2
                <5>2. stack'[(i - 1) + 1] = s[i - 1] /\ stack'[i + 1] = s[i]
                    BY <2>5, <5>1
                <5>3. Inside(stack[i - 1], stack[(i - 1) + 1])
                    BY <1>1, <5>1 DEF Chain
                <5>4. Inside(stack[i - 1], stack[i])
                    BY <5>1, <5>3
                <5>5. /\ s[i].phase = stack[i].phase /\ s[i].path = stack[i].path
                      /\ s[i - 1].path = stack[i - 1].path
                    BY <2>6, <5>1
                <5>6. stack'[i] = s[i - 1]
                    BY <5>1, <5>2
                <5> QED  BY <5>2, <5>4, <5>5, <5>6 DEF Inside
            <4> QED  BY <4>1, <4>2
        <3> QED  BY <3>1, <3>2 DEF Chain
    <2>8. faults = 0 => NothingMissed'
        <3> SUFFICES ASSUME faults = 0, NEW i \in 1..Len(stack'), stack'[i].phase = "read",
                            NEW m \in Within(kind, stack'[i].path)
                     PROVE  \/ m \in stack'[i].unread
                            \/ i > 1 /\ stack'[i - 1].path = Append(stack'[i].path, m)
            BY <1>3 DEF NothingMissed, Ahead
        <3>1. i # 1
            BY <2>3, <2>5
        <3>2. i - 1 \in 1..Len(stack) /\ (i - 1) + 1 = i
            BY <1>1, <2>5, <3>1
        <3>3. stack'[i] = s[i - 1]
            BY <2>5, <3>2
        <3>4. stack[i - 1].phase = "read" /\ m \in Within(kind, stack[i - 1].path)
            BY <2>6, <3>2, <3>3
        <3>5. Ahead(i - 1, m)
            BY <1>1, <3>2, <3>4 DEF NothingMissed
        <3>6. CASE i = 2
            <4>1. m \in Top.unread
                BY <1>1, <3>5, <3>6 DEF Ahead
            <4> QED  BY <2>1, <2>3, <2>5, <3>3, <3>6, <4>1
        <3>7. CASE i # 2
            <4>1. i - 1 \in 2..Len(stack) /\ i - 2 \in 1..Len(stack) /\ (i - 2) + 1 = i - 1
                BY <1>1, <3>1, <3>2, <3>7
            <4>2. stack'[i] = stack[i - 1] /\ stack'[i - 1].path = stack[i - 2].path
                <5>1. stack'[(i - 2) + 1] = s[i - 2] /\ s[i - 2].path = stack[i - 2].path
                    BY <2>5, <2>6, <4>1
                <5> QED  BY <2>1, <3>3, <4>1, <5>1
            <4>3. m \in stack[i - 1].unread \/ stack[(i - 1) - 1].path = Append(stack[i - 1].path, m)
                BY <3>5 DEF Ahead
            <4>4. (i - 1) - 1 = i - 2 /\ i > 1
                BY <1>1, <4>1
            <4> QED  BY <4>2, <4>3, <4>4
        <3> QED  BY <3>6, <3>7
    <2>9. Begun'
        <3>1. Len(stack') # 1
            BY <1>1, <2>5
        <3>2. stack'[1].path = Append(Top.path, n)
            BY <2>3, <2>5
        <3>3. kind'[stack'[1].path] = "dir"
            BY <1>3, <3>2
        <3> QED  BY <3>1, <3>3 DEF Begun
    <2>10. IsTree(kind') /\ result' = "none" /\ faults' = faults
        BY <1>1, <1>3 DEF Fine
    <2> QED  BY <1>1, <2>7, <2>8, <2>9, <2>10 DEF Calls, Smooth, Results
<1>4. ASSUME NEW n \in Top.unread, kind[Append(Top.path, n)] = "file", Fine,
             kind' = Unlinked(Append(Top.path, n)),
             stack' = <<[Top EXCEPT !.unread = @ \ {n}]>> \o Tail(stack), UNCHANGED result
      PROVE  IsTree(kind') /\ Calls' /\ faults' \in Nat /\ result' \in Results
    <2>1. n \in Names /\ Append(Top.path, n) \in Paths
        BY <1>1, <1>4 DEF Frames, FrameOK
    <2> DEFINE frame == [Top EXCEPT !.unread = @ \ {n}]
    <2>0. frame \in Frames /\ frame.path = Top.path /\ frame.phase = "read"
          /\ frame.unread = Top.unread \ {n}
        BY <1>0, <1>1 DEF Frames
    <2>2. stack' = <<frame>> \o Tail(stack)
        BY <1>4
    <2> HIDE DEF frame
    <2>3. /\ Len(stack') = Len(stack)
          /\ stack'[1].path = Top.path /\ stack'[1].phase = "read" /\ stack'[1].unread = Top.unread \ {n}
          /\ \A i \in 2..Len(stack) : stack'[i] = stack[i]
        BY <1>1, <2>0, <2>2, TopReplaced DEF FramesOK
    <2>4. Chain'
        BY <1>0, <1>1, <2>3, ChainKept
    <2>5. IsTree(kind')
        BY <1>1, <1>4, <2>1, FileGone
    <2>6. /\ \A q \in Paths : Within(kind', q) \subseteq Within(kind, q)
          /\ kind'[Append(Top.path, n)] = "none"
        BY <1>1, <1>4, <2>1, FewerChildren
    <2>7. faults = 0 => NothingMissed'
        <3> SUFFICES ASSUME faults = 0 PROVE NothingMissed'
            OBVIOUS
        <3>1. ASSUME NEW m \in Within(kind', stack[1].path) PROVE m \in stack'[1].unread
            <4>1. m \in Within(kind, stack[1].path) /\ m # n
                BY <1>1, <2>6, <3>1 DEF Within
            <4>2. 1 \in 1..Len(stack)
                BY <1>1
            <4>3. Ahead(1, m)
                BY <1>0, <1>1, <4>1, <4>2 DEF NothingMissed
            <4> QED  BY <1>1, <2>3, <4>1, <4>3 DEF Ahead
        <3> QED  BY <1>1, <2>3, <2>6, <3>1, MissedKept
    <2>8. Begun'
        BY <2>3 DEF Begun
    <2>9. result' = "none" /\ faults' = faults
        BY <1>1, <1>4 DEF Fine
    <2> QED  BY <1>1, <2>4, <2>5, <2>7, <2>8, <2>9 DEF Calls, Smooth, Results
<1>5. ASSUME Wrong, Return("error"), UNCHANGED <<kind, stack>>
      PROVE  IsTree(kind') /\ Calls' /\ faults' \in Nat /\ result' \in Results
    <2>1. faults' \in Nat /\ faults' # 0
        BY <1>1, <1>5, WrongCounts
    <2>2. Chain' /\ result' = "error" /\ IsTree(kind')
        BY <1>0, <1>1, <1>5 DEF Chain, Return
    <2> QED  BY <2>1, <2>2 DEF Calls, Results
<1>6. ASSUME Wrong, stack' = <<[Top EXCEPT !.unread = {}]>> \o Tail(stack), UNCHANGED <<kind, result>>
      PROVE  IsTree(kind') /\ Calls' /\ faults' \in Nat /\ result' \in Results
    <2>1. faults' \in Nat /\ faults' # 0
        BY <1>1, <1>6, WrongCounts
    <2> DEFINE frame == [Top EXCEPT !.unread = {}]
    <2>0. frame \in Frames /\ frame.path = Top.path /\ stack' = <<frame>> \o Tail(stack)
        BY <1>1, <1>6 DEF Frames
    <2> HIDE DEF frame
    <2>2. /\ Len(stack') = Len(stack) /\ stack'[1].path = Top.path
          /\ \A i \in 2..Len(stack) : stack'[i] = stack[i]
        BY <1>1, <2>0, TopReplaced DEF FramesOK
    <2>3. Chain'
        BY <1>0, <1>1, <2>2, ChainKept
    <2>4. result' = "none" /\ IsTree(kind')
        BY <1>1, <1>6
    <2> QED  BY <2>1, <2>3, <2>4 DEF Calls, Results
<1>7. CASE \E n \in Top.unread :
             LET path == Append(Top.path, n)
                 rest == <<[Top EXCEPT !.unread = @ \ {n}]>> \o Tail(stack)
             IN  \/ /\ kind[path] = "dir" /\ Fine
                    /\ stack' = <<Call(path)>> \o rest /\ UNCHANGED <<kind, result>>
                 \/ /\ kind[path] = "file" /\ Fine
                    /\ kind' = Unlinked(path) /\ stack' = rest /\ UNCHANGED result
                 \/ Wrong /\ Return("error") /\ UNCHANGED <<kind, stack>>
    BY <1>3, <1>4, <1>5, <1>7
<1> QED  BY <1>6, <1>7 DEF Read

(* A call has returned: into the frame below, whose entry is gone then, or *)
(* to the program, with the result of the program's own call.              *)
LEMMA ReturnedTells == ResultInv /\ Returned => RemoveInv'
<1> SUFFICES ASSUME ResultInv, Returned PROVE RemoveInv'
    OBVIOUS
<1>0. /\ busy /\ op = "remove" /\ result # "none" /\ stack' = Tail(stack)
      /\ UNCHANGED <<kind, op, arg, level, faults, before>> /\ level = 1
    BY DEF Returned, ResultInv, RemoveInv
<1>1. /\ stack # <<>> /\ stack \in Seq(Frames) /\ FramesOK /\ Calls /\ faults \in Nat
      /\ result \in {"ok", "error"}
    BY <1>0 DEF ResultInv, StackInv, FramesOK, RemoveInv, Few, Results
<1>2. /\ stack' \in Seq(Frames) /\ Len(stack') = Len(stack) - 1 /\ Len(stack) \in Nat \ {0}
      /\ \A i \in 1..Len(stack') : stack'[i] = stack[i + 1]
    BY <1>0, <1>1, TopGone
<1>3. CASE Len(stack) = 1
    <2>1. busy' = FALSE /\ result' = result
        BY <1>3 DEF Returned
    <2>2. stack[1].path = arg
        BY <1>1, <1>3 DEF Calls, Chain
    <2>3. result = "ok" => kind[arg] = "none"
        BY <1>1, <2>2 DEF Calls
    <2>4. result = "error" /\ faults = 0 => before[arg] = "none"
        BY <1>1 DEF Calls, Smooth
    <2>5. ~ busy'
        BY <2>1, Zenon
    <2> QED  BY <1>0, <1>1, <2>1, <2>3, <2>4, <2>5 DEF RemoveInv
<1>4. CASE Len(stack) # 1
    <2>1. busy' = busy
        BY <1>4 DEF Returned
    <2>2. Len(stack') \in 1..Len(stack')
        BY <1>2, <1>4
    <2>3. Chain'
        <3>1. stack'[Len(stack')].path = arg'
            BY <1>0, <1>1, <1>2, <2>2 DEF Calls, Chain
        <3>2. ASSUME NEW i \in 1..Len(stack') - 1 PROVE Inside(stack'[i], stack'[i + 1])
            <4>1. i \in 1..Len(stack') /\ i + 1 \in 1..Len(stack') /\ i + 1 \in 1..Len(stack) - 1
                BY <1>2, <3>2
            <4>2. stack'[i] = stack[i + 1] /\ stack'[i + 1] = stack[(i + 1) + 1]
                BY <1>2, <4>1
            <4> QED  BY <1>1, <4>1, <4>2 DEF Calls, Chain
        <3> QED  BY <3>1, <3>2 DEF Chain
    <2>4. CASE result = "error"
        <3>1. faults' # 0
            BY <1>0, <1>1, <1>4, <2>4 DEF Calls, Smooth
        <3>2. result' = "error"
            BY <1>4, <2>4 DEF Returned
        <3>3. Calls'
            BY <2>3, <3>1, <3>2 DEF Calls
        <3> QED  BY <1>0, <2>1, <3>3 DEF RemoveInv
    <2>5. CASE result = "ok"
        <3>1. result' = "none"
            BY <1>4, <2>5 DEF Returned
        <3>2. Inside(stack[1], stack[2]) /\ stack'[1] = stack[2]
            <4>1. 1 \in 1..Len(stack) - 1 /\ 1 \in 1..Len(stack') /\ 1 + 1 = 2
                BY <1>2, <1>4
            <4> QED  BY <1>1, <1>2, <4>1 DEF Calls, Chain
        <3>3. Begun'
            BY <3>2 DEF Begun, Inside
        <3>4. faults = 0 => NothingMissed'
            <4> SUFFICES ASSUME faults = 0, NEW i \in 1..Len(stack'), stack'[i].phase = "read",
                                NEW n \in Within(kind, stack'[i].path)
                         PROVE  \/ n \in stack'[i].unread
                                \/ i > 1 /\ stack'[i - 1].path = Append(stack'[i].path, n)
                BY <1>0 DEF NothingMissed, Ahead
            <4>1. i + 1 \in 1..Len(stack) /\ stack'[i] = stack[i + 1] /\ (i + 1) - 1 = i /\ i \in Nat
                BY <1>2
            <4>2. Ahead(i + 1, n)
                BY <1>1, <2>5, <4>1 DEF Calls, Smooth, NothingMissed
            <4>3. n \in stack'[i].unread \/ stack[i].path = Append(stack'[i].path, n)
                BY <4>1, <4>2 DEF Ahead
            <4>4. CASE i = 1
                <5>1. kind[stack[1].path] = "none"
                    BY <1>1, <2>5 DEF Calls
                <5> QED  BY <4>3, <4>4, <5>1 DEF Within
            <4>5. CASE i # 1
                <5>1. i - 1 \in 1..Len(stack') /\ (i - 1) + 1 = i /\ i > 1
                    BY <1>2, <4>1, <4>5
                <5>2. stack'[i - 1] = stack[i]
                    BY <1>2, <5>1
                <5> QED  BY <4>3, <5>1, <5>2
            <4> QED  BY <4>4, <4>5
        <3>5. Calls'
            BY <1>0, <2>3, <3>1, <3>3, <3>4 DEF Calls, Smooth
        <3> QED  BY <1>0, <2>1, <3>5 DEF RemoveInv
    <2> QED  BY <1>1, <2>4, <2>5
<1> QED  BY <1>3, <1>4

(* The program's call finds the card as it was.                            *)
LEMMA RemoveTells == ResultInv /\ Remove => RemoveInv'
<1> SUFFICES ASSUME ResultInv, Remove PROVE RemoveInv'
    OBVIOUS
<1>1. /\ ~ busy /\ result = "none" /\ busy' = TRUE /\ op' = "remove" /\ stack' = <<Call(arg)>>
      /\ UNCHANGED <<kind, arg, level, result, faults, before>>
    BY DEF Remove
<1>2. op = "remove" /\ kind = before /\ level = 1
    BY <1>1 DEF ResultInv, Few, RemoveInv, MakeInv
<1>3. Len(stack') = 1 /\ stack'[1].path = arg /\ stack'[1].phase = "enter"
    BY <1>1 DEF Call
<1>4. Chain'
    BY <1>1, <1>3 DEF Chain
<1>5. NothingMissed'
    BY <1>3 DEF NothingMissed
<1>6. Begun'
    BY <1>1, <1>2, <1>3 DEF Begun
<1>7. Calls'
    BY <1>1, <1>4, <1>5, <1>6 DEF Calls, Smooth
<1>8. busy'
    BY <1>1, Zenon
<1> QED  BY <1>1, <1>2, <1>7, <1>8 DEF RemoveInv

(* makePath comes to a prefix with a folder above it, or a file in the way.*)
LEMMA MkdirTells == ResultInv /\ Mkdir => IsTree(kind') /\ MakeInv' /\ faults' \in Nat
<1> SUFFICES ASSUME ResultInv, Mkdir PROVE IsTree(kind') /\ MakeInv' /\ faults' \in Nat
    OBVIOUS
<1>0. /\ busy /\ op = "make" /\ level <= Len(arg) /\ level' = level + 1
      /\ UNCHANGED <<op, busy, arg, before, result>>
    BY DEF Mkdir
<1>1. /\ arg \in Paths /\ kind \in [Paths -> {"none", "file", "dir"}] /\ IsTree(kind)
      /\ faults \in Nat
      /\ level \in 1..Len(arg) + 1 /\ \A p \in Paths : kind[p] = "file" => before[p] = "file"
      /\ faults = 0 => InTheWay \/ \A j \in 1..level - 1 : kind[SubSeq(arg, 1, j)] = "dir"
    BY <1>0 DEF ResultInv, StackInv, FramesOK, Few, MakeInv
<1>2. level \in 1..Len(arg) /\ Len(arg) \in Nat
    BY <1>0, <1>1, PathsAreSequences
<1> DEFINE path == SubSeq(arg, 1, level)
<1>3. /\ path \in Paths /\ Under(arg, path) /\ Len(path) = level
      /\ \A k \in 1..level : SubSeq(path, 1, k) = SubSeq(arg, 1, k)
    BY <1>1, <1>2, PrefixIsPath
<1>4. level > 1 => /\ Parent(path) = SubSeq(arg, 1, level - 1) /\ Parent(path) \in Paths
                   /\ Under(arg, Parent(path))
    <2>1. level > 1 => level - 1 \in 1..level /\ level - 1 \in 1..Len(arg)
        BY <1>2
    <2> QED  BY <1>1, <1>3, <2>1, PrefixIsPath DEF Parent
<1> HIDE DEF path
<1>5. /\ IsTree(kind') /\ \A p \in Paths : kind'[p] = "file" => kind[p] = "file"
      /\ \A p \in Paths : kind[p] = "dir" => kind'[p] = "dir"
    <2>1. CASE kind' = kind
        BY <1>1, <2>1
    <2>2. CASE kind' # kind
        <3>1. /\ kind[path] = "none" /\ (level > 1 => kind[Parent(path)] = "dir")
              /\ kind' = [kind EXCEPT ![path] = "dir"]
            BY <2>2 DEF Mkdir, Made, path
        <3>2. \A p \in Paths : Under(path, p) /\ p # path => kind[p] = "dir"
            <4> SUFFICES ASSUME NEW p \in Paths, Under(path, p), p # path PROVE kind[p] = "dir"
                OBVIOUS
            <4>1. p \in Seq(Names) /\ Len(p) \in Nat \ {0} /\ path \in Seq(Names)
                BY <1>3, PathsAreSequences
            <4>2. Len(p) < level /\ SubSeq(path, 1, Len(p)) = p
                <5>1. Len(p) <= level /\ SubSeq(path, 1, Len(p)) = p
                    BY <1>3 DEF Under
                <5>2. Len(p) # level
                    <6>1. SubSeq(path, 1, Len(path)) = path
                        BY <4>1
                    <6>2. Len(path) = level
                        BY <1>3
                    <6> QED  BY <5>1, <6>1, <6>2
                <5>3. level \in Nat
                    BY <1>2
                <5>4. Len(p) \in Nat /\ Len(p) <= level
                    BY <4>1, <5>1
                <5>5. Len(p) < level
                    BY <5>2, <5>3, <5>4
                <5> QED  BY <5>1, <5>5, Zenon
            <4>3. level > 1 /\ level - 1 \in 1..Len(path) /\ Len(p) \in 1..level - 1
                BY <1>2, <1>3, <4>1, <4>2
            <4>4. /\ Len(SubSeq(path, 1, level - 1)) = level - 1
                  /\ \A k \in 1..level - 1 : SubSeq(SubSeq(path, 1, level - 1), 1, k) = SubSeq(path, 1, k)
                BY <1>3, <4>3, PrefixIsPath
            <4>5. Parent(path) = SubSeq(path, 1, level - 1)
                BY <1>3 DEF Parent
            <4>6. Under(Parent(path), p)
                BY <1>2, <4>1, <4>2, <4>3, <4>4, <4>5 DEF Under
            <4>7. kind[Parent(path)] = "dir" /\ Parent(path) \in Paths
                BY <1>4, <3>1, <4>3
            <4>8. CASE p = Parent(path)
                BY <4>7, <4>8
            <4>9. CASE p # Parent(path)
                BY <1>1, <4>6, <4>7, <4>9 DEF IsTree
            <4> QED  BY <4>8, <4>9
        <3>3. IsTree(kind')
            BY <1>1, <1>3, <3>1, <3>2 DEF IsTree
        <3> QED  BY <1>1, <1>3, <3>1, <3>3
    <2> QED  BY <2>1, <2>2
<1>6. faults' \in Nat
    BY <1>1, WrongCounts DEF Mkdir, Fine
<1>7. ASSUME faults' = 0, ~ InTheWay PROVE \A j \in 1..level' - 1 : kind'[SubSeq(arg, 1, j)] = "dir"
    <2>1. kind' = Made /\ faults = 0
        BY <1>1, <1>7, WrongCounts DEF Mkdir, Fine
    <2>2. \A j \in 1..level - 1 : kind[SubSeq(arg, 1, j)] = "dir"
        BY <1>1, <1>7, <2>1
    <2>3. kind[path] # "file"
        BY <1>1, <1>3, <1>7 DEF InTheWay
    <2>4. level > 1 => kind[Parent(path)] = "dir"
        <3>1. level > 1 => level - 1 \in 1..level - 1
            BY <1>2
        <3> QED  BY <1>4, <2>2, <3>1
    <2>5. kind'[path] = "dir"
        BY <1>1, <1>3, <2>1, <2>3, <2>4 DEF Made, path
    <2>6. ASSUME NEW j \in 1..level' - 1 PROVE kind'[SubSeq(arg, 1, j)] = "dir"
        <3>1. j = level \/ j \in 1..level - 1
            BY <1>0, <1>2
        <3>2. CASE j = level
            BY <2>5, <3>2 DEF path
        <3>3. CASE j \in 1..level - 1
            <4>1. j \in 1..Len(arg)
                BY <1>2, <3>3
            <4>2. SubSeq(arg, 1, j) \in Paths
                BY <1>1, <4>1, PrefixIsPath
            <4> QED  BY <1>5, <2>2, <3>3, <4>2
        <3> QED  BY <3>1, <3>2, <3>3
    <2> QED  BY <2>6
<1>8. InTheWay' = InTheWay
    BY <1>0 DEF InTheWay
<1>9. level' \in 1..Len(arg') + 1
    BY <1>0, <1>2
<1>10. \A p \in Paths : kind'[p] = "file" => before'[p] = "file"
    BY <1>0, <1>1, <1>5
<1>11. faults' = 0 => InTheWay' \/ \A j \in 1..level' - 1 : kind'[SubSeq(arg', 1, j)] = "dir"
    BY <1>0, <1>7, <1>8
<1> QED  BY <1>0, <1>5, <1>6, <1>9, <1>10, <1>11 DEF MakeInv

(* What is opened in the end is the argument.                              *)
LEMMA TestTells == ResultInv /\ Test => MakeInv' /\ faults' \in Nat /\ result' \in Results
<1> SUFFICES ASSUME ResultInv, Test PROVE MakeInv' /\ faults' \in Nat /\ result' \in Results
    OBVIOUS
<1>0. /\ op = "make" /\ level > Len(arg) /\ UNCHANGED <<kind, op, arg, level, before>>
    BY DEF Test
<1>1. /\ arg \in Paths /\ faults \in Nat
      /\ level \in 1..Len(arg) + 1 /\ \A p \in Paths : kind[p] = "file" => before[p] = "file"
      /\ faults = 0 => InTheWay \/ \A j \in 1..level - 1 : kind[SubSeq(arg, 1, j)] = "dir"
    BY <1>0 DEF ResultInv, StackInv, FramesOK, Few, MakeInv
<1>2. faults' \in Nat /\ result' \in {"ok", "error"}
    BY <1>1, WrongCounts DEF Test, Fine, Return
<1>3. result' = "ok" => kind'[arg'] = "dir"
    BY <1>0 DEF Test, Return
<1>4. ASSUME result' = "error", faults' = 0, ~ InTheWay PROVE FALSE
    <2>1. kind[arg] # "dir" /\ faults = 0
        BY <1>1, <1>4, WrongCounts DEF Test, Fine, Return
    <2>2. arg \in Seq(Names) /\ Len(arg) \in Nat \ {0}
        BY <1>1, PathsAreSequences
    <2>3. Len(arg) \in 1..level - 1 /\ SubSeq(arg, 1, Len(arg)) = arg
        BY <1>0, <1>1, <2>2
    <2> QED  BY <1>1, <1>4, <2>1, <2>3
<1>5. InTheWay' = InTheWay
    BY <1>0 DEF InTheWay
<1>6. faults' = 0 => faults = 0
    BY <1>1, WrongCounts DEF Test, Fine
<1> QED  BY <1>0, <1>1, <1>2, <1>3, <1>4, <1>5, <1>6 DEF MakeInv, Results

(* All of it holds before the call ...                                     *)
LEMMA InitTells == Init => ResultInv
<1> SUFFICES ASSUME Init PROVE ResultInv
    OBVIOUS
<1>1. StackInv
    BY InitStackInv
<1>2. /\ kind = before /\ IsTree(kind) /\ level = 1 /\ op = "remove" /\ busy = FALSE /\ result = "none" /\ faults = 0
    BY FileTreeAssumption DEF Init
<1>3. ~ busy
    BY <1>2, Zenon
<1>4. RemoveInv
    BY <1>2, <1>3 DEF RemoveInv
<1>5. MakeInv /\ Few
    BY <1>2 DEF MakeInv, Few, Results
<1> QED  BY <1>1, <1>2, <1>4, <1>5 DEF ResultInv

(* ... and after every step.                                               *)
LEMMA ResultInductive == ResultInv /\ [Next]_vars => ResultInv'
<1> SUFFICES ASSUME ResultInv, [Next]_vars PROVE ResultInv'
    OBVIOUS
<1>0. /\ StackInv /\ StackInv' /\ IsTree(kind) /\ RemoveInv /\ MakeInv
      /\ faults \in Nat /\ result \in Results /\ op \in {"remove", "make"}
    BY StackInductive DEF ResultInv, Few
<1>1. CASE Remove
    <2>1. RemoveInv'
        BY <1>1, RemoveTells
    <2>2. UNCHANGED <<kind, faults, result>> /\ op' = "remove"
        BY <1>1 DEF Remove
    <2> QED  BY <1>0, <2>1, <2>2 DEF ResultInv, Few, MakeInv
<1>2. CASE Make
    <2>1. /\ ~ busy /\ result = "none" /\ busy' = TRUE /\ op' = "make"
          /\ UNCHANGED <<kind, arg, level, result, faults, before>>
        BY <1>2 DEF Make
    <2>2. kind = before /\ op = "remove"
        BY <1>0, <2>1 DEF RemoveInv, MakeInv
    <2>3. busy'
        BY <2>1, Zenon
    <2>4. level = 1 /\ Len(arg) \in Nat
        BY <1>0, <2>1, <2>2, PathsAreSequences DEF StackInv, FramesOK, RemoveInv
    <2>5. MakeInv'
        BY <2>1, <2>2, <2>3, <2>4 DEF MakeInv
    <2>6. RemoveInv'
        BY <2>1 DEF RemoveInv
    <2> QED  BY <1>0, <2>1, <2>5, <2>6 DEF ResultInv, Few
<1>3. CASE Enter \/ Read \/ Rmdir
    <2>1. IsTree(kind') /\ Calls' /\ faults' \in Nat /\ result' \in Results
        BY <1>3, EnterTells, ReadTells, RmdirTells
    <2>2. op' = "remove" /\ op = "remove" /\ busy' = busy /\ busy /\ level' = level
        BY <1>3 DEF Enter, Read, Rmdir, Running, Same
    <2>3. RemoveInv'
        BY <1>0, <2>1, <2>2 DEF RemoveInv
    <2>4. MakeInv'
        BY <2>2 DEF MakeInv
    <2> QED  BY <1>0, <2>1, <2>2, <2>3, <2>4 DEF ResultInv, Few
<1>4. CASE Returned
    <2>1. RemoveInv'
        BY <1>4, ReturnedTells
    <2>2. UNCHANGED <<kind, faults>> /\ op' = "remove" /\ result' \in {"none", result}
        BY <1>4 DEF Returned
    <2> QED  BY <1>0, <2>1, <2>2 DEF ResultInv, Few, MakeInv, Results
<1>5. CASE Mkdir
    <2>1. IsTree(kind') /\ MakeInv' /\ faults' \in Nat
        BY <1>5, MkdirTells
    <2>2. op' = "make" /\ result' = result
        BY <1>5 DEF Mkdir
    <2> QED  BY <1>0, <2>1, <2>2 DEF ResultInv, Few, RemoveInv
<1>6. CASE Test
    <2>1. MakeInv' /\ faults' \in Nat /\ result' \in Results
        BY <1>6, TestTells
    <2>2. op' = "make" /\ kind' = kind
        BY <1>6 DEF Test
    <2> QED  BY <1>0, <2>1, <2>2 DEF ResultInv, Few, RemoveInv
<1>7. CASE UNCHANGED vars
    BY <1>0, <1>7 DEF vars, ResultInv, Few, RemoveInv, MakeInv, Calls, Chain, Smooth, NothingMissed,
        Begun, Ahead, InTheWay
<1> QED  BY <1>1, <1>2, <1>3, <1>4, <1>5, <1>6, <1>7 DEF Next, Step

(* However deep the tree and wherever an error ends the recursion, the     *)
(* result of removePath and of makePath tells what was done: success that  *)
(* nothing is left of the path, or that the folder is there, and failure   *)
(* without an I/O error that there was nothing to remove, or a file in the *)
(* way (file.c:197-272).                                                   *)
THEOREM ResultTells == Spec => []ResultIsTrue
<1>1. Init => ResultInv
    BY InitTells
<1>2. ResultInv /\ [Next]_vars => ResultInv'
    BY ResultInductive
<1>3. ResultInv => ResultIsTrue
    <2> SUFFICES ASSUME ResultInv, ~ busy PROVE ResultIsTrue
        BY DEF ResultIsTrue, SuccessIsTrue, FailsForACause
    <2>1. RemoveInv /\ MakeInv /\ IsTree(kind) /\ op \in {"remove", "make"} /\ arg \in Paths
        BY DEF ResultInv, Few, StackInv, FramesOK
    <2>2. result = "ok" /\ op = "remove" => \A p \in Paths : Under(p, arg) => kind[p] = "none"
        BY <2>1 DEF RemoveInv, IsTree
    <2>3. result = "ok" /\ op = "make" => kind[arg] = "dir"
        BY <2>1 DEF MakeInv
    <2>4. result = "error" /\ faults = 0 =>
            IF op = "remove" THEN before[arg] = "none"
            ELSE \E p \in Paths : Under(arg, p) /\ before[p] = "file"
        BY <2>1 DEF RemoveInv, MakeInv, InTheWay
    <2> QED  BY <2>1, <2>2, <2>3, <2>4 DEF ResultIsTrue, SuccessIsTrue, FailsForACause
<1> QED  BY <1>1, <1>2, <1>3, PTL DEF Spec

=============================================================================
