----------------------------- MODULE RewriteProofs -----------------------------
(***************************************************************************)
(* Theorems about the two files that are rewritten through a temporary     *)
(* one: config.txt (ConfigText), for any files and any number of calls,    *)
(* and id.dat (IdDat), for any rows, any texts and any number of faults.   *)
(***************************************************************************)
EXTENDS ConfigText, IdDat, FiniteSetTheorems, SequenceTheorems, TLAPS

-----------------------------------------------------------------------------
(* config.txt: the foreign lines.                                          *)

(* Of no lines, none is foreign.                                           *)
LEMMA KeptFromStart ==
    ASSUME NEW lines \in Seq(Seq(Word))
    PROVE  KeptIn(lines, 0, <<>>)
<1> DEFINE to == [i \in {} |-> 1]
<1>1. ForeignRows(lines, 0) = {} /\ ForeignRows(<<>>, Len(<<>>)) = {}
  BY DEF ForeignRows
<1>2. to \in [ForeignRows(lines, 0) -> ForeignRows(<<>>, Len(<<>>))]
  BY <1>1
<1> QED BY <1>1, <1>2 DEF KeptIn

(* A line that is not foreign may be left out ...                          *)
LEMMA KeptSkips ==
    ASSUME NEW lines \in Seq(Seq(Word)), NEW others \in Seq(Seq(Word)),
           NEW n \in Nat, n < Len(lines), ~ Foreign(lines[n + 1]), KeptIn(lines, n, others)
    PROVE  KeptIn(lines, n + 1, others)
<1>1. ForeignRows(lines, n + 1) = ForeignRows(lines, n)
  <2>1. \A i : i \in 1..n + 1 <=> i \in 1..n \/ i = n + 1
    OBVIOUS
  <2> HIDE DEF Foreign
  <2> QED BY <2>1 DEF ForeignRows
<1> QED BY <1>1 DEF KeptIn

(* What a line at the end adds to the foreign ones.                        *)
LEMMA RowsAppend ==
    ASSUME NEW others \in Seq(Seq(Word)), NEW line \in Seq(Word)
    PROVE  /\ Append(others, line) \in Seq(Seq(Word))
           /\ Len(Append(others, line)) = Len(others) + 1
           /\ Append(others, line)[Len(others) + 1] = line
           /\ \A i \in 1..Len(others) : Append(others, line)[i] = others[i]
           /\ ForeignRows(Append(others, line), Len(others) + 1) =
                ForeignRows(others, Len(others)) \cup (IF Foreign(line) THEN {Len(others) + 1} ELSE {})
<1>1. /\ Append(others, line) \in Seq(Seq(Word))
      /\ Len(Append(others, line)) = Len(others) + 1
      /\ Append(others, line)[Len(others) + 1] = line
      /\ \A i \in 1..Len(others) : Append(others, line)[i] = others[i]
  OBVIOUS
<1>2. \A i : i \in 1..Len(others) + 1 <=> i \in 1..Len(others) \/ i = Len(others) + 1
  OBVIOUS
<1>3. Len(others) + 1 \notin 1..Len(others)
  OBVIOUS
<1> HIDE DEF Foreign
<1> QED BY <1>1, <1>2, <1>3 DEF ForeignRows

(* ... or be added,                                                        *)
LEMMA KeptBesides ==
    ASSUME NEW lines \in Seq(Seq(Word)), NEW others \in Seq(Seq(Word)), NEW n \in Nat,
           NEW line \in Seq(Word), ~ Foreign(line), KeptIn(lines, n, others)
    PROVE  KeptIn(lines, n, Append(others, line))
<1>1. ForeignRows(Append(others, line), Len(Append(others, line))) = ForeignRows(others, Len(others))
  BY RowsAppend
<1>2. \A k \in ForeignRows(others, Len(others)) : Append(others, line)[k] = others[k]
  BY RowsAppend DEF ForeignRows
<1> DEFINE more == Append(others, line)
<1> HIDE DEF more
<1>3. /\ ForeignRows(more, Len(more)) = ForeignRows(others, Len(others))
      /\ \A k \in ForeignRows(others, Len(others)) : more[k] = others[k]
  BY <1>1, <1>2 DEF more
<1>4. PICK to \in [ForeignRows(lines, n) -> ForeignRows(others, Len(others))] :
       /\ \A i \in ForeignRows(lines, n) : others[to[i]] = lines[i]
       /\ \A i, j \in ForeignRows(lines, n) : i < j => to[i] < to[j]
       /\ \A k \in ForeignRows(others, Len(others)) : \E i \in ForeignRows(lines, n) : to[i] = k
  BY DEF KeptIn
<1>5. \A i \in ForeignRows(lines, n) : more[to[i]] = lines[i]
  BY <1>3, <1>4
<1>6. KeptIn(lines, n, more)
  BY <1>3, <1>4, <1>5 DEF KeptIn
<1> QED BY <1>6 DEF more

(* and a foreign one is to be copied.                                      *)
LEMMA KeptTogether ==
    ASSUME NEW lines \in Seq(Seq(Word)), NEW others \in Seq(Seq(Word)),
           NEW n \in Nat, n < Len(lines), Foreign(lines[n + 1]), KeptIn(lines, n, others)
    PROVE  KeptIn(lines, n + 1, Append(others, lines[n + 1]))
<1> DEFINE line == lines[n + 1]
           more == Append(others, line)
           last == Len(others) + 1
<1>1. line \in Seq(Word)
  OBVIOUS
<1> HIDE DEF line
<1>2. /\ Len(more) = last /\ more[last] = line
      /\ \A i \in 1..Len(others) : more[i] = others[i]
      /\ ForeignRows(more, Len(more)) = ForeignRows(others, Len(others)) \cup {last}
  BY <1>1, RowsAppend DEF line
<1> HIDE DEF more
<1>3. ForeignRows(lines, n + 1) = ForeignRows(lines, n) \cup {n + 1} /\ n + 1 \notin ForeignRows(lines, n)
  <2>1. \A i : i \in 1..n + 1 <=> i \in 1..n \/ i = n + 1
    OBVIOUS
  <2> HIDE DEF Foreign
  <2> QED BY <2>1 DEF ForeignRows
<1>4. PICK to \in [ForeignRows(lines, n) -> ForeignRows(others, Len(others))] :
       /\ \A i \in ForeignRows(lines, n) : others[to[i]] = lines[i]
       /\ \A i, j \in ForeignRows(lines, n) : i < j => to[i] < to[j]
       /\ \A k \in ForeignRows(others, Len(others)) : \E i \in ForeignRows(lines, n) : to[i] = k
  BY DEF KeptIn
<1> DEFINE all == [i \in ForeignRows(lines, n + 1) |-> IF i = n + 1 THEN last ELSE to[i]]
<1>5. all[n + 1] = last /\ \A i \in ForeignRows(lines, n) : all[i] = to[i]
  BY <1>3
<1>6. all \in [ForeignRows(lines, n + 1) -> ForeignRows(more, Len(more))]
  BY <1>2, <1>3, <1>4
<1>7. /\ \A i \in ForeignRows(lines, n) : i \in Nat /\ i < n + 1
      /\ \A k \in ForeignRows(others, Len(others)) : k \in 1..Len(others) /\ k < last
  BY DEF ForeignRows
<1> HIDE DEF all
<1>8. \A i \in ForeignRows(lines, n + 1) : more[all[i]] = lines[i]
  <2>1. more[all[n + 1]] = lines[n + 1]
    BY <1>2, <1>5 DEF line
  <2>2. \A i \in ForeignRows(lines, n) : more[all[i]] = lines[i]
    BY <1>2, <1>4, <1>5, <1>7
  <2> QED BY <1>3, <2>1, <2>2
<1>9. \A i, j \in ForeignRows(lines, n + 1) : i < j => all[i] < all[j]
  <2> SUFFICES ASSUME NEW i \in ForeignRows(lines, n + 1), NEW j \in ForeignRows(lines, n + 1), i < j
               PROVE  all[i] < all[j]
    OBVIOUS
  <2>1. i \in ForeignRows(lines, n)
    <3>1. j <= n + 1 /\ j \in Nat
      BY <1>3, <1>7
    <3>2. i # n + 1
      BY <3>1
    <3> QED BY <1>3, <3>2
  <2>2. CASE j = n + 1
    BY <1>4, <1>5, <1>7, <2>1, <2>2
  <2>3. CASE j \in ForeignRows(lines, n)
    BY <1>4, <1>5, <2>1, <2>3
  <2> QED BY <1>3, <2>2, <2>3
<1>10. \A k \in ForeignRows(more, Len(more)) : \E i \in ForeignRows(lines, n + 1) : all[i] = k
  <2>1. \E i \in ForeignRows(lines, n + 1) : all[i] = last
    BY <1>3, <1>5
  <2>2. \A k \in ForeignRows(others, Len(others)) : \E i \in ForeignRows(lines, n + 1) : all[i] = k
    BY <1>3, <1>4, <1>5
  <2> QED BY <1>2, <2>1, <2>2
<1>11. KeptIn(lines, n + 1, more)
  BY <1>6, <1>8, <1>9, <1>10 DEF KeptIn
<1> QED BY <1>11 DEF more, line

-----------------------------------------------------------------------------
(* What the two invariants need of the types.                              *)
Typed ==
    /\ file \in Text /\ temp \in Text /\ rest \in Seq(Seq(Word))
    /\ path \in Folders /\ id \in Ids \cup {NoId}

(* How many lines of the file are dealt with.                              *)
Copied == Len(file.lines) - Len(rest)

(* The lines to come are the rest of the file.                             *)
AtLine ==
    /\ Len(rest) <= Len(file.lines)
    /\ \A i \in 1..Len(rest) : rest[i] = file.lines[Copied + i]
(* The invariant of the copying loops: the foreign lines so far are in the *)
(* temporary file, in order, and it can be appended to as long as there is *)
(* a line to come.                                                         *)
Rewrites ==
    call \in {"write", "delete"} =>
        /\ id \in Ids /\ AtLine
        /\ KeptIn(file.lines, Copied, temp.lines)
        /\ temp.ended \/ (call = "delete" /\ rest = <<>>)

CopyInv == Typed /\ Rewrites

(* Behind a line that has its '\n', fprintf makes a line of its own.       *)
LEMMA PutAdds ==
    ASSUME NEW text \in Text, text.ended, NEW line \in Seq(Word), NEW ended \in BOOLEAN
    PROVE  /\ Put(text, line, ended) \in Text
           /\ Put(text, line, ended).lines = Append(text.lines, line)
           /\ Put(text, line, ended).ended = ended
BY DEF Put, Text

(* The program's own lines do not disturb the foreign ones.                *)
LEMMA PutKeeps ==
    ASSUME NEW lines \in Seq(Seq(Word)), NEW n \in Nat, NEW text \in Text, text.ended,
           KeptIn(lines, n, text.lines), NEW line \in Seq(Word), ~ Foreign(line)
    PROVE  /\ Put(text, line, TRUE) \in Text /\ Put(text, line, TRUE).ended
           /\ KeptIn(lines, n, Put(text, line, TRUE).lines)
<1>1. text.lines \in Seq(Seq(Word))
  BY DEF Text
<1>2. KeptIn(lines, n, Append(text.lines, line))
  BY <1>1, KeptBesides
<1>3. Put(text, line, TRUE).ended = TRUE
  BY PutAdds
<1> QED BY <1>2, <1>3, PutAdds

(* The lines the program writes are of its own.                            *)
LEMMA OwnLines ==
    ASSUME NEW p \in Folders, NEW i \in Ids
    PROVE  /\ <<W("head", i)>> \in Seq(Word) /\ ~ Foreign(<<W("head", i)>>)
           /\ <<W("skprx", p)>> \in Seq(Word) /\ ~ Foreign(<<W("skprx", p)>>)
           /\ <<W("suprx", p)>> \in Seq(Word) /\ ~ Foreign(<<W("suprx", p)>>)
           /\ <<W("libpgf", "vs0")>> \in Seq(Word) /\ ~ Foreign(<<W("libpgf", "vs0")>>)
<1>1. i \in Words /\ p \in Words /\ "vs0" \in Words
  BY ConfigTextAssumption, WordsAssumption DEF Folders
<1>2. \A kind \in Kinds, of \in Words : W(kind, of) \in Word /\ <<W(kind, of)>> \in Seq(Word)
  BY DEF W, Word
<1>3. \A kind, of : (kind \notin {"user", "head"} \/ of \in Ids) => ~ Foreign(<<W(kind, of)>>)
  BY DEF Foreign, W
<1> QED BY <1>1, <1>2, <1>3 DEF Kinds

(* Those it deletes are, too.                                              *)
LEMMA DroppedAreNotForeign ==
    ASSUME NEW line, LineDropped(line), id \in Ids
    PROVE  ~ Foreign(line)
BY ConfigTextAssumption DEF LineDropped, Foreign, Has

(* A step over the next line of the file.                                  *)
LEMMA NextLine ==
    ASSUME Typed, AtLine, rest # <<>>
    PROVE  /\ Copied \in Nat /\ Copied < Len(file.lines)
           /\ file.lines \in Seq(Seq(Word)) /\ temp.lines \in Seq(Seq(Word))
           /\ Head(rest) \in Seq(Word) /\ Head(rest) = file.lines[Copied + 1]
           /\ Tail(rest) \in Seq(Seq(Word)) /\ Len(Tail(rest)) = Len(rest) - 1
           /\ Len(file.lines) - Len(Tail(rest)) = Copied + 1
           /\ \A i \in 1..Len(Tail(rest)) : Tail(rest)[i] = file.lines[Copied + 1 + i]
<1>1. /\ file.lines \in Seq(Seq(Word)) /\ temp.lines \in Seq(Seq(Word))
      /\ rest \in Seq(Seq(Word)) /\ Len(rest) <= Len(file.lines)
      /\ \A i \in 1..Len(rest) : rest[i] = file.lines[Copied + i]
  BY DEF Typed, Text, AtLine
<1>2. Len(rest) \in Nat /\ Len(rest) > 0 /\ Head(rest) = rest[1] /\ rest[1] \in Seq(Word)
      /\ Tail(rest) \in Seq(Seq(Word)) /\ Len(Tail(rest)) = Len(rest) - 1
      /\ \A i \in 1..Len(Tail(rest)) : Tail(rest)[i] = rest[i + 1]
  BY <1>1
<1>3. Len(file.lines) \in Nat
  BY <1>1
<1>4. Copied \in Nat /\ Copied < Len(file.lines) /\ Len(file.lines) - Len(Tail(rest)) = Copied + 1
  BY <1>1, <1>2, <1>3 DEF Copied
<1>5. \A i \in 1..Len(Tail(rest)) : i + 1 \in 1..Len(rest) /\ Copied + (i + 1) = Copied + 1 + i
  BY <1>2, <1>4
<1>6. Head(rest) = file.lines[Copied + 1]
  BY <1>1, <1>2
<1>7. \A i \in 1..Len(Tail(rest)) : Tail(rest)[i] = file.lines[Copied + 1 + i]
  BY <1>1, <1>2, <1>5
<1>8. Head(rest) \in Seq(Word)
  BY <1>2
<1> QED BY <1>1, <1>2, <1>4, <1>6, <1>7, <1>8

(* The line is copied, or is none that is foreign.                         *)
LEMMA LineDone ==
    ASSUME Typed, Rewrites, call \in {"write", "delete"}, rest # <<>>,
           NEW new \in Seq(Seq(Word)),
           \/ new = Append(temp.lines, Head(rest))
           \/ new = temp.lines /\ ~ Foreign(Head(rest))
    PROVE  KeptIn(file.lines, Copied + 1, new)
<1>0. KeptIn(file.lines, Copied, temp.lines) /\ AtLine
  BY DEF Rewrites
<1> USE <1>0, NextLine
<1>1. CASE Foreign(Head(rest))
  BY <1>0, <1>1, KeptTogether
<1>2. CASE ~ Foreign(Head(rest))
  <2>1. KeptIn(file.lines, Copied + 1, temp.lines)
    BY <1>0, <1>2, KeptSkips
  <2>2. KeptIn(file.lines, Copied + 1, Append(temp.lines, Head(rest)))
    BY <1>2, <2>1, KeptBesides
  <2> QED BY <2>1, <2>2
<1> QED BY <1>1, <1>2

(* The copying loops keep the invariant, each action on its own.           *)
LEMMA CopyInit == Init => CopyInv
BY ConfigTextAssumption DEF Init, CopyInv, Typed, Rewrites, Text, EmptyText, Folders

LEMMA CallCopies ==
    ASSUME CopyInv, NEW name \in {"read", "write", "delete"}, NEW p \in Folders,
           NEW i \in Ids \cup {NoId}, name # "read" => i \in Ids, Call(name, p, i)
    PROVE  CopyInv'
<1>1. EmptyText \in Text /\ EmptyText.lines = <<>> /\ EmptyText.ended
  BY DEF EmptyText, Text
<1>2. file.lines \in Seq(Seq(Word))
  BY DEF CopyInv, Typed, Text
<1>3. file' = file /\ temp' = EmptyText /\ rest' = file.lines /\ id' = i /\ call' = name /\ path' = p
  BY DEF Call
<1>4. Typed'
  BY <1>1, <1>2, <1>3 DEF CopyInv, Typed
<1>5. Len(file.lines) - Len(file.lines) = 0 /\ Len(file.lines) \in Nat
  BY <1>2
<1>6. KeptIn(file.lines, 0, <<>>)
  BY <1>2, KeptFromStart
<1> QED BY <1>1, <1>2, <1>3, <1>4, <1>5, <1>6 DEF CopyInv, Rewrites, AtLine, Copied

LEMMA WriteLineCopies == CopyInv /\ WriteLine => CopyInv'
<1> SUFFICES ASSUME CopyInv, WriteLine
             PROVE  CopyInv'
  OBVIOUS
<1>1. /\ Typed /\ Rewrites /\ AtLine /\ call = "write" /\ rest # <<>>
      /\ id \in Ids /\ path \in Folders
  BY DEF CopyInv, WriteLine, Rewrites, Typed
<1>2. temp \in Text /\ temp.ended
  BY <1>1 DEF Typed, Rewrites, AtLine
<1> DEFINE copied == IF Head(rest) = <<>> THEN temp ELSE Put(temp, Head(rest), TRUE)
<1>3. temp' = IF Has(Head(rest), "head", Kernel) THEN Put(copied, <<W("skprx", path)>>, TRUE) ELSE copied
  BY DEF WriteLine
<1>4. ~ Foreign(<<>>)
  BY DEF Foreign
<1>5. /\ copied \in Text /\ copied.ended
      /\ \/ copied.lines = Append(temp.lines, Head(rest))
         \/ copied.lines = temp.lines /\ ~ Foreign(Head(rest))
  BY <1>1, <1>2, <1>4, NextLine, PutAdds
<1> HIDE DEF copied
<1>6. copied.lines \in Seq(Seq(Word))
  BY <1>5 DEF Text
<1>7. KeptIn(file.lines, Copied + 1, copied.lines)
  BY <1>1, <1>5, <1>6, LineDone
<1>8. temp' \in Text /\ temp'.ended /\ KeptIn(file.lines, Copied + 1, temp'.lines)
  <2>1. CASE ~ Has(Head(rest), "head", Kernel)
    BY <1>3, <1>5, <1>7, <2>1
  <2>2. CASE Has(Head(rest), "head", Kernel)
    <3>1. <<W("skprx", path)>> \in Seq(Word) /\ ~ Foreign(<<W("skprx", path)>>)
      BY <1>1, OwnLines
    <3>2. file.lines \in Seq(Seq(Word)) /\ Copied + 1 \in Nat
      BY <1>1, NextLine
    <3>3. temp' = Put(copied, <<W("skprx", path)>>, TRUE)
      BY <1>3, <2>2
    <3> QED BY <1>5, <1>7, <3>1, <3>2, <3>3, PutKeeps
  <2> QED BY <2>1, <2>2
<1>9. rest' = Tail(rest) /\ UNCHANGED <<file, call, path, id>>
  BY DEF WriteLine, args
<1>10. Copied' = Copied + 1
  BY <1>1, <1>9, NextLine DEF Copied
<1>11. Len(Tail(rest)) <= Len(file.lines)
  BY <1>1, NextLine DEF Rewrites, AtLine
<1> QED BY <1>1, <1>8, <1>9, <1>10, <1>11, NextLine DEF CopyInv, Typed, Rewrites, AtLine

LEMMA DeleteLineCopies == CopyInv /\ DeleteLine => CopyInv'
<1> SUFFICES ASSUME CopyInv, DeleteLine
             PROVE  CopyInv'
  OBVIOUS
<1>1. /\ Typed /\ Rewrites /\ AtLine /\ call = "delete" /\ rest # <<>>
      /\ id \in Ids /\ path \in Folders
  BY DEF CopyInv, DeleteLine, Rewrites, Typed
<1>2. temp \in Text /\ temp.ended
  BY <1>1 DEF Typed, Rewrites, AtLine
<1>3. temp' = IF LineDropped(Head(rest)) THEN temp ELSE Put(temp, Head(rest), Ended)
  BY DEF DeleteLine
<1>4. Ended \in BOOLEAN /\ (~ Ended => Len(rest) <= 1)
  BY <1>1 DEF Ended, Typed, Text
<1>5. Tail(rest) = <<>> \/ Len(rest) > 1
  BY <1>1 DEF Rewrites, AtLine
<1>6. /\ temp' \in Text /\ (temp'.ended \/ Tail(rest) = <<>>)
      /\ \/ temp'.lines = Append(temp.lines, Head(rest))
         \/ temp'.lines = temp.lines /\ ~ Foreign(Head(rest))
  <2>1. CASE LineDropped(Head(rest))
    BY <1>1, <1>2, <1>3, <2>1, DroppedAreNotForeign
  <2>2. CASE ~ LineDropped(Head(rest))
    <3>1. temp' = Put(temp, Head(rest), Ended)
      BY <1>3, <2>2
    <3>2. /\ Put(temp, Head(rest), Ended) \in Text
          /\ Put(temp, Head(rest), Ended).lines = Append(temp.lines, Head(rest))
          /\ Put(temp, Head(rest), Ended).ended = Ended
      BY <1>1, <1>2, <1>4, NextLine, PutAdds
    <3> QED BY <1>4, <1>5, <3>1, <3>2
  <2> QED BY <2>1, <2>2
<1>7. temp'.lines \in Seq(Seq(Word))
  BY <1>6 DEF Text
<1>8. KeptIn(file.lines, Copied + 1, temp'.lines)
  BY <1>1, <1>6, <1>7, LineDone
<1>9. rest' = Tail(rest) /\ UNCHANGED <<file, call, path, id>>
  BY DEF DeleteLine, args
<1>10. Copied' = Copied + 1
  BY <1>1, <1>9, NextLine DEF Copied
<1>11. Len(Tail(rest)) <= Len(file.lines)
  BY <1>1, NextLine DEF Rewrites, AtLine
<1> QED BY <1>1, <1>6, <1>8, <1>9, <1>10, <1>11, NextLine DEF CopyInv, Typed, Rewrites, AtLine

(* At the end the foreign lines are all there.                             *)
LEMMA AllCopied ==
    ASSUME CopyInv, call \in {"write", "delete"}, rest = <<>>
    PROVE  KeptIn(file.lines, Len(file.lines), temp.lines)
<1>1. Copied = Len(file.lines)
  BY DEF CopyInv, Typed, Text, Copied
<1> QED BY <1>1 DEF CopyInv, Rewrites

LEMMA SectionCopies == CopyInv /\ WriteSection => CopyInv' /\ Keeps
<1> SUFFICES ASSUME CopyInv, WriteSection
             PROVE  CopyInv' /\ Keeps
  OBVIOUS
<1>1. /\ temp \in Text /\ temp.ended /\ id \in Ids /\ path \in Folders
      /\ file.lines \in Seq(Seq(Word)) /\ Len(file.lines) \in Nat
      /\ KeptIn(file.lines, Len(file.lines), temp.lines)
  BY AllCopied DEF CopyInv, Typed, Rewrites, WriteSection, Text
<1> DEFINE headed == Put(temp, <<W("head", id)>>, TRUE)
           patched == IF path = OldFolder THEN Put(headed, <<W("libpgf", "vs0")>>, TRUE) ELSE headed
<1>2. file' = Put(patched, <<W("suprx", path)>>, TRUE)
  BY DEF WriteSection
<1>4. headed \in Text /\ headed.ended /\ KeptIn(file.lines, Len(file.lines), headed.lines)
  BY <1>1, OwnLines, PutKeeps
<1> HIDE DEF headed
<1>5. patched \in Text /\ patched.ended /\ KeptIn(file.lines, Len(file.lines), patched.lines)
  <2>1. CASE path = OldFolder
    <3>1. patched = Put(headed, <<W("libpgf", "vs0")>>, TRUE)
      BY <2>1
    <3>2. <<W("libpgf", "vs0")>> \in Seq(Word) /\ ~ Foreign(<<W("libpgf", "vs0")>>)
      BY <1>1, OwnLines
    <3> HIDE DEF patched
    <3> QED BY <1>1, <1>4, <3>1, <3>2, PutKeeps
  <2>2. CASE path # OldFolder
    BY <1>4, <2>2
  <2> QED BY <2>1, <2>2
<1> HIDE DEF patched
<1>6. file' \in Text /\ KeptIn(file.lines, Len(file.lines), file'.lines)
  <2>1. <<W("suprx", path)>> \in Seq(Word) /\ ~ Foreign(<<W("suprx", path)>>)
    BY <1>1, OwnLines
  <2> QED BY <1>1, <1>2, <1>5, <2>1, PutKeeps
<1> QED BY <1>6 DEF CopyInv, Typed, Rewrites, WriteSection, Keeps, args

LEMMA ReturnCopies == CopyInv /\ Return => CopyInv' /\ Keeps
<1> SUFFICES ASSUME CopyInv, Return
             PROVE  CopyInv' /\ Keeps
  OBVIOUS
<1>1. CASE call = "delete"
  BY <1>1, AllCopied DEF CopyInv, Typed, Rewrites, Return, Keeps, args
<1>2. CASE call = "read"
  BY <1>2 DEF CopyInv, Typed, Rewrites, Return, Keeps, args
<1> QED BY <1>1, <1>2 DEF Return

LEMMA ReadTyped == Typed /\ (ReadWord \/ PassEnd) => Typed'
<1> SUFFICES ASSUME Typed, ReadWord \/ PassEnd
             PROVE  Typed'
  OBVIOUS
<1>1. rest \in Seq(Seq(Word)) /\ rest # <<>>
  BY DEF Typed, ReadWord, PassEnd
<1>2. Tail(rest) \in Seq(Seq(Word)) /\ Head(rest) \in Seq(Word)
  BY <1>1
<1>3. Head(rest) # <<>> => Tail(Head(rest)) \in Seq(Word)
  BY <1>2
<1>4. Head(rest) # <<>> => <<Tail(Head(rest))>> \o Tail(rest) \in Seq(Seq(Word))
  BY <1>2, <1>3
<1>5. rest' \in Seq(Seq(Word))
  BY <1>2, <1>4 DEF ReadWord, PassEnd
<1> QED BY <1>5 DEF Typed, ReadWord, PassEnd, args

LEMMA StepCopies == CopyInv /\ [Next]_vars => CopyInv' /\ Keeps
<1> SUFFICES ASSUME CopyInv, [Next]_vars
             PROVE  CopyInv' /\ Keeps
  OBVIOUS
<1>1. CASE \E p \in Folders : Start(p)
  BY <1>1, CallCopies DEF Start, Call, Keeps
<1>2. CASE \E p \in Folders, i \in Ids : Rewrite("write", p, i) \/ Rewrite("delete", p, i)
  BY <1>2, CallCopies DEF Rewrite, Call, Keeps
<1>3. CASE ReadWord
  BY <1>3, ReadTyped DEF ReadWord, CopyInv, Rewrites, Keeps
<1>7. CASE PassEnd
  BY <1>7, ReadTyped DEF PassEnd, CopyInv, Rewrites, Keeps
<1>4. CASE WriteLine
  BY <1>4, WriteLineCopies DEF WriteLine, Keeps
<1>5. CASE DeleteLine
  BY <1>5, DeleteLineCopies DEF DeleteLine, Keeps
<1>6. CASE UNCHANGED vars
  BY <1>6 DEF vars, args, CopyInv, Typed, Rewrites, AtLine, Copied, Keeps
<1> QED BY <1>1, <1>2, <1>3, <1>4, <1>5, <1>6, <1>7, SectionCopies, ReturnCopies DEF Next

(* For every file, writing and deleting leave the lines that have no       *)
(* game's id, comments included, as they are and in order.                 *)
THEOREM ForeignLinesStay == Spec => ForeignLinesKept
<1>1. CopyInv /\ [Next]_vars => [Keeps]_vars
  BY StepCopies
<1> QED BY <1>1, CopyInit, StepCopies, PTL DEF Spec, ForeignLinesKept

(* GAME_ID and PSP_GAME_ID hold words of the file or what is no name.      *)
LEMMA NamesTyped ==
    ASSUME TypeOK, Next
    PROVE  header' \in Words \cup {Junk} /\ gameId' \in Words \cup {Junk}
<1>1. CASE ReadWord
  <2>1. Head(Head(rest)) \in Word
    <3>1. rest \in Seq(Seq(Word)) /\ rest # <<>> /\ Head(rest) # <<>>
      BY <1>1 DEF TypeOK, ReadWord
    <3>2. Head(rest) \in Seq(Word)
      BY <3>1
    <3> QED BY <3>1, <3>2
  <2>2. HeaderAfter(Head(Head(rest))) \in Words \cup {Junk}
    BY <2>1 DEF HeaderAfter, Word, TypeOK
  <2> QED BY <1>1, <2>2 DEF ReadWord, TypeOK
<1>2. CASE \E p \in Folders : Start(p)
  BY <1>2, WordsAssumption DEF Start
<1>3. CASE UNCHANGED <<header, gameId>>
  BY <1>3 DEF TypeOK
<1> QED BY <1>1, <1>2, <1>3 DEF Next, Rewrite, PassEnd, WriteLine, WriteSection, DeleteLine, Return

(* For every file and any number of calls: the files stay texts of words,  *)
(* and what is taken for the game is one of their words or what follows a  *)
(* star inside one.                                                        *)
THEOREM TypeCorrect == Spec => []TypeOK
<1>1. Init => TypeOK /\ CopyInv
  <2>1. Init => CopyInv
    BY CopyInit
  <2>2. CopyInv /\ Init => TypeOK
    BY ConfigTextAssumption, WordsAssumption DEF Init, TypeOK, CopyInv, Typed
  <2> QED BY <2>1, <2>2
<1>2. TypeOK /\ CopyInv /\ [Next]_vars => (TypeOK /\ CopyInv)'
  <2> SUFFICES ASSUME TypeOK, CopyInv, [Next]_vars
               PROVE  TypeOK' /\ CopyInv'
    OBVIOUS
  <2>1. CopyInv' /\ Typed'
    BY StepCopies DEF CopyInv
  <2>2. CASE UNCHANGED vars
    BY <2>1, <2>2 DEF vars, args, TypeOK
  <2>3. CASE Next
    <3>1. header' \in Words \cup {Junk} /\ gameId' \in Words \cup {Junk}
      BY <2>3, NamesTyped
    <3>2. \A name, p, i : Call(name, p, i) => call' = name /\ calls' \in 0..MaxCalls
      BY ConfigTextAssumption DEF Call, TypeOK
    <3>3. call' \in {"none", "read", "write", "delete"} /\ calls' \in 0..MaxCalls
      <4>1. CASE \E p \in Folders : Start(p)
        BY <3>2, <4>1 DEF Start
      <4>2. CASE \E p \in Folders, i \in Ids : Rewrite("write", p, i) \/ Rewrite("delete", p, i)
        BY <3>2, <4>2 DEF Rewrite
      <4>3. CASE ReadWord \/ PassEnd \/ WriteLine \/ WriteSection \/ DeleteLine \/ Return
        BY <4>3 DEF ReadWord, PassEnd, WriteLine, WriteSection, DeleteLine, Return, TypeOK
      <4> QED BY <2>3, <4>1, <4>2, <4>3 DEF Next
    <3> QED BY <2>1, <3>1, <3>3 DEF Typed, TypeOK
  <2> QED BY <2>1, <2>2, <2>3
<1> QED BY <1>1, <1>2, PTL DEF Spec

-----------------------------------------------------------------------------
(* The sections of a text, line by line.                                   *)
IsHead(line) == line # <<>> /\ line[1].kind = "head"
One(condition) == IF condition THEN 1 ELSE 0
LineOf(n, word) == [at |-> n + One(word.kind = "head"), kind |-> word.kind, of |-> word.of]

(* The number of headers up to a line.                                     *)
LEMMA HeadsGrow ==
    ASSUME NEW lines, NEW n \in Nat
    PROVE  /\ Heads(lines, 0) = 0 /\ Heads(lines, n) \in Nat
           /\ Heads(lines, n + 1) = Heads(lines, n) + One(IsHead(lines[n + 1]))
<1> DEFINE H(k) == {i \in 1..k : IsHead(lines[i])}
<1>1. \A k : Heads(lines, k) = Cardinality(H(k))
  BY DEF Heads, IsHead
<1>2. H(0) = {} /\ H(n) \subseteq 1..n
  OBVIOUS
<1>3. IsFiniteSet(H(n))
  <2>1. IsFiniteSet(1..n)
    BY FS_Interval
  <2> QED BY <1>2, <2>1, FS_Subset
<1>4. Cardinality(H(n)) \in Nat
  BY <1>3, FS_CardinalityType
<1>5. H(n + 1) = H(n) \cup (IF IsHead(lines[n + 1]) THEN {n + 1} ELSE {}) /\ n + 1 \notin H(n)
  <2>1. \A i : i \in 1..n + 1 <=> i \in 1..n \/ i = n + 1
    OBVIOUS
  <2>2. n + 1 \notin 1..n
    OBVIOUS
  <2> QED BY <2>1, <2>2
<1> HIDE DEF H
<1>0. Heads(lines, 0) = 0 /\ Heads(lines, n) \in Nat
  BY <1>1, <1>2, <1>4, FS_EmptySet
<1>6. CASE IsHead(lines[n + 1])
  <2>1. H(n + 1) = H(n) \cup {n + 1}
    BY <1>5, <1>6
  <2>2. Cardinality(H(n + 1)) = Cardinality(H(n)) + 1
    BY <1>3, <1>5, <2>1, FS_AddElement
  <2> QED BY <1>0, <1>1, <1>6, <2>2 DEF One
<1>7. CASE ~ IsHead(lines[n + 1])
  <2>1. H(n + 1) = H(n)
    BY <1>5, <1>7
  <2>2. Heads(lines, n + 1) = Heads(lines, n)
    BY <1>1, <2>1
  <2> QED BY <1>0, <1>7, <2>2 DEF One
<1> QED BY <1>6, <1>7

(* What a line adds to the sections: nothing if it is empty.               *)
LEMMA MeaningGrows ==
    ASSUME NEW lines, NEW n \in Nat
    PROVE  /\ MeaningOf(lines, 0) = {}
           /\ lines[n + 1] = <<>> => MeaningOf(lines, n + 1) = MeaningOf(lines, n)
           /\ lines[n + 1] # <<>> =>
                MeaningOf(lines, n + 1) =
                    MeaningOf(lines, n) \cup {LineOf(Heads(lines, n), lines[n + 1][1])}
<1>1. \A i : i \in 1..n + 1 <=> i \in 1..n \/ i = n + 1
  OBVIOUS
<1>2. lines[n + 1] # <<>> => Seen(lines, n + 1) = LineOf(Heads(lines, n), lines[n + 1][1])
  BY HeadsGrow DEF Seen, LineOf, IsHead
<1>3. MeaningOf(lines, 0) = {}
  BY DEF MeaningOf
<1> HIDE DEF Seen
<1>4. /\ lines[n + 1] = <<>> => MeaningOf(lines, n + 1) = MeaningOf(lines, n)
      /\ lines[n + 1] # <<>> => MeaningOf(lines, n + 1) = MeaningOf(lines, n) \cup {Seen(lines, n + 1)}
  BY <1>1 DEF MeaningOf
<1> QED BY <1>2, <1>3, <1>4

(* Lines behind the first n do not matter.                                 *)
LEMMA SameBefore ==
    ASSUME NEW lines, NEW others, NEW n \in Nat, \A i \in 1..n : lines[i] = others[i]
    PROVE  Heads(lines, n) = Heads(others, n) /\ MeaningOf(lines, n) = MeaningOf(others, n)
<1>1. \A k \in 0..n : {i \in 1..k : lines[i] # <<>> /\ lines[i][1].kind = "head"}
                    = {i \in 1..k : others[i] # <<>> /\ others[i][1].kind = "head"}
  OBVIOUS
<1>2. \A k \in 0..n : Heads(lines, k) = Heads(others, k)
  BY <1>1 DEF Heads
<1>3. \A i \in 1..n : Seen(lines, i) = Seen(others, i)
  BY <1>2 DEF Seen
<1> HIDE DEF Seen
<1>4. {j \in 1..n : lines[j] # <<>>} = {j \in 1..n : others[j] # <<>>}
  OBVIOUS
<1>5. MeaningOf(lines, n) = MeaningOf(others, n)
  BY <1>3, <1>4 DEF MeaningOf
<1> QED BY <1>2, <1>5

(* The number of sections.                                                 *)
Total(text) == Heads(text.lines, Len(text.lines))

(* What a line means that is written behind a text,                        *)
LEMMA PutMeans ==
    ASSUME NEW text \in Text, text.ended, NEW line \in Seq(Word), line # <<>>, NEW ended \in BOOLEAN
    PROVE  /\ Meaning(Put(text, line, ended)) = Meaning(text) \cup {LineOf(Total(text), line[1])}
           /\ Total(Put(text, line, ended)) = Total(text) + One(line[1].kind = "head")
<1> DEFINE lines == text.lines
           more == Append(lines, line)
           n == Len(lines)
<1>1. lines \in Seq(Seq(Word)) /\ n \in Nat
  BY DEF Text
<1>2. Put(text, line, ended).lines = more
  BY PutAdds
<1>3. Len(more) = n + 1 /\ more[n + 1] = line /\ \A i \in 1..n : more[i] = lines[i]
  BY <1>1
<1> HIDE DEF more
<1>4. Heads(more, n) = Heads(lines, n) /\ MeaningOf(more, n) = MeaningOf(lines, n)
  BY <1>1, <1>3, SameBefore
<1>5. Heads(more, n + 1) = Heads(lines, n) + One(line[1].kind = "head")
  <2>1. Heads(more, n + 1) = Heads(more, n) + One(IsHead(more[n + 1]))
    BY <1>1, HeadsGrow
  <2> QED BY <1>3, <1>4, <2>1 DEF IsHead
<1>6. MeaningOf(more, n + 1) = MeaningOf(lines, n) \cup {LineOf(Heads(lines, n), line[1])}
  BY <1>1, <1>3, <1>4, MeaningGrows
<1> QED BY <1>2, <1>3, <1>5, <1>6 DEF Meaning, Total

(* one of a single word,                                                   *)
LEMMA PutWord ==
    ASSUME NEW text \in Text, text.ended, NEW word, <<word>> \in Seq(Word)
    PROVE  /\ Put(text, <<word>>, TRUE) \in Text /\ Put(text, <<word>>, TRUE).ended
           /\ Meaning(Put(text, <<word>>, TRUE)) = Meaning(text) \cup {LineOf(Total(text), word)}
           /\ Total(Put(text, <<word>>, TRUE)) = Total(text) + One(word.kind = "head")
<1> DEFINE line == <<word>>
<1>1. line \in Seq(Word) /\ line # <<>> /\ line[1] = word
  OBVIOUS
<1> HIDE DEF line
<1>2. /\ Meaning(Put(text, line, TRUE)) = Meaning(text) \cup {LineOf(Total(text), line[1])}
      /\ Total(Put(text, line, TRUE)) = Total(text) + One(line[1].kind = "head")
  BY <1>1, PutMeans
<1>3. Put(text, line, TRUE) \in Text /\ Put(text, line, TRUE).ended = TRUE
  BY <1>1, PutAdds
<1>4. /\ Meaning(Put(text, line, TRUE)) = Meaning(text) \cup {LineOf(Total(text), word)}
      /\ Total(Put(text, line, TRUE)) = Total(text) + One(word.kind = "head")
  BY <1>1, <1>2
<1> QED BY <1>3, <1>4 DEF line

(* and an empty one.                                                       *)
LEMMA PutsNothing ==
    ASSUME NEW text \in Text, text.ended, NEW ended \in BOOLEAN
    PROVE  /\ Meaning(Put(text, <<>>, ended)) = Meaning(text)
           /\ Total(Put(text, <<>>, ended)) = Total(text)
<1> DEFINE lines == text.lines
           more == Append(lines, <<>>)
           n == Len(lines)
<1>1. lines \in Seq(Seq(Word)) /\ n \in Nat /\ <<>> \in Seq(Word)
  BY DEF Text
<1>2. Put(text, <<>>, ended).lines = more
  BY <1>1, PutAdds
<1>3. Len(more) = n + 1 /\ more[n + 1] = <<>> /\ \A i \in 1..n : more[i] = lines[i]
  BY <1>1
<1> HIDE DEF more
<1>4. Heads(more, n) = Heads(lines, n) /\ MeaningOf(more, n) = MeaningOf(lines, n)
  BY <1>1, <1>3, SameBefore
<1>5. Heads(more, n + 1) = Heads(lines, n)
  <2>1. Heads(more, n + 1) = Heads(more, n) + One(IsHead(more[n + 1])) /\ Heads(more, n) \in Nat
    BY <1>1, HeadsGrow
  <2>2. One(IsHead(more[n + 1])) = 0
    BY <1>3 DEF IsHead, One
  <2> QED BY <1>4, <2>1, <2>2
<1>6. MeaningOf(more, n + 1) = MeaningOf(lines, n)
  BY <1>1, <1>3, <1>4, MeaningGrows
<1> QED BY <1>2, <1>3, <1>5, <1>6 DEF Meaning, Total

-----------------------------------------------------------------------------
(* The sections c have numbers up to n, the last of which is taken.        *)
Sectioned(c, n) ==
    /\ c \in ConfigFiles /\ IsFiniteSet(c) /\ n \in Nat
    /\ \A line \in c : line.at <= n
    /\ n > 0 => \E line \in c : line.at = n

(* The next line keeps to that.                                            *)
LEMMA SectionedGrows ==
    ASSUME NEW c, NEW n \in Nat, Sectioned(c, n), NEW word \in Word
    PROVE  /\ LineOf(n, word) \in Lines
           /\ Sectioned(c \cup {LineOf(n, word)}, n + One(word.kind = "head"))
<1> DEFINE line == LineOf(n, word)
<1>1. n + One(word.kind = "head") \in Nat /\ n <= n + One(word.kind = "head")
  BY DEF Sectioned, One
<1>2. line \in Lines /\ line.at = n + One(word.kind = "head")
  BY <1>1 DEF LineOf, Lines, Word
<1>3. IsFiniteSet(c \cup {line})
  BY FS_AddElement DEF Sectioned
<1>4. \A other \in c : other.at \in Nat /\ other.at <= n
  BY DEF Sectioned, ConfigFiles, Lines
<1> HIDE DEF line
<1>5. \A other \in c \cup {line} : other.at <= n + One(word.kind = "head")
  BY <1>1, <1>2, <1>4 DEF Sectioned
<1>6. c \cup {line} \in ConfigFiles
  BY <1>2 DEF Sectioned, ConfigFiles
<1>7. Sectioned(c \cup {line}, n + One(word.kind = "head"))
  BY <1>1, <1>2, <1>3, <1>5, <1>6 DEF Sectioned
<1> QED BY <1>2, <1>7 DEF line

LEMMA SectionedStart == Sectioned({}, 0)
BY FS_EmptySet DEF Sectioned, ConfigFiles

(* The end, as TaiConfig looks for it, is the number of headers.           *)
LEMMA EndOfSectioned ==
    ASSUME NEW c, NEW n \in Nat, Sectioned(c, n)
    PROVE  End(c) = n
<1>1. \A line \in c : line.at \in Nat /\ line.at <= n
  BY DEF Sectioned, ConfigFiles, Lines
<1>2. CASE n > 0
  <2>1. PICK last \in c : last.at = n
    BY <1>2 DEF Sectioned
  <2>2. last \in Lowest(c) /\ \A line \in Lowest(c) : line.at = n
    BY <1>1, <2>1 DEF Lowest, Sectioned
  <2> HIDE DEF Lowest
  <2> QED BY <2>2 DEF End
<1>3. CASE n = 0
  <2>1. \A line \in Lowest(c) : line.at = 0
    BY <1>1, <1>3 DEF Lowest
  <2> HIDE DEF Lowest
  <2> QED BY <1>3, <2>1 DEF End
<1> QED BY <1>2, <1>3 DEF Sectioned

(* The header a line stands under is the last one before it.               *)
LEMMA SectionGrows ==
    ASSUME NEW c, NEW n \in Nat, Sectioned(c, n), NEW word \in Word
    PROVE  /\ \A m \in 0..n : Section(c \cup {LineOf(n, word)}, m) = Section(c, m)
           /\ word.kind = "head" => Section(c \cup {LineOf(n, word)}, n + 1) = word.of
<1> DEFINE line == LineOf(n, word)
           more == c \cup {line}
<1>1. /\ line.at = n + One(word.kind = "head") /\ line.kind = word.kind /\ line.of = word.of
      /\ n \in Nat /\ (word.kind = "head" => line.at = n + 1)
  BY DEF LineOf, Sectioned, One
<1>2. \A other \in c : other.at \in Nat /\ other.at <= n
  BY DEF Sectioned, ConfigFiles, Lines
<1> HIDE DEF line
<1>3. ASSUME NEW m \in 0..n
      PROVE  Section(more, m) = Section(c, m)
  <2>1. HeadersAbove(more, m) = HeadersAbove(c, m)
    BY <1>1, <1>3 DEF HeadersAbove
  <2> DEFINE above == HeadersAbove(c, m)
  <2>2. Section(more, m) = Section(c, m)
    <3>1. Section(c, m) = IF Lowest(above) = {} THEN NoId ELSE (CHOOSE h \in Lowest(above) : TRUE).of
      BY DEF Section
    <3> HIDE DEF more
    <3>2. Section(more, m) = IF Lowest(above) = {} THEN NoId ELSE (CHOOSE h \in Lowest(above) : TRUE).of
      BY <2>1 DEF Section
    <3> QED BY <3>1, <3>2
  <2> QED BY <2>2
<1>4. ASSUME word.kind = "head"
      PROVE  Section(more, n + 1) = word.of
  <2>1. line \in HeadersAbove(more, n + 1) /\ \A h \in HeadersAbove(more, n + 1) : h = line \/ h \in c
    BY <1>1, <1>4 DEF HeadersAbove
  <2> DEFINE above == HeadersAbove(more, n + 1)
  <2> HIDE DEF above
  <2>0. \A h \in above : h.at <= n + 1 /\ (h # line => h.at < n + 1)
    <3>1. \A h \in above : h = line \/ h \in c
      BY <2>1 DEF above
    <3>2. line.at = n + 1 /\ \A h \in c : h.at \in Nat /\ h.at <= n
      BY <1>1, <1>2, <1>4
    <3> HIDE DEF above, more
    <3> QED BY <1>1, <3>1, <3>2
  <2>2. Lowest(above) = {line}
    <3>1. line \in above /\ line.at = n + 1
      BY <1>1, <1>4, <2>1 DEF above
    <3>2. \A h \in above : h # line => ~ (line.at <= h.at)
      <4> SUFFICES ASSUME NEW h \in above, h # line
                   PROVE  ~ (line.at <= h.at)
        OBVIOUS
      <4>1. h \in c
        BY <2>1 DEF above
      <4>2. h.at \in Nat /\ h.at < n + 1
        BY <1>2, <2>0, <4>1
      <4> QED BY <1>1, <3>1, <4>2
    <3> QED BY <2>0, <3>1, <3>2 DEF Lowest
  <2> QED BY <1>1, <2>2 DEF Section, above
<1> QED BY <1>3, <1>4 DEF line

(* The game is that of the last header before the last plugin: what the    *)
(* word reader keeps track of with GAME_ID.                                *)
LEMMA GetIdGrows ==
    ASSUME NEW c, NEW n \in Nat, Sectioned(c, n), NEW word \in Word, NEW p
    PROVE  GetId(c \cup {LineOf(n, word)}, p) =
               IF word.kind = "suprx" /\ word.of = p THEN Section(c, n) ELSE GetId(c, p)
<1> DEFINE line == LineOf(n, word)
           more == c \cup {line}
           Hits(d) == {l \in d : IsPlugin(l, "suprx", p)}
<1>1. line.kind = word.kind /\ line.of = word.of /\ n \in Nat /\ (word.kind = "suprx" => line.at = n)
  BY DEF LineOf, Sectioned, One
<1>2. \A other \in c : other.at \in Nat /\ other.at <= n
  BY DEF Sectioned, ConfigFiles, Lines
<1>3. \A m \in 0..n : Section(more, m) = Section(c, m)
  BY SectionGrows
<1> HIDE DEF line
<1>4. CASE word.kind = "suprx" /\ word.of = p
  <2>1. line \in Hits(more) /\ \A l \in Hits(more) : l.at \in Nat /\ l.at <= n
    BY <1>1, <1>2, <1>4 DEF IsPlugin
  <2> DEFINE hits == Hits(more)
  <2> HIDE DEF hits
  <2>2. line \in Lowest(hits) /\ \A l \in Lowest(hits) : l.at = n
    BY <1>1, <1>4, <2>1 DEF Lowest, hits
  <2> HIDE DEF more
  <2>3. GetId(more, p) = Section(more, n)
    BY <2>2, Zenon DEF GetId, hits
  <2> QED BY <1>1, <1>3, <1>4, <2>3 DEF more, line
<1>5. CASE ~ (word.kind = "suprx" /\ word.of = p)
  <2>1. Hits(more) = Hits(c)
    BY <1>1, <1>5 DEF IsPlugin
  <2>2. \A l \in Lowest(Hits(c)) : l.at \in 0..n
    BY <1>2 DEF Lowest
  <2> DEFINE low == Lowest(Hits(c))
             h == CHOOSE l \in low : TRUE
  <2>3. GetId(more, p) = IF low = {} THEN NoId ELSE Section(more, h.at)
    <3> DEFINE found == Hits(more)
    <3>1. GetId(more, p) = IF Lowest(found) = {} THEN NoId
                           ELSE Section(more, (CHOOSE l \in Lowest(found) : TRUE).at)
      BY Zenon DEF GetId
    <3>2. found = Hits(c)
      BY <2>1
    <3> HIDE DEF found, more
    <3> QED BY <3>1, <3>2
  <2>4. GetId(c, p) = IF low = {} THEN NoId ELSE Section(c, h.at)
    BY DEF GetId
  <2> HIDE DEF low, more
  <2>5. low # {} => h \in low
    OBVIOUS
  <2> HIDE DEF h
  <2>6. low # {} => Section(more, h.at) = Section(c, h.at)
    BY <1>3, <2>2, <2>5 DEF low
  <2>7. GetId(more, p) = GetId(c, p)
    BY <2>3, <2>4, <2>6
  <2> QED BY <1>5, <2>7 DEF more, line
<1> QED BY <1>4, <1>5

-----------------------------------------------------------------------------
(* The headers, all of them and up to a section.                           *)
Headers(c) == {h \in c : h.kind = "head"}
UpTo(c, m) == {h \in c : h.kind = "head" /\ h.at <= m}

(* Renumbering gives a line the number of the headers that are left.       *)
LEMMA RenumberedGrows ==
    ASSUME NEW c, NEW n \in Nat, Sectioned(c, n), NEW d \in SUBSET c, NEW word \in Word
    PROVE  /\ Renumbered(d \cup {LineOf(n, word)}) =
                  Renumbered(d) \cup {LineOf(Cardinality(Headers(d)), word)}
           /\ Cardinality(Headers(d \cup {LineOf(n, word)})) =
                  Cardinality(Headers(d)) + One(word.kind = "head")
           /\ Cardinality(Headers(d)) \in Nat
<1> DEFINE line == LineOf(n, word)
           more == d \cup {line}
<1>1. /\ line \in Lines /\ line.kind = word.kind /\ line.of = word.of
      /\ line.at = n + One(word.kind = "head") /\ (word.kind = "head" => line.at = n + 1)
      /\ n <= line.at /\ line.at \in Nat
  <2>1. line \in Lines
    BY SectionedGrows
  <2>2. line.kind = word.kind /\ line.of = word.of /\ line.at = n + One(word.kind = "head")
    BY DEF LineOf
  <2>3. One(word.kind = "head") \in {0, 1} /\ (word.kind = "head" => One(word.kind = "head") = 1)
    BY DEF One
  <2> HIDE DEF line
  <2> QED BY <2>1, <2>2, <2>3
<1>2. \A other \in d : other \in Lines /\ other.at \in Nat /\ other.at <= n
  BY DEF Sectioned, ConfigFiles, Lines
<1>3. IsFiniteSet(Headers(d))
  <2>1. IsFiniteSet(c)
    BY DEF Sectioned
  <2>2. Headers(d) \in SUBSET c
    BY DEF Headers
  <2> QED BY <2>1, <2>2, FS_Subset
<1>4. Cardinality(Headers(d)) \in Nat
  BY <1>3, FS_CardinalityType
<1> HIDE DEF line
<1>5. Cardinality(Headers(more)) = Cardinality(Headers(d)) + One(word.kind = "head")
  <2>1. CASE word.kind = "head"
    <3>1. line \notin d
      BY <1>1, <1>2, <2>1
    <3>2. Headers(more) = Headers(d) \cup {line} /\ line \notin Headers(d)
      BY <1>1, <2>1, <3>1 DEF Headers
    <3> HIDE DEF more
    <3>3. Cardinality(Headers(more)) = Cardinality(Headers(d)) + 1
      BY <1>3, <3>2, FS_AddElement
    <3> QED BY <2>1, <3>3 DEF One
  <2>2. CASE word.kind # "head"
    <3>1. Headers(more) = Headers(d)
      BY <1>1, <2>2 DEF Headers
    <3> HIDE DEF more
    <3> QED BY <1>4, <2>2, <3>1 DEF One
  <2> QED BY <2>1, <2>2
<1>6. \A l \in d : UpTo(more, l.at) = UpTo(d, l.at)
  BY <1>1, <1>2 DEF UpTo
<1>7. UpTo(more, line.at) = Headers(more)
  <2>1. \A h \in more : h.at <= line.at
    BY <1>1, <1>2
  <2> HIDE DEF more
  <2> QED BY <2>1 DEF UpTo, Headers
<1> DEFINE New(e, l) == [l EXCEPT !.at = Cardinality(UpTo(e, l.at))]
<1>8. \A e : Renumbered(e) = {New(e, l) : l \in e}
  BY DEF Renumbered, UpTo
<1>9. \A l \in d : New(more, l) = New(d, l)
  BY <1>6
<1>10. New(more, line) = LineOf(Cardinality(Headers(d)), word)
  <2> DEFINE k == Cardinality(Headers(more))
  <2>1. New(more, line) = [line EXCEPT !.at = k]
    BY <1>7
  <2>2. k = Cardinality(Headers(d)) + One(word.kind = "head")
    BY <1>5
  <2> HIDE DEF k, New, more
  <2>3. [line EXCEPT !.at = k] = [at |-> k, kind |-> word.kind, of |-> word.of]
    BY <1>1 DEF Lines
  <2> QED BY <2>1, <2>2, <2>3 DEF LineOf
<1>11. Renumbered(more) = Renumbered(d) \cup {New(more, line)}
  <2> HIDE DEF New
  <2>1. {New(more, l) : l \in more} = {New(d, l) : l \in d} \cup {New(more, line)}
    BY <1>9
  <2> QED BY <1>8, <2>1
<1>12. Renumbered(more) = Renumbered(d) \cup {LineOf(Cardinality(Headers(d)), word)}
  BY <1>10, <1>11
<1> HIDE DEF more
<1>13. more = d \cup {LineOf(n, word)}
  BY DEF more, line
<1> QED BY <1>4, <1>5, <1>12, <1>13

(* Whether a line is deleted does not depend on the others.                *)
LEMMA DeletedGrows ==
    ASSUME NEW c, NEW line, NEW p, NEW i
    PROVE  /\ DeleteLines(c, p, i) \subseteq c
           /\ DeleteLines(c \cup {line}, p, i) =
                DeleteLines(c, p, i) \cup (IF Dropped(line, p, i) THEN {} ELSE {line})
BY DEF DeleteLines

(* The kernel plugin under every header of the kernel.                     *)
Kernels(c, p) == c \cup {Plugin(h.at, "skprx", p) : h \in {g \in c : g = Header(g.at, Kernel)}}

LEMMA KernelsGrow ==
    ASSUME NEW c, NEW n \in Nat, NEW word \in Word, NEW p
    PROVE  Kernels(c \cup {LineOf(n, word)}, p) =
             Kernels(c, p) \cup {LineOf(n, word)}
               \cup (IF word.kind = "head" /\ word.of = Kernel
                     THEN {Plugin(n + 1, "skprx", p)} ELSE {})
<1> DEFINE line == LineOf(n, word)
<1>1. line = Header(line.at, Kernel) <=> word.kind = "head" /\ word.of = Kernel
  BY DEF LineOf, Header
<1>2. word.kind = "head" => line.at = n + 1
  BY DEF LineOf, One
<1> HIDE DEF line
<1>3. Kernels(c \cup {line}, p) =
        Kernels(c, p) \cup {line}
          \cup (IF word.kind = "head" /\ word.of = Kernel THEN {Plugin(line.at, "skprx", p)} ELSE {})
  <2>1. {g \in c \cup {line} : g = Header(g.at, Kernel)} =
          {g \in c : g = Header(g.at, Kernel)}
            \cup (IF word.kind = "head" /\ word.of = Kernel THEN {line} ELSE {})
    BY <1>1
  <2> QED BY <2>1 DEF Kernels
<1> QED BY <1>2, <1>3 DEF line

-----------------------------------------------------------------------------
(* The sections of the lines that are dealt with.                          *)
SoFar == MeaningOf(file.lines, Copied)
HeadsSoFar == Heads(file.lines, Copied)

(* The invariant of each of the three loops: it has done to these sections *)
(* what TaiConfig says, GAME_ID holds the header of the last one.          *)
Reads == call = "read" => header = Section(SoFar, HeadsSoFar) /\ gameId = GetId(SoFar, path)
Writes == call = "write" => Meaning(temp) = Kernels(SoFar, path) /\ Total(temp) = HeadsSoFar
Deletes ==
    LET left == DeleteLines(SoFar, path, id)
    IN  call = "delete" => Meaning(temp) = Renumbered(left) /\ Total(temp) = Cardinality(Headers(left))

Agreeing ==
    call # "none" /\ Plain(file) =>
        AtLine /\ Sectioned(SoFar, HeadsSoFar) /\ Reads /\ Writes /\ Deletes

(* A word to a line.                                                       *)
LEMMA PlainLine ==
    ASSUME Typed, AtLine, rest # <<>>, Plain(file), Head(rest) # <<>>
    PROVE  /\ Head(rest)[1] \in Word /\ Len(Head(rest)) = 1 /\ Head(Head(rest)) = Head(rest)[1]
           /\ ~ Head(rest)[1].inside
           /\ \A kind, of : Has(Head(rest), kind, of) <=> Head(rest)[1].kind = kind /\ Head(rest)[1].of = of
           /\ LineDropped(Head(rest)) <=> Dropped(LineOf(HeadsSoFar, Head(rest)[1]), path, id)
<1> DEFINE line == Head(rest)
<1>1. line \in Seq(Word) /\ line = file.lines[Copied + 1] /\ Copied + 1 \in DOMAIN file.lines
  BY NextLine
<1> HIDE DEF line
<1>2. Len(line) <= 1 /\ \A j \in DOMAIN line : ~ line[j].inside
  BY <1>1 DEF Plain
<1>3. line # <<>>
  BY DEF line
<1>4. Len(line) = 1 /\ DOMAIN line = {1} /\ line[1] \in Word /\ line = <<line[1]>> /\ Head(line) = line[1]
  <2>1. Len(line) \in Nat /\ Len(line) > 0 /\ DOMAIN line = 1..Len(line)
    BY <1>1, <1>3
  <2>2. Len(line) = 1
    BY <1>2, <2>1
  <2>3. line[1] \in Word /\ Head(line) = line[1]
    BY <1>1, <1>3, <2>2
  <2>4. line = <<line[1]>>
    BY <1>1, <2>2
  <2> QED BY <2>1, <2>2, <2>3, <2>4
<1>5. ~ line[1].inside
  BY <1>2, <1>4
<1>6. \A kind, of : Has(line, kind, of) <=> line[1].kind = kind /\ line[1].of = of
  BY <1>4 DEF Has
<1>7. LineDropped(line) <=> Dropped(LineOf(HeadsSoFar, line[1]), path, id)
  <2>1. /\ LineOf(HeadsSoFar, line[1]).kind = line[1].kind
        /\ LineOf(HeadsSoFar, line[1]).of = line[1].of
    BY DEF LineOf
  <2>2. (\E i \in DOMAIN line : line[i].kind \in {"head", "user"} /\ line[i].of = id)
           <=> line[1].kind \in {"head", "user"} /\ line[1].of = id
    BY <1>4
  <2>3. (\E i \in DOMAIN line : line[i].kind = "libpgf") <=> line[1].kind = "libpgf"
    BY <1>4
  <2>4. /\ Has(line, "skprx", path) <=> line[1].kind = "skprx" /\ line[1].of = path
        /\ Has(line, "suprx", path) <=> line[1].kind = "suprx" /\ line[1].of = path
    BY <1>6
  <2>5. LineDropped(line) <=>
           \/ line[1].kind = "skprx" /\ line[1].of = path
           \/ line[1].kind = "suprx" /\ line[1].of = path
           \/ id = NoId \/ (line[1].kind \in {"head", "user"} /\ line[1].of = id)
           \/ path = OldFolder /\ line[1].kind = "libpgf"
    BY <2>2, <2>3, <2>4, Zenon DEF LineDropped
  <2>6. Dropped(LineOf(HeadsSoFar, line[1]), path, id) <=>
           \/ line[1].kind = "skprx" /\ line[1].of = path
           \/ line[1].kind = "suprx" /\ line[1].of = path
           \/ id = NoId \/ (line[1].kind \in {"head", "user"} /\ line[1].of = id)
           \/ path = OldFolder /\ line[1].kind = "libpgf"
    <3> DEFINE seen == LineOf(HeadsSoFar, line[1])
    <3>1. seen.kind = line[1].kind /\ seen.of = line[1].of
      BY <2>1
    <3> HIDE DEF seen
    <3>2. Dropped(seen, path, id) <=>
           \/ seen.kind = "skprx" /\ seen.of = path
           \/ seen.kind = "suprx" /\ seen.of = path
           \/ id = NoId \/ (seen.kind \in {"head", "user"} /\ seen.of = id)
           \/ path = OldFolder /\ seen.kind = "libpgf"
      BY DEF Dropped, IsPlugin, ContainsId
    <3>3. Dropped(seen, path, id) <=>
           \/ line[1].kind = "skprx" /\ line[1].of = path
           \/ line[1].kind = "suprx" /\ line[1].of = path
           \/ id = NoId \/ (line[1].kind \in {"head", "user"} /\ line[1].of = id)
           \/ path = OldFolder /\ line[1].kind = "libpgf"
      BY <3>1, <3>2
    <3> QED BY <3>3 DEF seen
  <2> QED BY <2>5, <2>6, Zenon
<1> QED BY <1>4, <1>5, <1>6, <1>7 DEF line

(* What the loops have seen after the next line.                           *)
LEMMA NextSeen ==
    ASSUME Typed, AtLine, rest # <<>>, Plain(file), Sectioned(SoFar, HeadsSoFar),
           rest' = Tail(rest), UNCHANGED file
    PROVE  /\ AtLine' /\ HeadsSoFar \in Nat
           /\ Sectioned(SoFar, HeadsSoFar)'
           /\ Head(rest) = <<>> => SoFar' = SoFar /\ HeadsSoFar' = HeadsSoFar
           /\ Head(rest) # <<>> =>
                /\ SoFar' = SoFar \cup {LineOf(HeadsSoFar, Head(rest)[1])}
                /\ HeadsSoFar' = HeadsSoFar + One(Head(rest)[1].kind = "head")
<1>1. Copied \in Nat /\ Head(rest) = file.lines[Copied + 1]
  BY NextLine
<1>2. Copied' = Copied + 1
  BY NextLine DEF Copied
<1>3. AtLine'
  <2>1. Len(Tail(rest)) <= Len(file.lines)
    <3>1. Len(Tail(rest)) = Len(rest) - 1 /\ Len(rest) \in Nat /\ Len(file.lines) \in Nat
      BY NextLine DEF Typed
    <3> QED BY <3>1 DEF AtLine
  <2>2. \A i \in 1..Len(Tail(rest)) : Tail(rest)[i] = file.lines[Copied + 1 + i]
    BY NextLine
  <2> QED BY <1>2, <2>1, <2>2 DEF AtLine
<1>4. HeadsSoFar \in Nat
  BY DEF Sectioned
<1>5. HeadsSoFar' = HeadsSoFar + One(IsHead(Head(rest)))
  BY <1>1, <1>2, HeadsGrow DEF HeadsSoFar
<1>6. CASE Head(rest) = <<>>
  <2>1. SoFar' = SoFar
    BY <1>1, <1>2, <1>6, MeaningGrows DEF SoFar
  <2>2. HeadsSoFar' = HeadsSoFar
    BY <1>4, <1>5, <1>6 DEF IsHead, One
  <2> QED BY <1>3, <1>4, <1>6, <2>1, <2>2
<1>7. CASE Head(rest) # <<>>
  <2>1. SoFar' = SoFar \cup {LineOf(HeadsSoFar, Head(rest)[1])}
    BY <1>1, <1>2, <1>7, MeaningGrows DEF SoFar, HeadsSoFar
  <2>2. HeadsSoFar' = HeadsSoFar + One(Head(rest)[1].kind = "head")
    BY <1>5, <1>7 DEF IsHead
  <2>3. Head(rest)[1] \in Word
    BY <1>7, PlainLine
  <2>4. Sectioned(SoFar', HeadsSoFar')
    BY <1>4, <2>1, <2>2, <2>3, SectionedGrows
  <2> QED BY <1>3, <1>4, <1>7, <2>1, <2>2, <2>4
<1> QED BY <1>6, <1>7

(* At the start of a call there is nothing to agree on: for the word       *)
(* reader because GAME_ID is empty when it is called.                      *)
LEMMA CallAgreesSoFar ==
    ASSUME Typed, NEW name, NEW p, NEW i, Call(name, p, i),
           name = "read" => header' = NoId /\ gameId' = NoId
    PROVE  Agreeing'
<1>1. file.lines \in Seq(Seq(Word)) /\ Len(file.lines) - Len(file.lines) = 0
  BY DEF Typed, Text
<1>2. file' = file /\ temp' = EmptyText /\ rest' = file.lines /\ id' = i /\ call' = name /\ path' = p
  BY DEF Call
<1>3. Copied' = 0 /\ AtLine'
  BY <1>1, <1>2 DEF Copied, AtLine
<1>4. SoFar' = {} /\ HeadsSoFar' = 0
  BY <1>1, <1>2, <1>3, HeadsGrow, MeaningGrows DEF SoFar, HeadsSoFar
<1>5. EmptyText.lines = <<>> /\ Len(<<>>) = 0
  BY DEF EmptyText
<1>6. Meaning(temp)' = {} /\ Total(temp)' = 0
  BY <1>2, <1>5, HeadsGrow, MeaningGrows DEF Meaning, Total
<1>7. Section({}, 0) = NoId /\ GetId({}, p) = NoId
  BY DEF Section, GetId, HeadersAbove, Lowest
<1>8. Kernels({}, p) = {} /\ DeleteLines({}, p, i) = {} /\ Renumbered({}) = {}
      /\ Cardinality(Headers({})) = 0
  BY FS_EmptySet DEF Kernels, DeleteLines, Renumbered, Headers
<1>9. Reads' /\ Writes' /\ Deletes'
  BY <1>2, <1>4, <1>6, <1>7, <1>8 DEF Reads, Writes, Deletes
<1> QED BY <1>3, <1>4, <1>9, SectionedStart DEF Agreeing

(* A word, a line written and a line deleted keep the loops' invariant.    *)
LEMMA ReadAgrees == Typed /\ Agreeing /\ (ReadWord \/ PassEnd) => Agreeing'
<1> SUFFICES ASSUME Typed, Agreeing, ReadWord \/ PassEnd, Plain(file)
             PROVE  Agreeing'
  BY DEF Agreeing, ReadWord, PassEnd, args, Plain
<1>1. /\ call = "read" /\ rest # <<>> /\ UNCHANGED <<file, temp, call, path, id>>
      /\ AtLine /\ Sectioned(SoFar, HeadsSoFar) /\ Reads
  BY DEF Agreeing, ReadWord, PassEnd, args
<1>2. CASE PassEnd
  <2>1. Head(rest) = <<>> /\ rest' = Tail(rest) /\ UNCHANGED <<header, gameId>>
    BY <1>2 DEF PassEnd
  <2>2. AtLine' /\ Sectioned(SoFar, HeadsSoFar)' /\ SoFar' = SoFar /\ HeadsSoFar' = HeadsSoFar
    BY <1>1, <2>1, NextSeen
  <2>3. Reads'
    BY <1>1, <2>1, <2>2 DEF Reads
  <2> QED BY <1>1, <2>2, <2>3 DEF Agreeing, Writes, Deletes
<1>3. CASE ReadWord
  <2> DEFINE word == Head(rest)[1]
  <2>1. Head(rest) # <<>>
    BY <1>3 DEF ReadWord
  <2>2. /\ word \in Word /\ Len(Head(rest)) = 1 /\ Head(Head(rest)) = word /\ ~ word.inside
    BY <1>1, <2>1, PlainLine
  <2>3. rest' = Tail(rest)
    BY <1>3, <2>2 DEF ReadWord
  <2>4. /\ AtLine' /\ HeadsSoFar \in Nat /\ Sectioned(SoFar, HeadsSoFar)'
        /\ SoFar' = SoFar \cup {LineOf(HeadsSoFar, word)}
        /\ HeadsSoFar' = HeadsSoFar + One(word.kind = "head")
    BY <1>1, <2>1, <2>3, NextSeen
  <2>5. /\ header' = IF word.kind = "head" THEN word.of ELSE header
        /\ gameId' = IF word.kind = "suprx" /\ word.of = path THEN header' ELSE gameId
    <3>1. header' = HeaderAfter(word) /\ gameId' = IF Has(<<word>>, "suprx", path) THEN header' ELSE gameId
      BY <1>3, <2>2 DEF ReadWord
    <3> QED BY <2>2, <3>1 DEF HeaderAfter, Has
  <2> HIDE DEF word
  <2>6. header = Section(SoFar, HeadsSoFar) /\ gameId = GetId(SoFar, path)
    BY <1>1 DEF Reads
  <2>7. header' = Section(SoFar', HeadsSoFar')
    <3>1. CASE word.kind = "head"
      <4>1. HeadsSoFar' = HeadsSoFar + 1
        BY <2>4, <3>1 DEF One
      <4> QED BY <1>1, <2>2, <2>4, <2>5, <3>1, <4>1, SectionGrows
    <3>2. CASE word.kind # "head"
      <4>1. HeadsSoFar' = HeadsSoFar
        BY <2>4, <3>2 DEF One
      <4>2. HeadsSoFar \in 0..HeadsSoFar
        BY <2>4
      <4>3. Section(SoFar', HeadsSoFar) = Section(SoFar, HeadsSoFar)
        BY <1>1, <2>2, <2>4, <4>2, SectionGrows
      <4> QED BY <2>5, <2>6, <3>2, <4>1, <4>3
    <3> QED BY <3>1, <3>2
  <2>8. gameId' = GetId(SoFar', path)
    <3>1. GetId(SoFar', path) =
            IF word.kind = "suprx" /\ word.of = path THEN Section(SoFar, HeadsSoFar) ELSE GetId(SoFar, path)
      BY <1>1, <2>2, <2>4, GetIdGrows
    <3> QED BY <2>5, <2>6, <3>1
  <2>9. Reads'
    BY <1>1, <2>7, <2>8 DEF Reads
  <2> QED BY <1>1, <2>4, <2>9 DEF Agreeing, Writes, Deletes
<1> QED BY <1>2, <1>3

LEMMA WriteLineAgrees == CopyInv /\ Agreeing /\ WriteLine => Agreeing'
<1> SUFFICES ASSUME CopyInv, Agreeing, WriteLine, Plain(file)
             PROVE  Agreeing'
  BY DEF Agreeing, WriteLine, args, Plain
<1>1. /\ call = "write" /\ rest # <<>> /\ rest' = Tail(rest) /\ UNCHANGED <<file, call, path, id>>
      /\ AtLine /\ Sectioned(SoFar, HeadsSoFar) /\ Typed /\ path \in Folders /\ id \in Ids
      /\ Meaning(temp) = Kernels(SoFar, path) /\ Total(temp) = HeadsSoFar
      /\ temp \in Text /\ temp.ended
  BY DEF Agreeing, Writes, WriteLine, args, CopyInv, Typed, Rewrites
<1> DEFINE line == Head(rest)
           word == line[1]
           n == HeadsSoFar
<1>2. AtLine' /\ n \in Nat /\ Sectioned(SoFar, HeadsSoFar)'
  BY <1>1, NextSeen
<1>3. CASE line = <<>>
  <2>1. ~ Has(line, "head", Kernel)
    BY <1>3 DEF Has
  <2>2. temp' = temp
    BY <1>3, <2>1 DEF WriteLine
  <2>3. SoFar' = SoFar /\ HeadsSoFar' = HeadsSoFar
    BY <1>1, <1>3, NextSeen
  <2>4. Writes'
    BY <1>1, <2>2, <2>3 DEF Writes
  <2> QED BY <1>1, <1>2, <2>4 DEF Agreeing, Reads, Deletes
<1>4. CASE line # <<>>
  <2>1. /\ line \in Seq(Word) /\ word \in Word
        /\ Has(line, "head", Kernel) <=> word.kind = "head" /\ word.of = Kernel
    BY <1>1, <1>4, PlainLine, NextLine
  <2>2. SoFar' = SoFar \cup {LineOf(n, word)} /\ HeadsSoFar' = n + One(word.kind = "head")
    BY <1>1, <1>4, NextSeen
  <2> DEFINE copied == Put(temp, line, TRUE)
  <2>3. temp' = IF Has(line, "head", Kernel) THEN Put(copied, <<W("skprx", path)>>, TRUE) ELSE copied
    BY <1>4 DEF WriteLine
  <2>4. /\ copied \in Text /\ copied.ended
        /\ Meaning(copied) = Kernels(SoFar, path) \cup {LineOf(n, word)}
        /\ Total(copied) = n + One(word.kind = "head")
    BY <1>1, <1>4, <2>1, PutAdds, PutMeans
  <2> HIDE DEF copied, line, word, n
  <2>5. Kernels(SoFar', path) =
          Kernels(SoFar, path) \cup {LineOf(n, word)}
            \cup (IF word.kind = "head" /\ word.of = Kernel THEN {Plugin(n + 1, "skprx", path)} ELSE {})
    BY <1>2, <2>1, <2>2, KernelsGrow
  <2>6. CASE word.kind = "head" /\ word.of = Kernel
    <3> DEFINE plugin == W("skprx", path)
    <3>1. <<plugin>> \in Seq(Word) /\ <<plugin>> # <<>> /\ <<plugin>>[1] = plugin
      BY <1>1, OwnLines
    <3>2. temp' = Put(copied, <<plugin>>, TRUE)
      BY <2>1, <2>3, <2>6
    <3>3. One(plugin.kind = "head") = 0 /\ Total(copied) = n + 1
      BY <2>4, <2>6 DEF One, W
    <3>4. LineOf(n + 1, plugin) = Plugin(n + 1, "skprx", path)
      BY <1>2 DEF LineOf, Plugin, W, One
    <3> HIDE DEF plugin
    <3>5. Meaning(temp') = Meaning(copied) \cup {LineOf(n + 1, plugin)} /\ Total(temp') = n + 1 + 0
      <4>1. /\ Meaning(temp') = Meaning(copied) \cup {LineOf(Total(copied), plugin)}
            /\ Total(temp') = Total(copied) + One(plugin.kind = "head")
        BY <2>4, <3>1, <3>2, PutWord
      <4> QED BY <3>3, <4>1
    <3>6. HeadsSoFar' = n + 1
      BY <2>2, <2>6 DEF One
    <3>7. Meaning(temp') = Kernels(SoFar', path) /\ Total(temp') = HeadsSoFar'
      BY <1>2, <2>4, <2>5, <2>6, <3>4, <3>5, <3>6
    <3> QED BY <1>1, <1>2, <3>7 DEF Agreeing, Reads, Writes, Deletes
  <2>7. CASE ~ (word.kind = "head" /\ word.of = Kernel)
    <3>1. temp' = copied
      BY <2>1, <2>3, <2>7
    <3>2. Meaning(temp') = Kernels(SoFar', path) /\ Total(temp') = HeadsSoFar'
      BY <2>2, <2>4, <2>5, <2>7, <3>1
    <3> QED BY <1>1, <1>2, <3>2 DEF Agreeing, Reads, Writes, Deletes
  <2> QED BY <2>6, <2>7
<1> QED BY <1>3, <1>4

LEMMA DeleteLineAgrees == CopyInv /\ Agreeing /\ DeleteLine => Agreeing'
<1> SUFFICES ASSUME CopyInv, Agreeing, DeleteLine, Plain(file)
             PROVE  Agreeing'
  BY DEF Agreeing, DeleteLine, args, Plain
<1> DEFINE left == DeleteLines(SoFar, path, id)
           line == Head(rest)
           word == line[1]
           n == HeadsSoFar
<1>1. /\ call = "delete" /\ rest # <<>> /\ rest' = Tail(rest) /\ UNCHANGED <<file, call, path, id>>
      /\ AtLine /\ Sectioned(SoFar, HeadsSoFar) /\ Typed /\ id \in Ids
      /\ Meaning(temp) = Renumbered(left) /\ Total(temp) = Cardinality(Headers(left))
      /\ temp \in Text /\ temp.ended
  BY DEF Agreeing, Deletes, DeleteLine, args, CopyInv, Typed, Rewrites
<1>2. AtLine' /\ n \in Nat /\ Sectioned(SoFar, HeadsSoFar)'
  BY <1>1, NextSeen
<1>3. Ended \in BOOLEAN
  BY <1>1 DEF Ended, Typed, Text
<1>4. temp' = IF LineDropped(line) THEN temp ELSE Put(temp, line, Ended)
  BY DEF DeleteLine
<1>5. left \in SUBSET SoFar
  BY DeletedGrows
<1>6. CASE line = <<>>
  <2>1. ~ LineDropped(line)
    BY <1>1, <1>6, ConfigTextAssumption DEF LineDropped, Has
  <2>2. temp' = Put(temp, <<>>, Ended)
    BY <1>4, <1>6, <2>1
  <2>3. Meaning(temp') = Meaning(temp) /\ Total(temp') = Total(temp)
    BY <1>1, <1>3, <2>2, PutsNothing
  <2>4. SoFar' = SoFar
    BY <1>1, <1>6, NextSeen
  <2>5. Deletes'
    BY <1>1, <2>3, <2>4 DEF Deletes
  <2> QED BY <1>1, <1>2, <2>5 DEF Agreeing, Reads, Writes
<1>7. CASE line # <<>>
  <2>1. /\ line \in Seq(Word) /\ word \in Word
        /\ LineDropped(line) <=> Dropped(LineOf(n, word), path, id)
    BY <1>1, <1>7, PlainLine, NextLine
  <2>2. SoFar' = SoFar \cup {LineOf(n, word)}
    BY <1>1, <1>7, NextSeen
  <2>3. DeleteLines(SoFar', path, id) = left \cup (IF LineDropped(line) THEN {} ELSE {LineOf(n, word)})
    BY <2>1, <2>2, DeletedGrows
  <2>4. CASE LineDropped(line)
    <3>1. temp' = temp /\ DeleteLines(SoFar', path, id) = left
      BY <1>4, <2>3, <2>4
    <3>2. Deletes'
      BY <1>1, <3>1 DEF Deletes
    <3> QED BY <1>1, <1>2, <3>2 DEF Agreeing, Reads, Writes
  <2>5. CASE ~ LineDropped(line)
    <3>1. temp' = Put(temp, line, Ended)
      BY <1>4, <2>5
    <3>2. DeleteLines(SoFar', path, id) = left \cup {LineOf(n, word)}
      BY <2>3, <2>5
    <3>0. Sectioned(SoFar, n)
      BY <1>1
    <3> HIDE DEF left, line, word, n
    <3>3. /\ Meaning(temp') = Meaning(temp) \cup {LineOf(Total(temp), word)}
          /\ Total(temp') = Total(temp) + One(word.kind = "head")
      BY <1>1, <1>3, <1>7, <2>1, <3>1, PutMeans DEF word
    <3>4. /\ Renumbered(left \cup {LineOf(n, word)}) =
                  Renumbered(left) \cup {LineOf(Cardinality(Headers(left)), word)}
          /\ Cardinality(Headers(left \cup {LineOf(n, word)})) =
                  Cardinality(Headers(left)) + One(word.kind = "head")
      BY <1>2, <1>5, <2>1, <3>0, RenumberedGrows
    <3>5. Deletes'
      BY <1>1, <3>2, <3>3, <3>4 DEF Deletes
    <3> QED BY <1>1, <1>2, <3>5 DEF Agreeing, Reads, Writes
  <2> QED BY <2>4, <2>5
<1> QED BY <1>6, <1>7

(* When all has been read, the file is what was seen.                      *)
LEMMA AllSeen ==
    ASSUME Typed, rest = <<>>
    PROVE  SoFar = Meaning(file) /\ HeadsSoFar = Total(file)
<1>1. Copied = Len(file.lines)
  BY DEF Typed, Text, Copied
<1> QED BY <1>1 DEF SoFar, HeadsSoFar, Meaning, Total

(* The section at the end, and the return.                                 *)
LEMMA SectionAgrees == CopyInv /\ Agreeing /\ WriteSection => Agrees
<1> SUFFICES ASSUME CopyInv, Agreeing, WriteSection, Plain(file)
             PROVE  Meaning(file') = WriteLines(Meaning(file), path, id)
  BY DEF Agrees, WriteSection
<1> DEFINE n == HeadsSoFar
           c == Meaning(file)
<1>1. /\ call = "write" /\ rest = <<>> /\ path \in Folders /\ id \in Ids /\ Typed
      /\ Sectioned(SoFar, n) /\ Meaning(temp) = Kernels(SoFar, path) /\ Total(temp) = n
      /\ temp \in Text /\ temp.ended
  BY DEF Agreeing, Writes, WriteSection, CopyInv, Typed, Rewrites
<1>2. SoFar = c
  BY <1>1, AllSeen
<1>3. n \in Nat /\ End(c) = n
  BY <1>1, <1>2, EndOfSectioned DEF Sectioned
<1> DEFINE headed == Put(temp, <<W("head", id)>>, TRUE)
           patched == IF path = OldFolder THEN Put(headed, <<W("libpgf", "vs0")>>, TRUE) ELSE headed
<1>4. file' = Put(patched, <<W("suprx", path)>>, TRUE)
  BY DEF WriteSection
<1> HIDE DEF n, c
<1>5. \A kind, of : <<W(kind, of)>> # <<>> /\ <<W(kind, of)>>[1] = W(kind, of)
                    /\ W(kind, of).kind = kind /\ W(kind, of).of = of
  BY DEF W
<1>6. LineOf(n, W("head", id)) = Header(n + 1, id)
  BY <1>3 DEF LineOf, Header, W, One
<1>7. \A kind \in {"libpgf", "suprx"}, of \in Words : LineOf(n + 1, W(kind, of)) = Plugin(n + 1, kind, of)
  BY <1>3 DEF LineOf, Plugin, W, One
<1>0. "vs0" \in Words /\ path \in Words
  BY <1>1, WordsAssumption DEF Folders
<1>8. headed \in Text /\ headed.ended /\ Meaning(headed) = Kernels(c, path) \cup {Header(n + 1, id)}
      /\ Total(headed) = n + 1
  <2>1. <<W("head", id)>> \in Seq(Word)
    BY <1>1, OwnLines
  <2>2. One(W("head", id).kind = "head") = 1
    BY <1>5 DEF One
  <2>3. /\ headed \in Text /\ headed.ended
        /\ Meaning(headed) = Meaning(temp) \cup {LineOf(Total(temp), W("head", id))}
        /\ Total(headed) = Total(temp) + One(W("head", id).kind = "head")
    BY <1>1, <2>1, PutWord
  <2> HIDE DEF headed
  <2> QED BY <1>1, <1>2, <1>6, <2>2, <2>3
<1> HIDE DEF headed
<1>9. /\ patched \in Text /\ patched.ended /\ Total(patched) = n + 1
      /\ Meaning(patched) = Meaning(headed) \cup
            (IF path = OldFolder THEN {Plugin(n + 1, "libpgf", "vs0")} ELSE {})
  <2>1. CASE path = OldFolder
    <3>1. <<W("libpgf", "vs0")>> \in Seq(Word)
      BY <1>1, OwnLines
    <3>2. One(W("libpgf", "vs0").kind = "head") = 0
      BY <1>5 DEF One
    <3>3. patched = Put(headed, <<W("libpgf", "vs0")>>, TRUE)
      BY <2>1
    <3> HIDE DEF patched
    <3>4. patched \in Text /\ patched.ended
      BY <1>8, <3>1, <3>3, PutAdds
    <3>5. Meaning(patched) = Meaning(headed) \cup {LineOf(n + 1, W("libpgf", "vs0"))}
          /\ Total(patched) = n + 1 + 0
      <4>1. /\ Meaning(patched) = Meaning(headed) \cup {LineOf(Total(headed), W("libpgf", "vs0"))}
            /\ Total(patched) = Total(headed) + One(W("libpgf", "vs0").kind = "head")
        BY <1>8, <3>1, <3>3, PutWord
      <4> QED BY <1>8, <3>2, <4>1
    <3> QED BY <1>3, <1>7, <1>0, <2>1, <3>4, <3>5
  <2>2. CASE path # OldFolder
    BY <1>8, <2>2
  <2> QED BY <2>1, <2>2
<1> HIDE DEF patched
<1>10. Meaning(file') = Meaning(patched) \cup {Plugin(n + 1, "suprx", path)}
  <2>1. <<W("suprx", path)>> \in Seq(Word)
    BY <1>1, OwnLines
  <2>2. Meaning(file') = Meaning(patched) \cup {LineOf(n + 1, W("suprx", path))}
    BY <1>4, <1>9, <2>1, PutWord
  <2> QED BY <1>7, <1>0, <2>2
<1>11. Meaning(file') = WriteLines(c, path, id)
  BY <1>3, <1>8, <1>9, <1>10 DEF WriteLines, Kernels
<1> QED BY <1>11 DEF c

LEMMA ReturnAgrees == CopyInv /\ Agreeing /\ Return => Agrees
<1> SUFFICES ASSUME CopyInv, Agreeing, Return, Plain(file)
             PROVE  Agrees
  BY DEF Agrees
<1>1. Typed /\ rest = <<>> /\ SoFar = Meaning(file)
  BY AllSeen DEF CopyInv, Return
<1>2. CASE call = "read"
  BY <1>1, <1>2 DEF Agrees, Agreeing, Reads, Return
<1>3. CASE call = "delete"
  BY <1>1, <1>3 DEF Agrees, Agreeing, Deletes, Return
<1> QED BY <1>2, <1>3 DEF Return

LEMMA StepAgrees == CopyInv /\ Agreeing /\ [Next]_vars => Agreeing' /\ [Agrees]_vars
<1> SUFFICES ASSUME CopyInv, Agreeing, [Next]_vars
             PROVE  Agreeing' /\ [Agrees]_vars
  OBVIOUS
<1>0. Typed
  BY DEF CopyInv
<1>1. CASE \E p \in Folders : Start(p)
  BY <1>0, <1>1, CallAgreesSoFar DEF Start, Call, Agrees
<1>2. CASE \E p \in Folders, i \in Ids : Rewrite("write", p, i) \/ Rewrite("delete", p, i)
  BY <1>0, <1>2, CallAgreesSoFar DEF Rewrite, Call, Agrees
<1>3. CASE ReadWord \/ PassEnd
  BY <1>0, <1>3, ReadAgrees DEF ReadWord, PassEnd, Agrees
<1>4. CASE WriteLine
  BY <1>4, WriteLineAgrees DEF WriteLine, Agrees
<1>5. CASE DeleteLine
  BY <1>5, DeleteLineAgrees DEF DeleteLine, Agrees
<1>6. CASE WriteSection
  BY <1>6, SectionAgrees DEF WriteSection, Agreeing
<1>7. CASE Return
  BY <1>7, ReturnAgrees DEF Return, Agreeing
<1>8. CASE UNCHANGED vars
  BY <1>8 DEF vars, args, Agreeing, AtLine, Copied, SoFar, HeadsSoFar, Reads, Writes, Deletes,
              Total, Meaning, Plain
<1> QED BY <1>1, <1>2, <1>3, <1>4, <1>5, <1>6, <1>7, <1>8 DEF Next

(* For every file that has one word to a line and no star inside a word:   *)
(* reading finds the game TaiConfig finds, and writing and deleting make   *)
(* of it what TaiConfig makes of the sections.                             *)
THEOREM CallsAgree == Spec => CallAgrees
<1>1. Init => Agreeing
  BY DEF Init, Agreeing
<1> QED BY <1>1, CopyInit, StepCopies, StepAgrees, PTL DEF Spec, CallAgrees

-----------------------------------------------------------------------------
(* id.dat.                                                                 *)

HasMid(text) == \E i \in DOMAIN text : text[i].name = Mid

-----------------------------------------------------------------------------
(* What the texts turn into.                                               *)

(* A text and its blanked form have the same rows.                         *)
LEMMA BlankedTyped ==
    ASSUME NEW text \in DatTexts
    PROVE  /\ Blanked(text) \in DatTexts
           /\ DOMAIN Blanked(text) = DOMAIN text
           /\ \A i \in DOMAIN text :
                Blanked(text)[i] = Blank(text[i]) /\ Blanked(text)[i].name = text[i].name
<1>1. \A row \in Rows : Blank(row) \in Rows /\ Blank(row).name = row.name
    BY DEF Blank, Rows
<1>2. text \in [1..Len(text) -> Rows] /\ Len(text) \in Nat
    BY DEF DatTexts
<1>3. Blanked(text) \in [1..Len(text) -> Rows]
    BY <1>1, <1>2 DEF Blanked
<1>4. Blanked(text) \in Seq(Rows)
    BY <1>2, <1>3, SeqDef
<1> QED  BY <1>1, <1>2, <1>3, <1>4 DEF Blanked, DatTexts

(* The system writes rows.                                                 *)
LEMMA FilledTyped ==
    ASSUME NEW text \in DatTexts
    PROVE  Filled(text) \in DatTexts
<1>1. text \in [1..Len(text) -> Rows] /\ Len(text) \in Nat
    BY DEF DatTexts
<1>2. CASE HasMid(text)
    <2> DEFINE filled == [i \in DOMAIN text |->
                 IF text[i].name = Mid THEN [text[i] EXCEPT !.set = TRUE] ELSE text[i]]
    <2>1. filled \in [1..Len(text) -> Rows]
        BY <1>1 DEF Rows
    <2>2. filled \in Seq(Rows)
        BY <1>1, <2>1, SeqDef
    <2> QED  BY <1>2, <2>2 DEF Filled, HasMid, DatTexts
<1>3. CASE ~ HasMid(text)
    <2>1. [name |-> Mid, set |-> TRUE] \in Rows
        BY IdDatAssumption DEF Rows
    <2>2. Append(text, [name |-> Mid, set |-> TRUE]) \in Seq(Rows)
        BY <2>1 DEF DatTexts
    <2> QED  BY <1>3, <2>2 DEF Filled, HasMid, DatTexts
<1> QED  BY <1>2, <1>3

(* A write cut short leaves rows.                                          *)
LEMMA CutTyped ==
    ASSUME NEW text \in DatTexts, NEW n \in 0..Len(text)
    PROVE  Cut(text, n) \in DatTexts
BY DEF Cut, DatTexts

(* Blanking twice is blanking once.                                        *)
LEMMA BlankedTwice ==
    ASSUME NEW text \in DatTexts
    PROVE  Blanked(Blanked(text)) = Blanked(text)
<1>1. \A row \in Rows : Blank(Blank(row)) = Blank(row)
    BY DEF Blank, Rows
<1>2. \A i \in DOMAIN text : text[i] \in Rows
    BY DEF DatTexts
<1> QED  BY <1>1, <1>2, BlankedTyped DEF Blanked

(* Filling the row undoes the blanking and nothing else.                   *)
LEMMA BlankedFilled ==
    ASSUME NEW text \in DatTexts, HasMid(text)
    PROVE  Blanked(Filled(text)) = Blanked(text)
<1>1. \A i \in DOMAIN text : text[i] \in Rows
    BY DEF DatTexts
<1>2. \A row \in Rows : row.name = Mid => Blank([row EXCEPT !.set = TRUE]) = Blank(row)
    BY DEF Blank, Rows
<1>3. Filled(text) = [i \in DOMAIN text |->
                        IF text[i].name = Mid THEN [text[i] EXCEPT !.set = TRUE] ELSE text[i]]
    BY DEF Filled, HasMid
<1> QED  BY <1>1, <1>2, <1>3 DEF Blanked

(* A text whose row was set comes back.                                    *)
LEMMA OriginalComesBack ==
    ASSUME NEW text \in Originals
    PROVE  /\ HasMid(text) /\ HasMid(Blanked(text))
           /\ Filled(Blanked(text)) = text /\ Filled(text) = text
<1>1. text \in DatTexts /\ HasMid(text) /\ \A i \in DOMAIN text : text[i].name = Mid => text[i].set
    BY IdDatAssumption DEF HasMid
<1>2. \A i \in DOMAIN text : text[i] \in Rows
    BY <1>1 DEF DatTexts
<1>3. text = [i \in DOMAIN text |-> text[i]]
    BY <1>1 DEF DatTexts
<1>4. HasMid(Blanked(text))
    BY <1>1, BlankedTyped DEF HasMid
<1>5. \A row \in Rows : row.name = Mid /\ row.set
                          => [row EXCEPT !.set = TRUE] = row /\ [Blank(row) EXCEPT !.set = TRUE] = row
    BY DEF Blank, Rows
<1>6. \A row \in Rows : row.name # Mid => Blank(row) = row
    BY DEF Blank
<1>7. Filled(text) = text
    BY <1>1, <1>2, <1>3, <1>5 DEF Filled, HasMid
<1>8. Filled(Blanked(text)) =
        [i \in DOMAIN text |->
            IF text[i].name = Mid THEN [Blank(text[i]) EXCEPT !.set = TRUE] ELSE Blank(text[i])]
    BY <1>1, <1>4, BlankedTyped DEF Filled, HasMid
<1>9. \A i \in DOMAIN text :
        (IF text[i].name = Mid THEN [Blank(text[i]) EXCEPT !.set = TRUE] ELSE Blank(text[i])) = text[i]
    BY <1>1, <1>2, <1>5, <1>6
<1> QED  BY <1>1, <1>3, <1>4, <1>7, <1>8, <1>9

-----------------------------------------------------------------------------
(* The type invariant.                                                     *)

(* What copyFile reads exists: the strengthening the type needs.           *)
DatTyped == DatTypeOK /\ (step \in {"remove", "copy", "drop"} => tempDat \in DatTexts)

(* What a call changes besides the files.                                  *)
LEMMA CallTyped ==
    ASSUME DatTypeOK, NEW next \in {"remove", "copy", "drop", "reset", "off", "ready"},
           Go(next) \/ GoWrong(next)
    PROVE  /\ faults' \in 0..MaxFaults /\ clean' \in BOOLEAN /\ before' \in Originals
           /\ step' \in {next, "off"}
<1>1. CASE Go(next)
    BY <1>1 DEF Go, DatTypeOK
<1>2. CASE GoWrong(next)
    <2>1. faults' \in 0..MaxFaults
        BY <1>2, IdDatAssumption DEF GoWrong, DatTypeOK
    <2>2. clean' \in BOOLEAN
        BY <1>2, Zenon DEF GoWrong, DatTypeOK
    <2>3. before' \in Originals /\ step' \in {next, "off"}
        BY <1>2 DEF GoWrong, DatTypeOK
    <2> QED  BY <2>1, <2>2, <2>3
<1> QED  BY <1>1, <1>2

(* Every call keeps the files typed.                                       *)
LEMMA DatTypedInductive == DatTyped /\ [DatNext]_datVars => DatTyped'
<1> SUFFICES ASSUME DatTyped, [DatNext]_datVars
             PROVE  DatTyped'
  OBVIOUS
<1> USE DEF DatTyped, DatTypeOK
<1>0. /\ RowsOf(dat) \in DatTexts /\ RowsOf(tempDat) \in DatTexts
      /\ \A text \in DatTexts : Len(text) \in Nat
  BY DEF RowsOf, Files, DatTexts
<1>1. CASE WriteTemp
  <2>1. Blanked(RowsOf(dat)) \in DatTexts
      BY <1>0, BlankedTyped
  <2>2. \A n \in 0..Len(Blanked(RowsOf(dat))) : Cut(Blanked(RowsOf(dat)), n) \in DatTexts
      BY <2>1, CutTyped
  <2>3. tempDat' \in DatTexts
      BY <1>1, <2>1, <2>2 DEF WriteTemp
  <2> QED  BY <1>1, <2>3, CallTyped DEF WriteTemp, Files
<1>2. CASE RemoveDat
  BY <1>2, CallTyped DEF RemoveDat, Files
<1>3. CASE CopyTemp
  <2>1. tempDat \in DatTexts
      BY <1>3 DEF CopyTemp
  <2>2. \A n \in 0..Len(tempDat) : Cut(tempDat, n) \in DatTexts
      BY <2>1, CutTyped
  <2>3. dat' \in Files
      BY <1>3, <2>1, <2>2 DEF CopyTemp, Files
  <2> QED  BY <1>3, <2>1, <2>3, CallTyped DEF CopyTemp
<1>4. CASE DropTemp
  BY <1>4, CallTyped DEF DropTemp, Files
<1>5. CASE Reset
  BY <1>5, CallTyped DEF Reset, files
<1>6. CASE PowerLoss
  BY <1>6, IdDatAssumption DEF PowerLoss, files
<1>7. CASE Boot
  <2>1. CASE dat = NoFile
      BY <1>7, <2>1, CallTyped DEF Boot
  <2>2. CASE dat # NoFile
      <3>1. Filled(dat) \in DatTexts
          BY <2>2, FilledTyped DEF Files
      <3> QED  BY <1>7, <2>2, <3>1, CallTyped DEF Boot, Files
  <2> QED  BY <2>1, <2>2
<1>8. CASE UNCHANGED datVars
  BY <1>8 DEF datVars, files
<1> QED  BY <1>1, <1>2, <1>3, <1>4, <1>5, <1>6, <1>7, <1>8 DEF DatNext

(* id.dat and temp.dat always hold rows, whatever goes wrong.              *)
THEOREM DatTypeCorrect == DatSpec => []DatTypeOK
<1>1. DatInit => DatTyped
    BY IdDatAssumption DEF DatInit, DatTyped, DatTypeOK, Files
<1>2. DatTyped => DatTypeOK
    BY DEF DatTyped
<1> QED  BY <1>1, <1>2, DatTypedInductive, PTL DEF DatSpec

-----------------------------------------------------------------------------
(* While nothing goes wrong.                                               *)

(* Where the text of the start is at every step.                           *)
Undisturbed ==
    /\ DatTyped
    /\ faults = 0 =>
        /\ step = "ready" => dat = before
        /\ step = "remove" => dat = before /\ tempDat = Blanked(before)
        /\ step = "copy" => dat = NoFile /\ tempDat = Blanked(before)
        /\ step = "drop" => dat = Blanked(before) /\ tempDat = dat
        /\ step \in {"reset", "off"} => dat = Blanked(before)

(* A fault is counted for good.                                            *)
LEMMA FaultsCount ==
    ASSUME DatTypeOK, NEW next, GoWrong(next) \/ PowerLoss
    PROVE  faults' # 0
BY IdDatAssumption DEF DatTypeOK, GoWrong, PowerLoss

LEMMA OriginalsAreTexts ==
    ASSUME DatTyped
    PROVE  before \in Originals /\ before \in DatTexts /\ before # NoFile /\ Blanked(before) # NoFile
<1>1. before \in Originals /\ before \in DatTexts
    BY IdDatAssumption DEF DatTyped, DatTypeOK
<1> QED  BY <1>1, BlankedTyped, IdDatAssumption

LEMMA UndisturbedInductive == Undisturbed /\ [DatNext]_datVars => Undisturbed'
<1> SUFFICES ASSUME Undisturbed, [DatNext]_datVars, faults' = 0
             PROVE  Undisturbed'
    BY DatTypedInductive DEF Undisturbed
<1>0. DatTyped /\ DatTyped' /\ DatTypeOK
    BY DatTypedInductive DEF Undisturbed, DatTyped
<1>1. CASE WriteTemp
    <2>1. Go("remove") /\ tempDat' = Blanked(RowsOf(dat)) /\ UNCHANGED dat
        BY <1>0, <1>1, FaultsCount DEF WriteTemp
    <2>2. step = "ready" /\ faults = 0 /\ before' = before /\ dat = before
        BY <1>1, <2>1 DEF WriteTemp, Go, Undisturbed
    <2>3. RowsOf(dat) = before
        BY <1>0, <2>2, OriginalsAreTexts DEF RowsOf
    <2> QED  BY <1>0, <2>1, <2>2, <2>3 DEF Undisturbed, Go
<1>2. CASE RemoveDat
    <2>1. Go("copy") /\ dat' = NoFile /\ UNCHANGED tempDat
        BY <1>0, <1>2, FaultsCount DEF RemoveDat
    <2> QED  BY <1>0, <1>2, <2>1 DEF Undisturbed, Go, RemoveDat
<1>3. CASE CopyTemp
    <2>1. Go("drop") /\ dat' = tempDat /\ UNCHANGED tempDat
        BY <1>0, <1>3, FaultsCount DEF CopyTemp
    <2> QED  BY <1>0, <1>3, <2>1 DEF Undisturbed, Go, CopyTemp
<1>4. CASE DropTemp
    <2>1. Go("reset") /\ UNCHANGED dat
        BY <1>0, <1>4, FaultsCount DEF DropTemp
    <2> QED  BY <1>0, <1>4, <2>1 DEF Undisturbed, Go, DropTemp
<1>5. CASE Reset
    BY <1>0, <1>5 DEF Undisturbed, Go, Reset, files
<1>6. CASE PowerLoss
    BY <1>0, <1>6, FaultsCount
<1>7. CASE Boot
    <2>1. Go("ready") /\ step = "off" /\ dat = Blanked(before)
        BY <1>7 DEF Boot, Go, Undisturbed
    <2>2. dat' = Filled(Blanked(before))
        BY <1>0, <1>7, <2>1, OriginalsAreTexts DEF Boot
    <2>3. dat' = before
        BY <1>0, <2>2, OriginalsAreTexts, OriginalComesBack
    <2> QED  BY <1>0, <2>1, <2>3 DEF Undisturbed, Go
<1>8. CASE UNCHANGED datVars
    BY <1>0, <1>8 DEF Undisturbed, datVars, files
<1> QED  BY <1>1, <1>2, <1>3, <1>4, <1>5, <1>6, <1>7, <1>8 DEF DatNext

LEMMA InitUndisturbed == DatInit => Undisturbed
BY IdDatAssumption DEF DatInit, Undisturbed, DatTyped, DatTypeOK, Files

(* After a whole run and the boot that follows, id.dat is what it was.     *)
THEOREM FileComesBackAlways == DatSpec => []FileComesBack
<1>1. Undisturbed => FileComesBack
    BY DEF Undisturbed, FileComesBack
<1> QED  BY <1>1, InitUndisturbed, UndisturbedInductive, PTL DEF DatSpec

(* Without faults the four calls are one replacement of the file: its      *)
(* point in time is the removal of id.dat.                                 *)
THEOREM CallsAreOneReplacement == DatSpec => ReplacesAtomically
<1>1. DatInit => Atomic!Init
    BY DEF DatInit, Atomic!Init, DatText
<1>2. Undisturbed /\ [DatNext]_datVars => AtomicStep
    <2> SUFFICES ASSUME Undisturbed, [DatNext]_datVars, faults' = 0
                 PROVE  Atomic!Replace \/ Atomic!Boot \/ UNCHANGED DatText
        BY DEF AtomicStep
    <2>0. DatTyped /\ DatTypeOK
        BY DEF Undisturbed, DatTyped
    <2>1. CASE WriteTemp
        <3>1. Go("remove")
            BY <2>0, <2>1, FaultsCount DEF WriteTemp
        <3> QED  BY <2>1, <3>1 DEF WriteTemp, Go, DatText
    <2>2. CASE RemoveDat
        <3>1. Go("copy")
            BY <2>0, <2>2, FaultsCount DEF RemoveDat
        <3>2. step = "remove" /\ step' = "copy" /\ tempDat' = tempDat /\ faults = 0
            BY <2>2, <3>1 DEF RemoveDat, Go
        <3>3. tempDat = Blanked(dat)
            BY <3>2 DEF Undisturbed
        <3> QED  BY <3>2, <3>3 DEF Atomic!Replace, DatText
    <2>3. CASE CopyTemp
        <3>1. dat' = tempDat /\ Go("drop")
            BY <2>0, <2>3, FaultsCount DEF CopyTemp
        <3> QED  BY <2>3, <3>1 DEF CopyTemp, Go, DatText
    <2>4. CASE DropTemp
        <3>1. Go("reset")
            BY <2>0, <2>4, FaultsCount DEF DropTemp
        <3> QED  BY <2>4, <3>1 DEF DropTemp, Go, DatText
    <2>5. CASE Reset
        BY <2>5 DEF Reset, Go, files, DatText
    <2>6. CASE PowerLoss
        BY <2>0, <2>6, FaultsCount
    <2>7. CASE Boot
        <3>1. step = "off" /\ step' = "ready" /\ faults = 0
            BY <2>7 DEF Boot, Go
        <3>2. dat = Blanked(before)
            BY <3>1 DEF Undisturbed
        <3>3. dat' = Filled(dat)
            BY <2>0, <2>7, <3>2, OriginalsAreTexts DEF Boot
        <3> QED  BY <3>1, <3>3 DEF Atomic!Boot, DatText
    <2>8. CASE UNCHANGED datVars
        BY <2>8 DEF datVars, files, DatText
    <2> QED  BY <2>1, <2>2, <2>3, <2>4, <2>5, <2>6, <2>7, <2>8 DEF DatNext
<1> QED
    BY <1>1, <1>2, InitUndisturbed, UndisturbedInductive, PTL
    DEF DatSpec, ReplacesAtomically

-----------------------------------------------------------------------------
(* When the power goes.                                                    *)

(* Which of the two files can be given up at each step.                    *)
Kept ==
    /\ DatTyped
    /\ step = "remove" /\ clean /\ Whole(dat) => Whole(tempDat)
    /\ step = "copy" /\ clean => dat = NoFile
    /\ step = "drop" /\ clean => dat = tempDat

LEMMA BlankedIsWhole ==
    ASSUME DatTyped, NEW f \in Files, Whole(f)
    PROVE  Whole(Blanked(RowsOf(f)))
<1>1. RowsOf(f) \in DatTexts
    BY DEF RowsOf, Files, DatTexts
<1>2. Blanked(RowsOf(f)) \in DatTexts
    BY <1>1, BlankedTyped
<1>3. RowsOf(Blanked(RowsOf(f))) = Blanked(RowsOf(f))
    BY <1>2, IdDatAssumption DEF RowsOf
<1> QED  BY <1>1, <1>3, BlankedTwice DEF Whole

(* The row Mid is among the rows of a whole file, so a missing one is not. *)
LEMMA WholeHasMid ==
    ASSUME DatTyped, NEW f \in Files, Whole(f)
    PROVE  f \in DatTexts /\ HasMid(f)
<1>1. before \in DatTexts /\ HasMid(before)
    BY OriginalsAreTexts, OriginalComesBack
<1>2. RowsOf(f) \in DatTexts
    BY DEF RowsOf, Files, DatTexts
<1>3. HasMid(RowsOf(f))
    <2>1. DOMAIN RowsOf(f) = DOMAIN before
        BY <1>1, <1>2, BlankedTyped DEF Whole
    <2>2. \A i \in DOMAIN before : RowsOf(f)[i].name = before[i].name
        BY <1>1, <1>2, <2>1, BlankedTyped DEF Whole
    <2> QED  BY <1>1, <2>1, <2>2 DEF HasMid
<1>4. f # NoFile
    BY <1>3 DEF RowsOf, HasMid
<1> QED  BY <1>3, <1>4 DEF RowsOf, Files

LEMMA FilledIsWhole ==
    ASSUME DatTyped, NEW f \in Files, Whole(f)
    PROVE  Whole(Filled(f)) /\ f # NoFile
<1>1. f \in DatTexts /\ HasMid(f)
    BY WholeHasMid
<1>2. RowsOf(f) = f /\ f # NoFile
    BY <1>1, IdDatAssumption DEF RowsOf
<1>3. RowsOf(Filled(f)) = Filled(f)
    BY <1>1, FilledTyped, IdDatAssumption DEF RowsOf
<1> QED  BY <1>1, <1>2, <1>3, BlankedFilled DEF Whole

LEMMA InitKept == DatInit => Kept
BY IdDatAssumption DEF DatInit, Kept, DatTyped, DatTypeOK, Files

(* An error shows in clean, a loss of power in step.                       *)
LEMMA WrongIsOff ==
    ASSUME NEW next, GoWrong(next), clean'
    PROVE  step' = "off"
BY DEF GoWrong

LEMMA KeptInductive == Kept /\ [DatNext]_datVars => Kept'
<1> SUFFICES ASSUME Kept, [DatNext]_datVars, clean', step' \in {"remove", "copy", "drop"}
             PROVE  Kept'
    BY DatTypedInductive DEF Kept
<1>0. DatTyped /\ DatTyped'
    BY DatTypedInductive DEF Kept
<1>1. CASE WriteTemp
    <2>1. Go("remove") /\ tempDat' = Blanked(RowsOf(dat)) /\ UNCHANGED dat
        BY <1>1, WrongIsOff DEF WriteTemp
    <2>2. Whole(dat)' => Whole(tempDat)'
        <3>1. dat \in Files
            BY <1>0 DEF DatTyped, DatTypeOK
        <3> QED  BY <1>0, <2>1, <3>1, BlankedIsWhole DEF Whole, Go
    <2> QED  BY <1>0, <2>1, <2>2 DEF Kept, Go
<1>2. CASE RemoveDat
    <2>1. Go("copy") /\ dat' = NoFile
        BY <1>2, WrongIsOff DEF RemoveDat
    <2> QED  BY <1>0, <2>1 DEF Kept, Go
<1>3. CASE CopyTemp
    <2>1. Go("drop") /\ dat' = tempDat /\ UNCHANGED tempDat
        BY <1>3, WrongIsOff DEF CopyTemp
    <2> QED  BY <1>0, <2>1 DEF Kept, Go
<1>4. CASE DropTemp
    BY <1>4, WrongIsOff DEF DropTemp, Go
<1>5. CASE Reset
    BY <1>5 DEF Reset, Go
<1>6. CASE PowerLoss
    BY <1>6 DEF PowerLoss
<1>7. CASE Boot
    BY <1>7 DEF Boot, Go
<1>8. CASE UNCHANGED datVars
    BY <1>0, <1>8 DEF Kept, datVars, files, Whole
<1> QED  BY <1>1, <1>2, <1>3, <1>4, <1>5, <1>6, <1>7, <1>8 DEF DatNext

(* As long as no call fails, power losses in any number lose no row, but   *)
(* for a run that starts on an id.dat that is not whole.                   *)
THEOREM LossesOnlyByRetry == DatSpec => OnlyRetryLoses
<1>1. Kept /\ [DatNext]_datVars =>
        [clean' /\ (Whole(dat) \/ Whole(tempDat)) /\ ~ (step = "ready" /\ ~ Whole(dat))
            => Whole(dat)' \/ Whole(tempDat)']_datVars
    <2> SUFFICES ASSUME Kept, DatNext, clean', Whole(dat) \/ Whole(tempDat),
                        step = "ready" => Whole(dat)
                 PROVE  Whole(dat)' \/ Whole(tempDat)'
        OBVIOUS
    <2>0. /\ DatTyped /\ before' = before
          /\ dat \in Files /\ tempDat \in Files
        BY DEF Kept, DatTyped, DatTypeOK, DatNext, WriteTemp, RemoveDat, CopyTemp, DropTemp, Reset,
               PowerLoss, Boot, Go, GoWrong
    <2>1. CASE WriteTemp
        BY <2>0, <2>1 DEF WriteTemp, Whole
    <2>2. CASE RemoveDat
        <3>1. clean /\ step = "remove" /\ UNCHANGED tempDat
            BY <2>2, Zenon DEF RemoveDat, Go, GoWrong
        <3>2. Whole(tempDat)
            BY <3>1 DEF Kept
        <3> QED  BY <2>0, <3>1, <3>2 DEF Whole
    <2>3. CASE CopyTemp
        <3>1. clean /\ step = "copy" /\ UNCHANGED tempDat
            BY <2>3, Zenon DEF CopyTemp, Go, GoWrong
        <3>2. dat = NoFile
            BY <3>1 DEF Kept
        <3>3. Whole(tempDat)
            BY <2>0, <3>2, FilledIsWhole
        <3> QED  BY <2>0, <3>1, <3>3 DEF Whole
    <2>4. CASE DropTemp
        <3>1. clean /\ step = "drop" /\ UNCHANGED dat
            BY <2>4, Zenon DEF DropTemp, Go, GoWrong
        <3>2. Whole(dat)
            BY <3>1 DEF Kept
        <3> QED  BY <2>0, <3>1, <3>2 DEF Whole
    <2>5. CASE Reset
        BY <2>0, <2>5 DEF Reset, files, Whole
    <2>6. CASE PowerLoss
        BY <2>0, <2>6 DEF PowerLoss, files, Whole
    <2>7. CASE Boot
        <3>1. UNCHANGED tempDat /\ dat' = (IF dat = NoFile THEN dat ELSE Filled(dat))
            BY <2>7 DEF Boot
        <3>2. CASE Whole(tempDat)
            BY <2>0, <3>1, <3>2 DEF Whole
        <3>3. CASE Whole(dat)
            BY <2>0, <3>1, <3>3, FilledIsWhole DEF Whole
        <3> QED  BY <3>2, <3>3
    <2> QED  BY <2>1, <2>2, <2>3, <2>4, <2>5, <2>6, <2>7 DEF DatNext
<1> QED  BY <1>1, InitKept, KeptInductive, PTL DEF DatSpec, OnlyRetryLoses

=============================================================================
