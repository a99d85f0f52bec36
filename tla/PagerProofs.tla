----------------------------- MODULE PagerProofs -----------------------------
(***************************************************************************)
(* Theorems about Pager, for databases of any size, any number of          *)
(* statements and any number of faults.                                    *)
(***************************************************************************)
EXTENDS Pager, FiniteSetTheorems, TLAPS

-----------------------------------------------------------------------------
(* The invariant.                                                          *)

(* The pages of a database are its first ones.                             *)
EndsAt(db, k) == \A p \in Pages : db[p] # NoPage <=> p <= k
Contiguous(db) == \E k \in 0..MaxPages : EndsAt(db, k)

(* A record holds a page as it was before the statement.                   *)
Good(db, rec) == rec # NoRecord /\ rec.was = db[rec.page] /\ rec.was # NoPage

(* A page a playback restores.                                             *)
Saved(p) == \E i \in Played(card.jrnl) : card.jrnl.recs[i].page = p

(* With a journal that is not hot the database is whole, and has what was  *)
(* told of the statement.                                                  *)
ColdInv ==
    /\ Holds(card.db, before) \/ Holds(card.db, after)
    /\ told = "done" => Holds(card.db, after)
    /\ told = "error" => Holds(card.db, before)

(* With a hot one every page is as it was before the statement, or saved;  *)
(* none of them has gone; and the statement has not been called done.      *)
HotInv ==
    /\ \A i \in Played(card.jrnl) : Good(before, card.jrnl.recs[i])
    /\ \A p \in Pages : before[p] # NoPage =>
         card.db[p] # NoPage /\ (card.db[p] = before[p] \/ Saved(p))
    /\ told # "done"

(* The journal that is being written: the pages still to be saved, and the *)
(* records so far, leave out none the statement will change.               *)
JournalInv ==
    /\ ~ Hot(card) /\ card.jrnl.n = 0 /\ card.db = before /\ told = "none"
    /\ todo \subseteq Pages /\ count + Cardinality(todo) <= MaxPages
    /\ \A p \in todo : before[p] # NoPage
    /\ \A i \in 1..count : Good(before, card.jrnl.recs[i])
    /\ \A p \in dirty : before[p] # NoPage =>
         p \in todo \/ \E i \in 1..count : card.jrnl.recs[i].page = p

(* The pages that are being stored, behind a complete journal.             *)
StoreInv ==
    /\ card.jrnl.magic = "whole" /\ card.jrnl.n = count /\ told = "none"
    /\ todo \subseteq dirty
    /\ \A p \in Pages : card.db[p] = IF p \in todo THEN before[p] ELSE after[p]
    /\ \A i \in 1..count : Good(before, card.jrnl.recs[i])
    /\ \A p \in dirty : before[p] # NoPage =>
         \E i \in 1..count : card.jrnl.recs[i].page = p

(* The records that have been played back are in their places.             *)
PlaybackInv ==
    /\ Hot(card) /\ HotInv
    /\ todo \subseteq Played(card.jrnl)
    /\ \A i \in Played(card.jrnl) \ todo :
         card.db[card.jrnl.recs[i].page] = before[card.jrnl.recs[i].page]

(* What the statement does to the pages.                                   *)
StatementInv ==
    step \in {"journal", "store"} =>
        /\ dirty # {} /\ IsFiniteSet(todo)
        /\ \A p \in Pages : IF p \in dirty THEN after[p] \in Nat ELSE after[p] = before[p]
        /\ \A p, q \in Pages : p \in dirty /\ before[p] = NoPage /\ q < p =>
             before[q] # NoPage \/ q \in dirty

StepInv ==
    /\ step = "unlocked" => IF Hot(card) THEN HotInv ELSE ColdInv
    /\ step = "ready" => ~ Hot(card) /\ ColdInv
    /\ step = "journal" => JournalInv
    /\ step = "store" => StoreInv
    /\ step \in {"hot", "undo"} => PlaybackInv

IInv == TypeOK /\ Contiguous(card.db) /\ StatementInv /\ StepInv

-----------------------------------------------------------------------------
(* A page of the database.                                                 *)
LEMMA DbWritten ==
    ASSUME NEW files \in FileTypes, NEW p \in Pages, NEW c \in Contents
    PROVE  /\ [files EXCEPT !.db[p] = c] \in FileTypes
           /\ [files EXCEPT !.db[p] = c].db = [files.db EXCEPT ![p] = c]
           /\ [files EXCEPT !.db[p] = c].jrnl = files.jrnl
BY DEF FileTypes

(* A record of the journal.                                                *)
LEMMA RecordWritten ==
    ASSUME NEW files \in FileTypes, NEW i \in Pages, NEW rec \in Records
    PROVE  /\ [files EXCEPT !.jrnl.recs[i] = rec] \in FileTypes
           /\ [files EXCEPT !.jrnl.recs[i] = rec].db = files.db
           /\ [files EXCEPT !.jrnl.recs[i] = rec].jrnl.magic = files.jrnl.magic
           /\ [files EXCEPT !.jrnl.recs[i] = rec].jrnl.n = files.jrnl.n
           /\ [files EXCEPT !.jrnl.recs[i] = rec].jrnl.recs = [files.jrnl.recs EXCEPT ![i] = rec]
BY DEF FileTypes

(* The journal's header.                                                   *)
LEMMA HeaderWritten ==
    ASSUME NEW files \in FileTypes, NEW m \in Magics, NEW n \in 0..MaxPages
    PROVE  /\ [files EXCEPT !.jrnl = [@ EXCEPT !.magic = m, !.n = n]] \in FileTypes
           /\ [files EXCEPT !.jrnl = [@ EXCEPT !.magic = m, !.n = n]].db = files.db
           /\ [files EXCEPT !.jrnl = [@ EXCEPT !.magic = m, !.n = n]].jrnl.magic = m
           /\ [files EXCEPT !.jrnl = [@ EXCEPT !.magic = m, !.n = n]].jrnl.n = n
           /\ [files EXCEPT !.jrnl = [@ EXCEPT !.magic = m, !.n = n]].jrnl.recs = files.jrnl.recs
BY DEF FileTypes

(* A header that is cut short.                                             *)
LEMMA MagicTorn ==
    ASSUME NEW files \in FileTypes
    PROVE  /\ [files EXCEPT !.jrnl = [@ EXCEPT !.magic = "torn"]] \in FileTypes
           /\ [files EXCEPT !.jrnl = [@ EXCEPT !.magic = "torn"]].db = files.db
           /\ [files EXCEPT !.jrnl = [@ EXCEPT !.magic = "torn"]].jrnl.magic = "torn"
BY DEF FileTypes, Magics

(* A journal that is removed.                                              *)
LEMMA JournalEmptied ==
    ASSUME NEW files \in FileTypes
    PROVE  /\ [files EXCEPT !.jrnl = Empty] \in FileTypes
           /\ [files EXCEPT !.jrnl = Empty].db = files.db
           /\ [files EXCEPT !.jrnl = Empty].jrnl.magic = "zero"
<1>1. 0 \in 0..MaxPages
    BY PagerAssumption
<1>2. Empty \in [magic : Magics, n : 0..MaxPages, recs : [Pages -> Records]] /\ Empty.magic = "zero"
    BY <1>1 DEF Empty, Magics, Records
<1> QED  BY <1>2 DEF FileTypes

(* A playback of good records uses as many as the header says.             *)
LEMMA PlayedAll ==
    ASSUME NEW jrnl, jrnl.magic = "whole", jrnl.n \in Nat,
           \A i \in 1..jrnl.n : jrnl.recs[i] # NoRecord
    PROVE  Played(jrnl) = 1..jrnl.n
BY DEF Played

(* The pages of a database are counted by their number.                    *)
LEMMA SizeCounts ==
    ASSUME NEW db, NEW k \in 0..MaxPages, EndsAt(db, k) PROVE Size(db) = k
<1>1. {p \in Pages : db[p] # NoPage} = 1..k
    BY PagerAssumption DEF EndsAt, Pages
<1>2. Cardinality(1..k) = k
    BY FS_Interval
<1> QED  BY <1>1, <1>2 DEF Size

(* A page that is written is one of the database's or the next one.        *)
LEMMA GrowsByOne ==
    ASSUME NEW db \in [Pages -> Contents], Contiguous(db), NEW p \in Pages,
           NEW c \in Contents \ {NoPage},
           db[p] = NoPage => \A q \in Pages : q < p => db[q] # NoPage
    PROVE  Contiguous([db EXCEPT ![p] = c])
<1>1. PICK k \in 0..MaxPages : EndsAt(db, k)
    BY DEF Contiguous
<1>2. \A q \in Pages : [db EXCEPT ![p] = c][q] # NoPage <=> q = p \/ q <= k
    BY <1>1 DEF EndsAt
<1>3. k \in Nat /\ p \in Nat /\ Pages \subseteq Nat /\ p \in 0..MaxPages
    BY PagerAssumption DEF Pages
<1>4. CASE p <= k
    BY <1>2, <1>3, <1>4 DEF Contiguous, EndsAt
<1>5. CASE ~ (p <= k)
    <2>1. \A q \in Pages : q < p => q <= k
        BY <1>1, <1>5 DEF EndsAt
    <2>2. \A q \in Pages : q = p \/ q <= k <=> q <= p
        BY <1>3, <1>5, <2>1
    <2> QED  BY <1>2, <1>3, <2>2 DEF Contiguous, EndsAt
<1> QED  BY <1>4, <1>5

(* What the first of what there is to do is.                               *)
LEMMA FirstIsOne == ASSUME NEW S, NEW p \in First(S) PROVE p \in S /\ \A q \in S : p <= q
BY DEF First

-----------------------------------------------------------------------------
(* Both files give the database back.                                      *)

(* With a hot journal it is the one before the statement.                  *)
LEMMA HotRestores == ASSUME TypeOK, HotInv PROVE Holds(Restored(card), before)
<1> SUFFICES ASSUME NEW p \in Pages, before[p] # NoPage PROVE Restored(card)[p] = before[p]
    BY DEF Holds
<1>1. CASE \E i \in Played(card.jrnl) : card.jrnl.recs[i].page = p
    <2> DEFINE j == CHOOSE i \in Played(card.jrnl) : card.jrnl.recs[i].page = p
    <2>1. j \in Played(card.jrnl) /\ card.jrnl.recs[j].page = p
        BY <1>1
    <2>2. Restored(card)[p] = card.jrnl.recs[j].was
        BY <1>1 DEF Restored
    <2> HIDE DEF j
    <2> QED  BY <2>1, <2>2 DEF HotInv, Good
<1>2. CASE ~ \E i \in Played(card.jrnl) : card.jrnl.recs[i].page = p
    BY <1>2 DEF HotInv, Saved, Restored
<1> QED  BY <1>1, <1>2

(* Without one it is the database itself.                                  *)
LEMMA ColdRestores == ASSUME TypeOK, ~ Hot(card) PROVE Restored(card) = card.db
<1>1. Played(card.jrnl) = {}
    BY DEF Hot, Played
<1>2. card.db \in [Pages -> Contents]
    BY DEF TypeOK, FileTypes
<1> QED  BY <1>1, <1>2 DEF Restored

(* A statement that has not stored all its pages is behind a hot journal.  *)
LEMMA StoreIsHot ==
    ASSUME TypeOK, StatementInv, StoreInv, step = "store"
    PROVE  Hot(card) /\ HotInv /\ Played(card.jrnl) = 1..count
<1>1. Played(card.jrnl) = 1..count
    <2>1. count \in Nat
        BY DEF TypeOK
    <2> QED  BY <2>1, PlayedAll DEF StoreInv, Good
<1>2. NoPage \notin Nat
    BY DEF NoPage
<1>3. \A p \in Pages : before[p] # NoPage =>
        card.db[p] # NoPage /\ (card.db[p] = before[p] \/ Saved(p))
    BY <1>1, <1>2 DEF StoreInv, StatementInv, Saved
<1> QED  BY <1>1, <1>3 DEF StoreInv, HotInv, Hot

-----------------------------------------------------------------------------
(* The steps.                                                              *)

(* The invariant holds of a database without a journal.                    *)
LEMMA InitIInv == Init => IInv
<1> SUFFICES ASSUME Init PROVE IInv
    OBVIOUS
<1>1. \A p \in Pages : (IF p <= Pages0 THEN 0 ELSE NoPage) \in Contents
    BY PagerAssumption DEF Contents
<1>2. Empty \in [magic : Magics, n : 0..MaxPages, recs : [Pages -> Records]]
    BY PagerAssumption DEF Empty, Magics, Records
<1>3. card \in FileTypes /\ before \in [Pages -> Contents] /\ after \in [Pages -> Contents]
    BY <1>1, <1>2 DEF Init, FileTypes
<1>4. TypeOK
    BY <1>3, PagerAssumption DEF Init, TypeOK, Steps
<1>5. EndsAt(card.db, Pages0) /\ Pages0 \in 0..MaxPages
    BY PagerAssumption DEF Init, EndsAt, Pages, NoPage
<1>6. ColdInv /\ ~ Hot(card)
    BY DEF Init, ColdInv, Holds, Hot, Empty
<1> QED  BY <1>4, <1>5, <1>6 DEF Init, IInv, Contiguous, StatementInv, StepInv

(* The journal is looked at: hot, it is played back from its start.        *)
LEMMA ShareKeeps == IInv /\ Share => IInv'
<1> SUFFICES ASSUME IInv, Share PROVE IInv'
    OBVIOUS
<1>1. Played(card.jrnl) \subseteq Pages
    BY PagerAssumption DEF IInv, TypeOK, FileTypes, Played, Pages
<1>2. step' \in {"hot", "ready"} /\ todo' \subseteq Pages
      /\ UNCHANGED <<card, count, dirty, before, after, told, txns, faults>>
    BY <1>1 DEF Share
<1>3. TypeOK'
    BY <1>2 DEF IInv, TypeOK, Steps
<1>4. Contiguous(card.db)' /\ StatementInv'
    BY <1>2 DEF IInv, Contiguous, EndsAt, StatementInv
<1>5. step = "unlocked" /\ (Hot(card) => HotInv) /\ (~ Hot(card) => ColdInv)
    BY DEF Share, IInv, StepInv
<1>6. (HotInv => HotInv') /\ (ColdInv => ColdInv') /\ Hot(card)' = Hot(card)
    BY <1>2 DEF HotInv, ColdInv, Good, Saved, Holds, Hot, Played
<1>7. CASE Hot(card)
    <2>1. step' = "hot" /\ todo' = Played(card.jrnl)
        BY <1>7 DEF Share
    <2> QED  BY <1>2, <1>3, <1>4, <1>5, <1>6, <1>7, <2>1 DEF IInv, StepInv, PlaybackInv, Played
<1>8. CASE ~ Hot(card)
    <2>1. step' = "ready"
        BY <1>8 DEF Share
    <2> QED  BY <1>3, <1>4, <1>5, <1>6, <1>8, <2>1 DEF IInv, StepInv
<1> QED  BY <1>7, <1>8

(* A statement starts with all its pages unsaved.                          *)
LEMMA BeginKeeps == IInv /\ Begin => IInv'
<1> SUFFICES ASSUME IInv, Begin PROVE IInv'
    OBVIOUS
<1> DEFINE size == Size(card.db)
<1>1. PICK D \in SUBSET Pages :
        /\ 1 \in D
        /\ {p \in D : p > size} = (size + 1)..(size + Cardinality({p \in D : p > size}))
        /\ dirty' = D /\ todo' = D \cap 1..size /\ before' = card.db
        /\ after' = [p \in Pages |-> IF p \in D THEN txns + 1 ELSE card.db[p]]
        /\ card' = [card EXCEPT !.jrnl = [@ EXCEPT !.magic = "zero", !.n = 0]]
    BY DEF Begin
<1>2. PICK k \in 0..MaxPages : EndsAt(card.db, k)
    BY DEF IInv, Contiguous
<1>3. size = k
    BY <1>2, SizeCounts
<1> HIDE DEF size
<1>4. /\ step = "ready" /\ txns < MaxTxns /\ step' = "journal" /\ count' = 0 /\ told' = "none"
      /\ txns' = txns + 1 /\ faults' = faults
    BY DEF Begin
<1>5. card \in FileTypes /\ card.db \in [Pages -> Contents]
    BY DEF IInv, TypeOK, FileTypes
<1>6. card' \in FileTypes /\ card'.db = card.db /\ card'.jrnl.magic = "zero" /\ card'.jrnl.n = 0
    <2>1. "zero" \in Magics /\ 0 \in 0..MaxPages
        BY PagerAssumption DEF Magics
    <2>2. card' = [card EXCEPT !.jrnl = [@ EXCEPT !.magic = "zero", !.n = 0]]
        BY <1>1
    <2> QED  BY <1>5, <2>1, <2>2 DEF FileTypes
<1>7. txns' \in 0..MaxTxns /\ txns + 1 \in Nat /\ txns + 1 \in Contents
    BY <1>4, PagerAssumption DEF IInv, TypeOK, Contents
<1>8. before' \in [Pages -> Contents] /\ after' \in [Pages -> Contents]
    BY <1>1, <1>5, <1>7
<1>9. TypeOK'
    BY <1>1, <1>4, <1>6, <1>7, <1>8, PagerAssumption DEF IInv, TypeOK, Steps
<1>10. IsFiniteSet(Pages) /\ Cardinality(Pages) = MaxPages
    BY PagerAssumption, FS_Interval DEF Pages
<1>11. IsFiniteSet(todo') /\ Cardinality(todo') <= MaxPages /\ todo' \subseteq Pages
    BY <1>1, <1>10, FS_Subset
<1>12. IsFiniteSet({p \in D : p > size}) /\ Cardinality({p \in D : p > size}) \in Nat
    BY <1>10, FS_Subset, FS_CardinalityType
<1>13. \A p, q \in Pages : p \in D /\ p > k /\ q < p => q <= k \/ q \in D
    <2> SUFFICES ASSUME NEW p \in Pages, NEW q \in Pages, p \in D, p > k, q < p, ~ (q <= k)
                 PROVE  q \in D
        OBVIOUS
    <2> DEFINE c == Cardinality({r \in D : r > size})
    <2>1. c \in Nat /\ {r \in D : r > size} = (k + 1)..(k + c)
        BY <1>1, <1>3, <1>12
    <2> HIDE DEF c
    <2>2. p \in (k + 1)..(k + c)
        BY <1>3, <2>1
    <2>3. p \in Nat /\ q \in Nat /\ k \in Nat
        BY PagerAssumption DEF Pages
    <2>4. q \in (k + 1)..(k + c)
        BY <2>1, <2>2, <2>3
    <2> QED  BY <2>1, <2>4
<1>14. \A p \in Pages : before'[p] # NoPage <=> p <= k
    BY <1>1, <1>2 DEF EndsAt
<1>15. StatementInv'
    <2>1. \A p \in Pages : IF p \in dirty' THEN after'[p] \in Nat ELSE after'[p] = before'[p]
        BY <1>1, <1>7
    <2>2. \A p, q \in Pages : p \in dirty' /\ before'[p] = NoPage /\ q < p =>
             before'[q] # NoPage \/ q \in dirty'
        <3>1. \A p \in Pages : before'[p] = NoPage => p > k
            BY <1>14, PagerAssumption DEF Pages
        <3> QED  BY <1>1, <1>13, <1>14, <3>1
    <2> QED  BY <1>1, <1>4, <1>11, <2>1, <2>2 DEF StatementInv
<1>16. JournalInv'
    <2>1. \A p \in todo' : before'[p] # NoPage
        BY <1>1, <1>3, <1>14, <1>11
    <2>2. \A p \in D : before'[p] # NoPage => p \in todo'
        BY <1>1, <1>3, <1>14, PagerAssumption DEF Pages
    <2>3. Cardinality(todo') \in Nat
        BY <1>11, FS_CardinalityType
    <2>4. ~ Hot(card)' /\ card'.db = before'
        BY <1>1, <1>6 DEF Hot
    <2>5. \A i \in 1..count' : FALSE
        BY <1>4
    <2>6. count' + Cardinality(todo') <= MaxPages
        BY <1>4, <1>11, <2>3
    <2> QED  BY <1>1, <1>4, <1>6, <1>11, <2>1, <2>2, <2>4, <2>5, <2>6 DEF JournalInv
<1>17. Contiguous(card'.db)
    BY <1>6 DEF IInv
<1> QED  BY <1>4, <1>9, <1>15, <1>16, <1>17 DEF IInv, StepInv

(* A page is saved, as it was.                                             *)
LEMMA JournalPageKeeps == IInv /\ JournalPage => IInv'
<1> SUFFICES ASSUME IInv, JournalPage PROVE IInv'
    OBVIOUS
<1>1. PICK p \in todo : card' = Journalled(card, p) /\ todo' = todo \ {p}
    BY DEF JournalPage
<1>2. /\ step = "journal" /\ count' = count + 1
      /\ UNCHANGED <<step, dirty, before, after, told, txns, faults>>
    BY DEF JournalPage
<1>3. TypeOK /\ JournalInv /\ StatementInv /\ IsFiniteSet(todo)
    BY <1>2 DEF IInv, StepInv, StatementInv
<1>4. /\ IsFiniteSet(todo') /\ Cardinality(todo') = Cardinality(todo) - 1
      /\ Cardinality(todo) \in Nat /\ Cardinality(todo') \in Nat
    BY <1>1, <1>3, FS_RemoveElement, FS_CardinalityType
<1>5. count + 1 \in Pages /\ count \in Nat
    BY <1>3, <1>4, PagerAssumption DEF JournalInv, TypeOK, Pages
<1> DEFINE rec == [page |-> p, was |-> card.db[p]]
<1>6. p \in Pages /\ rec \in Records
    BY <1>3 DEF JournalInv, TypeOK, FileTypes, Records
<1>7. /\ card' \in FileTypes /\ card'.db = card.db
      /\ card'.jrnl.magic = card.jrnl.magic /\ card'.jrnl.n = card.jrnl.n
      /\ card'.jrnl.recs = [card.jrnl.recs EXCEPT ![count + 1] = rec]
    <2>1. card \in FileTypes
        BY <1>3 DEF TypeOK
    <2>2. card' = [card EXCEPT !.jrnl.recs[count + 1] = rec]
        BY <1>1 DEF Journalled
    <2> HIDE DEF rec
    <2> QED  BY <1>5, <1>6, <2>1, <2>2, RecordWritten
<1>8. Good(before, rec) /\ rec.page = p
    <2>1. rec # NoRecord
        BY <1>6, PagerAssumption DEF NoRecord, Pages
    <2> QED  BY <1>1, <1>3, <2>1 DEF Good, JournalInv
<1>9. card.jrnl.recs \in [Pages -> Records]
    BY <1>3 DEF TypeOK, FileTypes
<1> HIDE DEF rec
<1>10. \A i \in 1..count' : card'.jrnl.recs[i] = IF i = count + 1 THEN rec ELSE card.jrnl.recs[i]
    <2>1. 1..count' \subseteq Pages
        BY <1>2, <1>5, PagerAssumption DEF Pages
    <2> QED  BY <1>7, <1>9, <2>1
<1>11. \A i \in 1..count' : i = count + 1 \/ i \in 1..count
    BY <1>2, <1>5
<1>12. \A i \in 1..count' : Good(before, card'.jrnl.recs[i])
    BY <1>3, <1>8, <1>10, <1>11 DEF JournalInv
<1>13. \A q \in dirty : before[q] # NoPage =>
          q \in todo' \/ \E i \in 1..count' : card'.jrnl.recs[i].page = q
    <2> SUFFICES ASSUME NEW q \in dirty, before[q] # NoPage, q \notin todo'
                 PROVE  \E i \in 1..count' : card'.jrnl.recs[i].page = q
        OBVIOUS
    <2>1. CASE q = p
        <3>1. count + 1 \in 1..count'
            BY <1>2, <1>5
        <3> QED  BY <1>8, <1>10, <2>1, <3>1
    <2>2. CASE q # p
        <3>1. PICK i \in 1..count : card.jrnl.recs[i].page = q
            BY <1>1, <1>3, <2>2 DEF JournalInv
        <3>2. i \in 1..count' /\ i # count + 1
            BY <1>2, <1>5
        <3> QED  BY <1>10, <3>1, <3>2
    <2> QED  BY <2>1, <2>2
<1>14. JournalInv'
    <2>1. ~ Hot(card)' /\ card'.jrnl.n = 0 /\ card'.db = before' /\ told' = "none"
        BY <1>2, <1>3, <1>7 DEF JournalInv, Hot
    <2>2. todo' \subseteq Pages /\ \A q \in todo' : before'[q] # NoPage
        BY <1>1, <1>2, <1>3 DEF JournalInv
    <2>3. count' + Cardinality(todo') <= MaxPages
        BY <1>2, <1>3, <1>4, <1>5, PagerAssumption DEF JournalInv
    <2>4. \A i \in 1..count' : Good(before', card'.jrnl.recs[i])
        BY <1>2, <1>12
    <2> QED  BY <1>2, <1>13, <2>1, <2>2, <2>3, <2>4 DEF JournalInv
<1>15. TypeOK'
    <2>1. count' \in 0..MaxPages
        BY <1>2, <1>5, PagerAssumption DEF Pages
    <2>2. todo' \subseteq Pages
        BY <1>1, <1>3 DEF TypeOK
    <2> QED  BY <1>2, <1>3, <1>7, <2>1, <2>2 DEF TypeOK
<1>16. StatementInv'
    BY <1>2, <1>3, <1>4 DEF StatementInv
<1>17. Contiguous(card'.db)
    BY <1>7 DEF IInv
<1> QED  BY <1>2, <1>14, <1>15, <1>16, <1>17 DEF IInv, StepInv

(* The journal gets its header: from now on it is hot.                     *)
LEMMA SyncJournalKeeps == IInv /\ SyncJournal => IInv'
<1> SUFFICES ASSUME IInv, SyncJournal PROVE IInv'
    OBVIOUS
<1>1. /\ step = "journal" /\ todo = {} /\ card' = Synced(card) /\ step' = "store" /\ todo' = dirty
      /\ UNCHANGED <<count, dirty, before, after, told, txns, faults>>
    BY DEF SyncJournal
<1>2. TypeOK /\ JournalInv /\ StatementInv
    BY <1>1 DEF IInv, StepInv
<1>3. /\ card' \in FileTypes /\ card'.db = card.db /\ card'.jrnl.magic = "whole"
      /\ card'.jrnl.n = count /\ card'.jrnl.recs = card.jrnl.recs
    <2>1. card \in FileTypes /\ count \in 0..MaxPages
        BY <1>2 DEF TypeOK
    <2> QED  BY <1>1, <2>1 DEF Synced, FileTypes, Magics
<1>4. TypeOK'
    BY <1>1, <1>2, <1>3 DEF TypeOK, Steps
<1>5. IsFiniteSet(todo')
    <2>1. IsFiniteSet(Pages)
        BY PagerAssumption, FS_Interval DEF Pages
    <2> QED  BY <1>1, <1>2, <2>1, FS_Subset DEF TypeOK
<1>6. StatementInv'
    BY <1>1, <1>2, <1>5 DEF StatementInv
<1>7. StoreInv'
    <2>1. \A p \in Pages : card'.db[p] = IF p \in todo' THEN before'[p] ELSE after'[p]
        BY <1>1, <1>2, <1>3 DEF JournalInv, StatementInv
    <2>2. \A i \in 1..count' : Good(before', card'.jrnl.recs[i])
        BY <1>1, <1>2, <1>3 DEF JournalInv
    <2>3. \A p \in dirty' : before'[p] # NoPage =>
            \E i \in 1..count' : card'.jrnl.recs[i].page = p
        BY <1>1, <1>2, <1>3 DEF JournalInv
    <2>4. told' = "none"
        BY <1>1, <1>2 DEF JournalInv
    <2> QED  BY <1>1, <1>3, <2>1, <2>2, <2>3, <2>4 DEF StoreInv
<1>8. Contiguous(card'.db)
    BY <1>3 DEF IInv
<1> QED  BY <1>1, <1>4, <1>6, <1>7, <1>8 DEF IInv, StepInv

(* A page written while the pages are stored leaves them contiguous.       *)
LEMMA StoreGrows ==
    ASSUME TypeOK, Contiguous(card.db), StatementInv, StoreInv, step = "store",
           NEW p \in First(todo), NEW c \in Contents \ {NoPage}
    PROVE  p \in Pages /\ p \in dirty /\ Contiguous([card.db EXCEPT ![p] = c])
<1>1. p \in todo /\ (\A q \in todo : p <= q) /\ p \in dirty /\ p \in Pages
    BY FirstIsOne DEF StoreInv, TypeOK
<1>2. card.db \in [Pages -> Contents] /\ Pages \subseteq Nat /\ NoPage \notin Nat
    BY PagerAssumption DEF TypeOK, FileTypes, Pages, NoPage
<1>3. ASSUME card.db[p] = NoPage, NEW q \in Pages, q < p PROVE card.db[q] # NoPage
    <2>1. q \notin todo /\ before[p] = NoPage
        BY <1>1, <1>2, <1>3 DEF StoreInv
    <2>2. before[q] # NoPage \/ q \in dirty
        BY <1>1, <1>3, <2>1 DEF StatementInv
    <2>3. card.db[q] = after[q]
        BY <2>1 DEF StoreInv
    <2> QED  BY <1>2, <2>2, <2>3 DEF StatementInv
<1> QED  BY <1>1, <1>2, <1>3, GrowsByOne

(* A page is stored.                                                       *)
LEMMA StorePageKeeps == IInv /\ StorePage => IInv'
<1> SUFFICES ASSUME IInv, StorePage PROVE IInv'
    OBVIOUS
<1>1. PICK p \in First(todo) : card' = Stored(card, p) /\ todo' = todo \ {p}
    BY DEF StorePage
<1>2. /\ step = "store"
      /\ UNCHANGED <<step, count, dirty, before, after, told, txns, faults>>
    BY DEF StorePage
<1>3. TypeOK /\ StoreInv /\ StatementInv /\ Contiguous(card.db)
    BY <1>2 DEF IInv, StepInv
<1>4. p \in Pages /\ p \in dirty
    BY FirstIsOne, <1>3 DEF StoreInv, TypeOK
<1>5. after[p] \in Contents \ {NoPage}
    <2>1. NoPage \notin Nat
        BY DEF NoPage
    <2> QED  BY <1>2, <1>3, <1>4, <2>1 DEF StatementInv, TypeOK
<1>6. Contiguous([card.db EXCEPT ![p] = after[p]])
    BY <1>2, <1>3, <1>5, StoreGrows
<1>7. card' \in FileTypes /\ card'.db = [card.db EXCEPT ![p] = after[p]] /\ card'.jrnl = card.jrnl
    <2>1. card \in FileTypes
        BY <1>3 DEF TypeOK
    <2> QED  BY <1>1, <1>4, <1>5, <2>1, DbWritten DEF Stored
<1>8. TypeOK'
    BY <1>1, <1>2, <1>3, <1>7 DEF TypeOK
<1>9. StatementInv'
    BY <1>1, <1>2, <1>3, FS_RemoveElement, FS_Subset DEF StatementInv
<1>10. StoreInv'
    <2>1. card.db \in [Pages -> Contents]
        BY <1>3 DEF TypeOK, FileTypes
    <2>2. \A q \in Pages : card'.db[q] = IF q \in todo' THEN before'[q] ELSE after'[q]
        BY <1>1, <1>2, <1>3, <1>7, <2>1 DEF StoreInv
    <2>3. \A i \in 1..count' : Good(before', card'.jrnl.recs[i])
        BY <1>2, <1>3, <1>7 DEF StoreInv
    <2>4. \A q \in dirty' : before'[q] # NoPage =>
            \E i \in 1..count' : card'.jrnl.recs[i].page = q
        BY <1>2, <1>3, <1>7 DEF StoreInv
    <2> QED  BY <1>1, <1>2, <1>3, <1>7, <2>2, <2>3, <2>4 DEF StoreInv
<1> QED  BY <1>2, <1>6, <1>7, <1>8, <1>9, <1>10 DEF IInv, StepInv

(* The journal goes, and with it what the statement could be undone by.    *)
LEMMA CommitKeeps == IInv /\ Commit => IInv'
<1> SUFFICES ASSUME IInv, Commit PROVE IInv'
    OBVIOUS
<1>1. /\ step = "store" /\ todo = {} /\ card' = [card EXCEPT !.jrnl = Empty]
      /\ step' = "unlocked" /\ told' = "done"
      /\ UNCHANGED <<todo, count, dirty, before, after, txns, faults>>
    BY DEF Commit
<1>2. TypeOK /\ StoreInv
    BY <1>1 DEF IInv, StepInv
<1>3. card' \in FileTypes /\ card'.db = card.db /\ card'.jrnl.magic = "zero"
    BY <1>1, <1>2, JournalEmptied DEF TypeOK
<1>4. TypeOK'
    BY <1>1, <1>2, <1>3 DEF TypeOK, Steps
<1>5. Holds(card'.db, after')
    BY <1>1, <1>2, <1>3 DEF StoreInv, Holds
<1>6. ~ Hot(card)' /\ ColdInv'
    BY <1>1, <1>3, <1>5 DEF Hot, ColdInv
<1>7. Contiguous(card'.db)
    BY <1>3 DEF IInv
<1> QED  BY <1>1, <1>4, <1>6, <1>7 DEF IInv, StepInv, StatementInv

-----------------------------------------------------------------------------
(* Playbacks.                                                              *)

(* A page that is saved may be written.                                    *)
LEMMA HotWrite ==
    ASSUME TypeOK, HotInv, Contiguous(card.db), NEW i \in Played(card.jrnl), NEW c \in Contents \ {NoPage}
    PROVE  LET p == card.jrnl.recs[i].page
           IN  /\ p \in Pages /\ before[p] # NoPage /\ card.db[p] # NoPage
               /\ Contiguous([card.db EXCEPT ![p] = c])
<1> DEFINE p == card.jrnl.recs[i].page
<1>1. card.db \in [Pages -> Contents] /\ card.jrnl.recs \in [Pages -> Records]
      /\ card.jrnl.n \in 0..MaxPages
    BY DEF TypeOK, FileTypes
<1>2. i \in Pages
    BY <1>1, PagerAssumption DEF Played, Pages
<1>3. Good(before, card.jrnl.recs[i])
    BY DEF HotInv
<1>4. p \in Pages /\ before[p] # NoPage
    BY <1>1, <1>2, <1>3 DEF Good, Records
<1>5. card.db[p] # NoPage
    BY <1>4 DEF HotInv
<1> HIDE DEF p
<1>6. Contiguous([card.db EXCEPT ![p] = c])
    BY <1>1, <1>4, <1>5, GrowsByOne
<1> QED  BY <1>4, <1>5, <1>6 DEF p

(* What is written to the database, whole or torn, leaves a hot journal    *)
(* able to restore it.                                                     *)
LEMMA StaysHot ==
    ASSUME TypeOK, HotInv, Hot(card), NEW p \in Pages, NEW c \in Contents \ {NoPage},
           card' = [card EXCEPT !.db[p] = c], before' = before, told' # "done",
           before[p] = NoPage \/ c = before[p] \/ Saved(p)
    PROVE  /\ card' \in FileTypes /\ card'.jrnl = card.jrnl
           /\ card'.db = [card.db EXCEPT ![p] = c]
           /\ HotInv' /\ Hot(card)'
<1>1. card' \in FileTypes /\ card'.jrnl = card.jrnl /\ card'.db = [card.db EXCEPT ![p] = c]
    <2>1. card \in FileTypes
        BY DEF TypeOK
    <2> QED  BY <2>1, DbWritten
<1>2. card.db \in [Pages -> Contents]
    BY DEF TypeOK, FileTypes
<1>3. \A i \in Played(card'.jrnl) : Good(before', card'.jrnl.recs[i])
    BY <1>1 DEF HotInv
<1>4. \A q \in Pages : Saved(q)' <=> Saved(q)
    BY <1>1 DEF Saved
<1>5. \A q \in Pages : before'[q] # NoPage =>
        card'.db[q] # NoPage /\ (card'.db[q] = before'[q] \/ Saved(q)')
    BY <1>1, <1>2, <1>4 DEF HotInv
<1>6. Hot(card)'
    BY <1>1 DEF Hot
<1> QED  BY <1>1, <1>3, <1>5, <1>6 DEF HotInv

(* A page is restored.                                                     *)
LEMMA PlayBackKeeps == IInv /\ PlayBack => IInv'
<1> SUFFICES ASSUME IInv, PlayBack PROVE IInv'
    OBVIOUS
<1>1. PICK i \in First(todo) : card' = PlayedBack(card, i) /\ todo' = todo \ {i}
    BY DEF PlayBack
<1>2. /\ step \in {"hot", "undo"}
      /\ UNCHANGED <<step, count, dirty, before, after, told, txns, faults>>
    BY DEF PlayBack
<1>3. TypeOK /\ PlaybackInv /\ Contiguous(card.db)
    BY <1>2 DEF IInv, StepInv
<1>4. i \in todo /\ i \in Played(card.jrnl)
    BY <1>3, FirstIsOne DEF PlaybackInv
<1> DEFINE p == card.jrnl.recs[i].page
           c == card.jrnl.recs[i].was
<1>5. Good(before, card.jrnl.recs[i])
    BY <1>3, <1>4 DEF PlaybackInv, HotInv
<1>6. c \in Contents \ {NoPage} /\ c = before[p]
    <2>1. card.jrnl.recs \in [Pages -> Records] /\ card.jrnl.n \in 0..MaxPages
        BY <1>3 DEF TypeOK, FileTypes
    <2>2. i \in Pages
        BY <1>4, <2>1, PagerAssumption DEF Played, Pages
    <2> QED  BY <1>5, <2>1, <2>2 DEF Good, Records
<1>7. p \in Pages /\ Contiguous([card.db EXCEPT ![p] = c])
    BY <1>3, <1>4, <1>6, HotWrite DEF PlaybackInv
<1>8. card' = [card EXCEPT !.db[p] = c]
    BY <1>1 DEF PlayedBack
<1> HIDE DEF p, c
<1>9. /\ card' \in FileTypes /\ card'.jrnl = card.jrnl /\ card'.db = [card.db EXCEPT ![p] = c]
      /\ HotInv' /\ Hot(card)'
    BY <1>2, <1>3, <1>6, <1>7, <1>8, StaysHot DEF PlaybackInv, HotInv
<1>10. TypeOK'
    BY <1>1, <1>2, <1>3, <1>9 DEF TypeOK
<1>11. PlaybackInv'
    <2>1. todo' \subseteq Played(card'.jrnl)
        BY <1>1, <1>3, <1>9 DEF PlaybackInv
    <2>2. card.db \in [Pages -> Contents]
        BY <1>3 DEF TypeOK, FileTypes
    <2>3. \A j \in Played(card'.jrnl) \ todo' :
            card'.db[card'.jrnl.recs[j].page] = before'[card'.jrnl.recs[j].page]
        <3> SUFFICES ASSUME NEW j \in Played(card.jrnl), j \notin todo \/ j = i
                     PROVE  card'.db[card.jrnl.recs[j].page] = before[card.jrnl.recs[j].page]
            BY <1>1, <1>2, <1>9
        <3>1. CASE card.jrnl.recs[j].page = p
            BY <1>6, <1>7, <1>9, <2>2, <3>1
        <3>2. CASE card.jrnl.recs[j].page # p
            <4>1. j \notin todo
                BY <3>2 DEF p
            <4>2. card.db[card.jrnl.recs[j].page] = before[card.jrnl.recs[j].page]
                BY <1>3, <4>1 DEF PlaybackInv
            <4>3. card.jrnl.recs[j].page \in Pages
                <5>1. Torn \in Contents \ {NoPage}
                    BY DEF Contents, Torn, NoPage
                <5>2. HotInv
                    BY <1>3 DEF PlaybackInv
                <5> QED  BY <1>3, <5>1, <5>2, HotWrite
            <4> QED  BY <1>9, <2>2, <3>2, <4>2, <4>3
        <3> QED  BY <3>1, <3>2
    <2> QED  BY <1>9, <2>1, <2>3 DEF PlaybackInv
<1>12. StatementInv'
    BY <1>2 DEF StatementInv
<1>13. Contiguous(card'.db)
    BY <1>7, <1>9
<1> QED  BY <1>2, <1>10, <1>11, <1>12, <1>13 DEF IInv, StepInv

(* All pages are restored: the database is the one before the statement.   *)
LEMMA EndPlaybackKeeps == IInv /\ EndPlayback => IInv'
<1> SUFFICES ASSUME IInv, EndPlayback PROVE IInv'
    OBVIOUS
<1>1. /\ step \in {"hot", "undo"} /\ todo = {} /\ card' = [card EXCEPT !.jrnl = Empty]
      /\ step' \in {"ready", "unlocked"}
      /\ UNCHANGED <<todo, count, dirty, before, after, told, txns, faults>>
    BY DEF EndPlayback
<1>2. TypeOK /\ PlaybackInv
    BY <1>1 DEF IInv, StepInv
<1>3. card' \in FileTypes /\ card'.db = card.db /\ card'.jrnl.magic = "zero"
    BY <1>1, <1>2, JournalEmptied DEF TypeOK
<1>4. TypeOK'
    BY <1>1, <1>2, <1>3 DEF TypeOK, Steps
<1>5. Holds(card.db, before)
    BY <1>1, <1>2 DEF PlaybackInv, HotInv, Saved, Holds
<1>6. ~ Hot(card)' /\ ColdInv'
    BY <1>1, <1>2, <1>3, <1>5 DEF Hot, ColdInv, PlaybackInv, HotInv
<1>7. Contiguous(card'.db)
    BY <1>3 DEF IInv
<1> QED  BY <1>1, <1>4, <1>6, <1>7 DEF IInv, StepInv, StatementInv

-----------------------------------------------------------------------------
(* Faults.                                                                 *)

(* A fault counts.                                                         *)
LEMMA FaultsTyped == ASSUME faults \in 0..MaxFaults, NEW n \in {1, 2}, Faults(n)
                     PROVE  faults' \in 0..MaxFaults
BY PagerAssumption DEF Faults

(* While the journal is written the database is whole: a write cut short   *)
(* leaves a journal that is not hot, or one that restores what is there.   *)
LEMMA JournalCut ==
    ASSUME IInv, step = "journal", NEW files \in CutShort(card) \cup {card},
           card' = files, before' = before, told' \in {"none", "error"}
    PROVE  /\ card' \in FileTypes /\ card'.db = card.db
           /\ IF Hot(card)' THEN HotInv' ELSE ColdInv'
<1>1. TypeOK /\ JournalInv
    BY DEF IInv, StepInv
<1>2. card \in FileTypes /\ count \in 0..MaxPages
    BY <1>1 DEF TypeOK
<1>3. ASSUME card' \in FileTypes, card'.db = card.db, ~ Hot(card)'
      PROVE  ColdInv'
    BY <1>1, <1>3 DEF ColdInv, Holds, JournalInv
<1>4. ASSUME card' \in FileTypes, card'.db = card.db,
             \A i \in Played(card'.jrnl) : Good(before, card'.jrnl.recs[i])
      PROVE  HotInv'
    <2>1. \A i \in Played(card'.jrnl) : Good(before', card'.jrnl.recs[i])
        BY <1>4
    <2>2. \A p \in Pages : before'[p] # NoPage => card'.db[p] # NoPage /\ card'.db[p] = before'[p]
        BY <1>1, <1>4 DEF JournalInv
    <2> QED  BY <2>1, <2>2 DEF HotInv
<1>5. CASE files = card
    <2>1. ~ Hot(card)'
        BY <1>1, <1>5 DEF JournalInv, Hot
    <2> QED  BY <1>2, <1>3, <1>5, <2>1
<1>6. CASE todo = {} /\ files = [card EXCEPT !.jrnl = [@ EXCEPT !.magic = "torn"]]
    <2>1. files \in FileTypes /\ files.db = card.db /\ files.jrnl.magic = "torn"
        BY <1>2, <1>6, MagicTorn
    <2>2. Played(files.jrnl) = {}
        BY <2>1 DEF Played
    <2> QED  BY <1>3, <1>4, <2>1, <2>2
<1>7. ASSUME todo = {}, NEW n \in 0..count,
             files = [card EXCEPT !.jrnl = [@ EXCEPT !.magic = "whole", !.n = n]]
      PROVE  /\ card' \in FileTypes /\ card'.db = card.db
             /\ IF Hot(card)' THEN HotInv' ELSE ColdInv'
    <2>1. n \in 0..MaxPages
        BY <1>2, PagerAssumption
    <2>2. files \in FileTypes /\ files.db = card.db /\ files.jrnl.n = n
          /\ files.jrnl.recs = card.jrnl.recs
        BY <1>2, <1>7, <2>1 DEF FileTypes, Magics
    <2>3. \A i \in Played(files.jrnl) : i \in 1..count
        BY <1>2, <2>1, <2>2, PagerAssumption DEF Played
    <2>4. \A i \in Played(files.jrnl) : Good(before, files.jrnl.recs[i])
        BY <1>1, <2>2, <2>3 DEF JournalInv
    <2> QED  BY <1>3, <1>4, <2>2, <2>4
<1>8. CASE todo # {} /\ files = [card EXCEPT !.jrnl.recs[count + 1] = NoRecord]
    <2>1. count + 1 \in Pages
        <3>1. IsFiniteSet(todo)
            BY DEF IInv, StatementInv
        <3>2. Cardinality(todo) \in Nat /\ Cardinality(todo) # 0
            BY <1>8, <3>1, FS_CardinalityType, FS_EmptySet
        <3> QED  BY <1>1, <1>2, <3>2, PagerAssumption DEF JournalInv, Pages
    <2>2. NoRecord \in Records
        BY DEF Records
    <2>3. card' \in FileTypes /\ card'.db = card.db /\ card'.jrnl.magic = card.jrnl.magic
        BY <1>2, <1>8, <2>1, <2>2, RecordWritten
    <2>4. ~ Hot(card)'
        BY <1>1, <2>3 DEF JournalInv, Hot
    <2> QED  BY <1>3, <2>3, <2>4
<1> QED  BY <1>5, <1>6, <1>7, <1>8 DEF CutShort

(* A write to the database that is cut short leaves a torn page, which the *)
(* hot journal restores.                                                   *)
LEMMA DatabaseCut ==
    ASSUME IInv, step \in {"store", "hot", "undo"}, NEW files \in CutShort(card) \cup {card},
           card' = files, before' = before, told' # "done"
    PROVE  /\ card' \in FileTypes /\ card'.jrnl = card.jrnl /\ Contiguous(card'.db)
           /\ HotInv' /\ Hot(card)'
<1>1. TypeOK /\ Contiguous(card.db) /\ HotInv /\ Hot(card)
    BY StoreIsHot DEF IInv, StepInv, PlaybackInv
<1>2. Torn \in Contents \ {NoPage}
    BY DEF Contents, Torn, NoPage
<1>3. CASE files = card
    <2>1. HotInv'
        BY <1>1, <1>3 DEF HotInv, Saved
    <2> QED  BY <1>1, <1>3, <2>1 DEF TypeOK, Hot
<1>4. CASE step = "store" /\ \E p \in First(todo) : files = [card EXCEPT !.db[p] = Torn]
    <2>1. PICK p \in First(todo) : files = [card EXCEPT !.db[p] = Torn]
        BY <1>4
    <2>2. StoreInv /\ StatementInv
        BY <1>4 DEF IInv, StepInv
    <2>3. p \in Pages /\ p \in dirty /\ Contiguous([card.db EXCEPT ![p] = Torn])
        BY <1>1, <1>2, <1>4, <2>2, StoreGrows
    <2>4. before[p] = NoPage \/ Saved(p)
        BY <1>1, <1>4, <2>2, <2>3, StoreIsHot DEF StoreInv, Saved
    <2> QED  BY <1>1, <1>2, <2>1, <2>3, <2>4, StaysHot
<1>5. CASE /\ step \in {"hot", "undo"}
           /\ \E i \in First(todo) : files = [card EXCEPT !.db[card.jrnl.recs[i].page] = Torn]
    <2>1. PICK i \in First(todo) : files = [card EXCEPT !.db[card.jrnl.recs[i].page] = Torn]
        BY <1>5
    <2>2. i \in Played(card.jrnl)
        BY <1>5, FirstIsOne DEF IInv, StepInv, PlaybackInv
    <2> DEFINE p == card.jrnl.recs[i].page
    <2>3. p \in Pages /\ Contiguous([card.db EXCEPT ![p] = Torn])
        BY <1>1, <1>2, <2>2, HotWrite
    <2>4. Saved(p)
        BY <2>2 DEF Saved
    <2>5. card' = [card EXCEPT !.db[p] = Torn]
        BY <2>1
    <2> HIDE DEF p
    <2> QED  BY <1>1, <1>2, <2>3, <2>4, <2>5, StaysHot
<1> QED  BY <1>3, <1>4, <1>5 DEF CutShort

(* A write of the journal fails.                                           *)
LEMMA JournalFailsKeeps == IInv /\ JournalFails => IInv'
<1> SUFFICES ASSUME IInv, JournalFails PROVE IInv'
    OBVIOUS
<1>1. /\ step = "journal" /\ step' = "unlocked" /\ todo' = {} /\ told' = "error"
      /\ UNCHANGED <<count, dirty, before, after, txns>>
    BY DEF JournalFails
<1>2. PICK files \in CutShort(card) \cup {card} :
        \/ Faults(1) /\ card' = [files EXCEPT !.jrnl = Empty]
        \/ Faults(2) /\ card' = files
    BY DEF JournalFails
<1>3. TypeOK /\ JournalInv
    BY <1>1 DEF IInv, StepInv
<1>4. faults' \in 0..MaxFaults
    BY <1>2, <1>3, FaultsTyped DEF TypeOK
<1>5. card' \in FileTypes /\ card'.db = card.db /\ IF Hot(card)' THEN HotInv' ELSE ColdInv'
    <2>1. CASE card' = files
        BY <1>1, <2>1, JournalCut
    <2>2. CASE card' = [files EXCEPT !.jrnl = Empty]
        <3>1. files \in FileTypes /\ files.db = card.db
            <4>1. card \in FileTypes /\ count \in 0..MaxPages
                BY <1>3 DEF TypeOK
            <4>2. CASE files = card
                BY <4>1, <4>2
            <4>3. CASE todo = {} /\ files = [card EXCEPT !.jrnl = [@ EXCEPT !.magic = "torn"]]
                BY <4>1, <4>3, MagicTorn
            <4>4. ASSUME NEW n \in 0..count,
                         files = [card EXCEPT !.jrnl = [@ EXCEPT !.magic = "whole", !.n = n]]
                  PROVE  files \in FileTypes /\ files.db = card.db
                <5>1. n \in 0..MaxPages
                    BY <4>1, PagerAssumption
                <5> QED  BY <4>1, <4>4, <5>1 DEF FileTypes, Magics
            <4>5. CASE todo # {} /\ files = [card EXCEPT !.jrnl.recs[count + 1] = NoRecord]
                <5>1. IsFiniteSet(todo)
                    BY <1>1 DEF IInv, StatementInv
                <5>2. Cardinality(todo) \in Nat /\ Cardinality(todo) # 0
                    BY <4>5, <5>1, FS_CardinalityType, FS_EmptySet
                <5>3. count + 1 \in Pages /\ NoRecord \in Records
                    BY <1>3, <4>1, <5>2, PagerAssumption DEF JournalInv, Pages, Records
                <5> QED  BY <4>1, <4>5, <5>3, RecordWritten
            <4> QED  BY <1>1, <4>2, <4>3, <4>4, <4>5 DEF CutShort
        <3>2. card' \in FileTypes /\ card'.db = card.db /\ card'.jrnl.magic = "zero"
            BY <2>2, <3>1, JournalEmptied
        <3>3. ~ Hot(card)' /\ ColdInv'
            BY <1>1, <1>3, <3>2 DEF Hot, ColdInv, Holds, JournalInv
        <3> QED  BY <3>2, <3>3
    <2> QED  BY <1>2, <2>1, <2>2
<1>6. TypeOK'
    BY <1>1, <1>3, <1>4, <1>5 DEF TypeOK, Steps
<1>7. Contiguous(card'.db)
    BY <1>5 DEF IInv
<1> QED  BY <1>1, <1>5, <1>6, <1>7 DEF IInv, StepInv, StatementInv

(* A write of the database fails: the rollback starts.                     *)
LEMMA StoreFailsKeeps == IInv /\ StoreFails => IInv'
<1> SUFFICES ASSUME IInv, StoreFails PROVE IInv'
    OBVIOUS
<1>1. /\ step = "store" /\ step' = "undo" /\ todo' = Played(card.jrnl) /\ told' = "error"
      /\ Faults(1) /\ UNCHANGED <<count, dirty, before, after, txns>>
    BY DEF StoreFails, Fault
<1>2. PICK files \in CutShort(card) \cup {card} : card' = files
    BY DEF StoreFails
<1>3. /\ card' \in FileTypes /\ card'.jrnl = card.jrnl /\ Contiguous(card'.db)
      /\ HotInv' /\ Hot(card)'
    BY <1>1, <1>2, DatabaseCut
<1>4. todo' \subseteq Pages
    BY <1>1, PagerAssumption DEF IInv, TypeOK, FileTypes, Played, Pages
<1>5. faults' \in 0..MaxFaults
    BY <1>1, FaultsTyped DEF IInv, TypeOK
<1>6. TypeOK'
    BY <1>1, <1>3, <1>4, <1>5 DEF IInv, TypeOK, Steps
<1>7. PlaybackInv'
    BY <1>1, <1>3 DEF PlaybackInv
<1> QED  BY <1>1, <1>3, <1>6, <1>7 DEF IInv, StepInv, StatementInv

(* The journal cannot be removed.                                          *)
LEMMA CommitFailsKeeps == IInv /\ CommitFails => IInv'
<1> SUFFICES ASSUME IInv, CommitFails PROVE IInv'
    OBVIOUS
<1>1. /\ step = "store" /\ step' = "unlocked" /\ told' = "error" /\ Faults(1)
      /\ UNCHANGED <<card, todo, count, dirty, before, after, txns>>
    BY DEF CommitFails, Fault
<1>2. card' \in CutShort(card) \cup {card}
    BY <1>1
<1>3. card' \in FileTypes /\ Contiguous(card'.db) /\ HotInv' /\ Hot(card)'
    BY <1>1, <1>2, DatabaseCut
<1>4. faults' \in 0..MaxFaults
    BY <1>1, FaultsTyped DEF IInv, TypeOK
<1>5. TypeOK'
    BY <1>1, <1>3, <1>4 DEF IInv, TypeOK, Steps
<1> QED  BY <1>1, <1>3, <1>5 DEF IInv, StepInv, StatementInv

(* The power goes, or a playback is given up.                              *)
LEMMA CutKeeps == IInv /\ (PowerLoss \/ PlayBackFails) => IInv'
<1> SUFFICES ASSUME IInv, PowerLoss \/ PlayBackFails PROVE IInv'
    OBVIOUS
<1>1. /\ step # "unlocked" /\ step' = "unlocked" /\ todo' = {} /\ Faults(1)
      /\ UNCHANGED <<count, dirty, before, after, told, txns>>
    BY DEF PowerLoss, PlayBackFails, Fault
<1>2. PICK files \in CutShort(card) \cup {card} : card' = files
    BY DEF PowerLoss, PlayBackFails
<1>3. TypeOK /\ faults' \in 0..MaxFaults
    BY <1>1, FaultsTyped DEF IInv, TypeOK
<1>4. card' \in FileTypes /\ Contiguous(card'.db) /\ IF Hot(card)' THEN HotInv' ELSE ColdInv'
    <2>1. CASE step = "journal"
        <3>1. told' \in {"none", "error"}
            BY <1>1, <2>1 DEF IInv, StepInv, JournalInv
        <3>2. card' \in FileTypes /\ card'.db = card.db /\ IF Hot(card)' THEN HotInv' ELSE ColdInv'
            BY <1>1, <1>2, <2>1, <3>1, JournalCut
        <3> QED  BY <3>2 DEF IInv
    <2>2. CASE step \in {"store", "hot", "undo"}
        <3>1. told' # "done"
            BY <1>1, <2>2 DEF IInv, StepInv, StoreInv, PlaybackInv, HotInv
        <3> QED  BY <1>1, <1>2, <2>2, <3>1, DatabaseCut
    <2>3. CASE step = "ready"
        <3>1. card' = card
            BY <1>2, <2>3 DEF CutShort
        <3>2. ~ Hot(card)' /\ ColdInv'
            BY <1>1, <2>3, <3>1 DEF IInv, StepInv, Hot, ColdInv, Holds
        <3> QED  BY <1>3, <3>1, <3>2 DEF IInv, TypeOK
    <2> QED  BY <1>1, <1>3, <2>1, <2>2, <2>3 DEF TypeOK, Steps
<1>5. TypeOK'
    BY <1>1, <1>3, <1>4 DEF TypeOK, Steps
<1> QED  BY <1>1, <1>4, <1>5 DEF IInv, StepInv, StatementInv

(* Every step.                                                             *)
LEMMA IInvInductive == IInv /\ [Next]_vars => IInv'
<1> SUFFICES ASSUME IInv, [Next]_vars PROVE IInv'
    OBVIOUS
<1>1. CASE UNCHANGED vars
    BY <1>1 DEF vars, IInv, TypeOK, Contiguous, EndsAt, StatementInv, StepInv, HotInv, ColdInv,
        JournalInv, StoreInv, PlaybackInv, Saved, Hot, Holds
<1> QED  BY <1>1, ShareKeeps, BeginKeeps, JournalPageKeeps, SyncJournalKeeps, StorePageKeeps,
        CommitKeeps, PlayBackKeeps, EndPlaybackKeeps, JournalFailsKeeps, StoreFailsKeeps,
        CommitFailsKeeps, CutKeeps
    DEF Next, Work, Fails

-----------------------------------------------------------------------------
(* The theorems.                                                           *)

(* The journal never holds more records than the database has pages.       *)
THEOREM TypeCorrect == Spec => []TypeOK
<1>1. IInv => TypeOK
    BY DEF IInv
<1> QED  BY <1>1, InitIInv, IInvInductive, PTL DEF Spec

(* Wherever the power goes, a restart finds all of the last statement or   *)
(* nothing of it.                                                          *)
THEOREM Atomic == Spec => []AllOrNothing
<1>1. IInv => AllOrNothing
    <2> SUFFICES ASSUME IInv PROVE Holds(Restored(card), before) \/ Holds(Restored(card), after)
        BY DEF AllOrNothing
    <2>1. TypeOK /\ (HotInv \/ (~ Hot(card) /\ ColdInv) \/ (~ Hot(card) /\ card.db = before))
        BY StoreIsHot DEF IInv, StepInv, TypeOK, Steps, PlaybackInv, JournalInv
    <2>2. CASE HotInv
        BY <2>1, <2>2, HotRestores
    <2>3. CASE ~ Hot(card) /\ (ColdInv \/ card.db = before)
        BY <2>1, <2>3, ColdRestores DEF ColdInv, Holds
    <2> QED  BY <2>1, <2>2, <2>3
<1> QED  BY <1>1, InitIInv, IInvInductive, PTL DEF Spec

(* What was called done stays done, and what was called an error is undone.*)
THEOREM Truthful == Spec => []ToldTruly
<1>1. IInv => ToldTruly
    <2> SUFFICES ASSUME IInv PROVE ToldTruly
        OBVIOUS
    <2>1. TypeOK /\ (HotInv \/ (~ Hot(card) /\ ColdInv) \/ told = "none")
        BY StoreIsHot DEF IInv, StepInv, TypeOK, Steps, PlaybackInv, JournalInv
    <2>2. CASE HotInv
        BY <2>1, <2>2, HotRestores DEF ToldTruly, HotInv
    <2>3. CASE ~ Hot(card) /\ ColdInv
        BY <2>1, <2>3, ColdRestores DEF ColdInv, ToldTruly
    <2>4. CASE told = "none"
        BY <2>4 DEF ToldTruly
    <2> QED  BY <2>1, <2>2, <2>3, <2>4
<1> QED  BY <1>1, InitIInv, IInvInductive, PTL DEF Spec

-----------------------------------------------------------------------------
(* What the next process finds, from one step to the next.                 *)

(* Behind a hot journal, and until a statement is done, it is what was     *)
(* there before the statement; else it is the database as it is.           *)
Undoes == step \in {"journal", "store", "hot", "undo"} \/ Hot(card) \/ told = "error"
FoundInv ==
    /\ Undoes => Holds(Restored(card), before)
    /\ ~ Hot(card) => Restored(card) = card.db
    /\ step \in {"store", "hot", "undo"} => Hot(card)

LEMMA Found == IInv => FoundInv
<1> SUFFICES ASSUME IInv PROVE FoundInv
    OBVIOUS
<1>1. TypeOK
    BY DEF IInv
<1>2. step \in {"store", "hot", "undo"} => Hot(card) /\ HotInv
    BY <1>1, StoreIsHot DEF IInv, StepInv, PlaybackInv
<1>3. ~ Hot(card) => Restored(card) = card.db
    BY <1>1, ColdRestores
<1>4. ASSUME Undoes PROVE Holds(Restored(card), before)
    <2>1. HotInv \/ (~ Hot(card) /\ card.db = before) \/ (~ Hot(card) /\ told = "error" /\ ColdInv)
        BY <1>1, <1>2, <1>4 DEF Undoes, IInv, StepInv, TypeOK, Steps, JournalInv
    <2>2. CASE HotInv
        BY <1>1, <2>2, HotRestores
    <2>3. CASE ~ Hot(card) /\ (card.db = before \/ (told = "error" /\ ColdInv))
        BY <1>3, <2>3 DEF ColdInv, Holds
    <2> QED  BY <2>1, <2>2, <2>3
<1> QED  BY <1>2, <1>3, <1>4 DEF FoundInv

(* A loss of power, or a playback that is given up, leaves a hot journal   *)
(* or the database as it was.                                              *)
LEMMA CutLeaves ==
    ASSUME IInv, PowerLoss \/ PlayBackFails
    PROVE  Hot(card)' \/ (~ Hot(card) /\ card'.db = card.db)
<1>1. /\ step # "unlocked" /\ UNCHANGED before /\ told' = told
      /\ \E files \in CutShort(card) \cup {card} : card' = files
    BY DEF PowerLoss, PlayBackFails
<1>2. PICK files \in CutShort(card) \cup {card} : card' = files
    BY <1>1
<1>3. CASE step = "journal"
    <2>1. told' \in {"none", "error"} /\ ~ Hot(card)
        BY <1>1, <1>3 DEF IInv, StepInv, JournalInv
    <2> QED  BY <1>1, <1>2, <1>3, <2>1, JournalCut
<1>4. CASE step \in {"store", "hot", "undo"}
    <2>1. told' # "done"
        BY <1>1, <1>4 DEF IInv, StepInv, StoreInv, PlaybackInv, HotInv
    <2> QED  BY <1>1, <1>2, <1>4, <2>1, DatabaseCut
<1>5. CASE step = "ready"
    <2>1. card' = card /\ ~ Hot(card)
        BY <1>2, <1>5 DEF CutShort, IInv, StepInv
    <2> QED  BY <2>1
<1> QED  BY <1>1, <1>3, <1>4, <1>5 DEF IInv, TypeOK, Steps

(* No step but the removal of a statement's journal.                       *)
LEMMA NothingElseShows ==
    ASSUME IInv, IInv', FoundInv, FoundInv', [Next]_vars, ~ Commit,
           NEW p \in Pages, before[p] # NoPage
    PROVE  Restored(card')[p] = Restored(card)[p]
<1>1. /\ Undoes => Restored(card)[p] = before[p]
      /\ Undoes' /\ before' = before => Restored(card')[p] = before[p]
      /\ ~ Hot(card) => Restored(card) = card.db
      /\ ~ Hot(card)' => Restored(card') = card'.db
    BY DEF FoundInv, Holds, Restored, Played
<1>2. CASE card' = card
    BY <1>2 DEF Restored, Played
<1>3. CASE Begin
    <2>1. card'.db = card.db /\ ~ Hot(card)'
        BY <1>3 DEF Begin, IInv, StepInv, JournalInv, TypeOK, FileTypes
    <2>2. ~ Hot(card)
        BY <1>3 DEF Begin, IInv, StepInv
    <2> QED  BY <1>1, <2>1, <2>2
<1>4. CASE JournalPage \/ SyncJournal \/ StorePage \/ PlayBack \/ JournalFails \/ StoreFails
    <2>1. before' = before /\ Undoes /\ Undoes'
        BY <1>4 DEF JournalPage, SyncJournal, StorePage, PlayBack, JournalFails, StoreFails, Undoes
    <2> QED  BY <1>1, <2>1
<1>5. CASE EndPlayback
    <2>1. /\ step \in {"hot", "undo"} /\ todo = {} /\ card' = [card EXCEPT !.jrnl = Empty]
        BY <1>5 DEF EndPlayback
    <2>2. PlaybackInv /\ card \in FileTypes
        BY <2>1 DEF IInv, StepInv, TypeOK
    <2>3. card'.db = card.db /\ card'.jrnl.magic = "zero"
        BY <2>1, <2>2, JournalEmptied
    <2>4. card.db[p] = before[p]
        BY <2>1, <2>2 DEF PlaybackInv, HotInv, Saved
    <2>5. Undoes /\ ~ Hot(card)'
        BY <2>1, <2>3 DEF Undoes, Hot
    <2> QED  BY <1>1, <2>3, <2>4, <2>5
<1>6. CASE PowerLoss \/ PlayBackFails
    <2>1. before' = before /\ (Hot(card) => Undoes) /\ (Hot(card)' => Undoes')
        BY <1>6 DEF PowerLoss, PlayBackFails, Undoes
    <2>2. CASE ~ Hot(card) /\ card'.db = card.db /\ ~ Hot(card)'
        BY <1>1, <2>2
    <2>3. CASE Hot(card)'
        <3>1. step # "ready" \/ card' = card
            BY <1>6 DEF PowerLoss, PlayBackFails, CutShort
        <3>2. step # "unlocked"
            BY <1>6 DEF PowerLoss, PlayBackFails
        <3>3. CASE step # "ready"
            <4>1. Undoes
                BY <3>2, <3>3 DEF Undoes, IInv, TypeOK, Steps
            <4> QED  BY <1>1, <2>1, <2>3, <4>1
        <3> QED  BY <1>2, <3>1, <3>3
    <2> QED  BY <1>6, <2>2, <2>3, CutLeaves
<1>7. CASE Share \/ CommitFails \/ UNCHANGED vars
    BY <1>2, <1>7 DEF Share, CommitFails, vars
<1> QED  BY <1>3, <1>4, <1>5, <1>6, <1>7 DEF Next, Work, Fails

(* What a process has read is what the next one reads, unless a statement  *)
(* is committed between them, through any number of recoveries that fail.  *)
THEOREM CommitDecides == Spec => OnlyCommitShows
<1>1. IInv /\ IInv' /\ FoundInv /\ FoundInv' /\ [Next]_vars =>
        [\A p \in Pages :
           before[p] # NoPage /\ Restored(card')[p] # Restored(card)[p] => Commit]_vars
    BY NothingElseShows
<1> QED  BY <1>1, Found, InitIInv, IInvInductive, PTL DEF Spec, OnlyCommitShows

=============================================================================
