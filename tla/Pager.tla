------------------------------- MODULE Pager -------------------------------
(***************************************************************************)
(* How a statement of the program changes ux0:shell/db/app.db: the         *)
(* rollback journal of sqlite's pager on the file methods of               *)
(* vita_sqlite.c, which sync nothing (xSync), shrink nothing (xTruncate)   *)
(* and lock nothing (xLock, xCheckReservedLock).  Each write may fail or   *)
(* be cut short, and the power may go at any moment.                       *)
(*                                                                         *)
(* A page's content is the number of the transaction that wrote it.  A     *)
(* journal that is not there, is empty or starts with a zero byte is the   *)
(* same to the pager (xAccess finds every file, xOpen creates a missing    *)
(* journal), so one value stands for the three.  A write is on the card    *)
(* when the call returns: with writes that the card puts off, and no       *)
(* xSync, none of what follows holds.  The page cache, spills of a full    *)
(* cache and journals of several databases are left out: the program's     *)
(* statements touch a few pages of one database.                           *)
(***************************************************************************)
EXTENDS Integers, FiniteSets

CONSTANTS
    MaxPages,       \* the most pages the database can have
    Pages0,         \* the pages it has at first
    MaxTxns,        \* statements that write, a bound
    MaxFaults       \* failed writes and losses of power, a bound

ASSUME PagerAssumption ==
    /\ MaxPages \in Nat \ {0} /\ Pages0 \in 1..MaxPages
    /\ MaxTxns \in Nat /\ MaxFaults \in Nat

Pages == 1..MaxPages
NoPage == -1        \* beyond the end of the file
Torn == -2          \* a page whose write was cut short
Contents == 0..MaxTxns \cup {NoPage, Torn}

NoRecord == [page |-> 0, was |-> Torn]      \* its checksum does not fit
Records == [page : Pages, was : Contents] \cup {NoRecord}
Magics == {"zero", "torn", "whole"}
Empty == [magic |-> "zero", n |-> 0, recs |-> [i \in Pages |-> NoRecord]]

VARIABLES
    card,           \* [db, jrnl]: the database and its journal
    step,           \* what the pager is doing
    todo,           \* pages it has to journal or to store, records it has to play back
    count,          \* Pager.nRec: records in the journal
    dirty,          \* pages the statement changes
    before, after,  \* the database without and with the last statement
    told,           \* what sqlite3_exec returned for it
    txns, faults

vars == <<card, step, todo, count, dirty, before, after, told, txns, faults>>

Steps == {"unlocked", "ready", "journal", "store", "hot", "undo"}

\* The first of what there is to do, if there is something.
\* Pages are stored, and records played back, in their order.
First(S) == {p \in S : \A q \in S : p <= q}

Size(db) == Cardinality({p \in Pages : db[p] # NoPage})

\* hasHotJournal: a first byte that is not zero, and no lock to be seen.
Hot(files) == files.jrnl.magic # "zero"

\* The records a playback uses: as many as the header says, up to the first bad one.
Played(jrnl) ==
    IF jrnl.magic # "whole" THEN {}
    ELSE {i \in 1..jrnl.n : \A j \in 1..i : jrnl.recs[j] # NoRecord}

\* The database as the next process to open it will find it.
Restored(files) ==
    [p \in Pages |->
        IF \E i \in Played(files.jrnl) : files.jrnl.recs[i].page = p
        THEN files.jrnl.recs[CHOOSE i \in Played(files.jrnl) : files.jrnl.recs[i].page = p].was
        ELSE files.db[p]]

Init ==
    /\ card = [db |-> [p \in Pages |-> IF p <= Pages0 THEN 0 ELSE NoPage], jrnl |-> Empty]
    /\ step = "unlocked" /\ todo = {} /\ count = 0 /\ dirty = {}
    /\ before = card.db /\ after = card.db /\ told = "none"
    /\ txns = 0 /\ faults = 0

\* sqlite3PagerSharedLock, with the journal opened and its header read by
\* pager_playback when it is hot.  The truncation that precedes the playback
\* is vita_xTruncate, which does nothing.
Share ==
    /\ step = "unlocked"
    /\ IF Hot(card)
       THEN step' = "hot" /\ todo' = Played(card.jrnl)
       ELSE step' = "ready" /\ todo' = {}
    /\ UNCHANGED <<card, count, dirty, before, after, told, txns, faults>>

\* sqlite3PagerBegin and pager_open_journal: a header that is not hot yet,
\* over whatever the journal holds.  Every change rewrites page 1
\* (pager_incr_changecounter); new pages come after the last.
Begin ==
    /\ step = "ready" /\ txns < MaxTxns
    /\ \E D \in SUBSET Pages :
         LET size == Size(card.db)
             new  == {p \in D : p > size}
         IN  /\ 1 \in D /\ new = (size + 1)..(size + Cardinality(new))
             /\ dirty' = D
             /\ todo' = D \cap 1..size
             /\ before' = card.db
             /\ after' = [p \in Pages |-> IF p \in D THEN txns + 1 ELSE card.db[p]]
             /\ card' = [card EXCEPT !.jrnl = [@ EXCEPT !.magic = "zero", !.n = 0]]
    /\ step' = "journal" /\ count' = 0 /\ told' = "none" /\ txns' = txns + 1
    /\ UNCHANGED faults

Journalled(files, p) ==
    [files EXCEPT !.jrnl.recs[count + 1] = [page |-> p, was |-> files.db[p]]]

\* pager_write: the page as it was goes to the end of the journal.
JournalPage ==
    /\ step = "journal"
    /\ \E p \in todo :
         /\ card' = Journalled(card, p)
         /\ todo' = todo \ {p}
    /\ count' = count + 1
    /\ UNCHANGED <<step, dirty, before, after, told, txns, faults>>

SyncedShort(files) ==
    [files EXCEPT !.jrnl = [@ EXCEPT !.magic = "whole", !.n = count - 1]]

Synced(files) == [files EXCEPT !.jrnl = [@ EXCEPT !.magic = "whole", !.n = count]]

\* syncJournal: the magic and the number of records.  vita_xSync does nothing.
SyncJournal ==
    /\ step = "journal" /\ todo = {}
    /\ card' = Synced(card)
    /\ step' = "store" /\ todo' = dirty
    /\ UNCHANGED <<count, dirty, before, after, told, txns, faults>>

Stored(files, p) == [files EXCEPT !.db[p] = after[p]]

\* pager_write_pagelist: the dirty pages, in the order of their numbers.
StorePage ==
    /\ step = "store" /\ todo # {}
    /\ \E p \in First(todo) : card' = Stored(card, p) /\ todo' = todo \ {p}
    /\ UNCHANGED <<step, count, dirty, before, after, told, txns, faults>>

\* sqlite3PagerCommitPhaseTwo: the statement counts once the journal is gone.
Commit ==
    /\ step = "store" /\ todo = {}
    /\ card' = [card EXCEPT !.jrnl = Empty]
    /\ step' = "unlocked" /\ told' = "done"
    /\ UNCHANGED <<todo, count, dirty, before, after, txns, faults>>

PlayedBack(files, i) ==
    [files EXCEPT !.db[files.jrnl.recs[i].page] = files.jrnl.recs[i].was]

PlayBackAgain ==
    /\ step \in {"hot", "undo"} /\ todo # {}
    /\ \E i \in First(todo) : card' = PlayedBack(card, i)
    /\ UNCHANGED <<step, todo, count, dirty, before, after, told, txns, faults>>

\* pager_playback_one_page, of a journal found hot or of the process's own.
PlayBack ==
    /\ step \in {"hot", "undo"} /\ todo # {}
    /\ \E i \in First(todo) : card' = PlayedBack(card, i) /\ todo' = todo \ {i}
    /\ UNCHANGED <<step, count, dirty, before, after, told, txns, faults>>

\* Mutant: the journal is removed before all is played back.
EndPlaybackFirst ==
    /\ step \in {"hot", "undo"} /\ todo' = {}
    /\ card' = [card EXCEPT !.jrnl = Empty]
    /\ step' = IF step = "hot" THEN "ready" ELSE "unlocked"
    /\ UNCHANGED <<count, dirty, before, after, told, txns, faults>>

\* The end of pager_playback: the journal is removed.
EndPlayback ==
    /\ step \in {"hot", "undo"} /\ todo = {}
    /\ card' = [card EXCEPT !.jrnl = Empty]
    /\ step' = IF step = "hot" THEN "ready" ELSE "unlocked"
    /\ UNCHANGED <<todo, count, dirty, before, after, told, txns, faults>>

\* What the write under way can leave if it is cut short.
CutShort(files) ==
    CASE step = "journal" /\ todo = {} ->
           {[files EXCEPT !.jrnl = [@ EXCEPT !.magic = "torn"]]}
           \cup {[files EXCEPT !.jrnl = [@ EXCEPT !.magic = "whole", !.n = n]] : n \in 0..count}
      [] step = "journal" /\ todo # {} ->
           {[files EXCEPT !.jrnl.recs[count + 1] = NoRecord]}
      [] step = "store" /\ todo # {} -> {[files EXCEPT !.db[p] = Torn] : p \in First(todo)}
      [] step \in {"hot", "undo"} /\ todo # {} ->
           {[files EXCEPT !.db[files.jrnl.recs[i].page] = Torn] : i \in First(todo)}
      [] OTHER -> {}

Faults(n) == faults + n <= MaxFaults /\ faults' = faults + n
Fault == Faults(1)

\* A write of the journal fails: the database is as it was (the pager is
\* still RESERVED), and pager_end_transaction removes the journal if it can.
JournalFails ==
    /\ step = "journal"
    /\ \E files \in CutShort(card) \cup {card} :
         \/ Faults(1) /\ card' = [files EXCEPT !.jrnl = Empty]
         \/ Faults(2) /\ card' = files
    /\ step' = "unlocked" /\ todo' = {} /\ told' = "error"
    /\ UNCHANGED <<count, dirty, before, after, txns>>

StoreFailsForgets ==
    /\ step = "store" /\ todo # {} /\ Fault
    /\ \E files \in CutShort(card) \cup {card} : card' = [files EXCEPT !.jrnl = Empty]
    /\ step' = "unlocked" /\ todo' = {} /\ told' = "error"
    /\ UNCHANGED <<count, dirty, before, after, txns>>

\* A write of the database fails: sqlite3PagerRollback plays the journal back.
StoreFails ==
    /\ step = "store" /\ todo # {} /\ Fault
    /\ \E files \in CutShort(card) \cup {card} : card' = files
    /\ step' = "undo" /\ todo' = Played(card.jrnl) /\ told' = "error"
    /\ UNCHANGED <<count, dirty, before, after, txns>>

\* The journal cannot be removed: the statement has failed, and the journal
\* stays hot for the next process.
CommitFails ==
    /\ step = "store" /\ todo = {} /\ Fault
    /\ step' = "unlocked" /\ told' = "error"
    /\ UNCHANGED <<card, todo, count, dirty, before, after, txns>>

\* A playback fails.  The attempt sqlite3_close makes is that of the next Share.
PlayBackFails ==
    /\ step \in {"hot", "undo"} /\ Fault
    /\ \E files \in CutShort(card) \cup {card} : card' = files
    /\ step' = "unlocked" /\ todo' = {}
    /\ UNCHANGED <<count, dirty, before, after, told, txns>>

\* The power goes, during the write under way or after it.
PowerLoss ==
    /\ step # "unlocked" /\ Fault
    /\ \E files \in CutShort(card) \cup {card} : card' = files
    /\ step' = "unlocked" /\ todo' = {}
    /\ UNCHANGED <<count, dirty, before, after, told, txns>>

Work ==
    \/ Share \/ JournalPage \/ SyncJournal \/ StorePage \/ Commit
    \/ PlayBack \/ EndPlayback

Fails ==
    \/ JournalFails \/ StoreFails \/ CommitFails \/ PlayBackFails \/ PowerLoss

Next == Begin \/ Work \/ Fails

Spec == Init /\ [][Next]_vars /\ WF_vars(Work)

-----------------------------------------------------------------------------
(* Properties *)

FileTypes == [db : [Pages -> Contents],
              jrnl : [magic : Magics, n : 0..MaxPages,
                      recs : [Pages -> Records]]]

\* The type invariant: no step counts or plays back more records than the
\* journal can hold.
TypeOK ==
    /\ card \in FileTypes
    /\ step \in Steps /\ todo \subseteq Pages /\ count \in 0..MaxPages
    /\ dirty \subseteq Pages
    /\ before \in [Pages -> Contents] /\ after \in [Pages -> Contents]
    /\ told \in {"none", "done", "error"}
    /\ txns \in 0..MaxTxns /\ faults \in 0..MaxFaults

\* One database contains the other: pages a failed statement appended may be
\* left at the end of the file, for vita_xTruncate removes none.
Holds(db, other) == \A p \in Pages : other[p] # NoPage => db[p] = other[p]

\* sqlite3PagerCommitPhaseTwo: wherever the power goes, also in a playback,
\* the next process finds the database with all of the last statement or with
\* nothing of it, and no torn page.
AllOrNothing ==
    \/ Holds(Restored(card), before)
    \/ Holds(Restored(card), after)

\* A statement sqlite3_exec returned SQLITE_OK for is irrevocably committed
\* (sqlite3.c:36916), and one it returned an error for is undone, at the
\* latest by the next process.
ToldTruly ==
    /\ told = "done" => Holds(Restored(card), after)
    /\ told = "error" => Holds(Restored(card), before)

\* What the next process will find changes when the journal of a statement is
\* removed and at no other step: no journal or store that fails, no loss of
\* power, no rollback, and no recovery, however often it is cut short and
\* started again, turns it from one to the other.  So processes that open the
\* database one after the other read the same until a statement is committed.
\* (Pages that a statement appends are aside until it is.)
OnlyCommitShows ==
    [][\A p \in Pages :
         before[p] # NoPage /\ Restored(card')[p] # Restored(card)[p] => Commit]_vars

\* sqlite3_exec returns: neither a statement nor a recovery goes on for ever,
\* whatever fails in it.
CallEnds == step # "unlocked" ~> step \in {"unlocked", "ready"}

=============================================================================
