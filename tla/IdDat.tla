-------------------------------- MODULE IdDat --------------------------------
(***************************************************************************)
(* trigger_update_database (file.c:504-543): ux0:id.dat is rewritten with  *)
(* its MID row blank, so that the system updates its database when it      *)
(* boots, and fills the row again.                                         *)
(*                                                                         *)
(* The file is rewritten as the tai config is: the text goes to            *)
(* ux0:temp.dat, id.dat is removed, the text copied back, temp.dat         *)
(* removed.  Unlike there, a missing id.dat does not end the function, and *)
(* nothing keeps it from running again after an interruption.              *)
(***************************************************************************)
EXTENDS Sequences, Integers

CONSTANTS
    DatNames,      \* of the rows of id.dat
    Mid,        \* the name of the row that is blanked
    NoFile,    \* no file
    Originals,  \* the texts of id.dat a device may start with
    MaxFaults   \* bound on power losses and I/O errors

Rows == [name : DatNames, set : BOOLEAN]
DatTexts == Seq(Rows)
Files == DatTexts \union {NoFile}

ASSUME IdDatAssumption ==
    /\ Mid \in DatNames /\ NoFile \notin DatTexts
    /\ Originals \subseteq DatTexts
    /\ \A text \in Originals :
         /\ \E i \in DOMAIN text : text[i].name = Mid
         /\ \A i \in DOMAIN text : text[i].name = Mid => text[i].set
    /\ MaxFaults \in Nat

VARIABLES
    dat,        \* ux0:id.dat
    tempDat,       \* ux0:temp.dat
    step,       \* the next call; "ready": the installer runs, "off": the device is off
    faults,
    clean,      \* no I/O error so far
    before      \* the text the device started with

files == <<dat, tempDat>>
datVars == <<files, step, faults, clean, before>>

DatTypeOK ==
    /\ dat \in Files /\ tempDat \in Files
    /\ step \in {"ready", "remove", "copy", "drop", "reset", "off"}
    /\ faults \in 0..MaxFaults /\ clean \in BOOLEAN
    /\ before \in Originals

(* The loop over the rows.  A missing file has none: fclose(NULL), which   *)
(* the C library of the build ignores, and on.                             *)
Blank(row) == IF row.name = Mid THEN [row EXCEPT !.set = FALSE] ELSE row
RowsOf(f) == IF f = NoFile THEN <<>> ELSE f

(* Mutant: the row is deleted (the comment says that would do).            *)
BlankedByDeleting(text) == SelectSeq(text, LAMBDA row : row.name # Mid)

Blanked(text) == [i \in DOMAIN text |-> Blank(text[i])]

(* What an interrupted write leaves of a text.                             *)
Cut(text, n) == SubSeq(text, 1, n)

Go(next) == step' = next /\ UNCHANGED <<faults, clean, before>>

(* An I/O error, which the code does not look at, or the loss of power.    *)
GoWrong(next) ==
    /\ faults < MaxFaults /\ faults' = faults + 1
    /\ UNCHANGED before
    /\ \/ step' = next /\ clean' = FALSE
       \/ step' = "off" /\ UNCHANGED clean

WriteTemp ==
    /\ step = "ready"
    /\ UNCHANGED dat
    /\ LET text == Blanked(RowsOf(dat))
       IN  \/ tempDat' = text /\ Go("remove")
           \/ (\E n \in 0..Len(text) : tempDat' = Cut(text, n)) /\ GoWrong("remove")

RemoveDat ==
    /\ step = "remove"
    /\ UNCHANGED tempDat
    /\ \/ dat' = NoFile /\ Go("copy")
       \/ UNCHANGED dat /\ GoWrong("copy")

(* Mutant: temp.dat is removed before it is copied.                        *)
CopyNothing == step = "copy" /\ dat' = <<>> /\ tempDat' = NoFile /\ Go("drop")

(* copyFile truncates id.dat and writes it in place.                       *)
CopyTemp ==
    /\ step = "copy"
    /\ UNCHANGED tempDat
    /\ \/ dat' = tempDat /\ Go("drop")
       \/ /\ UNCHANGED dat \/ \E n \in 0..Len(tempDat) : dat' = Cut(tempDat, n)
          /\ GoWrong("drop")

DropTemp ==
    /\ step = "drop"
    /\ UNCHANGED dat
    /\ \/ tempDat' = NoFile /\ Go("reset")
       \/ UNCHANGED tempDat /\ GoWrong("reset")

(* scePowerRequestColdReset.                                               *)
Reset == step = "reset" /\ Go("off") /\ UNCHANGED files

(* Also the end of a process that could not open temp.dat and writes to it *)
(* all the same.                                                           *)
PowerLoss ==
    /\ step # "off"
    /\ faults < MaxFaults /\ faults' = faults + 1
    /\ step' = "off"
    /\ UNCHANGED <<files, clean, before>>

(* The system boots: it fills a blank row and appends a missing one, as    *)
(* the comment at file.c:518-520 has found out.  Without id.dat it asks    *)
(* the user for the card to use.  Then the installer is started again.     *)
Filled(text) ==
    IF \E i \in DOMAIN text : text[i].name = Mid
    THEN [i \in DOMAIN text |-> IF text[i].name = Mid THEN [text[i] EXCEPT !.set = TRUE] ELSE text[i]]
    ELSE Append(text, [name |-> Mid, set |-> TRUE])

Boot ==
    /\ step = "off"
    /\ dat' = IF dat = NoFile THEN dat ELSE Filled(dat)
    /\ Go("ready") /\ UNCHANGED tempDat

DatInit ==
    /\ dat \in Originals /\ tempDat = NoFile
    /\ step = "ready"
    /\ faults = 0 /\ clean = TRUE
    /\ before = dat

DatNext == WriteTemp \/ RemoveDat \/ CopyTemp \/ DropTemp \/ Reset \/ PowerLoss \/ Boot

DatSpec == DatInit /\ [][DatNext]_datVars

-----------------------------------------------------------------------------
(* Properties.                                                             *)

(* The text that counts: between the removal and the copy, temp.dat.       *)
DatText == IF step = "copy" THEN tempDat ELSE dat

Atomic == INSTANCE AtomicReplace WITH
    Texts <- Originals, Edit <- Blanked, Complete <- Filled, text <- DatText

(* While nothing goes wrong the calls amount to one replacement.           *)
AtomicStep == faults' = 0 => Atomic!Replace \/ Atomic!Boot \/ UNCHANGED DatText
ReplacesAtomically == Atomic!Init /\ [][AtomicStep]_datVars

(* Then, after the boot, id.dat is what it was, with its rows in their     *)
(* places: that is what a blank row is better for than a deleted one.      *)
FileComesBack == faults = 0 /\ step = "ready" => dat = before

(* All rows in their order, that of the name Mid blank or not.             *)
Whole(f) == Blanked(RowsOf(f)) = Blanked(before)

(* As long as there is no I/O error, the rows are, whole and in order, in  *)
(* one of the two files, wherever the power goes: the one step that may    *)
(* lose them is the next run's first, on an id.dat that is not whole.      *)
OnlyRetryLoses ==
    [][clean' /\ (Whole(dat) \/ Whole(tempDat)) /\ ~ (step = "ready" /\ ~ Whole(dat))
          => Whole(dat)' \/ Whole(tempDat)']_datVars

=============================================================================
