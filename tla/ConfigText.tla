----------------------------- MODULE ConfigText -----------------------------
(***************************************************************************)
(* The three functions of file.c that read and rewrite the tai config      *)
(* (file.c:342-461), on the text they work on: one reads the file word by  *)
(* word (fscanf "%s"), two line by line (fgets), and all look for what     *)
(* they know anywhere in a word or line (strstr).  TaiConfig has the same  *)
(* functions on sets of lines; the properties say when the two agree.      *)
(*                                                                         *)
(* A line is the sequence of its words.  A word is what it names, and      *)
(* whether it starts with that or carries it further inside, as "#*KERNEL" *)
(* carries a header.  What happens to the file between the steps of its    *)
(* replacement is in Installer.                                            *)
(***************************************************************************)
EXTENDS TaiConfig, FiniteSets, Sequences, SequencesExt

CONSTANTS
    Texts,      \* the files to start from
    Ids,        \* the games
    MaxCalls    \* bound on the calls

Word == [kind : Kinds, of : Words, inside : BOOLEAN]
Text == [lines : Seq(Seq(Word)), ended : BOOLEAN]     \* ended: the last line has its '\n'

ASSUME ConfigTextAssumption ==
    /\ \A text \in Texts :
         text \in Text /\ (text.ended \/ (text.lines # <<>> /\ Last(text.lines) # <<>>))
    /\ Ids \subseteq Words /\ NoId \notin Ids /\ MaxCalls \in Nat

VARIABLES
    file,       \* the config
    temp,       \* ur0:temp.txt as written so far
    rest,       \* the lines that are still to be read
    call,       \* the function that runs, "none" between two
    path, id,   \* its arguments
    header,     \* GAME_ID: the last header read
    gameId,     \* PSP_GAME_ID
    calls

args == <<path, id>>
vars == <<file, temp, rest, call, args, header, gameId, calls>>

W(kind, of) == [kind |-> kind, of |-> of, inside |-> FALSE]
EmptyText == [lines |-> <<>>, ended |-> TRUE]
Junk == "*"     \* what follows the first character of a word with a star inside

TypeOK ==
    /\ file \in Text /\ temp \in Text
    /\ call \in {"none", "read", "write", "delete"}
    /\ rest \in Seq(Seq(Word))
    /\ path \in Folders /\ id \in Ids \cup {NoId}
    /\ header \in Words \cup {Junk} /\ gameId \in Words \cup {Junk}
    /\ calls \in 0..MaxCalls

Init ==
    /\ file \in Texts /\ temp = EmptyText /\ rest = <<>> /\ call = "none"
    /\ path = NewFolder /\ id = NoId
    /\ header = NoId /\ gameId = NoId /\ calls = 0

Has(line, kind, of) == \E i \in DOMAIN line : line[i].kind = kind /\ line[i].of = of

(* fprintf of a line: behind a line that has no '\n' it only makes that    *)
(* one longer.                                                             *)
Put(text, line, ended) ==
    [lines |-> IF text.ended THEN Append(text.lines, line)
               ELSE Front(text.lines)
                    \o <<Last(text.lines) \o <<[line[1] EXCEPT !.inside = TRUE]>> \o Tail(line)>>,
     ended |-> ended]

-----------------------------------------------------------------------------
Call(name, p, i) ==
    /\ call = "none" /\ calls < MaxCalls
    /\ call' = name /\ path' = p /\ id' = i /\ calls' = calls + 1
    /\ rest' = file.lines /\ temp' = EmptyText
    /\ UNCHANGED file

Rewrite(name, p, i) == Call(name, p, i) /\ UNCHANGED <<header, gameId>>

(* The program asks for the game once, when it starts (main.c:315), so     *)
(* that the static GAME_ID and the global PSP_GAME_ID are still empty.     *)
Start(p) == Call("read", p, NoId) /\ header' = NoId /\ gameId' = NoId

(* get_id_of_psp_game_that_adrenaline_is_installed_to: what follows the    *)
(* first character of a word with a star in it is a header's name.         *)
HeaderAfter(word) ==
    IF word.kind # "head" THEN header ELSE IF word.inside THEN Junk ELSE word.of

(* fscanf takes a word and passes over the ends of lines.                  *)
ReadWord ==
    /\ call = "read" /\ rest # <<>> /\ Head(rest) # <<>>
    /\ LET word == Head(Head(rest))
       IN  /\ header' = HeaderAfter(word)
           /\ gameId' = IF Has(<<word>>, "suprx", path) THEN header' ELSE gameId
    /\ rest' = IF Len(Head(rest)) = 1 THEN Tail(rest) ELSE <<Tail(Head(rest))>> \o Tail(rest)
    /\ UNCHANGED <<file, temp, call, args, calls>>

PassEnd ==
    /\ call = "read" /\ rest # <<>> /\ Head(rest) = <<>>
    /\ rest' = Tail(rest)
    /\ UNCHANGED <<file, temp, call, args, header, gameId, calls>>

(* The last line may lack its '\n'.                                        *)
Ended == Len(rest) > 1 \/ file.ended

(* Mutant: the last line is not ended ("whitespaces fix").                 *)
WriteWithoutFix ==
    /\ call = "write" /\ rest # <<>>
    /\ temp' = IF Head(rest) = <<>> THEN temp ELSE
               IF Has(Head(rest), "head", Kernel)
               THEN Put(Put(temp, Head(rest), Ended), <<W("skprx", path)>>, TRUE)
               ELSE Put(temp, Head(rest), Ended)
    /\ rest' = Tail(rest)
    /\ UNCHANGED <<file, call, args, header, gameId, calls>>

(* write_adrenaline_to_config: empty rows go, an open last line is ended,  *)
(* the kernel plugin follows every line with "*KERNEL" in it.              *)
WriteLine ==
    /\ call = "write" /\ rest # <<>>
    /\ LET copied == IF Head(rest) = <<>> THEN temp ELSE Put(temp, Head(rest), TRUE)
       IN  temp' = IF Has(Head(rest), "head", Kernel)
                   THEN Put(copied, <<W("skprx", path)>>, TRUE) ELSE copied
    /\ rest' = Tail(rest)
    /\ UNCHANGED <<file, call, args, header, gameId, calls>>

WriteSection ==
    /\ call = "write" /\ rest = <<>>
    /\ LET headed == Put(temp, <<W("head", id)>>, TRUE)
           patched == IF path = OldFolder THEN Put(headed, <<W("libpgf", "vs0")>>, TRUE) ELSE headed
       IN  file' = Put(patched, <<W("suprx", path)>>, TRUE)
    /\ call' = "none"
    /\ UNCHANGED <<temp, rest, args, header, gameId, calls>>

(* delete_adrenaline_from_config: the id is looked for in all of the line. *)
LineDropped(line) ==
    \/ Has(line, "skprx", path) \/ Has(line, "suprx", path)
    \/ id = NoId \/ \E i \in DOMAIN line : line[i].kind \in {"head", "user"} /\ line[i].of = id
    \/ path = OldFolder /\ \E i \in DOMAIN line : line[i].kind = "libpgf"

(* Mutant: the line below a header that goes is skipped with it.           *)
DeletePair ==
    /\ call = "delete" /\ rest # <<>>
    /\ temp' = IF LineDropped(Head(rest)) THEN temp ELSE Put(temp, Head(rest), Ended)
    /\ rest' = IF LineDropped(Head(rest)) /\ Len(rest) > 1 THEN Tail(Tail(rest)) ELSE Tail(rest)
    /\ UNCHANGED <<file, call, args, header, gameId, calls>>

DeleteLine ==
    /\ call = "delete" /\ rest # <<>>
    /\ temp' = IF LineDropped(Head(rest)) THEN temp ELSE Put(temp, Head(rest), Ended)
    /\ rest' = Tail(rest)
    /\ UNCHANGED <<file, call, args, header, gameId, calls>>

Return ==
    /\ call \in {"read", "delete"} /\ rest = <<>>
    /\ file' = IF call = "delete" THEN temp ELSE file
    /\ call' = "none"
    /\ UNCHANGED <<temp, rest, args, header, gameId, calls>>

Next ==
    \/ \E p \in Folders : Start(p)
    \/ \E p \in Folders, i \in Ids : Rewrite("write", p, i) \/ Rewrite("delete", p, i)
    \/ ReadWord \/ PassEnd \/ WriteLine \/ WriteSection \/ DeleteLine \/ Return

Spec == Init /\ [][Next]_vars

-----------------------------------------------------------------------------
(* Properties.                                                             *)

(* The lines of a text as TaiConfig has them.                              *)
Plain(text) == \A i \in DOMAIN text.lines :
    Len(text.lines[i]) <= 1 /\ \A j \in DOMAIN text.lines[i] : ~ text.lines[i][j].inside
Heads(lines, n) == Cardinality({i \in 1..n : lines[i] # <<>> /\ lines[i][1].kind = "head"})
Seen(lines, i) == [at |-> Heads(lines, i), kind |-> lines[i][1].kind, of |-> lines[i][1].of]
MeaningOf(lines, n) == {Seen(lines, i) : i \in {j \in 1..n : lines[j] # <<>>}}
Meaning(text) == MeaningOf(text.lines, Len(text.lines))
Renumbered(c) ==
    {[line EXCEPT !.at = Cardinality({h \in c : h.kind = "head" /\ h.at <= line.at})] : line \in c}

(* In every file that has one word to a line and no star inside a word the *)
(* word reader finds what the section structure says, and writing and      *)
(* deleting line by line do what TaiConfig says they do to the sections.   *)
Agrees ==
    call # "none" /\ call' = "none" /\ Plain(file) =>
        /\ call = "read" => gameId' = GetId(Meaning(file), path)
        /\ Meaning(file') =
              CASE call = "write" -> WriteLines(Meaning(file), path, id)
                [] call = "delete" -> Renumbered(DeleteLines(Meaning(file), path, id))
                [] OTHER -> Meaning(file)
CallAgrees == [][Agrees]_vars

(* The lines without a game's id, comments included, stay as they are and  *)
(* in order.                                                               *)
Foreign(line) == line # <<>> /\
    \A i \in DOMAIN line : line[i].kind \in {"user", "head"} /\ line[i].of \notin Ids
ForeignRows(lines, n) == {i \in 1..n : Foreign(lines[i])}
KeptIn(lines, n, others) ==
    \E to \in [ForeignRows(lines, n) -> ForeignRows(others, Len(others))] :
       /\ \A i \in ForeignRows(lines, n) : others[to[i]] = lines[i]
       /\ \A i, j \in ForeignRows(lines, n) : i < j => to[i] < to[j]
       /\ \A k \in ForeignRows(others, Len(others)) : \E i \in ForeignRows(lines, n) : to[i] = k
Keeps == file' # file => KeptIn(file.lines, Len(file.lines), file'.lines)
ForeignLinesKept == [][Keeps]_vars

=============================================================================
