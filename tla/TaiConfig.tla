------------------------------ MODULE TaiConfig ------------------------------
(***************************************************************************)
(* taiHENkaku's config.txt and the three functions of file.c that read and *)
(* rewrite it.                                                             *)
(*                                                                         *)
(* The file is a list of sections, each a "*NAME" header and the plugin    *)
(* lines below it.  Here it is the set of its lines, each with the ordinal *)
(* `at' of the section it stands in: a header and its body share one       *)
(* ordinal, ordinals grow down the file, and deleting a header leaves its  *)
(* body behind, so that the lines fall to the section above, as they do in *)
(* the file.  Comments, blank lines and the order of the lines inside one  *)
(* section are left out: the code looks at neither.                        *)
(***************************************************************************)
EXTENDS Integers

CONSTANT Words      \* the section names and the paths a line may hold

NewFolder == "ux0:adrenaline"
OldFolder == "ux0:pspemu/adrenaline"
Folders == {NewFolder, OldFolder}

Kernel == "KERNEL"     \* the section whose plugins run in the kernel
NoId == ""             \* PSP_GAME_ID[0] == '\0'

ASSUME WordsAssumption == {NewFolder, OldFolder, Kernel, NoId, "vs0"} \subseteq Words

Kinds == {"head", "skprx", "suprx", "libpgf", "user"}

(* `of' is the name in a header, the folder in one of Adrenaline's lines,  *)
(* and in a line of the user's the word of it that may name a section.     *)
Lines == [at : Nat, kind : Kinds, of : Words]
ConfigFiles == SUBSET Lines
Missing == {[at |-> 0, kind |-> "missing", of |-> NoId]}     \* no file: not in ConfigFiles

Header(n, id) == [at |-> n, kind |-> "head", of |-> id]
Plugin(n, kind, of) == [at |-> n, kind |-> kind, of |-> of]

IsPlugin(line, kind, path) == line.kind = kind /\ line.of = path
UserLines(c) == {line \in c : line.kind = "user"}
Names(c, path) == \E line \in c : IsPlugin(line, "skprx", path) \/ IsPlugin(line, "suprx", path)

(* Those of some lines that stand in the last section any of them is in.    *)
Lowest(some) == {line \in some : \A other \in some : other.at <= line.at}

(* The header in force at section n: the nearest one at or above it.       *)
HeadersAbove(c, n) == {h \in c : h.kind = "head" /\ h.at <= n}
Section(c, n) ==
    LET nearest == Lowest(HeadersAbove(c, n))
    IN  IF nearest = {} THEN NoId ELSE (CHOOSE h \in nearest : TRUE).of

(* The ordinal of the last section of the file.                            *)
End(c) == IF Lowest(c) = {} THEN 0 ELSE (CHOOSE last \in Lowest(c) : TRUE).at

(* The sections whose games the folder's plugin is loaded for.             *)
HookedTo(c, path) == {Section(c, line.at) : line \in {l \in c : IsPlugin(l, "suprx", path)}}

(* get_id_of_psp_game_that_adrenaline_is_installed_to: the id of the       *)
(* section the last suprx line of the folder stands in, the kernel or any  *)
(* other section's name if that is where it stands.                        *)
GetId(c, path) ==
    LET hits == Lowest({line \in c : IsPlugin(line, "suprx", path)})
    IN  IF hits = {} THEN NoId ELSE Section(c, (CHOOSE h \in hits : TRUE).at)

(* write_adrenaline_to_config: the kernel plugin below every "*KERNEL"     *)
(* header, and a new section for the game at the end of the file.          *)
WriteLines(c, path, id) ==
    LET n == End(c) + 1
    IN  c \union {Plugin(h.at, "skprx", path) : h \in {g \in c : g = Header(g.at, Kernel)}}
          \union {Header(n, id), Plugin(n, "suprx", path)}
          \union (IF path = OldFolder THEN {Plugin(n, "libpgf", "vs0")} ELSE {})

(* strstr(buffer, id): the header of that name, and a line of the user's   *)
(* that has the id in it.  An empty id is in every line.                   *)
ContainsId(line, id) == id = NoId \/ (line.kind \in {"head", "user"} /\ line.of = id)

(* Mutant: the kernel plugin is forgotten.                                 *)
DroppedSuprxOnly(line, path, id) ==
    \/ ContainsId(line, id)
    \/ path = OldFolder /\ line.kind = "libpgf"
    \/ IsPlugin(line, "suprx", path)

(* delete_adrenaline_from_config drops the folder's two plugins, the lines *)
(* that contain the id, and the first release's libpgf line.               *)
Dropped(line, path, id) ==
    \/ IsPlugin(line, "skprx", path)
    \/ ContainsId(line, id)
    \/ path = OldFolder /\ line.kind = "libpgf"
    \/ IsPlugin(line, "suprx", path)

(* Mutant: the id's whole section goes, not only its header.               *)
DeleteSection(c, path, id) ==
    {line \in c : ~ Dropped(line, path, id) /\ Section(c, line.at) # id}

DeleteLines(c, path, id) == {line \in c : ~ Dropped(line, path, id)}

(* What an interrupted write of file c leaves: the sections above n, with  *)
(* or without the header of section n, which comes first in it.            *)
Above(c, n) == {line \in c : line.at < n}
Cuts(c) ==
    UNION {{Above(c, n), Above(c, n) \union {h \in c : h.at = n /\ h.kind = "head"}} :
             n \in {line.at : line \in c}}

==============================================================================
