---------------------------- MODULE MCConfigText ----------------------------
(***************************************************************************)
(* Files a user may have: sections, an empty row, a last line without its  *)
(* '\n', a header that is commented out.                                   *)
(***************************************************************************)
EXTENDS ConfigText

SomeWords == {NewFolder, OldFolder, Kernel, NoId, "vs0", "ALL", "game", "other", "plugin"}
SomeIds == {"game", "other"}

Section1(name) == <<<<W("head", name)>>, <<W("user", "plugin")>>>>
Commented(name) == <<[kind |-> "head", of |-> name, inside |-> TRUE]>>
Remark(name) == <<W("user", "plugin"), W("head", name)>>

Bodies == {
    <<>>,
    Section1(Kernel),
    <<<<W("user", "plugin")>>>>,
    Section1("ALL") \o Section1(Kernel),
    Section1(Kernel) \o <<<<>>>> \o Section1("other"),
    Section1(Kernel) \o <<<<W("head", "other")>>, <<W("suprx", OldFolder)>>>>,
    Section1(Kernel) \o Section1("ALL") \o <<<<W("head", Kernel)>>>>,
    Section1(Kernel) \o <<Commented("game")>>,
    Section1("ALL") \o <<Remark(Kernel)>>,
    Section1(Kernel) \o <<<<W("user", "game")>>>> \o Section1("other")}

SomeTexts == {[lines |-> b, ended |-> e] : b \in Bodies \ {<<>>}, e \in BOOLEAN} \cup {EmptyText}

=============================================================================
