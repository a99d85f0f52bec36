------------------------------- MODULE MCIdDat -------------------------------
(***************************************************************************)
(* id.dat with up to four of its rows, in any order: with one MID row, as  *)
(* the system writes it.                                                   *)
(***************************************************************************)
EXTENDS IdDat

CONSTANTS DIG, SVR, OID

RowNames == {Mid, DIG, SVR, OID}

SetRows == [name : RowNames, set : {TRUE}]
WithOneMid ==
    {text \in UNION {[1..n -> SetRows] : n \in 1..4} :
        /\ \E i \in DOMAIN text : text[i].name = Mid
        /\ \A i, j \in DOMAIN text : text[i].name = text[j].name => i = j}

=============================================================================
