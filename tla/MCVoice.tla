------------------------------ MODULE MCVoice -------------------------------
(***************************************************************************)
(* Small instances of Voice and of the roster under it.                    *)
(***************************************************************************)
EXTENDS Voice

CONSTANTS mom, work, club
TwoChats == <<mom, club>>
\* A contact's rule and a blanket rule, of an earlier life.
Tables == {[Empty EXCEPT ![mom] = "both", !["all_groups"] = "both"]}

\* The notes are alike, so the first to be heard of might as well be the first.
InTurn == \A n \in Notes \ {1} : home[n] # None => home[n - 1] # None

\* Three notes need no word of his, and one note is enough when he changes the
\* rules twice.
Spread ==
    LET heard == Cardinality({n \in Notes : home[n] # None})
    IN \/ heard < 3 /\ heard + turns <= 4
       \/ heard = 3 /\ turns = 0
=============================================================================
