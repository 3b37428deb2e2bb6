---------------------------- MODULE MCDirectory -----------------------------
(* Directory over a book of two: Zenaldo Tanaka, in the chat and with no   *)
(* address, and a Zen Costa the chat does not know.                        *)
EXTENDS Directory

Card(name, nicks, emails, phones) ==
    [name |-> name, nicks |-> nicks, emails |-> emails, phones |-> phones]
People(i) == <<"people", i>>

TwoZens ==
    People("1") :> Card(<<"zenaldo", "tanaka">>, {}, {}, {"p"}) @@
    People("2") :> Card(<<"zen", "costa">>, {}, {}, {})
NewNames == {People(i) : i \in {"3", "4", "5"}}

Pair(name, email, phone) == [name |-> name, email |-> email, phone |-> phone]
PairsSaid == {Pair(<<"zenaldo">>, "x", "p"), Pair(<<"zenaldo">>, "y", "p"),
              Pair(<<"ana", "lima">>, "x", NONE), Pair(<<>>, "y", "p")}
TurnsSaid == {<<"zen">>, <<"zenaldo">>, <<"ana">>, <<"zen", "costa">>}
ZenPrefix == {<<"zen", "zenaldo">>}
=============================================================================
