------------------------------ MODULE MCBoard -------------------------------
(* Board with columns, titles and managers a run can enumerate. *)
EXTENDS Board

CONSTANTS p1, p2, m1, e1, b1, x1, A, B

MCSeeded ==
    [p \in {"plan", "maint", "exped", "build"} |->
        CASE p = "plan" -> <<p1, p2>> [] p = "maint" -> <<m1>>
          [] p = "exped" -> <<e1>> [] OTHER -> <<b1>>]
MCColumns == {p1, p2, m1, e1, b1, x1}
MCTitle == [c \in MCColumns |-> IF c = p2 THEN B ELSE A]
MCGates == {p2, e1}
=============================================================================
