------------------------------ MODULE CardLife ------------------------------
(***************************************************************************)
(* What the board promises about one card, whatever its columns do: the    *)
(* card is born once, lives on the board or in the trash, and leaves for   *)
(* good only from the trash.  A file that was put into one of its folders  *)
(* is somewhere on the disk until somebody purges the card.                *)
(***************************************************************************)
CONSTANTS Cards, Files
VARIABLES stage, kept
vars == <<stage, kept>>

Stages == {"unborn", "board", "trash", "gone"}

Init ==
    /\ stage = [k \in Cards |-> "unborn"]
    /\ kept = [k \in Cards |-> {}]

Goes(k, from, to) ==
    /\ stage[k] = from
    /\ stage' = [stage EXCEPT ![k] = to]

Born(k)    == Goes(k, "unborn", "board") /\ UNCHANGED kept
Archive(k) == Goes(k, "board", "trash") /\ UNCHANGED kept
Return(k)  == Goes(k, "trash", "board") /\ UNCHANGED kept

Filed(k, f) ==
    /\ stage[k] # "unborn"
    /\ kept' = [kept EXCEPT ![k] = @ \cup {f}]
    /\ UNCHANGED stage

\* The folder may be destroyed before the card is struck off, never after.
Destroys(k) ==
    /\ stage[k] = "trash"
    /\ \E rest \in SUBSET kept[k] : kept' = [kept EXCEPT ![k] = rest]

Shred(k)  == Destroys(k) /\ UNCHANGED stage
Forget(k) == Destroys(k) /\ Goes(k, "trash", "gone")

Next ==
    \E k \in Cards :
        \/ Born(k) \/ Archive(k) \/ Return(k) \/ Shred(k) \/ Forget(k)
        \/ \E f \in Files : Filed(k, f)

Spec == Init /\ [][Next]_vars

TypeOK ==
    /\ stage \in [Cards -> Stages]
    /\ kept \in [Cards -> SUBSET Files]
=============================================================================
