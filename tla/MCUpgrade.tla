----------------------------- MODULE MCUpgrade ------------------------------
(* Upgrade with two processes that may swap places. *)
EXTENDS Upgrade, TLC

Twins == Permutations(Procs)
=============================================================================
