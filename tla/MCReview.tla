------------------------------ MODULE MCReview ------------------------------
(* Two loops, two turns, a process that comes back once. *)
EXTENDS Review
=============================================================================
