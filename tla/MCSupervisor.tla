---------------------------- MODULE MCSupervisor ----------------------------
(***************************************************************************)
(* Small instances of Supervisor: what the environment may do, and how     *)
(* often, is chosen per configuration.                                     *)
(***************************************************************************)
EXTENDS Supervisor, TLC

\* Handler coroutines and messages are interchangeable.
Symmetry == Permutations(Tasks) \cup Permutations(Msgs)

Never == [op \in Ops |-> 0]
\* Two crashes, a pause and a resume, an error, a trashed card or a deleted chat, a shutdown.
CrashQuota == [Never EXCEPT !["pause"] = 1, !["resume"] = 1, !["death"] = 2, !["removal"] = 1,
                            !["error"] = 1, !["shutdown"] = 1]
\* A restart, a pause nobody calls off, and a card that arrives untyped.
RestartQuota == [Never EXCEPT !["restart"] = 1, !["pause"] = 1, !["create"] = 1]
\* Where there is a restart, what it may leave in the queue has a task each to go on in.
Arrived == Cardinality(Msgs \ unsent) + Quota["create"] - quota["create"]
QueueFits == quota'["restart"] < Quota["restart"] => Arrived' <= Cardinality(Tasks)
=============================================================================
