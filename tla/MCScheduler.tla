----------------------------- MODULE MCScheduler -----------------------------
(* Small instances of Scheduler for TLC: one minute to the next fire, one  *)
(* minute of run time.                                                     *)
EXTENDS Scheduler, TLC

CONSTANTS dream, embedder, c1, c2, w1, w2

MCPeriod == [n \in Names |-> 1]
MCDeadline == [n \in Names |-> 1]

(* Ids are ordered (claims break ties by id), the processes are not.       *)
Processes == Permutations(Children) \cup Permutations(Workers)
=============================================================================
