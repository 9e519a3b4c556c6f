----------------------------- MODULE MCIncidents -----------------------------
(* Small instances of IncidentLadder for TLC: a parent invariant and, where *)
(* the instance has two names, a symptom that depends on it.                *)
EXTENDS IncidentLadder, TLC

CONSTANTS stable, stale, t1, t2, d1, b1, b2

OneName == <<stable>>
TwoNames == <<stable, stale>>
MCParents == [n \in Names |-> IF n = stale THEN {stable} \cap Names ELSE {}]

Overlapping == Permutations(Ticks)
=============================================================================
