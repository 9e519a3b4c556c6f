------------------------------- MODULE MCBeliefs -------------------------------
(* Small instances of Beliefs for TLC: a topic and its negated slug, a     *)
(* claim, its correction, which is similar, and a claim that is not.       *)
EXTENDS Beliefs

CONSTANTS home, noHome, oslo, osloEast, rome, robin

MCCanon == [t \in {home, noHome} |-> home]
MCSimilar == {<<oslo, osloEast>>}

Old(t, k) == [topic |-> t, claim |-> k, retracted |-> FALSE, prov |-> "unknown",
              sup |-> None, key |-> None, today |-> FALSE, at |-> 1]
MCLegacy == <<Old(home, oslo)>>

Draft(t, k, p) == [topic |-> t, claim |-> k, prov |-> p]
Saying(t, k, gone) == [topic |-> t, claim |-> k, retracted |-> gone]
Amendment(t, k) == [topic |-> t, claim |-> k]

(* In the passing run only the replay of corrections retracts.             *)
MCSayings == {Saying(noHome, rome, FALSE), Saying(home, oslo, TRUE)}
LiveSayings == {Saying(noHome, rome, FALSE)}
MCAmendments == {Amendment(noHome, osloEast), Amendment(home, robin)}
MCDrafts == {Draft(home, osloEast, "inferred"), Draft(noHome, oslo, "external")}
InferredDrafts == {Draft(home, osloEast, "inferred"), Draft(noHome, oslo, "inferred")}
=============================================================================
