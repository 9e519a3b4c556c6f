------------------------------- MODULE Incident -------------------------------
(***************************************************************************)
(* What the incident ladder promises about the open incident of ONE check  *)
(* (docs/ARCHITECTURE.md, "Incident ladder"; the columns of migration      *)
(* 036): an incident climbs one rung at a time, open, tried, escalated,    *)
(* needs-human, and leaves the ladder only by being closed.  An incident   *)
(* whose check has no repair stays on the first rung.                      *)
(***************************************************************************)

CONSTANT HasRepair      \* the check declares a repair()

VARIABLES
    rung,               \* where the open incident stands, "closed" if none is
    repairs             \* repair() calls made for it

Rungs == {"closed", "open", "tried", "escalated", "needs-human"}

TypeOK == rung \in Rungs /\ repairs \in {0, 1}

Init == rung = "closed" /\ repairs = 0

Open == rung = "closed" /\ rung' = "open" /\ UNCHANGED repairs

(* The attempt is claimed; a tripped breaker skips the call itself.        *)
Try ==
    /\ HasRepair /\ rung = "open" /\ rung' = "tried"
    /\ repairs' \in {0, 1}

Escalate == rung = "tried" /\ rung' = "escalated" /\ UNCHANGED repairs

GiveUp == rung = "escalated" /\ rung' = "needs-human" /\ UNCHANGED repairs

Close == rung # "closed" /\ rung' = "closed" /\ repairs' = 0

Next == Open \/ Try \/ Escalate \/ GiveUp \/ Close

(* What any step of the whole system may do to the incident.              *)
Step == Next \/ UNCHANGED <<rung, repairs>>

Spec == Init /\ [][Next]_<<rung, repairs>>
=============================================================================
