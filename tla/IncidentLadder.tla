---------------------------- MODULE IncidentLadder ----------------------------
(***************************************************************************)
(* The incident ladder over the `alerts` table: the health monitor's tick  *)
(* (kernel/runtime/health-monitor.ts), the daily doctor.run job            *)
(* (runDoctorInvariants of brain/cognition/jobs.ts), the alert store and   *)
(* the repair breaker.                                                     *)
(*                                                                         *)
(* All of them run in the daemon's one event loop and interleave only at   *)
(* an await: a check, a repair, the check after a repair.  setInterval     *)
(* starts a tick every minute whether or not the previous one has ended,   *)
(* so two ticks and a doctor may be under way at once.  `loop` names the   *)
(* run that holds the event loop between two awaits.  Alerts and breaker   *)
(* entries survive a restart of the daemon, everything else is lost.       *)
(***************************************************************************)
EXTENDS Integers, Sequences

CONSTANTS
    Names,          \* the invariants, by name
    Order,          \* the sequence buildInvariants lists them in
    Repairable,     \* those that declare a repair()
    Parents,        \* [Names -> SUBSET Names]: dependsOn
    Ticks,          \* monitor ticks (bound: how many overlap)
    Doctors,        \* doctor.run executions (at most one at a time)
    Builds,         \* build SHAs
    None,
    EscalateAfter,  \* ESCALATE_AFTER_TICKS
    NeedsHuman,     \* NEEDS_HUMAN_AFTER_MS, in minutes
    DeferCap,       \* DEFER_CAP_MS, in minutes
    TripThreshold,  \* TRIP_THRESHOLD of repair-breaker.ts
    MaxFaults       \* bound: restarts, deploys and hanging checks

ASSUME LadderAssumption ==
    /\ Order \in Seq(Names) /\ Len(Order) > 0
    /\ \A n \in Names : \E i \in DOMAIN Order : Order[i] = n
    /\ Repairable \subseteq Names
    /\ Parents \in [Names -> SUBSET Names]
    /\ Ticks \cap Doctors = {}
    /\ None \notin Ticks \cup Doctors \cup Builds
    /\ Builds # {}
    /\ EscalateAfter \in Nat \ {0} /\ NeedsHuman \in Nat /\ DeferCap \in Nat
    /\ TripThreshold \in Nat \ {0} /\ MaxFaults \in Nat

VARIABLES
    broken,     \* the invariants that do not hold at present
    alert,      \* [Names -> record]: the open incident of each key, if any
    breaker,    \* [Names -> record]: repair-breaker.json
    sha,        \* dist/.build-stamp
    run,        \* [Runs -> record]: the ticks and the doctor under way
    loop,       \* the run between two awaits, or None
    failing,    \* failingTicks
    deferred,   \* minutes since deferredSince, or Never
    inFlight,   \* checks that outlived their timeout
    due,        \* the monitor's interval timer has fired
    faults

vars == <<broken, alert, breaker, sha, run, loop, failing, deferred, inFlight,
          due, faults>>

Runs == Ticks \cup Doctors
Never == -1

(* `repairs` counts repair() calls and `ticks` failing ticks of the        *)
(* incident: history that no code reads.                                   *)
NoIncident == [open |-> FALSE, attempted |-> FALSE, escalated |-> FALSE,
               since |-> 0, human |-> FALSE, repairs |-> 0, ticks |-> 0]

Incidents == [open : BOOLEAN, attempted : BOOLEAN, escalated : BOOLEAN,
              since : Nat, human : BOOLEAN, repairs : Nat, ticks : Nat]

(* `row` counts the failures since the last repair that returned: history. *)
BreakerEntries == [failures : Nat, sha : Builds \cup {None}, row : Nat]

(* What a run has read of a check.  "old" is history: an "ok" read before  *)
(* the repair of the present incident was claimed.                         *)
Readings == {"none", "ok", "old", "fail", "skip"}
Green(v) == v \in {"ok", "old"}

Idle == [pc |-> "idle", at |-> 1, report |-> [n \in Names |-> "none"], sha |-> None]

RunStates == [pc : {"idle", "check", "report", "climb", "repair", "recheck", "count"},
              at : DOMAIN Order, report : [Names -> Readings],
              sha : Builds \cup {None}]

TypeOK ==
    /\ broken \subseteq Names
    /\ alert \in [Names -> Incidents]
    /\ breaker \in [Names -> BreakerEntries]
    /\ sha \in Builds
    /\ run \in [Runs -> RunStates]
    /\ loop \in Runs \cup {None}
    /\ failing \in [Names -> Nat]
    /\ deferred \in [Names -> Nat \cup {Never}]
    /\ inFlight \subseteq Names
    /\ due \in BOOLEAN
    /\ faults \in 0..MaxFaults

Init ==
    /\ broken \in SUBSET Names
    /\ alert = [n \in Names |-> NoIncident]
    /\ sha \in Builds
    /\ breaker = [n \in Names |-> [failures |-> 0, sha |-> None, row |-> 0]]
    /\ run = [t \in Runs |-> Idle]
    /\ loop = None
    /\ failing = [n \in Names |-> 0]
    /\ deferred = [n \in Names |-> Never]
    /\ inFlight = {}
    /\ due = FALSE
    /\ faults = 0

-----------------------------------------------------------------------------
(* alert-store.ts and repair-breaker.ts                                    *)

Capped(x, cap) == IF x > cap THEN cap ELSE x

Recorded(a) == IF a.open THEN a ELSE [NoIncident EXCEPT !.open = TRUE]

ClaimableAgain(n) == alert[n].open      \* mutant: repair_attempted_at is not tested
Claimable(n) == alert[n].open /\ ~alert[n].attempted

Tripped(n, build) ==
    breaker[n].sha = build /\ breaker[n].failures >= TripThreshold

Notched(e, build) ==
    [failures |-> IF e.sha = build THEN Capped(e.failures + 1, TripThreshold) ELSE 1,
     sha |-> build,
     row |-> IF e.sha = build THEN Capped(e.row + 1, TripThreshold) ELSE 1]

-----------------------------------------------------------------------------
(* The steps of a run                                                      *)

At(t) == Order[run[t].at]
LastTooLate(t) == run[t].at > Len(Order)    \* mutant: off by one
Last(t) == run[t].at = Len(Order)
Reading(n) == IF n \in broken THEN "fail" ELSE "ok"

Resumed(t, pc) == loop = None /\ run[t].pc = pc     \* an await has ended
Holds(t, pc) == loop \in {None, t} /\ run[t].pc = pc

Goes(t, pc, holder) ==
    run' = [run EXCEPT ![t].pc = pc] /\ loop' = holder

(* The check of At(t) gave v: on to the next check, or to the reports.     *)
Noted(t, v) ==
    LET r == [run[t] EXCEPT !.report[At(t)] = v, !.pc = "check"]
    IN  /\ run' = [run EXCEPT ![t] =
                     IF Last(t) THEN [r EXCEPT !.pc = "report", !.at = 1,
                                               !.sha = IF t \in Ticks THEN sha ELSE @]
                     ELSE [r EXCEPT !.at = @ + 1]]
        /\ loop' = IF Last(t) THEN t ELSE None

(* The report of At(t) is dealt with: on to the next, or the run is over.  *)
Dealt(t) ==
    /\ run' = [run EXCEPT ![t] = IF Last(t) THEN Idle
                                 ELSE [run[t] EXCEPT !.pc = "report", !.at = @ + 1]]
    /\ loop' = IF Last(t) THEN None ELSE t

(* Mutant: a tripped breaker skips the claim together with the call.       *)
AttemptIfWhole(t, n, skipTo, holder) ==
    LET calls == ~Tripped(n, run[t].sha)
    IN  /\ alert' = [alert EXCEPT ![n].attempted = calls,
                                  ![n].repairs = IF calls THEN @ + 1 ELSE @]
        /\ run' = [run EXCEPT ![t].pc = IF calls THEN "repair" ELSE skipTo]
        /\ loop' = IF calls THEN None ELSE holder

(* The one repair attempt is claimed; the call itself is skipped when the  *)
(* breaker has tripped.  An "ok" another run read earlier is now "old".    *)
Attempt(t, n, skipTo, holder) ==
    LET calls == ~Tripped(n, run[t].sha)
    IN  /\ alert' = [alert EXCEPT ![n].attempted = TRUE,
                                  ![n].repairs = IF calls THEN @ + 1 ELSE @]
        /\ run' = [u \in Runs |->
             IF u = t THEN [run[t] EXCEPT !.pc = IF calls THEN "repair" ELSE skipTo]
             ELSE IF run[u].report[n] = "ok" THEN [run[u] EXCEPT !.report[n] = "old"]
             ELSE run[u]]
        /\ loop' = IF calls THEN None ELSE holder

RepairReturns(t) ==
    /\ Resumed(t, "repair")
    /\ broken' \in {broken, broken \ {At(t)}}
    /\ breaker' = [breaker EXCEPT ![At(t)].row = 0]
    /\ Goes(t, "recheck", None)
    /\ UNCHANGED <<alert, sha, failing, deferred, inFlight, due, faults>>

RepairThrows(t) ==
    /\ Resumed(t, "repair")
    /\ breaker' = [breaker EXCEPT ![At(t)] = Notched(@, run[t].sha)]
    /\ IF t \in Ticks THEN Goes(t, "count", t) ELSE Goes(t, "recheck", None)
    /\ UNCHANGED <<broken, alert, sha, failing, deferred, inFlight, due, faults>>

-----------------------------------------------------------------------------
(* HealthMonitor.tick                                                      *)

StartTick(t) ==
    /\ due /\ due' = FALSE
    /\ Resumed(t, "idle")
    /\ Goes(t, "check", None)
    /\ UNCHANGED <<broken, alert, breaker, sha, failing, deferred, inFlight, faults>>

(* runOne: a check whose previous execution is still in flight is skipped. *)
TickChecks(t) ==
    /\ Resumed(t, "check")
    /\ Noted(t, IF At(t) \in inFlight THEN "skip" ELSE Reading(At(t)))
    /\ UNCHANGED <<broken, alert, breaker, sha, failing, deferred, inFlight, due, faults>>

(* The check outlives its timeout: reported as failing, and in flight.     *)
CheckHangs(t) ==
    /\ Resumed(t, "check") /\ At(t) \notin inFlight
    /\ faults < MaxFaults /\ faults' = faults + 1
    /\ Noted(t, "fail")
    /\ inFlight' = inFlight \cup {At(t)}
    /\ UNCHANGED <<broken, alert, breaker, sha, failing, deferred, due>>

CheckStaysInFlight(n) ==        \* mutant: the settled check is never taken out
    /\ n \in inFlight
    /\ UNCHANGED vars
CheckSettles(n) ==
    /\ n \in inFlight /\ inFlight' = inFlight \ {n}
    /\ UNCHANGED <<broken, alert, breaker, sha, run, loop, failing, deferred, due, faults>>

TickSkips(t) ==
    /\ Holds(t, "report") /\ run[t].report[At(t)] = "skip"
    /\ Dealt(t)
    /\ UNCHANGED <<broken, alert, breaker, sha, failing, deferred, inFlight, due, faults>>

TickCloses(t) ==
    /\ Holds(t, "report") /\ Green(run[t].report[At(t)])
    /\ alert' = [alert EXCEPT ![At(t)] = NoIncident]
    /\ failing' = [failing EXCEPT ![At(t)] = 0]
    /\ deferred' = [deferred EXCEPT ![At(t)] = Never]
    /\ Dealt(t)
    /\ UNCHANGED <<broken, breaker, sha, inFlight, due, faults>>

Explained(t) == \E p \in Parents[At(t)] : run[t].report[p] = "fail"
NoCap(n) == FALSE               \* mutant: deferral without a limit
CapExceeded(n) == deferred[n] > DeferCap

(* A failing parent explains the failure: no incident of its own, yet.     *)
TickDefers(t) ==
    /\ Holds(t, "report") /\ run[t].report[At(t)] = "fail"
    /\ Explained(t) /\ ~CapExceeded(At(t))
    /\ deferred' = [deferred EXCEPT ![At(t)] = IF @ = Never THEN 0 ELSE @]
    /\ Dealt(t)
    /\ UNCHANGED <<broken, alert, breaker, sha, failing, inFlight, due, faults>>

TickOpens(t) ==
    /\ Holds(t, "report") /\ run[t].report[At(t)] = "fail"
    /\ Explained(t) => CapExceeded(At(t))
    /\ alert' = [alert EXCEPT ![At(t)] = Recorded(@)]
    /\ deferred' = [deferred EXCEPT ![At(t)] = IF Explained(t) THEN @ ELSE Never]
    /\ Goes(t, "climb", t)
    /\ UNCHANGED <<broken, breaker, sha, failing, inFlight, due, faults>>

TickClimbs(t) ==
    /\ t \in Ticks /\ Holds(t, "climb")
    /\ IF At(t) \in Repairable /\ Claimable(At(t))
       THEN Attempt(t, At(t), "count", t)
       ELSE Goes(t, "count", t) /\ UNCHANGED alert
    /\ UNCHANGED <<broken, breaker, sha, failing, deferred, inFlight, due, faults>>

(* The check after the repair has no timeout and no overlap guard.         *)
TickRechecks(t) ==
    /\ t \in Ticks /\ Resumed(t, "recheck")
    /\ IF At(t) \in broken THEN UNCHANGED <<alert, failing>>
       ELSE /\ alert' = [alert EXCEPT ![At(t)] = NoIncident]
            /\ failing' = [failing EXCEPT ![At(t)] = 0]
    /\ Goes(t, "count", t)
    /\ UNCHANGED <<broken, breaker, sha, deferred, inFlight, due, faults>>

(* getOpenAlert is read once, before markEscalated: the two rungs are      *)
(* never climbed in one tick.                                              *)
TickCounts(t) ==
    LET n == At(t)
        a == alert[n]
        seen == Capped(failing[n] + 1, EscalateAfter)
        ticks == Capped(a.ticks + 1, EscalateAfter)
    IN  /\ Holds(t, "count")
        /\ failing' = [failing EXCEPT ![n] = seen]
        /\ alert' = [alert EXCEPT ![n] =
             IF ~a.open THEN a
             ELSE IF a.attempted /\ ~a.escalated /\ seen >= EscalateAfter
             THEN [a EXCEPT !.escalated = TRUE, !.ticks = ticks]
             ELSE IF a.escalated /\ a.since > NeedsHuman
             THEN [a EXCEPT !.human = TRUE, !.ticks = ticks]
             ELSE [a EXCEPT !.ticks = ticks]]
        /\ Dealt(t)
        /\ UNCHANGED <<broken, breaker, sha, deferred, inFlight, due, faults>>

-----------------------------------------------------------------------------
(* runInvariants with the hooks of runDoctorInvariants                     *)

StartDoctor(d) ==
    /\ Resumed(d, "idle")
    /\ run' = [run EXCEPT ![d].pc = "check", ![d].sha = sha]
    /\ UNCHANGED <<broken, alert, breaker, sha, loop, failing, deferred, inFlight, due, faults>>

(* A failing check with a repair() is recorded before its repair is        *)
(* claimed: markRepairAttempted needs an open row.                         *)
DoctorChecks(d) ==
    /\ Resumed(d, "check")
    /\ IF At(d) \in broken \cap Repairable
       THEN /\ alert' = [alert EXCEPT ![At(d)] = Recorded(@)]
            /\ Goes(d, "climb", d)
       ELSE Noted(d, Reading(At(d))) /\ UNCHANGED alert
    /\ UNCHANGED <<broken, breaker, sha, failing, deferred, inFlight, due, faults>>

DoctorClimbs(d) ==
    /\ d \in Doctors /\ Holds(d, "climb") /\ At(d) \in Repairable
    /\ IF Claimable(At(d))
       THEN Attempt(d, At(d), "recheck", None)
       ELSE Goes(d, "recheck", None) /\ UNCHANGED alert
    /\ UNCHANGED <<broken, breaker, sha, failing, deferred, inFlight, due, faults>>

DoctorRechecks(d) ==
    /\ d \in Doctors /\ Resumed(d, "recheck")
    /\ Noted(d, Reading(At(d)))
    /\ UNCHANGED <<broken, alert, breaker, sha, failing, deferred, inFlight, due, faults>>

DoctorReports(d) ==
    /\ Holds(d, "report")
    /\ alert' = [alert EXCEPT ![At(d)] =
                   IF Green(run[d].report[At(d)]) THEN NoIncident ELSE Recorded(@)]
    /\ Dealt(d)
    /\ UNCHANGED <<broken, breaker, sha, failing, deferred, inFlight, due, faults>>

-----------------------------------------------------------------------------
(* The surroundings                                                        *)

Breaks(n) ==
    /\ n \notin broken /\ broken' = broken \cup {n}
    /\ UNCHANGED <<alert, breaker, sha, run, loop, failing, deferred, inFlight, due, faults>>

Heals(n) ==
    /\ n \in broken /\ broken' = broken \ {n}
    /\ UNCHANGED <<alert, breaker, sha, run, loop, failing, deferred, inFlight, due, faults>>

Deploy(b) ==
    /\ b # sha /\ sha' = b
    /\ faults < MaxFaults /\ faults' = faults + 1
    /\ UNCHANGED <<broken, alert, breaker, run, loop, failing, deferred, inFlight, due>>

Restart ==
    /\ faults < MaxFaults /\ faults' = faults + 1
    /\ run' = [t \in Runs |-> Idle] /\ loop' = None
    /\ failing' = [n \in Names |-> 0]
    /\ deferred' = [n \in Names |-> Never]
    /\ inFlight' = {} /\ due' = FALSE
    /\ UNCHANGED <<broken, alert, breaker, sha>>

Minute ==
    /\ loop = None /\ ~due /\ due' = TRUE
    /\ alert' = [n \in Names |->
         IF alert[n].escalated /\ ~alert[n].human
         THEN [alert[n] EXCEPT !.since = Capped(@ + 1, NeedsHuman + 1)] ELSE alert[n]]
    /\ deferred' = [n \in Names |->
         IF deferred[n] = Never THEN Never ELSE Capped(deferred[n] + 1, DeferCap + 1)]
    /\ UNCHANGED <<broken, breaker, sha, run, loop, failing, inFlight, faults>>

-----------------------------------------------------------------------------

TickSteps(t) ==
    \/ TickChecks(t) \/ TickSkips(t) \/ TickCloses(t) \/ TickDefers(t)
    \/ TickOpens(t) \/ TickClimbs(t) \/ TickRechecks(t) \/ TickCounts(t)
    \/ RepairReturns(t) \/ RepairThrows(t)

DoctorSteps(d) ==
    \/ DoctorChecks(d) \/ DoctorClimbs(d) \/ DoctorRechecks(d) \/ DoctorReports(d)
    \/ RepairReturns(d) \/ RepairThrows(d)

Next ==
    \/ \E t \in Ticks : StartTick(t) \/ TickSteps(t) \/ CheckHangs(t)
    \/ \E d \in Doctors : StartDoctor(d) \/ DoctorSteps(d)
    \/ \E n \in Names : Breaks(n) \/ Heals(n) \/ CheckSettles(n)
    \/ \E b \in Builds : Deploy(b)
    \/ Restart \/ Minute

Spec == Init /\ [][Next]_vars

(* Timers fire and awaits end; the event loop, though each run holds it    *)
(* for a while, serves every callback that is ready again and again, hence *)
(* strong fairness.  Nothing is assumed of the invariants, of what repairs *)
(* do, of the doctor's schedule or of faults.                              *)
Fairness ==
    /\ SF_vars(Minute)
    /\ SF_vars(\E t \in Ticks : StartTick(t))
    /\ \A t \in Ticks : SF_vars(TickSteps(t))
    /\ \A d \in Doctors : SF_vars(DoctorSteps(d))
    /\ \A n \in Names : WF_vars(CheckSettles(n))

FairSpec == Spec /\ Fairness

-----------------------------------------------------------------------------
(* Properties                                                              *)

RungOf(a) ==
    IF ~a.open THEN "closed"
    ELSE IF ~a.attempted THEN "open"
    ELSE IF ~a.escalated THEN "tried"
    ELSE IF ~a.human THEN "escalated" ELSE "needs-human"

Of(n) == INSTANCE Incident WITH HasRepair <- n \in Repairable,
                                rung <- RungOf(alert[n]),
                                repairs <- alert[n].repairs

(* Ticks that overlap, a doctor and a daemon that restarts together move   *)
(* each incident as one ladder: one rung at a time, at most one repair     *)
(* call, and off it only by a close (markRepairAttempted, markEscalated,   *)
(* setOutcome, resolveAlert).                                              *)
LadderClimbs ==
    /\ \A n \in Names : Of(n)!Init
    /\ [][\A n \in Names : Of(n)!Step]_vars

(* "broken at 2 consecutive failures" (repair-breaker.ts:31).              *)
TrippedInARow ==
    \A n \in Names : breaker[n].failures >= TripThreshold
                      => breaker[n].row >= TripThreshold

(* "escalate once after ESCALATE_AFTER_TICKS still-failing ticks"          *)
(* (health-monitor.ts:446), counted within the one incident.               *)
EscalatedInTime ==
    \A n \in Names : alert[n].escalated => alert[n].ticks >= EscalateAfter

(* "the check went green after a repair attempt" (alert-store.ts:141): an  *)
(* incident with an attempt is not closed, and so credited as repaired, on *)
(* a reading older than the attempt.                                       *)
CreditedGreen ==
    [][\A n \in Names :
         alert[n].attempted /\ alert'[n] = NoIncident =>
           ~ \E t \in Runs : run[t].pc = "report" /\ At(t) = n
                            /\ run[t].report[n] = "old" /\ run'[t] # run[t]]_vars

(* A check that fails for good ends with a human, whoever else defers to   *)
(* it or closes over it: no breaker, doctor or parent stalls its incident. *)
StuckReachesHuman ==
    \A n \in Repairable : <>[](n \in broken) => <>[](alert[n].human)

(* A check that holds for good leaves no incident behind.                  *)
HealedIsClosed ==
    \A n \in Names : <>[](n \notin broken) => <>[](~alert[n].open)

(* A parent that keeps failing cannot hide its symptom for ever.           *)
FailureSurfaces ==
    \A n \in Names : <>[](n \in broken) => <>[](alert[n].open)
=============================================================================
