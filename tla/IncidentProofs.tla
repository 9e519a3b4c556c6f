---------------------------- MODULE IncidentProofs ----------------------------
(* Theorems about IncidentLadder, for any set of invariants, ticks, doctors *)
(* and builds that satisfies LadderAssumption.                              *)
EXTENDS IncidentLadder, TLAPS

(* Where an incident may stand on the ladder; what the columns say of it.  *)
OnLadder(a, hasRepair) ==
    /\ a.open \/ a = NoIncident
    /\ a.attempted => hasRepair
    /\ a.escalated => a.attempted
    /\ a.human => a.escalated
    /\ a.repairs \in {0, 1}
    /\ a.attempted \/ a.repairs = 0

Standing == \A n \in Names : OnLadder(alert[n], n \in Repairable)

(* Everything the actions do to one incident.                              *)
Moves(a, b, hasRepair) ==
    \/ b = a \/ b = NoIncident \/ b = Recorded(a)
    \/ /\ a.open /\ ~a.attempted /\ hasRepair
       /\ \E calls \in {0, 1} :
            b = [a EXCEPT !.attempted = TRUE, !.repairs = calls]
    \/ a.open /\ \E k \in Nat : b = [a EXCEPT !.ticks = k]
    \/ /\ a.open /\ a.attempted /\ ~a.escalated
       /\ \E k \in Nat : b = [a EXCEPT !.escalated = TRUE, !.ticks = k]
    \/ /\ a.open /\ a.escalated
       /\ \E k \in Nat : b = [a EXCEPT !.human = TRUE, !.ticks = k]
    \/ a.escalated /\ \E k \in Nat : b = [a EXCEPT !.since = k]

LEMMA NoIncidentType == NoIncident \in Incidents
BY DEF NoIncident, Incidents

(* A move keeps the incident's type and its place on the ladder.           *)
LEMMA MoveStays ==
  ASSUME NEW n \in Names, NEW a \in Incidents, NEW b,
         Moves(a, b, n \in Repairable), OnLadder(a, n \in Repairable)
  PROVE  b \in Incidents /\ OnLadder(b, n \in Repairable)
<1>1. CASE b = a BY <1>1
<1>2. CASE b = NoIncident
  BY <1>2, NoIncidentType DEF OnLadder, NoIncident
<1>3. CASE b = Recorded(a)
  BY <1>3 DEF Recorded, NoIncident, Incidents, OnLadder
<1>4. CASE /\ a.open /\ ~a.attempted /\ n \in Repairable
           /\ \E calls \in {0, 1} :
                b = [a EXCEPT !.attempted = TRUE, !.repairs = calls]
  <2>1. PICK calls \in {0, 1} :
             b = [a EXCEPT !.attempted = TRUE, !.repairs = calls]
    BY <1>4
  <2>. calls \in Nat BY <2>1
  <2>2. b \in Incidents BY <2>1 DEF Incidents
  <2>3. /\ b.open /\ b.attempted /\ b.repairs = calls
        /\ b.escalated = a.escalated /\ b.human = a.human
    BY <1>4, <2>1 DEF Incidents
  <2>4. a.escalated => a.attempted /\ (a.human => a.escalated)
    BY DEF OnLadder
  <2>q. QED BY <1>4, <2>2, <2>3, <2>4 DEF OnLadder
<1>5. CASE a.open /\ \E k \in Nat : b = [a EXCEPT !.ticks = k]
  BY <1>5 DEF Incidents, OnLadder
<1>6. CASE /\ a.open /\ a.attempted /\ ~a.escalated
           /\ \E k \in Nat : b = [a EXCEPT !.escalated = TRUE, !.ticks = k]
  BY <1>6 DEF Incidents, OnLadder
<1>7. CASE /\ a.open /\ a.escalated
           /\ \E k \in Nat : b = [a EXCEPT !.human = TRUE, !.ticks = k]
  BY <1>7 DEF Incidents, OnLadder
<1>8. CASE a.escalated /\ \E k \in Nat : b = [a EXCEPT !.since = k]
  BY <1>8 DEF Incidents, OnLadder, NoIncident
<1>q. QED BY <1>1, <1>2, <1>3, <1>4, <1>5, <1>6, <1>7, <1>8 DEF Moves

(* A move climbs one rung, closes the incident or leaves it where it is.   *)
LEMMA MoveClimbs ==
  ASSUME NEW n \in Names, alert[n] \in Incidents,
         OnLadder(alert[n], n \in Repairable),
         Moves(alert[n], alert'[n], n \in Repairable)
  PROVE  Of(n)!Step
<1> DEFINE a == alert[n]
<1> DEFINE b == alert'[n]
<1> USE DEF Of!Step, Of!Next, Of!Open, Of!Try, Of!Escalate, Of!GiveUp, Of!Close
<1>1. CASE b = a BY <1>1 DEF RungOf
<1>2. CASE b = NoIncident
  BY <1>2 DEF RungOf, OnLadder, NoIncident
<1>3. CASE b = Recorded(a)
  BY <1>3 DEF RungOf, Recorded, OnLadder, NoIncident, Incidents
<1>4. CASE /\ a.open /\ ~a.attempted /\ n \in Repairable
           /\ \E calls \in {0, 1} :
                b = [a EXCEPT !.attempted = TRUE, !.repairs = calls]
  <2>1. RungOf(a) = "open" BY <1>4 DEF RungOf
  <2>2. RungOf(b) = "tried" /\ b.repairs \in {0, 1}
    BY <1>4 DEF RungOf, OnLadder, Incidents
  <2>q. QED BY <1>4, <2>1, <2>2
<1>5. CASE a.open /\ \E k \in Nat : b = [a EXCEPT !.ticks = k]
  BY <1>5 DEF RungOf, Incidents
<1>6. CASE /\ a.open /\ a.attempted /\ ~a.escalated
           /\ \E k \in Nat : b = [a EXCEPT !.escalated = TRUE, !.ticks = k]
  BY <1>6 DEF RungOf, OnLadder, Incidents
<1>7. CASE /\ a.open /\ a.escalated
           /\ \E k \in Nat : b = [a EXCEPT !.human = TRUE, !.ticks = k]
  BY <1>7 DEF RungOf, OnLadder, Incidents
<1>8. CASE a.escalated /\ \E k \in Nat : b = [a EXCEPT !.since = k]
  BY <1>8 DEF RungOf, Incidents
<1>q. QED BY <1>1, <1>2, <1>3, <1>4, <1>5, <1>6, <1>7, <1>8 DEF Moves

-----------------------------------------------------------------------------
(* The steps of a run keep its type.                                       *)

RunsTyped == run \in [Runs -> RunStates] /\ loop \in Runs \cup {None}

AllMove == \A n \in Names : Moves(alert[n], alert'[n], n \in Repairable)

LEMMA NameAt ==
  ASSUME TypeOK, NEW t \in Runs
  PROVE  At(t) \in Names
<1>1. run[t].at \in DOMAIN Order BY DEF TypeOK, RunStates
<1>q. QED BY <1>1, LadderAssumption DEF At

LEMMA OneMoves ==
  ASSUME alert \in [Names -> Incidents], NEW m \in Names, NEW b,
         alert' = [alert EXCEPT ![m] = b],
         Moves(alert[m], b, m \in Repairable)
  PROVE  AllMove
<1> SUFFICES ASSUME NEW n \in Names
             PROVE  Moves(alert[n], alert'[n], n \in Repairable)
  BY DEF AllMove
<1>1. CASE n = m BY <1>1
<1>2. CASE n # m
  <2>1. alert'[n] = alert[n] BY <1>2
  <2>q. QED BY <2>1 DEF Moves
<1>q. QED BY <1>1, <1>2

LEMMA NoneMoves ==
  ASSUME alert' = alert
  PROVE  AllMove
BY DEF AllMove, Moves

LEMMA IdleType == Idle \in RunStates
<1>1. 1 \in DOMAIN Order BY LadderAssumption
<1>q. QED BY <1>1 DEF Idle, RunStates, Readings

Pcs == {"idle", "check", "report", "climb", "repair", "recheck", "count"}

LEMMA GoesType ==
  ASSUME TypeOK, NEW t \in Runs, NEW pc \in Pcs, NEW h \in Runs \cup {None},
         Goes(t, pc, h)
  PROVE  RunsTyped'
BY DEF TypeOK, RunsTyped, Goes, RunStates, Pcs

LEMMA NotedType ==
  ASSUME TypeOK, NEW t \in Runs, NEW v \in Readings, Noted(t, v)
  PROVE  RunsTyped'
<1> DEFINE r == [run[t] EXCEPT !.report[At(t)] = v, !.pc = "check"]
<1> DEFINE r1 == [r EXCEPT !.pc = "report", !.at = 1,
                           !.sha = IF t \in Ticks THEN sha ELSE @]
<1> DEFINE r2 == [r EXCEPT !.at = @ + 1]
<1>1. run[t] \in RunStates BY DEF TypeOK
<1>2. r \in RunStates BY <1>1, NameAt DEF RunStates
<1>3. 1 \in DOMAIN Order BY LadderAssumption
<1>4. r1 \in RunStates BY <1>2, <1>3 DEF RunStates, TypeOK
<1>5. ~Last(t) => r2 \in RunStates
  <2>1. run[t].at \in 1..Len(Order) /\ DOMAIN Order = 1..Len(Order)
        /\ Len(Order) \in Nat
    BY <1>1, LadderAssumption DEF RunStates
  <2>2. ~Last(t) => run[t].at + 1 \in DOMAIN Order BY <2>1 DEF Last
  <2>3. r.at = run[t].at BY <1>1 DEF RunStates
  <2>q. QED BY <1>2, <2>2, <2>3 DEF RunStates
<1>6. run' = [run EXCEPT ![t] = IF Last(t) THEN r1 ELSE r2] BY DEF Noted
<1>7. run' \in [Runs -> RunStates] BY <1>4, <1>5, <1>6 DEF TypeOK
<1>8. loop' \in Runs \cup {None} BY DEF Noted
<1>q. QED BY <1>7, <1>8 DEF RunsTyped

LEMMA DealtType ==
  ASSUME TypeOK, NEW t \in Runs, Dealt(t)
  PROVE  RunsTyped'
<1> DEFINE r2 == [run[t] EXCEPT !.pc = "report", !.at = @ + 1]
<1>1. run[t] \in RunStates BY DEF TypeOK
<1>2. ~Last(t) => r2 \in RunStates
  <2>1. run[t].at \in 1..Len(Order) /\ DOMAIN Order = 1..Len(Order)
        /\ Len(Order) \in Nat
    BY <1>1, LadderAssumption DEF RunStates
  <2>2. ~Last(t) => run[t].at + 1 \in DOMAIN Order BY <2>1 DEF Last
  <2>q. QED BY <1>1, <2>2 DEF RunStates
<1>3. run' = [run EXCEPT ![t] = IF Last(t) THEN Idle ELSE r2] BY DEF Dealt
<1>4. run' \in [Runs -> RunStates] BY <1>2, <1>3, IdleType DEF TypeOK
<1>5. loop' \in Runs \cup {None} BY DEF Dealt
<1>q. QED BY <1>4, <1>5 DEF RunsTyped

(* Claiming the attempt is a move of that incident and of no other.        *)
LEMMA AttemptMoves ==
  ASSUME TypeOK, Standing, NEW t \in Runs, NEW n \in Repairable,
         NEW pc \in Pcs, NEW h \in Runs \cup {None},
         Claimable(n), Attempt(t, n, pc, h)
  PROVE  RunsTyped' /\ AllMove /\ alert' \in [Names -> Incidents]
<1> DEFINE calls == ~Tripped(n, run[t].sha)
<1> DEFINE b == [alert[n] EXCEPT !.attempted = TRUE,
                                 !.repairs = IF calls THEN @ + 1 ELSE @]
<1>n. n \in Names BY LadderAssumption
<1>1. alert' = [alert EXCEPT ![n] = b] BY DEF Attempt
<1>2. alert[n].repairs = 0 BY <1>n DEF Standing, OnLadder, Claimable
<1>3. b = [alert[n] EXCEPT !.attempted = TRUE, !.repairs = IF calls THEN 1 ELSE 0]
  BY <1>2
<1>4. Moves(alert[n], b, n \in Repairable)
  <2>1. (IF calls THEN 1 ELSE 0) \in {0, 1} OBVIOUS
  <2>q. QED BY <1>3, <2>1 DEF Moves, Claimable
<1>5. AllMove BY <1>1, <1>4, <1>n, OneMoves DEF TypeOK
<1>6. run' \in [Runs -> RunStates]
  <2> SUFFICES ASSUME NEW u \in Runs PROVE run'[u] \in RunStates
    BY DEF Attempt
  <2>1. run[u] \in RunStates /\ run[t] \in RunStates BY DEF TypeOK
  <2>2. run'[u] \in {[run[t] EXCEPT !.pc = IF calls THEN "repair" ELSE pc],
                     [run[u] EXCEPT !.report[n] = "old"], run[u]}
    BY DEF Attempt
  <2>3. [run[t] EXCEPT !.pc = IF calls THEN "repair" ELSE pc] \in RunStates
    BY <2>1 DEF RunStates, Pcs
  <2>4. [run[u] EXCEPT !.report[n] = "old"] \in RunStates
    BY <2>1, <1>n DEF RunStates, Readings
  <2>q. QED BY <2>1, <2>2, <2>3, <2>4
<1>7. loop' \in Runs \cup {None} BY DEF Attempt
<1>8. alert' \in [Names -> Incidents]
  <2>1. (IF calls THEN 1 ELSE 0) \in Nat OBVIOUS
  <2>2. alert[n] \in Incidents BY <1>n DEF TypeOK
  <2>3. b \in Incidents BY <1>3, <2>1, <2>2 DEF Incidents
  <2>q. QED BY <1>1, <2>3 DEF TypeOK
<1>q. QED BY <1>5, <1>6, <1>7, <1>8 DEF RunsTyped

-----------------------------------------------------------------------------
(* Every action keeps the types and makes a move of each incident.         *)

Kept == TypeOK' /\ AllMove

LEMMA CappedNat ==
  ASSUME NEW x \in Nat, NEW c \in Nat
  PROVE  Capped(x, c) \in Nat
BY DEF Capped

LEMMA RepairsKeep ==
  ASSUME TypeOK, NEW t \in Runs, RepairReturns(t) \/ RepairThrows(t)
  PROVE  Kept
<1>n. At(t) \in Names BY NameAt
<1>1. CASE RepairReturns(t)
  <2>1. RunsTyped' BY <1>1, GoesType DEF RepairReturns, Pcs
  <2>2. breaker' \in [Names -> BreakerEntries]
    BY <1>1 DEF RepairReturns, TypeOK, BreakerEntries
  <2>3. broken' \subseteq Names BY <1>1 DEF RepairReturns, TypeOK
  <2>4. AllMove BY <1>1, NoneMoves DEF RepairReturns
  <2>q. QED BY <1>1, <2>1, <2>2, <2>3, <2>4
         DEF Kept, TypeOK, RunsTyped, RepairReturns
<1>2. CASE RepairThrows(t)
  <2>1. RunsTyped'
    <3>1. CASE t \in Ticks BY <1>2, <3>1, GoesType DEF RepairThrows, Pcs
    <3>2. CASE t \notin Ticks BY <1>2, <3>2, GoesType DEF RepairThrows, Pcs
    <3>q. QED BY <3>1, <3>2
  <2>2. Notched(breaker[At(t)], run[t].sha) \in BreakerEntries
    <3>1. breaker[At(t)] \in BreakerEntries /\ run[t].sha \in Builds \cup {None}
      BY <1>n DEF TypeOK, RunStates
    <3>2. /\ TripThreshold \in Nat
          /\ breaker[At(t)].failures + 1 \in Nat
          /\ breaker[At(t)].row + 1 \in Nat
      BY <3>1, LadderAssumption DEF BreakerEntries
    <3>3. /\ Capped(breaker[At(t)].failures + 1, TripThreshold) \in Nat
          /\ Capped(breaker[At(t)].row + 1, TripThreshold) \in Nat
      BY <3>2, CappedNat
    <3>q. QED BY <3>1, <3>3 DEF Notched, BreakerEntries
  <2>3. breaker' \in [Names -> BreakerEntries]
    BY <1>2, <2>2 DEF RepairThrows, TypeOK
  <2>4. AllMove BY <1>2, NoneMoves DEF RepairThrows
  <2>q. QED BY <1>2, <2>1, <2>3, <2>4 DEF Kept, TypeOK, RunsTyped, RepairThrows
<1>q. QED BY <1>1, <1>2

LEMMA TicksKeep ==
  ASSUME TypeOK, Standing, NEW t \in Ticks,
         StartTick(t) \/ TickSteps(t) \/ CheckHangs(t)
  PROVE  Kept
<1>t. t \in Runs BY DEF Runs
<1>n. At(t) \in Names BY <1>t, NameAt
<1>a. alert \in [Names -> Incidents] /\ alert[At(t)] \in Incidents
  BY <1>n DEF TypeOK
<1>1. CASE StartTick(t)
  <2>1. RunsTyped' BY <1>1, <1>t, GoesType DEF StartTick, Pcs
  <2>2. AllMove BY <1>1, NoneMoves DEF StartTick
  <2>q. QED BY <1>1, <2>1, <2>2 DEF Kept, TypeOK, RunsTyped, StartTick
<1>2. CASE TickChecks(t)
  <2> DEFINE v == IF At(t) \in inFlight THEN "skip" ELSE Reading(At(t))
  <2>1. v \in Readings BY DEF Reading, Readings
  <2>2. RunsTyped' BY <1>2, <1>t, <2>1, NotedType DEF TickChecks
  <2>3. AllMove BY <1>2, NoneMoves DEF TickChecks
  <2>q. QED BY <1>2, <2>2, <2>3 DEF Kept, TypeOK, RunsTyped, TickChecks
<1>3. CASE CheckHangs(t)
  <2>1. RunsTyped' BY <1>3, <1>t, NotedType DEF CheckHangs, Readings
  <2>2. AllMove BY <1>3, NoneMoves DEF CheckHangs
  <2>3. faults' \in 0..MaxFaults
    BY <1>3, LadderAssumption DEF CheckHangs, TypeOK
  <2>4. inFlight' \subseteq Names BY <1>3, <1>n DEF CheckHangs, TypeOK
  <2>q. QED BY <1>3, <2>1, <2>2, <2>3, <2>4 DEF Kept, TypeOK, RunsTyped, CheckHangs
<1>4. CASE TickSkips(t)
  <2>1. RunsTyped' BY <1>4, <1>t, DealtType DEF TickSkips
  <2>2. AllMove BY <1>4, NoneMoves DEF TickSkips
  <2>q. QED BY <1>4, <2>1, <2>2 DEF Kept, TypeOK, RunsTyped, TickSkips
<1>5. CASE TickCloses(t)
  <2>1. RunsTyped' BY <1>5, <1>t, DealtType DEF TickCloses
  <2>2. AllMove
    BY <1>5, <1>n, <1>a, OneMoves DEF TickCloses, Moves
  <2>3. alert' \in [Names -> Incidents]
    BY <1>5, <1>a, NoIncidentType DEF TickCloses
  <2>4. /\ failing' \in [Names -> Nat]
        /\ deferred' \in [Names -> Nat \cup {Never}]
    BY <1>5 DEF TickCloses, TypeOK
  <2>q. QED BY <1>5, <2>1, <2>2, <2>3, <2>4 DEF Kept, TypeOK, RunsTyped, TickCloses
<1>6. CASE TickDefers(t)
  <2>1. RunsTyped' BY <1>6, <1>t, DealtType DEF TickDefers
  <2>2. AllMove BY <1>6, NoneMoves DEF TickDefers
  <2>3. deferred' \in [Names -> Nat \cup {Never}]
    BY <1>6 DEF TickDefers, TypeOK
  <2>q. QED BY <1>6, <2>1, <2>2, <2>3 DEF Kept, TypeOK, RunsTyped, TickDefers
<1>7. CASE TickOpens(t)
  <2>1. RunsTyped' BY <1>7, <1>t, GoesType DEF TickOpens, Pcs
  <2>2. alert' = [alert EXCEPT ![At(t)] = Recorded(alert[At(t)])]
    BY <1>7 DEF TickOpens
  <2>3. AllMove BY <2>2, <1>n, <1>a, OneMoves DEF Moves
  <2>4. Recorded(alert[At(t)]) \in Incidents
    BY <1>a DEF Recorded, NoIncident, Incidents
  <2>5. alert' \in [Names -> Incidents] BY <2>2, <2>4, <1>a
  <2>6. deferred' \in [Names -> Nat \cup {Never}]
    BY <1>7 DEF TickOpens, TypeOK
  <2>q. QED BY <1>7, <2>1, <2>3, <2>5, <2>6 DEF Kept, TypeOK, RunsTyped, TickOpens
<1>8. CASE TickClimbs(t)
  <2>1. CASE At(t) \in Repairable /\ Claimable(At(t))
    <3>1. RunsTyped' /\ AllMove /\ alert' \in [Names -> Incidents]
      BY <1>8, <2>1, <1>t, AttemptMoves DEF TickClimbs, Pcs
    <3>q. QED BY <1>8, <3>1 DEF Kept, TypeOK, RunsTyped, TickClimbs
  <2>2. CASE ~(At(t) \in Repairable /\ Claimable(At(t)))
    <3>1. RunsTyped' BY <1>8, <2>2, <1>t, GoesType DEF TickClimbs, Pcs
    <3>2. AllMove BY <1>8, <2>2, NoneMoves DEF TickClimbs
    <3>q. QED BY <1>8, <2>2, <3>1, <3>2 DEF Kept, TypeOK, RunsTyped, TickClimbs
  <2>q. QED BY <2>1, <2>2
<1>9. CASE TickRechecks(t)
  <2>1. RunsTyped' BY <1>9, <1>t, GoesType DEF TickRechecks, Pcs
  <2>2. CASE At(t) \in broken
    <3>1. AllMove BY <1>9, <2>2, NoneMoves DEF TickRechecks
    <3>q. QED BY <1>9, <2>1, <2>2, <3>1 DEF Kept, TypeOK, RunsTyped, TickRechecks
  <2>3. CASE At(t) \notin broken
    <3>1. AllMove
      BY <1>9, <2>3, <1>n, <1>a, OneMoves DEF TickRechecks, Moves
    <3>2. alert' \in [Names -> Incidents] /\ failing' \in [Names -> Nat]
      BY <1>9, <2>3, <1>a, NoIncidentType DEF TickRechecks, TypeOK
    <3>q. QED BY <1>9, <2>1, <3>1, <3>2 DEF Kept, TypeOK, RunsTyped, TickRechecks
  <2>q. QED BY <2>2, <2>3
<1>10. CASE TickCounts(t)
  <2> DEFINE n == At(t)
  <2> DEFINE a == alert[n]
  <2> DEFINE seen == Capped(failing[n] + 1, EscalateAfter)
  <2> DEFINE ticks == Capped(a.ticks + 1, EscalateAfter)
  <2> DEFINE b == IF ~a.open THEN a
                  ELSE IF a.attempted /\ ~a.escalated /\ seen >= EscalateAfter
                  THEN [a EXCEPT !.escalated = TRUE, !.ticks = ticks]
                  ELSE IF a.escalated /\ a.since > NeedsHuman
                  THEN [a EXCEPT !.human = TRUE, !.ticks = ticks]
                  ELSE [a EXCEPT !.ticks = ticks]
  <2>1. RunsTyped' BY <1>10, <1>t, DealtType DEF TickCounts
  <2>2. alert' = [alert EXCEPT ![n] = b] /\ failing' = [failing EXCEPT ![n] = seen]
    BY <1>10 DEF TickCounts
  <2>3. seen \in Nat /\ ticks \in Nat
    <3>1. failing[n] + 1 \in Nat /\ a.ticks + 1 \in Nat /\ EscalateAfter \in Nat
      BY <1>n, <1>a, LadderAssumption DEF TypeOK, Incidents
    <3>q. QED BY <3>1, CappedNat
  <2>4. Moves(a, b, n \in Repairable)
    <3>1. CASE ~a.open BY <3>1 DEF Moves
    <3>2. CASE a.open /\ a.attempted /\ ~a.escalated /\ seen >= EscalateAfter
      BY <3>2, <2>3 DEF Moves
    <3>3. CASE /\ a.open /\ ~(a.attempted /\ ~a.escalated /\ seen >= EscalateAfter)
               /\ a.escalated /\ a.since > NeedsHuman
      BY <3>3, <2>3 DEF Moves
    <3>4. CASE /\ a.open /\ ~(a.attempted /\ ~a.escalated /\ seen >= EscalateAfter)
               /\ ~(a.escalated /\ a.since > NeedsHuman)
      BY <3>4, <2>3 DEF Moves
    <3>q. QED BY <3>1, <3>2, <3>3, <3>4
  <2>5. b \in Incidents BY <1>a, <2>3 DEF Incidents
  <2>6. AllMove BY <2>2, <2>4, <1>n, <1>a, OneMoves
  <2>7. alert' \in [Names -> Incidents] BY <2>2, <2>5, <1>a
  <2>8. failing' \in [Names -> Nat] BY <2>2, <2>3 DEF TypeOK
  <2>q. QED BY <1>10, <2>1, <2>6, <2>7, <2>8 DEF Kept, TypeOK, RunsTyped, TickCounts
<1>q. QED BY <1>t, <1>1, <1>2, <1>3, <1>4, <1>5, <1>6, <1>7, <1>8, <1>9, <1>10,
             RepairsKeep DEF TickSteps

LEMMA DoctorsKeep ==
  ASSUME TypeOK, Standing, NEW d \in Doctors, StartDoctor(d) \/ DoctorSteps(d)
  PROVE  Kept
<1>t. d \in Runs BY DEF Runs
<1>n. At(d) \in Names BY <1>t, NameAt
<1>a. alert \in [Names -> Incidents] /\ alert[At(d)] \in Incidents
  BY <1>n DEF TypeOK
<1>r. /\ Recorded(alert[At(d)]) \in Incidents
      /\ Moves(alert[At(d)], Recorded(alert[At(d)]), At(d) \in Repairable)
      /\ Moves(alert[At(d)], NoIncident, At(d) \in Repairable)
  BY <1>a DEF Recorded, NoIncident, Incidents, Moves
<1>v. Reading(At(d)) \in Readings BY DEF Reading, Readings
<1>1. CASE StartDoctor(d)
  <2>1. run' \in [Runs -> RunStates] BY <1>1, <1>t DEF StartDoctor, TypeOK, RunStates
  <2>2. AllMove BY <1>1, NoneMoves DEF StartDoctor
  <2>q. QED BY <1>1, <2>1, <2>2 DEF Kept, TypeOK, StartDoctor
<1>2. CASE DoctorChecks(d)
  <2>1. CASE At(d) \in broken \cap Repairable
    <3>1. RunsTyped' BY <1>2, <2>1, <1>t, GoesType DEF DoctorChecks, Pcs
    <3>2. alert' = [alert EXCEPT ![At(d)] = Recorded(alert[At(d)])]
      BY <1>2, <2>1 DEF DoctorChecks
    <3>3. AllMove BY <3>2, <1>n, <1>a, <1>r, OneMoves
    <3>4. alert' \in [Names -> Incidents] BY <3>2, <1>a, <1>r
    <3>q. QED BY <1>2, <3>1, <3>3, <3>4 DEF Kept, TypeOK, RunsTyped, DoctorChecks
  <2>2. CASE At(d) \notin broken \cap Repairable
    <3>1. RunsTyped' BY <1>2, <2>2, <1>t, <1>v, NotedType DEF DoctorChecks
    <3>2. AllMove BY <1>2, <2>2, NoneMoves DEF DoctorChecks
    <3>q. QED BY <1>2, <2>2, <3>1, <3>2 DEF Kept, TypeOK, RunsTyped, DoctorChecks
  <2>q. QED BY <2>1, <2>2
<1>3. CASE DoctorClimbs(d)
  <2>1. CASE Claimable(At(d)) /\ At(d) \in Repairable
    <3>1. RunsTyped' /\ AllMove /\ alert' \in [Names -> Incidents]
      BY <1>3, <2>1, <1>t, AttemptMoves DEF DoctorClimbs, Pcs
    <3>q. QED BY <1>3, <3>1 DEF Kept, TypeOK, RunsTyped, DoctorClimbs
  <2>2. CASE ~Claimable(At(d))
    <3>1. RunsTyped' BY <1>3, <2>2, <1>t, GoesType DEF DoctorClimbs, Pcs
    <3>2. AllMove BY <1>3, <2>2, NoneMoves DEF DoctorClimbs
    <3>q. QED BY <1>3, <2>2, <3>1, <3>2 DEF Kept, TypeOK, RunsTyped, DoctorClimbs
  <2>q. QED BY <2>1, <2>2, <1>3 DEF DoctorClimbs
<1>4. CASE DoctorRechecks(d)
  <2>1. RunsTyped' BY <1>4, <1>t, <1>v, NotedType DEF DoctorRechecks
  <2>2. AllMove BY <1>4, NoneMoves DEF DoctorRechecks
  <2>q. QED BY <1>4, <2>1, <2>2 DEF Kept, TypeOK, RunsTyped, DoctorRechecks
<1>5. CASE DoctorReports(d)
  <2> DEFINE b == IF Green(run[d].report[At(d)]) THEN NoIncident
                  ELSE Recorded(alert[At(d)])
  <2>1. RunsTyped' BY <1>5, <1>t, DealtType DEF DoctorReports
  <2>2. alert' = [alert EXCEPT ![At(d)] = b] BY <1>5 DEF DoctorReports
  <2>3. AllMove BY <2>2, <1>n, <1>a, <1>r, OneMoves
  <2>4. alert' \in [Names -> Incidents] BY <2>2, <1>a, <1>r, NoIncidentType
  <2>q. QED BY <1>5, <2>1, <2>3, <2>4 DEF Kept, TypeOK, RunsTyped, DoctorReports
<1>q. QED BY <1>t, <1>1, <1>2, <1>3, <1>4, <1>5, RepairsKeep DEF DoctorSteps

LEMMA SurroundingsKeep ==
  ASSUME TypeOK, Standing,
         \/ \E n \in Names : Breaks(n) \/ Heals(n) \/ CheckSettles(n)
         \/ \E b \in Builds : Deploy(b)
         \/ Restart \/ Minute
  PROVE  Kept
<1>1. ASSUME NEW n \in Names, Breaks(n) \/ Heals(n) \/ CheckSettles(n)
      PROVE  Kept
  <2>1. AllMove BY <1>1, NoneMoves DEF Breaks, Heals, CheckSettles
  <2>2. TypeOK' BY <1>1 DEF TypeOK, Breaks, Heals, CheckSettles
  <2>q. QED BY <2>1, <2>2 DEF Kept
<1>2. ASSUME NEW b \in Builds, Deploy(b) PROVE Kept
  <2>1. AllMove BY <1>2, NoneMoves DEF Deploy
  <2>2. faults' \in 0..MaxFaults BY <1>2, LadderAssumption DEF Deploy, TypeOK
  <2>q. QED BY <1>2, <2>1, <2>2 DEF Kept, TypeOK, Deploy
<1>3. CASE Restart
  <2>1. AllMove BY <1>3, NoneMoves DEF Restart
  <2>2. faults' \in 0..MaxFaults BY <1>3, LadderAssumption DEF Restart, TypeOK
  <2>3. run' \in [Runs -> RunStates] BY <1>3, IdleType DEF Restart
  <2>4. /\ failing' \in [Names -> Nat]
        /\ deferred' \in [Names -> Nat \cup {Never}]
        /\ inFlight' \subseteq Names /\ due' \in BOOLEAN /\ loop' \in Runs \cup {None}
    BY <1>3 DEF Restart
  <2>q. QED BY <1>3, <2>1, <2>2, <2>3, <2>4 DEF Kept, TypeOK, Restart
<1>4. CASE Minute
  <2> DEFINE later(n) ==
        [alert[n] EXCEPT !.since = Capped(alert[n].since + 1, NeedsHuman + 1)]
  <2>1. \A n \in Names :
           alert'[n] = IF alert[n].escalated /\ ~alert[n].human
                       THEN later(n) ELSE alert[n]
    BY <1>4 DEF Minute
  <2>2. \A n \in Names : alert[n] \in Incidents BY DEF TypeOK
  <2>3. ASSUME NEW n \in Names
        PROVE  Capped(alert[n].since + 1, NeedsHuman + 1) \in Nat
    <3>1. alert[n].since + 1 \in Nat /\ NeedsHuman + 1 \in Nat
      BY <2>2, LadderAssumption DEF Incidents
    <3>q. QED BY <3>1, CappedNat
  <2>4. ASSUME NEW n \in Names PROVE later(n) \in Incidents
    BY <2>2, <2>3 DEF Incidents
  <2>5. ASSUME NEW n \in Names
        PROVE  Moves(alert[n], alert'[n], n \in Repairable)
    BY <2>1, <2>3 DEF Moves
  <2>6. AllMove BY <2>5 DEF AllMove
  <2>7. alert' \in [Names -> Incidents]
    <3>1. alert' = [n \in Names |-> alert'[n]] BY <1>4 DEF Minute
    <3>q. QED BY <2>1, <2>2, <2>4, <3>1
  <2>8. deferred' \in [Names -> Nat \cup {Never}]
    <3>1. ASSUME NEW n \in Names, deferred[n] # Never
          PROVE  Capped(deferred[n] + 1, DeferCap + 1) \in Nat
      <4>1. deferred[n] + 1 \in Nat /\ DeferCap + 1 \in Nat
        BY <3>1, LadderAssumption DEF TypeOK
      <4>q. QED BY <4>1, CappedNat
    <3>q. QED BY <1>4, <3>1 DEF Minute
  <2>9. due' \in BOOLEAN BY <1>4 DEF Minute
  <2>q. QED BY <1>4, <2>6, <2>7, <2>8, <2>9 DEF Kept, TypeOK, Minute
<1>q. QED BY <1>1, <1>2, <1>3, <1>4

-----------------------------------------------------------------------------
(* The theorems                                                            *)

IInv == TypeOK /\ Standing

LEMMA StepKeeps ==
  ASSUME IInv, [Next]_vars
  PROVE  IInv' /\ \A n \in Names : Of(n)!Step
<1>1. Kept
  <2>1. CASE UNCHANGED vars
    <3>1. AllMove BY <2>1, NoneMoves DEF vars
    <3>2. TypeOK' BY <2>1 DEF IInv, TypeOK, vars
    <3>q. QED BY <3>1, <3>2 DEF Kept
  <2>2. ASSUME NEW t \in Ticks, StartTick(t) \/ TickSteps(t) \/ CheckHangs(t)
        PROVE  Kept
    BY <2>2, TicksKeep DEF IInv
  <2>3. ASSUME NEW d \in Doctors, StartDoctor(d) \/ DoctorSteps(d) PROVE Kept
    BY <2>3, DoctorsKeep DEF IInv
  <2>4. CASE \/ \E n \in Names : Breaks(n) \/ Heals(n) \/ CheckSettles(n)
             \/ \E b \in Builds : Deploy(b)
             \/ Restart \/ Minute
    BY <2>4, SurroundingsKeep DEF IInv
  <2>q. QED BY <2>1, <2>2, <2>3, <2>4 DEF Next
<1>2. ASSUME NEW n \in Names
      PROVE  OnLadder(alert'[n], n \in Repairable) /\ Of(n)!Step
  <2>1. /\ alert[n] \in Incidents /\ OnLadder(alert[n], n \in Repairable)
        /\ Moves(alert[n], alert'[n], n \in Repairable)
    BY <1>1 DEF IInv, TypeOK, Standing, Kept, AllMove
  <2>2. OnLadder(alert'[n], n \in Repairable) BY <2>1, MoveStays
  <2>q. QED BY <2>1, <2>2, MoveClimbs
<1>q. QED BY <1>1, <1>2 DEF IInv, Standing, Kept

LEMMA InitHolds ==
  ASSUME Init
  PROVE  IInv /\ \A n \in Names : Of(n)!Init
<1>1. TypeOK
  <2>1. run \in [Runs -> RunStates] BY IdleType DEF Init
  <2>2. alert \in [Names -> Incidents] BY NoIncidentType DEF Init
  <2>3. breaker \in [Names -> BreakerEntries] BY DEF Init, BreakerEntries
  <2>4. faults \in 0..MaxFaults BY LadderAssumption DEF Init
  <2>q. QED BY <2>1, <2>2, <2>3, <2>4 DEF Init, TypeOK
<1>2. Standing BY DEF Init, Standing, OnLadder, NoIncident
<1>3. ASSUME NEW n \in Names PROVE Of(n)!Init
  BY DEF Init, Of!Init, RungOf, NoIncident
<1>q. QED BY <1>1, <1>2, <1>3 DEF IInv

(* The alerts table, the breaker file and everything the daemon keeps in   *)
(* memory are well typed, whatever runs overlap.                           *)
THEOREM LadderTypeCorrect == Spec => []TypeOK
<1>1. Init => IInv BY InitHolds
<1>2. IInv /\ [Next]_vars => IInv' BY StepKeeps
<1>3. IInv => TypeOK BY DEF IInv
<1>q. QED BY <1>1, <1>2, <1>3, PTL DEF Spec

(* The monitor, the doctor and their restarts implement the abstract       *)
(* incident for every check: one rung at a time, at most one repair() call *)
(* per incident, none for a check without a repair.                        *)
THEOREM LadderRefines == Spec => LadderClimbs
<1>1. Init => IInv /\ \A n \in Names : Of(n)!Init BY InitHolds
<1>2. IInv /\ [Next]_vars => IInv' /\ [\A n \in Names : Of(n)!Step]_vars
  BY StepKeeps
<1>q. QED BY <1>1, <1>2, PTL DEF Spec, LadderClimbs
=============================================================================
