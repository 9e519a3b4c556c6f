----------------------------- MODULE AgentRunner -----------------------------
(* The autonomous agent runner: a job of the daemon that every few hours   *)
(* picks one handler in turn and spawns a detached run of it, benches a    *)
(* handler that keeps failing, and lets K jump the queue when the nightly  *)
(* reliability audit has left a request (jobs/builtin/agent-runner,        *)
(* agent/runner-entry.ts, lib/remediation-request.ts).                     *)
EXTENDS Integers, Sequences, FiniteSets

CONSTANTS
    Order,            \* the rotation, a sequence of handlers
    K,                \* the handler that remediates
    Steady,           \* handlers whose pre-check always lets them run
    Runs,             \* slots for detached runs
    Ids,              \* createdAt of requests
    None,
    BenchAfter,       \* BENCH_AFTER_FAILURES
    BenchRotations,   \* BENCH_ROTATIONS
    MaxAttempts,      \* MAX_ATTEMPTS
    LockStale,        \* LOCK_STALE_MS, in units of time
    SdkMax,           \* the timeout of a handler
    LandMax,          \* the longest auto-land
    Period,           \* between two ticks
    AuditGap,         \* ticks between two nightly audits
    Races,            \* may an audit write between the read and the write
                      \* of a run that clears or refunds its request?
    Faults,           \* kinds of faults allowed
    MaxFaults         \* bound on their number

Handlers == {Order[i] : i \in DOMAIN Order}

ASSUME RunnerAssumption ==
    /\ Order \in Seq(Handlers) /\ Len(Order) > 0
    /\ \A i, j \in DOMAIN Order : Order[i] = Order[j] => i = j
    /\ K \in Handlers /\ Steady \subseteq Handlers
    /\ None \notin Ids /\ None \notin Handlers
    /\ BenchAfter \in Nat \ {0} /\ BenchRotations \in Nat \ {0, 1}
    /\ MaxAttempts \in Nat /\ LockStale \in Nat \ {0}
    /\ SdkMax \in Nat /\ LandMax \in Nat /\ Period \in Nat \ {0}
    /\ AuditGap \in Nat /\ MaxFaults \in Nat
    /\ Races \in BOOLEAN
    /\ Faults \subseteq {"kill", "spawn", "late", "quota", "torn"}

VARIABLES
    cursor,    \* the next position of the rotation
    bench,     \* per handler: rotations left, 0 when expired, NoBench
    rows,      \* per handler: its last runs in the ledger, newest first
    since,     \* per handler: how many of them are newer than its bench
    request,   \* the audit's request file
    lock,      \* for how long the lock still counts as held
    due,       \* time to the next tick
    run,       \* the detached runs
    ticks,     \* ticks since the last audit
    faults

vars == <<cursor, bench, rows, since, request, lock, due, run, ticks, faults>>

N == Len(Order)
NoBench == -1
Last == 1 .. BenchAfter                 \* the rows a streak query reads
Requests == [id : Ids, attempts : 0 .. MaxAttempts]
NoRequest == [id |-> None, attempts |-> 0]

(* left bounds the stay in a phase; was is the request as a refund read it *)
NoRun == [pc |-> "none", h |-> None, req |-> None, left |-> 0, was |-> 0]

TypeOK ==
    /\ cursor \in 0 .. N - 1
    /\ bench \in [Handlers -> NoBench .. BenchRotations]
    /\ rows \in [Handlers -> [Last -> {"none", "ok", "fail", "counted", "forgotten"}]]
    /\ since \in [Handlers -> 0 .. BenchAfter]
    /\ request \in Requests \cup {NoRequest}
    /\ lock \in 0 .. LockStale
    /\ due \in 0 .. Period
    /\ run \in [Runs -> [pc : {"none", "boot", "sdk", "land", "clear",
                               "unlink", "refund", "rewrite"},
                         h : Handlers \cup {None}, req : Ids \cup {None},
                         left : 0 .. SdkMax + LandMax, was : 0 .. MaxAttempts]]
    /\ ticks \in 0 .. AuditGap
    /\ faults \in 0 .. MaxFaults

Init ==
    /\ cursor = 0
    /\ bench = [h \in Handlers |-> NoBench]
    /\ rows = [h \in Handlers |-> [i \in Last |-> "none"]]
    /\ since = [h \in Handlers |-> 0]
    /\ request = NoRequest
    /\ lock = 0 /\ due = Period
    /\ run = [s \in Runs |-> NoRun]
    /\ ticks = 0 /\ faults = 0

Fault(kind) == kind \in Faults /\ faults < MaxFaults /\ faults' = faults + 1

(* A run between the read of the request file and its write.               *)
Writing(s) == run[s].pc \in {"unlink", "rewrite"}
Undisturbed == Races \/ \A s \in Runs : ~Writing(s)

-----------------------------------------------------------------------------
(* The ledger and the benches                                              *)

(* "counted" is a failure that a bench has been made of, "forgotten" one   *)
(* whose bench was lost with its file: to the code the same as "fail".     *)
Failing(row) == row \in {"fail", "counted", "forgotten"}

(* latestRunSucceeded, of the rows after the bench                         *)
Recovered(h) == since[h] > 0 /\ rows[h][1] = "ok"

Benched(h) == bench[h] > 0

(* An expired bench is dropped only when a run after it succeeded.         *)
DroppedOnExpiry(h) == bench[h] = 0    \* mutant
Dropped(h) == bench[h] = 0 /\ Recovered(h)

(* hasFailureStreak; rows at or before the watermark of a bench that is    *)
(* still on file do not count.                                             *)
Streak(h) ==
    /\ \A i \in Last : Failing(rows[h][i])
    /\ bench[h] = NoBench \/ Dropped(h) \/ since[h] = BenchAfter

Strikes(h) == ~Benched(h) /\ Streak(h)

(* What looking at a handler leaves of its bench.                          *)
Looked(h) ==
    IF Strikes(h) THEN BenchRotations
    ELSE IF Dropped(h) THEN NoBench ELSE bench[h]

(* One row per run that was an attempt (deferrals on quota are not).       *)
Record(h, row) ==
    /\ rows' = [rows EXCEPT ![h] =
                   [i \in Last |-> IF i = 1 THEN row ELSE rows[h][i - 1]]]
    /\ since' = [since EXCEPT ![h] = IF @ < BenchAfter THEN @ + 1 ELSE @]

-----------------------------------------------------------------------------
(* The tick of the daemon, in one go                                       *)

At(i) == Order[((cursor + i - 1) % N) + 1]

(* preCheck finds nothing to do for the handlers of idle.                  *)
PassedOver(h, idle) == Benched(h) \/ Strikes(h) \/ h \in idle

(* A tick looks at so many handlers: up to the first not passed over.      *)
LooksAt(idle, steps) ==
    /\ \A i \in 1 .. steps - 1 : PassedOver(At(i), idle)
    /\ steps = N \/ ~PassedOver(At(steps), idle)

CursorPastEnd(steps) == cursor + steps    \* mutant
Wraps(steps) == (cursor + steps) \div N
NextCursor(steps) == (cursor + steps) % N

(* The loop over the rotation: benches move, the cursor goes past all that *)
(* was looked at, and a full turn brings every bench nearer to its end.    *)
Rotate(steps) ==
    LET seen == {At(i) : i \in 1 .. steps}
        bench1 == [h \in Handlers |-> IF h \in seen THEN Looked(h) ELSE bench[h]]
        struck == {h \in seen : Strikes(h)}
    IN /\ bench' = [h \in Handlers |->
                       IF bench1[h] > 0 THEN bench1[h] - Wraps(steps) ELSE bench1[h]]
       /\ rows' = [h \in Handlers |->
                       IF h \in struck THEN [i \in Last |-> "counted"] ELSE rows[h]]
       /\ since' = [h \in Handlers |-> IF h \in struck THEN 0 ELSE since[h]]
       /\ cursor' = NextCursor(steps)

(* spawn, or its failure, which gives the lock back but not the turn       *)
Dispatch(h, req) ==
    \/ /\ \E s \in Runs :
            /\ run[s] = NoRun
            /\ run' = [run EXCEPT ![s] = [pc |-> "boot", h |-> h, req |-> req,
                                          left |-> SdkMax, was |-> 0]]
       /\ lock' = LockStale
       /\ UNCHANGED faults
    \/ Fault("spawn") /\ lock' = 0 /\ UNCHANGED run

(* The cron fires again a period later, or sooner after a late tick.       *)
NextTick(t) == due' = t /\ ticks' = IF ticks < AuditGap THEN ticks + 1 ELSE ticks

TickSkips ==
    /\ due = 0 /\ lock > 0
    /\ NextTick(Period)
    /\ UNCHANGED <<cursor, bench, rows, since, request, lock, run, faults>>

ChargedNothing(r) == r    \* mutant
Charged(r) == [r EXCEPT !.attempts = @ + 1]

(* A request jumps the rotation while K is not benched: K runs with it and *)
(* no other handler loses its turn.                                        *)
TickServesRequest ==
    /\ due = 0 /\ lock = 0 /\ Undisturbed
    /\ request # NoRequest /\ request.attempts < MaxAttempts /\ ~Benched(K)
    /\ request' = Charged(request)
    /\ Dispatch(K, request.id)
    /\ NextTick(Period)
    /\ UNCHANGED <<cursor, bench, rows, since>>

GivenUp == request # NoRequest /\ request.attempts >= MaxAttempts

(* Otherwise the next handler of the rotation; a request that has had all  *)
(* its attempts is dropped on the way.                                     *)
TickRotates ==
    /\ due = 0 /\ lock = 0 /\ Undisturbed
    /\ request = NoRequest \/ GivenUp \/ Benched(K)
    /\ request' = IF GivenUp THEN NoRequest ELSE request
    /\ \E idle \in SUBSET (Handlers \ Steady), steps \in 1 .. N :
          /\ LooksAt(idle, steps)
          /\ Rotate(steps)
          /\ IF PassedOver(At(steps), idle)
             THEN UNCHANGED <<run, lock, faults>>    \* the lock is given back
             ELSE Dispatch(At(steps), None)
    /\ NextTick(Period)

(* readAdaptive of a file that is missing or does not parse: no benches    *)
(* and no watermarks.                                                      *)
Forgets ==
    /\ bench' = [h \in Handlers |-> NoBench]
    /\ rows' = [h \in Handlers |-> [i \in Last |->
                   IF rows[h][i] = "counted" THEN "forgotten" ELSE rows[h][i]]]

(* The daemon dies in a tick, in the write of the cursor or in that of the *)
(* adaptive state, each of which truncates its file first: what the tick   *)
(* found out about the handlers is lost, and the lock stays behind.        *)
TickDies ==
    /\ due = 0 /\ lock = 0 /\ Undisturbed
    /\ Fault("torn")
    /\ \E idle \in SUBSET (Handlers \ Steady), steps \in 0 .. N :
          /\ IF request # NoRequest /\ ~GivenUp /\ ~Benched(K)
             THEN steps = 0 /\ request' = Charged(request)
             ELSE /\ steps > 0 /\ LooksAt(idle, steps)
                  /\ request' = IF GivenUp THEN NoRequest ELSE request
          /\ \/ cursor' = 0 /\ UNCHANGED <<bench, rows>>
             \/ cursor' = NextCursor(steps) /\ Forgets
    /\ lock' = LockStale
    /\ NextTick(Period)
    /\ UNCHANGED <<since, run>>

(* The file is lost between two ticks.                                     *)
StateLost ==
    /\ Fault("torn")
    /\ Forgets
    /\ UNCHANGED <<cursor, since, request, lock, due, run, ticks>>

(* The reliability audit found something to fix.                           *)
Audit ==
    /\ ticks = AuditGap /\ Undisturbed
    /\ \E i \in Ids \ ({request.id} \cup {run[s].req : s \in Runs}) :
          request' = [id |-> i, attempts |-> 0]
    /\ ticks' = 0
    /\ UNCHANGED <<cursor, bench, rows, since, lock, due, run, faults>>

(* REQUEST_TTL_MS has passed and the next audit asked for nothing.         *)
RequestExpires ==
    /\ ticks = AuditGap /\ Undisturbed /\ request # NoRequest
    /\ request' = NoRequest
    /\ ticks' = 0
    /\ UNCHANGED <<cursor, bench, rows, since, lock, due, run, faults>>

-----------------------------------------------------------------------------
(* A detached run.  None of its ends gives the lock back.                  *)

Ends(s) == run' = [run EXCEPT ![s] = NoRun]
Goes(s, pc, left) == run' = [run EXCEPT ![s].pc = pc, ![s].left = left]

(* Too many branches await review: no run, no row.                         *)
RunBacklogged(s) ==
    /\ run[s].pc = "boot" /\ run[s].h = K
    /\ Ends(s)
    /\ UNCHANGED <<cursor, bench, rows, since, request, lock, due, ticks, faults>>

(* A failure before the SDK runs: worktree, MCP servers, digest.           *)
RunCannotStart(s) ==
    /\ run[s].pc = "boot"
    /\ Record(run[s].h, "fail")
    /\ Ends(s)
    /\ UNCHANGED <<cursor, bench, request, lock, due, ticks, faults>>

RunStarts(s) ==
    /\ run[s].pc = "boot"
    /\ Goes(s, "sdk", run[s].left)
    /\ UNCHANGED <<cursor, bench, rows, since, request, lock, due, ticks, faults>>

(* Success.  A did-work claim its verifier rejects counts as a failure of  *)
(* the handler and still consumes the request; a verified one of K may     *)
(* land first.                                                             *)
RunSucceeds(s) ==
    /\ run[s].pc = "sdk"
    /\ \/ Record(run[s].h, "ok") /\ Goes(s, "clear", run[s].left)
       \/ Record(run[s].h, "fail") /\ Goes(s, "clear", run[s].left)
       \/ /\ run[s].h = K
          /\ Record(K, "ok") /\ Goes(s, "land", run[s].left + LandMax)
    /\ UNCHANGED <<cursor, bench, request, lock, due, ticks, faults>>

(* Error or timeout; out of turns or of budget; over the daily cap, where  *)
(* not even a row is written.  The request stays for a retry.              *)
RunFails(s) ==
    /\ run[s].pc = "sdk"
    /\ \/ Record(run[s].h, "fail")
       \/ Record(run[s].h, "ok")
       \/ UNCHANGED <<rows, since>>
    /\ Ends(s)
    /\ UNCHANGED <<cursor, bench, request, lock, due, ticks, faults>>

(* Deferred on quota by the credential chain: the streak looks past its    *)
(* row, and the attempt is given back.                                     *)
RunDeferred(s) ==
    /\ run[s].pc = "sdk"
    /\ Fault("quota")
    /\ Goes(s, "refund", run[s].left)
    /\ UNCHANGED <<cursor, bench, rows, since, request, lock, due, ticks>>

(* autoLand has landed the fix or held it for review.                      *)
RunLanded(s) ==
    /\ run[s].pc = "land"
    /\ Goes(s, "clear", run[s].left)
    /\ UNCHANGED <<cursor, bench, rows, since, request, lock, due, ticks, faults>>

MineOrNewer(s) == run[s].req # None /\ request # NoRequest    \* mutant
Mine(s) == run[s].req # None /\ request.id = run[s].req

(* clearRemediationRequestIf: read, compare, unlink                        *)
RunClears(s) ==
    /\ run[s].pc = "clear"
    /\ IF Mine(s) THEN Goes(s, "unlink", run[s].left) ELSE Ends(s)
    /\ UNCHANGED <<cursor, bench, rows, since, request, lock, due, ticks, faults>>

RunUnlinks(s) ==
    /\ run[s].pc = "unlink"
    /\ request' = NoRequest
    /\ Ends(s)
    /\ UNCHANGED <<cursor, bench, rows, since, lock, due, ticks, faults>>

(* refundRemediationAttempt: read, compare, write                          *)
RunRefunds(s) ==
    /\ run[s].pc = "refund"
    /\ IF Mine(s) /\ request.attempts > 0
       THEN run' = [run EXCEPT ![s].pc = "rewrite", ![s].was = request.attempts]
       ELSE Ends(s)
    /\ UNCHANGED <<cursor, bench, rows, since, request, lock, due, ticks, faults>>

RunRewrites(s) ==
    /\ run[s].pc = "rewrite"
    /\ request' = [id |-> run[s].req, attempts |-> run[s].was - 1]
    /\ Ends(s)
    /\ UNCHANGED <<cursor, bench, rows, since, lock, due, ticks, faults>>

(* Killed, with the host or by itself: no row, no refund, nothing cleared. *)
RunKilled(s) ==
    /\ run[s].pc # "none"
    /\ Fault("kill")
    /\ Ends(s)
    /\ UNCHANGED <<cursor, bench, rows, since, request, lock, due, ticks>>

RunSteps(s) ==
    \/ RunBacklogged(s) \/ RunCannotStart(s) \/ RunStarts(s) \/ RunSucceeds(s)
    \/ RunFails(s) \/ RunDeferred(s) \/ RunLanded(s) \/ RunClears(s)
    \/ RunUnlinks(s) \/ RunRefunds(s) \/ RunRewrites(s)

(* Only the SDK and the checks of a landing take time.                     *)
Lasting(s) == run[s] = NoRun \/ (run[s].pc \in {"sdk", "land"} /\ run[s].left > 0)

TimePasses ==
    /\ due > 0
    /\ \A s \in Runs : Lasting(s)
    /\ due' = due - 1
    /\ lock' = IF lock > 0 THEN lock - 1 ELSE 0
    /\ run' = [s \in Runs |-> IF run[s] = NoRun THEN NoRun
                              ELSE [run[s] EXCEPT !.left = @ - 1]]
    /\ UNCHANGED <<cursor, bench, rows, since, request, ticks, faults>>

(* The last tick was late (the host slept, the daemon was down): cron time *)
(* catches up with it.                                                     *)
CronCatchesUp ==
    /\ Fault("late")
    /\ due = Period
    /\ due' \in 1 .. Period - 1
    /\ UNCHANGED <<cursor, bench, rows, since, request, lock, run, ticks>>

Ticking == TickSkips \/ TickServesRequest \/ TickRotates

Next ==
    \/ Ticking \/ TickDies \/ StateLost \/ Audit \/ RequestExpires \/ TimePasses \/ CronCatchesUp
    \/ \E s \in Runs : RunSteps(s) \/ RunKilled(s)

Spec == Init /\ [][Next]_vars

(* Time passes, the scheduler claims its due crons (CronFires of           *)
(* Scheduler), and every phase of a run ends: the SDK has a timeout, each  *)
(* command of a landing too.                                               *)
Fairness ==
    /\ WF_vars(TimePasses) /\ WF_vars(Ticking)
    /\ \A s \in Runs : WF_vars(RunSteps(s))

FairSpec == Spec /\ Fairness

-----------------------------------------------------------------------------
(* Properties                                                              *)

(* No failure is held against a handler twice while the file that knows of *)
(* it lasts: the strikes of a bench are failures since the last bench or   *)
(* success ("That kills the re-bench-on-stale-failures hazard",            *)
(* agent-runner/index.ts:275), or failures whose bench was lost with the   *)
(* file, which readAdaptive takes for "no bench yet".                      *)
FailureBenchesOnce ==
    [][\A h \in Handlers :
         bench'[h] > bench[h] =>
            \A i \in Last : rows[h][i] \in {"fail", "forgotten"}]_vars

(* "the watermark can never be dropped while the old pre-bench failures    *)
(* are still the newest rows" (agent-runner/index.ts:273-275).             *)
WatermarkKept ==
    [][\A h \in Handlers :
         bench'[h] > bench[h] => \A i \in Last : rows[h][i] = "fail"]_vars

(* A request leaves the file only when a run on it has succeeded, when it  *)
(* has had its attempts, or by the next night; whatever older runs that    *)
(* are still at work clear or give back ("a newer audit's request, written *)
(* while K worked on the old one, survives", remediation-request.ts:61).   *)
RequestHonoured ==
    [][request # NoRequest /\ request'.id # request.id
       => \/ ticks = AuditGap
          \/ request.attempts = MaxAttempts
          \/ \E s \in Runs : run[s].pc = "unlink" /\ run[s].req = request.id]_vars

(* Requests, benches, failing spawns and other handlers cannot keep a      *)
(* handler that always has work out of the rotation ("no other handler     *)
(* loses its turn").                                                       *)
EveryHandlerTurns ==
    \A h \in Steady : []<>(\E s \in Runs : run[s].pc = "boot" /\ run[s].h = h)

(* "long enough that a still-running child is never stomped"               *)
(* (agent-runner/index.ts:48).                                             *)
OneRunAtATime == \A s, t \in Runs : run[s] # NoRun /\ run[t] # NoRun => s = t
=============================================================================
