------------------------------ MODULE Scheduler ------------------------------
(***************************************************************************)
(* The daemon's scheduler loop, its lease reaper and boot sequence, and    *)
(* the detached cognition children it spawns, over the shared jobs table.  *)
(*                                                                         *)
(* Processes: ONE daemon at a time (the pidfile check of daemon.ts), whose *)
(* JavaScript runs to the next await without interleaving with itself, and *)
(* any number of children, each a process of its own that outlives the     *)
(* daemon.  Between two statements of one process the others may run.      *)
(***************************************************************************)
EXTENDS JobsTable, FiniteSets

CONSTANTS
    Detached,         \* the names in COGNITION_CHILD_JOBS
    Gated,            \* detached names with a nothing-to-do probe: biographer.run
    HandlerTimeout,   \* HANDLER_TIMEOUT_MS
    Deadline,         \* [Names -> minutes]: deadlineMs of a detached job
    Slack,            \* the 5 minutes staleMs adds to a deadline
    StartMax,         \* bound: minutes between a spawn and the lease takeover
    SleepJumps,       \* bound: how many minutes a host sleep may skip
    Faults,           \* the kinds of fault this instance allows
    MaxFaults         \* bound: how many faults happen in one behaviour

FaultKinds == {"crash", "kill", "start", "spawn", "busy", "torn", "sleep", "requeue"}

ASSUME SchedulerAssumption ==
    /\ Detached \subseteq Names /\ Gated \subseteq Detached
    /\ HandlerTimeout \in Nat \ {0}
    /\ Deadline \in [Names -> Nat \ {0}]
    /\ Slack \in Nat \ {0} /\ StartMax \in Nat \ {0}
    /\ SleepJumps \subseteq Nat \ {0}
    /\ Faults \subseteq FaultKinds /\ MaxFaults \in Nat

VARIABLES
    daemon,   \* the daemon process
    child,    \* [Children -> record]: the detached processes
    watched,  \* children whose 'exit' and 'error' events this daemon hears
    fresh,    \* [Names -> minutes]: 0 when cognition-<job>.lock is absent or stale
    faults    \* faults so far

vars == <<jobs, daemon, child, watched, fresh, faults>>

(* daemon.pc: where the loop stands.  "idle" and "run" are awaits; "arm"   *)
(* and "armWrite" are the two halves of scheduleCronJob for daemon.name,   *)
(* after which the code continues at daemon.then.                          *)
DaemonState ==
    [pc : {"down", "sweep", "seed", "idle", "handle", "run", "complete",
           "arm", "armWrite"},
     pid : Workers \cup {None},
     row : Ids \cup {None},              \* the claimed row, with its name
     rowName : Names \cup {None},
     outcome : {"completed", "errored"},
     left : Int,                         \* minutes left of the handler timeout
     todo : SUBSET Names,                \* names the boot has not seeded yet
     name : Names \cup {None},
     seen : Ids \cup {None},
     then : {"seed", "idle", "run"},
     unlock : BOOLEAN,                   \* failSpawn: release the lock at the end
     reap : BOOLEAN]                     \* the 60 s reaper timer has fired

Down == [pc |-> "down", pid |-> None, row |-> None, rowName |-> None,
         outcome |-> "completed", left |-> NoTime, todo |-> {}, name |-> None,
         seen |-> None, then |-> "idle", unlock |-> FALSE, reap |-> FALSE]

(* child.st: "boot" before the lease takeover, "run" after it, "arm" and   *)
(* "armWrite" inside the re-arm, "unlock" before release(); "failed" is an *)
(* exit the daemon can still hear, "noexec" an ENOENT it can still hear.   *)
ChildState ==
    [st : {"free", "boot", "run", "arm", "armWrite", "unlock", "failed", "noexec"},
     row : Ids \cup {None},
     name : Names \cup {None},
     left : Int,                         \* minutes to StartMax or the deadline
     beat : BOOLEAN,                     \* the 60 s renewal timer has fired
     young : BOOLEAN,                    \* still inside FAST_FAIL_WINDOW_MS
     outcome : {"completed", "errored"}, \* what finish() was called with
     seen : Ids \cup {None}]

Free == [st |-> "free", row |-> None, name |-> None, left |-> NoTime,
         beat |-> FALSE, young |-> FALSE, outcome |-> "completed", seen |-> None]

TypeOK ==
    /\ TableTypeOK
    /\ daemon \in DaemonState
    /\ child \in [Children -> ChildState]
    /\ watched \subseteq Children
    /\ fresh \in [Names -> Nat]
    /\ faults \in 0..MaxFaults

Init ==
    /\ TableInit
    /\ daemon = Down
    /\ child = [c \in Children |-> Free]
    /\ watched = {}
    /\ fresh = [n \in Names |-> 0]
    /\ faults = 0

-----------------------------------------------------------------------------

StaleTooEarly(n) == Deadline[n]             \* mutant: no slack
StaleWrongSign(n) == Deadline[n] - Slack    \* mutant: the slack shortens it
StaleAfter(n) == Deadline[n] + Slack        \* staleMs of detached.ts

Fault(kind) == kind \in Faults /\ faults < MaxFaults /\ faults' = faults + 1
NoFault == UNCHANGED faults

Up == daemon.pc # "down"
(* The daemon is at an await: its timers and event listeners may run.      *)
Awaiting == daemon.pc \in {"seed", "idle", "run"}

Running(c) == child[c].st = "run"
Rearming(c) == child[c].st \in {"arm", "armWrite", "unlock"}

FailedExit(p) == [Free EXCEPT !.st = "failed", !.row = p.row, !.name = p.name,
                              !.young = TRUE]

(* A child process ends with a nonzero code.  Only an exit inside the      *)
(* fast-fail window, heard by the daemon that spawned it, has a follow-up. *)
ExitsNonzero(c) ==
    IF c \in watched /\ child[c].young
    THEN /\ child' = [child EXCEPT ![c] = FailedExit(@)]
         /\ UNCHANGED watched
    ELSE /\ child' = [child EXCEPT ![c] = Free]
         /\ watched' = watched \ {c}

ExitsZero(c) ==
    /\ child' = [child EXCEPT ![c] = Free]
    /\ watched' = watched \ {c}

Exits(c, outcome) ==
    IF outcome = "completed" THEN ExitsZero(c) ELSE ExitsNonzero(c)

(* A child identity no live process and no row uses.                       *)
FreshChild(c) == child[c] = Free /\ \A r \in Ids : ~OwnedBy(r, c)

-----------------------------------------------------------------------------
(* daemon.ts start(): migrate, sweep dead leases, seed every cron.         *)

Boot ==
    /\ daemon.pc = "down"
    /\ \E w \in Workers : daemon' = [Down EXCEPT !.pc = "sweep", !.pid = w]
    /\ UNCHANGED <<jobs, child, watched, fresh, faults>>

Sweep ==
    /\ daemon.pc = "sweep"
    /\ RecoverAtBoot(daemon.pid)
    /\ daemon' = [daemon EXCEPT !.pc = "seed", !.todo = Names]
    /\ UNCHANGED <<child, watched, fresh, faults>>

SeedNext ==
    /\ daemon.pc = "seed"
    /\ IF daemon.todo = {}
       THEN daemon' = [daemon EXCEPT !.pc = "idle"]
       ELSE \E n \in daemon.todo :
              daemon' = [daemon EXCEPT !.pc = "arm", !.todo = @ \ {n},
                                       !.name = n, !.then = "seed"]
    /\ UNCHANGED <<jobs, child, watched, fresh, faults>>

(* The process dies wherever it stands.  Its children survive it, and what *)
(* their exits would have told it is lost.                                 *)
Dies ==
    /\ daemon' = Down
    /\ watched' = {}
    /\ child' = [c \in Children |->
                   IF child[c].st \in {"failed", "noexec"} THEN Free ELSE child[c]]

Crash == Up /\ Fault("crash") /\ Dies /\ UNCHANGED <<jobs, fresh>>

-----------------------------------------------------------------------------
(* runner.ts tickOnce                                                      *)

(* Bound: no claim while every child identity is in use.                   *)
ClaimFor(n) ==
    /\ daemon.pc = "idle"
    /\ \E c \in Children : FreshChild(c)
    /\ \E r \in Ids :
         /\ jobs[r].name = n
         /\ ClaimNextJob(r, daemon.pid)
         /\ daemon' = [daemon EXCEPT !.pc = "handle", !.row = r, !.rowName = n]
    /\ UNCHANGED <<child, watched, fresh, faults>>

Claim == \E n \in Names : ClaimFor(n)

Settles(outcome) == daemon' = [daemon EXCEPT !.pc = "complete", !.outcome = outcome,
                                             !.left = NoTime]

(* An in-process handler: it runs at an await, and ends or is abandoned    *)
(* by withTimeout.                                                         *)
StartHandler ==
    /\ daemon.pc = "handle" /\ daemon.rowName \notin Detached
    /\ daemon' = [daemon EXCEPT !.pc = "run", !.left = HandlerTimeout]
    /\ UNCHANGED <<jobs, child, watched, fresh, faults>>

HandlerEnds ==
    /\ daemon.pc = "run"
    /\ \/ daemon.left > 0 /\ Settles("completed")
       \/ Settles("errored")
    /\ UNCHANGED <<jobs, child, watched, fresh, faults>>

(* spawnCognitionChild: the lock is fresh, or the probe found no work.     *)
SkipSpawn ==
    /\ daemon.pc = "handle" /\ daemon.rowName \in Detached
    /\ fresh[daemon.rowName] > 0 \/ daemon.rowName \in Gated
    /\ Settles("completed")
    /\ UNCHANGED <<jobs, child, watched, fresh, faults>>

AcquiresAlways(n) ==        \* mutant: steals a fresh lock too
    fresh' = [fresh EXCEPT ![n] = StaleAfter(n)]
Acquires(n) == fresh[n] = 0 /\ fresh' = [fresh EXCEPT ![n] = StaleAfter(n)]
Releases(n) == fresh' = [fresh EXCEPT ![n] = 0]

Spawned(c, st, minutes) ==
    /\ FreshChild(c)
    /\ child' = [child EXCEPT ![c] =
          [Free EXCEPT !.st = st, !.row = daemon.row, !.name = daemon.rowName,
                       !.left = minutes, !.young = TRUE]]
    /\ watched' = watched \cup {c}
    /\ daemon' = [daemon EXCEPT !.pc = "idle", !.row = None, !.rowName = None]

SpawnChild ==
    /\ daemon.pc = "handle" /\ daemon.rowName \in Detached
    /\ Acquires(daemon.rowName)
    /\ \E c \in Children :
         \/ Spawned(c, "boot", StartMax) /\ NoFault
         \/ Spawned(c, "noexec", NoTime) /\ Fault("spawn")
    /\ UNCHANGED jobs

(* spawn() itself throws: the lock just taken is released again.           *)
SpawnThrows ==
    /\ daemon.pc = "handle" /\ daemon.rowName \in Detached
    /\ fresh[daemon.rowName] = 0
    /\ Settles("errored")
    /\ Fault("spawn")
    /\ UNCHANGED <<jobs, child, watched, fresh>>

CompleteOnly ==             \* mutant: tickOnce returns before the re-arm
    /\ daemon.pc = "complete"
    /\ CompleteJob(daemon.row, daemon.outcome)
    /\ daemon' = [Down EXCEPT !.pc = "idle", !.pid = daemon.pid, !.reap = daemon.reap]
    /\ UNCHANGED <<child, watched, fresh, faults>>
Complete ==
    /\ daemon.pc = "complete"
    /\ CompleteJob(daemon.row, daemon.outcome)
    /\ daemon' = [daemon EXCEPT !.pc = "arm", !.name = daemon.rowName,
                                !.then = "idle", !.row = None, !.rowName = None,
                                !.outcome = "completed"]
    /\ UNCHANGED <<child, watched, fresh, faults>>

ArmSelect ==
    /\ daemon.pc = "arm"
    /\ \E s \in SeenBySelect(daemon.name) :
         daemon' = [daemon EXCEPT !.pc = "armWrite", !.seen = s]
    /\ UNCHANGED <<jobs, child, watched, fresh, faults>>

Resumes == daemon' = [daemon EXCEPT !.pc = daemon.then, !.then = "idle",
                                    !.name = None, !.seen = None, !.unlock = FALSE]

ArmWrite ==
    /\ daemon.pc = "armWrite"
    /\ WriteSchedule(daemon.name, daemon.seen)
    /\ IF daemon.unlock THEN Releases(daemon.name) ELSE UNCHANGED fresh
    /\ Resumes
    /\ UNCHANGED <<child, watched, faults>>

(* A statement throws (SQLITE_BUSY after busy_timeout).  In a tick it      *)
(* ends the tick: runLoop backs off and goes on.  In the seeding it ends   *)
(* the seeding.  In a listener nobody catches it, and the daemon dies.     *)
TickThrows ==
    /\ daemon.pc \in {"complete", "arm", "armWrite"}
    /\ ~daemon.unlock /\ daemon.then = "idle"
    /\ Fault("torn")
    /\ daemon' = [Down EXCEPT !.pc = "idle", !.pid = daemon.pid,
                              !.todo = daemon.todo, !.reap = daemon.reap]
    /\ UNCHANGED <<jobs, child, watched, fresh>>

SeedThrows ==
    /\ daemon.pc \in {"arm", "armWrite"}
    /\ ~daemon.unlock /\ daemon.then = "seed"
    /\ Fault("torn")
    /\ daemon' = [Down EXCEPT !.pc = "idle", !.pid = daemon.pid, !.reap = daemon.reap,
                              !.todo = daemon.todo \cup {daemon.name}]
    /\ UNCHANGED <<jobs, child, watched, fresh>>

ListenerThrows ==
    /\ daemon.pc \in {"arm", "armWrite"} /\ daemon.unlock
    /\ Fault("torn")
    /\ Dies
    /\ UNCHANGED <<jobs, fresh>>

Reap ==
    /\ Awaiting /\ daemon.reap
    /\ RecoverExpiredLeases
    /\ daemon' = [daemon EXCEPT !.reap = FALSE]
    /\ UNCHANGED <<child, watched, fresh, faults>>

(* detached.ts: the 'exit' (nonzero, young) or 'error' event of a child.   *)
FailSpawnOnly(c) ==         \* mutant: the watch completes without a re-arm
    /\ Awaiting /\ c \in watched /\ child[c].st \in {"failed", "noexec"}
    /\ IF Leased(child[c].row) THEN CompleteJob(child[c].row, "errored")
                               ELSE UNCHANGED jobs
    /\ Releases(child[c].name)
    /\ ExitsZero(c)
    /\ UNCHANGED <<daemon, faults>>
FailSpawn(c) ==
    /\ Awaiting /\ c \in watched /\ child[c].st \in {"failed", "noexec"}
    /\ IF Leased(child[c].row)
       THEN /\ CompleteJob(child[c].row, "errored")
            /\ daemon' = [daemon EXCEPT !.pc = "arm", !.name = child[c].name,
                                        !.then = daemon.pc, !.unlock = TRUE]
       ELSE UNCHANGED <<jobs, daemon>>
    /\ ExitsZero(c)
    /\ UNCHANGED <<fresh, faults>>

(* The health monitor (or doctor.run) repairs jobs.not_erroring.           *)
Requeue ==
    /\ Awaiting /\ Fault("requeue")
    /\ \E S \in SUBSET {r \in Ids : Requeueable(r)} :
         S # {} /\ RequeueTransient(S)
    /\ UNCHANGED <<daemon, child, watched, fresh>>

(* retention.run: terminal rows several days old, far older than any       *)
(* process that still knows their id.                                      *)
Referenced(r) ==
    \/ r \in {daemon.row, daemon.seen}
    \/ \E c \in Children : r \in {child[c].row, child[c].seen}

Prunable == {r \in Ids : Terminal(r) /\ ~Referenced(r)}

Prune ==
    /\ Prunable # {}
    /\ PruneTerminal(Prunable)
    /\ UNCHANGED <<daemon, child, watched, fresh, faults>>

-----------------------------------------------------------------------------
(* cognition-runner-entry.ts                                               *)

(* openDb fails or the schema is behind: release, exit 2.                  *)
ChildCannotStart(c) ==
    /\ child[c].st = "boot" /\ Fault("start")
    /\ Releases(child[c].name)
    /\ ExitsNonzero(c)
    /\ UNCHANGED <<jobs, daemon>>

ChildTakesOver(c) ==
    /\ child[c].st = "boot"
    /\ IF TakeOverAllowed(child[c].row, child[c].name)
       THEN /\ TakeOverLease(child[c].row, c)
            /\ child' = [child EXCEPT ![c].st = "run",
                                      ![c].left = Deadline[child[c].name]]
            /\ UNCHANGED <<watched, fresh>>
       ELSE /\ Releases(child[c].name)
            /\ ExitsNonzero(c)
            /\ UNCHANGED jobs
    /\ UNCHANGED <<daemon, faults>>

(* The 60 s renewal beat: renew, or exit on a lost lease.                  *)
ChildBeats(c) ==
    /\ Running(c) /\ child[c].beat
    /\ IF OwnedBy(child[c].row, c)
       THEN /\ RenewChildLease(child[c].row, c)
            /\ child' = [child EXCEPT ![c].beat = FALSE]
            /\ UNCHANGED watched
       ELSE ExitsNonzero(c) /\ UNCHANGED jobs
    /\ UNCHANGED <<daemon, fresh, faults>>

(* The renewal throws: skip this beat.                                     *)
ChildBeatThrows(c) ==
    /\ Running(c) /\ child[c].beat /\ Fault("busy")
    /\ child' = [child EXCEPT ![c].beat = FALSE]
    /\ UNCHANGED <<jobs, daemon, watched, fresh>>

(* finish(): the run ended, threw, hit its deadline or got SIGTERM.  The   *)
(* lock is released only after a completion that was really written.       *)
ChildFinishesBlindly(c, outcome) ==     \* mutant: WHERE id = ? only
    /\ Running(c)
    /\ outcome = "completed" => child[c].left > 0
    /\ CompleteJob(child[c].row, outcome)
    /\ child' = [child EXCEPT ![c].st = "arm", ![c].beat = FALSE,
                              ![c].left = NoTime, ![c].outcome = outcome]
    /\ UNCHANGED <<daemon, watched, fresh, faults>>
ChildFinishes(c, outcome) ==
    /\ Running(c)
    /\ outcome = "completed" => child[c].left > 0
    /\ IF OwnedBy(child[c].row, c)
       THEN /\ CompleteJob(child[c].row, outcome)
            /\ child' = [child EXCEPT ![c].st = "arm", ![c].beat = FALSE,
                                      ![c].left = NoTime, ![c].outcome = outcome]
            /\ UNCHANGED watched
       ELSE Exits(c, outcome) /\ UNCHANGED jobs
    /\ UNCHANGED <<daemon, fresh, faults>>

ChildArmSelect(c) ==
    /\ child[c].st = "arm"
    /\ \E s \in SeenBySelect(child[c].name) :
         child' = [child EXCEPT ![c].st = "armWrite", ![c].seen = s]
    /\ UNCHANGED <<jobs, daemon, watched, fresh, faults>>

ChildArmSkipped(c) ==       \* mutant: the child does not re-arm its cron
    /\ child[c].st = "armWrite"
    /\ child' = [child EXCEPT ![c].st = "unlock", ![c].seen = None]
    /\ UNCHANGED <<jobs, daemon, watched, fresh, faults>>
ChildArmWrite(c) ==
    /\ child[c].st = "armWrite"
    /\ WriteSchedule(child[c].name, child[c].seen)
    /\ child' = [child EXCEPT ![c].st = "unlock", ![c].seen = None]
    /\ UNCHANGED <<daemon, watched, fresh, faults>>

ChildUnlocks(c) ==
    /\ child[c].st = "unlock"
    /\ Releases(child[c].name)
    /\ Exits(c, child[c].outcome)
    /\ UNCHANGED <<jobs, daemon, faults>>

(* The re-arm throws inside finish(): `wrote` stays false, so the lock is  *)
(* kept; or the process is killed between the two writes.                  *)
ChildArmThrows(c) ==
    /\ child[c].st \in {"arm", "armWrite"} /\ Fault("torn")
    /\ Exits(c, child[c].outcome)
    /\ UNCHANGED <<jobs, daemon, fresh>>

(* SIGKILL, or the host losing power, anywhere but between those writes.   *)
ChildKilled(c) ==
    /\ child[c].st \in {"boot", "run", "unlock"} /\ Fault("kill")
    /\ ExitsNonzero(c)
    /\ UNCHANGED <<jobs, daemon, fresh>>

-----------------------------------------------------------------------------
(* Time.  A minute passes only when no timer is overdue and no process is  *)
(* between two statements.                                                 *)

DaemonRests ==
    /\ daemon.pc \in {"down", "idle", "run"}
    /\ daemon.pc = "run" => daemon.left > 0
    /\ ~daemon.reap

ChildRests(c) ==
    /\ ~Rearming(c) /\ ~child[c].beat /\ child[c].st # "noexec"
    /\ child[c].st \in {"boot", "run"} => child[c].left > 0

Minus1(x) == IF x > 0 THEN x - 1 ELSE 0

ChildAges(c) ==
    CASE child[c].st = "run" ->
           [child[c] EXCEPT !.left = Minus1(@), !.beat = TRUE, !.young = FALSE]
      [] child[c].st = "boot" ->
           [child[c] EXCEPT !.left = Minus1(@), !.young = FALSE]
      [] OTHER -> Free

NeverHeard(c) == child[c].st \in {"free", "failed"}

LockKept == UNCHANGED fresh         \* mutant: an abandoned lock never goes stale
LockAges == fresh' = [n \in Names |-> Minus1(fresh[n])]

Tick ==
    /\ DaemonRests /\ \A c \in Children : ChildRests(c)
    /\ TableAges(1)
    /\ LockAges
    /\ daemon' = [daemon EXCEPT !.left = Minus1(@), !.reap = Up]
    /\ child' = [c \in Children |-> ChildAges(c)]
    /\ watched' = {c \in watched : ~NeverHeard(c)}
    /\ UNCHANGED faults

(* The host sleeps: the wall clock jumps, the processes' timers do not.    *)
HostSleeps(k) ==
    /\ Fault("sleep")
    /\ TableAges(k)
    /\ fresh' = [n \in Names |-> Later(fresh[n], k, 0)]
    /\ child' = [c \in Children |->
                   IF child[c].st = "failed" THEN Free
                   ELSE [child[c] EXCEPT !.young = FALSE]]
    /\ watched' = {c \in watched : ~NeverHeard(c)}
    /\ UNCHANGED daemon

-----------------------------------------------------------------------------

DaemonStep ==
    \/ Boot \/ Sweep \/ SeedNext \/ Claim \/ StartHandler \/ HandlerEnds
    \/ SkipSpawn \/ SpawnChild \/ Complete \/ ArmSelect \/ ArmWrite \/ Reap
    \/ \E c \in Children : FailSpawn(c)

ChildStep(c) ==
    \/ ChildTakesOver(c) \/ ChildBeats(c)
    \/ \E outcome \in {"completed", "errored"} : ChildFinishes(c, outcome)
    \/ ChildArmSelect(c) \/ ChildArmWrite(c) \/ ChildUnlocks(c)

Environment ==
    \/ Crash \/ SpawnThrows \/ TickThrows \/ SeedThrows \/ ListenerThrows
    \/ Requeue \/ Prune
    \/ \E c \in Children : \/ ChildCannotStart(c) \/ ChildBeatThrows(c)
                           \/ ChildArmThrows(c) \/ ChildKilled(c)
    \/ \E k \in SleepJumps : HostSleeps(k)

Next == DaemonStep \/ (\E c \in Children : ChildStep(c)) \/ Environment \/ Tick

Spec == Init /\ [][Next]_vars

(* launchd restarts a dead daemon (KeepAlive); the event loop eventually   *)
(* runs every ready timer, listener and await; a child that is scheduled   *)
(* makes progress; the clock moves.  Claims are strongly fair per name:    *)
(* ORDER BY scheduled_at reaches the oldest due row, whatever comes after. *)
Fairness ==
    /\ WF_vars(Boot) /\ WF_vars(Sweep) /\ WF_vars(SeedNext)
    /\ \A n \in Names : SF_vars(ClaimFor(n))
    /\ WF_vars(StartHandler) /\ WF_vars(HandlerEnds)
    /\ WF_vars(SkipSpawn) /\ WF_vars(SpawnChild) /\ WF_vars(Complete)
    /\ WF_vars(ArmSelect) /\ WF_vars(ArmWrite) /\ WF_vars(Reap)
    /\ WF_vars(Prune) /\ WF_vars(Tick)
    /\ \A c \in Children : WF_vars(FailSpawn(c)) /\ WF_vars(ChildStep(c))

FairSpec == Spec /\ Fairness

-----------------------------------------------------------------------------
(* Properties                                                              *)

Alive(r, n) == jobs[r].name = n /\ jobs[r].st \in {"pending", "leased"}

(* Between a completion and the end of its re-arm the process still owes   *)
(* the name a row; once it has seen a pending one the debt is that row's.  *)
DaemonOwes(n) ==
    /\ daemon.name = n
    /\ \/ daemon.pc = "arm"
       \/ daemon.pc = "armWrite" /\ daemon.seen = None
ChildOwes(c, n) ==
    /\ child[c].name = n
    /\ \/ child[c].st = "arm"
       \/ child[c].st = "armWrite" /\ child[c].seen = None

Armed(n) ==
    \/ \E r \in Ids : Alive(r, n)
    \/ DaemonOwes(n)
    \/ \E c \in Children : ChildOwes(c, n)

Seeded(n) == Up /\ daemon.pc # "sweep" /\ n \notin daemon.todo

(* Once the boot has seeded a cron, the cron is never silenced: a pending  *)
(* or leased row of that name exists, or a process is about to write one.  *)
(* cron.ts rescheduleCronAfterCompletion, runner.ts, detached.ts failSpawn *)
(* and writeChildCompletion all have to cooperate for this to hold.        *)
NeverSilenced == \A n \in Names : Seeded(n) => Armed(n)

(* A row is leased exactly while it names an owner, and a live child owns  *)
(* no row but the one it was spawned for (takeOverLease, completeJob,      *)
(* recoverExpiredLeases).                                                  *)
OwnedRows ==
    \A r \in Ids :
        /\ Leased(r) <=> jobs[r].owner # None
        /\ \A c \in Children :
             OwnedBy(r, c) /\ Running(c) =>
               child[c].row = r /\ child[c].name = jobs[r].name

(* A child whose row was taken from it leaves table and lock alone on the  *)
(* way out: the new owner's row and lock survive (writeChildCompletion,    *)
(* shouldReleaseLockOnFinish, renewalBeat).                                *)
ZombieTouchesNothing ==
    [][\A c \in Children :
         Running(c) /\ ~OwnedBy(child[c].row, c) /\ child'[c].st # "run"
         => UNCHANGED <<jobs, fresh>>]_vars

(* A row that a live child holds is re-pended only after its lease ran     *)
(* out: restarting the daemon (recoverDeadWorkerLeases) never takes it.    *)
RestartSparesChildren ==
    [][\A r \in Ids : \A c \in Children :
         Running(c) /\ OwnedBy(r, c) /\ jobs'[r].st = "pending" => Expired(r)]_vars

(* While the host stays awake and children manage to start, a child that   *)
(* owns its row runs under a fresh single-flight lock, so no second run of *)
(* the job can start (detached.ts: staleMs = deadline + 5 min).            *)
RunsUnderLock ==
    \A c \in Children :
        Running(c) /\ OwnedBy(child[c].row, c) => fresh[child[c].name] > 0

(* No two children run the same job at once.                               *)
SingleFlight ==
    \A c, d \in Children :
        (Running(c) /\ Running(d) /\ child[c].name = child[d].name) => c = d

(* "at most one pending row per name" (cron.ts:61).                        *)
OnePendingPerName == \A n \in Names : Cardinality(PendingOf(n)) <= 1

(* Only the child that owns a row writes the outcome of its run: nobody    *)
(* marks the row finished while the work is still going on (runner.ts:72). *)
OnlyOwnerCompletes ==
    [][\A r \in Ids : \A c \in Children :
         Running(c) /\ OwnedBy(r, c) /\ jobs'[r].st \in {"completed", "errored"}
         => child'[c].st = "arm"]_vars

(* Every cron is claimed again and again.                                  *)
CronFires ==
    \A n \in Names : []<>(daemon.pc = "handle" /\ daemon.rowName = n)

(* A detached job without a probe really runs again and again: an          *)
(* abandoned lock is stolen, an abandoned row is reaped.                   *)
CronRuns ==
    \A n \in Detached \ Gated :
        []<>(\E c \in Children : Running(c) /\ child[c].name = n)
=============================================================================
