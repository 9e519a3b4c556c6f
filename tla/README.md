# Robin: verification project

Robin is a single-user assistant: a daemon on the operator's Mac (or VM) that
runs scheduled jobs over one SQLite database, spawns detached worker processes
for the slow LLM work, watches its own health and repairs itself, remembers
what it reads, and lets an agent change its own code. This directory holds
TLA+ modules translated from its source, TLC configurations that model-check
them, and proofs checked by TLAPS.

Everything runs from this directory: `tlc -config X.cfg MCScheduler.tla` (or
`MCIncidents`, `MCCloudMove`, `MCBiographer`, `MCTranscripts`, `MCAgentRunner`,
`MCAutoLand`, `MCBeliefs`; section 2.10 says which), and `tlapm` on
`SchedulerProofs.tla`, `IncidentProofs.tla`, `CloudProofs.tla`,
`TranscriptProofs.tla`, `AgentRunnerProofs.tla`, `AutoLandProofs.tla`,
`BeliefsProofs.tla`, `BiographerProofs.tla`.

## 1. The system

### 1.1 Components, their state and their operations

| component | state it keeps | operations | talks to |
|---|---|---|---|
| jobs table (`kernel/scheduler/claim.ts`, `cron.ts`) | rows `pending / leased / completed / errored` with name, due time, owner, lease end, retry count | claim, complete, recover expired leases, boot sweep, schedule cron | every process, through SQLite |
| scheduler loop (`runner.ts`, `runtime/daemon.ts`) | the claimed row, the handler it awaits, timers | tick, in-process handler with timeout, re-arm, 60 s lease reaper, boot, crash | jobs table, children, alert store |
| detached children (`brain/cognition/detached.ts`, `cognition-runner-entry.ts`) | the row id they were given, renewal and deadline timers | spawn, take the lease over, renew, complete and re-arm, release the lock; fast-fail watch in the daemon | jobs table, lock file, exit events |
| single-flight lock (`agent/single-flight.ts`) | a file `{pid, ts}` | acquire (steal when stale), release (whoever calls) | daemon and children, agent runner |
| transient requeue (`invariants/builtins/jobs-erroring.ts`) | none of its own | re-pend errored rows that look transient | jobs table |
| alert store (`runtime/alert-store.ts`) | incidents: severity, occurrences, deferral, resolution | record, resolve, defer, mark repaired / escalated | health monitor, daemon, children |
| health monitor and repair breaker | failing-tick counters, per-revision failure counts | check all invariants, repair, escalate, notify, force a restart | alert store, invariants, `exit(1)` |
| invariant checks (`kernel/invariants/builtins`) | none | some forty checks, some with a repair | database, file system |
| process lifecycle (`pidfile.ts`, `boot-classification.ts`, `shutdown-stamp.ts`, `host-sleep.ts`, `loop-lag.ts`) | pid file, boot ledger, single-use shutdown stamp | classify a boot, detect sleep and lag | launchd, health monitor |
| agent run (`agent/run-agent.ts`, `runner-entry.ts`) | worktree, transcript, outcome record | run, verify, land or discard | credentials, ledger, git |
| agent rotation and remediation (`agent/handlers`, `lib/remediation-request.ts`) | rotation position, benched jobs, request files | pick, bench, hand over a remediation | single-flight lock, agent run |
| credentials chain (`agent/credentials`) | cooldown per credential | pick, fail over, refresh | agent run |
| auto-land and probation (`agent/auto-land.ts`, `land-probation.ts`) | landed commits under probation | gate, land, roll back | git, alert store |
| integrations (`integrations/_runtime`) | heartbeat rows, key-value state | register, tick with retry, hot-reload, collect garbage | scheduler |
| beliefs and candidates (`brain/memory`) | the `belief.update` rows of `events`, `belief_candidates` | believe, recall, draft, deduplicate, promote, reject, judge, merge topics, replay a correction | sessions over MCP, biographer, dream, `robin beliefs` |
| other memory (`brain/memory`) | events, entities, vectors | ingest, merge entities, recall, migrate | every cognition job |
| session capture (`cognition/capture.ts`, the `claude_code` integration, the SessionEnd hook) | cursor per transcript, cursor of the directory, incognito marks | poll, hook, capture, skip | transcripts of another program, events |
| biographer (`cognition/biographer.ts`) | `biographer_progress`, `biographer.extracted` markers, `claim_failures` | extract, park, resume, draft claims, finalize, retry dead letters | captured events, LLM, candidates |
| other cognition jobs (`brain/cognition`) | digests, recommendations, predictions | dream, embed, recommend | memory, LLM dispatcher |
| LLM dispatcher (`brain/llm`) | circuit state per provider | invoke with failover | providers |
| surfaces (`surfaces/cli`, `http`, `mcp`) | OAuth clients, codes and tokens | commands, hooks, tools | everything above |
| cloud move (`lib/cloud`) | role file of each host, records of moves, operation lock | dry-run, cutover, rollback | launchd, systemd over ssh, both databases |
| libraries (`power-auto`, `publish`, `notes`, ...) | battery policy, pages | switch power state, publish | daemon, file system |

### 1.2 What is hard in it

* **Several processes, one table.** The daemon and any number of detached
  children write the `jobs` table with single autocommit statements. There is
  no transaction around "complete the row, then re-arm its cron", nor around
  the SELECT and the INSERT of the re-arm.
* **Restarts.** launchd restarts the daemon at any time; children survive it,
  and the new daemon must take over what the old one left and nothing else.
* **Leases, locks and deadlines** are three clocks over the same run: the lease
  in the row (wall clock, 5 or 25 minutes), the lock file (wall clock, deadline
  plus 5 minutes), the child's own deadline (a timer that stands still while
  the host sleeps).
* **Events that nobody hears.** An exit event reaches only the daemon that
  spawned the child, and only the first 15 seconds count.
* **Errors inside error handling**: an exception in the loop is logged and
  survived, in a listener it kills the daemon, in `finish()` it leaves the lock.
* **Awaits between a read and a write.** The dream and the reconcile command
  read candidates and heads, wait minutes for an embedder or a judge, and write
  by id; the operator's sessions and the biographer act meanwhile.
* **Upserts in place.** A second write of the same day and topic rewrites a row
  and gives it a new time, so "latest" and "highest id" part.
* **Two machines, one writer.** A move stops one host and starts the other in
  some twenty steps over ssh, each of which may fail with or without effect.
* **An agent in the operator's checkout.** A fix is merged, built and put on
  probation while the operator edits, merges and restarts beside it.

### 1.3 What makes each component correct

* Jobs table and scheduler: a seeded cron is never silenced; every cron fires
  for ever; a restart takes no row from a live child; a row is leased exactly
  while somebody owns it.
* Detached children: at most one run of a job at a time; a run that lost its
  row changes nothing; only the owner writes the outcome.
* Alert store and health monitor: one open incident per key, severity only
  rises while it is open, a repaired check resolves its incident, a breaker
  that has tripped stays open for its revision, a failing repair escalates.
* Agent rotation and remediation: a failure is held against a handler once, every
  handler gets its turn, a request leaves its file only when it has been served.
* Auto-land: what is reported as out is out, the operator's work stays, a build
  the daemon does not survive does not stay.
* Credentials and dispatcher: failover visits every usable entry before it
  gives up; a cooldown ends.
* Beliefs: what the operator rejects stays rejected, every candidate settles, a
  correction that `believe` accepts lands, no row supersedes itself.
* Session capture: a session is stored once per state of its user turns, and
  nothing of a private one.
* Biographer: every captured chunk is extracted or dead-lettered, at least once.
* Process lifecycle: a crash is never classified as an intentional stop.
* Cloud move: at no time are two hosts active, and the active one has everything.

## 2. Modules

| module | models | composes |
|---|---|---|
| `JobsTable` | the `jobs` table and each SQL statement run against it | |
| `Scheduler` | the daemon (boot, loop, reaper, fast-fail watch), the detached children, the lock, faults and time | EXTENDS `JobsTable` |
| `Incident` | what the incident ladder promises about one check (abstract) | |
| `IncidentLadder` | monitor tick, doctor.run, alert store and repair breaker | INSTANCE `Incident` |
| `Writer` | what a move between hosts promises about the right to work (abstract) | |
| `CloudMove` | dry-run, cutover and rollback on two machines that go on living | INSTANCE `Writer` |
| `Transcripts` | session capture by poller and hook, incognito | |
| `Biographer` | extraction of captured sessions, dead letters and their retry | |
| `AgentRunner` | rotation, benches and remediation requests of the agent | |
| `AutoLand` | gate, merge, build and probation of an agent's fix | |
| `BeliefStream` | the belief rows of `events` and what reads and writes them | |
| `Beliefs` | sessions, drafts, the dream's belief steps and reconcile | EXTENDS `BeliefStream` |
| `MC...` | small instances for TLC | EXTENDS its module |
| `...Proofs` | theorems | EXTENDS its module |

In every module, a definition marked `\* mutant` is not part of the model: it
is a plausible bug, kept beside the definition it would replace, that shows
which property notices it.

### 2.1 JobsTable

One variable, `jobs`, a function from row ids to rows; the row `NoRow` is a
free id. Each action is one statement, or one synchronous pair of statements
inside one process. `scheduled_at` and `leased_until` are kept as distances to
the clock (`due`, `lease`) and shrink when it moves, so the state space stays
finite without a bound on the clock. Overdue rows are told apart up to
`MaxLate` minutes; beyond it any of them may be the oldest, which only adds
behaviours. `retry_count` is counted up to the ceiling that `jobs-erroring.ts`
compares it with.

`ClaimNextJob` takes the first due row by time and id; `CompleteJob` is guarded
by the id alone, as in the code; `WriteSchedule` is the second half of
`scheduleCronJob`, whose first half `SeenBySelect` may have run earlier.
`RequeueTransient` puts its rows ahead of the queue: it writes
`datetime('now')`, which sorts before every ISO timestamp of the same day.

### 2.2 Scheduler

`daemon` is one record: `pc` says where its code stands, `idle`, `seed` and
`run` being the awaits at which timers and listeners may run (`Awaiting`). The
re-arm is two steps, `arm` (the SELECT) and `armWrite` (the write), and returns
to `then`: the seeding, the loop, or the await a listener interrupted.
`child[c]` is one record per process: booting, running, in the two halves of
its re-arm, about to release the lock, or dead with an exit the daemon can
still hear (`failed`, and `noexec` for ENOENT). `watched` is the set of
children this daemon listens to; a restart empties it. `fresh[n]` is for how
many more minutes the lock of job n counts as held: it merges "no file" with
"a stale file", which `acquire` treats alike.

| action | code |
|---|---|
| `Boot`, `Sweep`, `SeedNext` | `Daemon.start`: pid file, recovery sweep, `registerCognitionJobs` and the other registrations |
| `ClaimFor(n)`, `StartHandler`, `HandlerEnds`, `Complete`, `ArmSelect`, `ArmWrite` | `Scheduler.tickOnce` |
| `SkipSpawn`, `SpawnChild`, `SpawnThrows` | `spawnCognitionChild`, and the biographer's probe before it |
| `FailSpawn(c)` | `failSpawn`, from the `exit` or the `error` event |
| `Reap` | the 60 s lease reaper |
| `Requeue`, `Prune` | `jobs.not_erroring` repair, `retention.run` |
| `ChildCannotStart`, `ChildTakesOver`, `ChildBeats`, `ChildBeatThrows`, `ChildFinishes`, `ChildArmSelect`, `ChildArmWrite`, `ChildUnlocks` | `runCognitionChild`, `finish`, `writeChildCompletion` |
| `TickThrows`, `SeedThrows`, `ListenerThrows`, `ChildArmThrows` | an exception at a completion or a re-arm, and who catches it |
| `Crash`, `ChildKilled` | the daemon or a child dies |
| `Tick`, `HostSleeps(k)` | a minute passes; the host sleeps for k minutes |

Faults are counted in `faults` and bounded by `MaxFaults`; a configuration
names the kinds it allows in `Faults`: `crash` (daemon), `kill` (child),
`start` (openDb or the schema check fails), `spawn` (spawn throws, or ENOENT),
`busy` (a renewal throws), `torn` (an exception between completion and re-arm),
`sleep` (host sleep), `requeue` (the repair of errored rows).

Abstractions, all of which a reader should know:

* An in-process handler is only its outcome. A missing handler is the same as
  one that throws at once.
* The scheduler is never paused and `network.mode` is not `local-only`; pausing
  only removes claims, and the liveness properties are about a scheduler that
  is allowed to work.
* Every row is a cron row: nothing outside the tests enqueues any other kind.
* Seeding takes the names one by one with an await between them. That is so for
  the integrations; the cognition jobs are seeded in one go, so the model
  allows some interleavings more.
* `retention.run` may prune a terminal row as soon as no process remembers its
  id; the code waits for days.
* A child identity is reused only when no row names it. The code reuses a pid
  whenever the operating system does.
* A minute passes only when nothing that is due is waiting. Code runs in
  milliseconds, timers in minutes.

### 2.3 Incident and IncidentLadder

`Incident` is the abstract specification: the open incident of one check stands
on a rung (`closed`, `open`, `tried`, `escalated`, `needs-human`), climbs one
rung at a time, has at most one `repair()` call, and leaves the ladder only by
being closed. `IncidentLadder` is what the daemon does, and implements it for
every check at once: `Of(n)` maps the columns of the alert row (`resolved_at`,
`repair_attempted_at`, `escalated_at`, `outcome`) to the rung.

The health monitor, the doctor and the alert store live in one event loop, so
the model interleaves only at an await: a check, a repair, the check after a
repair. `loop` names the run that holds the loop between two awaits; `None`
means it is free. `setInterval` starts a tick whether or not the last one has
ended, so `Ticks` may hold more than one; `doctor.run` is a job of the
scheduler, so one doctor at a time. `run[t]` holds the local variables of a run:
where it is (`pc`), the check or report in hand (`at`), what each check said
(`report`) and the build it read (`sha`).

| action | code |
|---|---|
| `Minute`, `StartTick` | `setInterval` of `HealthMonitor.start` |
| `TickChecks`, `CheckHangs`, `CheckSettles` | `runOne`: overlap guard, 5 s timeout, `inFlight` |
| `TickSkips`, `TickCloses`, `TickDefers`, `TickOpens` | the report loop of `tick`: skipped, ok, deferred to a parent, `recordAlert` |
| `TickClimbs`, `RepairReturns`, `RepairThrows`, `TickRechecks`, `TickCounts` | the ladder part of `tick`, split where it awaits |
| `StartDoctor`, `DoctorChecks`, `DoctorClimbs`, `DoctorRechecks`, `DoctorReports` | `runInvariants` with the hooks of `runDoctorInvariants`, and its report loop |
| `Breaks`, `Heals` | the world: a condition fails or holds (`robin doctor --fix` run by hand is one way to heal) |
| `Deploy`, `Restart` | a new `dist/.build-stamp`; the daemon restarts and loses what only memory held |

`alert[n]` is the one open row of key n (the unique index on open rows is a
database constraint), `breaker[n]` its entry of `repair-breaker.json`. Four
things are history that no code reads and no guard tests: `repairs` and `ticks`
of an incident, `row` of a breaker entry (failures since the last repair that
returned), and the reading `"old"` (an `"ok"` taken before the repair of the
present incident was claimed, which every action treats as `"ok"`).

Abstractions:

* Severity (which only ratchets up), observations, acknowledgement, pruning and
  notification are left out; they do not touch the ladder's columns.
* The doctor checks the same names in the same order as the monitor. Checks
  that only the doctor runs are never escalated by the code (the tick alone
  counts), so they are the first two rungs of this model.
* A check is one step. One that the next tick would find in flight is covered
  by `CheckHangs`, which also reports the failure the timeout makes of it. The
  checks of the doctor and those after a repair have no timeout in the code
  and are assumed to end; so are repairs.
* The heartbeat recovery (`exit(1)`) is a `Restart`; what triggers it is not
  modelled. Breaker I/O errors and alert-store exceptions, which the code logs
  and drops, are left out.

### 2.4 Writer and CloudMove

`Writer` says that the right to run Robin's work belongs to one host or to
nobody, and passes from one host to the other only through nobody. `CloudMove`
implements it under `writerNow`, which reads the two role files as `robin cloud
status` does.

`mac` and `vm` are the two machines (role or lock, power state, whether the
service is enabled, loaded, up, and what work is in flight: an in-process job,
a detached child, a Claude Code session); `op` is the running command, `op.pc`
its next step; `notes` are the Mac's records of a move (`rollback`, the control
group of the VM's daemon, whether the VM ever ran). A database is the set of
writes in it and the number of its newest OAuth token, because each tick of an
integration spends the refresh token and stores its successor. `mac.aside` says
that the Mac's database file stands in `pre-rollback-*`: the install of a
rollback renames it there (`MoveAside`) and then the pulled one into its place
(`InstallOnMac`). A command killed in between leaves a Mac without a database, on
which every further rollback stops (`NoMacDb`) until the operator puts the file
back, as the message suggests.

| action | code |
|---|---|
| `DryRunStep`, `CutoverStep`, `RollbackStep`, `UnlockStep` | the step lists of `lib/cloud/migrate.ts`, one disjunct per step |
| `BeginDryRun`, `BeginCutover`, `BeginRollback` | the command with its refusals and `cloud-op.lock` |
| `StepFails`, `Remotely`, `Failed`, `Park`, `ParkStop` | a step throws, before or after its effect on the other host; a cutover that has marked the VM parks it again |
| `MacBoots`, `VmBoots`, `SessionOpens`, `MacStartsWork`, `VmStartsWork` | role gates of `Daemon.start`, `isPaused`, the CLI |
| `Interrupted`, `MacReboots`, `VmReboots`, `MacDaemonDies`, `VmDaemonDies` | faults |
| `StaleLockDeleted`, `StartedByHand`, `VmStartedByHand`, `DbPutBack` | what the messages ask the operator to do |

Abstractions: a remote command that outlives the local process is not
distinguished from one that took effect; preflight, gaps gate, disk and HEAD
checks are plain step failures; there is one host alias; a VM without a copy of
the database does no work; mcp-remote counts with the daemon; the steps that
clear run-time files and move scrubbed secrets, and the verification on the
Mac, are left out. What a parked VM writes, and a token reset the operator
accepts by flag, are losses docs/CLOUD-VM.md announces: the properties except
exactly those (`past.waived`, `accepts`).

### 2.5 Transcripts

Claude Code appends to transcripts (`Write`); the `claude_code` integration polls
their directory (`PollStart`, `PollStat`, `PollRead`, `PollEnd`), the SessionEnd
hook posts one transcript (`SessionEnd`), and both call `captureSession`, which
is synchronous and therefore one operator, `CaptureSession`. `cursor` and
`dirCursor` are the rows the poller keeps, `marked` the `incognito:<id>` rows,
`stored[f][h]` the events of session f by hash of its user turns. A transcript
may be written between the poller's stat and its read. `PollKilled` is a daemon that
stops within a tick, `CursorsWiped` a purge. Ages are counted in ticks and capped
where the code compares them. `consumed` is history: sessions met while incognito.

Incognito is a line of `policies.yaml`, and `policy` is that file as a reader finds it.
Every command that changes a policy truncates the file and writes it whole
(`power.ts:14-18`): `robin incognito` and its `off` with a new value, pause, resume,
offline and online with the one they have read. `Command` is the truncation, `Returns`
the write, `CommandKilled` a death between the two, `Lapses` the passing of
`expires_at`, which writes nothing. A file that is empty or does not parse reads as
"not suspended" (`load.ts:6-19`, `capture.ts:303-310`, the poller's
`index.ts:122-129`), so incognito has a gap while any command rewrites the file, and
ends silently when one is killed there. `private` is history: what the operator has
been told. `NothingWhilePrivate` names the gap as its exception, and `PolicyTold` is
the proof that there is no other. The `power` tool of the MCP
process (`mcp/core/server.ts:1007-1056`) is such a command as well; the rewrite by the
daemon's own power monitor (`monitor.ts:112`) is in the event loop of poller and hook,
so that only a death in it leaves a gap. One command runs at a time: the lost update
of two (one reads before, and writes after, the other's write) is not modelled.

`Asleep` is a Mac that sleeps, or a daemon that is down, for longer than `MaxAge` (48
hours): a session that no tick met in that time is taken for history at its first
tick (`index.ts:205-214`) and never stored, unless the SessionEnd hook brought it in
or it is resumed. `overslept` is history, and the exception of `SessionsStored`.

The hash covers the user's turns only, so a session that grew by assistant
turns alone is a duplicate; that is what the code does and what the model says.

### 2.6 Biographer

`child` is one tick of the detached biographer, cut at every await and every
commit: `Choose` (a parked session first, then the shortest), `Extract` (one
batch of the entity pass), `CloseWindow`, `ClaimsStep` and `Drafted` (the claims
pass), `Defer` (past the deadline or after an outage, the spoken chunks that are
left become dead letters one commit at a time), `Settle`, `Mark`, `Unpark`. `parked` is `biographer_progress`, `marks` the
`biographer.extracted` rows, `letters` is `claim_failures`, `queue` the pending
claim of a body. The retry pass of the dream, another process, is `DrainStart`,
`DrainReply`, `DrainEnd`. An answer of the model is arbitrary: it answers, fails
on that call alone (timeout, bad JSON, schema), or reports a hard outage that
ends the tick. `Kill` and `DrainKilled` end a process between any two steps. A
child may also be spawned `blind`: its dispatcher could not be built
(`cognition-runner-entry.ts:363-373`), so `llm` is null, and it finalizes each session it
selects with an empty result, or with the entities of the progress row
(`biographer.ts:1775-1780`), asking about no chunk and spending no budget. It counts
as a fault. `fate` (what the model last said of a chunk; an outage says nothing of one
that was answered before; `unasked` when a blind child left it), `excused` and
`orphaned` are history.

What a blind child does is the one way in which a session can be finished although
no model was ever asked about it: `NothingSkipped` and `ClaimsAccounted` name it as an
exception, and promise nothing for the chunks it leaves. Their claims are not
dead letters either, so no later tick asks about them.

Abstractions: a session is its sequence of chunk bodies; two sessions may share
one. A capture between two other steps of a tick is equivalent to one after
them, so `Capture` waits for them. The backlog alert, the session summary and
linking, and the `limit` and `claimsBudget` options, which only make a pass
smaller, are left out.

### 2.7 AgentRunner

A tick of the agent job looks along the rotation (`TickRotates`), or serves the
audit's request first (`TickServesRequest`), or finds the lock held (`TickSkips`),
and spawns a detached run, whose life is `RunStarts` to `RunClears`/`RunUnlinks`
or `RunRefunds`/`RunRewrites`. `bench[h]` is the number of rotations a bench has
left, `rows[h]` the last `BenchAfter` outcomes of a handler in the ledger,
`since[h]` how many of them are newer than its bench, `request` the request file.
A run reads that file, compares, and then writes or unlinks it: two steps.
`Races` says whether an audit may write in between.

Abstractions: recording a run and stamping it is one step; the rotation counter
is kept as rotations left; pre-checks of handlers that are not `Steady` are
nondeterministic; `agent.enabled` is on; the request's time to live is "by the
next nightly audit" (`ticks` = `AuditGap`); a landing is one phase of at most
`LandMax` (AutoLand has its inside). Late ticks, kills, failing spawns, quota
deferrals and torn files are faults.

Benches and watermarks live in a file that each tick truncates and writes
(`index.ts:139-143`), and a file that is missing or does not parse reads as "no
benches" (`readAdaptive`, 124-137). `TickDies` is a daemon killed in that write, or in
the write of the cursor before it: no run, the lock left behind, the request charged,
and the benches gone (`Forgets`) or the cursor back at 0. `StateLost` is a file lost
at another time. Failures whose bench is forgotten count again: rows "counted" become
"forgotten", and `FailureBenchesOnce` promises nothing for those.

### 2.8 AutoLand

A tree is the set of changes it holds. `main`, `work`, `merging`, `torn` are the
operator's checkout (committed, uncommitted, in an unconcluded merge, in a
conflicting revert), `dist` the tree of the last build, `daemon` the code it runs
and its age. `pc[f]` is where the landing of fix f stands: the gate in its
worktree (`GateReads`, `SuitePasses`, `GateHolds`), `Merge`/`MergeFails`,
`RevParse`, `Build`, `Unmerge`, `Rebuild`, and in the detached shell `Restart`,
`Look`, `LookAgain`, `Undo`, `UndoBuilds`, `Bounce`. Beside it the operator edits,
commits, merges, builds and restarts, launchd relaunches a daemon that exits
(`DaemonLoops`, `DaemonSettles`), a cutover locks the Mac, the host reboots.

Abstractions: which static gate rule refuses is a nondeterministic hold; the
checkout stays on main; one landing at a time (AgentRunner says when that may
fail); staged edits that make git refuse are its `git` fault; a daemon that
crashes after its first minute counts as settled; tsc emits what it rejects, so a
failed build may leave `dist` equal to the tree; the window between a cutover's
preflight and its lock is ignored; macOS and launchd only. With `Races` the
operator may commit between the merge and the `rev-parse HEAD` that records it.

### 2.9 BeliefStream and Beliefs

`BeliefStream` has the rows and the pure readers and writers: `Believe`
(canonical topic, cross-slug gate, supersession, and the gate on development
artifacts: a claim about Robin itself, in `Machinery`, is `Blocked` and nothing is
written, unless the call takes something back), `Ingested` (the upsert by
`external_id`: a second write of the day rewrites the row and gives it a new
time), and three different readings of "the head": `Recalled` (`recallBelief`),
`CurrentHead` (`belief-reconcile.ts`: latest row that is no retraction, exact
slug) and `LoadedHeads` (`topic-hygiene.ts`: highest id).

`Beliefs` adds the processes. Each pass is one record `pass[j]`, `pc` saying
where it awaits and the other fields what it has read.

| action | code |
|---|---|
| `OperatorBelieves`, `OperatorPromotes`, `OperatorRejects`, `OperatorCorrects` | the MCP tools |
| `DraftInserts`, `DraftMerges` | `insertCandidateWithDedup` of the biographer |
| `NightBegins`, `Collapse`, `NoEmbedder` | expiry, then `dedupePendingCandidates` around its await |
| `NearMerge`, `Settle` | `promoteStableCandidates`: the pre-pass, then one candidate |
| `Judged`, `Unjudged`, `ApplyVerdict` | `judgeAgainstHeads` and `applyVerdict`, for the dream and for reconcile |
| `CliReads`, `CliEnds` | `robin beliefs reconcile --apply --include-expired` |
| `TopicsRead`, `MergeTopics`, `TopicsEnd` | `runTopicHygiene` around its judge |
| `Retract`, `Assert`, `MarkApplied`, `NightEnds` | `applyCorrections`, its three writes: retraction, assertion (none for a blank text, and none when `believe` refuses), mark |
| `Skips` | one of these writes throws: the replay goes on with the next correction |
| `Dies(j)` | a pass is killed, possibly between a belief and the candidate's row |
| `NextDay` | midnight: the date in every `external_id` changes |

`refused` is history: whether the operator rejected a candidate before any pass
had read it (`"in time"`) or while one held it (`"late"`).

Abstractions: verdicts, cosines and similarity are arbitrary or relations given
as constants; provenance `external` stands for the promotion gates other than the
one on claims about Robin (`Machinery`); no two writes share a time, and ties of corroboration and confidence are broken
arbitrarily; a `believe` call (its read and its upsert) is one step, and so is
the resolution of a candidate by the operator; midnight never falls within a
dream, and the UTC date of hygiene and the local date of `believe` are the same;
pairs that hygiene has already judged distinct may be judged again; an
operator's belief has provenance `unknown`; freshness, which only flags, and the
one-time canonicalize and degate sweeps are left out.

### 2.10 Runs

| run | module | instance | shows | states |
|---|---|---|---|---|
| `two_faults` | `MCScheduler` | 1 detached job, 4 rows, 2 daemon pids, 2 children, two of crash, kill, spawn, busy, torn | `OwnedRows`, `RunsUnderLock`, `SingleFlight`, `ZombieTouchesNothing`, `RestartSparesChildren` | 840 000 |
| `two_jobs_live` | `MCScheduler` | a detached and an in-process job, no faults | `CronFires` | 70 000 |
| `recovers` | `MCScheduler` | 1 detached job, 3 rows, 2 daemon pids, 2 children, one of crash, kill, start, spawn, sleep, requeue | `NeverSilenced`, `CronRuns` | 430 000 |
| `overlapping_runs` | `MCIncidents` | one check, two ticks, one doctor, one restart or hanging check | `LadderClimbs`, `StuckReachesHuman`, `HealedIsClosed` | 280 000 |
| `symptom_surfaces` | `MCIncidents` | a parent and its symptom, one tick, two builds, one restart, deploy or hanging check | `FailureSurfaces` | 530 000 |
| `cloud_moves` | `MCCloudMove` | 2 locks, 2 writes, 2 faults | `OneWorker`, `NothingLost`, `TokenFresh`, `UnlockedIsReady`, `WriterMoves`, `WriterReturns` | 890 000 |
| `transcripts` | `MCTranscripts` | 2 sessions, 2 rewrites of the policies, 1 fault | `StoredOnce`, `CursorHonest`, `NothingWhilePrivate`, `MarkedNeverStored`, `SessionsStored` | 3 230 000 |
| `extraction` | `MCBiographer` | 2 sessions that share a body, 1 fault (a blind child is one) | `NothingSkipped`, `EntitiesKept`, `ClaimsAccounted`, `MarkedOnce`, `EverySessionExtracted`, `LettersDrain` | 1 270 000 |
| `rotation` | `MCAgentRunner` | 2 handlers, 2 runs, 3 requests, 1 fault | `FailureBenchesOnce`, `RequestHonoured`, `EveryHandlerTurns` | 1 260 000 |
| `landing` | `MCAutoLand` | 2 fixes, 2 edits, 1 restart or move by others, 1 fault | `HeldMeansOut`, `OperatorsWorkKept`, `GoodFixStays`, `BadLandUndone` | 930 000 |
| `beliefs` | `MCBeliefs` | 2 candidates, a slug and its negation, 4 claims of which one about Robin, 3 inputs, 1 death or failing write | `RejectionStands`, `NeverItself`, `CandidatesSettle`, `CorrectionLands` | 750 000 |
| `believed_not_recalled` | `MCBeliefs` | the same, and a session that retracts | `BelievedIsRecalled` fails | |

The type invariants of all modules are proved (section 3) and not run, except where
a configuration names one; they are stated in each module and can be added to any.
The exact property lists are in the configurations.


### 2.11 Bounds and fairness

**Scheduler and ladder.** Two children are the least that can overlap, and two daemon pids
the least with which a predecessor can be told from the new daemon. Four rows
(three where liveness is checked) hold one live row, a second pending one and
the terminal rows processes still know; pruning makes room for more. Times keep the order of the code's constants: the daemon's lease (2
minutes) outlasts the handler timeout (1); the child's lease (1) is renewed
every minute; deadline (1) and slack (2) make the lock outlive the slowest boot
plus the run; a host sleep of 2 minutes outlasts a lease. Two faults suffice
for a fault during the recovery from another one. Symmetry is used among
children and among pids, and only where no liveness is checked. `two_faults`
leaves out `sleep` and `requeue`, which do break `SingleFlight`
(`overlap_after_sleep`; a requeued row may be claimed by a second run, which the
repair's comment accepts), and `start`: together with a second fault, the exit
of a child that fails to start late, when its row has been re-pended and another
child spawned for it, ends that row and releases the other run's lock. `NeverSilenced` is checked with those faults in `recovers`.

For the ladder, two checks in the dependency order of `buildInvariants` are the
least in which one failure explains another; two ticks and a doctor are the
least with which a run overlaps another of its kind and one of the other kind.
The thresholds (10 ticks, 24 h, 6 h) become 2 or 3 ticks, more than 0 minutes
and more than 1 minute: what matters is that each is passed after something
else may happen, and the counters stop at the threshold they are compared
with. The breaker keeps its threshold of 2.

**Cloud.** Two locks are two attempts to move, the second after an abandoned
first; two writes tell a copy taken before from one taken after a change; two
faults are a failure while recovering from another. `two_at_work` needs one of
each.

**Transcripts.** One change (`chat`) and two (`resumed`, a session resumed after
it was captured) tell a first capture from a later one; two commands switch
incognito on and off again, or on and then rewrite the file; one fault is a sleep, a
killed command, a failing capture, a crash or a purge; `Cap` 1 makes a poll stop before its last file;
`MaxAge` is passed, and `Rescan` before it.

**Biographer.** `Budget` 2 against a session of two chunks and one of one; with
`Batch` 1 the entity pass has an await between two chunks; `ClaimCap` 1 is hit
by the longer session; two attempts make a letter exhausted; `PerPass` 1 leaves
letters for the next pass. `claims_orphaned` has `ClaimCap` 2, so that the cap
does not excuse the loss.

**AgentRunner.** Two failures bench a handler for two rotations, the least that
differ from one; a third request is the one that replaces another. `SdkMax` +
`LandMax` + 1 may exceed `LockStale`, `Period` is not smaller, so runs overlap
only when a tick is late, as with the real constants. `AuditGap` exceeds
`MaxAttempts`: with an audit after every tick and a handler that always
declines, requests alone would fill the rotation. `stomped` has the code's own
numbers in quarters of an hour.

**AutoLand.** `fix1` breaks the daemon at its start; `fix2` does not build
together with `edit2`, and breaks the daemon together with `edit1`; `edit1`
shares a file with both fixes. So each of the gate, the build and the probation
is the first to notice something, and the probation can be broken by a change
made after the gate. One event by others and one fault at a time.

**Beliefs.** A topic and its negated slug are the least with which the
canonical topic differs from the given one; one similar and one unrelated claim
make a duplicate, a refinement and a contradiction; one draft is external, so
the promotion gate refuses something. Age 0 promotes, age 1 expires; one
judgement per run leaves a candidate for the next night. Three inputs are drafts
for both candidates and one act of the operator. One amendment is one that
`believe` accepts; the other is about Robin, is refused by the gate and only takes
back what was believed, the path a blank text takes as well (`CorrectionLands` says
what each leaves behind). The one fault is the death of a pass or a write of the
replay that throws. In this run only the replay retracts; the
other configurations of `MCBeliefs` have a session that does.

**Fairness.** In `Scheduler`, the event loop eventually runs what is ready, launchd restarts a
dead daemon (`KeepAlive`), a live child makes progress, the clock moves: weak
fairness of each action. Claims are strongly fair per name: the queue is
ordered by time, a row that stays pending becomes the oldest, while another
due row may at any one moment be first. `Prune` is fair because
`retention.run` is itself a cron; without it the bounded table would fill up.
No fairness is assumed of faults.

In `IncidentLadder` every run's steps, the minute and the start of a due tick
are strongly fair: a run that is ready is held up, again and again but never
for good, by another one that holds the event loop (`loop`), and Node serves
every ready callback before long. A check that hangs settles some day (weak
fairness of `CheckSettles`); without that its incident stays open, as the
overlap guard intends. Nothing is assumed of how often the doctor runs, of
whether repairs help, throw or do nothing, of faults, or of `Breaks` and
`Heals`: the liveness properties are conditional on a check failing, or
holding, for good.

In `CloudMove` the command goes on (each ssh call has a timeout), daemons boot
where they are allowed to, jobs and children end everywhere, sessions end on a
locked Mac (the cutover waits for that), and the operator does what the
messages ask: deletes a stale lock, starts the service, puts back a database
that a killed install left aside (without that, no re-run brings Robin back),
and repeats `robin cloud rollback --accept-token-reset` whenever it is refused. Nothing is assumed of the
operator beginning a move. In `Biographer` it is enough that the job and the dream
keep running, which is `CronRuns` of `Scheduler`, and that each of their awaits ends.
In `Transcripts` that is not enough, because the poller gives a session only 48 hours:
between faults the tick comes every few minutes of the clock (`Tick` does not let a
second one fall due before the first has run), and a stretch without ticks is the
fault `Asleep`. In `AgentRunner` time
passes, due ticks run, every phase of a run ends; nothing is assumed of audits
or of outcomes. In `AutoLand` every command of a landing ends and launchd keeps
the daemon alive; the operator owes nothing. `BadLandUndone` excepts a reboot
under the detached shell (verdict `lost`: nothing takes the probation up again),
and counts it as told when the restart inside the undo throws
(`land-probation.ts:77`; verdict `unreported`): the merge is reverted by then,
the report is not written. In `Beliefs` midnight comes and the dream runs on; the
operator owes nothing.

### 2.12 What the violations show

Only `believed_not_recalled` is in the list of runs. The other configurations
that follow are kept for a reader to run (`-continue` where several properties
are given); each asks for something a comment or a document says, or that one
would expect, and each is about a hazard the properties above hold apart.

* `believed_not_recalled`: `recallBelief` looks the canonical slug up first, and
  `believe` keeps a claim under its own slug exactly when the canonical one
  holds something dissimilar. So the row just written is the one recall does not
  return. `README.md:105` and the comment at `belief.ts:343` say that it does.
* `silenced_by_torn_rearm`: a completion and its re-arm are two statements. If
  the second throws, the loop logs it and goes on (`daemon.ts` runLoop), or the
  child exits (`finish`), and no row of that cron is left. `README.md:93` and
  `docs/ARCHITECTURE.md:126` say a transient error cannot silence a schedule.
  Only a restart of the daemon seeds the cron again.
* `two_pending_rows`: the SELECT and the INSERT of `scheduleCronJob` are not one
  transaction, and both a child and a booting daemon run it. `cron.ts:61`
  promises "at most one pending row per name".
* `overlap_after_sleep`: the lock goes stale by wall clock, the lease expires
  by wall clock, and the child that slept with the host still runs, until its
  next renewal beat. `detached.ts:113` says a running child is never stomped.
* `completed_under_child`: a child is slow to boot, the daemon restarts, its
  sweep re-pends the row, the tick claims it and skips because the lock is
  fresh; in between the child takes the (again leased) row over, and the tick
  completes it. `runner.ts:75` says the child owns the completion.
* `benched_again`: the daemon dies while it writes the adaptive state, and at the next
  tick three failures that had already benched a handler bench it again.
  `agent-runner/index.ts:273-275` says that "the watermark can never be dropped while
  the old pre-bench failures are still the newest rows"; it reasons about the entry
  being deleted, not about the file.
* `tripped_in_a_row`: a repair that throws, one that returns, one that throws:
  nothing resets the entry in between, although `repair-breaker.ts:31` says
  "2 consecutive failures" and line 79 "in a row". The breaker then stays
  tripped until the next build.
* `escalated_early`: when the repair fixes the check within the tick, the count
  is deleted at `health-monitor.ts:491` and set to 1 again by line 502 of the
  same iteration. The comment above the delete says what it is there to
  prevent: a later incident inherits the count, here of one tick per flap.
* `credited_by_old_green`: the doctor reads a check as ok; the check breaks; a
  tick opens the incident and starts its repair; the doctor, done with its
  other checks, closes that incident on its old reading, and `resolveAlert`
  credits the repair, which has not ended, with the outcome `repaired`. The
  next tick opens a new incident, with a repair attempt of its own.
* `two_at_work`: a cutover fails after the VM has begun to work and parks it
  again; rollback unlocks the Mac, whose daemon starts while a detached child of
  the stopped VM daemon still runs. `docs/CLOUD-VM.md:118` says that at no point
  do both daemons run against their own copy: the daemons do not, their children
  may.
* `newer_request_lost`: a run reads the request file, compares, and then unlinks
  it; an audit that writes in between loses its request.
  `remediation-request.ts:61` says that a newer request is left alone.
* `stomped`: SDK timeout and landing together exceed the age at which the lock
  is stale; one late tick is enough for a second run beside the first
  (`agent-runner/index.ts:48`).
* `claims_orphaned`: an outage in the entity pass returns before the claims pass
  of the chunks already extracted, and the next tick starts behind them
  (`biographer.ts:1863`).
* `private_then_stored`: the poller advances its cursor over a session met while
  incognito and leaves no mark, so a SessionEnd hook that comes later, with
  incognito off, stores all of it.
* `landing_disputed`: `LockedLandsNothing` (the gate of `runner-entry.ts:494` is
  read before a suite that takes minutes; a move may lock the Mac meanwhile),
  `OperatorsMergeKept` (`git merge --abort` after a failed merge ends a merge the
  operator has in progress, `auto-land.ts:12`), `KeptMeansOut` (a `rev-parse`
  that throws after the merge is reported as "kept for review",
  `runner-entry.ts:505`), `BadLandSeen` (when the restart of the shell fails, the
  old daemon is looked at and found healthy, `land-probation.ts:4`).
* `wrong_commit`: the commit to revert is read from HEAD after the merge
  (`auto-land.ts:1346`); one the operator makes in between is reverted instead.
* `race_not_skipped`: a candidate rejected while the judge is thinking is
  overwritten by the verdict; `dream.ts:1139` says such a race is skipped.
* `merged_away`: hygiene reads the heads, waits for its judge, and retires a
  topic whose target the operator has retracted meanwhile.
* `corrected_comes_back`: a correction once replayed is a belief like another; a
  candidate of weaker provenance under the negated slug supersedes it. And
  `apply-corrections.ts:10` would "never leave a topic headless"; words that
  `believe` refuses (`belief.ts:218`), or blank ones, leave the retraction as the
  head, and the correction is marked applied all the same (`NeverHeadless`).

## 3. Proofs

Each `...Proofs` module holds one induction: `Init => IInv`, one lemma per action
(`<Action>Keeps`, or `<Action>Step`) that it keeps `IInv`, and the properties
from `IInv` or from one more look at the step. All hold for every value of the
constants that satisfies the module's assumption.

`SchedulerProofs` proves, for every value of the constants (any number of jobs,
rows, pids, children and faults, any periods and deadlines) that satisfies
`TableAssumption` and `SchedulerAssumption`:

* `TypeCorrect`: `Spec => []TypeOK`, with every fault allowed.
* `CronsNeverSilenced`: if `torn` is not among the faults,
  `Spec => []NeverSilenced`.

The inductive invariant is

    IInv == TypeOK /\ DaemonRefs /\ ChildRefs /\ Lasting

`NeverSilenced` is not inductive by itself: a completion must be known to end a
row *of the name the process then owes*. `DaemonRefs` says so of the daemon
(the row it holds exists and bears `rowName`; a re-arm has a name), `ChildRefs`
of the children, including those already dead whose exit is still to be heard.
`Lasting` is `NeverSilenced` unless torn re-arms are allowed, so that one
induction serves both theorems. The argument has three layers:

1. one lemma per SQL statement: it keeps the table's type, makes no row vanish
   or change its name (`RowsKept`), and ends no pending or leased row outside a
   named set (`AliveKept(X)`);
2. one lemma per action: `X` is empty, or it holds one row and the process that
   ended it owes that row's name from then on (`DaemonOwes`, `ChildOwes`);
3. temporal steps by PTL.

The proof shows why each re-arm is there: dropping the one of `failSpawn`, of
`tickOnce` or of the child breaks layer 2, and TLC shows the cron that dies
(the mutants `FailSpawnOnly`, `CompleteOnly`, `ChildArmSkipped`).

On top of it, in sections 4 and 5 of the module, two more inductions.

*Who owns a row*: `RowsAreOwned`, `RestartsSpareChildren` and
`ZombiesTouchNothing`, under every fault, from

    Owned == LeasedIffOwned /\ OwnsItsRow

One lemma says what any statement of the table may do to one row (`Statement`:
lease it, finish it if it is owned, re-pend it and so on); it follows that no
statement makes a child the owner of a row it was not spawned for, and that a
re-pend of an owned row is a reaped lease, a boot of the owner's own pid or the
failed spawn of a child that never ran. `OwnsItsRow` is the strengthening:
`OwnedRows` speaks of running children only, but a child gets to run from states
in which it already has a row.

*The lock of the detached children*: `RunningUnderLock` and `OneFlight`, assuming

    Prompt == StartMax < Slack /\ "sleep" \notin Faults
              /\ "start" \notin Faults /\ "requeue" \notin Faults

which `two_faults.cfg` satisfies, with crashes, kills, failed spawns, a busy
database and torn re-arms. The invariant is

    LockInv == LockLasts /\ Sole /\ Ended /\ InHand /\ Listening

`LockLasts` is the arithmetic behind the stale window of `detached.ts`: whoever
was spawned under a lock that is still his (`Holder`) has less left to do than
the lock has to live. `Sole` says that two such children have different jobs and
that a daemon about to release a lock has no rival, `Ended` that a child releases
only after it has ended its row, `InHand` and `Listening` that until then nobody
else can take the row, so that the exit listener of a dead child releases the
lock at most in the child's stead. Each exclusion is needed:

* `sleep`: the wall clock ages the lock while the child's timer stands still;
  `overlap_after_sleep.cfg` shows the two children.
* `start`: a child whose start fails releases the lock and leaves its row leased;
  when the daemon that watches it hears of the exit, it may release the lock a
  second time, and that can be the lock of another child of the same job if a
  second pending row let it be spawned.
* `requeue`: an errored row of a child that is still leaving is re-pended, and the
  next child of the job is spawned before the first one's listener has spoken.
* `StartMax < Slack`: the time to boot comes out of the slack of the lock.

`IncidentProofs` proves, from `LadderAssumption` alone (any set of checks, any
dependencies, any number of ticks and doctors that overlap, any thresholds):

* `LadderTypeCorrect`: `Spec => []TypeOK`.
* `LadderRefines`: `Spec => LadderClimbs`, that is, for every check the abstract
  `Incident` is implemented: initial states map to initial states, and every
  step of the system maps to one step of the incident or to a stutter.

The inductive invariant is `IInv == TypeOK /\ Standing`. `Standing` says how the
columns of a row may combine (an escalated row was attempted, an attempted one
belongs to a check with a repair, a row not attempted has no repair call);
without it a row could be on two rungs at once and an update of one column
would skip a rung. `Moves` lists the six things any action does to a row. One
lemma per action shows that every row makes one of these moves, `MoveStays`
that a move keeps `Standing`, `MoveClimbs` that it is a step of `Incident`.
Nothing about the order of the awaits, nor about a tick and a doctor excluding
each other, is needed: the guard that counts is the `WHERE repair_attempted_at
IS NULL` of one UPDATE, as the comment above `markRepairAttempted` says.

`CloudProofs` proves `TypeCorrect`, `OneWorkerAtATime`, `UnlockedReady`,
`WriterHandover` (the refinement of `Writer`), `NothingIsLost` and
`TokensAreFresh` for any number of attempts, writes and faults. The first four
follow from

    IInv == TypeOK /\ Roles(mac, vm) /\ Fit(op.pc, mac, vm)

`Roles` is about the hosts alone: an unlocked Mac is ready and the VM is not
primary. It is not inductive, because the two role files are written by
different steps: `Fit` says for each step of a command what the steps before it
have secured (the Mac locked, the VM held) and what no boot, reboot or death may
undo meanwhile. A failed step leaves the command where nothing needs to be
secured; only `Park` must be reached with the Mac still locked.

The last two need to know where the data is while nobody may work:

    DataInv == Tokens /\ DataPlace /\ TokenPlace /\ Secured /\ Carrying

`DataPlace`: the VM has every write that counts and the newest token while it is
primary or a rollback is bringing them home, and the Mac is idle then; at any
other time the Mac has every write; one of the two always has the newest token.
`TokenPlace`: as long as no VM daemon has run in this move (`vmRan`), the token
of the Mac is still the newest and no job of the VM can rotate it, which is what
lets `unlock` give the Mac back without a pull. `Secured` and `Carrying` say,
step by step, what the command has made sure of (whose daemon is down, whose jobs
are drained) and what the file it carries holds. `DataInv` was checked by TLC
on the bounds of `cloud_moves` before it was proved. Each action that moves data,
roles or notes has a lemma of its own (`<Action>Data`); the others are `Calm`, and
one lemma covers them.

`TranscriptProofs` proves `TypeCorrect`, `EachStoredOnce`, `CursorsHonest`,
`PrivateStoresNothing`, `MarkedStaysOut` and `PolicyTold`, for any number of sessions,
commands and faults. The invariant is the types with `CursorHonest`; the heart is one lemma
on what `CaptureSession` leaves behind, cited by the poller's and the hook's
actions alike, and one on the poll's last step, where the cursor of the
directory may only pass what was consumed. `PrivateStoresNothing` needs `Policied` in
addition: the file says what the operator was told unless a command has it truncated,
and then it says nothing.

`AgentRunnerProofs` proves `RunnerTypeCorrect`, `StrikesCountOnce` and, for
`Races = FALSE`, `RequestsHonoured`, from

    IInv == TypeOK /\ RunsFit /\ CountedBehind /\ WritersAgree

`CountedBehind`: a failure already held against a handler lies behind the
watermark of its bench or behind a success, which is why it is not counted
again. When the state file is lost there is no watermark to lie behind; the rows it
stood for are from then on "forgotten", not "counted", and the theorem excepts them. `WritersAgree`: a run about to write to the request file has read what is
in it, or the file is gone; two such runs have read the same. With `Races` it is
false, and so is the property (`newer_request_lost`).

`AutoLandProofs` proves, for `Races = FALSE`, `LandTypeCorrect`, `HeldIsOut` and
`EditsStay` from

    IInv == TypeOK /\ OneLanding /\ Recorded /\ OutOfMain /\ OutOfDist

`Recorded` says that the commit on record is the merge of the fix as long as a
step may revert it; `OutOfMain` and `OutOfDist` that a fix is in neither place
before its merge and after it was taken out. `OutOfDist` needs the order of the
steps: a reverted fix is out of `dist` only once the rebuild has ended.

`GoodFixesStay` (the probation takes out no fix whose daemon comes up) has the
further hypothesis `MaxOthers <= 1`: with two restarts by others, one just before
each look, TLC finds a good fix reverted, and the comment at
`land-probation.ts:40` promises to absorb one. Its invariant adds to `IInv`
`Standing` (the build on trial is still all on disk, so a later build contains
it), `Disturbed` (a locked Mac or a daemon restarted just before a look has cost
the one event) and `Doubted` (a first look that failed without that event has
seen code that does not boot, and no later tree can boot either). The attempt
showed one thing the model left out: a daemon that was down could keep code of
hours ago, although `KeepAlive` (`install.ts:53`) relaunches it within seconds and
the looks come after 150 and 60 s; `Waited` now says that it runs what `dist`
holds.

`BeliefsProofs` proves `BeliefsTypeCorrect`, `RejectionIsFinal` and
`NoSelfSupersession` for any topics, claims, similarities, verdicts and ages, and
any number of candidates and rows. Its `IInv` has four parts: rows link only to
rows there are, and never to themselves (`RowsFit`); candidates and passes have
their types and point at rows and candidates there are (`CandsFit`,
`PassesFit`); and `Final`: no pass holds, nor will read, a candidate the operator
rejected in time. `Final` is what makes the property inductive: a pass writes by
id without looking at the status again, so all that protects the rejection is
that the pass cannot have the id. The latest row of a topic is a CHOOSE; that it
exists is proved once (`Greatest`, by well-foundedness of the naturals, for a set
of times bounded by the length of the stream).

`BiographerProofs` proves `TypeCorrect`, `MarkedOnceHolds`, `NothingIsSkipped`,
`EntitiesAreKept` and `ClaimsAreAccounted` for any sessions, texts, budgets and
number of faults. Four inductions stand on one:

    Shape == TypeOK /\ Window /\ Cursors /\ Resumed

`Shape` ties the position of the child in its window to the progress row it read
and to the text: nothing behind the cursor is asked about again, and a resumed
child starts where the row says. On it rest

* `TornMarks`: a session with a progress row that is not being removed has been
  marked at most once per fault so far, which is why a resumption may mark it
  again without exceeding `1 + faults`;
* `AllBehindAnswered`: what lies behind the child, and not only behind a stored
  cursor, has been answered (or left by a blind child), since the child's position
  is what `Settle` stores;
* `Kept == RowKeeps /\ ChildKeeps /\ GraphKeeps /\ DoneKeeps`: the entities of
  an answered chunk are at every moment in the row, in the child or in the graph;
  the four parts are the four places they pass through;
* `Accounted`: a spoken chunk the claims pass has gone past is drafted, a dead
  letter, excused or orphaned. The steps of `Defer` keep it one chunk at a time; a
  blind child has no claims pass, and gives its chunks up when it writes the marker.

The proof of `NothingIsSkipped` changed the model: with two faults a chunk could
be answered, asked about again after a kill and recorded as "outage"; what became
of a chunk is now its best answer, not its last.

**Only model-checked**: every safety invariant and action property of the runs is
proved; what is left is liveness under fairness, which is out of the prover's
reach: `CronFires`, `CronRuns`, `WriterReturns`, `StuckReachesHuman`,
`HealedIsClosed`, `FailureSurfaces`, `SessionsStored`, `EverySessionExtracted`,
`LettersDrain`, `EveryHandlerTurns`, `BadLandUndone`, `CandidatesSettle`,
`CorrectionLands`.

## 4. Plan

Done: `JobsTable` and `Scheduler`; `Incident` and `IncidentLadder`; `Writer` and
`CloudMove`; `Transcripts`; `Biographer`; `AgentRunner`; `AutoLand`; `BeliefStream`
and `Beliefs`; each with its proofs.

Next, in this order:

1. `RowLease`, the abstract promise of the table (a row has at most one owner, who
   may lose it and then may not finish it), refined by `Scheduler`.
2. `Credentials` and `Dispatcher`: failover with cooldowns and circuits.
3. `BootClass`: shutdown stamp and boot classification across crashes; the
   heartbeat recovery of the health monitor with its sleep detection.
4. `TransientRequeue`: the retry ceiling of `jobs-erroring.ts`.
5. `OAuthStore`; `HotReload` of integrations; the dream's other steps.

## 5. Not modelled

Read-only code (recall ranking, invariant checks, digests), pure I/O
(integrations' clients, publishing, notification, launchd), parsing (YAML,
cron expressions, the command line), prompts and the laboratory. PROJECT.json
lists every component with the reason.
