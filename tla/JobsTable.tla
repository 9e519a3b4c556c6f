------------------------------ MODULE JobsTable ------------------------------
(***************************************************************************)
(* The `jobs` table of robin.sqlite (system/brain/memory/migrations/       *)
(* 001-initial.ts) and the SQL statements the scheduler, the detached      *)
(* cognition children and the jobs.not_erroring invariant run against it.  *)
(* Every action below is ONE statement (or one synchronous pair of them),  *)
(* atomic under SQLite's single-writer rule; the modules that compose this *)
(* one decide which process runs which statement, and when.                *)
(*                                                                         *)
(* Time is counted in minutes.  The absolute columns scheduled_at and      *)
(* leased_until are kept as the distance to the wall clock: `due` and      *)
(* `lease` shrink as the clock advances, so `scheduled_at <= now` reads    *)
(* due <= 0 and `leased_until < now` reads lease < 0.                      *)
(***************************************************************************)
EXTENDS Integers

CONSTANTS
    Names,          \* job names: 'dream.run', 'embedder.run', ...
    Ids,            \* row ids (bound: rows that exist at the same time)
    Workers,        \* scheduler worker ids, daemon-<pid>
    Children,       \* detached cognition children, child:<pid>
    None,           \* SQL NULL
    DaemonLease,    \* LEASE_MS of daemon.ts
    ChildLease,     \* LEASE_MS of cognition-runner-entry.ts
    Period,         \* [Names -> minutes]: the longest gap between two fires
    MaxLate,        \* bound: how far overdue a pending row is still told apart
    RetryCeiling    \* retry_count < 5 in jobs-erroring.ts; larger counts are equal

ASSUME TableAssumption ==
    /\ Ids \subseteq Nat
    /\ DaemonLease \in Nat \ {0}
    /\ ChildLease \in Nat \ {0}
    /\ Period \in [Names -> Nat \ {0}]
    /\ MaxLate \in Nat
    /\ RetryCeiling \in Nat
    /\ None \notin Names \cup Ids \cup Workers \cup Children
    /\ Workers \cap Children = {}

VARIABLE jobs

Owners == Workers \cup Children

NoTime == 0     \* a distance to the clock nobody reads: a NULL lease

(* A row id that holds no row.                                             *)
NoRow == [st |-> "none", name |-> None, due |-> NoTime, owner |-> None,
          lease |-> NoTime, retries |-> 0]

Row == [st : {"none", "pending", "leased", "completed", "errored"},
        name : Names \cup {None},
        due : Int,
        owner : Owners \cup {None},
        lease : Int,
        retries : 0..RetryCeiling]

TableTypeOK == jobs \in [Ids -> Row]

TableInit == jobs = [r \in Ids |-> NoRow]

-----------------------------------------------------------------------------

Pending(r) == jobs[r].st = "pending"
Leased(r) == jobs[r].st = "leased"
Terminal(r) == jobs[r].st \in {"completed", "errored"}
PendingOf(n) == {r \in Ids : Pending(r) /\ jobs[r].name = n}
FreeIds == {r \in Ids : jobs[r].st = "none"}

OneMore(retries) == IF retries < RetryCeiling THEN retries + 1 ELSE retries

(* What a claim, a completion and a lease recovery leave in a row.         *)
(* scheduled_at survives a claim, so a re-pended row is overdue at once.   *)
LeasedTo(row, w, minutes) ==
    [row EXCEPT !.st = "leased", !.owner = w, !.lease = minutes]
Finished(row, outcome) ==
    [row EXCEPT !.st = outcome, !.owner = None, !.lease = NoTime, !.due = NoTime]
RependedKeepsOwner(row) ==      \* mutant: claimed_by is not cleared
    [row EXCEPT !.st = "pending", !.lease = NoTime, !.retries = OneMore(@)]
Repended(row) ==
    [row EXCEPT !.st = "pending", !.owner = None, !.lease = NoTime,
                !.retries = OneMore(@)]

-----------------------------------------------------------------------------
(* claim.ts                                                                *)

(* The row ORDER BY scheduled_at, id LIMIT 1 picks among the due ones.     *)
(* Rows that are MaxLate overdue are no longer told apart: any of them may *)
(* be the oldest.                                                          *)
Claimable(r) ==
    /\ Pending(r) /\ jobs[r].due <= 0
    /\ \A s \in Ids : Pending(s) =>
          \/ jobs[r].due < jobs[s].due
          \/ jobs[r].due = jobs[s].due /\ (r <= s \/ jobs[r].due = -MaxLate)

ClaimNextJob(r, w) ==
    /\ Claimable(r)
    /\ jobs' = [jobs EXCEPT ![r] = LeasedTo(@, w, DaemonLease)]

(* completeJob: WHERE id = ?, whatever the row's state and owner are.      *)
CompleteJob(r, outcome) ==
    jobs' = [jobs EXCEPT ![r] = IF @.st = "none" THEN @ ELSE Finished(@, outcome)]

Expired(r) == Leased(r) /\ jobs[r].lease < 0

NothingReaped == UNCHANGED jobs     \* mutant: the sweep finds no row
RecoverExpiredLeases ==
    jobs' = [r \in Ids |-> IF Expired(r) THEN Repended(jobs[r]) ELSE jobs[r]]

(* The daemon's boot sweep: recoverExpiredLeases, then                     *)
(* recoverDeadWorkerLeases with the exemption of child-owned rows.         *)
RecoverAllAtBoot(w) ==              \* mutant: no exemption of child:% owners
    jobs' = [r \in Ids |->
        IF Leased(r) /\ jobs[r].owner # w THEN Repended(jobs[r]) ELSE jobs[r]]
RecoverAtBoot(w) ==
    jobs' = [r \in Ids |->
        IF Expired(r) \/ (Leased(r) /\ jobs[r].owner \in Workers \ {w})
        THEN Repended(jobs[r]) ELSE jobs[r]]

-----------------------------------------------------------------------------
(* cron.ts: scheduleCronJob is a SELECT followed by an UPDATE or an INSERT *)
(* outside a transaction; the two halves are separate steps.               *)

SeenBySelect(n) == IF PendingOf(n) = {} THEN {None} ELSE PendingOf(n)

(* The next cron occurrence is 1 to Period[n] minutes away.  The UPDATE is *)
(* WHERE id = ?, so a row claimed since the SELECT gets the new time too   *)
(* (and keeps it if its lease is reaped); on a terminal row nobody reads   *)
(* the column again.                                                       *)
WriteSchedule(n, seen) ==
    \E d \in 1..Period[n] :
        IF seen = None
        THEN \E r \in FreeIds :
               /\ \A s \in FreeIds : r <= s
               /\ jobs' = [jobs EXCEPT ![r] =
                     [NoRow EXCEPT !.st = "pending", !.name = n, !.due = d]]
        ELSE jobs' = [jobs EXCEPT ![seen] =
                        IF @.st \in {"pending", "leased"}
                        THEN [@ EXCEPT !.due = d] ELSE @]

-----------------------------------------------------------------------------
(* cognition-runner-entry.ts: the statements a detached child runs.        *)

TakeOverAllowed(r, n) == Leased(r) /\ jobs[r].name = n

TakeOverLease(r, c) ==
    jobs' = [jobs EXCEPT ![r] = LeasedTo(@, c, ChildLease)]

OwnedBy(r, c) == jobs[r].owner = c

RenewChildLease(r, c) ==
    jobs' = [jobs EXCEPT ![r].lease = ChildLease]

-----------------------------------------------------------------------------
(* jobs-erroring.ts: repair() re-pends the errored rows whose message      *)
(* looks transient.  It writes datetime('now'), a blank where the others   *)
(* have a T: the row sorts before every row of the day, as if it were the  *)
(* most overdue.  gc.ts: gcStaleTerminalJobs drops old terminal rows.      *)

Requeueable(r) == jobs[r].st = "errored" /\ jobs[r].retries < RetryCeiling

RequeueTransient(S) ==
    jobs' = [r \in Ids |->
        IF r \in S THEN [jobs[r] EXCEPT !.st = "pending", !.due = -MaxLate] ELSE jobs[r]]

PruneTerminal(S) ==
    jobs' = [r \in Ids |-> IF r \in S THEN NoRow ELSE jobs[r]]

(* The wall clock moves k minutes.  Only the order of overdue rows and the *)
(* sign of a lease are observable, so both distances stop at a floor.      *)
Later(x, k, floor) == IF x - k < floor THEN floor ELSE x - k

AgedRow(row, k) ==
    CASE row.st = "pending" -> [row EXCEPT !.due = Later(@, k, -MaxLate)]
      [] row.st = "leased" -> [row EXCEPT !.due = Later(@, k, -MaxLate),
                                          !.lease = Later(@, k, -1)]
      [] OTHER -> row

TableAges(k) == jobs' = [r \in Ids |-> AgedRow(jobs[r], k)]
=============================================================================
