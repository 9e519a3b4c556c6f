--------------------------- MODULE SchedulerProofs ---------------------------
(***************************************************************************)
(* Proofs about Scheduler for every value of its constants.                *)
(*                                                                         *)
(* 1. What each statement of JobsTable preserves: the type of the table,   *)
(*    which rows exist under which name, and which names have a pending    *)
(*    or leased row.                                                       *)
(* 2. Type correctness of the whole system.                                *)
(* 3. No cron is ever silenced, as long as no process fails between the    *)
(*    completion of a row and the re-arm of its cron.                      *)
(* 4. Who owns a row: what each statement may do to one row, the owners    *)
(*    that follow, and how a child leaves its run.                         *)
(* 5. The single-flight lock of the detached children.                     *)
(***************************************************************************)
EXTENDS Scheduler, TLAPS

-----------------------------------------------------------------------------
(* 1. The table                                                            *)

LEMMA NoTimeInt == NoTime \in Int
BY DEF NoTime

(* A retry count stays below the ceiling.                                  *)
LEMMA OneMoreType ==
    \A k \in 0..RetryCeiling : OneMore(k) \in 0..RetryCeiling
BY TableAssumption DEF OneMore, TableAssumption

(* What each row transformer returns.                                      *)
LEMMA LeasedToRow ==
    ASSUME NEW row \in Row, NEW w \in Owners, NEW m \in Int
    PROVE  /\ LeasedTo(row, w, m) \in Row
           /\ LeasedTo(row, w, m).st = "leased"
           /\ LeasedTo(row, w, m).name = row.name
BY DEF Row, LeasedTo

LEMMA FinishedRow ==
    ASSUME NEW row \in Row, NEW o \in {"completed", "errored"}
    PROVE  /\ Finished(row, o) \in Row
           /\ Finished(row, o).st = o
           /\ Finished(row, o).name = row.name
BY NoTimeInt DEF Row, Finished

LEMMA RependedRow ==
    ASSUME NEW row \in Row
    PROVE  /\ Repended(row) \in Row
           /\ Repended(row).st = "pending"
           /\ Repended(row).name = row.name
BY NoTimeInt, OneMoreType DEF Row, Repended

LEMMA RescheduledRow ==
    ASSUME NEW row \in Row, NEW d \in Int
    PROVE  /\ [row EXCEPT !.due = d] \in Row
           /\ [row EXCEPT !.due = d].st = row.st
           /\ [row EXCEPT !.due = d].name = row.name
BY DEF Row

LEMMA LeaseMovedRow ==
    ASSUME NEW row \in Row, NEW d \in Int
    PROVE  /\ [row EXCEPT !.lease = d] \in Row
           /\ [row EXCEPT !.lease = d].st = row.st
           /\ [row EXCEPT !.lease = d].name = row.name
BY DEF Row

(* No row disappears or changes its name.                                  *)
RowsKept ==
    \A r \in Ids : jobs[r].st # "none" =>
        jobs'[r].st # "none" /\ jobs'[r].name = jobs[r].name

(* Rows outside X that were pending or leased still are.                   *)
AliveKept(X) ==
    \A r \in Ids \ X : \A n \in Names : Alive(r, n) => Alive(r, n)'

(* One row is replaced: the form of most statements.                       *)
LEMMA ReplaceKeeps ==
    ASSUME TableTypeOK, NEW r \in Ids, NEW row \in Row,
           jobs' = [jobs EXCEPT ![r] = row],
           jobs[r].st # "none" => row.st # "none" /\ row.name = jobs[r].name
    PROVE  /\ TableTypeOK' /\ RowsKept /\ AliveKept({r})
           /\ row.st \in {"pending", "leased"} => AliveKept({})
<1>1. \A q \in Ids : jobs'[q] = IF q = r THEN row ELSE jobs[q]
  BY DEF TableTypeOK
<1>2. TableTypeOK'
  BY DEF TableTypeOK
<1>3. RowsKept /\ AliveKept({r})
  BY <1>1 DEF RowsKept, AliveKept, Alive
<1>4. ASSUME row.st \in {"pending", "leased"}
      PROVE  AliveKept({})
  BY <1>1, <1>4 DEF AliveKept, Alive
<1> QED
  BY <1>2, <1>3, <1>4

(* Every row is replaced, none of them ends: the sweeps and the clock.     *)
NoRowEnds ==
    \A r \in Ids :
        /\ jobs'[r] \in Row
        /\ jobs'[r].name = jobs[r].name
        /\ jobs[r].st # "none" => jobs'[r].st # "none"
        /\ jobs[r].st \in {"pending", "leased"} => jobs'[r].st \in {"pending", "leased"}

LEMMA ReplaceAllKeeps ==
    ASSUME TableTypeOK, NoRowEnds, jobs' = [r \in Ids |-> jobs'[r]]
    PROVE  TableTypeOK' /\ RowsKept /\ AliveKept({})
BY DEF TableTypeOK, NoRowEnds, RowsKept, AliveKept, Alive

(* claimNextJob leases one pending row.                                    *)
LEMMA ClaimKeeps ==
    ASSUME TableTypeOK, NEW r \in Ids, NEW w \in Workers, ClaimNextJob(r, w)
    PROVE  TableTypeOK' /\ RowsKept /\ AliveKept({})
<1>1. jobs[r] \in Row /\ w \in Owners /\ DaemonLease \in Int
  BY TableAssumption DEF TableTypeOK, Owners, TableAssumption
<1> DEFINE row == LeasedTo(jobs[r], w, DaemonLease)
<1>2. row \in Row /\ row.st = "leased" /\ row.name = jobs[r].name
  BY <1>1, LeasedToRow
<1>3. jobs' = [jobs EXCEPT ![r] = row]
  BY DEF ClaimNextJob
<1> HIDE DEF row
<1> QED
  BY <1>2, <1>3, ReplaceKeeps

(* completeJob ends at most the one row.                                   *)
LEMMA CompleteKeeps ==
    ASSUME TableTypeOK, NEW r \in Ids, NEW o \in {"completed", "errored"},
           CompleteJob(r, o)
    PROVE  TableTypeOK' /\ RowsKept /\ AliveKept({r})
<1>1. jobs[r] \in Row
  BY DEF TableTypeOK
<1> DEFINE row == IF jobs[r].st = "none" THEN jobs[r] ELSE Finished(jobs[r], o)
<1>2. row \in Row /\ (jobs[r].st # "none" => row.st # "none" /\ row.name = jobs[r].name)
  BY <1>1, FinishedRow
<1>3. jobs' = [jobs EXCEPT ![r] = row]
  BY DEF CompleteJob
<1> HIDE DEF row
<1> QED
  BY <1>2, <1>3, ReplaceKeeps

(* recoverExpiredLeases turns leased rows into pending ones.               *)
LEMMA RecoverKeeps ==
    ASSUME TableTypeOK, RecoverExpiredLeases
    PROVE  TableTypeOK' /\ RowsKept /\ AliveKept({})
<1>1. NoRowEnds
  <2> SUFFICES ASSUME NEW r \in Ids
               PROVE  /\ jobs'[r] \in Row
                      /\ jobs'[r].name = jobs[r].name
                      /\ jobs[r].st # "none" => jobs'[r].st # "none"
                      /\ jobs[r].st \in {"pending", "leased"}
                           => jobs'[r].st \in {"pending", "leased"}
    BY DEF NoRowEnds
  <2>1. jobs[r] \in Row
    BY DEF TableTypeOK
  <2>2. jobs'[r] = IF Expired(r) THEN Repended(jobs[r]) ELSE jobs[r]
    BY DEF RecoverExpiredLeases
  <2> QED
    BY <2>1, <2>2, RependedRow
<1>2. jobs' = [r \in Ids |-> jobs'[r]]
  BY DEF RecoverExpiredLeases
<1> QED
  BY <1>1, <1>2, ReplaceAllKeeps

(* ... and so does the boot sweep.                                         *)
LEMMA BootKeeps ==
    ASSUME TableTypeOK, NEW w \in Workers, RecoverAtBoot(w)
    PROVE  TableTypeOK' /\ RowsKept /\ AliveKept({})
<1>1. NoRowEnds
  <2> SUFFICES ASSUME NEW r \in Ids
               PROVE  /\ jobs'[r] \in Row
                      /\ jobs'[r].name = jobs[r].name
                      /\ jobs[r].st # "none" => jobs'[r].st # "none"
                      /\ jobs[r].st \in {"pending", "leased"}
                           => jobs'[r].st \in {"pending", "leased"}
    BY DEF NoRowEnds
  <2>1. jobs[r] \in Row
    BY DEF TableTypeOK
  <2>2. jobs'[r] = Repended(jobs[r]) \/ jobs'[r] = jobs[r]
    BY DEF RecoverAtBoot
  <2> QED
    BY <2>1, <2>2, RependedRow
<1>2. jobs' = [r \in Ids |-> jobs'[r]]
  BY DEF RecoverAtBoot
<1> QED
  BY <1>1, <1>2, ReplaceAllKeeps

(* The write half of scheduleCronJob; an INSERT leaves a pending row.      *)
LEMMA WriteKeeps ==
    ASSUME TableTypeOK, NEW n \in Names, NEW s \in Ids \cup {None},
           WriteSchedule(n, s)
    PROVE  /\ TableTypeOK' /\ RowsKept /\ AliveKept({})
           /\ s = None => \E r \in Ids : Alive(r, n)'
<1> DEFINE new(d) == [NoRow EXCEPT !.st = "pending", !.name = n, !.due = d]
<1>1. PICK d \in 1..Period[n] :
        IF s = None
        THEN \E r \in FreeIds :
               /\ \A q \in FreeIds : r <= q
               /\ jobs' = [jobs EXCEPT ![r] = new(d)]
        ELSE jobs' = [jobs EXCEPT ![s] =
                        IF @.st \in {"pending", "leased"}
                        THEN [@ EXCEPT !.due = d] ELSE @]
  BY DEF WriteSchedule
<1>2. d \in Int
  OBVIOUS
<1>3. CASE s = None
  <2>1. PICK r \in FreeIds : jobs' = [jobs EXCEPT ![r] = new(d)]
    BY <1>1, <1>3
  <2>2. r \in Ids /\ jobs[r].st = "none"
    BY DEF FreeIds
  <2>3. new(d) \in Row /\ new(d).st = "pending" /\ new(d).name = n
    <3>1. NoRow \in Row
      BY NoTimeInt, TableAssumption DEF NoRow, Row, TableAssumption
    <3> QED
      BY <1>2, <3>1 DEF Row
  <2> HIDE DEF new
  <2>4. TableTypeOK' /\ RowsKept /\ AliveKept({})
    BY <2>1, <2>2, <2>3, ReplaceKeeps
  <2>5. Alive(r, n)'
    BY <2>1, <2>2, <2>3 DEF TableTypeOK, Alive
  <2> QED
    BY <2>2, <2>4, <2>5
<1>4. CASE s # None
  <2> DEFINE row == IF jobs[s].st \in {"pending", "leased"}
                    THEN [jobs[s] EXCEPT !.due = d] ELSE jobs[s]
  <2>1. s \in Ids /\ jobs[s] \in Row
    BY <1>4 DEF TableTypeOK
  <2>2. row \in Row /\ row.st = jobs[s].st /\ row.name = jobs[s].name
    BY <1>2, <2>1, RescheduledRow
  <2>3. jobs' = [jobs EXCEPT ![s] = row]
    BY <1>1, <1>4
  <2> HIDE DEF row
  <2>4. TableTypeOK' /\ RowsKept /\ AliveKept({s})
    BY <2>1, <2>2, <2>3, ReplaceKeeps
  <2>5. \A m \in Names : Alive(s, m) => Alive(s, m)'
    BY <2>1, <2>2, <2>3 DEF TableTypeOK, Alive
  <2> QED
    BY <1>4, <2>4, <2>5 DEF AliveKept
<1> QED
  BY <1>3, <1>4

(* takeOverLease changes the owner of a leased row.                        *)
LEMMA TakeOverKeeps ==
    ASSUME TableTypeOK, NEW r \in Ids, NEW c \in Children, TakeOverLease(r, c)
    PROVE  TableTypeOK' /\ RowsKept /\ AliveKept({})
<1> DEFINE row == LeasedTo(jobs[r], c, ChildLease)
<1>1. jobs[r] \in Row /\ c \in Owners /\ ChildLease \in Int
  BY TableAssumption DEF TableTypeOK, Owners, TableAssumption
<1>2. row \in Row /\ row.st = "leased" /\ row.name = jobs[r].name
  BY <1>1, LeasedToRow
<1>3. jobs' = [jobs EXCEPT ![r] = row]
  BY DEF TakeOverLease
<1> HIDE DEF row
<1> QED
  BY <1>2, <1>3, ReplaceKeeps

(* renewChildLease only moves the end of the lease.                        *)
LEMMA RenewKeeps ==
    ASSUME TableTypeOK, NEW r \in Ids, NEW c \in Children, RenewChildLease(r, c)
    PROVE  TableTypeOK' /\ RowsKept /\ AliveKept({})
<1> DEFINE row == [jobs[r] EXCEPT !.lease = ChildLease]
<1>1. jobs[r] \in Row /\ ChildLease \in Int
  BY TableAssumption DEF TableTypeOK, TableAssumption
<1>2. row \in Row /\ row.st = jobs[r].st /\ row.name = jobs[r].name
  BY <1>1, LeaseMovedRow
<1>3. jobs' = [jobs EXCEPT ![r] = row]
  BY DEF RenewChildLease
<1> HIDE DEF row
<1>4. TableTypeOK' /\ RowsKept /\ AliveKept({r})
  BY <1>2, <1>3, ReplaceKeeps
<1>5. \A m \in Names : Alive(r, m) => Alive(r, m)'
  BY <1>2, <1>3 DEF TableTypeOK, Alive
<1> QED
  BY <1>4, <1>5 DEF AliveKept

(* The repair of jobs.not_erroring touches errored rows only.              *)
LEMMA RequeueKeeps ==
    ASSUME TableTypeOK, NEW S \in SUBSET {r \in Ids : Requeueable(r)},
           RequeueTransient(S)
    PROVE  TableTypeOK' /\ RowsKept /\ AliveKept({})
<1>1. NoRowEnds
  <2> SUFFICES ASSUME NEW r \in Ids
               PROVE  /\ jobs'[r] \in Row
                      /\ jobs'[r].name = jobs[r].name
                      /\ jobs[r].st # "none" => jobs'[r].st # "none"
                      /\ jobs[r].st \in {"pending", "leased"}
                           => jobs'[r].st \in {"pending", "leased"}
    BY DEF NoRowEnds
  <2>1. jobs[r] \in Row
    BY DEF TableTypeOK
  <2> DEFINE d == -MaxLate
  <2>2. jobs'[r] = IF r \in S THEN [jobs[r] EXCEPT !.st = "pending", !.due = d]
                   ELSE jobs[r]
    BY DEF RequeueTransient
  <2>3. d \in Int
    BY TableAssumption DEF TableAssumption
  <2> HIDE DEF d
  <2> QED
    BY <2>1, <2>2, <2>3 DEF Row
<1>2. jobs' = [r \in Ids |-> jobs'[r]]
  BY DEF RequeueTransient
<1> QED
  BY <1>1, <1>2, ReplaceAllKeeps

(* gcStaleTerminalJobs drops rows that are neither pending nor leased.     *)
LEMMA PruneKeeps ==
    ASSUME TableTypeOK, NEW S \in SUBSET Ids, \A r \in S : Terminal(r),
           PruneTerminal(S)
    PROVE  /\ TableTypeOK' /\ AliveKept({})
           /\ \A r \in Ids \ S : jobs'[r] = jobs[r]
<1>1. NoRow \in Row
  BY NoTimeInt, TableAssumption DEF NoRow, Row, TableAssumption
<1> QED
  BY <1>1 DEF TableTypeOK, PruneTerminal, Terminal, AliveKept, Alive

LEMMA LaterInt == \A x, k, floor \in Int : Later(x, k, floor) \in Int
BY DEF Later

(* The clock moves no row to another state.                                *)
LEMMA AgingKeeps ==
    ASSUME TableTypeOK, NEW k \in Nat, TableAges(k)
    PROVE  TableTypeOK' /\ RowsKept /\ AliveKept({})
<1>1. NoRowEnds
  <2> SUFFICES ASSUME NEW r \in Ids
               PROVE  /\ jobs'[r] \in Row
                      /\ jobs'[r].name = jobs[r].name
                      /\ jobs'[r].st = jobs[r].st
    BY DEF NoRowEnds
  <2>1. jobs[r] \in Row /\ jobs[r].due \in Int /\ jobs[r].lease \in Int
    BY DEF TableTypeOK, Row
  <2>2. -MaxLate \in Int /\ -1 \in Int /\ k \in Int
    BY TableAssumption DEF TableAssumption
  <2> DEFINE d == Later(jobs[r].due, k, -MaxLate)
             l == Later(jobs[r].lease, k, -1)
  <2>3. d \in Int /\ l \in Int
    BY <2>1, <2>2, LaterInt
  <2>4. \/ jobs'[r] = [jobs[r] EXCEPT !.due = d]
        \/ jobs'[r] = [jobs[r] EXCEPT !.due = d, !.lease = l]
        \/ jobs'[r] = jobs[r]
    BY DEF TableAges, AgedRow
  <2> HIDE DEF d, l
  <2> QED
    BY <2>1, <2>3, <2>4 DEF Row
<1>2. jobs' = [r \in Ids |-> jobs'[r]]
  BY DEF TableAges
<1> QED
  BY <1>1, <1>2, ReplaceAllKeeps

-----------------------------------------------------------------------------
(* 2. The invariant                                                        *)

(* The row and the names the daemon works on exist.                        *)
DaemonRefs ==
    /\ Up => daemon.pid \in Workers
    /\ daemon.row # None =>
         /\ daemon.rowName \in Names
         /\ jobs[daemon.row].st # "none" /\ jobs[daemon.row].name = daemon.rowName
    /\ daemon.pc \in {"handle", "run", "complete"} => daemon.row # None
    /\ daemon.pc \in {"arm", "armWrite"} =>
         /\ daemon.name \in Names
         /\ daemon.then = "run" => daemon.row # None

(* A child still holds the id of an existing row of its own job.           *)
ChildRefs ==
    \A c \in Children : child[c].st # "free" =>
        /\ child[c].row \in Ids /\ child[c].name \in Names
        /\ jobs[child[c].row].st # "none"
        /\ jobs[child[c].row].name = child[c].name

(* A process can fail between a completion and the end of its re-arm.      *)
MayTear == "torn" \in Faults

Lasting == ~MayTear => NeverSilenced

IInv == TypeOK /\ DaemonRefs /\ ChildRefs /\ Lasting

(* What a step must show to keep the three parts besides TypeOK.           *)
LEMMA DaemonRefsKept ==
    ASSUME TypeOK, DaemonRefs, RowsKept, UNCHANGED daemon
    PROVE  DaemonRefs'
BY TableAssumption DEF TypeOK, DaemonState, DaemonRefs, RowsKept, Up, TableAssumption

(* Every child that is still there is the one that was there before.       *)
SameChildren ==
    \A c \in Children : child'[c].st # "free" =>
        /\ child[c].st # "free"
        /\ child'[c].row = child[c].row /\ child'[c].name = child[c].name

LEMMA ChildRefsKept ==
    ASSUME ChildRefs, RowsKept, SameChildren
    PROVE  ChildRefs'
BY DEF ChildRefs, RowsKept, SameChildren

(* Every debt that was owed is still owed or has been paid.                *)
LEMMA SilencedKept ==
    ASSUME Lasting, AliveKept({}),
           \A n \in Names : Seeded(n)' => Seeded(n),
           \A n \in Names : DaemonOwes(n) => Armed(n)',
           \A n \in Names : \A c \in Children : ChildOwes(c, n) => Armed(n)'
    PROVE  Lasting'
<1> SUFFICES ASSUME ~MayTear, NEW n \in Names, Seeded(n)'
             PROVE  Armed(n)'
  BY DEF Lasting, NeverSilenced
<1>1. Armed(n)
  BY DEF Lasting, NeverSilenced
<1>2. CASE \E r \in Ids : Alive(r, n)
  BY <1>2 DEF AliveKept, Armed
<1>3. CASE DaemonOwes(n) \/ \E c \in Children : ChildOwes(c, n)
  BY <1>3
<1> QED
  BY <1>1, <1>2, <1>3 DEF Armed

(* Nothing owed by the children changes when the children do not.          *)
LEMMA ChildDebtsKept ==
    ASSUME NEW n \in Names, NEW c \in Children, ChildOwes(c, n),
           child'[c] = child[c]
    PROVE  Armed(n)'
BY DEF ChildOwes, Armed

LEMMA DaemonDebtsKept ==
    ASSUME NEW n \in Names, DaemonOwes(n), UNCHANGED daemon
    PROVE  Armed(n)'
BY DEF DaemonOwes, Armed

LEMMA UnchangedTable ==
    ASSUME TableTypeOK, UNCHANGED jobs
    PROVE  TableTypeOK' /\ RowsKept /\ AliveKept({})
BY DEF TableTypeOK, RowsKept, AliveKept, Alive

LEMMA FaultCounted ==
    ASSUME faults \in 0..MaxFaults, NEW kind, Fault(kind)
    PROVE  faults' \in 0..MaxFaults
BY SchedulerAssumption DEF Fault, SchedulerAssumption

LEMMA TimeInt ==
    /\ HandlerTimeout \in Int /\ StartMax \in Int
    /\ \A n \in Names : Deadline[n] \in Int /\ StaleAfter(n) \in Nat
    /\ \A x \in Int : Minus1(x) \in Int
    /\ \A x \in Nat : Minus1(x) \in Nat
BY SchedulerAssumption DEF SchedulerAssumption, StaleAfter, Minus1

LEMMA InitIInv == Init => IInv
<1> SUFFICES ASSUME Init PROVE IInv
  OBVIOUS
<1>1. TypeOK
  BY NoTimeInt, TableAssumption, SchedulerAssumption
     DEF Init, TypeOK, TableTypeOK, TableInit, NoRow, Row, Down, DaemonState,
         Free, ChildState, TableAssumption, SchedulerAssumption
<1>2. DaemonRefs /\ ChildRefs /\ Lasting
  BY DEF Init, DaemonRefs, ChildRefs, Lasting, NeverSilenced, Seeded, Up, Down, Free
<1> QED
  BY <1>1, <1>2 DEF IInv

-----------------------------------------------------------------------------
(* The daemon boots.                                                       *)

LEMMA BootStep == IInv /\ Boot => IInv'
<1> SUFFICES ASSUME IInv, Boot PROVE IInv'
  OBVIOUS
<1> USE DEF IInv
<1>1. PICK w \in Workers : daemon' = [Down EXCEPT !.pc = "sweep", !.pid = w]
  BY DEF Boot
<1>2. RowsKept /\ AliveKept({}) /\ TableTypeOK'
  BY UnchangedTable DEF Boot, TypeOK
<1>3. TypeOK'
  BY <1>1, <1>2, NoTimeInt DEF Boot, TypeOK, Down, DaemonState
<1>4. DaemonRefs'
  BY <1>1 DEF Down, DaemonRefs, Up
<1>5. ChildRefs'
  BY <1>2, ChildRefsKept DEF Boot, SameChildren
<1>6. Lasting'
  BY <1>1 DEF Down, Lasting, NeverSilenced, Seeded
<1> QED
  BY <1>3, <1>4, <1>5, <1>6

LEMMA SweepStep == IInv /\ Sweep => IInv'
<1> SUFFICES ASSUME IInv, Sweep PROVE IInv'
  OBVIOUS
<1> USE DEF IInv
<1>1. /\ daemon.pc = "sweep" /\ daemon.pid \in Workers
      /\ daemon' = [daemon EXCEPT !.pc = "seed", !.todo = Names]
      /\ daemon \in DaemonState
  BY DEF Sweep, DaemonRefs, Up, TypeOK
<1>2. RowsKept /\ AliveKept({}) /\ TableTypeOK'
  BY <1>1, BootKeeps DEF Sweep, TypeOK
<1>3. TypeOK'
  BY <1>1, <1>2 DEF Sweep, TypeOK, DaemonState
<1>4. DaemonRefs'
  BY <1>1, <1>2, TableAssumption DEF DaemonRefs, Up, DaemonState, RowsKept, TableAssumption
<1>5. ChildRefs'
  BY <1>2, ChildRefsKept DEF Sweep, SameChildren
<1>6. Lasting'
  BY <1>1 DEF Lasting, NeverSilenced, Seeded, DaemonState
<1> QED
  BY <1>3, <1>4, <1>5, <1>6

-----------------------------------------------------------------------------
(* The scheduler loop, inside the daemon.                                  *)

LEMMA StartHandlerStep == IInv /\ StartHandler => IInv'
<1> SUFFICES ASSUME IInv, StartHandler PROVE IInv'
  OBVIOUS
<1> USE DEF IInv
<1>1. /\ daemon \in DaemonState
      /\ UNCHANGED <<jobs, child>>
      /\ daemon.pc = "handle"
      /\ daemon' = [daemon EXCEPT !.pc = "run", !.left = HandlerTimeout]
  BY DEF StartHandler, TypeOK
<1>2. RowsKept /\ AliveKept({}) /\ TableTypeOK'
  BY <1>1, UnchangedTable DEF TypeOK
<1>3. TypeOK'
  BY <1>1, <1>2, NoTimeInt, TimeInt
     DEF StartHandler, TypeOK, DaemonState
<1>4. DaemonRefs'
  BY <1>1, <1>2, TableAssumption DEF DaemonRefs, Up, DaemonState, RowsKept, TableAssumption
<1>5. ChildRefs'
  BY <1>1, <1>2, ChildRefsKept DEF SameChildren
<1>6. Lasting'
  BY <1>1, <1>2, SilencedKept, ChildDebtsKept DEF Seeded, Up, DaemonOwes, DaemonState
<1> QED
  BY <1>3, <1>4, <1>5, <1>6

LEMMA HandlerEndsStep == IInv /\ HandlerEnds => IInv'
<1> SUFFICES ASSUME IInv, HandlerEnds PROVE IInv'
  OBVIOUS
<1> USE DEF IInv
<1>1. /\ daemon \in DaemonState
      /\ UNCHANGED <<jobs, child>>
      /\ daemon.pc = "run"
      /\ \E o \in {"completed", "errored"} :
           daemon' = [daemon EXCEPT !.pc = "complete", !.outcome = o, !.left = NoTime]
  BY DEF HandlerEnds, TypeOK, Settles
<1>2. RowsKept /\ AliveKept({}) /\ TableTypeOK'
  BY <1>1, UnchangedTable DEF TypeOK
<1>3. TypeOK'
  BY <1>1, <1>2, NoTimeInt, TimeInt
     DEF HandlerEnds, TypeOK, DaemonState
<1>4. DaemonRefs'
  BY <1>1, <1>2, TableAssumption DEF DaemonRefs, Up, DaemonState, RowsKept, TableAssumption
<1>5. ChildRefs'
  BY <1>1, <1>2, ChildRefsKept DEF SameChildren
<1>6. Lasting'
  BY <1>1, <1>2, SilencedKept, ChildDebtsKept DEF Seeded, Up, DaemonOwes, DaemonState
<1> QED
  BY <1>3, <1>4, <1>5, <1>6

LEMMA SkipSpawnStep == IInv /\ SkipSpawn => IInv'
<1> SUFFICES ASSUME IInv, SkipSpawn PROVE IInv'
  OBVIOUS
<1> USE DEF IInv
<1>1. /\ daemon \in DaemonState
      /\ UNCHANGED <<jobs, child>>
      /\ daemon.pc = "handle"
      /\ daemon' = [daemon EXCEPT !.pc = "complete", !.outcome = "completed",
                                  !.left = NoTime]
  BY DEF SkipSpawn, TypeOK, Settles
<1>2. RowsKept /\ AliveKept({}) /\ TableTypeOK'
  BY <1>1, UnchangedTable DEF TypeOK
<1>3. TypeOK'
  BY <1>1, <1>2, NoTimeInt, TimeInt
     DEF SkipSpawn, TypeOK, DaemonState
<1>4. DaemonRefs'
  BY <1>1, <1>2, TableAssumption DEF DaemonRefs, Up, DaemonState, RowsKept, TableAssumption
<1>5. ChildRefs'
  BY <1>1, <1>2, ChildRefsKept DEF SameChildren
<1>6. Lasting'
  BY <1>1, <1>2, SilencedKept, ChildDebtsKept DEF Seeded, Up, DaemonOwes, DaemonState
<1> QED
  BY <1>3, <1>4, <1>5, <1>6

LEMMA SpawnThrowsStep == IInv /\ SpawnThrows => IInv'
<1> SUFFICES ASSUME IInv, SpawnThrows PROVE IInv'
  OBVIOUS
<1> USE DEF IInv
<1>1. /\ daemon \in DaemonState
      /\ UNCHANGED <<jobs, child>>
      /\ daemon.pc = "handle"
      /\ daemon' = [daemon EXCEPT !.pc = "complete", !.outcome = "errored",
                                  !.left = NoTime]
      /\ faults' \in 0..MaxFaults
  BY FaultCounted DEF SpawnThrows, TypeOK, Settles
<1>2. RowsKept /\ AliveKept({}) /\ TableTypeOK'
  BY <1>1, UnchangedTable DEF TypeOK
<1>3. TypeOK'
  BY <1>1, <1>2, NoTimeInt, TimeInt
     DEF SpawnThrows, TypeOK, DaemonState
<1>4. DaemonRefs'
  BY <1>1, <1>2, TableAssumption DEF DaemonRefs, Up, DaemonState, RowsKept, TableAssumption
<1>5. ChildRefs'
  BY <1>1, <1>2, ChildRefsKept DEF SameChildren
<1>6. Lasting'
  BY <1>1, <1>2, SilencedKept, ChildDebtsKept DEF Seeded, Up, DaemonOwes, DaemonState
<1> QED
  BY <1>3, <1>4, <1>5, <1>6

(* Seeding a name turns it into the daemon's debt.                         *)
LEMMA SeedNextStep == IInv /\ SeedNext => IInv'
<1> SUFFICES ASSUME IInv, SeedNext PROVE IInv'
  OBVIOUS
<1> USE DEF IInv
<1>1. /\ daemon \in DaemonState /\ daemon.pc = "seed"
      /\ UNCHANGED <<jobs, child>>
  BY DEF SeedNext, TypeOK
<1>2. RowsKept /\ AliveKept({}) /\ TableTypeOK'
  BY <1>1, UnchangedTable DEF TypeOK
<1>3. CASE daemon.todo = {}
  <2>1. daemon' = [daemon EXCEPT !.pc = "idle"]
    BY <1>3 DEF SeedNext
  <2>2. TypeOK'
    BY <1>1, <1>2, <2>1 DEF SeedNext, TypeOK, DaemonState
  <2>3. DaemonRefs'
    BY <1>1, <1>2, <2>1, TableAssumption
       DEF DaemonRefs, Up, DaemonState, RowsKept, TableAssumption
  <2>4. ChildRefs'
    BY <1>1, <1>2, ChildRefsKept DEF SameChildren
  <2>5. Lasting'
    BY <1>1, <1>2, <2>1, SilencedKept, ChildDebtsKept
       DEF Seeded, Up, DaemonOwes, DaemonState
  <2> QED
    BY <2>2, <2>3, <2>4, <2>5
<1>4. CASE daemon.todo # {}
  <2>1. PICK m \in daemon.todo :
          daemon' = [daemon EXCEPT !.pc = "arm", !.todo = @ \ {m},
                                   !.name = m, !.then = "seed"]
    BY <1>4 DEF SeedNext
  <2>2. m \in Names
    BY <1>1 DEF DaemonState
  <2>3. TypeOK'
    BY <1>1, <1>2, <2>1, <2>2 DEF SeedNext, TypeOK, DaemonState
  <2>4. DaemonRefs'
    BY <1>1, <1>2, <2>1, <2>2, TableAssumption
       DEF DaemonRefs, Up, DaemonState, RowsKept, TableAssumption
  <2>5. ChildRefs'
    BY <1>1, <1>2, ChildRefsKept DEF SameChildren
  <2>6. Lasting'
    <3> SUFFICES ASSUME ~MayTear, NEW n \in Names, Seeded(n)'
                 PROVE  Armed(n)'
      BY DEF Lasting, NeverSilenced
    <3>1. CASE n = m
      BY <1>1, <2>1, <3>1 DEF Armed, DaemonOwes, DaemonState
    <3>2. CASE n # m
      <4>1. Seeded(n) /\ ~DaemonOwes(n)
        BY <1>1, <2>1, <3>2 DEF Seeded, Up, DaemonOwes, DaemonState
      <4>2. Armed(n)
        BY <4>1 DEF Lasting, NeverSilenced
      <4> QED
        BY <1>1, <1>2, <4>1, <4>2 DEF Armed, AliveKept, ChildOwes
    <3> QED
      BY <3>1, <3>2
  <2> QED
    BY <2>3, <2>4, <2>5, <2>6
<1> QED
  BY <1>3, <1>4

LEMMA ClaimStep == IInv /\ Claim => IInv'
<1> SUFFICES ASSUME IInv, NEW n \in Names, ClaimFor(n) PROVE IInv'
  BY DEF Claim
<1> USE DEF IInv
<1>1. /\ daemon \in DaemonState /\ daemon.pc = "idle" /\ daemon.pid \in Workers
      /\ UNCHANGED <<child, watched, fresh, faults>>
  BY DEF ClaimFor, TypeOK, DaemonRefs, Up
<1>2. PICK r \in Ids :
        /\ jobs[r].name = n /\ ClaimNextJob(r, daemon.pid)
        /\ daemon' = [daemon EXCEPT !.pc = "handle", !.row = r, !.rowName = n]
  BY DEF ClaimFor
<1>3. RowsKept /\ AliveKept({}) /\ TableTypeOK'
  BY <1>1, <1>2, ClaimKeeps DEF TypeOK
<1>4. jobs[r].st # "none"
  BY <1>2 DEF ClaimNextJob, Claimable, Pending
<1>5. TypeOK'
  <2>1. daemon' = [daemon EXCEPT !.pc = "handle", !.row = r, !.rowName = n]
    BY <1>2
  <2>2. daemon' \in DaemonState
    BY <1>1, <2>1 DEF DaemonState
  <2> QED
    BY <1>1, <1>3, <2>2 DEF TypeOK
<1>6. DaemonRefs'
  <2>1. daemon' = [daemon EXCEPT !.pc = "handle", !.row = r, !.rowName = n]
    BY <1>2
  <2>2. jobs'[r].st # "none" /\ jobs'[r].name = n
    BY <1>2, <1>3, <1>4 DEF RowsKept
  <2>3. /\ daemon'.pc = "handle" /\ daemon'.pid = daemon.pid
        /\ daemon'.row = r /\ daemon'.rowName = n
    BY <1>1, <2>1 DEF DaemonState
  <2>4. r # None
    BY TableAssumption DEF TableAssumption
  <2> QED
    BY <1>1, <2>2, <2>3, <2>4 DEF DaemonRefs, Up
<1>7. ChildRefs'
  BY <1>1, <1>3, ChildRefsKept DEF SameChildren
<1>8. Lasting'
  BY <1>1, <1>2, <1>3, SilencedKept, ChildDebtsKept
     DEF Seeded, Up, DaemonOwes, DaemonState
<1> QED
  BY <1>5, <1>6, <1>7, <1>8

(* A spawn leaves the row leased: the child takes it from there.           *)
LEMMA SpawnChildStep == IInv /\ SpawnChild => IInv'
<1> SUFFICES ASSUME IInv, SpawnChild PROVE IInv'
  OBVIOUS
<1> USE DEF IInv
<1>1. /\ daemon \in DaemonState /\ daemon.pc = "handle"
      /\ daemon.row \in Ids /\ daemon.rowName \in Names
      /\ jobs[daemon.row].st # "none" /\ jobs[daemon.row].name = daemon.rowName
      /\ UNCHANGED jobs
  BY DEF SpawnChild, TypeOK, DaemonRefs, DaemonState
<1>2. PICK c \in Children, st \in {"boot", "noexec"}, m \in Int :
        Spawned(c, st, m)
  BY NoTimeInt, TimeInt DEF SpawnChild
<1>3. faults' \in 0..MaxFaults
  BY FaultCounted DEF SpawnChild, NoFault, TypeOK
<1> DEFINE p == [Free EXCEPT !.st = st, !.row = daemon.row, !.name = daemon.rowName,
                             !.left = m, !.young = TRUE]
<1>4. /\ child[c] = Free
      /\ child' = [child EXCEPT ![c] = p]
      /\ watched' = watched \cup {c}
      /\ daemon' = [daemon EXCEPT !.pc = "idle", !.row = None, !.rowName = None]
  BY <1>2 DEF Spawned, FreshChild
<1>5. /\ p \in ChildState /\ p.st = st
      /\ p.row = daemon.row /\ p.name = daemon.rowName
  BY <1>1, NoTimeInt DEF Free, ChildState
<1> HIDE DEF p
<1>6. RowsKept /\ AliveKept({}) /\ TableTypeOK'
  BY <1>1, UnchangedTable DEF TypeOK
<1>7. TypeOK'
  <2>1. fresh' \in [Names -> Nat]
    BY <1>1, TimeInt DEF SpawnChild, Acquires, TypeOK
  <2>2. daemon' \in DaemonState
    BY <1>1, <1>4 DEF DaemonState
  <2> QED
    BY <1>3, <1>4, <1>5, <1>6, <2>1, <2>2 DEF TypeOK
<1>8. DaemonRefs'
  BY <1>1, <1>4 DEF DaemonRefs, Up, DaemonState
<1>9. ChildRefs'
  BY <1>1, <1>4, <1>5 DEF TypeOK, ChildRefs
<1>10. Lasting'
  <2>1. \A n \in Names : ~DaemonOwes(n) /\ (Seeded(n)' => Seeded(n))
    BY <1>1, <1>4 DEF DaemonOwes, Seeded, Up, DaemonState
  <2>2. \A d \in Children : \A n \in Names : ChildOwes(d, n) => child'[d] = child[d]
    BY <1>4 DEF ChildOwes, Free, TypeOK
  <2> QED
    BY <1>6, <2>1, <2>2, SilencedKept, ChildDebtsKept
<1> QED
  BY <1>7, <1>8, <1>9, <1>10

(* A completion takes a live row away and leaves a debt of the same name.  *)
LEMMA CompleteStep == IInv /\ Complete => IInv'
<1> SUFFICES ASSUME IInv, Complete PROVE IInv'
  OBVIOUS
<1> USE DEF IInv
<1>1. /\ daemon \in DaemonState /\ daemon.pc = "complete"
      /\ daemon.row \in Ids /\ daemon.rowName \in Names
      /\ jobs[daemon.row].name = daemon.rowName
      /\ CompleteJob(daemon.row, daemon.outcome)
      /\ daemon.outcome \in {"completed", "errored"}
      /\ daemon' = [daemon EXCEPT !.pc = "arm", !.name = daemon.rowName,
                                  !.then = "idle", !.row = None, !.rowName = None,
                                  !.outcome = "completed"]
      /\ UNCHANGED <<child, watched, fresh, faults>>
  BY DEF Complete, TypeOK, DaemonRefs, DaemonState
<1>2. RowsKept /\ AliveKept({daemon.row}) /\ TableTypeOK'
  BY <1>1, CompleteKeeps DEF TypeOK
<1>3. TypeOK'
  BY <1>1, <1>2 DEF TypeOK, DaemonState
<1>4. DaemonRefs'
  BY <1>1 DEF DaemonRefs, Up, DaemonState
<1>5. ChildRefs'
  BY <1>1, <1>2, ChildRefsKept DEF SameChildren
<1>6. Lasting'
  <2> SUFFICES ASSUME ~MayTear, NEW n \in Names, Seeded(n)'
               PROVE  Armed(n)'
    BY DEF Lasting, NeverSilenced
  <2>1. CASE n = daemon.rowName
    BY <1>1, <2>1 DEF Armed, DaemonOwes, DaemonState
  <2>2. CASE n # daemon.rowName
    <3>1. Seeded(n) /\ ~DaemonOwes(n)
      BY <1>1 DEF Seeded, Up, DaemonOwes, DaemonState
    <3>2. Armed(n)
      BY <3>1 DEF Lasting, NeverSilenced
    <3>3. ~Alive(daemon.row, n)
      BY <1>1, <2>2 DEF Alive
    <3> QED
      BY <1>1, <1>2, <3>1, <3>2, <3>3 DEF Armed, AliveKept, ChildOwes
  <2> QED
    BY <2>1, <2>2
<1> QED
  BY <1>3, <1>4, <1>5, <1>6

LEMMA ArmSelectStep == IInv /\ ArmSelect => IInv'
<1> SUFFICES ASSUME IInv, ArmSelect PROVE IInv'
  OBVIOUS
<1> USE DEF IInv
<1>1. /\ daemon \in DaemonState /\ daemon.pc = "arm" /\ daemon.name \in Names
      /\ UNCHANGED <<jobs, child, watched, fresh, faults>>
  BY DEF ArmSelect, TypeOK, DaemonRefs
<1>2. PICK s \in SeenBySelect(daemon.name) :
        daemon' = [daemon EXCEPT !.pc = "armWrite", !.seen = s]
  BY DEF ArmSelect
<1>3. /\ s \in Ids \cup {None}
      /\ s # None => \E r \in Ids : Alive(r, daemon.name)
  BY DEF SeenBySelect, PendingOf, Pending, Alive
<1>4. RowsKept /\ AliveKept({}) /\ TableTypeOK'
  BY <1>1, UnchangedTable DEF TypeOK
<1>5. TypeOK'
  BY <1>1, <1>2, <1>3, <1>4 DEF TypeOK, DaemonState
<1>6. DaemonRefs'
  BY <1>1, <1>2, <1>4, TableAssumption
     DEF DaemonRefs, Up, DaemonState, RowsKept, TableAssumption
<1>7. ChildRefs'
  BY <1>1, <1>4, ChildRefsKept DEF SameChildren
<1>8. Lasting'
  <2>1. \A n \in Names : Seeded(n)' => Seeded(n)
    BY <1>1, <1>2 DEF Seeded, Up, DaemonState
  <2>2. ASSUME NEW n \in Names, DaemonOwes(n)
        PROVE  Armed(n)'
    <3>1. n = daemon.name
      BY <2>2 DEF DaemonOwes
    <3>2. CASE s = None
      BY <1>1, <1>2, <3>1, <3>2 DEF Armed, DaemonOwes, DaemonState
    <3>3. CASE s # None
      BY <1>3, <1>4, <3>1, <3>3, <2>2 DEF Armed, AliveKept
    <3> QED
      BY <3>2, <3>3
  <2> QED
    BY <1>1, <1>4, <2>1, <2>2, SilencedKept, ChildDebtsKept
<1> QED
  BY <1>5, <1>6, <1>7, <1>8

LEMMA ArmWriteStep == IInv /\ ArmWrite => IInv'
<1> SUFFICES ASSUME IInv, ArmWrite PROVE IInv'
  OBVIOUS
<1> USE DEF IInv
<1>1. /\ daemon \in DaemonState /\ daemon.pc = "armWrite" /\ daemon.name \in Names
      /\ daemon.seen \in Ids \cup {None}
      /\ WriteSchedule(daemon.name, daemon.seen)
      /\ daemon' = [daemon EXCEPT !.pc = daemon.then, !.then = "idle",
                                  !.name = None, !.seen = None, !.unlock = FALSE]
      /\ UNCHANGED <<child, watched, faults>>
  BY DEF ArmWrite, Resumes, TypeOK, DaemonRefs, DaemonState
<1>2. /\ RowsKept /\ AliveKept({}) /\ TableTypeOK'
      /\ \A n \in Names : (n = daemon.name /\ daemon.seen = None)
                           => \E r \in Ids : Alive(r, n)'
  <2>1. PICK n \in Names, s \in Ids \cup {None} :
          n = daemon.name /\ s = daemon.seen /\ WriteSchedule(n, s)
    BY <1>1
  <2>2. /\ RowsKept /\ AliveKept({}) /\ TableTypeOK'
        /\ s = None => \E r \in Ids : Alive(r, n)'
    BY <2>1, WriteKeeps DEF TypeOK
  <2> QED
    BY <2>1, <2>2
<1>3. TypeOK'
  <2>1. fresh' \in [Names -> Nat]
    BY DEF ArmWrite, Releases, TypeOK
  <2>2. daemon' \in DaemonState
    BY <1>1 DEF DaemonState
  <2> QED
    BY <1>1, <1>2, <2>1, <2>2 DEF TypeOK
<1>4. DaemonRefs'
  BY <1>1, <1>2, TableAssumption
     DEF DaemonRefs, Up, DaemonState, RowsKept, TableAssumption
<1>5. ChildRefs'
  BY <1>1, <1>2, ChildRefsKept DEF SameChildren
<1>6. Lasting'
  <2>1. \A n \in Names : Seeded(n)' => Seeded(n)
    BY <1>1 DEF Seeded, Up, DaemonState
  <2>2. \A n \in Names : DaemonOwes(n) => Armed(n)'
    BY <1>1, <1>2 DEF DaemonOwes, Armed
  <2> QED
    BY <1>1, <1>2, <2>1, <2>2, SilencedKept, ChildDebtsKept
<1> QED
  BY <1>3, <1>4, <1>5, <1>6

LEMMA ReapStep == IInv /\ Reap => IInv'
<1> SUFFICES ASSUME IInv, Reap PROVE IInv'
  OBVIOUS
<1> USE DEF IInv
<1>1. /\ daemon \in DaemonState
      /\ daemon' = [daemon EXCEPT !.reap = FALSE]
      /\ RecoverExpiredLeases
      /\ UNCHANGED <<child, watched, fresh, faults>>
  BY DEF Reap, TypeOK
<1>2. RowsKept /\ AliveKept({}) /\ TableTypeOK'
  BY <1>1, RecoverKeeps DEF TypeOK
<1>3. TypeOK'
  BY <1>1, <1>2 DEF TypeOK, DaemonState
<1>4. DaemonRefs'
  BY <1>1, <1>2, TableAssumption
     DEF DaemonRefs, Up, DaemonState, RowsKept, TableAssumption
<1>5. ChildRefs'
  BY <1>1, <1>2, ChildRefsKept DEF SameChildren
<1>6. Lasting'
  <2>1. \A n \in Names : Seeded(n)' => Seeded(n)
    BY <1>1 DEF Seeded, Up, DaemonState
  <2>2. \A n \in Names : DaemonOwes(n) => Armed(n)'
    BY <1>1 DEF DaemonOwes, Armed, DaemonState
  <2> QED
    BY <1>1, <1>2, <2>1, <2>2, SilencedKept, ChildDebtsKept
<1> QED
  BY <1>3, <1>4, <1>5, <1>6

LEMMA RequeueStep == IInv /\ Requeue => IInv'
<1> SUFFICES ASSUME IInv, Requeue PROVE IInv'
  OBVIOUS
<1> USE DEF IInv
<1>1. UNCHANGED <<daemon, child, watched, fresh>>
  BY DEF Requeue
<1>2. RowsKept /\ AliveKept({}) /\ TableTypeOK'
  BY RequeueKeeps DEF Requeue, TypeOK
<1>3. TypeOK'
  BY <1>1, <1>2, FaultCounted DEF Requeue, TypeOK
<1>4. DaemonRefs' /\ ChildRefs'
  BY <1>1, <1>2, DaemonRefsKept, ChildRefsKept DEF SameChildren
<1>5. Lasting'
  BY <1>1, <1>2, SilencedKept, ChildDebtsKept, DaemonDebtsKept DEF Seeded, Up
<1> QED
  BY <1>3, <1>4, <1>5

LEMMA PruneStep == IInv /\ Prune => IInv'
<1> SUFFICES ASSUME IInv, Prune PROVE IInv'
  OBVIOUS
<1> USE DEF IInv
<1>1. UNCHANGED <<daemon, child, watched, fresh, faults>> /\ PruneTerminal(Prunable)
  BY DEF Prune
<1>2. /\ TableTypeOK' /\ AliveKept({})
      /\ \A r \in Ids \ Prunable : jobs'[r] = jobs[r]
  <2>1. Prunable \subseteq Ids /\ \A r \in Prunable : Terminal(r)
    BY DEF Prunable
  <2> QED
    BY <1>1, <2>1, PruneKeeps DEF TypeOK
<1>3. TypeOK'
  BY <1>1, <1>2 DEF TypeOK
<1>4. DaemonRefs'
  BY <1>1, <1>2, TableAssumption
     DEF DaemonRefs, Up, Prunable, Referenced, TypeOK, DaemonState, TableAssumption
<1>5. ChildRefs'
  BY <1>1, <1>2 DEF ChildRefs, Prunable, Referenced
<1>6. Lasting'
  BY <1>1, <1>2, SilencedKept, ChildDebtsKept, DaemonDebtsKept DEF Seeded, Up
<1> QED
  BY <1>3, <1>4, <1>5, <1>6

(* The daemon dies: nothing is seeded any more.                            *)
LEMMA DiesStep == IInv /\ (Crash \/ ListenerThrows) => IInv'
<1> SUFFICES ASSUME IInv, Crash \/ ListenerThrows PROVE IInv'
  OBVIOUS
<1> USE DEF IInv
<1>1. /\ daemon' = Down /\ UNCHANGED <<jobs, fresh>> /\ watched' = {}
      /\ child' = [c \in Children |->
                     IF child[c].st \in {"failed", "noexec"} THEN Free ELSE child[c]]
  BY DEF Crash, ListenerThrows, Dies
<1>2. RowsKept /\ AliveKept({}) /\ TableTypeOK'
  BY <1>1, UnchangedTable DEF TypeOK
<1>3. Free \in ChildState /\ Free.st = "free" /\ Down \in DaemonState
  BY NoTimeInt DEF Free, ChildState, Down, DaemonState
<1>4. TypeOK'
  BY <1>1, <1>2, <1>3, FaultCounted DEF Crash, ListenerThrows, TypeOK
<1>5. DaemonRefs' /\ Lasting'
  BY <1>1 DEF Down, DaemonRefs, Up, Lasting, NeverSilenced, Seeded
<1>6. SameChildren
  BY <1>1, <1>3 DEF SameChildren, TypeOK
<1>7. ChildRefs'
  BY <1>2, <1>6, ChildRefsKept
<1> QED
  BY <1>4, <1>5, <1>7

(* The end of a child the daemon hears about, or of one it does not.       *)
LEMMA ExitsKeep ==
    ASSUME TypeOK, NEW c \in Children, ExitsNonzero(c) \/ ExitsZero(c),
           child[c].st # "free"
    PROVE  /\ child' \in [Children -> ChildState]
           /\ watched' \subseteq Children
           /\ SameChildren
           /\ \A d \in Children \ {c} : child'[d] = child[d]
<1>1. child[c] \in ChildState
  BY DEF TypeOK
<1>2. Free \in ChildState /\ Free.st = "free"
  BY NoTimeInt DEF Free, ChildState
<1>3. /\ FailedExit(child[c]) \in ChildState
      /\ FailedExit(child[c]).row = child[c].row
      /\ FailedExit(child[c]).name = child[c].name
  BY <1>1, NoTimeInt DEF FailedExit, Free, ChildState
<1>4. /\ \/ child' = [child EXCEPT ![c] = Free]
         \/ child' = [child EXCEPT ![c] = FailedExit(child[c])]
      /\ watched' \subseteq Children
  BY DEF TypeOK, ExitsNonzero, ExitsZero
<1> QED
  BY <1>2, <1>3, <1>4 DEF TypeOK, SameChildren

(* A child that owes nothing ends, and leaves the table alone.             *)
LEMMA ChildLeaves ==
    ASSUME IInv, NEW c \in Children,
           child[c].st \notin {"free", "arm", "armWrite"},
           ExitsNonzero(c) \/ ExitsZero(c),
           UNCHANGED <<jobs, daemon>>,
           fresh' \in [Names -> Nat], faults' \in 0..MaxFaults
    PROVE  IInv'
<1> USE DEF IInv
<1>1. /\ child' \in [Children -> ChildState] /\ watched' \subseteq Children
      /\ SameChildren /\ \A d \in Children \ {c} : child'[d] = child[d]
  BY ExitsKeep
<1>2. RowsKept /\ AliveKept({}) /\ TableTypeOK'
  BY UnchangedTable DEF TypeOK
<1>3. TypeOK'
  BY <1>1, <1>2 DEF TypeOK
<1>4. DaemonRefs' /\ ChildRefs'
  BY <1>1, <1>2, DaemonRefsKept, ChildRefsKept
<1>5. \A n \in Names : \A d \in Children : ChildOwes(d, n) => child'[d] = child[d]
  BY <1>1 DEF ChildOwes
<1>6. Lasting'
  BY <1>2, <1>5, SilencedKept, ChildDebtsKept, DaemonDebtsKept DEF Seeded, Up
<1> QED
  BY <1>3, <1>4, <1>6

(* A child goes on to another state, and no row ends.                      *)
LEMMA ChildMoves ==
    ASSUME IInv, NEW c \in Children, NEW p \in ChildState,
           child[c].st # "free",
           p.row = child[c].row, p.name = child[c].name,
           child' = [child EXCEPT ![c] = p],
           TableTypeOK', RowsKept, AliveKept({}),
           UNCHANGED <<daemon, watched>>,
           fresh' \in [Names -> Nat], faults' \in 0..MaxFaults,
           \A n \in Names : ChildOwes(c, n) => Armed(n)'
    PROVE  IInv'
<1> USE DEF IInv
<1>1. child'[c] = p /\ \A d \in Children \ {c} : child'[d] = child[d]
  BY DEF TypeOK
<1>2. TypeOK'
  BY DEF TypeOK
<1>3. SameChildren
  BY <1>1 DEF SameChildren
<1>4. DaemonRefs' /\ ChildRefs'
  BY <1>3, DaemonRefsKept, ChildRefsKept
<1>5. \A n \in Names : \A d \in Children : ChildOwes(d, n) => Armed(n)'
  BY <1>1, ChildDebtsKept
<1>6. \A n \in Names : /\ Seeded(n)' => Seeded(n)
                       /\ DaemonOwes(n) => Armed(n)'
  BY DaemonDebtsKept DEF Seeded, Up
<1>7. Lasting'
  BY <1>5, <1>6, SilencedKept
<1> QED
  BY <1>2, <1>4, <1>7

LEMMA ReleaseType ==
    ASSUME TypeOK, NEW n, Releases(n)
    PROVE  fresh' \in [Names -> Nat]
BY DEF TypeOK, Releases

LEMMA ChildCannotStartStep ==
    ASSUME IInv, NEW c \in Children, ChildCannotStart(c) PROVE IInv'
BY FaultCounted, ReleaseType, ChildLeaves DEF ChildCannotStart, IInv, TypeOK

LEMMA ChildKilledStep ==
    ASSUME IInv, NEW c \in Children, ChildKilled(c) PROVE IInv'
BY FaultCounted, ChildLeaves DEF ChildKilled, IInv, TypeOK

LEMMA ChildUnlocksStep ==
    ASSUME IInv, NEW c \in Children, ChildUnlocks(c) PROVE IInv'
BY ReleaseType, ChildLeaves DEF ChildUnlocks, Exits, IInv, TypeOK

LEMMA ChildTakesOverStep ==
    ASSUME IInv, NEW c \in Children, ChildTakesOver(c) PROVE IInv'
<1> USE DEF IInv
<1>1. /\ child[c] \in ChildState /\ child[c].st = "boot"
      /\ child[c].row \in Ids /\ child[c].name \in Names
      /\ UNCHANGED <<daemon, faults>>
  BY DEF ChildTakesOver, TypeOK, ChildRefs
<1>2. CASE TakeOverAllowed(child[c].row, child[c].name)
  <2> DEFINE p == [child[c] EXCEPT !.st = "run", !.left = Deadline[child[c].name]]
  <2>1. p \in ChildState /\ p.row = child[c].row /\ p.name = child[c].name
    BY <1>1, TimeInt DEF ChildState
  <2>2. /\ TakeOverLease(child[c].row, c) /\ UNCHANGED <<watched, fresh>>
        /\ child' = [child EXCEPT ![c] = p]
    BY <1>2 DEF ChildTakesOver, TypeOK
  <2> HIDE DEF p
  <2>3. TableTypeOK' /\ RowsKept /\ AliveKept({})
    BY <1>1, <2>2, TakeOverKeeps DEF TypeOK
  <2> QED
    BY <1>1, <2>1, <2>2, <2>3, ChildMoves DEF ChildOwes, TypeOK
<1>3. CASE ~TakeOverAllowed(child[c].row, child[c].name)
  BY <1>1, <1>3, ReleaseType, ChildLeaves DEF ChildTakesOver, TypeOK
<1> QED
  BY <1>2, <1>3

LEMMA ChildBeatsStep ==
    ASSUME IInv, NEW c \in Children, ChildBeats(c) PROVE IInv'
<1> USE DEF IInv
<1>1. /\ child[c] \in ChildState /\ child[c].st = "run"
      /\ child[c].row \in Ids
      /\ UNCHANGED <<daemon, fresh, faults>>
  BY DEF ChildBeats, Running, TypeOK, ChildRefs
<1>2. CASE OwnedBy(child[c].row, c)
  <2> DEFINE p == [child[c] EXCEPT !.beat = FALSE]
  <2>1. p \in ChildState /\ p.row = child[c].row /\ p.name = child[c].name
    BY <1>1 DEF ChildState
  <2>2. /\ RenewChildLease(child[c].row, c) /\ UNCHANGED watched
        /\ child' = [child EXCEPT ![c] = p]
    BY <1>2 DEF ChildBeats, TypeOK
  <2> HIDE DEF p
  <2>3. TableTypeOK' /\ RowsKept /\ AliveKept({})
    BY <1>1, <2>2, RenewKeeps DEF TypeOK
  <2> QED
    BY <1>1, <2>1, <2>2, <2>3, ChildMoves DEF ChildOwes, TypeOK
<1>3. CASE ~OwnedBy(child[c].row, c)
  BY <1>1, <1>3, ChildLeaves DEF ChildBeats, TypeOK
<1> QED
  BY <1>2, <1>3

LEMMA ChildBeatThrowsStep ==
    ASSUME IInv, NEW c \in Children, ChildBeatThrows(c) PROVE IInv'
<1> USE DEF IInv
<1>1. /\ child[c] \in ChildState /\ child[c].st = "run"
      /\ UNCHANGED <<jobs, daemon, watched, fresh>>
      /\ faults' \in 0..MaxFaults
  BY FaultCounted DEF ChildBeatThrows, Running, TypeOK
<1> DEFINE p == [child[c] EXCEPT !.beat = FALSE]
<1>2. p \in ChildState /\ p.row = child[c].row /\ p.name = child[c].name
  BY <1>1 DEF ChildState
<1>3. child' = [child EXCEPT ![c] = p]
  BY DEF ChildBeatThrows, TypeOK
<1> HIDE DEF p
<1>4. TableTypeOK' /\ RowsKept /\ AliveKept({})
  BY <1>1, UnchangedTable DEF TypeOK
<1> QED
  BY <1>1, <1>2, <1>3, <1>4, ChildMoves DEF ChildOwes, TypeOK

(* As Complete: the row that ends is of the name the child now owes.       *)
LEMMA ChildFinishesStep ==
    ASSUME IInv, NEW c \in Children, NEW o \in {"completed", "errored"},
           ChildFinishes(c, o)
    PROVE  IInv'
<1> USE DEF IInv
<1>1. /\ child[c] \in ChildState /\ child[c].st = "run"
      /\ child[c].row \in Ids /\ child[c].name \in Names
      /\ jobs[child[c].row].name = child[c].name
      /\ UNCHANGED <<daemon, fresh, faults>>
  BY DEF ChildFinishes, Running, TypeOK, ChildRefs
<1>2. CASE OwnedBy(child[c].row, c)
  <2> DEFINE p == [child[c] EXCEPT !.st = "arm", !.beat = FALSE,
                                   !.left = NoTime, !.outcome = o]
  <2>1. /\ p \in ChildState /\ p.st = "arm"
        /\ p.row = child[c].row /\ p.name = child[c].name
    BY <1>1, NoTimeInt DEF ChildState
  <2>2. /\ CompleteJob(child[c].row, o) /\ UNCHANGED watched
        /\ child' = [child EXCEPT ![c] = p]
    BY <1>2 DEF ChildFinishes, TypeOK
  <2> HIDE DEF p
  <2>3. TableTypeOK' /\ RowsKept /\ AliveKept({child[c].row})
    BY <1>1, <2>2, CompleteKeeps DEF TypeOK
  <2>4. child'[c] = p /\ \A d \in Children \ {c} : child'[d] = child[d]
    BY <2>2 DEF TypeOK
  <2>5. TypeOK'
    BY <1>1, <2>1, <2>2, <2>3 DEF TypeOK
  <2>6. SameChildren
    BY <1>1, <2>1, <2>4 DEF SameChildren
  <2>7. DaemonRefs' /\ ChildRefs'
    BY <1>1, <2>3, <2>6, DaemonRefsKept, ChildRefsKept
  <2>8. Lasting'
    <3> SUFFICES ASSUME ~MayTear, NEW n \in Names, Seeded(n)'
                 PROVE  Armed(n)'
      BY DEF Lasting, NeverSilenced
    <3>1. CASE n = child[c].name
      BY <2>1, <2>4, <3>1 DEF Armed, ChildOwes
    <3>2. CASE n # child[c].name
      <4>1. Armed(n)
        BY <1>1 DEF Lasting, NeverSilenced, Seeded, Up
      <4>2. ~Alive(child[c].row, n) /\ ~ChildOwes(c, n)
        BY <1>1, <3>2 DEF Alive, ChildOwes
      <4>3. CASE DaemonOwes(n)
        BY <1>1, <4>3, DaemonDebtsKept
      <4>4. CASE \E d \in Children : ChildOwes(d, n)
        BY <2>4, <4>2, <4>4, ChildDebtsKept
      <4>5. CASE \E r \in Ids : Alive(r, n)
        BY <2>3, <4>2, <4>5 DEF Armed, AliveKept
      <4> QED
        BY <4>1, <4>3, <4>4, <4>5 DEF Armed
    <3> QED
      BY <3>1, <3>2
  <2> QED
    BY <2>5, <2>7, <2>8
<1>3. CASE ~OwnedBy(child[c].row, c)
  BY <1>1, <1>3, ChildLeaves DEF ChildFinishes, Exits, TypeOK
<1> QED
  BY <1>2, <1>3

LEMMA ChildArmSelectStep ==
    ASSUME IInv, NEW c \in Children, ChildArmSelect(c) PROVE IInv'
<1> USE DEF IInv
<1>1. /\ child[c] \in ChildState /\ child[c].st = "arm"
      /\ UNCHANGED <<jobs, daemon, watched, fresh, faults>>
  BY DEF ChildArmSelect, TypeOK
<1>2. PICK s \in SeenBySelect(child[c].name) :
        child' = [child EXCEPT ![c].st = "armWrite", ![c].seen = s]
  BY DEF ChildArmSelect
<1>3. /\ s \in Ids \cup {None}
      /\ s # None => \E r \in Ids : Alive(r, child[c].name)
  BY DEF SeenBySelect, PendingOf, Pending, Alive
<1> DEFINE p == [child[c] EXCEPT !.st = "armWrite", !.seen = s]
<1>4. /\ p \in ChildState /\ p.st = "armWrite" /\ p.seen = s
      /\ p.row = child[c].row /\ p.name = child[c].name
  BY <1>1, <1>3 DEF ChildState
<1>5. child' = [child EXCEPT ![c] = p]
  BY <1>2 DEF TypeOK
<1> HIDE DEF p
<1>6. TableTypeOK' /\ RowsKept /\ AliveKept({})
  BY <1>1, UnchangedTable DEF TypeOK
<1>7. ASSUME NEW n \in Names, ChildOwes(c, n)
      PROVE  Armed(n)'
  <2>1. n = child[c].name /\ child'[c] = p
    BY <1>5, <1>7 DEF ChildOwes, TypeOK
  <2>2. CASE s = None
    BY <1>4, <2>1, <2>2 DEF Armed, ChildOwes
  <2>3. CASE s # None
    BY <1>3, <1>6, <1>7, <2>1, <2>3 DEF Armed, AliveKept
  <2> QED
    BY <2>2, <2>3
<1> QED
  BY <1>1, <1>4, <1>5, <1>6, <1>7, ChildMoves DEF TypeOK

LEMMA ChildArmWriteStep ==
    ASSUME IInv, NEW c \in Children, ChildArmWrite(c) PROVE IInv'
<1> USE DEF IInv
<1>1. /\ child[c] \in ChildState /\ child[c].st = "armWrite"
      /\ child[c].name \in Names
      /\ UNCHANGED <<daemon, watched, fresh, faults>>
  BY DEF ChildArmWrite, TypeOK, ChildRefs
<1>2. PICK n \in Names, s \in Ids \cup {None} :
        n = child[c].name /\ s = child[c].seen /\ WriteSchedule(n, s)
  BY <1>1 DEF ChildArmWrite, ChildState
<1>3. /\ TableTypeOK' /\ RowsKept /\ AliveKept({})
      /\ s = None => \E r \in Ids : Alive(r, n)'
  BY <1>2, WriteKeeps DEF TypeOK
<1> DEFINE p == [child[c] EXCEPT !.st = "unlock", !.seen = None]
<1>4. p \in ChildState /\ p.row = child[c].row /\ p.name = child[c].name
  BY <1>1 DEF ChildState
<1>5. child' = [child EXCEPT ![c] = p]
  BY DEF ChildArmWrite, TypeOK
<1> HIDE DEF p
<1>6. \A m \in Names : ChildOwes(c, m) => Armed(m)'
  BY <1>1, <1>2, <1>3 DEF ChildOwes, Armed
<1> QED
  BY <1>1, <1>3, <1>4, <1>5, <1>6, ChildMoves DEF TypeOK

(* failSpawn: the daemon ends a row its dead child left leased, and owes   *)
(* the name from then on.                                                  *)
LEMMA FailSpawnStep ==
    ASSUME IInv, NEW c \in Children, FailSpawn(c) PROVE IInv'
<1> USE DEF IInv
<1>1. /\ child[c] \in ChildState /\ child[c].st \in {"failed", "noexec"}
      /\ child[c].row \in Ids /\ child[c].name \in Names
      /\ jobs[child[c].row].name = child[c].name
      /\ daemon \in DaemonState /\ daemon.pc \in {"seed", "idle", "run"}
      /\ ExitsZero(c) /\ UNCHANGED <<fresh, faults>>
  BY DEF FailSpawn, Awaiting, TypeOK, ChildRefs
<1>2. /\ child' \in [Children -> ChildState] /\ watched' \subseteq Children
      /\ SameChildren /\ \A d \in Children \ {c} : child'[d] = child[d]
  BY <1>1, ExitsKeep
<1>3. \A n \in Names : ~ChildOwes(c, n)
  BY <1>1 DEF ChildOwes
<1>4. CASE Leased(child[c].row)
  <2>1. /\ CompleteJob(child[c].row, "errored")
        /\ daemon' = [daemon EXCEPT !.pc = "arm", !.name = child[c].name,
                                    !.then = daemon.pc, !.unlock = TRUE]
    BY <1>4 DEF FailSpawn
  <2>2. TableTypeOK' /\ RowsKept /\ AliveKept({child[c].row})
    BY <1>1, <2>1, CompleteKeeps DEF TypeOK
  <2>3. daemon' \in DaemonState
    BY <1>1, <2>1 DEF DaemonState
  <2>4. TypeOK'
    BY <1>1, <1>2, <2>2, <2>3 DEF TypeOK
  <2>5. /\ daemon'.pc = "arm" /\ daemon'.name = child[c].name
        /\ daemon'.then = daemon.pc /\ daemon'.pid = daemon.pid
        /\ daemon'.row = daemon.row /\ daemon'.rowName = daemon.rowName
        /\ daemon'.todo = daemon.todo
    BY <1>1, <2>1 DEF DaemonState
  <2>6. daemon.row \in Ids \cup {None}
    BY <1>1 DEF DaemonState
  <2>7. DaemonRefs'
    BY <1>1, <2>2, <2>5, <2>6 DEF DaemonRefs, Up, RowsKept
  <2>8. ChildRefs'
    BY <1>2, <2>2, ChildRefsKept
  <2>9. Lasting'
    <3> SUFFICES ASSUME ~MayTear, NEW n \in Names, Seeded(n)'
                 PROVE  Armed(n)'
      BY DEF Lasting, NeverSilenced
    <3>1. CASE n = child[c].name
      BY <2>5, <3>1 DEF Armed, DaemonOwes
    <3>2. CASE n # child[c].name
      <4>1. Armed(n) /\ ~DaemonOwes(n)
        BY <1>1, <2>5 DEF Lasting, NeverSilenced, Seeded, Up, DaemonOwes
      <4>2. ~Alive(child[c].row, n)
        BY <1>1, <3>2 DEF Alive
      <4>3. CASE \E d \in Children : ChildOwes(d, n)
        BY <1>2, <1>3, <4>3, ChildDebtsKept
      <4>4. CASE \E r \in Ids : Alive(r, n)
        BY <2>2, <4>2, <4>4 DEF Armed, AliveKept
      <4> QED
        BY <4>1, <4>3, <4>4 DEF Armed
    <3> QED
      BY <3>1, <3>2
  <2> QED
    BY <2>4, <2>7, <2>8, <2>9
<1>5. CASE ~Leased(child[c].row)
  BY <1>1, <1>5, ChildLeaves DEF FailSpawn, TypeOK
<1> QED
  BY <1>4, <1>5

-----------------------------------------------------------------------------
(* Time.                                                                   *)

(* A minute passes only when no child is in the middle of its re-arm.      *)
LEMMA TickStep == IInv /\ Tick => IInv'
<1> SUFFICES ASSUME IInv, Tick PROVE IInv'
  OBVIOUS
<1> USE DEF IInv
<1>1. /\ daemon \in DaemonState
      /\ daemon' = [daemon EXCEPT !.left = Minus1(@), !.reap = Up]
      /\ child' = [c \in Children |-> ChildAges(c)]
      /\ watched' \subseteq Children
      /\ fresh' \in [Names -> Nat]
      /\ UNCHANGED faults
  BY TimeInt DEF Tick, LockAges, TypeOK
<1>2. TableTypeOK' /\ RowsKept /\ AliveKept({})
  BY AgingKeeps DEF Tick, TypeOK
<1>3. \A c \in Children :
        /\ ChildAges(c) \in ChildState
        /\ ChildAges(c).st # "free" =>
             /\ child[c].st # "free"
             /\ ChildAges(c).row = child[c].row /\ ChildAges(c).name = child[c].name
  <2> SUFFICES ASSUME NEW c \in Children
               PROVE  /\ ChildAges(c) \in ChildState
                      /\ ChildAges(c).st # "free" =>
                           /\ child[c].st # "free"
                           /\ ChildAges(c).row = child[c].row
                           /\ ChildAges(c).name = child[c].name
    OBVIOUS
  <2>1. child[c] \in ChildState /\ Minus1(child[c].left) \in Int
    BY TimeInt DEF TypeOK, ChildState
  <2>2. Free \in ChildState /\ Free.st = "free"
    BY NoTimeInt DEF Free, ChildState
  <2> DEFINE m == Minus1(child[c].left)
  <2>3. \/ ChildAges(c) = [child[c] EXCEPT !.left = m, !.beat = TRUE, !.young = FALSE]
           /\ child[c].st = "run"
        \/ ChildAges(c) = [child[c] EXCEPT !.left = m, !.young = FALSE]
           /\ child[c].st = "boot"
        \/ ChildAges(c) = Free
    BY DEF ChildAges
  <2>4. m \in Int
    BY <2>1
  <2> HIDE DEF m
  <2> QED
    BY <2>1, <2>2, <2>3, <2>4 DEF ChildState
<1>4. SameChildren /\ child' \in [Children -> ChildState]
  BY <1>1, <1>3 DEF SameChildren
<1>5. /\ daemon'.pc = daemon.pc /\ daemon'.pid = daemon.pid
      /\ daemon'.row = daemon.row /\ daemon'.rowName = daemon.rowName
      /\ daemon'.name = daemon.name /\ daemon'.then = daemon.then
      /\ daemon'.todo = daemon.todo /\ daemon'.seen = daemon.seen
      /\ daemon.row \in Ids \cup {None}
  BY <1>1 DEF DaemonState
<1>6. TypeOK'
  <2>1. Minus1(daemon.left) \in Int /\ Up \in BOOLEAN
    BY <1>1, TimeInt DEF DaemonState, Up
  <2>2. daemon' \in DaemonState
    BY <1>1, <2>1 DEF DaemonState
  <2> QED
    BY <1>1, <1>2, <1>4, <2>2 DEF TypeOK
<1>7. DaemonRefs'
  BY <1>2, <1>5 DEF DaemonRefs, Up, RowsKept
<1>8. ChildRefs'
  BY <1>2, <1>4, ChildRefsKept
<1>9. Lasting'
  <2>1. \A n \in Names : /\ Seeded(n)' => Seeded(n)
                         /\ DaemonOwes(n) => Armed(n)'
    BY <1>5 DEF Seeded, Up, DaemonOwes, Armed
  <2>2. \A n \in Names : \A c \in Children : ~ChildOwes(c, n)
    BY DEF Tick, ChildRests, Rearming, ChildOwes
  <2> QED
    BY <1>2, <2>1, <2>2, SilencedKept
<1> QED
  BY <1>6, <1>7, <1>8, <1>9

LEMMA HostSleepsStep ==
    ASSUME IInv, NEW k \in SleepJumps, HostSleeps(k) PROVE IInv'
<1> USE DEF IInv
<1>1. k \in Nat
  BY SchedulerAssumption DEF SchedulerAssumption
<1>2. /\ child' = [c \in Children |->
                     IF child[c].st = "failed" THEN Free
                     ELSE [child[c] EXCEPT !.young = FALSE]]
      /\ watched' \subseteq Children
      /\ faults' \in 0..MaxFaults
      /\ UNCHANGED daemon
  BY FaultCounted DEF HostSleeps, TypeOK
<1>3. fresh' \in [Names -> Nat]
  <2>1. \A x \in Nat : Later(x, k, 0) \in Nat
    BY <1>1 DEF Later
  <2> QED
    BY <2>1 DEF HostSleeps, TypeOK
<1>4. TableTypeOK' /\ RowsKept /\ AliveKept({})
  BY <1>1, AgingKeeps DEF HostSleeps, TypeOK
<1>5. Free \in ChildState /\ Free.st = "free"
  BY NoTimeInt DEF Free, ChildState
<1>6. \A c \in Children :
        /\ child'[c] \in ChildState
        /\ \/ child'[c] = Free /\ child[c].st = "failed"
           \/ /\ child'[c].st = child[c].st /\ child'[c].row = child[c].row
              /\ child'[c].name = child[c].name /\ child'[c].seen = child[c].seen
  BY <1>2, <1>5 DEF TypeOK, ChildState
<1>7. child' \in [Children -> ChildState] /\ SameChildren
  BY <1>2, <1>5, <1>6 DEF SameChildren
<1>8. TypeOK'
  BY <1>2, <1>3, <1>4, <1>7 DEF TypeOK
<1>9. DaemonRefs' /\ ChildRefs'
  BY <1>2, <1>4, <1>7, DaemonRefsKept, ChildRefsKept
<1>10. \A n \in Names : \A c \in Children : ChildOwes(c, n) => Armed(n)'
  BY <1>6 DEF ChildOwes, Armed
<1>11. Lasting'
  BY <1>2, <1>4, <1>10, SilencedKept, DaemonDebtsKept DEF Seeded, Up
<1> QED
  BY <1>8, <1>9, <1>11

-----------------------------------------------------------------------------
(* A torn re-arm leaves the types alone, and nothing else.                 *)

LEMMA LoopThrowsStep == IInv /\ (TickThrows \/ SeedThrows) => IInv'
<1> SUFFICES ASSUME IInv, TickThrows \/ SeedThrows PROVE IInv'
  OBVIOUS
<1> USE DEF IInv
<1>1. /\ daemon \in DaemonState /\ daemon.pid \in Workers
      /\ daemon.pc \in {"arm", "armWrite"} => daemon.name \in Names
      /\ UNCHANGED <<jobs, child, watched, fresh>>
      /\ faults' \in 0..MaxFaults
  BY FaultCounted DEF TickThrows, SeedThrows, TypeOK, DaemonRefs, Up
<1>2. RowsKept /\ AliveKept({}) /\ TableTypeOK'
  BY <1>1, UnchangedTable DEF TypeOK
<1>3. PICK todo \in SUBSET Names, reap \in BOOLEAN :
        daemon' = [Down EXCEPT !.pc = "idle", !.pid = daemon.pid,
                               !.todo = todo, !.reap = reap]
  <2>1. daemon.todo \subseteq Names /\ daemon.reap \in BOOLEAN
    BY <1>1 DEF DaemonState
  <2>2. CASE TickThrows
    <3> DEFINE t == daemon.todo
               p == daemon.reap
    <3>1. t \in SUBSET Names /\ p \in BOOLEAN
      BY <2>1
    <3>2. daemon' = [Down EXCEPT !.pc = "idle", !.pid = daemon.pid,
                                 !.todo = t, !.reap = p]
      BY <2>2 DEF TickThrows
    <3> HIDE DEF t, p
    <3> QED
      BY <3>1, <3>2
  <2>3. CASE SeedThrows
    <3> DEFINE t == daemon.todo \cup {daemon.name}
               p == daemon.reap
    <3>1. t \in SUBSET Names /\ p \in BOOLEAN
      BY <1>1, <2>1, <2>3 DEF SeedThrows
    <3>2. daemon' = [Down EXCEPT !.pc = "idle", !.pid = daemon.pid,
                                 !.todo = t, !.reap = p]
      BY <2>3 DEF SeedThrows
    <3> HIDE DEF t, p
    <3> QED
      BY <3>1, <3>2
  <2> QED
    BY <2>2, <2>3
<1>4. daemon' \in DaemonState
  BY <1>1, <1>3, NoTimeInt DEF Down, DaemonState
<1>5. TypeOK'
  BY <1>1, <1>2, <1>4 DEF TypeOK
<1>6. DaemonRefs'
  BY <1>1, <1>3 DEF Down, DaemonRefs, Up
<1>7. ChildRefs'
  BY <1>1, <1>2, ChildRefsKept DEF SameChildren
<1>8. Lasting'
  BY DEF TickThrows, SeedThrows, Fault, Lasting, MayTear
<1> QED
  BY <1>5, <1>6, <1>7, <1>8

LEMMA ChildArmThrowsStep ==
    ASSUME IInv, NEW c \in Children, ChildArmThrows(c) PROVE IInv'
<1> USE DEF IInv
<1>1. /\ child[c].st # "free" /\ (ExitsNonzero(c) \/ ExitsZero(c))
      /\ UNCHANGED <<jobs, daemon, fresh>>
      /\ faults' \in 0..MaxFaults
  BY FaultCounted DEF ChildArmThrows, Exits, TypeOK
<1>2. /\ child' \in [Children -> ChildState] /\ watched' \subseteq Children
      /\ SameChildren
  BY <1>1, ExitsKeep
<1>3. RowsKept /\ AliveKept({}) /\ TableTypeOK'
  BY <1>1, UnchangedTable DEF TypeOK
<1>4. TypeOK'
  BY <1>1, <1>2, <1>3 DEF TypeOK
<1>5. DaemonRefs' /\ ChildRefs'
  BY <1>1, <1>2, <1>3, DaemonRefsKept, ChildRefsKept
<1>6. Lasting'
  BY DEF ChildArmThrows, Fault, Lasting, MayTear
<1> QED
  BY <1>4, <1>5, <1>6

-----------------------------------------------------------------------------
(* 3. The theorems                                                         *)

LEMMA NextIInv == IInv /\ [Next]_vars => IInv'
<1> SUFFICES ASSUME IInv, [Next]_vars PROVE IInv'
  OBVIOUS
<1>1. CASE UNCHANGED vars
  <2>1. /\ TypeOK' = TypeOK /\ DaemonRefs' = DaemonRefs
        /\ ChildRefs' = ChildRefs /\ NeverSilenced' = NeverSilenced
    BY <1>1 DEF vars, TypeOK, TableTypeOK, DaemonRefs, Up, ChildRefs,
                NeverSilenced, Seeded, Armed, Alive, DaemonOwes, ChildOwes
  <2> QED
    BY <2>1 DEF IInv, Lasting, MayTear
<1>2. CASE DaemonStep
  BY <1>2, BootStep, SweepStep, SeedNextStep, ClaimStep, StartHandlerStep,
     HandlerEndsStep, SkipSpawnStep, SpawnChildStep, CompleteStep, ArmSelectStep,
     ArmWriteStep, ReapStep, FailSpawnStep
     DEF DaemonStep
<1>3. ASSUME NEW c \in Children, ChildStep(c) PROVE IInv'
  BY <1>3, ChildTakesOverStep, ChildBeatsStep, ChildFinishesStep,
     ChildArmSelectStep, ChildArmWriteStep, ChildUnlocksStep
     DEF ChildStep
<1>4. CASE Environment
  BY <1>4, DiesStep, SpawnThrowsStep, LoopThrowsStep, RequeueStep, PruneStep,
     ChildCannotStartStep, ChildBeatThrowsStep, ChildArmThrowsStep,
     ChildKilledStep, HostSleepsStep
     DEF Environment
<1>5. CASE Tick
  BY <1>5, TickStep
<1> QED
  BY <1>1, <1>2, <1>3, <1>4, <1>5 DEF Next

(* The inductive invariant.                                                *)
THEOREM Inductive == Spec => []IInv
BY InitIInv, NextIInv, PTL DEF Spec

(* The table, the daemon and its children stay well-formed, whatever       *)
(* faults happen.                                                          *)
THEOREM TypeCorrect == Spec => []TypeOK
<1>1. IInv => TypeOK
  BY DEF IInv
<1> QED
  BY <1>1, Inductive, PTL

(* As long as no process fails inside a re-arm, no cron that a booted      *)
(* daemon has seeded is ever left without a pending row, a leased row or a *)
(* process about to write one - through crashes of the daemon, killed      *)
(* children, children that cannot start, host sleeps, missed renewals and  *)
(* requeued errors, for any number of jobs, rows and processes.            *)
THEOREM CronsNeverSilenced ==
    ASSUME "torn" \notin Faults
    PROVE  Spec => []NeverSilenced
<1>1. IInv => NeverSilenced
  BY DEF IInv, Lasting, MayTear
<1> QED
  BY <1>1, Inductive, PTL

-----------------------------------------------------------------------------
(* 4. Who owns a row.  What the statements of the table may do to one row, *)
(*    and what follows for its owner.                                      *)

(* The statements any process may run at any time ...                      *)
Statement ==
    \/ UNCHANGED jobs
    \/ \E r \in Ids, w \in Workers : ClaimNextJob(r, w)
    \/ \E r \in Ids, o \in {"completed", "errored"} : CompleteJob(r, o)
    \/ RecoverExpiredLeases
    \/ \E n \in Names, s \in Ids \cup {None} : WriteSchedule(n, s)
    \/ \E r \in Ids, c \in Children : OwnedBy(r, c) /\ RenewChildLease(r, c)
    \/ PruneTerminal(Prunable)

(* ... the takeover of a booting child, which makes it the owner ...       *)
Takeover ==
    \E c \in Children : /\ child[c].st = "boot" /\ Leased(child[c].row)
                        /\ TakeOverLease(child[c].row, c)

(* ... and the three that sweep the table.                                 *)
Requeued == \E S \in SUBSET {r \in Ids : Requeueable(r)} : RequeueTransient(S)
Swept == daemon.pc = "sweep" /\ \E w \in Workers : RecoverAtBoot(w)
Aged(S) == \E k \in S : TableAges(k)

(* Half of the daemon's steps run no statement, most leave the children    *)
(* alone.                                                                  *)
LEMMA TableAlone ==
    ASSUME \/ Boot \/ SeedNext \/ StartHandler \/ HandlerEnds \/ SkipSpawn
           \/ SpawnChild \/ ArmSelect
    PROVE  UNCHANGED jobs
<1>1. Boot => UNCHANGED jobs
  BY DEF Boot
<1>2. SeedNext => UNCHANGED jobs
  BY DEF SeedNext
<1>3. StartHandler => UNCHANGED jobs
  BY DEF StartHandler
<1>4. HandlerEnds => UNCHANGED jobs
  BY DEF HandlerEnds
<1>5. SkipSpawn => UNCHANGED jobs
  BY DEF SkipSpawn
<1>6. SpawnChild => UNCHANGED jobs
  BY DEF SpawnChild
<1>7. ArmSelect => UNCHANGED jobs
  BY DEF ArmSelect
<1> QED
  BY <1>1, <1>2, <1>3, <1>4, <1>5, <1>6, <1>7

LEMMA DaemonAlone ==
    ASSUME \/ Boot \/ Sweep \/ SeedNext \/ Claim \/ StartHandler \/ HandlerEnds
           \/ SkipSpawn \/ Complete \/ ArmSelect \/ ArmWrite \/ Reap
    PROVE  UNCHANGED child
<1>1. Boot => UNCHANGED child
  BY DEF Boot
<1>2. Sweep => UNCHANGED child
  BY DEF Sweep
<1>3. SeedNext => UNCHANGED child
  BY DEF SeedNext
<1>4. Claim => UNCHANGED child
  BY DEF Claim, ClaimFor
<1>5. StartHandler => UNCHANGED child
  BY DEF StartHandler
<1>6. HandlerEnds => UNCHANGED child
  BY DEF HandlerEnds
<1>7. SkipSpawn => UNCHANGED child
  BY DEF SkipSpawn
<1>8. Complete => UNCHANGED child
  BY DEF Complete
<1>9. ArmSelect => UNCHANGED child
  BY DEF ArmSelect
<1>10. ArmWrite => UNCHANGED child
  BY DEF ArmWrite
<1>11. Reap => UNCHANGED child
  BY DEF Reap
<1> QED
  BY <1>1, <1>2, <1>3, <1>4, <1>5, <1>6, <1>7, <1>8, <1>9, <1>10, <1>11

(* Every step runs at most one statement.                                  *)
LEMMA OneStatement ==
    ASSUME IInv, [Next]_vars
    PROVE  \/ Statement \/ Takeover \/ Swept
           \/ "requeue" \in Faults /\ Requeued
           \/ Tick /\ Aged({1})
           \/ "sleep" \in Faults /\ Aged(Nat)
<1> USE DEF IInv
<1>1. CASE UNCHANGED vars
  BY <1>1 DEF vars, Statement
<1>2. /\ daemon.row # None => daemon.row \in Ids
      /\ daemon.outcome \in {"completed", "errored"}
      /\ daemon.seen \in Ids \cup {None}
  BY DEF TypeOK, DaemonState
<1>3. CASE DaemonStep
  <2>1. CASE Sweep
    BY <2>1 DEF Sweep, Swept, DaemonRefs, Up
  <2>2. CASE Claim
    BY <2>2 DEF Claim, ClaimFor, Statement, DaemonRefs, Up
  <2>3. CASE Complete
    BY <1>2, <2>3 DEF Complete, Statement, DaemonRefs
  <2>4. CASE ArmWrite
    BY <1>2, <2>4 DEF ArmWrite, Statement, DaemonRefs
  <2>5. ASSUME NEW c \in Children, FailSpawn(c) PROVE Statement
    BY <2>5 DEF FailSpawn, Statement, ChildRefs
  <2>6. CASE Reap
    BY <2>6 DEF Reap, Statement
  <2>7. CASE \/ Boot \/ SeedNext \/ StartHandler \/ HandlerEnds \/ SkipSpawn
             \/ SpawnChild \/ ArmSelect
    <3>1. UNCHANGED jobs
      BY <2>7, TableAlone
    <3> QED
      BY <3>1 DEF Statement
  <2> QED
    BY <1>3, <2>1, <2>2, <2>3, <2>4, <2>5, <2>6, <2>7 DEF DaemonStep
<1>4. ASSUME NEW c \in Children, ChildStep(c) PROVE Statement \/ Takeover
  <2>1. CASE child[c].st # "free"
    <3>1. child[c].row \in Ids /\ child[c].name \in Names
          /\ child[c].seen \in Ids \cup {None}
      BY <2>1 DEF ChildRefs, TypeOK, ChildState
    <3>2. CASE ChildTakesOver(c)
      BY <3>2 DEF ChildTakesOver, TakeOverAllowed, Statement, Takeover
    <3>3. CASE ChildBeats(c)
      BY <3>1, <3>3 DEF ChildBeats, Statement
    <3>4. ASSUME NEW o \in {"completed", "errored"}, ChildFinishes(c, o)
          PROVE  Statement
      BY <3>1, <3>4 DEF ChildFinishes, Statement
    <3>5. CASE ChildArmWrite(c)
      BY <3>1, <3>5 DEF ChildArmWrite, Statement
    <3> QED
      BY <1>4, <3>2, <3>3, <3>4, <3>5
         DEF ChildStep, ChildArmSelect, ChildUnlocks, Statement
  <2>2. CASE child[c].st = "free"
    BY <1>4, <2>2 DEF ChildStep, ChildTakesOver, ChildBeats, ChildFinishes, Running,
                      ChildArmSelect, ChildArmWrite, ChildUnlocks
  <2> QED
    BY <2>1, <2>2
<1>5. CASE Environment
  <2>1. CASE Requeue
    BY <2>1 DEF Requeue, Fault, Requeued
  <2>2. CASE Prune
    BY <2>2 DEF Prune, Statement
  <2>3. ASSUME NEW k \in SleepJumps, HostSleeps(k)
        PROVE  "sleep" \in Faults /\ Aged(Nat)
    BY <2>3, SchedulerAssumption DEF HostSleeps, Fault, Aged, SchedulerAssumption
  <2> QED
    BY <1>5, <2>1, <2>2, <2>3
       DEF Environment, Crash, SpawnThrows, TickThrows, SeedThrows, ListenerThrows,
           ChildCannotStart, ChildBeatThrows, ChildArmThrows, ChildKilled, Statement
<1>6. CASE Tick
  BY <1>6 DEF Tick, Aged
<1> QED
  BY <1>1, <1>3, <1>4, <1>5, <1>6 DEF Next

(* What an ordinary statement may do to one row.                           *)
RowStep(r) ==
    \/ jobs'[r] = jobs[r]
    \/ Pending(r) /\ \E w \in Workers : jobs'[r] = LeasedTo(jobs[r], w, DaemonLease)
    \/ \E o \in {"completed", "errored"} : jobs'[r] = Finished(jobs[r], o)
    \/ Expired(r) /\ jobs'[r] = Repended(jobs[r])
    \/ jobs[r].st = "none" /\ \E row \in Row :
         jobs'[r] = row /\ row.st = "pending" /\ row.owner = None
    \/ ~Terminal(r) /\ \E d \in Int : jobs'[r] = [jobs[r] EXCEPT !.due = d]
    \/ jobs[r].owner \in Children /\ jobs'[r] = [jobs[r] EXCEPT !.lease = ChildLease]
    \/ r \in Prunable /\ jobs'[r] = NoRow

LEMMA WriteRowStep ==
    ASSUME TableTypeOK, NEW n \in Names, NEW s \in Ids \cup {None},
           WriteSchedule(n, s), NEW q \in Ids
    PROVE  RowStep(q)
<1> DEFINE new(d) == [NoRow EXCEPT !.st = "pending", !.name = n, !.due = d]
<1>1. PICK d \in 1..Period[n] :
        IF s = None
        THEN \E r \in FreeIds :
               /\ \A p \in FreeIds : r <= p
               /\ jobs' = [jobs EXCEPT ![r] = new(d)]
        ELSE jobs' = [jobs EXCEPT ![s] =
                        IF @.st \in {"pending", "leased"}
                        THEN [@ EXCEPT !.due = d] ELSE @]
  BY DEF WriteSchedule
<1>2. d \in Int
  OBVIOUS
<1>3. CASE s = None
  <2>1. new(d) \in Row /\ new(d).st = "pending" /\ new(d).owner = None
    <3>1. NoRow \in Row /\ NoRow.owner = None
      BY NoTimeInt, TableAssumption DEF NoRow, Row, TableAssumption
    <3> QED
      BY <1>2, <3>1 DEF Row
  <2>2. PICK r \in FreeIds : jobs' = [jobs EXCEPT ![r] = new(d)]
    BY <1>1, <1>3
  <2> HIDE DEF new
  <2> QED
    BY <2>1, <2>2 DEF FreeIds, RowStep, TableTypeOK
<1>4. CASE s # None
  <2> DEFINE moved == [jobs[s] EXCEPT !.due = d]
             row == IF jobs[s].st \in {"pending", "leased"} THEN moved ELSE jobs[s]
  <2>1. s \in Ids /\ jobs' = [jobs EXCEPT ![s] = row]
    BY <1>1, <1>4
  <2>2. jobs'[q] = jobs[q] \/ (q = s /\ ~Terminal(s) /\ jobs'[q] = moved)
    BY <2>1 DEF TableTypeOK, Terminal
  <2> QED
    BY <1>2, <2>2 DEF RowStep
<1> QED
  BY <1>3, <1>4

LEMMA RowSteps ==
    ASSUME TableTypeOK, Statement, NEW q \in Ids
    PROVE  RowStep(q)
<1>1. CASE UNCHANGED jobs
  BY <1>1 DEF RowStep
<1>2. ASSUME NEW r \in Ids, NEW w \in Workers, ClaimNextJob(r, w) PROVE RowStep(q)
  BY <1>2 DEF ClaimNextJob, Claimable, RowStep, TableTypeOK
<1>3. ASSUME NEW r \in Ids, NEW o \in {"completed", "errored"}, CompleteJob(r, o)
      PROVE  RowStep(q)
  BY <1>3 DEF CompleteJob, RowStep, TableTypeOK
<1>4. CASE RecoverExpiredLeases
  BY <1>4 DEF RecoverExpiredLeases, RowStep
<1>5. ASSUME NEW n \in Names, NEW s \in Ids \cup {None}, WriteSchedule(n, s)
      PROVE  RowStep(q)
  BY <1>5, WriteRowStep
<1>6. ASSUME NEW r \in Ids, NEW c \in Children, OwnedBy(r, c), RenewChildLease(r, c)
      PROVE  RowStep(q)
  BY <1>6 DEF RenewChildLease, OwnedBy, RowStep, TableTypeOK
<1>7. CASE PruneTerminal(Prunable)
  BY <1>7 DEF PruneTerminal, RowStep
<1> QED
  BY <1>1, <1>2, <1>3, <1>4, <1>5, <1>6, <1>7 DEF Statement

(* A row is leased exactly while it names an owner.                        *)
LeasedIffOwned == \A r \in Ids : Leased(r) <=> jobs[r].owner # None

(* A child that is not gone owns no row but the one it was spawned for.    *)
OwnsItsRow ==
    \A r \in Ids : \A c \in Children :
        OwnedBy(r, c) /\ child[c].st # "free" => child[c].row = r

Owned == LeasedIffOwned /\ OwnsItsRow

(* No child becomes the owner of a row.                                    *)
NoNewOwner == \A r \in Ids : \A c \in Children : OwnedBy(r, c)' => OwnedBy(r, c)

LEMMA OwnersExist == None \notin Workers /\ None \notin Children
BY TableAssumption DEF TableAssumption

LEMMA StatementOwners ==
    ASSUME TableTypeOK, LeasedIffOwned, Statement
    PROVE  LeasedIffOwned' /\ NoNewOwner
<1> SUFFICES ASSUME NEW r \in Ids
             PROVE  /\ Leased(r)' <=> jobs'[r].owner # None
                    /\ \A c \in Children : OwnedBy(r, c)' => OwnedBy(r, c)
  BY DEF LeasedIffOwned, NoNewOwner
<1>1. jobs[r] \in Row /\ (Leased(r) <=> jobs[r].owner # None)
  BY DEF TableTypeOK, LeasedIffOwned
<1>2. RowStep(r)
  BY RowSteps
<1>3. CASE \E w \in Workers : jobs'[r] = LeasedTo(jobs[r], w, DaemonLease)
  <2>1. PICK w \in Workers : jobs'[r] = LeasedTo(jobs[r], w, DaemonLease)
    BY <1>3
  <2>2. jobs'[r].st = "leased" /\ jobs'[r].owner = w
    BY <1>1, <2>1 DEF LeasedTo, Row
  <2>3. w # None /\ w \notin Children
    BY TableAssumption DEF TableAssumption
  <2> QED
    BY <2>2, <2>3 DEF Leased, OwnedBy
<1>4. CASE \/ \E o \in {"completed", "errored"} : jobs'[r] = Finished(jobs[r], o)
           \/ jobs'[r] = Repended(jobs[r])
           \/ \E row \in Row : jobs'[r] = row /\ row.st = "pending" /\ row.owner = None
           \/ jobs'[r] = NoRow
  <2>1. jobs'[r].st # "leased" /\ jobs'[r].owner = None
    <3>1. ASSUME NEW o \in {"completed", "errored"}, jobs'[r] = Finished(jobs[r], o)
          PROVE  jobs'[r].st # "leased" /\ jobs'[r].owner = None
      BY <1>1, <3>1 DEF Finished, Row
    <3>2. CASE jobs'[r] = Repended(jobs[r])
      BY <1>1, <3>2 DEF Repended, Row
    <3>3. CASE jobs'[r] = NoRow
      BY <3>3 DEF NoRow
    <3> QED
      BY <1>4, <3>1, <3>2, <3>3
  <2> QED
    BY <2>1, OwnersExist DEF Leased, OwnedBy
<1>5. CASE \/ jobs'[r] = jobs[r]
           \/ \E d \in Int : jobs'[r] = [jobs[r] EXCEPT !.due = d]
           \/ jobs'[r] = [jobs[r] EXCEPT !.lease = ChildLease]
  <2>1. jobs'[r].st = jobs[r].st /\ jobs'[r].owner = jobs[r].owner
    BY <1>1, <1>5 DEF Row
  <2> QED
    BY <1>1, <2>1 DEF Leased, OwnedBy
<1> QED
  BY <1>2, <1>3, <1>4, <1>5 DEF RowStep

(* The sweeps and the clock.                                               *)
LEMMA AgedRowKeeps ==
    ASSUME TableTypeOK, NEW k \in Nat, TableAges(k), NEW r \in Ids
    PROVE  /\ jobs'[r].st = jobs[r].st /\ jobs'[r].owner = jobs[r].owner
           /\ jobs[r].st \in {"pending", "leased"} \/ jobs'[r] = jobs[r]
<1> DEFINE d == Later(jobs[r].due, k, -MaxLate)
           l == Later(jobs[r].lease, k, -1)
<1>1. \/ jobs[r].st = "pending" /\ jobs'[r] = [jobs[r] EXCEPT !.due = d]
      \/ jobs[r].st = "leased" /\ jobs'[r] = [jobs[r] EXCEPT !.due = d, !.lease = l]
      \/ jobs'[r] = jobs[r]
  BY DEF TableAges, AgedRow
<1> HIDE DEF d, l
<1> QED
  BY <1>1 DEF TableTypeOK, Row

LEMMA SweepOwners ==
    ASSUME TableTypeOK, LeasedIffOwned, Swept \/ Requeued \/ Aged(Nat)
    PROVE  LeasedIffOwned' /\ NoNewOwner
<1> SUFFICES ASSUME NEW r \in Ids
             PROVE  /\ Leased(r)' <=> jobs'[r].owner # None
                    /\ \A c \in Children : OwnedBy(r, c)' => OwnedBy(r, c)
  BY DEF LeasedIffOwned, NoNewOwner
<1>1. jobs[r] \in Row /\ (Leased(r) <=> jobs[r].owner # None)
  BY DEF TableTypeOK, LeasedIffOwned
<1>2. \/ jobs'[r].st = jobs[r].st /\ jobs'[r].owner = jobs[r].owner
      \/ jobs'[r].st # "leased" /\ jobs'[r].owner = None
  <2>1. CASE Swept
    <3>1. jobs'[r] = jobs[r] \/ jobs'[r] = Repended(jobs[r])
      BY <2>1 DEF Swept, RecoverAtBoot
    <3> QED
      BY <1>1, <3>1 DEF Repended, Row
  <2>2. CASE Requeued
    <3> DEFINE late == -MaxLate
    <3>1. \/ jobs'[r] = jobs[r]
          \/ /\ jobs[r].st = "errored"
             /\ jobs'[r] = [jobs[r] EXCEPT !.st = "pending", !.due = late]
      BY <2>2 DEF Requeued, RequeueTransient, Requeueable
    <3> HIDE DEF late
    <3> QED
      BY <1>1, <3>1 DEF Leased, Row
  <2>3. CASE Aged(Nat)
    BY <2>3, AgedRowKeeps DEF Aged
  <2> QED
    BY <2>1, <2>2, <2>3
<1> QED
  BY <1>1, <1>2, OwnersExist DEF Leased, OwnedBy

LEMMA TakeoverOwners ==
    ASSUME IInv, LeasedIffOwned, NEW c \in Children, child[c].st = "boot",
           TakeOverLease(child[c].row, c)
    PROVE  /\ LeasedIffOwned'
           /\ \A r \in Ids : \A d \in Children :
                OwnedBy(r, d)' => OwnedBy(r, d) \/ (r = child[c].row /\ d = c)
<1>1. child[c].row \in Ids /\ jobs[child[c].row] \in Row
  BY DEF IInv, ChildRefs, TypeOK, TableTypeOK
<1>2. /\ jobs'[child[c].row].st = "leased" /\ jobs'[child[c].row].owner = c
      /\ \A r \in Ids \ {child[c].row} : jobs'[r] = jobs[r]
  BY <1>1 DEF TakeOverLease, LeasedTo, Row, IInv, TypeOK, TableTypeOK
<1> QED
  BY <1>1, <1>2, OwnersExist DEF LeasedIffOwned, Leased, OwnedBy

(* What a minute does to a child.                                          *)
LEMMA ChildAged ==
    ASSUME NEW c \in Children, child[c] \in ChildState
    PROVE  \/ /\ child[c].st \in {"boot", "run"}
              /\ ChildAges(c).st = child[c].st /\ ChildAges(c).young = FALSE
              /\ ChildAges(c).left = Minus1(child[c].left)
              /\ ChildAges(c).row = child[c].row /\ ChildAges(c).name = child[c].name
           \/ child[c].st \notin {"boot", "run"} /\ ChildAges(c) = Free
<1> DEFINE m == Minus1(child[c].left)
<1>1. \/ /\ child[c].st = "run"
         /\ ChildAges(c) = [child[c] EXCEPT !.left = m, !.beat = TRUE, !.young = FALSE]
      \/ /\ child[c].st = "boot"
         /\ ChildAges(c) = [child[c] EXCEPT !.left = m, !.young = FALSE]
      \/ child[c].st \notin {"boot", "run"} /\ ChildAges(c) = Free
  BY DEF ChildAges
<1> HIDE DEF m
<1>2. ASSUME child[c].st \in {"boot", "run"}
      PROVE  /\ ChildAges(c).st = child[c].st /\ ChildAges(c).young = FALSE
             /\ ChildAges(c).left = m
             /\ ChildAges(c).row = child[c].row /\ ChildAges(c).name = child[c].name
  BY <1>1, <1>2 DEF ChildState
<1>3. child[c].st \notin {"boot", "run"} => ChildAges(c) = Free
  BY <1>1
<1> QED
  BY <1>2, <1>3 DEF m

(* Only a spawn gives a child a row, and only an identity no row names.    *)
LEMMA SameOrSpawned ==
    ASSUME IInv, [Next]_vars
    PROVE  SameChildren \/ SpawnChild
<1> USE DEF IInv
<1>1. CASE UNCHANGED child
  BY <1>1 DEF SameChildren
<1>2. ASSUME NEW c \in Children, ExitsNonzero(c) \/ ExitsZero(c), child[c].st # "free"
      PROVE  SameChildren
  BY <1>2, ExitsKeep
<1>3. ASSUME NEW c \in Children, child[c].st # "free", NEW p,
             child' = [child EXCEPT ![c] = p],
             p.row = child[c].row, p.name = child[c].name
      PROVE  SameChildren
  BY <1>3 DEF SameChildren, TypeOK
<1>4. ASSUME NEW c \in Children, ChildStep(c) PROVE SameChildren
  <2>1. child[c].st # "free" /\ child[c] \in ChildState
    BY <1>4 DEF ChildStep, ChildTakesOver, ChildBeats, ChildFinishes, Running,
                ChildArmSelect, ChildArmWrite, ChildUnlocks, TypeOK
  <2>2. CASE ChildTakesOver(c)
    <3> DEFINE p == [child[c] EXCEPT !.st = "run", !.left = Deadline[child[c].name]]
    <3>1. p.row = child[c].row /\ p.name = child[c].name
      BY <2>1 DEF ChildState
    <3>2. child' = [child EXCEPT ![c] = p] \/ ExitsNonzero(c)
      BY <2>2 DEF ChildTakesOver, TypeOK
    <3> HIDE DEF p
    <3> QED
      BY <1>2, <1>3, <2>1, <3>1, <3>2
  <2>3. CASE ChildBeats(c)
    <3> DEFINE p == [child[c] EXCEPT !.beat = FALSE]
    <3>1. p.row = child[c].row /\ p.name = child[c].name
      BY <2>1 DEF ChildState
    <3>2. child' = [child EXCEPT ![c] = p] \/ ExitsNonzero(c)
      BY <2>3 DEF ChildBeats, TypeOK
    <3> HIDE DEF p
    <3> QED
      BY <1>2, <1>3, <2>1, <3>1, <3>2
  <2>4. ASSUME NEW o \in {"completed", "errored"}, ChildFinishes(c, o)
        PROVE  SameChildren
    <3> DEFINE p == [child[c] EXCEPT !.st = "arm", !.beat = FALSE,
                                     !.left = NoTime, !.outcome = o]
    <3>1. p.row = child[c].row /\ p.name = child[c].name
      BY <2>1 DEF ChildState
    <3>2. child' = [child EXCEPT ![c] = p] \/ ExitsNonzero(c) \/ ExitsZero(c)
      BY <2>4 DEF ChildFinishes, Exits, TypeOK
    <3> HIDE DEF p
    <3> QED
      BY <1>2, <1>3, <2>1, <3>1, <3>2
  <2>5. CASE ChildArmSelect(c)
    <3>1. PICK s : child' = [child EXCEPT ![c].st = "armWrite", ![c].seen = s]
      BY <2>5 DEF ChildArmSelect
    <3> DEFINE p == [child[c] EXCEPT !.st = "armWrite", !.seen = s]
    <3>2. p.row = child[c].row /\ p.name = child[c].name
      BY <2>1 DEF ChildState
    <3>3. child' = [child EXCEPT ![c] = p]
      BY <3>1 DEF TypeOK
    <3> HIDE DEF p
    <3> QED
      BY <1>3, <2>1, <3>2, <3>3
  <2>6. CASE ChildArmWrite(c)
    <3> DEFINE p == [child[c] EXCEPT !.st = "unlock", !.seen = None]
    <3>1. p.row = child[c].row /\ p.name = child[c].name
      BY <2>1 DEF ChildState
    <3>2. child' = [child EXCEPT ![c] = p]
      BY <2>6 DEF ChildArmWrite, TypeOK
    <3> HIDE DEF p
    <3> QED
      BY <1>3, <2>1, <3>1, <3>2
  <2>7. CASE ChildUnlocks(c)
    BY <1>2, <2>1, <2>7 DEF ChildUnlocks, Exits
  <2> QED
    BY <1>4, <2>2, <2>3, <2>4, <2>5, <2>6, <2>7 DEF ChildStep
<1>5. CASE DaemonStep
  <2>1. ASSUME NEW c \in Children, FailSpawn(c) PROVE SameChildren
    BY <1>2, <2>1 DEF FailSpawn
  <2>2. CASE \/ Boot \/ Sweep \/ SeedNext \/ Claim \/ StartHandler \/ HandlerEnds
             \/ SkipSpawn \/ Complete \/ ArmSelect \/ ArmWrite \/ Reap
    BY <1>1, <2>2, DaemonAlone
  <2> QED
    BY <1>5, <2>1, <2>2 DEF DaemonStep
<1>6. CASE Environment
  <2>1. CASE Crash \/ ListenerThrows
    BY <2>1 DEF Crash, ListenerThrows, Dies, SameChildren, Free
  <2>2. ASSUME NEW c \in Children, ChildBeatThrows(c) PROVE SameChildren
    BY <2>2 DEF ChildBeatThrows, Running, SameChildren, TypeOK, ChildState
  <2>3. ASSUME NEW c \in Children,
               ChildCannotStart(c) \/ ChildArmThrows(c) \/ ChildKilled(c)
        PROVE  SameChildren
    BY <1>2, <2>3 DEF ChildCannotStart, ChildArmThrows, ChildKilled, Exits
  <2>4. ASSUME NEW k \in SleepJumps, HostSleeps(k) PROVE SameChildren
    BY <2>4 DEF HostSleeps, SameChildren, Free, TypeOK, ChildState
  <2> QED
    BY <1>1, <1>6, <2>1, <2>2, <2>3, <2>4
       DEF Environment, SpawnThrows, TickThrows, SeedThrows, Requeue, Prune
<1>7. CASE Tick
  <2>1. child' = [c \in Children |-> ChildAges(c)]
    BY <1>7 DEF Tick
  <2>2. Free.st = "free"
    BY DEF Free
  <2> QED
    BY <2>1, <2>2, ChildAged DEF SameChildren, TypeOK
<1> QED
  BY <1>1, <1>4, <1>5, <1>6, <1>7 DEF Next, vars

LEMMA NextOwned == IInv /\ Owned /\ [Next]_vars => Owned'
<1> SUFFICES ASSUME IInv, Owned, [Next]_vars PROVE Owned'
  OBVIOUS
<1> USE DEF Owned
<1>1. CASE Takeover
  <2>1. PICK c \in Children : child[c].st = "boot" /\ TakeOverLease(child[c].row, c)
    BY <1>1 DEF Takeover
  <2>2. /\ LeasedIffOwned'
        /\ \A r \in Ids : \A d \in Children :
             OwnedBy(r, d)' => OwnedBy(r, d) \/ (r = child[c].row /\ d = c)
    BY <2>1, TakeoverOwners
  <2>3. CASE SameChildren
    BY <2>1, <2>2, <2>3 DEF OwnsItsRow, SameChildren
  <2>4. CASE SpawnChild
    <3>1. UNCHANGED jobs
      BY <2>4 DEF SpawnChild
    <3>2. PICK d \in Children : /\ \A r \in Ids : ~OwnedBy(r, d)
                                /\ \A e \in Children \ {d} : child'[e] = child[e]
      BY <2>4 DEF SpawnChild, Spawned, FreshChild, IInv, TypeOK
    <3> QED
      BY <2>2, <3>1, <3>2 DEF OwnsItsRow, OwnedBy
  <2> QED
    BY <2>2, <2>3, <2>4, SameOrSpawned
<1>2. CASE ~Takeover
  <2>1. LeasedIffOwned' /\ NoNewOwner
    <3>1. Aged({1}) => Aged(Nat)
      BY DEF Aged
    <3> QED
      BY <1>2, <3>1, OneStatement, StatementOwners, SweepOwners DEF IInv, TypeOK
  <2>2. CASE SameChildren
    BY <2>1, <2>2 DEF OwnsItsRow, SameChildren, NoNewOwner
  <2>3. CASE SpawnChild
    <3>1. PICK d \in Children : /\ \A r \in Ids : ~OwnedBy(r, d)
                                /\ \A e \in Children \ {d} : child'[e] = child[e]
      BY <2>3 DEF SpawnChild, Spawned, FreshChild, IInv, TypeOK
    <3> QED
      BY <2>1, <3>1 DEF OwnsItsRow, NoNewOwner
  <2> QED
    BY <2>1, <2>2, <2>3, SameOrSpawned
<1> QED
  BY <1>1, <1>2

LEMMA OwnedAlways == Spec => [](IInv /\ Owned)
<1>1. Init => IInv /\ Owned
  <2> SUFFICES ASSUME Init PROVE Owned
    BY InitIInv
  <2> QED
    BY OwnersExist DEF Init, TableInit, NoRow, Owned, LeasedIffOwned, Leased, OwnsItsRow, OwnedBy
<1>2. IInv /\ Owned /\ [Next]_vars => (IInv /\ Owned)'
  BY NextIInv, NextOwned
<1> QED
  BY <1>1, <1>2, PTL DEF Spec

(* Whatever faults happen, a row is leased exactly while it names an       *)
(* owner, and a live child owns no row but the one it was spawned for.     *)
THEOREM RowsAreOwned == Spec => []OwnedRows
<1>1. IInv /\ Owned => OwnedRows
  BY DEF IInv, ChildRefs, Owned, LeasedIffOwned, OwnsItsRow, OwnedRows, Running
<1> QED
  BY <1>1, OwnedAlways, PTL

(* Whatever faults happen, the row of a live child is re-pended only after *)
(* its lease ran out: a daemon that restarts never takes it.               *)
THEOREM RestartsSpareChildren == Spec => RestartSparesChildren
<1>1. ASSUME IInv, Owned, [Next]_vars, NEW r \in Ids, NEW c \in Children,
             Running(c), OwnedBy(r, c), jobs'[r].st = "pending"
      PROVE  Expired(r)
  <2>1. jobs[r] \in Row /\ jobs[r].st = "leased" /\ jobs[r].owner = c
    BY <1>1, OwnersExist DEF IInv, TypeOK, TableTypeOK, Owned, LeasedIffOwned, OwnedBy, Leased
  <2>2. CASE Statement
    <3>1. RowStep(r)
      BY <1>1, <2>2, RowSteps DEF IInv, TypeOK
    <3>2. \A w \in Workers : LeasedTo(jobs[r], w, DaemonLease).st = "leased"
      BY <2>1 DEF LeasedTo, Row
    <3>3. \A o \in {"completed", "errored"} : Finished(jobs[r], o).st = o
      BY <2>1 DEF Finished, Row
    <3>4. /\ \A d \in Int : [jobs[r] EXCEPT !.due = d].st = "leased"
          /\ [jobs[r] EXCEPT !.lease = ChildLease].st = "leased"
      BY <2>1 DEF Row
    <3>5. ~Pending(r) /\ r \notin Prunable
      BY <2>1 DEF Pending, Prunable, Terminal
    <3> QED
      BY <1>1, <2>1, <3>1, <3>2, <3>3, <3>4, <3>5 DEF RowStep
  <2>3. CASE Takeover
    BY <1>1, <2>1, <2>3 DEF Takeover, TakeOverLease, LeasedTo, IInv, TypeOK, TableTypeOK, Row
  <2>4. CASE Swept
    BY <1>1, <2>1, <2>4, TableAssumption DEF Swept, RecoverAtBoot, TableAssumption
  <2>5. CASE Requeued
    <3>1. ~Requeueable(r)
      BY <2>1 DEF Requeueable
    <3>2. jobs'[r] = jobs[r]
      BY <2>5, <3>1 DEF Requeued, RequeueTransient
    <3> QED
      BY <1>1, <2>1, <3>2
  <2>6. CASE Aged(Nat)
    BY <1>1, <2>1, <2>6, AgedRowKeeps DEF Aged, IInv, TypeOK
  <2>7. Aged({1}) => Aged(Nat)
    BY DEF Aged
  <2> QED
    BY <1>1, <2>2, <2>3, <2>4, <2>5, <2>6, <2>7, OneStatement
<1>2. IInv /\ Owned /\ [Next]_vars =>
        [\A r \in Ids : \A c \in Children :
           Running(c) /\ OwnedBy(r, c) /\ jobs'[r].st = "pending" => Expired(r)]_vars
  BY <1>1
<1> QED
  BY <1>2, OwnedAlways, PTL DEF Spec, RestartSparesChildren

(* How a child can leave its run.                                          *)
LEMMA LeavesRun ==
    ASSUME TypeOK, Next, NEW c \in Children, Running(c), child'[c].st # "run"
    PROVE  \/ ChildBeats(c) \/ ChildKilled(c)
           \/ \E o \in {"completed", "errored"} : ChildFinishes(c, o)
<1>1. child[c].st = "run" /\ child[c] \in ChildState
  BY DEF Running, TypeOK
<1>2. ASSUME NEW d \in Children, child[d].st # "run", NEW p,
             child' = [child EXCEPT ![d] = p]
      PROVE  FALSE
  BY <1>1, <1>2 DEF TypeOK
<1>3. ASSUME NEW d \in Children, child[d].st # "run", ExitsNonzero(d) \/ ExitsZero(d)
      PROVE  FALSE
  BY <1>1, <1>3 DEF ExitsNonzero, ExitsZero, TypeOK
<1>4. ~DaemonStep
  <2>1. ~SpawnChild
    BY <1>1 DEF SpawnChild, Spawned, FreshChild, Free, TypeOK
  <2>2. \A d \in Children : ~FailSpawn(d)
    BY <1>3 DEF FailSpawn
  <2> QED
    BY <1>1, <2>1, <2>2, DaemonAlone DEF DaemonStep
<1>5. ~Tick
  <2>1. Tick => child'[c] = ChildAges(c)
    BY DEF Tick
  <2> QED
    BY <1>1, <2>1, ChildAged
<1>6. ASSUME NEW d \in Children, ChildStep(d)
      PROVE  \/ ChildBeats(c)
             \/ \E o \in {"completed", "errored"} : ChildFinishes(c, o)
  <2>1. CASE child[d].st # "run"
    BY <1>1, <1>3, <1>6, <2>1
       DEF ChildStep, ChildTakesOver, ChildBeats, ChildFinishes, Running,
           ChildArmSelect, ChildArmWrite, ChildUnlocks, Exits, TypeOK
  <2>2. CASE child[d].st = "run" /\ d # c
    BY <1>1, <1>6, <2>2
       DEF ChildStep, ChildTakesOver, ChildBeats, ChildFinishes, Running, Exits,
           ExitsNonzero, ExitsZero, ChildArmSelect, ChildArmWrite, ChildUnlocks, TypeOK
  <2>3. CASE d = c
    BY <1>1, <1>6, <2>3
       DEF ChildStep, ChildTakesOver, ChildArmSelect, ChildArmWrite, ChildUnlocks
  <2> QED
    BY <2>1, <2>2, <2>3
<1>7. CASE Environment
  <2>1. ~Crash /\ ~ListenerThrows
    BY <1>1 DEF Crash, ListenerThrows, Dies
  <2>2. \A k \in SleepJumps : ~HostSleeps(k)
    BY <1>1 DEF HostSleeps, ChildState
  <2>3. ASSUME NEW d \in Children,
               ChildCannotStart(d) \/ ChildArmThrows(d)
        PROVE  FALSE
    BY <1>3, <2>3 DEF ChildCannotStart, ChildArmThrows, Exits
  <2>4. ASSUME NEW d \in Children, ChildBeatThrows(d)
        PROVE  FALSE
    BY <1>1, <2>4 DEF ChildBeatThrows, Running, TypeOK, ChildState
  <2>5. ASSUME NEW d \in Children, ChildKilled(d)
        PROVE  ChildKilled(c)
    BY <1>1, <2>5 DEF ChildKilled, ExitsNonzero, TypeOK
  <2> QED
    BY <1>1, <1>7, <2>1, <2>2, <2>3, <2>4, <2>5
       DEF Environment, SpawnThrows, TickThrows, SeedThrows, Requeue, Prune
<1> QED
  BY <1>4, <1>5, <1>6, <1>7 DEF Next

(* Whatever faults happen, a child whose row was taken from it leaves the  *)
(* table and the locks alone on its way out.                               *)
THEOREM ZombiesTouchNothing == Spec => ZombieTouchesNothing
<1>1. ASSUME TypeOK, Next, NEW c \in Children, Running(c),
             ~OwnedBy(child[c].row, c), child'[c].st # "run"
      PROVE  UNCHANGED <<jobs, fresh>>
  <2>1. CASE ChildBeats(c)
    BY <1>1, <2>1 DEF ChildBeats
  <2>2. CASE ChildKilled(c)
    BY <2>2 DEF ChildKilled
  <2>3. ASSUME NEW o \in {"completed", "errored"}, ChildFinishes(c, o)
        PROVE  UNCHANGED <<jobs, fresh>>
    BY <1>1, <2>3 DEF ChildFinishes
  <2> QED
    BY <1>1, <2>1, <2>2, <2>3, LeavesRun
<1>2. TypeOK /\ [Next]_vars =>
        [\A c \in Children :
           Running(c) /\ ~OwnedBy(child[c].row, c) /\ child'[c].st # "run"
           => UNCHANGED <<jobs, fresh>>]_vars
  BY <1>1
<1> QED
  BY <1>2, TypeCorrect, PTL DEF Spec, ZombieTouchesNothing

-----------------------------------------------------------------------------
(* 5. The single-flight lock.  It is acquired by the daemon, released by   *)
(*    the child or by the daemon's exit listener, and outlives whoever     *)
(*    fails to release it: the argument is that nobody releases a lock     *)
(*    another child still needs, and that it does not go stale before the  *)
(*    deadline of the run it guards.                                       *)

(* What has to be excluded: a host that sleeps (the wall clock outruns the *)
(* timers that kill a child), a child that takes longer than the slack to  *)
(* take its row over, a child that releases the lock and leaves its row    *)
(* leased, and an errored row that is re-pended under a dying child.       *)
Prompt ==
    /\ StartMax < Slack
    /\ "sleep" \notin Faults /\ "start" \notin Faults /\ "requeue" \notin Faults

(* The lock a child was spawned under is its own until the child has       *)
(* released it or is gone; a dead child whose row nobody has ended yet     *)
(* holds it too, because its exit listener will release it.                *)
Holder(c) ==
    \/ child[c].st \in {"boot", "run", "arm", "armWrite", "unlock"}
    \/ child[c].st \in {"failed", "noexec"} /\ ~Terminal(child[c].row)

(* The minutes a child may still need it.                                  *)
Outstanding(c) ==
    IF child[c].st = "boot" THEN child[c].left + Deadline[child[c].name]
    ELSE IF child[c].st = "run" THEN child[c].left ELSE 0

InTime(c) == child[c].st \in {"boot", "run"} => child[c].left >= 0

(* A row whose state only its own child, or a reaped lease, can undo.      *)
Safe(r) == Terminal(r) \/ (Leased(r) /\ jobs[r].lease >= 0)

LockLasts ==
    \A c \in Children :
        Holder(c) => fresh[child[c].name] > Outstanding(c) /\ InTime(c)

Sole ==
    /\ \A c, d \in Children :
         Holder(c) /\ Holder(d) /\ child[c].name = child[d].name => c = d
    /\ \A c \in Children : Holder(c) /\ daemon.unlock => child[c].name # daemon.name

Ended ==
    \A c \in Children :
        child[c].st \in {"arm", "armWrite", "unlock"} => Terminal(child[c].row)

InHand ==
    /\ daemon.pc = "handle" => Safe(daemon.row)
    /\ \A c \in watched : child[c].st = "boot" /\ child[c].young => Safe(child[c].row)

Listening ==
    /\ daemon.pc \in {"down", "sweep"} => watched = {}
    /\ daemon.unlock => daemon.pc \in {"arm", "armWrite"}

LockInv == LockLasts /\ Sole /\ Ended /\ InHand /\ Listening

(* What the statements do to a row somebody refers to.                     *)
TerminalKept == \A r \in Ids : Terminal(r) /\ Referenced(r) => Terminal(r)'
SafeKept == \A r \in Ids : Safe(r) /\ Referenced(r) => Safe(r)'

LEMMA LeaseNat == DaemonLease \in Nat /\ ChildLease \in Nat
BY TableAssumption DEF TableAssumption

LEMMA StatementSafe ==
    ASSUME TableTypeOK, LeasedIffOwned, Statement
    PROVE  TerminalKept /\ SafeKept
<1> SUFFICES ASSUME NEW r \in Ids, Referenced(r)
             PROVE  /\ Terminal(r) => Terminal(r)'
                    /\ Safe(r) => Safe(r)'
  BY DEF TerminalKept, SafeKept
<1>1. jobs[r] \in Row /\ (jobs[r].st = "leased" <=> jobs[r].owner # None)
  BY DEF TableTypeOK, LeasedIffOwned, Leased
<1>2. RowStep(r) /\ r \notin Prunable
  BY RowSteps DEF Prunable
<1>3. CASE jobs'[r] = jobs[r]
  BY <1>3 DEF Terminal, Safe, Leased
<1>4. CASE Pending(r) \/ jobs[r].st = "none" \/ Expired(r)
  BY <1>1, <1>4 DEF Pending, Expired, Terminal, Safe, Leased, Row
<1>5. ASSUME NEW o \in {"completed", "errored"}, jobs'[r] = Finished(jobs[r], o)
      PROVE  Terminal(r)'
  BY <1>1, <1>5 DEF Finished, Terminal, Row
<1>6. ASSUME NEW d \in Int, ~Terminal(r), jobs'[r] = [jobs[r] EXCEPT !.due = d]
      PROVE  Safe(r) => Safe(r)'
  <2>1. jobs'[r].st = jobs[r].st /\ jobs'[r].lease = jobs[r].lease
    BY <1>1, <1>6 DEF Row
  <2> QED
    BY <2>1 DEF Safe, Terminal, Leased
<1>7. CASE /\ jobs[r].owner \in Children
           /\ jobs'[r] = [jobs[r] EXCEPT !.lease = ChildLease]
  <2>1. jobs[r].st = "leased" /\ jobs'[r].st = "leased" /\ jobs'[r].lease = ChildLease
    BY <1>1, <1>7, OwnersExist DEF Row
  <2> QED
    BY <2>1, LeaseNat DEF Safe, Terminal, Leased
<1> QED
  BY <1>2, <1>3, <1>4, <1>5, <1>6, <1>7 DEF RowStep, Safe

LEMMA TakeoverSafe ==
    ASSUME TableTypeOK, NEW q \in Ids, NEW c \in Children, Leased(q), TakeOverLease(q, c)
    PROVE  TerminalKept /\ SafeKept
<1>1. jobs[q] \in Row /\ jobs[q].st = "leased"
  BY DEF TableTypeOK, Leased
<1>2. /\ jobs'[q].st = "leased" /\ jobs'[q].lease = ChildLease
      /\ \A r \in Ids \ {q} : jobs'[r] = jobs[r]
  BY <1>1 DEF TakeOverLease, LeasedTo, Row, TableTypeOK
<1> QED
  BY <1>1, <1>2, LeaseNat DEF TerminalKept, SafeKept, Safe, Terminal, Leased

(* The boot sweep and the clock end no row that has ended.                 *)
LEMMA SweptTerminal ==
    ASSUME TableTypeOK, Swept \/ Aged(Nat)
    PROVE  TerminalKept
<1> SUFFICES ASSUME NEW r \in Ids, Terminal(r) PROVE jobs'[r] = jobs[r]
  BY DEF TerminalKept, Terminal
<1>1. CASE Swept
  BY <1>1 DEF Swept, RecoverAtBoot, Expired, Leased, Terminal
<1>2. CASE Aged(Nat)
  BY <1>2, AgedRowKeeps DEF Aged, Terminal
<1> QED
  BY <1>1, <1>2

(* Every lock-holder after the step was one before, and needs no more.     *)
HoldersKept ==
    \A c \in Children : Holder(c)' =>
        /\ Holder(c) /\ child'[c].name = child[c].name
        /\ Outstanding(c)' <= Outstanding(c) /\ InTime(c)'

(* ... it still has its lock, and the daemon is not about to release it.   *)
LocksKept ==
    \A c \in Children : Holder(c)' => fresh'[child[c].name] = fresh[child[c].name]

UnlocksKept ==
    daemon'.unlock => \A c \in Children : Holder(c)' => child[c].name # daemon'.name

LEMMA LeftInt ==
    ASSUME IInv, NEW c \in Children, child[c].st # "free"
    PROVE  /\ child[c].left \in Int /\ Outstanding(c) \in Int
           /\ child[c].name \in Names /\ fresh[child[c].name] \in Nat
           /\ child[c].row \in Ids /\ Referenced(child[c].row)
BY TimeInt DEF IInv, TypeOK, ChildState, ChildRefs, Outstanding, Referenced

LEMMA LocksLast ==
    ASSUME IInv, IInv', LockInv, HoldersKept, LocksKept, UnlocksKept
    PROVE  LockLasts' /\ Sole'
<1>1. ASSUME NEW c \in Children, Holder(c)'
      PROVE  fresh'[child'[c].name] > Outstanding(c)' /\ InTime(c)'
  <2>1. /\ Holder(c) /\ child'[c].name = child[c].name
        /\ Outstanding(c)' <= Outstanding(c) /\ InTime(c)'
        /\ fresh'[child[c].name] = fresh[child[c].name]
    BY <1>1 DEF HoldersKept, LocksKept
  <2>2. fresh[child[c].name] > Outstanding(c)
    BY <2>1 DEF LockInv, LockLasts
  <2>3. child[c].st # "free" /\ child'[c].st # "free"
    BY <1>1, <2>1 DEF Holder
  <2>4. fresh[child[c].name] \in Nat /\ Outstanding(c) \in Int /\ Outstanding(c)' \in Int
    <3>1. Outstanding(c)' \in Int
      BY <2>3, TimeInt DEF IInv, TypeOK, ChildState, ChildRefs, Outstanding
    <3> QED
      BY <2>3, <3>1, LeftInt
  <2> QED
    BY <2>1, <2>2, <2>4
<1>2. Sole'
  BY DEF LockInv, Sole, HoldersKept, UnlocksKept
<1> QED
  BY <1>1, <1>2 DEF LockLasts

(* A child that does not move keeps what it has.                           *)
LEMMA Unmoved ==
    ASSUME IInv, LockInv, TerminalKept, NEW c \in Children, child'[c] = child[c]
    PROVE  /\ Holder(c)' => Holder(c) /\ InTime(c)'
           /\ Outstanding(c)' = Outstanding(c)
           /\ child[c].st # "free" => Outstanding(c)' <= Outstanding(c)
           /\ child[c].st \in {"arm", "armWrite", "unlock"} => Terminal(child[c].row)'
<1>1. child[c].st # "free" =>
        /\ child[c].row \in Ids /\ Referenced(child[c].row)
        /\ Terminal(child[c].row) => Terminal(child[c].row)'
  BY LeftInt DEF TerminalKept
<1>2. Holder(c)' => Holder(c)
  BY <1>1 DEF Holder
<1>3. Outstanding(c)' = Outstanding(c)
  BY DEF Outstanding
<1>4. Holder(c) => InTime(c)'
  BY DEF LockInv, LockLasts, InTime
<1>5. child[c].st # "free" => Outstanding(c)' <= Outstanding(c)
  BY <1>3, LeftInt
<1>6. child[c].st \in {"arm", "armWrite", "unlock"} => Terminal(child[c].row)'
  BY <1>1 DEF LockInv, Ended
<1> QED
  BY <1>2, <1>3, <1>4, <1>5, <1>6

(* Steps that happen while no minute passes.                               *)
Quiet == TerminalKept /\ (SafeKept \/ daemon.pc = "sweep")

LEMMA QuietOrTick ==
    ASSUME IInv, Owned, Prompt, [Next]_vars
    PROVE  Quiet \/ Tick
<1>1. TableTypeOK /\ LeasedIffOwned
  BY DEF IInv, TypeOK, Owned
<1>2. CASE Statement
  BY <1>1, <1>2, StatementSafe DEF Quiet
<1>3. CASE Takeover
  <2>1. PICK c \in Children : /\ child[c].st = "boot" /\ Leased(child[c].row)
                              /\ TakeOverLease(child[c].row, c)
    BY <1>3 DEF Takeover
  <2> QED
    BY <1>1, <2>1, LeftInt, TakeoverSafe DEF Quiet
<1>4. CASE Swept
  BY <1>1, <1>4, SweptTerminal DEF Quiet, Swept
<1> QED
  BY <1>2, <1>3, <1>4, OneStatement DEF Prompt

(* Rows in hand stay safe.                                                 *)
LEMMA WatchedSafe ==
    ASSUME IInv, LockInv, Quiet, NEW c \in watched,
           child'[c] = child[c], child[c].st = "boot", child[c].young
    PROVE  Safe(child[c].row)'
<1>1. c \in Children /\ Safe(child[c].row) /\ SafeKept
  BY DEF IInv, TypeOK, LockInv, InHand, Listening, Quiet
<1>2. child[c].row \in Ids /\ Referenced(child[c].row)
  BY <1>1, LeftInt
<1> QED
  BY <1>1, <1>2 DEF SafeKept, Safe, Terminal, Leased

LEMMA HandledSafe ==
    ASSUME IInv, LockInv, Quiet, daemon.pc = "handle", daemon'.row = daemon.row
    PROVE  Safe(daemon.row)'
<1>1. Safe(daemon.row) /\ SafeKept
  BY DEF LockInv, InHand, Quiet
<1>2. daemon.row \in Ids /\ Referenced(daemon.row)
  BY DEF IInv, TypeOK, DaemonState, DaemonRefs, Referenced
<1> QED
  BY <1>1, <1>2 DEF SafeKept, Safe, Terminal, Leased

(* A step of the daemon that leaves the children alone.                    *)
LEMMA DaemonOnly ==
    ASSUME IInv, IInv', LockInv, Quiet,
           UNCHANGED <<child, watched>>,
           \A c \in Children : Holder(c) => fresh'[child[c].name] = fresh[child[c].name],
           daemon'.pc = "handle" => Safe(daemon.row)',
           daemon'.pc \in {"down", "sweep"} => watched = {},
           daemon'.unlock => /\ daemon.unlock /\ daemon'.name = daemon.name
                             /\ daemon'.pc \in {"arm", "armWrite"}
    PROVE  LockInv'
<1> USE DEF Quiet
<1>1. HoldersKept
  <2> SUFFICES ASSUME NEW c \in Children, Holder(c)'
               PROVE  /\ Holder(c) /\ child'[c].name = child[c].name
                      /\ Outstanding(c)' <= Outstanding(c) /\ InTime(c)'
    BY DEF HoldersKept
  <2>1. Holder(c) /\ InTime(c)'
    BY Unmoved
  <2>2. child[c].st # "free"
    BY <2>1 DEF Holder
  <2> QED
    BY <2>1, <2>2, Unmoved
<1>2. LocksKept /\ UnlocksKept
  BY <1>1 DEF LocksKept, UnlocksKept, HoldersKept, LockInv, Sole
<1>3. LockLasts' /\ Sole'
  BY <1>1, <1>2, LocksLast
<1>4. Ended'
  BY Unmoved DEF Ended
<1>5. InHand'
  BY WatchedSafe DEF InHand
<1>6. Listening'
  BY DEF Listening
<1> QED
  BY <1>3, <1>4, <1>5, <1>6 DEF LockInv

LEMMA DaemonOnlyLock ==
    ASSUME IInv, IInv', LockInv, Quiet,
           \/ Boot \/ Sweep \/ SeedNext \/ Claim \/ StartHandler \/ HandlerEnds
           \/ SkipSpawn \/ Complete \/ ArmSelect \/ ArmWrite \/ Reap
           \/ SpawnThrows \/ TickThrows \/ SeedThrows \/ Requeue \/ Prune
    PROVE  LockInv'
<1>1. daemon \in DaemonState /\ Listening
  BY DEF IInv, TypeOK, LockInv
<1>2. CASE Boot
  BY <1>1, <1>2, DaemonOnly DEF Boot, Down, Listening
<1>3. CASE Sweep
  BY <1>1, <1>3, DaemonOnly DEF Sweep, DaemonState, Listening
<1>4. CASE SeedNext
  <2>1. /\ UNCHANGED <<child, watched, fresh>> /\ daemon.pc = "seed"
        /\ daemon'.pc \in {"idle", "arm"} /\ daemon'.unlock = daemon.unlock
    BY <1>1, <1>4 DEF SeedNext, DaemonState
  <2> QED
    BY <1>1, <2>1, DaemonOnly DEF Listening
<1>5. CASE Claim
  <2>1. PICK r \in Ids :
          /\ ClaimNextJob(r, daemon.pid) /\ UNCHANGED <<child, watched, fresh>>
          /\ daemon.pc = "idle" /\ daemon'.pc = "handle" /\ daemon'.row = r
          /\ daemon'.unlock = daemon.unlock
    BY <1>1, <1>5 DEF Claim, ClaimFor, DaemonState
  <2>2. jobs'[r].st = "leased" /\ jobs'[r].lease = DaemonLease
    BY <2>1 DEF ClaimNextJob, LeasedTo, IInv, TypeOK, TableTypeOK, Row
  <2>3. Safe(daemon.row)'
    BY <2>1, <2>2, LeaseNat DEF Safe, Leased
  <2> QED
    BY <1>1, <2>1, <2>3, DaemonOnly DEF Listening
<1>6. CASE StartHandler \/ HandlerEnds \/ SkipSpawn \/ SpawnThrows
  <2>1. /\ UNCHANGED <<child, watched, fresh>> /\ daemon.pc \in {"handle", "run"}
        /\ daemon'.pc \in {"run", "complete"} /\ daemon'.unlock = daemon.unlock
    <3>1. CASE StartHandler
      BY <1>1, <3>1 DEF StartHandler, DaemonState
    <3>2. CASE HandlerEnds
      BY <1>1, <3>2 DEF HandlerEnds, Settles, DaemonState
    <3>3. CASE SkipSpawn
      BY <1>1, <3>3 DEF SkipSpawn, Settles, DaemonState
    <3>4. CASE SpawnThrows
      BY <1>1, <3>4 DEF SpawnThrows, Settles, DaemonState
    <3> QED
      BY <1>6, <3>1, <3>2, <3>3, <3>4
  <2> QED
    BY <1>1, <2>1, DaemonOnly DEF Listening
<1>7. CASE Complete
  <2>1. /\ UNCHANGED <<child, watched, fresh>> /\ daemon.pc = "complete"
        /\ daemon'.pc = "arm" /\ daemon'.unlock = daemon.unlock
    BY <1>1, <1>7 DEF Complete, DaemonState
  <2> QED
    BY <1>1, <2>1, DaemonOnly DEF Listening
<1>8. CASE ArmSelect
  <2>1. /\ UNCHANGED <<child, watched, fresh>> /\ daemon.pc = "arm"
        /\ daemon'.pc = "armWrite" /\ daemon'.unlock = daemon.unlock
        /\ daemon'.name = daemon.name
    BY <1>1, <1>8 DEF ArmSelect, DaemonState
  <2> QED
    BY <1>1, <2>1, DaemonOnly DEF Listening
<1>9. CASE ArmWrite
  <2>1. /\ UNCHANGED <<child, watched>> /\ daemon.pc = "armWrite"
        /\ daemon'.pc = daemon.then /\ daemon'.unlock = FALSE
        /\ daemon.then \in {"seed", "idle", "run"}
        /\ UNCHANGED fresh \/ (daemon.unlock /\ Releases(daemon.name))
    BY <1>1, <1>9 DEF ArmWrite, Resumes, DaemonState
  <2>2. \A c \in Children : Holder(c) => fresh'[child[c].name] = fresh[child[c].name]
    <3> SUFFICES ASSUME NEW c \in Children, Holder(c), daemon.unlock, Releases(daemon.name)
                 PROVE  fresh'[child[c].name] = fresh[child[c].name]
      BY <2>1
    <3>1. child[c].name # daemon.name /\ child[c].st # "free"
      BY DEF LockInv, Sole, Holder
    <3> QED
      BY <3>1, LeftInt DEF Releases, IInv, TypeOK
  <2> QED
    BY <2>1, <2>2, DaemonOnly
<1>10. CASE Reap
  <2>1. /\ UNCHANGED <<child, watched, fresh>> /\ daemon.pc \in {"seed", "idle", "run"}
        /\ daemon'.pc = daemon.pc /\ daemon'.unlock = daemon.unlock
    BY <1>1, <1>10 DEF Reap, Awaiting, DaemonState
  <2> QED
    BY <1>1, <2>1, DaemonOnly DEF Listening
<1>11. CASE TickThrows \/ SeedThrows
  <2>1. /\ UNCHANGED <<child, watched, fresh>>
        /\ daemon'.pc = "idle" /\ daemon'.unlock = FALSE
    <3>1. CASE TickThrows
      BY <3>1 DEF TickThrows, Down
    <3>2. CASE SeedThrows
      BY <3>2 DEF SeedThrows, Down
    <3> QED
      BY <1>11, <3>1, <3>2
  <2> QED
    BY <2>1, DaemonOnly
<1>12. CASE Requeue \/ Prune
  <2>1. UNCHANGED <<daemon, child, watched, fresh>>
    BY <1>12 DEF Requeue, Prune
  <2>2. daemon'.pc = "handle" => Safe(daemon.row)'
    BY <2>1, HandledSafe
  <2> QED
    BY <1>1, <2>1, <2>2, DaemonOnly DEF Listening
<1> QED
  BY <1>2, <1>3, <1>4, <1>5, <1>6, <1>7, <1>8, <1>9, <1>10, <1>11, <1>12

(* What a step of child c must show.                                       *)
Yields(c) ==
    /\ Holder(c)' => /\ Holder(c) /\ child'[c].name = child[c].name
                     /\ Outstanding(c)' <= Outstanding(c) /\ InTime(c)'
    /\ child'[c].st # "boot"
    /\ child'[c].st \in {"arm", "armWrite", "unlock"} => Terminal(child[c].row)'

LEMMA OthersHold ==
    ASSUME IInv, LockInv, Quiet, NEW c \in Children, Yields(c),
           \A d \in Children \ {c} : child'[d] = child[d],
           watched' \subseteq watched
    PROVE  /\ HoldersKept /\ Ended'
           /\ \A d \in watched' : child'[d].st = "boot" /\ child'[d].young
                => Safe(child[d].row)'
<1> USE DEF Quiet
<1>1. ASSUME NEW d \in Children \ {c}, Holder(d)'
      PROVE  /\ Holder(d) /\ child'[d].name = child[d].name
             /\ Outstanding(d)' <= Outstanding(d) /\ InTime(d)'
  <2>1. child'[d] = child[d] /\ Holder(d) /\ InTime(d)'
    BY <1>1, Unmoved
  <2>2. child[d].st # "free"
    BY <2>1 DEF Holder
  <2> QED
    BY <2>1, <2>2, Unmoved
<1>2. HoldersKept
  BY <1>1 DEF HoldersKept, Yields
<1>3. Ended'
  BY Unmoved DEF Ended, Yields
<1>4. ASSUME NEW d \in watched', child'[d].st = "boot", child'[d].young
      PROVE  Safe(child[d].row)'
  <2>1. d \in watched /\ d \in Children /\ d # c
    BY <1>4 DEF IInv, TypeOK, Yields
  <2>2. child'[d] = child[d]
    BY <2>1
  <2> QED
    BY <1>4, <2>1, <2>2, WatchedSafe
<1> QED
  BY <1>2, <1>3, <1>4

LEMMA ChildOnly ==
    ASSUME IInv, IInv', LockInv, Quiet, NEW c \in Children, Yields(c),
           \A d \in Children \ {c} : child'[d] = child[d],
           UNCHANGED daemon, watched' \subseteq watched,
           \/ UNCHANGED fresh
           \/ Holder(c) /\ ~Holder(c)' /\ Releases(child[c].name)
    PROVE  LockInv'
<1>1. /\ HoldersKept /\ Ended'
      /\ \A d \in watched' : child'[d].st = "boot" /\ child'[d].young
           => Safe(child[d].row)'
  BY OthersHold
<1>2. LocksKept
  <2> SUFFICES ASSUME NEW d \in Children, Holder(d)', Holder(c), ~Holder(c)',
                      Releases(child[c].name)
               PROVE  fresh'[child[d].name] = fresh[child[d].name]
    BY DEF LocksKept
  <2>1. Holder(d) /\ d # c
    BY <1>1 DEF HoldersKept
  <2>2. child[d].name # child[c].name /\ child[d].st # "free"
    BY <2>1 DEF LockInv, Sole, Holder
  <2> QED
    BY <2>2, LeftInt DEF Releases, IInv, TypeOK
<1>3. UnlocksKept
  BY <1>1 DEF UnlocksKept, HoldersKept, LockInv, Sole
<1>4. LockLasts' /\ Sole'
  BY <1>1, <1>2, <1>3, LocksLast
<1>5. InHand' /\ Listening'
  BY <1>1, HandledSafe DEF InHand, LockInv, Listening
<1> QED
  BY <1>1, <1>4, <1>5 DEF LockInv

(* A child that ends: it keeps its lock, or its row has ended.             *)
LEMMA ExitYields ==
    ASSUME IInv, LockInv, TerminalKept, NEW c \in Children,
           child[c].st \in {"boot", "run", "arm", "armWrite", "unlock"},
           ExitsNonzero(c) \/ ExitsZero(c)
    PROVE  /\ Yields(c) /\ Holder(c)
           /\ \A d \in Children \ {c} : child'[d] = child[d]
           /\ watched' \subseteq watched
           /\ \/ child'[c].st = "free"
              \/ /\ child'[c].st = "failed" /\ c \in watched /\ child[c].young
                 /\ child'[c].row = child[c].row
<1>1. child[c] \in ChildState /\ child[c].st # "free"
  BY DEF IInv, TypeOK
<1>2. /\ \/ child' = [child EXCEPT ![c] = Free]
         \/ /\ child' = [child EXCEPT ![c] = FailedExit(child[c])]
            /\ c \in watched /\ child[c].young
      /\ watched' \subseteq watched
  BY DEF ExitsNonzero, ExitsZero, IInv, TypeOK
<1>3. Free.st = "free"
  BY DEF Free
<1>4. /\ FailedExit(child[c]).st = "failed"
      /\ FailedExit(child[c]).row = child[c].row
      /\ FailedExit(child[c]).name = child[c].name
  BY <1>1 DEF FailedExit, Free, ChildState
<1>5. Holder(c)
  BY DEF Holder
<1>6. /\ \/ child'[c] = Free
         \/ /\ child'[c] = FailedExit(child[c])
            /\ c \in watched /\ child[c].young
      /\ \A d \in Children \ {c} : child'[d] = child[d]
  BY <1>2 DEF IInv, TypeOK
<1>7. Yields(c)
  <2>1. CASE child'[c] = Free
    BY <1>3, <2>1 DEF Yields, Holder
  <2>2. CASE child'[c] = FailedExit(child[c])
    <3>1. Outstanding(c)' = 0 /\ InTime(c)'
      BY <1>4, <2>2 DEF Outstanding, InTime
    <3>2. Outstanding(c) >= 0
      <4>1. InTime(c) /\ child[c].left \in Int /\ child[c].name \in Names
        BY <1>1, <1>5, LeftInt DEF LockInv, LockLasts
      <4>2. Deadline[child[c].name] \in Nat
        BY <4>1, SchedulerAssumption DEF SchedulerAssumption
      <4> QED
        BY <4>1, <4>2 DEF InTime, Outstanding
    <3> QED
      BY <1>4, <1>5, <2>2, <3>1, <3>2 DEF Yields
  <2> QED
    BY <1>6, <2>1, <2>2
<1> QED
  BY <1>2, <1>3, <1>4, <1>5, <1>6, <1>7

(* A child that goes on.                                                   *)
LEMMA MoveYields ==
    ASSUME IInv, LockInv, NEW c \in Children,
           child[c].st \in {"boot", "run", "arm", "armWrite"},
           child'[c].name = child[c].name,
           \/ /\ child'[c].st = "run" /\ child[c].st = "boot"
              /\ child'[c].left = Deadline[child[c].name]
           \/ /\ child'[c].st = "run" /\ child[c].st = "run"
              /\ child'[c].left = child[c].left
           \/ child'[c].st \in {"arm", "armWrite", "unlock"} /\ Terminal(child[c].row)'
    PROVE  Yields(c)
<1>1. Holder(c)
  BY DEF Holder
<1>2. InTime(c) /\ child[c].left \in Int /\ Deadline[child[c].name] \in Nat
  <2>1. child[c].left \in Int /\ child[c].name \in Names
    BY LeftInt
  <2> QED
    BY <1>1, <2>1, SchedulerAssumption DEF SchedulerAssumption, LockInv, LockLasts
<1>3. Outstanding(c)' <= Outstanding(c) /\ InTime(c)'
  BY <1>2 DEF Outstanding, InTime
<1> QED
  BY <1>1, <1>3 DEF Yields

(* A completed row has ended.                                              *)
LEMMA CompleteEnds ==
    ASSUME TableTypeOK, NEW r \in Ids, NEW o \in {"completed", "errored"},
           jobs[r].st # "none", CompleteJob(r, o)
    PROVE  jobs'[r].st = o
BY FinishedRow DEF CompleteJob, TableTypeOK

LEMMA ChildTakesOverLock ==
    ASSUME IInv, IInv', LockInv, Quiet, NEW c \in Children, ChildTakesOver(c)
    PROVE  LockInv'
<1>1. /\ child[c].st = "boot" /\ child[c].row \in Ids
      /\ child[c] \in ChildState
      /\ jobs[child[c].row].st # "none" /\ jobs[child[c].row].name = child[c].name
      /\ UNCHANGED daemon
  BY DEF ChildTakesOver, IInv, ChildRefs, TypeOK
<1>2. CASE TakeOverAllowed(child[c].row, child[c].name)
  <2> DEFINE p == [child[c] EXCEPT !.st = "run", !.left = Deadline[child[c].name]]
  <2>1. /\ p.st = "run" /\ p.left = Deadline[child[c].name]
        /\ p.row = child[c].row /\ p.name = child[c].name
    BY <1>1 DEF ChildState
  <2>2. child' = [child EXCEPT ![c] = p] /\ UNCHANGED <<watched, fresh>>
    BY <1>2 DEF ChildTakesOver, IInv, TypeOK
  <2> HIDE DEF p
  <2>3. child'[c] = p /\ \A d \in Children \ {c} : child'[d] = child[d]
    BY <2>2 DEF IInv, TypeOK
  <2>4. Yields(c)
    BY <1>1, <2>1, <2>3, MoveYields
  <2> QED
    BY <1>1, <2>2, <2>3, <2>4, ChildOnly
<1>3. CASE ~TakeOverAllowed(child[c].row, child[c].name)
  <2>1. /\ Releases(child[c].name) /\ ExitsNonzero(c) /\ UNCHANGED jobs
    BY <1>3 DEF ChildTakesOver
  <2>2. TerminalKept
    BY DEF Quiet
  <2>3. /\ Yields(c) /\ Holder(c)
        /\ \A d \in Children \ {c} : child'[d] = child[d]
        /\ watched' \subseteq watched
        /\ \/ child'[c].st = "free"
           \/ /\ child'[c].st = "failed" /\ c \in watched /\ child[c].young
              /\ child'[c].row = child[c].row
    BY <1>1, <2>1, <2>2, ExitYields
  <2>4. ~Holder(c)'
    <3>1. c \in watched /\ child[c].young => Terminal(child[c].row)
      BY <1>1, <1>3 DEF LockInv, InHand, Safe, TakeOverAllowed, Leased
    <3> QED
      BY <2>1, <2>3, <3>1 DEF Holder, Terminal
  <2> QED
    BY <1>1, <2>1, <2>3, <2>4, ChildOnly
<1> QED
  BY <1>2, <1>3

LEMMA ChildBeatsLock ==
    ASSUME IInv, IInv', LockInv, Quiet, NEW c \in Children,
           ChildBeats(c) \/ ChildBeatThrows(c)
    PROVE  LockInv'
<1>1. /\ child[c].st = "run" /\ child[c] \in ChildState
      /\ UNCHANGED <<daemon, fresh>>
  BY DEF ChildBeats, ChildBeatThrows, Running, IInv, TypeOK
<1> DEFINE p == [child[c] EXCEPT !.beat = FALSE]
<1>2. /\ p.st = child[c].st /\ p.left = child[c].left
      /\ p.row = child[c].row /\ p.name = child[c].name
  BY <1>1 DEF ChildState
<1>3. \/ child' = [child EXCEPT ![c] = p] /\ UNCHANGED watched
      \/ ExitsNonzero(c)
  BY DEF ChildBeats, ChildBeatThrows, IInv, TypeOK
<1> HIDE DEF p
<1>4. /\ Yields(c) /\ \A d \in Children \ {c} : child'[d] = child[d]
      /\ watched' \subseteq watched
  <2>1. CASE child' = [child EXCEPT ![c] = p] /\ UNCHANGED watched
    <3>1. child'[c] = p /\ \A d \in Children \ {c} : child'[d] = child[d]
      BY <2>1 DEF IInv, TypeOK
    <3>2. Yields(c)
      BY <1>1, <1>2, <3>1, MoveYields
    <3> QED
      BY <2>1, <3>1, <3>2
  <2>2. CASE ExitsNonzero(c)
    BY <1>1, <2>2, ExitYields DEF Quiet
  <2> QED
    BY <1>3, <2>1, <2>2
<1> QED
  BY <1>1, <1>4, ChildOnly

LEMMA ChildFinishesLock ==
    ASSUME IInv, IInv', LockInv, Quiet, NEW c \in Children,
           NEW o \in {"completed", "errored"}, ChildFinishes(c, o)
    PROVE  LockInv'
<1>1. /\ child[c].st = "run" /\ child[c] \in ChildState
      /\ child[c].row \in Ids /\ jobs[child[c].row].st # "none"
      /\ UNCHANGED <<daemon, fresh>>
  BY DEF ChildFinishes, Running, IInv, TypeOK, ChildRefs
<1>2. CASE OwnedBy(child[c].row, c)
  <2> DEFINE p == [child[c] EXCEPT !.st = "arm", !.beat = FALSE,
                                   !.left = NoTime, !.outcome = o]
  <2>1. p.st = "arm" /\ p.row = child[c].row /\ p.name = child[c].name
    BY <1>1 DEF ChildState
  <2>2. /\ child' = [child EXCEPT ![c] = p] /\ UNCHANGED watched
        /\ CompleteJob(child[c].row, o)
    BY <1>2 DEF ChildFinishes, IInv, TypeOK
  <2> HIDE DEF p
  <2>3. Terminal(child[c].row)'
    <3>1. jobs'[child[c].row].st = o
      BY <1>1, <2>2, CompleteEnds DEF IInv, TypeOK
    <3>2. child'[c].row = child[c].row
      BY <2>1, <2>2 DEF IInv, TypeOK
    <3> QED
      BY <3>1, <3>2 DEF Terminal
  <2>4. Yields(c) /\ \A d \in Children \ {c} : child'[d] = child[d]
    <3>1. child'[c] = p /\ \A d \in Children \ {c} : child'[d] = child[d]
      BY <2>2 DEF IInv, TypeOK
    <3>2. Yields(c)
      BY <1>1, <2>1, <2>3, <3>1, MoveYields
    <3> QED
      BY <3>1, <3>2
  <2> QED
    BY <1>1, <2>2, <2>4, ChildOnly
<1>3. CASE ~OwnedBy(child[c].row, c)
  <2>1. ExitsNonzero(c) \/ ExitsZero(c)
    BY <1>3 DEF ChildFinishes, Exits
  <2>2. /\ Yields(c) /\ \A d \in Children \ {c} : child'[d] = child[d]
        /\ watched' \subseteq watched
    BY <1>1, <2>1, ExitYields DEF Quiet
  <2> QED
    BY <1>1, <2>2, ChildOnly
<1> QED
  BY <1>2, <1>3

LEMMA ChildRearmsLock ==
    ASSUME IInv, IInv', LockInv, Quiet, NEW c \in Children,
           ChildArmSelect(c) \/ ChildArmWrite(c)
    PROVE  LockInv'
<1>1. /\ child[c].st \in {"arm", "armWrite"} /\ child[c] \in ChildState
      /\ child[c].row \in Ids /\ Referenced(child[c].row)
      /\ Terminal(child[c].row) /\ UNCHANGED <<daemon, watched, fresh>>
  <2>1. child[c].st \in {"arm", "armWrite"} /\ UNCHANGED <<daemon, watched, fresh>>
    BY DEF ChildArmSelect, ChildArmWrite
  <2> QED
    BY <2>1, LeftInt DEF IInv, TypeOK, LockInv, Ended
<1>2. /\ child'[c].st \in {"armWrite", "unlock"}
      /\ child'[c].row = child[c].row /\ child'[c].name = child[c].name
      /\ \A d \in Children \ {c} : child'[d] = child[d]
  <2>1. CASE ChildArmSelect(c)
    <3>1. PICK s : child' = [child EXCEPT ![c].st = "armWrite", ![c].seen = s]
      BY <2>1 DEF ChildArmSelect
    <3> QED
      BY <1>1, <3>1 DEF ChildState, IInv, TypeOK
  <2>2. CASE ChildArmWrite(c)
    BY <1>1, <2>2 DEF ChildArmWrite, ChildState, IInv, TypeOK
  <2> QED
    BY <2>1, <2>2
<1>3. Terminal(child[c].row)'
  BY <1>1, <1>2 DEF Quiet, TerminalKept, Terminal
<1>4. Yields(c)
  BY <1>1, <1>2, <1>3, MoveYields
<1> QED
  BY <1>1, <1>2, <1>4, ChildOnly

LEMMA ChildEndsLock ==
    ASSUME IInv, IInv', LockInv, Quiet, NEW c \in Children,
           ChildUnlocks(c) \/ ChildArmThrows(c) \/ ChildKilled(c)
    PROVE  LockInv'
<1>1. /\ child[c].st \in {"boot", "run", "arm", "armWrite", "unlock"}
      /\ ExitsNonzero(c) \/ ExitsZero(c)
      /\ UNCHANGED <<jobs, daemon>>
      /\ UNCHANGED fresh \/ (child[c].st = "unlock" /\ Releases(child[c].name))
  BY DEF ChildUnlocks, ChildArmThrows, ChildKilled, Exits
<1>2. /\ Yields(c) /\ Holder(c)
      /\ \A d \in Children \ {c} : child'[d] = child[d]
      /\ watched' \subseteq watched
      /\ \/ child'[c].st = "free"
         \/ child'[c].st = "failed" /\ child'[c].row = child[c].row
  BY <1>1, ExitYields DEF Quiet
<1>3. child[c].st = "unlock" => ~Holder(c)'
  BY <1>1, <1>2 DEF LockInv, Ended, Holder, Terminal
<1> QED
  BY <1>1, <1>2, <1>3, ChildOnly

(* A spawn needs a lock that is absent or stale, so nobody holds it.       *)
LEMMA SpawnChildLock ==
    ASSUME IInv, IInv', Prompt, LockInv, Quiet, SpawnChild
    PROVE  LockInv'
<1>1. /\ daemon \in DaemonState /\ daemon.pc = "handle" /\ ~daemon.unlock
      /\ daemon.row \in Ids /\ daemon.rowName \in Names
      /\ fresh[daemon.rowName] = 0 /\ Safe(daemon.row)
      /\ UNCHANGED jobs
  <2>1. daemon.pc = "handle" /\ fresh[daemon.rowName] = 0 /\ UNCHANGED jobs
    BY DEF SpawnChild, Acquires
  <2> QED
    BY <2>1 DEF IInv, TypeOK, DaemonRefs, DaemonState, LockInv, Listening, InHand
<1>2. PICK c \in Children, st \in {"boot", "noexec"}, m \in {StartMax, NoTime} :
        Spawned(c, st, m) /\ (st = "boot" => m = StartMax)
  BY DEF SpawnChild
<1> DEFINE p == [Free EXCEPT !.st = st, !.row = daemon.row, !.name = daemon.rowName,
                             !.left = m, !.young = TRUE]
<1>3. /\ child[c] = Free /\ child' = [child EXCEPT ![c] = p]
      /\ watched' = watched \cup {c}
      /\ daemon' = [daemon EXCEPT !.pc = "idle", !.row = None, !.rowName = None]
  BY <1>2 DEF Spawned, FreshChild
<1>4. p.st = st /\ p.row = daemon.row /\ p.name = daemon.rowName /\ p.left = m
  BY DEF Free
<1> HIDE DEF p
<1>5. child'[c] = p /\ \A d \in Children \ {c} : child'[d] = child[d]
  BY <1>3 DEF IInv, TypeOK
<1>6. daemon'.pc = "idle" /\ ~daemon'.unlock
  BY <1>1, <1>3 DEF DaemonState
<1>7. fresh' = [fresh EXCEPT ![daemon.rowName] = StaleAfter(daemon.rowName)]
  BY DEF SpawnChild, Acquires
<1>8. ASSUME NEW d \in Children \ {c}, Holder(d)'
      PROVE  /\ Holder(d) /\ child'[d] = child[d] /\ child[d].st # "free"
             /\ child[d].name # daemon.rowName /\ child[d].name \in Names
             /\ fresh'[child[d].name] = fresh[child[d].name]
             /\ Outstanding(d)' = Outstanding(d) /\ InTime(d)'
  <2>1. child'[d] = child[d] /\ Holder(d) /\ InTime(d)' /\ Outstanding(d)' = Outstanding(d)
    BY <1>5, <1>8, Unmoved DEF Quiet
  <2>2. child[d].st # "free"
    BY <2>1 DEF Holder
  <2>3. /\ fresh[child[d].name] > Outstanding(d) /\ InTime(d)
        /\ Outstanding(d) >= 0 /\ child[d].name \in Names
    <3>1. fresh[child[d].name] > Outstanding(d) /\ InTime(d)
      BY <2>1 DEF LockInv, LockLasts
    <3>2. child[d].left \in Int /\ child[d].name \in Names
      BY <2>2, LeftInt
    <3>3. Deadline[child[d].name] \in Nat
      BY <3>2, SchedulerAssumption DEF SchedulerAssumption
    <3> QED
      BY <3>1, <3>2, <3>3 DEF InTime, Outstanding
  <2>4. child[d].name # daemon.rowName
    BY <1>1, <2>2, <2>3, LeftInt
  <2>5. fresh'[child[d].name] = fresh[child[d].name]
    BY <1>7, <2>3, <2>4 DEF IInv, TypeOK
  <2> QED
    BY <2>1, <2>2, <2>3, <2>4, <2>5
<1>9. fresh'[daemon.rowName] > Outstanding(c)' /\ InTime(c)'
  <2>1. fresh'[daemon.rowName] = Deadline[daemon.rowName] + Slack
    BY <1>1, <1>7 DEF StaleAfter, IInv, TypeOK
  <2>2. /\ Deadline[daemon.rowName] \in Nat \ {0} /\ Slack \in Nat \ {0}
        /\ StartMax \in Nat /\ StartMax < Slack
    BY <1>1, SchedulerAssumption DEF SchedulerAssumption, Prompt
  <2>3. CASE st = "boot"
    BY <1>2, <1>4, <1>5, <2>1, <2>2, <2>3 DEF Outstanding, InTime
  <2>4. CASE st = "noexec"
    BY <1>4, <1>5, <2>1, <2>2, <2>4 DEF Outstanding, InTime
  <2> QED
    BY <2>3, <2>4
<1>10. LockLasts'
  <2> SUFFICES ASSUME NEW d \in Children, Holder(d)'
               PROVE  fresh'[child'[d].name] > Outstanding(d)' /\ InTime(d)'
    BY DEF LockLasts
  <2>1. CASE d = c
    BY <1>4, <1>5, <1>9, <2>1
  <2>2. CASE d # c
    BY <1>8, <2>2 DEF LockInv, LockLasts
  <2> QED
    BY <2>1, <2>2
<1>11. Sole'
  <2>1. ASSUME NEW d \in Children, NEW e \in Children, Holder(d)', Holder(e)',
               child'[d].name = child'[e].name
        PROVE  d = e
    <3>1. CASE d = c
      BY <1>4, <1>5, <1>8, <2>1, <3>1
    <3>2. CASE e = c
      BY <1>4, <1>5, <1>8, <2>1, <3>2
    <3>3. CASE d # c /\ e # c
      BY <1>8, <2>1, <3>3 DEF LockInv, Sole
    <3> QED
      BY <3>1, <3>2, <3>3
  <2> QED
    BY <1>6, <2>1 DEF Sole
<1>12. Ended'
  <2>1. child'[c].st \notin {"arm", "armWrite", "unlock"}
    BY <1>4, <1>5
  <2> QED
    BY <1>5, <2>1, Unmoved DEF Ended, Quiet
<1>13. InHand'
  <2>1. ASSUME NEW d \in watched', child'[d].st = "boot", child'[d].young
        PROVE  Safe(child[d].row)'
    <3>1. CASE d = c
      <4>1. child'[d].row = daemon.row
        BY <1>4, <1>5, <3>1
      <4> QED
        BY <1>1, <4>1 DEF Safe, Terminal, Leased
    <3>2. CASE d # c
      <4>1. d \in watched /\ d \in Children
        BY <1>3, <3>2 DEF IInv, TypeOK
      <4>2. child'[d] = child[d]
        BY <1>5, <3>2, <4>1
      <4> QED
        BY <2>1, <4>1, <4>2, WatchedSafe
    <3> QED
      BY <3>1, <3>2
  <2> QED
    BY <1>6, <2>1 DEF InHand
<1>14. Listening'
  BY <1>6 DEF Listening
<1> QED
  BY <1>10, <1>11, <1>12, <1>13, <1>14 DEF LockInv

(* failSpawn: the lock passes from the dead child to the daemon, which     *)
(* releases it after the re-arm.                                           *)
LEMMA FailSpawnLock ==
    ASSUME IInv, IInv', LockInv, Quiet, NEW c \in Children, FailSpawn(c)
    PROVE  LockInv'
<1>1. /\ daemon \in DaemonState /\ daemon.pc \in {"seed", "idle", "run"}
      /\ child[c].st \in {"failed", "noexec"} /\ ~daemon.unlock
      /\ UNCHANGED fresh /\ watched' \subseteq watched
      /\ child'[c] = Free /\ \A d \in Children \ {c} : child'[d] = child[d]
  <2>1. /\ daemon.pc \in {"seed", "idle", "run"}
        /\ child[c].st \in {"failed", "noexec"} /\ UNCHANGED fresh
        /\ child' = [child EXCEPT ![c] = Free] /\ watched' = watched \ {c}
    BY DEF FailSpawn, Awaiting, ExitsZero
  <2> QED
    BY <2>1 DEF IInv, TypeOK, LockInv, Listening
<1>2. Yields(c)
  BY <1>1 DEF Yields, Holder, Free
<1>3. /\ HoldersKept /\ Ended'
      /\ \A d \in watched' : child'[d].st = "boot" /\ child'[d].young
           => Safe(child[d].row)'
  BY <1>1, <1>2, OthersHold
<1>4. LocksKept
  BY <1>1 DEF LocksKept
<1>5. /\ daemon'.pc \notin {"handle", "down", "sweep"}
      /\ daemon'.unlock => daemon'.pc \in {"arm", "armWrite"}
      /\ UnlocksKept
  <2>1. CASE Leased(child[c].row)
    <3>1. daemon'.pc = "arm" /\ daemon'.name = child[c].name
      BY <1>1, <2>1 DEF FailSpawn, DaemonState
    <3>2. Holder(c)
      BY <1>1, <2>1 DEF Holder, Leased, Terminal
    <3>3. ASSUME NEW d \in Children, Holder(d)' PROVE child[d].name # child[c].name
      <4>1. Holder(d)
        BY <1>3, <3>3 DEF HoldersKept
      <4>2. d # c
        BY <1>1, <3>3 DEF Holder, Free
      <4> QED
        BY <3>2, <4>1, <4>2 DEF LockInv, Sole
    <3> QED
      BY <3>1, <3>3 DEF UnlocksKept
  <2>2. CASE ~Leased(child[c].row)
    BY <1>1, <2>2 DEF FailSpawn, UnlocksKept
  <2> QED
    BY <2>1, <2>2
<1>6. LockLasts' /\ Sole'
  BY <1>3, <1>4, <1>5, LocksLast
<1>7. InHand' /\ Listening'
  BY <1>3, <1>5 DEF InHand, Listening
<1> QED
  BY <1>3, <1>6, <1>7 DEF LockInv

(* The daemon dies: nobody listens any more, every lock stays.             *)
LEMMA DiesLock ==
    ASSUME IInv, IInv', LockInv, Quiet, Crash \/ ListenerThrows
    PROVE  LockInv'
<1>1. /\ daemon' = Down /\ UNCHANGED fresh /\ watched' = {}
      /\ \A c \in Children : child'[c] = child[c] \/ child'[c] = Free
  BY DEF Crash, ListenerThrows, Dies
<1>2. Free.st = "free" /\ Down.pc = "down" /\ ~Down.unlock
  BY DEF Free, Down
<1>3. HoldersKept
  <2> SUFFICES ASSUME NEW c \in Children, Holder(c)'
               PROVE  /\ Holder(c) /\ child'[c].name = child[c].name
                      /\ Outstanding(c)' <= Outstanding(c) /\ InTime(c)'
    BY DEF HoldersKept
  <2>1. child'[c] = child[c]
    BY <1>1, <1>2 DEF Holder
  <2>2. Holder(c) /\ InTime(c)'
    BY <2>1, Unmoved DEF Quiet
  <2>3. child[c].st # "free"
    BY <2>2 DEF Holder
  <2> QED
    BY <2>1, <2>2, <2>3, Unmoved DEF Quiet
<1>4. LocksKept /\ UnlocksKept
  BY <1>1, <1>2 DEF LocksKept, UnlocksKept
<1>5. Ended'
  <2> SUFFICES ASSUME NEW c \in Children, child'[c].st \in {"arm", "armWrite", "unlock"}
               PROVE  Terminal(child[c].row)'
    BY DEF Ended
  <2>1. child'[c] = child[c]
    BY <1>1, <1>2
  <2> QED
    BY <2>1, Unmoved DEF Quiet
<1>6. InHand' /\ Listening'
  BY <1>1, <1>2 DEF InHand, Listening
<1> QED
  BY <1>3, <1>4, <1>5, <1>6, LocksLast DEF LockInv

(* A minute: every lock gets older, and so does the run it guards.         *)
LEMMA TickLock ==
    ASSUME IInv, IInv', LockInv, Tick
    PROVE  LockInv'
<1>1. /\ daemon \in DaemonState /\ daemon.pc \in {"down", "idle", "run"}
      /\ daemon' = [daemon EXCEPT !.left = Minus1(@), !.reap = Up]
      /\ watched' \subseteq watched /\ ~daemon.unlock
      /\ child' = [c \in Children |-> ChildAges(c)]
      /\ fresh' = [n \in Names |-> Minus1(fresh[n])]
  BY DEF Tick, DaemonRests, LockAges, IInv, TypeOK, LockInv, Listening
<1>2. daemon'.pc = daemon.pc /\ daemon'.unlock = daemon.unlock
  BY <1>1 DEF DaemonState
<1>3. Free.st = "free"
  BY DEF Free
<1>4. ASSUME NEW c \in Children
      PROVE  \/ /\ child[c].st \in {"boot", "run"}
                /\ child'[c].st = child[c].st /\ child'[c].young = FALSE
                /\ child'[c].left = Minus1(child[c].left)
                /\ child'[c].name = child[c].name
             \/ child'[c].st = "free"
  <2>1. child[c] \in ChildState /\ child'[c] = ChildAges(c)
    BY <1>1 DEF IInv, TypeOK
  <2> QED
    BY <1>3, <2>1, ChildAged
<1>5. ASSUME NEW c \in Children, Holder(c)'
      PROVE  /\ Holder(c) /\ child'[c].name = child[c].name
             /\ fresh'[child'[c].name] > Outstanding(c)' /\ InTime(c)'
  <2>1. /\ child[c].st \in {"boot", "run"}
        /\ child'[c].st = child[c].st
        /\ child'[c].left = Minus1(child[c].left)
        /\ child'[c].name = child[c].name
    BY <1>4, <1>5 DEF Holder
  <2>2. Holder(c)
    BY <2>1 DEF Holder
  <2>3. child[c].left \in Int /\ child[c].left > 0
    BY <2>1, LeftInt DEF Tick, ChildRests
  <2>4. child[c].name \in Names /\ fresh[child[c].name] \in Nat
    BY <2>1, LeftInt
  <2>5. Deadline[child[c].name] \in Nat
    BY <2>4, SchedulerAssumption DEF SchedulerAssumption
  <2>6. fresh[child[c].name] > Outstanding(c)
    BY <2>2 DEF LockInv, LockLasts
  <2>7. fresh'[child[c].name] = Minus1(fresh[child[c].name])
    BY <1>1, <2>4
  <2>8. child'[c].left = child[c].left - 1 /\ InTime(c)'
    BY <2>1, <2>3 DEF Minus1, InTime
  <2>9. fresh'[child[c].name] > Outstanding(c)'
    <3>1. CASE child[c].st = "boot"
      <4>1. /\ Outstanding(c) = child[c].left + Deadline[child[c].name]
            /\ Outstanding(c)' = child[c].left - 1 + Deadline[child[c].name]
        BY <2>1, <2>8, <3>1 DEF Outstanding
      <4> QED
        BY <2>3, <2>4, <2>5, <2>6, <2>7, <4>1 DEF Minus1
    <3>2. CASE child[c].st = "run"
      <4>1. Outstanding(c) = child[c].left /\ Outstanding(c)' = child[c].left - 1
        BY <2>1, <2>8, <3>2 DEF Outstanding
      <4> QED
        BY <2>3, <2>4, <2>6, <2>7, <4>1 DEF Minus1
    <3> QED
      BY <2>1, <3>1, <3>2
  <2> QED
    BY <2>1, <2>2, <2>8, <2>9
<1>6. LockLasts'
  BY <1>5 DEF LockLasts
<1>7. Sole'
  BY <1>1, <1>2, <1>5 DEF Sole, LockInv
<1>8. Ended'
  BY <1>4 DEF Ended
<1>9. InHand'
  <2>1. \A c \in watched' : ~(child'[c].st = "boot" /\ child'[c].young)
    BY <1>1, <1>4 DEF IInv, TypeOK
  <2> QED
    BY <1>1, <1>2, <2>1 DEF InHand
<1>10. Listening'
  BY <1>1, <1>2 DEF Listening, LockInv
<1> QED
  BY <1>6, <1>7, <1>8, <1>9, <1>10 DEF LockInv

LEMMA InitLock == Init => LockInv
<1> SUFFICES ASSUME Init PROVE LockInv
  OBVIOUS
<1>1. /\ \A c \in Children : child[c] = Free
      /\ daemon = Down /\ watched = {}
  BY DEF Init
<1>2. Free.st = "free" /\ Down.pc = "down" /\ ~Down.unlock
  BY DEF Free, Down
<1> QED
  BY <1>1, <1>2 DEF LockInv, LockLasts, Sole, Ended, InHand, Listening, Holder

LEMMA NextLock ==
    ASSUME Prompt, IInv, Owned, LockInv, [Next]_vars
    PROVE  LockInv'
<1>1. IInv'
  BY NextIInv
<1>2. CASE Tick
  BY <1>1, <1>2, TickLock
<1>3. CASE Quiet
  <2>1. CASE UNCHANGED vars
    <3>1. UNCHANGED <<jobs, daemon, child, watched, fresh>>
      BY <2>1 DEF vars
    <3> QED
      BY <3>1 DEF LockInv, LockLasts, Sole, Ended, InHand, Listening, Holder,
                  Outstanding, InTime, Safe, Terminal, Leased
  <2>2. CASE DaemonStep
    BY <1>1, <1>3, <2>2, DaemonOnlyLock, SpawnChildLock, FailSpawnLock DEF DaemonStep
  <2>3. ASSUME NEW c \in Children, ChildStep(c) PROVE LockInv'
    BY <1>1, <1>3, <2>3, ChildTakesOverLock, ChildBeatsLock, ChildFinishesLock,
       ChildRearmsLock, ChildEndsLock DEF ChildStep
  <2>4. CASE Environment
    <3>1. \A c \in Children : ~ChildCannotStart(c)
      BY DEF Prompt, ChildCannotStart, Fault
    <3>2. \A k \in SleepJumps : ~HostSleeps(k)
      BY DEF Prompt, HostSleeps, Fault
    <3> QED
      BY <1>1, <1>3, <2>4, <3>1, <3>2, DaemonOnlyLock, DiesLock, ChildBeatsLock,
         ChildEndsLock DEF Environment
  <2>5. CASE Tick
    BY <1>1, <2>5, TickLock
  <2> QED
    BY <2>1, <2>2, <2>3, <2>4, <2>5 DEF Next
<1> QED
  BY <1>2, <1>3, QuietOrTick

LEMMA LockInvAlways ==
    ASSUME Prompt
    PROVE  Spec => [](IInv /\ Owned /\ LockInv)
<1>1. Init => LockInv
  BY InitLock
<1>2. IInv /\ Owned /\ LockInv /\ [Next]_vars => LockInv'
  BY NextLock
<1> QED
  BY <1>1, <1>2, OwnedAlways, PTL DEF Spec

(* While the host stays awake and children start within the slack, every   *)
(* child that owns its row runs under a fresh lock: the lock cannot go     *)
(* stale before the deadline that ends the run.                            *)
THEOREM RunningUnderLock ==
    ASSUME Prompt
    PROVE  Spec => []RunsUnderLock
<1>1. IInv /\ LockInv => RunsUnderLock
  <2> SUFFICES ASSUME IInv, LockInv, NEW c \in Children, Running(c)
               PROVE  fresh[child[c].name] > 0
    BY DEF RunsUnderLock
  <2>1. /\ child[c].st = "run" /\ Holder(c) /\ child[c].left \in Int
        /\ fresh[child[c].name] \in Nat
    BY LeftInt DEF Running, Holder
  <2> QED
    BY <2>1 DEF LockInv, LockLasts, InTime, Outstanding
<1> QED
  BY <1>1, LockInvAlways, PTL

(* Under the same conditions no two children ever run the same job at      *)
(* once, whatever dies, is killed, misses its renewals or throws.          *)
THEOREM OneFlight ==
    ASSUME Prompt
    PROVE  Spec => []SingleFlight
<1>1. LockInv => SingleFlight
  BY DEF LockInv, Sole, SingleFlight, Running, Holder
<1> QED
  BY <1>1, LockInvAlways, PTL
=============================================================================
