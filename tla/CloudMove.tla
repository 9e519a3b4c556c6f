------------------------------ MODULE CloudMove ------------------------------
(***************************************************************************)
(* `robin cloud dry-run | cutover | rollback` (lib/cloud/migrate.ts): the  *)
(* live instance moves between the operator's Mac and a Linux VM.  The     *)
(* command runs on the Mac, step by step, against two machines that go on  *)
(* living meanwhile: daemons boot and die, work ends, hosts reboot.  Any   *)
(* step may fail, with its effect or without; the command may be           *)
(* interrupted or killed and run again.                                    *)
(*                                                                         *)
(* Each side has a role file.  A lock of the Mac is named by the number    *)
(* that stands for its timestamp.  A write of Robin's work is a number; a  *)
(* database is the set of writes in it and the number of the newest OAuth  *)
(* token it holds, since every tick of an integration rotates the token.   *)
(***************************************************************************)
EXTENDS Integers

CONSTANTS
    MaxLocks,   \* bound: cutovers that lock the Mac afresh
    MaxWrites,  \* bound: writes of Robin's work
    MaxFaults,  \* bound: failing steps, interrupts, kills and reboots
    Mac, Vm, Nobody, Both

ASSUME CloudAssumption ==
    /\ MaxLocks \in Nat /\ MaxWrites \in Nat /\ MaxFaults \in Nat
    /\ Mac # Vm /\ Nobody \notin {Mac, Vm} /\ Both \notin {Mac, Vm, Nobody}

VARIABLES
    mac,     \* the Mac: lock, power, launchd state, daemon, work in flight,
             \* and whether its database file is moved aside
    vm,      \* the VM: role, power, daemon, work in flight
    db,      \* [{Mac, Vm} -> record]: the databases
    notes,   \* the Mac's records of moves: rollback, cgroup, vmRan
    opLock,  \* cloud-op.lock: "free", "held" or "stale"
    op,      \* the running command
    locks, writes, faults,
    past     \* history: writes the documentation gives up, newest token

vars == <<mac, vm, db, notes, opLock, op, locks, writes, faults, past>>

NoOp == [pc |-> "idle", lockAt |-> 0, snap |-> {}, token |-> 0, accepts |-> FALSE]

Empty == [rows |-> {}, token |-> 0]

Init ==
    /\ mac = [lock |-> 0, active |-> TRUE, enabled |-> TRUE, loaded |-> TRUE,
              up |-> TRUE, busy |-> {}, aside |-> FALSE]
    /\ vm = [role |-> "none", active |-> TRUE, wanted |-> TRUE, up |-> FALSE,
             sched |-> FALSE, busy |-> {}, copy |-> FALSE, revoked |-> FALSE]
    /\ db = [h \in {Mac, Vm} |-> Empty]
    /\ notes = [rollback |-> 0, cgroup |-> FALSE, vmRan |-> FALSE]
    /\ opLock = "free"
    /\ op = NoOp
    /\ locks = 0
    /\ writes = 0
    /\ faults = 0
    /\ past = [waived |-> {}, newest |-> 0]

Dry == {"dSnapshot", "dStopVm", "dHold", "dPush", "dInstall", "dStart", "dVerify"}
Cut == {"lock", "pause", "drain", "stopMac", "disable", "confirm", "snapshot",
        "stopVm", "hold", "push", "install", "mark", "start", "noteRan",
        "resume", "verify", "park", "parkStop"}
Roll == {"record", "rHold", "rPause", "rGroup", "rDrain", "rStopVm", "rConfirmVm",
         "rSnapshot", "rPull", "rConfirm", "rInstall", "rMoved", "rResume",
         "rEnable", "rUnlock", "rForget", "rStart"}
Unlock == {"uCheck", "uResume", "uEnable", "uUnlock", "uForget", "uStart"}

Bool == {TRUE, FALSE}
MacState == [lock : Nat, active : Bool, enabled : Bool, loaded : Bool, up : Bool,
             busy : SUBSET {"job", "child", "session"}, aside : Bool]
VmState == [role : {"none", "dry-run", "primary"}, active : Bool, wanted : Bool,
            up : Bool, sched : Bool, busy : SUBSET {"job", "child"}, copy : Bool,
            revoked : Bool]
OpState == [pc : {"idle"} \cup Dry \cup Cut \cup Roll \cup Unlock, lockAt : Nat,
            snap : SUBSET Nat, token : Nat, accepts : Bool]
DbState == [rows : SUBSET Nat, token : Nat]
NotesState == [rollback : Nat, cgroup : Bool, vmRan : Bool]

TypeOK ==
    /\ mac \in MacState
    /\ vm \in VmState
    /\ db \in [{Mac, Vm} -> DbState]
    /\ notes \in NotesState
    /\ opLock \in {"free", "held", "stale"}
    /\ op \in OpState
    /\ op.pc # "idle" => opLock = "held"
    /\ mac.lock <= locks /\ notes.rollback <= locks /\ op.lockAt <= locks
    /\ mac.up => mac.loaded
    /\ locks \in Nat /\ writes \in Nat /\ faults \in Nat
    /\ past \in [waived : SUBSET Nat, newest : Nat]

-----------------------------------------------------------------------------
(* The two machines                                                        *)

(* Daemon.start: a locked Mac exits at once; a held VM has no scheduler.   *)
MacBoots ==
    /\ mac.loaded /\ ~mac.up /\ mac.lock = 0
    /\ mac' = [mac EXCEPT !.up = TRUE]
    /\ UNCHANGED <<vm, db, notes, opLock, op, locks, writes, faults, past>>

(* systemd restarts the daemon until it is stopped, and at a reboot.       *)
Booted(v) == [v EXCEPT !.wanted = TRUE, !.up = TRUE, !.sched = v.role # "dry-run"]
VmBoots ==
    /\ vm.wanted /\ ~vm.up
    /\ vm' = Booted(vm)
    /\ UNCHANGED <<mac, db, notes, opLock, op, locks, writes, faults, past>>

(* isPaused, read before every claim: power and role.                      *)
MacMayWork == mac.up /\ mac.active /\ mac.lock = 0
VmMayWork == vm.up /\ vm.sched /\ vm.active /\ vm.role # "dry-run" /\ vm.copy

MacStartsWork(kind) ==
    /\ MacMayWork /\ kind \notin mac.busy
    /\ mac' = [mac EXCEPT !.busy = @ \cup {kind}]
    /\ UNCHANGED <<vm, db, notes, opLock, op, locks, writes, faults, past>>

(* A Claude Code session opens Robin's MCP server: the locked CLI refuses. *)
SessionOpens ==
    /\ mac.lock = 0 /\ "session" \notin mac.busy
    /\ mac' = [mac EXCEPT !.busy = @ \cup {"session"}]
    /\ UNCHANGED <<vm, db, notes, opLock, op, locks, writes, faults, past>>

VmStartsWork(kind) ==
    /\ VmMayWork /\ kind \notin vm.busy
    /\ vm' = [vm EXCEPT !.busy = @ \cup {kind}]
    /\ UNCHANGED <<mac, db, notes, opLock, op, locks, writes, faults, past>>

MacWorkEnds(kind) ==
    /\ kind \in mac.busy
    /\ mac' = [mac EXCEPT !.busy = @ \ {kind}]
    /\ UNCHANGED <<vm, db, notes, opLock, op, locks, writes, faults, past>>

VmWorkEnds(kind) ==
    /\ kind \in vm.busy
    /\ vm' = [vm EXCEPT !.busy = @ \ {kind}]
    /\ UNCHANGED <<mac, db, notes, opLock, op, locks, writes, faults, past>>

(* Work writes; only an in-process job, an integration's tick, rotates the *)
(* token, unless its family was revoked by a new login.  What a VM that is *)
(* neither primary nor being brought home still writes is given up         *)
(* (docs/CLOUD-VM.md).                                                     *)
BringingHome == mac.lock # 0 /\ notes.rollback = mac.lock

Rotates(h, kind) == kind = "job" /\ (h = Mac \/ ~vm.revoked)

Write(h, kind) ==
    /\ kind \in (IF h = Mac THEN mac.busy ELSE vm.busy)
    /\ writes < MaxWrites
    /\ writes' = writes + 1
    /\ db' = [db EXCEPT ![h].rows = @ \cup {writes + 1},
                        ![h].token = IF Rotates(h, kind) THEN writes + 1 ELSE @]
    /\ past' = [waived |-> IF h = Vm /\ vm.role # "primary" /\ ~BringingHome
                           THEN past.waived \cup {writes + 1} ELSE past.waived,
                newest |-> IF Rotates(h, kind) THEN writes + 1 ELSE past.newest]
    /\ UNCHANGED <<mac, vm, notes, opLock, op, locks, faults>>

-----------------------------------------------------------------------------
(* Faults                                                                  *)

Fault == faults < MaxFaults /\ faults' = faults + 1

(* A reboot takes the command, the daemon and all work of the Mac; launchd *)
(* loads what is enabled.                                                  *)
MacReboots ==
    /\ Fault
    /\ mac' = [mac EXCEPT !.up = FALSE, !.busy = {}, !.loaded = mac.enabled]
    /\ op' = NoOp
    /\ opLock' = IF op.pc = "idle" THEN opLock ELSE "stale"
    /\ UNCHANGED <<vm, db, notes, locks, writes, past>>

VmReboots ==
    /\ Fault
    /\ vm' = [vm EXCEPT !.wanted = TRUE, !.up = FALSE, !.sched = FALSE, !.busy = {}]
    /\ UNCHANGED <<mac, db, notes, opLock, op, locks, writes, past>>

(* A daemon's death takes its in-process job; detached children outlive it *)
(* (on the VM by KillMode=process).                                        *)
Halted(v) == [v EXCEPT !.up = FALSE, !.sched = FALSE, !.busy = @ \ {"job"}]
MacDaemonDies ==
    /\ mac.up /\ Fault
    /\ mac' = [mac EXCEPT !.up = FALSE, !.busy = @ \ {"job"}]
    /\ UNCHANGED <<vm, db, notes, opLock, op, locks, writes, past>>

VmDaemonDies ==
    /\ vm.up /\ Fault
    /\ vm' = Halted(vm)
    /\ UNCHANGED <<mac, db, notes, opLock, op, locks, writes, past>>

(* Ctrl-C stops the command where it is and frees its lock; a kill leaves  *)
(* the lock for the operator to delete.                                    *)
Interrupted ==
    /\ op.pc # "idle" /\ Fault
    /\ op' = NoOp
    /\ opLock' \in {"free", "stale"}
    /\ UNCHANGED <<mac, vm, db, notes, locks, writes, past>>

StaleLockDeleted ==
    /\ opLock = "stale"
    /\ opLock' = "free"
    /\ UNCHANGED <<mac, vm, db, notes, op, locks, writes, faults, past>>

-----------------------------------------------------------------------------
(* The command                                                             *)

Allowed(cmd) ==
    IF BringingHome THEN cmd = "rollback"
    ELSE \/ cmd = "dry-run" /\ mac.lock = 0 /\ vm.role # "primary"
         \/ cmd = "cutover" /\ vm.role # "primary"
         \/ cmd = "rollback" /\ mac.lock # 0

AsDataIfRecorded == BringingHome    \* mutant
AsData == vm.role = "primary" \/ BringingHome

Begin(cmd, first) ==
    /\ opLock = "free" /\ Allowed(cmd)
    /\ opLock' = "held"
    /\ \E a \in Bool :
           op' = [NoOp EXCEPT !.pc = first, !.accepts = a,
                              !.lockAt = IF cmd = "rollback" THEN mac.lock ELSE 0]
    /\ UNCHANGED <<mac, vm, db, notes, locks, writes, faults, past>>

BeginDryRun == Begin("dry-run", "dSnapshot")
BeginCutover == (mac.lock # 0 \/ locks < MaxLocks) /\ Begin("cutover", "lock")
BeginRollback == Begin("rollback", IF AsData THEN "record" ELSE "uCheck")

(* A failed step ends the command; from `mark` on a cutover parks the VM.  *)
Parking == {"mark", "start", "noteRan", "resume", "verify"}
Failed == IF op.pc \in Parking
          THEN op' = [op EXCEPT !.pc = "park"] /\ UNCHANGED opLock
          ELSE op' = NoOp /\ opLock' = "free"

Ends == op' = NoOp /\ opLock' = "free" /\ UNCHANGED faults
To(next) == op' = [op EXCEPT !.pc = next] /\ UNCHANGED <<opLock, faults>>

(* A remote step that took effect may still be reported as failed.         *)
Remotely(next) == To(next) \/ (Fault /\ Failed)

StepFails ==
    /\ op.pc # "idle" /\ Fault
    /\ Failed
    /\ UNCHANGED <<mac, vm, db, notes, locks, writes, past>>

At(pc) == op.pc = pc
OnMac == UNCHANGED <<vm, db, notes, locks, writes, past>>
OnVm == UNCHANGED <<mac, db, notes, locks, writes, past>>

-----------------------------------------------------------------------------
(* Steps that dry-run and cutover share                                    *)

Snapshot(pc, next) ==
    /\ At(pc)
    /\ op' = [op EXCEPT !.pc = next, !.snap = db[Mac].rows, !.token = db[Mac].token]
    /\ UNCHANGED <<mac, vm, db, notes, opLock, locks, writes, faults, past>>

Stopped(v) == [Halted(v) EXCEPT !.wanted = FALSE]
StopVm(pc, next) ==
    /\ At(pc) /\ Remotely(next)
    /\ vm' = Stopped(vm)
    /\ OnVm

HoldNothing(pc, next) == At(pc) /\ To(next) /\ UNCHANGED vm /\ OnVm    \* mutant
HoldVm(pc, next) ==
    /\ At(pc) /\ Remotely(next)
    /\ vm' = [vm EXCEPT !.role = "dry-run"]
    /\ OnVm

(* config/policies.yaml, the power state, travels with user-data.          *)
Push(pc, next) ==
    /\ At(pc) /\ Remotely(next)
    /\ vm' = [vm EXCEPT !.active = mac.active]
    /\ OnVm

(* carry-oauth: a newer token of the VM's database survives the install.   *)
CarriedNothing == op.token    \* mutant
Newest(a, b) == IF a > b THEN a ELSE b
Carried == Newest(op.token, db[Vm].token)

VmDbFree == ~vm.up /\ vm.busy = {}
Install(pc, next, token) ==
    /\ At(pc) /\ VmDbFree
    /\ Remotely(next)
    /\ db' = [db EXCEPT ![Vm] = [rows |-> op.snap, token |-> token]]
    /\ vm' = [vm EXCEPT !.copy = TRUE, !.revoked = FALSE]
    /\ UNCHANGED <<mac, notes, locks, writes, past>>

(* The VM's database is open in another process: the install refuses.     *)
InstallRefused ==
    /\ op.pc \in {"dInstall", "install"} /\ ~VmDbFree
    /\ Failed
    /\ UNCHANGED <<mac, vm, db, notes, locks, writes, faults, past>>

StartVm(pc, next) ==
    /\ At(pc) /\ Remotely(next)
    /\ vm' = IF vm.up THEN vm ELSE Booted(vm)
    /\ OnVm

DryRunStep ==
    \/ Snapshot("dSnapshot", "dStopVm")
    \/ StopVm("dStopVm", "dHold")
    \/ HoldVm("dHold", "dPush")
    \/ Push("dPush", "dInstall")
    \/ Install("dInstall", "dStart", op.token)
    \/ StartVm("dStart", "dVerify")
    \/ InstallRefused
    \/ At("dVerify") /\ Ends /\ UNCHANGED vm /\ OnVm

-----------------------------------------------------------------------------
(* cutover                                                                 *)

(* A lock of an unfinished cutover is kept; a fresh one forgets old notes. *)
LockMac ==
    /\ At("lock")
    /\ \/ /\ mac.lock # 0
          /\ op' = [op EXCEPT !.pc = "pause", !.lockAt = mac.lock]
          /\ UNCHANGED <<mac, notes, locks>>
       \/ /\ mac.lock = 0
          /\ locks' = locks + 1
          /\ mac' = [mac EXCEPT !.lock = locks + 1]
          /\ notes' = [rollback |-> 0, cgroup |-> FALSE, vmRan |-> FALSE]
          /\ op' = [op EXCEPT !.pc = "pause", !.lockAt = locks + 1]
    /\ UNCHANGED <<vm, db, opLock, writes, faults, past>>

PauseMac ==
    /\ At("pause") /\ To("drain")
    /\ mac' = [mac EXCEPT !.active = FALSE]
    /\ OnMac

Drain == At("drain") /\ mac.busy \subseteq {"session"} /\ To("stopMac")
         /\ UNCHANGED mac /\ OnMac

StopMacLater ==    \* mutant: unloaded, but its exit is not awaited
    /\ At("stopMac") /\ To("disable")
    /\ mac' = [mac EXCEPT !.loaded = FALSE]
    /\ OnMac
StopMac ==
    /\ At("stopMac") /\ To("disable")
    /\ mac' = [mac EXCEPT !.loaded = FALSE, !.up = FALSE, !.busy = @ \ {"job"}]
    /\ OnMac

Disable ==
    /\ At("disable") /\ To("confirm")
    /\ mac' = [mac EXCEPT !.enabled = FALSE]
    /\ OnMac

ConfirmNothing == At("confirm") /\ To("snapshot")    \* mutant
                  /\ UNCHANGED mac /\ OnMac
Confirm == At("confirm") /\ mac.busy = {} /\ ~mac.up /\ To("snapshot")
           /\ UNCHANGED mac /\ OnMac

StillLocked == mac.lock = op.lockAt /\ mac.lock # 0
MarkPrimary ==
    /\ At("mark") /\ StillLocked /\ Remotely("start")
    /\ vm' = [vm EXCEPT !.role = "primary"]
    /\ OnVm

NoteRan ==
    /\ At("noteRan") /\ To("resume")
    /\ notes' = [notes EXCEPT !.vmRan = TRUE]
    /\ UNCHANGED <<mac, vm, db, locks, writes, past>>

ResumeVm ==
    /\ At("resume") /\ Remotely("verify")
    /\ vm' = [vm EXCEPT !.active = TRUE]
    /\ OnVm

(* /health answers and a job or an integration has run.                    *)
Verify == At("verify") /\ VmMayWork /\ Ends /\ UNCHANGED vm /\ OnVm

VerifyTimesOut ==
    /\ At("verify") /\ ~VmMayWork
    /\ Failed
    /\ UNCHANGED <<mac, vm, db, notes, locks, writes, faults, past>>

Park ==
    /\ At("park") /\ Remotely("parkStop")
    /\ vm' = [vm EXCEPT !.role = "dry-run"]
    /\ past' = [past EXCEPT !.waived = @ \cup (db[Vm].rows \ db[Mac].rows)]
    /\ UNCHANGED <<mac, db, notes, locks, writes>>

ParkStop ==
    /\ At("parkStop")
    /\ Ends
    /\ vm' = Stopped(vm)
    /\ OnVm

CutoverStep ==
    \/ LockMac \/ PauseMac \/ Drain \/ StopMac \/ Disable \/ Confirm
    \/ Snapshot("snapshot", "stopVm")
    \/ StopVm("stopVm", "hold")
    \/ HoldVm("hold", "push")
    \/ Push("push", "install")
    \/ Install("install", "mark", Carried)
    \/ MarkPrimary
    \/ StartVm("start", "noteRan")
    \/ NoteRan \/ ResumeVm \/ Verify \/ VerifyTimesOut
    \/ Park \/ ParkStop

-----------------------------------------------------------------------------
(* rollback, with the VM's data                                            *)

RecordRollback ==
    /\ At("record") /\ To("rHold")
    /\ notes' = [notes EXCEPT !.rollback = op.lockAt,
                              !.cgroup = BringingHome /\ notes.cgroup]
    /\ UNCHANGED <<mac, vm, db, locks, writes, past>>

PauseVm ==
    /\ At("rPause") /\ Remotely("rGroup")
    /\ vm' = [vm EXCEPT !.active = FALSE]
    /\ OnVm

(* An inactive unit reports no control group: one saved earlier serves.    *)
FindGroupLive ==    \* mutant: the saved control group is not used
    /\ At("rGroup")
    /\ \/ vm.up /\ notes' = [notes EXCEPT !.cgroup = TRUE] /\ To("rDrain")
       \/ ~vm.up /\ Ends /\ UNCHANGED notes
    /\ UNCHANGED <<mac, vm, db, locks, writes, past>>
FindGroup ==
    /\ At("rGroup")
    /\ \/ vm.up /\ notes' = [notes EXCEPT !.cgroup = TRUE] /\ To("rDrain")
       \/ ~vm.up /\ notes.cgroup /\ To("rDrain") /\ UNCHANGED notes
       \/ ~vm.up /\ ~notes.cgroup /\ Ends /\ UNCHANGED notes
    /\ UNCHANGED <<mac, vm, db, locks, writes, past>>

DrainVm == At("rDrain") /\ vm.busy = {} /\ To("rStopVm") /\ UNCHANGED vm /\ OnVm

ConfirmVm == /\ At("rConfirmVm") /\ ~vm.up /\ vm.busy = {} /\ To("rSnapshot")
             /\ UNCHANGED vm /\ OnVm

(* The VM came up again, held, after it was stopped.                       *)
ConfirmVmTimesOut ==
    /\ At("rConfirmVm") /\ vm.up
    /\ Ends
    /\ UNCHANGED vm /\ OnVm

(* db backup on the VM, pull it, restore the Mac-only rows into it, which  *)
(* needs the Mac's database in its place.                                  *)
PullSnapshot ==
    /\ At("rSnapshot") /\ ~mac.aside
    /\ op' = [op EXCEPT !.pc = "rPull", !.snap = db[Vm].rows, !.token = db[Vm].token]
    /\ UNCHANGED <<mac, vm, db, notes, opLock, locks, writes, faults, past>>

NoMacDb == At("rSnapshot") /\ mac.aside /\ Ends /\ UNCHANGED mac /\ OnMac

PullUserData ==
    /\ At("rPull") /\ Remotely("rConfirm")
    /\ mac' = [mac EXCEPT !.active = vm.active]
    /\ OnMac

RConfirm == /\ At("rConfirm") /\ mac.busy = {} /\ ~mac.up /\ To("rInstall")
            /\ UNCHANGED mac /\ OnMac

(* The old file is renamed into state/db/pre-rollback-*, and only then the *)
(* pulled one into its place.                                              *)
MoveAside ==
    /\ At("rInstall") /\ StillLocked /\ To("rMoved")
    /\ mac' = [mac EXCEPT !.aside = TRUE]
    /\ OnMac

InstallOnMac ==
    /\ At("rMoved") /\ To("rResume")
    /\ db' = [db EXCEPT ![Mac] = [rows |-> op.snap, token |-> op.token]]
    /\ mac' = [mac EXCEPT !.aside = FALSE]
    /\ UNCHANGED <<vm, notes, locks, writes, past>>

ResumeMac(pc, next) ==
    /\ At(pc) /\ To(next)
    /\ mac' = [mac EXCEPT !.active = TRUE]
    /\ OnMac

EnableNothing(pc, next) == At(pc) /\ To(next) /\ UNCHANGED mac /\ OnMac    \* mutant
Enable(pc, next) ==
    /\ At(pc) /\ To(next)
    /\ mac' = [mac EXCEPT !.enabled = TRUE]
    /\ OnMac

UnlockMac(pc, next) ==
    /\ At(pc) /\ To(next)
    /\ mac' = [mac EXCEPT !.lock = 0]
    /\ OnMac

Forget(pc, next) ==
    /\ At(pc) /\ To(next)
    /\ notes' = IF pc = "rForget" THEN [rollback |-> 0, cgroup |-> FALSE, vmRan |-> FALSE]
                ELSE [notes EXCEPT !.vmRan = FALSE]
    /\ UNCHANGED <<mac, vm, db, locks, writes, past>>

StartMac(pc) ==
    /\ At(pc) /\ Ends
    /\ mac' = [mac EXCEPT !.enabled = TRUE, !.loaded = TRUE]
    /\ OnMac

RollbackStep ==
    \/ RecordRollback
    \/ HoldVm("rHold", "rPause")
    \/ PauseVm \/ FindGroup \/ DrainVm
    \/ StopVm("rStopVm", "rConfirmVm")
    \/ ConfirmVm \/ ConfirmVmTimesOut \/ PullSnapshot \/ NoMacDb
    \/ PullUserData \/ RConfirm \/ MoveAside \/ InstallOnMac
    \/ ResumeMac("rResume", "rEnable")
    \/ Enable("rEnable", "rUnlock")
    \/ UnlockMac("rUnlock", "rForget")
    \/ Forget("rForget", "rStart")
    \/ StartMac("rStart")

-----------------------------------------------------------------------------
(* rollback of a cutover that never finished: unlock only                  *)

(* With --accept-token-reset the operator runs `robin reauth whoop`, here  *)
(* at once: a new family, which revokes the token the VM holds.            *)
CheckRan ==
    /\ At("uCheck")
    /\ \/ ~notes.vmRan /\ To("uResume") /\ UNCHANGED <<vm, db>>
       \/ /\ notes.vmRan /\ op.accepts
          /\ To("uResume")
          /\ db' = [db EXCEPT ![Mac].token = past.newest]
          /\ vm' = [vm EXCEPT !.revoked = TRUE]
       \/ notes.vmRan /\ ~op.accepts /\ Ends /\ UNCHANGED <<vm, db>>
    /\ UNCHANGED <<mac, notes, locks, writes, past>>

UnlockStep ==
    \/ CheckRan
    \/ ResumeMac("uResume", "uEnable")
    \/ Enable("uEnable", "uUnlock")
    \/ UnlockMac("uUnlock", "uForget")
    \/ Forget("uForget", "uStart")
    \/ StartMac("uStart")

(* "Finish by hand": both launchd jobs enabled and loaded again.           *)
StartedByHand ==
    /\ mac.lock = 0 /\ ~mac.loaded
    /\ mac' = [mac EXCEPT !.enabled = TRUE, !.loaded = TRUE]
    /\ UNCHANGED <<vm, db, notes, opLock, op, locks, writes, faults, past>>

(* A rollback that found no control group asks for the VM to be started.   *)
VmStartedByHand ==
    /\ op.pc = "idle" /\ BringingHome /\ ~notes.cgroup /\ ~vm.up
    /\ vm' = Booted(vm)
    /\ UNCHANGED <<mac, db, notes, opLock, op, locks, writes, faults, past>>

(* "No Mac DB (an earlier one may be in state/db/pre-rollback-*/)": the    *)
(* operator puts the file back.                                            *)
DbPutBack ==
    /\ mac.aside /\ op.pc # "rMoved"
    /\ mac' = [mac EXCEPT !.aside = FALSE]
    /\ UNCHANGED <<vm, db, notes, opLock, op, locks, writes, faults, past>>

Command == DryRunStep \/ CutoverStep \/ RollbackStep \/ UnlockStep

Machines ==
    \/ MacBoots \/ VmBoots \/ SessionOpens
    \/ \E k \in {"job", "child"} : MacStartsWork(k) \/ VmStartsWork(k) \/ VmWorkEnds(k)
    \/ \E k \in {"job", "child", "session"} : MacWorkEnds(k)
    \/ \E h \in {Mac, Vm}, k \in {"job", "child", "session"} : Write(h, k)

Next ==
    \/ Machines
    \/ MacReboots \/ VmReboots \/ MacDaemonDies \/ VmDaemonDies \/ Interrupted \/ StepFails
    \/ BeginDryRun \/ BeginCutover \/ BeginRollback
    \/ Command
    \/ StaleLockDeleted \/ StartedByHand \/ VmStartedByHand \/ DbPutBack

Spec == Init /\ [][Next]_vars

(* Work ends, sessions are closed, services restart, and the operator      *)
(* brings an unfinished move to an end: runs rollback again, and does by   *)
(* hand what its messages ask for.                                         *)
FairSpec ==
    /\ Spec
    /\ WF_vars(Command) /\ WF_vars(MacBoots) /\ WF_vars(VmBoots)
    /\ \A k \in {"job", "child"} : WF_vars(VmWorkEnds(k))
    /\ \A k \in {"job", "child", "session"} : WF_vars(mac.lock # 0 /\ MacWorkEnds(k))
    /\ WF_vars(StaleLockDeleted) /\ WF_vars(StartedByHand) /\ WF_vars(DbPutBack)
    /\ SF_vars(VmStartedByHand)
    /\ SF_vars(BeginRollback /\ op'.accepts)

-----------------------------------------------------------------------------
(* Properties                                                              *)

(* `robin cloud status` prints who the writer is, from the two roles.  The *)
(* right to work passes between the hosts only through nobody, and never   *)
(* belongs to both (the writer line of status, migrate.ts).                *)
writerNow == IF mac.lock = 0 THEN IF vm.role = "primary" THEN Both ELSE Mac
             ELSE IF vm.role = "primary" THEN Vm ELSE Nobody
Handover == INSTANCE Writer WITH writer <- writerNow, Hosts <- {Mac, Vm}
WriterMoves == Handover!Spec

(* The two schedulers are never both free to start work on a copy of the   *)
(* same database, whatever failed, rebooted or was interrupted.            *)
OneWorker == ~(MacMayWork /\ VmMayWork)

(* The side that is free to work has everything that was written before,   *)
(* except what a parked VM wrote; the Mac has it in its place.             *)
NothingLost ==
    /\ MacMayWork => ~mac.aside /\ (1..writes) \ past.waived \subseteq db[Mac].rows
    /\ VmMayWork => (1..writes) \ past.waived \subseteq db[Vm].rows

(* A tick always holds the newest token of the family: a spent refresh     *)
(* token is never presented again.                                         *)
TokenFresh ==
    /\ MacMayWork => db[Mac].token = past.newest
    /\ VmMayWork => db[Vm].token = past.newest

(* An unlocked Mac is never left paused or with disabled services          *)
(* (migrate.ts: resume and enable before unlocking).                       *)
UnlockedIsReady == mac.lock = 0 => mac.active /\ mac.enabled

(* Robin works again: after any failure, interrupt or reboot of a move one *)
(* of the two hosts comes to run it, if the operator re-runs rollback and  *)
(* does by hand what its messages ask for: delete the lock of a killed     *)
(* command, start the VM that has to name its control group, put back the  *)
(* database a killed install left aside, load the services.                *)
WriterReturns == []<>(MacMayWork \/ VmMayWork)

(* The header of migrate.ts promises one writer at every moment: work is   *)
(* never in flight on both hosts.                                          *)
OneWriterAtWork == ~(MacMayWork /\ vm.busy # {})
=============================================================================
