----------------------------- MODULE CloudProofs -----------------------------
(***************************************************************************)
(* Theorems about CloudMove, for any number of moves, writes and faults.   *)
(*                                                                         *)
(* Who may work follows from the two role files and from where the command *)
(* stands: IInv adds to TypeOK what every point of the command relies on   *)
(* (Fit).  Each action keeps it: lemma <Action>Keeps.  On top of IInv,     *)
(* DataInv says where the data and the newest token are meanwhile: lemma   *)
(* <Action>Data; and Placed that the Mac's database is in its place unless *)
(* the VM's is on its way home.                                            *)
(***************************************************************************)
EXTENDS CloudMove, TLAPS

(* Where the command stands while the Mac is locked, while the VM must be  *)
(* held, and while the VM is known not to be primary.                      *)
LockedPcs == (Cut \ {"lock"}) \cup (Roll \ {"rForget", "rStart"})
             \cup (Unlock \ {"uForget", "uStart"})
HeldPcs == {"dPush", "dInstall", "push", "install"}
           \cup (Roll \ {"record", "rHold", "rForget", "rStart"})
AwayPcs == Unlock \ {"uForget", "uStart"}
ActivePcs == {"rEnable", "rUnlock", "uEnable", "uUnlock"}
EnabledPcs == {"rUnlock", "uUnlock"}

(* What must hold of the two machines while the command stands at pc.      *)
Fit(pc, m, v) ==
    /\ pc \in LockedPcs => m.lock # 0
    /\ pc \in HeldPcs => v.role = "dry-run"
    /\ pc \in AwayPcs => v.role # "primary"
    /\ pc \in ActivePcs => m.active
    /\ pc \in EnabledPcs => m.enabled

Roles(m, v) ==
    /\ m.lock = 0 => v.role # "primary" /\ m.active /\ m.enabled
    /\ v.copy => v.role # "none"

IInv == TypeOK /\ Roles(mac, vm) /\ Fit(op.pc, mac, vm)

(* Where a step may leave the command, and what TypeOK says of the command *)
(* and of its lock, after a step.                                          *)
Pcs == {"idle"} \cup Dry \cup Cut \cup Roll \cup Unlock

OpTypedNext ==
    /\ op' \in OpState
    /\ opLock' \in {"free", "held", "stale"}
    /\ op'.pc # "idle" => opLock' = "held"
    /\ op'.lockAt <= locks
    /\ faults' \in Nat

USE DEF Bool

-----------------------------------------------------------------------------
(* Where the command may stand                                             *)

LEMMA IdleFits == \A m, v : Fit("idle", m, v)
BY DEF Fit, LockedPcs, HeldPcs, AwayPcs, ActivePcs, EnabledPcs, Cut, Roll, Unlock

LEMMA ParkFits == \A m, v : m.lock # 0 => Fit("park", m, v)
BY DEF Fit, LockedPcs, HeldPcs, AwayPcs, ActivePcs, EnabledPcs, Cut, Roll, Unlock

LEMMA ParkingLocked == \A pc, m, v : pc \in Parking /\ Fit(pc, m, v) => m.lock # 0
BY DEF Fit, Parking, LockedPcs, Cut

LEMMA IdleOp == NoOp \in OpState /\ NoOp.pc = "idle" /\ NoOp.lockAt = 0
BY DEF NoOp, OpState

(* Machines that change in nothing the command relies on still fit.        *)
LEMMA FitKept ==
  ASSUME NEW pc, NEW m, NEW v, NEW n, NEW w, Fit(pc, m, v),
         n.lock = m.lock, n.active = m.active, n.enabled = m.enabled, w.role = v.role
  PROVE  Fit(pc, n, w)
BY DEF Fit

LEMMA Fails ==
  ASSUME TypeOK, op.pc # "idle", Failed, faults' \in Nat
  PROVE  /\ OpTypedNext
         /\ op'.pc = "idle" \/ (op'.pc = "park" /\ op.pc \in Parking)
<1>1. CASE op.pc \in Parking
  BY <1>1 DEF TypeOK, OpTypedNext, OpState, Failed, Cut
<1>2. CASE op.pc \notin Parking
  <2>1. op' = NoOp /\ opLock' = "free" BY <1>2 DEF Failed
  <2>q. QED BY <2>1, IdleOp DEF TypeOK, OpTypedNext
<1>q. QED BY <1>1, <1>2

(* A step that names its successor: To, a remote step, or a failure.       *)
LEMMA Moves ==
  ASSUME TypeOK, NEW next \in Pcs, op.pc # "idle", Remotely(next) \/ To(next)
  PROVE  /\ OpTypedNext
         /\ op'.pc \in {next, "idle", "park"}
         /\ op'.pc = next \/ op'.pc = "idle" \/ op.pc \in Parking
<1>1. CASE To(next)
  BY <1>1 DEF TypeOK, OpTypedNext, OpState, To, Pcs
<1>2. CASE Fault /\ Failed
  <2>1. faults' \in Nat BY <1>2 DEF TypeOK, Fault
  <2>2. /\ OpTypedNext
        /\ op'.pc = "idle" \/ (op'.pc = "park" /\ op.pc \in Parking)
    BY <1>2, <2>1, Fails
  <2>q. QED BY <2>2
<1>q. QED BY <1>1, <1>2 DEF Remotely

LEMMA Ending ==
  ASSUME TypeOK, Ends
  PROVE  OpTypedNext /\ op'.pc = "idle"
BY IdleOp DEF TypeOK, OpTypedNext, Ends

-----------------------------------------------------------------------------
(* Steps by what they change                                               *)

(* A step that changes at most the VM, and neither its role nor whether it *)
(* has a copy.                                                             *)
LEMMA VmStep ==
  ASSUME IInv, OpTypedNext, vm' \in VmState, vm'.role = vm.role, vm'.copy = vm.copy,
         OnVm, Fit(op'.pc, mac, vm)
  PROVE  IInv'
<1>1. Fit(op'.pc, mac', vm') BY FitKept DEF OnVm
<1>2. Roles(mac', vm') BY DEF IInv, Roles, OnVm
<1>3. TypeOK' BY DEF IInv, TypeOK, OpTypedNext, OnVm
<1>q. QED BY <1>1, <1>2, <1>3 DEF IInv

(* A step that changes at most the Mac.                                    *)
LEMMA MacStep ==
  ASSUME IInv, OpTypedNext, mac' \in MacState, mac'.lock <= locks, mac'.up => mac'.loaded,
         OnMac, Roles(mac', vm), Fit(op'.pc, mac', vm)
  PROVE  IInv'
<1>1. TypeOK' BY DEF IInv, TypeOK, OpTypedNext, OnMac
<1>q. QED BY <1>1 DEF IInv, OnMac

-----------------------------------------------------------------------------
(* The machines and their faults                                           *)

(* Nothing the command relies on changes; the command itself may be gone.  *)
LEMMA Bystander ==
  ASSUME IInv, mac' \in MacState, vm' \in VmState,
         mac'.lock = mac.lock, mac'.active = mac.active, mac'.enabled = mac.enabled,
         mac'.up => mac'.loaded, vm'.role = vm.role, vm'.copy = vm.copy,
         db' \in [{Mac, Vm} -> DbState], UNCHANGED <<notes, locks>>,
         writes' \in Nat, past' \in [waived : SUBSET Nat, newest : Nat],
         OpTypedNext, op'.pc \in {op.pc, "idle"}
  PROVE  IInv'
<1>1. Fit(op'.pc, mac, vm) BY IdleFits DEF IInv
<1>2. Fit(op'.pc, mac', vm') BY <1>1, FitKept
<1>3. Roles(mac', vm') BY DEF IInv, Roles
<1>4. TypeOK' BY DEF IInv, TypeOK, OpTypedNext
<1>q. QED BY <1>2, <1>3, <1>4 DEF IInv

LEMMA MacBootsKeeps ==
  ASSUME IInv, MacBoots
  PROVE  IInv'
<1>1. /\ mac' \in MacState /\ mac'.lock = mac.lock /\ mac'.active = mac.active
      /\ mac'.enabled = mac.enabled /\ (mac'.up => mac'.loaded)
  BY DEF IInv, TypeOK, MacBoots, MacState
<1>2. vm' \in VmState /\ vm'.role = vm.role /\ vm'.copy = vm.copy
  BY DEF IInv, TypeOK, MacBoots
<1>3. OpTypedNext /\ op'.pc \in {op.pc, "idle"}
  BY IdleOp DEF IInv, TypeOK, OpTypedNext, MacBoots
<1>q. QED BY <1>1, <1>2, <1>3, Bystander DEF IInv, TypeOK, MacBoots

LEMMA VmBootsKeeps ==
  ASSUME IInv, VmBoots
  PROVE  IInv'
<1>1. /\ mac' \in MacState /\ mac'.lock = mac.lock /\ mac'.active = mac.active
      /\ mac'.enabled = mac.enabled /\ (mac'.up => mac'.loaded)
  BY DEF IInv, TypeOK, VmBoots, Booted
<1>2. vm' \in VmState /\ vm'.role = vm.role /\ vm'.copy = vm.copy
  BY DEF IInv, TypeOK, VmBoots, VmState, Booted
<1>3. OpTypedNext /\ op'.pc \in {op.pc, "idle"}
  BY IdleOp DEF IInv, TypeOK, OpTypedNext, VmBoots, Booted
<1>q. QED BY <1>1, <1>2, <1>3, Bystander DEF IInv, TypeOK, VmBoots, Booted

LEMMA SessionOpensKeeps ==
  ASSUME IInv, SessionOpens
  PROVE  IInv'
<1>1. /\ mac' \in MacState /\ mac'.lock = mac.lock /\ mac'.active = mac.active
      /\ mac'.enabled = mac.enabled /\ (mac'.up => mac'.loaded)
  BY DEF IInv, TypeOK, SessionOpens, MacState
<1>2. vm' \in VmState /\ vm'.role = vm.role /\ vm'.copy = vm.copy
  BY DEF IInv, TypeOK, SessionOpens
<1>3. OpTypedNext /\ op'.pc \in {op.pc, "idle"}
  BY IdleOp DEF IInv, TypeOK, OpTypedNext, SessionOpens
<1>q. QED BY <1>1, <1>2, <1>3, Bystander DEF IInv, TypeOK, SessionOpens

LEMMA MacStartsWorkKeeps ==
  ASSUME IInv, NEW kind \in {"job", "child"}, MacStartsWork(kind)
  PROVE  IInv'
<1>1. /\ mac' \in MacState /\ mac'.lock = mac.lock /\ mac'.active = mac.active
      /\ mac'.enabled = mac.enabled /\ (mac'.up => mac'.loaded)
  BY DEF IInv, TypeOK, MacStartsWork, MacState
<1>2. vm' \in VmState /\ vm'.role = vm.role /\ vm'.copy = vm.copy
  BY DEF IInv, TypeOK, MacStartsWork
<1>3. OpTypedNext /\ op'.pc \in {op.pc, "idle"}
  BY IdleOp DEF IInv, TypeOK, OpTypedNext, MacStartsWork
<1>q. QED BY <1>1, <1>2, <1>3, Bystander DEF IInv, TypeOK, MacStartsWork

LEMMA VmStartsWorkKeeps ==
  ASSUME IInv, NEW kind \in {"job", "child"}, VmStartsWork(kind)
  PROVE  IInv'
<1>1. /\ mac' \in MacState /\ mac'.lock = mac.lock /\ mac'.active = mac.active
      /\ mac'.enabled = mac.enabled /\ (mac'.up => mac'.loaded)
  BY DEF IInv, TypeOK, VmStartsWork
<1>2. vm' \in VmState /\ vm'.role = vm.role /\ vm'.copy = vm.copy
  BY DEF IInv, TypeOK, VmStartsWork, VmState
<1>3. OpTypedNext /\ op'.pc \in {op.pc, "idle"}
  BY IdleOp DEF IInv, TypeOK, OpTypedNext, VmStartsWork
<1>q. QED BY <1>1, <1>2, <1>3, Bystander DEF IInv, TypeOK, VmStartsWork

LEMMA MacWorkEndsKeeps ==
  ASSUME IInv, NEW kind, MacWorkEnds(kind)
  PROVE  IInv'
<1>1. /\ mac' \in MacState /\ mac'.lock = mac.lock /\ mac'.active = mac.active
      /\ mac'.enabled = mac.enabled /\ (mac'.up => mac'.loaded)
  BY DEF IInv, TypeOK, MacWorkEnds, MacState
<1>2. vm' \in VmState /\ vm'.role = vm.role /\ vm'.copy = vm.copy
  BY DEF IInv, TypeOK, MacWorkEnds
<1>3. OpTypedNext /\ op'.pc \in {op.pc, "idle"}
  BY IdleOp DEF IInv, TypeOK, OpTypedNext, MacWorkEnds
<1>q. QED BY <1>1, <1>2, <1>3, Bystander DEF IInv, TypeOK, MacWorkEnds

LEMMA VmWorkEndsKeeps ==
  ASSUME IInv, NEW kind, VmWorkEnds(kind)
  PROVE  IInv'
<1>1. /\ mac' \in MacState /\ mac'.lock = mac.lock /\ mac'.active = mac.active
      /\ mac'.enabled = mac.enabled /\ (mac'.up => mac'.loaded)
  BY DEF IInv, TypeOK, VmWorkEnds
<1>2. vm' \in VmState /\ vm'.role = vm.role /\ vm'.copy = vm.copy
  BY DEF IInv, TypeOK, VmWorkEnds, VmState
<1>3. OpTypedNext /\ op'.pc \in {op.pc, "idle"}
  BY IdleOp DEF IInv, TypeOK, OpTypedNext, VmWorkEnds
<1>q. QED BY <1>1, <1>2, <1>3, Bystander DEF IInv, TypeOK, VmWorkEnds

LEMMA MacRebootsKeeps ==
  ASSUME IInv, MacReboots
  PROVE  IInv'
<1>1. /\ mac' \in MacState /\ mac'.lock = mac.lock /\ mac'.active = mac.active
      /\ mac'.enabled = mac.enabled /\ (mac'.up => mac'.loaded)
  BY DEF IInv, TypeOK, MacReboots, MacState, Fault
<1>2. vm' \in VmState /\ vm'.role = vm.role /\ vm'.copy = vm.copy
  BY DEF IInv, TypeOK, MacReboots, Fault
<1>3. OpTypedNext /\ op'.pc \in {op.pc, "idle"}
  BY IdleOp DEF IInv, TypeOK, OpTypedNext, MacReboots, Fault
<1>q. QED BY <1>1, <1>2, <1>3, Bystander DEF IInv, TypeOK, MacReboots, Fault

LEMMA VmRebootsKeeps ==
  ASSUME IInv, VmReboots
  PROVE  IInv'
<1>1. /\ mac' \in MacState /\ mac'.lock = mac.lock /\ mac'.active = mac.active
      /\ mac'.enabled = mac.enabled /\ (mac'.up => mac'.loaded)
  BY DEF IInv, TypeOK, VmReboots, Fault
<1>2. vm' \in VmState /\ vm'.role = vm.role /\ vm'.copy = vm.copy
  BY DEF IInv, TypeOK, VmReboots, VmState, Fault
<1>3. OpTypedNext /\ op'.pc \in {op.pc, "idle"}
  BY IdleOp DEF IInv, TypeOK, OpTypedNext, VmReboots, Fault
<1>q. QED BY <1>1, <1>2, <1>3, Bystander DEF IInv, TypeOK, VmReboots, Fault

LEMMA MacDaemonDiesKeeps ==
  ASSUME IInv, MacDaemonDies
  PROVE  IInv'
<1>1. /\ mac' \in MacState /\ mac'.lock = mac.lock /\ mac'.active = mac.active
      /\ mac'.enabled = mac.enabled /\ (mac'.up => mac'.loaded)
  BY DEF IInv, TypeOK, MacDaemonDies, MacState, Fault
<1>2. vm' \in VmState /\ vm'.role = vm.role /\ vm'.copy = vm.copy
  BY DEF IInv, TypeOK, MacDaemonDies, Fault
<1>3. OpTypedNext /\ op'.pc \in {op.pc, "idle"}
  BY IdleOp DEF IInv, TypeOK, OpTypedNext, MacDaemonDies, Fault
<1>q. QED BY <1>1, <1>2, <1>3, Bystander DEF IInv, TypeOK, MacDaemonDies, Fault

LEMMA VmDaemonDiesKeeps ==
  ASSUME IInv, VmDaemonDies
  PROVE  IInv'
<1>1. /\ mac' \in MacState /\ mac'.lock = mac.lock /\ mac'.active = mac.active
      /\ mac'.enabled = mac.enabled /\ (mac'.up => mac'.loaded)
  BY DEF IInv, TypeOK, VmDaemonDies, Fault, Halted
<1>2. vm' \in VmState /\ vm'.role = vm.role /\ vm'.copy = vm.copy
  BY DEF IInv, TypeOK, VmDaemonDies, VmState, Fault, Halted
<1>3. OpTypedNext /\ op'.pc \in {op.pc, "idle"}
  BY IdleOp DEF IInv, TypeOK, OpTypedNext, VmDaemonDies, Fault, Halted
<1>q. QED BY <1>1, <1>2, <1>3, Bystander DEF IInv, TypeOK, VmDaemonDies, Fault, Halted

LEMMA InterruptedKeeps ==
  ASSUME IInv, Interrupted
  PROVE  IInv'
<1>1. /\ mac' \in MacState /\ mac'.lock = mac.lock /\ mac'.active = mac.active
      /\ mac'.enabled = mac.enabled /\ (mac'.up => mac'.loaded)
  BY DEF IInv, TypeOK, Interrupted, Fault
<1>2. vm' \in VmState /\ vm'.role = vm.role /\ vm'.copy = vm.copy
  BY DEF IInv, TypeOK, Interrupted, Fault
<1>3. OpTypedNext /\ op'.pc \in {op.pc, "idle"}
  BY IdleOp DEF IInv, TypeOK, OpTypedNext, Interrupted, Fault
<1>q. QED BY <1>1, <1>2, <1>3, Bystander DEF IInv, TypeOK, Interrupted, Fault

LEMMA StaleLockDeletedKeeps ==
  ASSUME IInv, StaleLockDeleted
  PROVE  IInv'
<1>1. /\ mac' \in MacState /\ mac'.lock = mac.lock /\ mac'.active = mac.active
      /\ mac'.enabled = mac.enabled /\ (mac'.up => mac'.loaded)
  BY DEF IInv, TypeOK, StaleLockDeleted
<1>2. vm' \in VmState /\ vm'.role = vm.role /\ vm'.copy = vm.copy
  BY DEF IInv, TypeOK, StaleLockDeleted
<1>3. OpTypedNext /\ op'.pc \in {op.pc, "idle"}
  BY IdleOp DEF IInv, TypeOK, OpTypedNext, StaleLockDeleted
<1>q. QED BY <1>1, <1>2, <1>3, Bystander DEF IInv, TypeOK, StaleLockDeleted

LEMMA VmStartedByHandKeeps ==
  ASSUME IInv, VmStartedByHand
  PROVE  IInv'
<1>1. /\ mac' \in MacState /\ mac'.lock = mac.lock /\ mac'.active = mac.active
      /\ mac'.enabled = mac.enabled /\ (mac'.up => mac'.loaded)
  BY DEF IInv, TypeOK, VmStartedByHand, Booted
<1>2. vm' \in VmState /\ vm'.role = vm.role /\ vm'.copy = vm.copy
  BY DEF IInv, TypeOK, VmStartedByHand, VmState, Booted
<1>3. OpTypedNext /\ op'.pc \in {op.pc, "idle"}
  BY IdleOp DEF IInv, TypeOK, OpTypedNext, VmStartedByHand, Booted
<1>q. QED BY <1>1, <1>2, <1>3, Bystander DEF IInv, TypeOK, VmStartedByHand, Booted

LEMMA DbPutBackKeeps ==
  ASSUME IInv, DbPutBack
  PROVE  IInv'
<1>1. /\ mac' \in MacState /\ mac'.lock = mac.lock /\ mac'.active = mac.active
      /\ mac'.enabled = mac.enabled /\ (mac'.up => mac'.loaded)
  BY DEF IInv, TypeOK, DbPutBack, MacState
<1>2. OpTypedNext /\ op'.pc \in {op.pc, "idle"}
  BY DEF IInv, TypeOK, OpTypedNext, DbPutBack
<1>q. QED BY <1>1, <1>2, Bystander DEF IInv, TypeOK, DbPutBack

LEMMA StartedByHandKeeps ==
  ASSUME IInv, StartedByHand
  PROVE  IInv'
<1>1. /\ mac' \in MacState /\ mac'.lock = mac.lock /\ mac'.active = mac.active
      /\ mac'.enabled = mac.enabled /\ (mac'.up => mac'.loaded)
  BY DEF IInv, TypeOK, StartedByHand, MacState, Roles
<1>2. vm' \in VmState /\ vm'.role = vm.role /\ vm'.copy = vm.copy
  BY DEF IInv, TypeOK, StartedByHand
<1>3. OpTypedNext /\ op'.pc \in {op.pc, "idle"}
  BY IdleOp DEF IInv, TypeOK, OpTypedNext, StartedByHand
<1>q. QED BY <1>1, <1>2, <1>3, Bystander DEF IInv, TypeOK, StartedByHand

LEMMA WriteKeeps ==
  ASSUME IInv, NEW h \in {Mac, Vm}, NEW kind, Write(h, kind)
  PROVE  IInv'
<1>1. writes + 1 \in Nat BY DEF IInv, TypeOK
<1>2. DEFINE w == writes + 1
<1>3. db' \in [{Mac, Vm} -> DbState]
  <2> DEFINE d == [db EXCEPT ![h].rows = @ \cup {w}]
             t == IF Rotates(h, kind) THEN w ELSE db[h].token
  <2>1. db[h] \in DbState BY DEF IInv, TypeOK
  <2>2. [db[h] EXCEPT !.rows = @ \cup {w}] \in DbState BY <1>1, <2>1 DEF DbState
  <2>3. d \in [{Mac, Vm} -> DbState] BY <2>2 DEF IInv, TypeOK
  <2>4. d[h].token = db[h].token BY <2>1 DEF IInv, TypeOK, DbState
  <2>5. t \in Nat BY <1>1, <2>1 DEF DbState
  <2>6. db' = [d EXCEPT ![h].token = t] BY <2>4 DEF Write
  <2>7. d[h] \in DbState BY <2>3
  <2>8. [d[h] EXCEPT !.token = t] \in DbState BY <2>5, <2>7 DEF DbState
  <2> HIDE DEF d, t
  <2>q. QED BY <2>3, <2>6, <2>8
<1>4. past' \in [waived : SUBSET Nat, newest : Nat]
  BY <1>1 DEF IInv, TypeOK, Write
<1>5. OpTypedNext BY DEF IInv, TypeOK, OpTypedNext, Write
<1>q. QED BY <1>1, <1>3, <1>4, <1>5, Bystander DEF IInv, TypeOK, Write

-----------------------------------------------------------------------------
(* The command begins and fails                                            *)

LEMMA StepFailsKeeps ==
  ASSUME IInv, StepFails
  PROVE  IInv'
<1>1. OpTypedNext /\ (op'.pc = "idle" \/ (op'.pc = "park" /\ op.pc \in Parking))
  BY Fails DEF IInv, TypeOK, StepFails, Fault
<1>2. Fit(op'.pc, mac, vm) BY <1>1, IdleFits, ParkFits, ParkingLocked DEF IInv
<1>q. QED BY <1>1, <1>2 DEF IInv, TypeOK, OpTypedNext, StepFails

(* What lets a command begin makes it fit at its first step.               *)
LEMMA BeginKeeps ==
  ASSUME IInv, NEW cmd, NEW first \in Pcs, Begin(cmd, first), Fit(first, mac, vm)
  PROVE  IInv'
<1>1. PICK a \in Bool :
        op' = [NoOp EXCEPT !.pc = first, !.accepts = a,
                           !.lockAt = IF cmd = "rollback" THEN mac.lock ELSE 0]
  BY DEF Begin
<1>2. mac.lock \in Nat BY DEF IInv, TypeOK, MacState
<1>3. op' \in OpState /\ op'.pc = first /\ op'.lockAt \in {mac.lock, 0}
  BY <1>1, <1>2 DEF NoOp, OpState, Pcs
<1>4. OpTypedNext BY <1>2, <1>3 DEF IInv, TypeOK, OpTypedNext, Begin
<1>q. QED BY <1>3, <1>4 DEF IInv, TypeOK, OpTypedNext, Begin

LEMMA BeginAnyKeeps ==
  ASSUME IInv, BeginDryRun \/ BeginCutover \/ BeginRollback
  PROVE  IInv'
<1> USE DEF Fit, LockedPcs, HeldPcs, AwayPcs, ActivePcs, EnabledPcs
<1>1. CASE BeginDryRun
  <2>1. Fit("dSnapshot", mac, vm) BY DEF Cut, Roll, Unlock
  <2>2. "dSnapshot" \in Pcs BY DEF Pcs, Dry
  <2>q. QED BY <1>1, <2>1, <2>2, BeginKeeps DEF BeginDryRun
<1>2. CASE BeginCutover
  <2>1. Fit("lock", mac, vm) BY DEF Cut, Roll, Unlock
  <2>2. "lock" \in Pcs BY DEF Pcs, Cut
  <2>q. QED BY <1>2, <2>1, <2>2, BeginKeeps DEF BeginCutover
<1>3. CASE BeginRollback
  <2>1. mac.lock # 0 BY <1>3 DEF BeginRollback, Begin, Allowed, BringingHome
  <2>2. Fit("record", mac, vm) BY <2>1 DEF Cut, Roll, Unlock
  <2>3. ~AsData => Fit("uCheck", mac, vm) BY <2>1 DEF AsData, Cut, Roll, Unlock
  <2>4. "record" \in Pcs /\ "uCheck" \in Pcs BY DEF Pcs, Roll, Unlock
  <2>5. CASE AsData BY <1>3, <2>2, <2>4, <2>5, BeginKeeps DEF BeginRollback
  <2>6. CASE ~AsData BY <1>3, <2>3, <2>4, <2>6, BeginKeeps DEF BeginRollback
  <2>q. QED BY <2>5, <2>6
<1>q. QED BY <1>1, <1>2, <1>3

-----------------------------------------------------------------------------
(* The steps of the command                                                *)

(* Nothing a step relies on differs between pc and its successor.          *)
Follows(pc, next) == pc # "idle" /\ next \in Pcs /\ \A m, v : Fit(pc, m, v) => Fit(next, m, v)

LEMMA Next_Fits ==
  ASSUME IInv, NEW pc, NEW next, Follows(pc, next), At(pc), Remotely(next) \/ To(next)
  PROVE  OpTypedNext /\ Fit(op'.pc, mac, vm)
<1>1. /\ OpTypedNext
      /\ op'.pc \in {next, "idle", "park"}
      /\ op'.pc = next \/ op'.pc = "idle" \/ op.pc \in Parking
  BY Moves DEF IInv, Follows, At
<1>2. Fit(next, mac, vm) BY DEF IInv, Follows, At
<1>3. op.pc \in Parking => Fit("park", mac, vm) BY ParkFits, ParkingLocked DEF IInv
<1>q. QED BY <1>1, <1>2, <1>3, IdleFits

LEMMA StopVmKeeps ==
  ASSUME IInv, NEW pc, NEW next, Follows(pc, next), StopVm(pc, next)
  PROVE  IInv'
<1>1. OpTypedNext /\ Fit(op'.pc, mac, vm) BY Next_Fits DEF StopVm
<1>2. vm' \in VmState /\ vm'.role = vm.role /\ vm'.copy = vm.copy
  BY DEF IInv, TypeOK, VmState, StopVm, Stopped, Halted
<1>q. QED BY <1>1, <1>2, VmStep DEF StopVm

LEMMA PushKeeps ==
  ASSUME IInv, NEW pc, NEW next, Follows(pc, next), Push(pc, next)
  PROVE  IInv'
<1>1. OpTypedNext /\ Fit(op'.pc, mac, vm) BY Next_Fits DEF Push
<1>2. vm' \in VmState /\ vm'.role = vm.role /\ vm'.copy = vm.copy
  BY DEF IInv, TypeOK, VmState, Push, MacState
<1>q. QED BY <1>1, <1>2, VmStep DEF Push

LEMMA StartVmKeeps ==
  ASSUME IInv, NEW pc, NEW next, Follows(pc, next), StartVm(pc, next)
  PROVE  IInv'
<1>1. OpTypedNext /\ Fit(op'.pc, mac, vm) BY Next_Fits DEF StartVm
<1>2. vm' \in VmState /\ vm'.role = vm.role /\ vm'.copy = vm.copy
  BY DEF IInv, TypeOK, VmState, StartVm, Booted
<1>q. QED BY <1>1, <1>2, VmStep DEF StartVm

LEMMA SnapshotKeeps ==
  ASSUME IInv, NEW pc, NEW next, Follows(pc, next), Snapshot(pc, next)
  PROVE  IInv'
<1>1. db[Mac] \in DbState BY DEF IInv, TypeOK
<1>2. /\ op' \in OpState /\ op'.pc = next /\ op'.lockAt = op.lockAt
  BY <1>1 DEF IInv, TypeOK, Snapshot, OpState, DbState, Follows, Pcs
<1>3. Fit(next, mac, vm) BY DEF IInv, Follows, Snapshot, At
<1>q. QED BY <1>2, <1>3 DEF IInv, TypeOK, Snapshot, Follows, At

LEMMA HoldVmKeeps ==
  ASSUME IInv, NEW pc, NEW next \in Pcs, pc # "idle", HoldVm(pc, next),
         Fit(next, mac, vm')
  PROVE  IInv'
<1>1. /\ OpTypedNext
      /\ op'.pc \in {next, "idle", "park"}
      /\ op'.pc = next \/ op'.pc = "idle" \/ op.pc \in Parking
  BY Moves DEF IInv, HoldVm, At
<1>2. vm' \in VmState /\ vm'.role = "dry-run" BY DEF IInv, TypeOK, VmState, HoldVm
<1>3. op.pc \in Parking => Fit("park", mac, vm') BY ParkFits, ParkingLocked DEF IInv
<1>4. Fit(op'.pc, mac, vm') BY <1>1, <1>3, IdleFits
<1>5. Roles(mac, vm') BY <1>2 DEF IInv, Roles
<1>q. QED BY <1>1, <1>2, <1>4, <1>5 DEF IInv, TypeOK, OpTypedNext, HoldVm, OnVm

LEMMA InstallKeeps ==
  ASSUME IInv, NEW pc, NEW next, NEW token \in Nat, Follows(pc, next),
         pc \in HeldPcs, Install(pc, next, token)
  PROVE  IInv'
<1>1. OpTypedNext /\ Fit(op'.pc, mac, vm) BY Next_Fits DEF Install
<1>2. vm' \in VmState /\ vm'.role = vm.role BY DEF IInv, TypeOK, VmState, Install
<1>3. vm.role = "dry-run" BY DEF IInv, Fit, Install, At
<1>4. op.snap \in SUBSET Nat BY DEF IInv, TypeOK, OpState
<1>5. [rows |-> op.snap, token |-> token] \in DbState BY <1>4 DEF DbState
<1>6. db' \in [{Mac, Vm} -> DbState] BY <1>5 DEF IInv, TypeOK, Install
<1>7. Fit(op'.pc, mac, vm') BY <1>1, <1>2, FitKept
<1>8. Roles(mac, vm') BY <1>2, <1>3 DEF IInv, Roles
<1>q. QED BY <1>1, <1>2, <1>6, <1>7, <1>8 DEF IInv, TypeOK, OpTypedNext, Install

(* The steps that refuse, time out or end the command change nothing else. *)
LEMMA RefusalKeeps ==
  ASSUME IInv, InstallRefused \/ VerifyTimesOut
  PROVE  IInv'
<1>1. op.pc # "idle" BY DEF InstallRefused, VerifyTimesOut, At
<1>2. Failed /\ UNCHANGED <<mac, vm, db, notes, locks, writes, faults, past>>
  BY DEF InstallRefused, VerifyTimesOut
<1>3. OpTypedNext /\ (op'.pc = "idle" \/ (op'.pc = "park" /\ op.pc \in Parking))
  BY <1>1, <1>2, Fails DEF IInv, TypeOK
<1>4. Fit(op'.pc, mac, vm) BY <1>3, IdleFits, ParkFits, ParkingLocked DEF IInv
<1>q. QED BY <1>2, <1>3, <1>4 DEF IInv, TypeOK, OpTypedNext

LEMMA EndKeeps ==
  ASSUME IInv, Ends, vm' \in VmState, vm'.role = vm.role, vm'.copy = vm.copy, OnVm
  PROVE  IInv'
<1>1. OpTypedNext /\ op'.pc = "idle" BY Ending DEF IInv
<1>2. Fit(op'.pc, mac, vm) BY <1>1, IdleFits
<1>q. QED BY <1>1, <1>2, VmStep

(* A step that looks, and goes on.                                         *)
LEMMA LookKeeps ==
  ASSUME IInv, NEW pc, NEW next, Follows(pc, next), At(pc), To(next),
         UNCHANGED <<mac, vm, db, notes, locks, writes, past>>
  PROVE  IInv'
<1>1. OpTypedNext /\ Fit(op'.pc, mac, vm) BY Next_Fits
<1>q. QED BY <1>1 DEF IInv, TypeOK, OpTypedNext

(* A step that only writes the Mac's notes.                                *)
LEMMA NoteKeeps ==
  ASSUME IInv, NEW pc, NEW next, Follows(pc, next), At(pc), To(next),
         notes' \in NotesState, notes'.rollback <= locks,
         UNCHANGED <<mac, vm, db, locks, writes, past>>
  PROVE  IInv'
<1>1. OpTypedNext /\ Fit(op'.pc, mac, vm) BY Next_Fits
<1>q. QED BY <1>1 DEF IInv, TypeOK, OpTypedNext

(* A step on the Mac that leaves its role alone.                           *)
LEMMA LocalKeeps ==
  ASSUME IInv, NEW pc, NEW next, pc # "idle", next \in Pcs, At(pc),
         To(next) \/ Remotely(next), pc \notin Parking,
         mac' \in MacState, mac'.lock = mac.lock, mac'.up => mac'.loaded, OnMac,
         mac.lock = 0 => mac'.active /\ mac'.enabled, Fit(next, mac', vm)
  PROVE  IInv'
<1>1. OpTypedNext /\ op'.pc \in {next, "idle"} BY Moves DEF IInv, At
<1>2. Fit(op'.pc, mac', vm) BY <1>1, IdleFits
<1>3. Roles(mac', vm) BY DEF IInv, Roles
<1>4. mac'.lock <= locks BY DEF IInv, TypeOK
<1>q. QED BY <1>1, <1>2, <1>3, <1>4, MacStep

-----------------------------------------------------------------------------
(* dry-run                                                                 *)

LEMMA DryFollows ==
  /\ Follows("dSnapshot", "dStopVm") /\ Follows("dStopVm", "dHold")
  /\ Follows("dPush", "dInstall") /\ Follows("dInstall", "dStart")
  /\ Follows("dStart", "dVerify")
BY DEF Follows, Fit, LockedPcs, HeldPcs, AwayPcs, ActivePcs, EnabledPcs, Pcs, Dry, Cut, Roll, Unlock

LEMMA DryRunKeeps ==
  ASSUME IInv, DryRunStep
  PROVE  IInv'
<1>1. CASE Snapshot("dSnapshot", "dStopVm") BY <1>1, DryFollows, SnapshotKeeps
<1>2. CASE StopVm("dStopVm", "dHold") BY <1>2, DryFollows, StopVmKeeps
<1>3. CASE HoldVm("dHold", "dPush")
  <2>1. vm'.role = "dry-run" BY <1>3 DEF IInv, TypeOK, VmState, HoldVm
  <2>2. "dPush" \in Pcs /\ Fit("dPush", mac, vm')
    BY <2>1 DEF Fit, LockedPcs, HeldPcs, AwayPcs, ActivePcs, EnabledPcs, Pcs, Dry, Cut, Roll, Unlock
  <2>q. QED BY <1>3, <2>2, HoldVmKeeps
<1>4. CASE Push("dPush", "dInstall") BY <1>4, DryFollows, PushKeeps
<1>5. CASE Install("dInstall", "dStart", op.token)
  <2>1. op.token \in Nat /\ "dInstall" \in HeldPcs BY DEF IInv, TypeOK, OpState, HeldPcs
  <2>q. QED BY <1>5, <2>1, DryFollows, InstallKeeps
<1>6. CASE StartVm("dStart", "dVerify") BY <1>6, DryFollows, StartVmKeeps
<1>7. CASE InstallRefused BY <1>7, RefusalKeeps
<1>8. CASE At("dVerify") /\ Ends /\ UNCHANGED vm /\ OnVm
  BY <1>8, EndKeeps DEF IInv, TypeOK
<1>q. QED BY <1>1, <1>2, <1>3, <1>4, <1>5, <1>6, <1>7, <1>8 DEF DryRunStep

-----------------------------------------------------------------------------
(* cutover                                                                 *)

LEMMA CutFollows ==
  /\ Follows("pause", "drain") /\ Follows("drain", "stopMac")
  /\ Follows("stopMac", "disable") /\ Follows("disable", "confirm")
  /\ Follows("confirm", "snapshot") /\ Follows("snapshot", "stopVm")
  /\ Follows("stopVm", "hold") /\ Follows("push", "install")
  /\ Follows("install", "mark") /\ Follows("start", "noteRan")
  /\ Follows("noteRan", "resume") /\ Follows("resume", "verify")
  /\ Follows("park", "parkStop")
BY DEF Follows, Fit, LockedPcs, HeldPcs, AwayPcs, ActivePcs, EnabledPcs, Pcs, Dry, Cut, Roll, Unlock

LEMMA LockMacKeeps ==
  ASSUME IInv, LockMac
  PROVE  IInv'
<1> USE DEF Fit, LockedPcs, HeldPcs, AwayPcs, ActivePcs, EnabledPcs
<1>1. CASE mac.lock # 0 /\ UNCHANGED <<mac, notes, locks>>
           /\ op' = [op EXCEPT !.pc = "pause", !.lockAt = mac.lock]
  <2>1. mac.lock \in Nat /\ mac.lock <= locks BY DEF IInv, TypeOK, MacState
  <2>2. op' \in OpState /\ op'.pc = "pause" /\ op'.lockAt = mac.lock
    BY <1>1, <2>1 DEF IInv, TypeOK, OpState, Cut
  <2>3. Fit("pause", mac, vm) BY <1>1 DEF Roll, Unlock
  <2>4. op.pc # "idle" /\ UNCHANGED <<vm, db, opLock, writes, faults, past>>
    BY DEF LockMac, At
  <2>5. Roles(mac', vm') BY <1>1, <2>4 DEF IInv
  <2>q. QED BY <1>1, <2>1, <2>2, <2>3, <2>4, <2>5 DEF IInv, TypeOK
<1>2. CASE mac.lock = 0 /\ locks' = locks + 1 /\ mac' = [mac EXCEPT !.lock = locks + 1]
           /\ notes' = [rollback |-> 0, cgroup |-> FALSE, vmRan |-> FALSE]
           /\ op' = [op EXCEPT !.pc = "pause", !.lockAt = locks + 1]
  <2>1. locks + 1 \in Nat /\ locks + 1 # 0 /\ 0 <= locks + 1 BY DEF IInv, TypeOK
  <2>2. op' \in OpState /\ op'.pc = "pause" /\ op'.lockAt = locks + 1
    BY <1>2, <2>1 DEF IInv, TypeOK, OpState, Cut
  <2>3. /\ mac' \in MacState /\ mac'.lock = locks + 1 /\ mac'.up = mac.up
        /\ mac'.loaded = mac.loaded
    BY <1>2, <2>1 DEF IInv, TypeOK, MacState
  <2>4. Fit("pause", mac', vm) BY <2>1, <2>3 DEF Roll, Unlock
  <2>5. op.pc # "idle" /\ UNCHANGED <<vm, db, opLock, writes, faults, past>>
    BY DEF LockMac, At
  <2>6. notes' \in NotesState /\ notes'.rollback = 0 BY <1>2 DEF NotesState
  <2>7. Roles(mac', vm') BY <2>1, <2>3, <2>5 DEF IInv, Roles
  <2>q. QED BY <1>2, <2>1, <2>2, <2>3, <2>4, <2>5, <2>6, <2>7 DEF IInv, TypeOK
<1>q. QED BY <1>1, <1>2 DEF LockMac

LEMMA PauseMacKeeps ==
  ASSUME IInv, PauseMac
  PROVE  IInv'
<1>1. /\ mac' \in MacState /\ mac'.lock = mac.lock /\ (mac'.up => mac'.loaded)
  BY DEF IInv, TypeOK, MacState, PauseMac
<1>2. mac.lock # 0 BY DEF IInv, PauseMac, At, Fit, LockedPcs, Cut
<1>3. Fit("drain", mac', vm)
  BY <1>1, <1>2 DEF Fit, LockedPcs, HeldPcs, AwayPcs, ActivePcs, EnabledPcs, Dry, Cut, Roll, Unlock
<1>4. "drain" \in Pcs /\ "pause" \notin Parking BY DEF Pcs, Cut, Parking
<1>q. QED BY <1>1, <1>2, <1>3, <1>4, LocalKeeps DEF PauseMac, At

LEMMA StopMacKeeps ==
  ASSUME IInv, StopMac
  PROVE  IInv'
<1>1. /\ mac' \in MacState /\ mac'.lock = mac.lock /\ (mac'.up => mac'.loaded)
  BY DEF IInv, TypeOK, MacState, StopMac
<1>2. mac.lock # 0 BY DEF IInv, StopMac, At, Fit, LockedPcs, Cut
<1>3. Fit("disable", mac', vm)
  BY <1>1, <1>2 DEF Fit, LockedPcs, HeldPcs, AwayPcs, ActivePcs, EnabledPcs, Dry, Cut, Roll, Unlock
<1>4. "disable" \in Pcs /\ "stopMac" \notin Parking BY DEF Pcs, Cut, Parking
<1>q. QED BY <1>1, <1>2, <1>3, <1>4, LocalKeeps DEF StopMac, At

LEMMA DisableKeeps ==
  ASSUME IInv, Disable
  PROVE  IInv'
<1>1. /\ mac' \in MacState /\ mac'.lock = mac.lock /\ (mac'.up => mac'.loaded)
  BY DEF IInv, TypeOK, MacState, Disable
<1>2. mac.lock # 0 BY DEF IInv, Disable, At, Fit, LockedPcs, Cut
<1>3. Fit("confirm", mac', vm)
  BY <1>1, <1>2 DEF Fit, LockedPcs, HeldPcs, AwayPcs, ActivePcs, EnabledPcs, Dry, Cut, Roll, Unlock
<1>4. "confirm" \in Pcs /\ "disable" \notin Parking BY DEF Pcs, Cut, Parking
<1>q. QED BY <1>1, <1>2, <1>3, <1>4, LocalKeeps DEF Disable, At

LEMMA MarkPrimaryKeeps ==
  ASSUME IInv, MarkPrimary
  PROVE  IInv'
<1>1. mac.lock # 0 BY DEF MarkPrimary, StillLocked
<1>2. "start" \in Pcs BY DEF Pcs, Cut
<1>3. OpTypedNext /\ op'.pc \in {"start", "idle", "park"}
  BY <1>2, Moves DEF IInv, MarkPrimary, At
<1>4. vm' \in VmState /\ vm'.role = "primary" BY DEF IInv, TypeOK, VmState, MarkPrimary
<1>5. Fit("start", mac, vm')
  BY <1>1 DEF Fit, LockedPcs, HeldPcs, AwayPcs, ActivePcs, EnabledPcs, Dry, Cut, Roll, Unlock
<1>6. Fit(op'.pc, mac, vm') BY <1>1, <1>3, <1>5, IdleFits, ParkFits
<1>7. Roles(mac, vm') BY <1>1, <1>4 DEF Roles
<1>q. QED BY <1>3, <1>4, <1>6, <1>7 DEF IInv, TypeOK, OpTypedNext, MarkPrimary, OnVm

LEMMA ParkKeeps ==
  ASSUME IInv, Park
  PROVE  IInv'
<1>1. OpTypedNext /\ Fit(op'.pc, mac, vm) BY CutFollows, Next_Fits DEF Park
<1>2. vm' \in VmState /\ vm'.role = "dry-run" BY DEF IInv, TypeOK, VmState, Park
<1>3. mac.lock # 0 BY DEF IInv, Park, At, Fit, LockedPcs, Cut
<1>4. op'.pc \in {"parkStop", "idle", "park"}
  BY Moves DEF IInv, Park, At, Pcs, Cut
<1>5. Fit(op'.pc, mac, vm')
  BY <1>3, <1>4 DEF Fit, LockedPcs, HeldPcs, AwayPcs, ActivePcs, EnabledPcs, Dry, Cut, Roll, Unlock
<1>6. Roles(mac, vm') BY <1>2, <1>3 DEF Roles
<1>7. db[Vm] \in DbState BY DEF IInv, TypeOK
<1>8. past' \in [waived : SUBSET Nat, newest : Nat] BY <1>7 DEF IInv, TypeOK, Park, DbState
<1>q. QED BY <1>1, <1>2, <1>5, <1>6, <1>8 DEF IInv, TypeOK, OpTypedNext, Park

LEMMA CutoverKeeps ==
  ASSUME IInv, CutoverStep
  PROVE  IInv'
<1>1. CASE LockMac BY <1>1, LockMacKeeps
<1>2. CASE PauseMac BY <1>2, PauseMacKeeps
<1>3. CASE Drain BY <1>3, CutFollows, LookKeeps DEF Drain, OnMac
<1>4. CASE StopMac BY <1>4, StopMacKeeps
<1>5. CASE Disable BY <1>5, DisableKeeps
<1>6. CASE Confirm BY <1>6, CutFollows, LookKeeps DEF Confirm, OnMac
<1>7. CASE Snapshot("snapshot", "stopVm") BY <1>7, CutFollows, SnapshotKeeps
<1>8. CASE StopVm("stopVm", "hold") BY <1>8, CutFollows, StopVmKeeps
<1>9. CASE HoldVm("hold", "push")
  <2>1. vm'.role = "dry-run" BY <1>9 DEF IInv, TypeOK, VmState, HoldVm
  <2>2. mac.lock # 0 BY <1>9 DEF IInv, HoldVm, At, Fit, LockedPcs, Cut
  <2>3. "push" \in Pcs /\ Fit("push", mac, vm')
    BY <2>1, <2>2 DEF Fit, LockedPcs, HeldPcs, AwayPcs, ActivePcs, EnabledPcs, Pcs, Dry, Cut, Roll, Unlock
  <2>q. QED BY <1>9, <2>3, HoldVmKeeps
<1>10. CASE Push("push", "install") BY <1>10, CutFollows, PushKeeps
<1>11. CASE Install("install", "mark", Carried)
  <2>1. "install" \in HeldPcs BY DEF HeldPcs
  <2>2. op.token \in Nat /\ db[Vm].token \in Nat BY DEF IInv, TypeOK, OpState, DbState
  <2>3. Carried \in Nat BY <2>2 DEF Carried, Newest
  <2>q. QED BY <1>11, <2>1, <2>3, CutFollows, InstallKeeps
<1>12. CASE MarkPrimary BY <1>12, MarkPrimaryKeeps
<1>13. CASE StartVm("start", "noteRan") BY <1>13, CutFollows, StartVmKeeps
<1>14. CASE NoteRan
  <2>1. notes' \in NotesState /\ notes'.rollback <= locks
    BY <1>14 DEF IInv, TypeOK, NoteRan, NotesState
  <2>q. QED BY <1>14, <2>1, CutFollows, NoteKeeps DEF NoteRan
<1>15. CASE ResumeVm
  <2>1. OpTypedNext /\ Fit(op'.pc, mac, vm) BY <1>15, CutFollows, Next_Fits DEF ResumeVm
  <2>2. vm' \in VmState /\ vm'.role = vm.role /\ vm'.copy = vm.copy
    BY <1>15 DEF IInv, TypeOK, VmState, ResumeVm
  <2>q. QED BY <1>15, <2>1, <2>2, VmStep DEF ResumeVm
<1>16. CASE Verify BY <1>16, EndKeeps DEF IInv, TypeOK, Verify
<1>17. CASE VerifyTimesOut BY <1>17, RefusalKeeps
<1>18. CASE Park BY <1>18, ParkKeeps
<1>19. CASE ParkStop
  <2>1. vm' \in VmState /\ vm'.role = vm.role /\ vm'.copy = vm.copy
    BY <1>19 DEF IInv, TypeOK, VmState, ParkStop, Stopped, Halted
  <2>q. QED BY <1>19, <2>1, EndKeeps DEF ParkStop
<1>q. QED
  BY <1>1, <1>2, <1>3, <1>4, <1>5, <1>6, <1>7, <1>8, <1>9, <1>10, <1>11, <1>12,
     <1>13, <1>14, <1>15, <1>16, <1>17, <1>18, <1>19 DEF CutoverStep

-----------------------------------------------------------------------------
(* rollback                                                                *)

LEMMA RollFollows ==
  /\ Follows("record", "rHold") /\ Follows("rPause", "rGroup")
  /\ Follows("rGroup", "rDrain") /\ Follows("rDrain", "rStopVm")
  /\ Follows("rStopVm", "rConfirmVm") /\ Follows("rConfirmVm", "rSnapshot")
  /\ Follows("rSnapshot", "rPull") /\ Follows("rPull", "rConfirm")
  /\ Follows("rConfirm", "rInstall") /\ Follows("rInstall", "rMoved")
  /\ Follows("rMoved", "rResume")
  /\ Follows("rForget", "rStart") /\ Follows("uForget", "uStart")
  /\ Follows("uCheck", "uResume")
BY DEF Follows, Fit, LockedPcs, HeldPcs, AwayPcs, ActivePcs, EnabledPcs, Pcs, Dry, Cut, Roll, Unlock

LEMMA RecordRollbackKeeps ==
  ASSUME IInv, RecordRollback
  PROVE  IInv'
<1>1. op.lockAt \in Nat BY DEF IInv, TypeOK, OpState
<1>2. (BringingHome /\ notes.cgroup) \in Bool BY DEF IInv, TypeOK, NotesState
<1>3. notes' \in NotesState /\ notes'.rollback = op.lockAt
  BY <1>1, <1>2 DEF IInv, TypeOK, NotesState, RecordRollback
<1>4. notes'.rollback <= locks BY <1>3 DEF IInv, TypeOK
<1>q. QED BY <1>3, <1>4, RollFollows, NoteKeeps DEF RecordRollback

LEMMA PauseVmKeeps ==
  ASSUME IInv, PauseVm
  PROVE  IInv'
<1>1. OpTypedNext /\ Fit(op'.pc, mac, vm) BY RollFollows, Next_Fits DEF PauseVm
<1>2. vm' \in VmState /\ vm'.role = vm.role /\ vm'.copy = vm.copy
  BY DEF IInv, TypeOK, VmState, PauseVm
<1>q. QED BY <1>1, <1>2, VmStep DEF PauseVm

LEMMA FindGroupKeeps ==
  ASSUME IInv, FindGroup
  PROVE  IInv'
<1>1. CASE Ends /\ UNCHANGED notes
  BY <1>1, EndKeeps DEF FindGroup, OnVm, IInv, TypeOK
<1>2. CASE To("rDrain")
  <2>1. notes' \in NotesState /\ notes'.rollback <= locks
    BY <1>2 DEF IInv, TypeOK, FindGroup, NotesState, Ends
  <2>q. QED BY <1>2, <2>1, RollFollows, NoteKeeps DEF FindGroup
<1>q. QED BY <1>1, <1>2 DEF FindGroup

LEMMA PullSnapshotKeeps ==
  ASSUME IInv, PullSnapshot
  PROVE  IInv'
<1>1. db[Vm] \in DbState BY DEF IInv, TypeOK
<1>2. op' \in OpState /\ op'.pc = "rPull" /\ op'.lockAt = op.lockAt
  BY <1>1 DEF IInv, TypeOK, PullSnapshot, OpState, DbState, Roll
<1>3. Fit("rPull", mac, vm) BY RollFollows DEF IInv, Follows, PullSnapshot, At
<1>q. QED BY <1>2, <1>3 DEF IInv, TypeOK, PullSnapshot, At

LEMMA PullUserDataKeeps ==
  ASSUME IInv, PullUserData
  PROVE  IInv'
<1>1. /\ mac' \in MacState /\ mac'.lock = mac.lock /\ (mac'.up => mac'.loaded)
  BY DEF IInv, TypeOK, MacState, VmState, PullUserData
<1>2. mac.lock # 0 /\ vm.role = "dry-run"
  BY DEF IInv, PullUserData, At, Fit, LockedPcs, HeldPcs, Roll
<1>3. Fit("rConfirm", mac', vm)
  BY <1>1, <1>2 DEF Fit, LockedPcs, HeldPcs, AwayPcs, ActivePcs, EnabledPcs, Dry, Cut, Roll, Unlock
<1>4. "rConfirm" \in Pcs /\ "rPull" \notin Parking BY DEF Pcs, Roll, Parking
<1>q. QED BY <1>1, <1>2, <1>3, <1>4, LocalKeeps DEF PullUserData, At

LEMMA MoveAsideKeeps ==
  ASSUME IInv, MoveAside
  PROVE  IInv'
<1>1. OpTypedNext /\ Fit(op'.pc, mac, vm) BY RollFollows, Next_Fits DEF MoveAside
<1>2. /\ mac' \in MacState /\ mac'.lock = mac.lock /\ mac'.active = mac.active
      /\ mac'.enabled = mac.enabled /\ (mac'.up => mac'.loaded)
  BY DEF IInv, TypeOK, MoveAside, MacState
<1>3. Fit(op'.pc, mac', vm) BY <1>1, <1>2, FitKept
<1>4. Roles(mac', vm) /\ mac'.lock <= locks BY <1>2 DEF IInv, TypeOK, Roles
<1>q. QED BY <1>1, <1>2, <1>3, <1>4, MacStep DEF MoveAside

LEMMA InstallOnMacKeeps ==
  ASSUME IInv, InstallOnMac
  PROVE  IInv'
<1>1. OpTypedNext /\ Fit(op'.pc, mac, vm) BY RollFollows, Next_Fits DEF InstallOnMac
<1>2. op.snap \in SUBSET Nat /\ op.token \in Nat BY DEF IInv, TypeOK, OpState
<1>3. [rows |-> op.snap, token |-> op.token] \in DbState BY <1>2 DEF DbState
<1>4. db' \in [{Mac, Vm} -> DbState] BY <1>3 DEF IInv, TypeOK, InstallOnMac
<1>5. /\ mac' \in MacState /\ mac'.lock = mac.lock /\ mac'.active = mac.active
      /\ mac'.enabled = mac.enabled /\ (mac'.up => mac'.loaded)
  BY DEF IInv, TypeOK, InstallOnMac, MacState
<1>6. Fit(op'.pc, mac', vm) BY <1>1, <1>5, FitKept
<1>7. Roles(mac', vm) BY <1>5 DEF IInv, Roles
<1>q. QED BY <1>1, <1>4, <1>5, <1>6, <1>7 DEF IInv, TypeOK, OpTypedNext, InstallOnMac

(* Resuming and enabling come before unlocking: each leaves what the next  *)
(* step of either rollback needs.                                          *)
Homeward == {"rResume", "rEnable", "rUnlock", "uResume", "uEnable", "uUnlock"}

LEMMA HomewardFits ==
  ASSUME NEW pc \in Homeward, NEW m, NEW v, Fit(pc, m, v)
  PROVE  /\ m.lock # 0 /\ v.role # "primary"
         /\ pc \in {"rResume", "rEnable", "rUnlock"} => v.role = "dry-run"
         /\ pc \in {"rEnable", "rUnlock", "uEnable", "uUnlock"} => m.active
         /\ pc \in {"rUnlock", "uUnlock"} => m.enabled
BY DEF Homeward, Fit, LockedPcs, HeldPcs, AwayPcs, ActivePcs, EnabledPcs, Roll, Unlock

LEMMA ResumeMacKeeps ==
  ASSUME IInv, NEW pc, NEW next,
         <<pc, next>> \in {<<"rResume", "rEnable">>, <<"uResume", "uEnable">>},
         ResumeMac(pc, next)
  PROVE  IInv'
<1>1. pc \in Homeward /\ pc \notin Parking /\ next \in Pcs /\ pc # "idle"
  BY DEF Homeward, Parking, Pcs, Roll, Unlock
<1>2. Fit(pc, mac, vm) BY DEF IInv, ResumeMac, At
<1>3. mac.lock # 0 /\ vm.role # "primary" /\ (pc = "rResume" => vm.role = "dry-run")
  BY <1>1, <1>2, HomewardFits
<1>4. /\ mac' \in MacState /\ mac'.lock = mac.lock /\ mac'.active
      /\ (mac'.up => mac'.loaded)
  BY DEF IInv, TypeOK, MacState, ResumeMac
<1>5. Fit(next, mac', vm)
  BY <1>3, <1>4 DEF Fit, LockedPcs, HeldPcs, AwayPcs, ActivePcs, EnabledPcs, Cut, Roll, Unlock
<1>q. QED BY <1>1, <1>3, <1>4, <1>5, LocalKeeps DEF ResumeMac

LEMMA EnableKeeps ==
  ASSUME IInv, NEW pc, NEW next,
         <<pc, next>> \in {<<"rEnable", "rUnlock">>, <<"uEnable", "uUnlock">>},
         Enable(pc, next)
  PROVE  IInv'
<1>1. pc \in Homeward /\ pc \notin Parking /\ next \in Pcs /\ pc # "idle"
  BY DEF Homeward, Parking, Pcs, Roll, Unlock
<1>2. Fit(pc, mac, vm) BY DEF IInv, Enable, At
<1>3. /\ mac.lock # 0 /\ vm.role # "primary" /\ (pc = "rEnable" => vm.role = "dry-run")
      /\ mac.active
  BY <1>1, <1>2, HomewardFits
<1>4. /\ mac' \in MacState /\ mac'.lock = mac.lock /\ mac'.active = mac.active
      /\ mac'.enabled /\ (mac'.up => mac'.loaded)
  BY DEF IInv, TypeOK, MacState, Enable
<1>5. Fit(next, mac', vm)
  BY <1>3, <1>4 DEF Fit, LockedPcs, HeldPcs, AwayPcs, ActivePcs, EnabledPcs, Cut, Roll, Unlock
<1>q. QED BY <1>1, <1>3, <1>4, <1>5, LocalKeeps DEF Enable

LEMMA UnlockMacKeeps ==
  ASSUME IInv, NEW pc, NEW next,
         <<pc, next>> \in {<<"rUnlock", "rForget">>, <<"uUnlock", "uForget">>},
         UnlockMac(pc, next)
  PROVE  IInv'
<1>1. pc \in Homeward /\ pc \notin Parking /\ next \in Pcs /\ pc # "idle"
  BY DEF Homeward, Parking, Pcs, Roll, Unlock
<1>2. Fit(pc, mac, vm) BY DEF IInv, UnlockMac, At
<1>3. vm.role # "primary" /\ mac.active /\ mac.enabled BY <1>1, <1>2, HomewardFits
<1>4. /\ mac' \in MacState /\ mac'.lock = 0 /\ mac'.active = mac.active
      /\ mac'.enabled = mac.enabled /\ (mac'.up => mac'.loaded)
  BY DEF IInv, TypeOK, MacState, UnlockMac
<1>5. OpTypedNext /\ op'.pc \in {next, "idle"}
  BY <1>1, Moves DEF IInv, UnlockMac, At
<1>6. Fit(next, mac', vm)
  BY DEF Fit, LockedPcs, HeldPcs, AwayPcs, ActivePcs, EnabledPcs, Cut, Roll, Unlock
<1>7. Fit(op'.pc, mac', vm) BY <1>5, <1>6, IdleFits
<1>8. Roles(mac', vm) BY <1>3, <1>4 DEF IInv, Roles
<1>9. mac'.lock <= locks BY <1>4 DEF IInv, TypeOK
<1>q. QED BY <1>4, <1>5, <1>7, <1>8, <1>9, MacStep DEF UnlockMac

LEMMA ForgetKeeps ==
  ASSUME IInv, NEW pc, NEW next, Follows(pc, next), Forget(pc, next)
  PROVE  IInv'
<1>1. 0 <= locks /\ notes.rollback <= locks BY DEF IInv, TypeOK
<1>2. notes' \in NotesState /\ notes'.rollback \in {0, notes.rollback}
  BY DEF IInv, TypeOK, NotesState, Forget
<1>3. notes'.rollback <= locks BY <1>1, <1>2
<1>q. QED BY <1>2, <1>3, NoteKeeps DEF Forget

LEMMA StartMacKeeps ==
  ASSUME IInv, NEW pc, StartMac(pc)
  PROVE  IInv'
<1>1. OpTypedNext /\ op'.pc = "idle" BY Ending DEF IInv, StartMac
<1>2. /\ mac' \in MacState /\ mac'.lock = mac.lock /\ mac'.active = mac.active
      /\ mac'.enabled /\ mac'.loaded
  BY DEF IInv, TypeOK, MacState, StartMac
<1>3. Roles(mac', vm) BY <1>2 DEF IInv, Roles
<1>4. Fit(op'.pc, mac', vm) BY <1>1, IdleFits
<1>5. mac'.lock <= locks BY <1>2 DEF IInv, TypeOK
<1>q. QED BY <1>1, <1>2, <1>3, <1>4, <1>5, MacStep DEF StartMac

LEMMA RollbackKeeps ==
  ASSUME IInv, RollbackStep
  PROVE  IInv'
<1>1. CASE RecordRollback BY <1>1, RecordRollbackKeeps
<1>2. CASE HoldVm("rHold", "rPause")
  <2>1. vm'.role = "dry-run" BY <1>2 DEF IInv, TypeOK, VmState, HoldVm
  <2>2. mac.lock # 0 BY <1>2 DEF IInv, HoldVm, At, Fit, LockedPcs, Roll
  <2>3. "rPause" \in Pcs /\ Fit("rPause", mac, vm')
    BY <2>1, <2>2 DEF Fit, LockedPcs, HeldPcs, AwayPcs, ActivePcs, EnabledPcs, Pcs, Dry, Cut, Roll, Unlock
  <2>q. QED BY <1>2, <2>3, HoldVmKeeps
<1>3. CASE PauseVm BY <1>3, PauseVmKeeps
<1>4. CASE FindGroup BY <1>4, FindGroupKeeps
<1>5. CASE DrainVm BY <1>5, RollFollows, LookKeeps DEF DrainVm, OnVm
<1>6. CASE StopVm("rStopVm", "rConfirmVm") BY <1>6, RollFollows, StopVmKeeps
<1>7. CASE ConfirmVm BY <1>7, RollFollows, LookKeeps DEF ConfirmVm, OnVm
<1>8. CASE ConfirmVmTimesOut BY <1>8, EndKeeps DEF IInv, TypeOK, ConfirmVmTimesOut
<1>9. CASE PullSnapshot BY <1>9, PullSnapshotKeeps
<1>10. CASE PullUserData BY <1>10, PullUserDataKeeps
<1>11. CASE RConfirm BY <1>11, RollFollows, LookKeeps DEF RConfirm, OnMac
<1>12. CASE InstallOnMac BY <1>12, InstallOnMacKeeps
<1>13. CASE ResumeMac("rResume", "rEnable") BY <1>13, ResumeMacKeeps
<1>14. CASE Enable("rEnable", "rUnlock") BY <1>14, EnableKeeps
<1>15. CASE UnlockMac("rUnlock", "rForget") BY <1>15, UnlockMacKeeps
<1>16. CASE Forget("rForget", "rStart") BY <1>16, RollFollows, ForgetKeeps
<1>17. CASE StartMac("rStart") BY <1>17, StartMacKeeps
<1>18. CASE NoMacDb BY <1>18, EndKeeps DEF IInv, TypeOK, NoMacDb, OnMac, OnVm
<1>19. CASE MoveAside BY <1>19, MoveAsideKeeps
<1>q. QED
  BY <1>1, <1>2, <1>3, <1>4, <1>5, <1>6, <1>7, <1>8, <1>9, <1>10, <1>11, <1>12,
     <1>13, <1>14, <1>15, <1>16, <1>17, <1>18, <1>19 DEF RollbackStep

LEMMA CheckRanKeeps ==
  ASSUME IInv, CheckRan
  PROVE  IInv'
<1>1. CASE To("uResume") /\ UNCHANGED <<vm, db>>
  BY <1>1, RollFollows, LookKeeps DEF CheckRan
<1>2. CASE Ends /\ UNCHANGED <<vm, db>>
  BY <1>2, EndKeeps DEF CheckRan, OnVm, IInv, TypeOK
<1>3. CASE To("uResume") /\ db' = [db EXCEPT ![Mac].token = past.newest]
           /\ vm' = [vm EXCEPT !.revoked = TRUE]
  <2>1. OpTypedNext /\ Fit(op'.pc, mac, vm)
    BY <1>3, RollFollows, Next_Fits DEF CheckRan
  <2>2. vm' \in VmState /\ vm'.role = vm.role /\ vm'.copy = vm.copy
    BY <1>3 DEF IInv, TypeOK, VmState
  <2>3. past.newest \in Nat /\ db[Mac] \in DbState BY DEF IInv, TypeOK
  <2>4. [db[Mac] EXCEPT !.token = past.newest] \in DbState BY <2>3 DEF DbState
  <2>5. db' \in [{Mac, Vm} -> DbState] BY <1>3, <2>4 DEF IInv, TypeOK
  <2>6. Fit(op'.pc, mac, vm') BY <2>1, <2>2, FitKept
  <2>7. Roles(mac, vm') BY <2>2 DEF IInv, Roles
  <2>q. QED BY <2>1, <2>2, <2>5, <2>6, <2>7 DEF IInv, TypeOK, OpTypedNext, CheckRan
<1>q. QED BY <1>1, <1>2, <1>3 DEF CheckRan

LEMMA UnlockKeeps ==
  ASSUME IInv, UnlockStep
  PROVE  IInv'
<1>1. CASE CheckRan BY <1>1, CheckRanKeeps
<1>2. CASE ResumeMac("uResume", "uEnable") BY <1>2, ResumeMacKeeps
<1>3. CASE Enable("uEnable", "uUnlock") BY <1>3, EnableKeeps
<1>4. CASE UnlockMac("uUnlock", "uForget") BY <1>4, UnlockMacKeeps
<1>5. CASE Forget("uForget", "uStart") BY <1>5, RollFollows, ForgetKeeps
<1>6. CASE StartMac("uStart") BY <1>6, StartMacKeeps
<1>q. QED BY <1>1, <1>2, <1>3, <1>4, <1>5, <1>6 DEF UnlockStep

-----------------------------------------------------------------------------
(* The invariant                                                           *)

LEMMA InitHolds == Init => IInv
<1> SUFFICES ASSUME Init PROVE IInv OBVIOUS
<1>1. TypeOK
  BY CloudAssumption, IdleOp
     DEF Init, TypeOK, MacState, VmState, DbState, NotesState, Empty
<1>2. Roles(mac, vm) BY DEF Init, Roles
<1>3. Fit(op.pc, mac, vm) BY IdleOp, IdleFits DEF Init
<1>q. QED BY <1>1, <1>2, <1>3 DEF IInv

LEMMA MachinesKeep ==
  ASSUME IInv, Machines
  PROVE  IInv'
<1>1. CASE MacBoots \/ VmBoots \/ SessionOpens
  BY <1>1, MacBootsKeeps, VmBootsKeeps, SessionOpensKeeps
<1>2. CASE \E k \in {"job", "child"} : MacStartsWork(k) \/ VmStartsWork(k) \/ VmWorkEnds(k)
  BY <1>2, MacStartsWorkKeeps, VmStartsWorkKeeps, VmWorkEndsKeeps
<1>3. CASE \E k \in {"job", "child", "session"} : MacWorkEnds(k)
  BY <1>3, MacWorkEndsKeeps
<1>4. CASE \E h \in {Mac, Vm}, k \in {"job", "child", "session"} : Write(h, k)
  BY <1>4, WriteKeeps
<1>q. QED BY <1>1, <1>2, <1>3, <1>4 DEF Machines

LEMMA StepKeeps == IInv /\ [Next]_vars => IInv'
<1> SUFFICES ASSUME IInv, [Next]_vars PROVE IInv' OBVIOUS
<1>1. CASE Machines BY <1>1, MachinesKeep
<1>2. CASE MacReboots \/ VmReboots \/ MacDaemonDies \/ VmDaemonDies \/ Interrupted
  BY <1>2, MacRebootsKeeps, VmRebootsKeeps, MacDaemonDiesKeeps, VmDaemonDiesKeeps,
     InterruptedKeeps
<1>3. CASE StepFails BY <1>3, StepFailsKeeps
<1>4. CASE BeginDryRun \/ BeginCutover \/ BeginRollback BY <1>4, BeginAnyKeeps
<1>5. CASE Command
  BY <1>5, DryRunKeeps, CutoverKeeps, RollbackKeeps, UnlockKeeps DEF Command
<1>6. CASE StaleLockDeleted \/ StartedByHand \/ VmStartedByHand \/ DbPutBack
  BY <1>6, StaleLockDeletedKeeps, StartedByHandKeeps, VmStartedByHandKeeps, DbPutBackKeeps
<1>7. CASE UNCHANGED vars BY <1>7 DEF IInv, TypeOK, vars
<1>q. QED BY <1>1, <1>2, <1>3, <1>4, <1>5, <1>6, <1>7 DEF Next

(* Every reachable state is well-typed and what the command relies on at   *)
(* its present step is true of the machines, whatever failed before.       *)
THEOREM Inductive == Spec => []IInv
BY InitHolds, StepKeeps, PTL DEF Spec

(* Type correctness of the two machines, the databases and the command.    *)
THEOREM TypeCorrect == Spec => []TypeOK
BY Inductive, PTL DEF IInv

(* The two schedulers are never both free to work (migrate.ts, role.ts).   *)
THEOREM OneWorkerAtATime == Spec => []OneWorker
<1>1. IInv => OneWorker
  BY DEF IInv, TypeOK, VmState, Roles, OneWorker, MacMayWork, VmMayWork
<1>q. QED BY <1>1, Inductive, PTL

(* Resume and enable come before unlock in both rollbacks, so an unlocked  *)
(* Mac is ready to work, also after a rollback that failed half way.       *)
THEOREM UnlockedReady == Spec => []UnlockedIsReady
<1>1. IInv => UnlockedIsReady BY DEF IInv, Roles, UnlockedIsReady
<1>q. QED BY <1>1, Inductive, PTL

-----------------------------------------------------------------------------
(* Handing over: the abstract specification Writer                         *)

SameRoles == mac'.lock = mac.lock /\ vm'.role = vm.role

LEMMA OthersSameRoles ==
  ASSUME IInv,
         \/ Machines \/ MacReboots \/ VmReboots \/ MacDaemonDies \/ VmDaemonDies
         \/ Interrupted \/ StepFails \/ BeginDryRun \/ BeginCutover \/ BeginRollback
         \/ StaleLockDeleted \/ StartedByHand \/ VmStartedByHand \/ DbPutBack
         \/ UNCHANGED vars
  PROVE  SameRoles
<1> USE DEF SameRoles
<1>1. mac \in MacState /\ vm \in VmState BY DEF IInv, TypeOK
<1>2. CASE \/ MacBoots \/ SessionOpens \/ MacReboots \/ MacDaemonDies
           \/ StartedByHand \/ DbPutBack
  BY <1>1, <1>2 DEF MacState, MacBoots, SessionOpens, MacReboots, MacDaemonDies,
     StartedByHand, DbPutBack
<1>3. CASE VmBoots \/ VmReboots \/ VmDaemonDies \/ VmStartedByHand
  BY <1>1, <1>3 DEF VmState, VmBoots, VmReboots, VmDaemonDies, VmStartedByHand, Booted,
     Halted
<1>4. CASE \E k \in {"job", "child"} : MacStartsWork(k) \/ VmStartsWork(k) \/ VmWorkEnds(k)
  BY <1>1, <1>4 DEF MacState, VmState, MacStartsWork, VmStartsWork, VmWorkEnds
<1>5. CASE \E k \in {"job", "child", "session"} : MacWorkEnds(k)
  BY <1>1, <1>5 DEF MacState, MacWorkEnds
<1>6. CASE \E h \in {Mac, Vm}, k \in {"job", "child", "session"} : Write(h, k)
  BY <1>6 DEF Write
<1>7. CASE \/ Interrupted \/ StepFails \/ StaleLockDeleted \/ UNCHANGED vars
  BY <1>7 DEF Interrupted, StepFails, StaleLockDeleted, vars
<1>8. CASE BeginDryRun \/ BeginCutover \/ BeginRollback
  BY <1>8 DEF BeginDryRun, BeginCutover, BeginRollback, Begin
<1>q. QED BY <1>2, <1>3, <1>4, <1>5, <1>6, <1>7, <1>8 DEF Machines

LEMMA VmActsSameRoles ==
  ASSUME IInv, NEW pc, NEW next, NEW token,
         \/ Snapshot(pc, next) \/ StopVm(pc, next) \/ Push(pc, next)
         \/ Install(pc, next, token) \/ StartVm(pc, next) \/ InstallRefused
         \/ NoteRan \/ ResumeVm \/ Verify \/ VerifyTimesOut \/ ParkStop
         \/ At("dVerify") /\ Ends /\ UNCHANGED vm /\ OnVm
  PROVE  SameRoles
BY DEF IInv, TypeOK, VmState, SameRoles, OnVm, Snapshot, StopVm, Stopped, Halted, Push,
       Install, StartVm, Booted, InstallRefused, NoteRan, ResumeVm, Verify,
       VerifyTimesOut, ParkStop

LEMMA MacActsSameRoles ==
  ASSUME IInv, NEW pc, NEW next,
         \/ PauseMac \/ Drain \/ StopMac \/ Disable \/ Confirm \/ PullUserData \/ RConfirm
         \/ NoMacDb \/ MoveAside \/ InstallOnMac
         \/ ResumeMac(pc, next) \/ Enable(pc, next) \/ StartMac(pc)
  PROVE  SameRoles
BY DEF IInv, TypeOK, MacState, SameRoles, OnMac, PauseMac, Drain, StopMac, Disable,
       Confirm, PullUserData, RConfirm, NoMacDb, MoveAside, InstallOnMac, ResumeMac,
       Enable, StartMac

LEMMA HomeActsSameRoles ==
  ASSUME IInv, NEW pc, NEW next,
         \/ RecordRollback \/ PauseVm \/ FindGroup \/ DrainVm \/ ConfirmVm
         \/ ConfirmVmTimesOut \/ PullSnapshot \/ Forget(pc, next)
         \/ CheckRan
  PROVE  SameRoles
BY DEF IInv, TypeOK, VmState, SameRoles, OnVm, RecordRollback, PauseVm, FindGroup, Ends,
       DrainVm, ConfirmVm, ConfirmVmTimesOut, PullSnapshot, Forget, CheckRan

(* The five actions that change a role.                                    *)
LEMMA RoleChanges ==
  ASSUME IInv, [Next]_vars, ~SameRoles
  PROVE  \/ LockMac \/ MarkPrimary \/ Park
         \/ \E pc, next : HoldVm(pc, next)
         \/ UnlockMac("rUnlock", "rForget") \/ UnlockMac("uUnlock", "uForget")
<1>1. Command BY OthersSameRoles DEF Next
<1>2. CASE DryRunStep BY <1>2, VmActsSameRoles DEF DryRunStep
<1>3. CASE CutoverStep BY <1>3, VmActsSameRoles, MacActsSameRoles DEF CutoverStep
<1>4. CASE RollbackStep
  BY <1>4, VmActsSameRoles, MacActsSameRoles, HomeActsSameRoles DEF RollbackStep
<1>5. CASE UnlockStep BY <1>5, MacActsSameRoles, HomeActsSameRoles DEF UnlockStep
<1>q. QED BY <1>1, <1>2, <1>3, <1>4, <1>5 DEF Command

LEMMA HandoverStep ==
  ASSUME IInv, IInv', [Next]_vars
  PROVE  [Handover!Next]_writerNow
<1>1. CASE SameRoles BY <1>1 DEF SameRoles, writerNow
<1> USE DEF Handover!Next, Handover!Yield, Handover!Take, writerNow
<1>2. Roles(mac, vm) /\ Roles(mac', vm') BY DEF IInv
<1>3. CASE LockMac
  <2>1. mac'.lock # 0 \/ UNCHANGED mac
    BY <1>3 DEF LockMac, IInv, TypeOK, MacState
  <2>2. UNCHANGED vm BY <1>3 DEF LockMac
  <2>q. QED BY <1>2, <2>1, <2>2, CloudAssumption DEF Roles
<1>4. CASE MarkPrimary
  <2>1. mac.lock # 0 /\ UNCHANGED mac BY <1>4 DEF MarkPrimary, StillLocked, OnVm
  <2>2. vm'.role = "primary" BY <1>4 DEF MarkPrimary, IInv, TypeOK, VmState
  <2>q. QED BY <2>1, <2>2, CloudAssumption
<1>5. CASE Park \/ \E pc, next : HoldVm(pc, next)
  <2>1. UNCHANGED mac BY <1>5 DEF Park, HoldVm, OnVm
  <2>2. vm'.role = "dry-run" BY <1>5 DEF Park, HoldVm, IInv, TypeOK, VmState
  <2>q. QED BY <1>2, <2>1, <2>2, CloudAssumption DEF Roles
<1>6. ASSUME NEW pc \in {"rUnlock", "uUnlock"}, NEW next, UnlockMac(pc, next)
      PROVE  [Handover!Next]_writerNow
  <2>1. mac.lock # 0 /\ vm.role # "primary"
    BY <1>6, HomewardFits DEF UnlockMac, At, IInv, Homeward
  <2>2. mac'.lock = 0 /\ UNCHANGED vm
    BY <1>6 DEF UnlockMac, OnMac, IInv, TypeOK, MacState
  <2>q. QED BY <2>1, <2>2, CloudAssumption
<1>q. QED BY <1>1, <1>3, <1>4, <1>5, <1>6, RoleChanges

(* CloudMove implements Writer: the right to work leaves a host only for   *)
(* nobody and is taken only from nobody, through failures, interrupts and  *)
(* re-runs of the command (the writer line of `robin cloud status`).       *)
THEOREM WriterHandover == Spec => WriterMoves
<1>1. Init => Handover!Init BY DEF Init, Handover!Init, writerNow
<1>q. QED BY <1>1, HandoverStep, Inductive, PTL DEF Spec, WriterMoves, Handover!Spec

-----------------------------------------------------------------------------
(* Where the data is                                                       *)

(* The writes that count, and who has all of them; who has the newest      *)
(* token, and when the VM cannot rotate it.                                *)
Owed == (1..writes) \ past.waived
MacHasAll == Owed \subseteq db[Mac].rows
VmHasAll == Owed \subseteq db[Vm].rows
MacFresh == db[Mac].token = past.newest
VmFresh == db[Vm].token = past.newest
VmSpent == "job" \notin vm.busy \/ vm.revoked

(* The data is with the VM while it is primary or being brought home.      *)
Away == vm.role = "primary" \/ BringingHome

Tokens ==
    /\ past.newest <= writes
    /\ db[Mac].token <= past.newest /\ db[Vm].token <= past.newest
    /\ op.token <= past.newest

DataPlace ==
    /\ Away => mac.busy = {} /\ VmHasAll /\ VmFresh
    /\ ~Away => MacHasAll
    /\ MacFresh \/ VmFresh

(* The VM has not touched the token while it has not run.                  *)
TokenPlace ==
    /\ vm.role = "primary" => notes.vmRan \/ ~vm.active
    /\ mac.lock = 0 \/ (~notes.vmRan /\ ~BringingHome) => MacFresh /\ VmSpent

(* What each step of a command has secured about the machines ...          *)
BeforeMark == Dry \cup {"lock", "pause", "drain", "stopMac", "disable", "confirm",
                        "snapshot", "stopVm", "hold", "push", "install", "mark"}
UnlockedPcs == Dry \cup {"rForget", "uForget"}
OutPcs == Dry \cup Cut \cup AwayPcs
HomePcs == Roll \ {"record", "rForget", "rStart"}
PausedPcs == {"drain", "stopMac", "disable", "confirm", "snapshot", "stopVm", "hold", "push"}
VmPausedPcs == {"install", "mark", "start", "noteRan"}
RanPcs == {"resume", "verify"}
IdleMacPcs == {"snapshot", "stopVm", "hold", "push", "install", "mark"}
IdleVmPcs == {"rStopVm", "rConfirmVm", "rSnapshot", "rPull", "rConfirm", "rInstall",
              "rMoved", "rResume", "rEnable", "rUnlock"}

Secured ==
    /\ op.pc \in BeforeMark => vm.role # "primary"
    /\ op.pc \in UnlockedPcs => mac.lock = 0
    /\ op.pc \in OutPcs => ~BringingHome
    /\ op.pc \in HomePcs => BringingHome
    /\ op.pc = "record" => op.lockAt = mac.lock /\ Away
    /\ op.pc \in PausedPcs => ~mac.active
    /\ op.pc \in VmPausedPcs => ~vm.active
    /\ op.pc \in RanPcs => notes.vmRan
    /\ op.pc \in IdleMacPcs => mac.busy = {}
    /\ op.pc \in IdleVmPcs => vm.busy = {}

(* ... and about the data.                                                 *)
CopiedPcs == {"stopVm", "hold", "push", "install"}
PulledPcs == {"rPull", "rConfirm", "rInstall", "rMoved"}
ReturnedPcs == {"rResume", "rEnable", "rUnlock"}
CheckedPcs == {"uResume", "uEnable", "uUnlock"}

Carrying ==
    /\ op.pc \in CopiedPcs => op.snap = db[Mac].rows /\ op.token = db[Mac].token
    /\ op.pc = "mark" => VmHasAll /\ VmFresh
    /\ op.pc \in PulledPcs => Owed \subseteq op.snap /\ op.token = past.newest
    /\ op.pc \in ReturnedPcs => MacHasAll /\ MacFresh
    /\ op.pc \in CheckedPcs => MacFresh /\ VmSpent

DataInv == Tokens /\ DataPlace /\ TokenPlace /\ Secured /\ Carrying

(* A step that leaves the data, the roles and the notes of a move alone:   *)
(* no work begins on a locked Mac, nor on a VM that is not primary.        *)
Calm ==
    /\ UNCHANGED <<db, writes, past>>
    /\ mac'.lock = mac.lock /\ (mac.lock = 0 \/ mac'.busy \subseteq mac.busy)
    /\ vm'.role = vm.role /\ vm'.revoked = vm.revoked
    /\ (vm.role = "primary" /\ vm.active) \/ vm'.busy \subseteq vm.busy
    /\ vm'.active => vm.active \/ vm.role # "primary" \/ notes.vmRan
    /\ notes'.rollback = notes.rollback /\ notes'.vmRan = notes.vmRan

LEMMA CalmSame ==
  ASSUME Calm
  PROVE  /\ Owed' = Owed /\ MacHasAll' = MacHasAll /\ VmHasAll' = VmHasAll
         /\ MacFresh' = MacFresh /\ VmFresh' = VmFresh
         /\ BringingHome' = BringingHome /\ Away' = Away
<1>1. Owed' = Owed BY DEF Calm, Owed
<1>2. MacHasAll' = MacHasAll /\ VmHasAll' = VmHasAll
  BY <1>1 DEF Calm, MacHasAll, VmHasAll
<1>3. MacFresh' = MacFresh /\ VmFresh' = VmFresh BY DEF Calm, MacFresh, VmFresh
<1>4. BringingHome' = BringingHome BY DEF Calm, BringingHome
<1>5. Away' = Away BY <1>4 DEF Calm, Away
<1>q. QED BY <1>1, <1>2, <1>3, <1>4, <1>5

(* Whoever works while nothing is locked away works on the Mac.            *)
LEMMA UnlockedIsHome ==
  ASSUME IInv, mac.lock = 0
  PROVE  ~Away /\ ~BringingHome
BY DEF IInv, Roles, Away, BringingHome

LEMMA CalmData ==
  ASSUME IInv, DataInv, Calm, op'.token <= past.newest
  PROVE  Tokens' /\ DataPlace' /\ TokenPlace'
<1>1. Tokens' BY DEF DataInv, Tokens, Calm
<1>2. DataPlace'
  <2>1. Away => mac'.busy = {} BY UnlockedIsHome DEF DataInv, DataPlace, Calm
  <2>q. QED BY <2>1, CalmSame DEF DataInv, DataPlace
<1>3. TokenPlace'
  <2>1. vm.role = "primary" => mac.lock # 0 BY UnlockedIsHome DEF Away
  <2>2. VmSpent' \/ ~VmSpent \/ (vm.role = "primary" /\ vm.active)
    BY DEF Calm, VmSpent
  <2>3. mac'.lock = 0 \/ (~notes'.vmRan /\ ~BringingHome') => MacFresh' /\ VmSpent'
    BY <2>1, <2>2, CalmSame DEF DataInv, TokenPlace, Calm
  <2>4. vm'.role = "primary" => notes'.vmRan \/ ~vm'.active
    BY DEF DataInv, TokenPlace, Calm
  <2>q. QED BY <2>3, <2>4 DEF TokenPlace
<1>q. QED BY <1>1, <1>2, <1>3

-----------------------------------------------------------------------------
(* Where the command stands                                                *)

USE DEF BeforeMark, UnlockedPcs, OutPcs, HomePcs, PausedPcs, VmPausedPcs, RanPcs, IdleMacPcs,
        IdleVmPcs, CopiedPcs, PulledPcs, ReturnedPcs, CheckedPcs

LEMMA IdleCarries ==
  ASSUME op'.pc = "idle"
  PROVE  Secured' /\ Carrying'
BY DEF Secured, Carrying, Dry, Cut, Roll, Unlock, AwayPcs

LEMMA ParkCarries ==
  ASSUME op'.pc = "park", ~BringingHome'
  PROVE  Secured' /\ Carrying'
BY DEF Secured, Carrying, Dry, Cut, Roll, Unlock, AwayPcs

(* The steps of the machines leave the command as it is, or end it.        *)
LEMMA BesideKeeps ==
  ASSUME IInv, DataInv, Calm, op' \in {op, NoOp},
         mac'.active = mac.active, vm'.active = vm.active
  PROVE  DataInv'
<1>1. CASE op' = NoOp
  <2>1. op'.pc = "idle" /\ op'.token = 0 BY <1>1 DEF NoOp
  <2>2. 0 <= past.newest
    BY DEF IInv, TypeOK, DataInv, Tokens, DbState
  <2>q. QED BY <2>1, <2>2, IdleCarries, CalmData DEF DataInv
<1>2. CASE op' = op
  <2>1. op.token <= past.newest BY DEF DataInv, Tokens
  <2>2. Fit(op.pc, mac, vm) BY DEF IInv
  <2>3. op.pc \in IdleMacPcs => mac'.busy = {}
    BY <2>2 DEF Fit, LockedPcs, Cut, Calm, DataInv, Secured
  <2>4. op.pc \in IdleVmPcs => vm'.busy = {}
    BY <2>2 DEF Fit, HeldPcs, Roll, Calm, DataInv, Secured
  <2>5. op.pc \in CheckedPcs => VmSpent'
    BY <2>2 DEF Fit, AwayPcs, Unlock, Calm, DataInv, Carrying, VmSpent
  <2>6. Secured' BY <1>2, <2>3, <2>4, CalmSame DEF DataInv, Secured, Calm
  <2>7. Carrying' BY <1>2, <2>5, CalmSame DEF DataInv, Carrying, Calm
  <2>q. QED BY <1>2, <2>1, <2>6, <2>7, CalmData DEF DataInv
<1>q. QED BY <1>1, <1>2

(* Work starts only on the unlocked Mac or on the primary, active VM.      *)
LEMMA VmWorksAsPrimary ==
  ASSUME IInv, VmMayWork
  PROVE  vm.role = "primary" /\ vm.active
BY DEF IInv, TypeOK, VmState, Roles, VmMayWork

LEMMA MachinesCalm ==
  ASSUME IInv, DataInv,
         \/ MacBoots \/ VmBoots \/ SessionOpens \/ MacReboots \/ VmReboots
         \/ MacDaemonDies \/ VmDaemonDies \/ Interrupted
         \/ StaleLockDeleted \/ StartedByHand \/ VmStartedByHand \/ DbPutBack
         \/ \E k \in {"job", "child"} : MacStartsWork(k) \/ VmStartsWork(k) \/ VmWorkEnds(k)
         \/ \E k \in {"job", "child", "session"} : MacWorkEnds(k)
  PROVE  DataInv'
<1>1. mac \in MacState /\ vm \in VmState BY DEF IInv, TypeOK
<1> SUFFICES Calm /\ op' \in {op, NoOp} /\ mac'.active = mac.active /\ vm'.active = vm.active
  BY BesideKeeps
<1>2. CASE \/ MacBoots \/ SessionOpens \/ MacReboots \/ MacDaemonDies
           \/ StartedByHand \/ DbPutBack
  <2>1. CASE MacBoots BY <1>1, <2>1 DEF Calm, MacState, MacBoots
  <2>2. CASE SessionOpens BY <1>1, <2>2 DEF Calm, MacState, SessionOpens
  <2>3. CASE MacReboots BY <1>1, <2>3 DEF Calm, MacState, MacReboots
  <2>4. CASE MacDaemonDies BY <1>1, <2>4 DEF Calm, MacState, MacDaemonDies
  <2>5. CASE StartedByHand BY <1>1, <2>5 DEF Calm, MacState, StartedByHand
  <2>6. CASE DbPutBack BY <1>1, <2>6 DEF Calm, MacState, DbPutBack
  <2>q. QED BY <1>2, <2>1, <2>2, <2>3, <2>4, <2>5, <2>6
<1>3. CASE VmBoots \/ VmReboots \/ VmDaemonDies \/ VmStartedByHand
  <2>1. CASE VmBoots BY <1>1, <2>1 DEF Calm, VmState, VmBoots, Booted
  <2>2. CASE VmReboots BY <1>1, <2>2 DEF Calm, VmState, VmReboots
  <2>3. CASE VmDaemonDies BY <1>1, <2>3 DEF Calm, VmState, VmDaemonDies, Halted
  <2>4. CASE VmStartedByHand BY <1>1, <2>4 DEF Calm, VmState, VmStartedByHand, Booted
  <2>q. QED BY <1>3, <2>1, <2>2, <2>3, <2>4
<1>4. CASE Interrupted \/ StaleLockDeleted
  BY <1>4 DEF Calm, Interrupted, StaleLockDeleted
<1>5. ASSUME NEW k \in {"job", "child"}, MacStartsWork(k) \/ VmStartsWork(k) \/ VmWorkEnds(k)
      PROVE  Calm /\ op' \in {op, NoOp} /\ mac'.active = mac.active /\ vm'.active = vm.active
  <2>1. CASE MacStartsWork(k)
    BY <1>1, <2>1 DEF Calm, MacState, MacStartsWork, MacMayWork
  <2>2. CASE VmStartsWork(k)
    BY <1>1, <2>2, VmWorksAsPrimary DEF Calm, VmState, VmStartsWork
  <2>3. CASE VmWorkEnds(k) BY <1>1, <2>3 DEF Calm, VmState, VmWorkEnds
  <2>q. QED BY <1>5, <2>1, <2>2, <2>3
<1>6. ASSUME NEW k \in {"job", "child", "session"}, MacWorkEnds(k)
      PROVE  Calm /\ op' \in {op, NoOp} /\ mac'.active = mac.active /\ vm'.active = vm.active
  BY <1>1, <1>6 DEF Calm, MacState, MacWorkEnds
<1>q. QED BY <1>2, <1>3, <1>4, <1>5, <1>6

-----------------------------------------------------------------------------
(* A write                                                                 *)

LEMMA WriteData ==
  ASSUME IInv, DataInv, NEW h \in {Mac, Vm}, NEW kind, Write(h, kind)
  PROVE  DataInv'
<1> DEFINE w == writes + 1
<1>1. /\ db[Mac] \in DbState /\ db[Vm] \in DbState /\ writes \in Nat
      /\ past.newest \in Nat /\ past.waived \subseteq Nat
  BY DEF IInv, TypeOK
<1>2. UNCHANGED <<mac, vm, notes, op, locks>> /\ writes' = w BY DEF Write
<1>3. BringingHome' = BringingHome /\ Away' = Away /\ VmSpent' = VmSpent
  BY <1>2 DEF BringingHome, Away, VmSpent
<1>4. past.newest <= writes BY DEF DataInv, Tokens
<1>5. DOMAIN db = {Mac, Vm} /\ Mac # Vm BY CloudAssumption DEF IInv, TypeOK
<1>6. CASE h = Mac
  <2>1. kind \in mac.busy BY <1>6 DEF Write
  <2>2. ~Away BY <2>1 DEF DataInv, DataPlace
  <2>3. db' = [db EXCEPT ![Mac].rows = @ \cup {w},
                         ![Mac].token = IF kind = "job" THEN w ELSE @]
    BY <1>6 DEF Write, Rotates
  <2>4. db'[Vm] = db[Vm] BY <1>5, <2>3
  <2>5. db'[Mac].rows = db[Mac].rows \cup {w}
    BY <1>1, <1>5, <2>3 DEF DbState
  <2>6. db'[Mac].token = IF kind = "job" THEN w ELSE db[Mac].token
    BY <1>1, <1>5, <2>3 DEF DbState
  <2>7. /\ past'.waived = past.waived
        /\ past'.newest = IF kind = "job" THEN w ELSE past.newest
    BY <1>5, <1>6 DEF Write, Rotates
  <2>8. Owed' \subseteq Owed \cup {w} BY <1>1, <1>2, <2>7 DEF Owed
  <2>9. MacHasAll' BY <2>2, <2>5, <2>8 DEF DataInv, DataPlace, MacHasAll
  <2>10. MacFresh => MacFresh' BY <2>6, <2>7 DEF MacFresh
  <2>11. MacFresh' \/ VmFresh'
    BY <2>4, <2>6, <2>7 DEF DataInv, DataPlace, MacFresh, VmFresh
  <2>12. Tokens'
    BY <1>1, <1>2, <2>4, <2>6, <2>7 DEF DataInv, Tokens, DbState, IInv, TypeOK, OpState
  <2>13. DataPlace' BY <1>3, <2>2, <2>9, <2>11 DEF DataPlace
  <2>14. TokenPlace' BY <1>2, <1>3, <2>10 DEF DataInv, TokenPlace
  <2>15. Secured' BY <1>2, <1>3 DEF DataInv, Secured
  <2>16. Carrying'
    <3>1. op.pc \notin CopiedPcs /\ op.pc # "mark"
      BY <2>1 DEF DataInv, Secured
    <3>2. op.pc \notin PulledPcs \cup ReturnedPcs BY <2>2 DEF DataInv, Secured, Roll, Away
    <3>3. op.pc \in CheckedPcs => MacFresh' /\ VmSpent'
      BY <1>3, <2>10 DEF DataInv, Carrying
    <3>q. QED BY <1>2, <3>1, <3>2, <3>3 DEF Carrying
  <2>q. QED BY <2>12, <2>13, <2>14, <2>15, <2>16 DEF DataInv
<1>7. CASE h = Vm
  <2> DEFINE rot == kind = "job" /\ ~vm.revoked
  <2>1. kind \in vm.busy BY <1>5, <1>7 DEF Write
  <2>2. rot => ~VmSpent BY <2>1 DEF VmSpent
  <2>3. db' = [db EXCEPT ![Vm].rows = @ \cup {w},
                         ![Vm].token = IF rot THEN w ELSE @]
    BY <1>5, <1>7 DEF Write, Rotates
  <2>4. db'[Mac] = db[Mac] BY <1>5, <2>3
  <2>5. db'[Vm].rows = db[Vm].rows \cup {w}
    BY <1>1, <1>5, <2>3 DEF DbState
  <2>6. db'[Vm].token = IF rot THEN w ELSE db[Vm].token
    BY <1>1, <1>5, <2>3 DEF DbState
  <2>7. /\ past'.waived = IF ~Away THEN past.waived \cup {w} ELSE past.waived
        /\ past'.newest = IF rot THEN w ELSE past.newest
    BY <1>5, <1>7 DEF Write, Rotates, Away
  <2>8. Owed' \subseteq Owed \cup {w} /\ (~Away => Owed' \subseteq Owed)
    BY <1>1, <1>2, <2>7 DEF Owed
  <2>9. Away => VmHasAll' BY <2>5, <2>8 DEF DataInv, DataPlace, VmHasAll
  <2>10. ~Away => MacHasAll' BY <2>4, <2>8 DEF DataInv, DataPlace, MacHasAll
  <2>11. (VmFresh => VmFresh') /\ (VmSpent => (MacFresh => MacFresh'))
    BY <2>2, <2>4, <2>6, <2>7 DEF VmFresh, MacFresh
  <2>12. MacFresh' \/ VmFresh'
    BY <2>4, <2>6, <2>7 DEF DataInv, DataPlace, MacFresh, VmFresh
  <2>13. Tokens'
    BY <1>1, <1>2, <2>4, <2>6, <2>7 DEF DataInv, Tokens, DbState, IInv, TypeOK, OpState
  <2>14. DataPlace'
    <3>1. Away => mac'.busy = {} /\ VmFresh' BY <1>2, <2>11 DEF DataInv, DataPlace
    <3>q. QED BY <1>3, <2>9, <2>10, <2>12, <3>1 DEF DataPlace
  <2>15. TokenPlace' BY <1>2, <1>3, <2>11 DEF DataInv, TokenPlace
  <2>16. Secured' BY <1>2, <1>3 DEF DataInv, Secured
  <2>17. Carrying'
    <3>1. op.pc \in CopiedPcs => op.snap = db'[Mac].rows /\ op.token = db'[Mac].token
      BY <2>4 DEF DataInv, Carrying
    <3>2. op.pc = "mark" => VmHasAll' /\ VmFresh'
      BY <2>5, <2>8, <2>11 DEF DataInv, Carrying, VmHasAll
    <3>3. op.pc \notin PulledPcs \cup ReturnedPcs BY <2>1 DEF DataInv, Secured
    <3>4. op.pc \in CheckedPcs => MacFresh' /\ VmSpent'
      BY <1>3, <2>11 DEF DataInv, Carrying
    <3>q. QED BY <1>2, <3>1, <3>2, <3>3, <3>4 DEF Carrying
  <2>q. QED BY <2>13, <2>14, <2>15, <2>16, <2>17 DEF DataInv
<1>q. QED BY <1>6, <1>7

-----------------------------------------------------------------------------
(* The command begins, moves on, fails and ends                            *)

LEMMA NoOpFacts == NoOp.pc = "idle" /\ NoOp.token = 0 /\ NoOp.snap = {}
BY DEF NoOp

LEMMA TokenBound ==
  ASSUME IInv, DataInv
  PROVE  0 <= past.newest /\ op.token <= past.newest
BY DEF IInv, TypeOK, DataInv, Tokens

(* Where the command is once a step has failed or ended it.                *)
LEMMA Leaves ==
  ASSUME IInv, DataInv, Failed \/ Ends, BringingHome' = BringingHome
  PROVE  Secured' /\ Carrying' /\ op'.token <= past.newest
<1>1. CASE op' = NoOp BY <1>1, NoOpFacts, TokenBound, IdleCarries
<1>2. CASE op' = [op EXCEPT !.pc = "park"] /\ op.pc \in Parking
  <2>1. op \in OpState BY DEF IInv, TypeOK
  <2>2. op'.pc = "park" /\ op'.token = op.token BY <1>2, <2>1 DEF OpState
  <2>3. ~BringingHome' BY <1>2 DEF DataInv, Secured, Parking, Cut
  <2>q. QED BY <2>2, <2>3, TokenBound, ParkCarries
<1>q. QED BY <1>1, <1>2 DEF Failed, Ends

LEMMA CalmLeaves ==
  ASSUME IInv, DataInv, Calm, Failed \/ Ends
  PROVE  DataInv'
BY CalmSame, CalmData, Leaves DEF DataInv

LEMMA StepFailsData ==
  ASSUME IInv, DataInv, StepFails
  PROVE  DataInv'
<1>1. Calm BY DEF StepFails, Calm
<1>q. QED BY <1>1, CalmLeaves DEF StepFails

LEMMA Moved ==
  ASSUME IInv, NEW next, To(next)
  PROVE  /\ op'.pc = next /\ op'.snap = op.snap /\ op'.token = op.token
         /\ op'.lockAt = op.lockAt
BY DEF IInv, TypeOK, OpState, To

(* What a step from pc to next must not owe at next but at pc.             *)
Trails(pc, next) ==
    /\ next \in BeforeMark => pc \in BeforeMark
    /\ next \in UnlockedPcs => pc \in UnlockedPcs
    /\ next \in OutPcs => pc \in OutPcs
    /\ next \in HomePcs => pc \in HomePcs
    /\ next \in RanPcs => pc \in RanPcs
    /\ next \in CopiedPcs => pc \in CopiedPcs
    /\ next \in PulledPcs => pc \in PulledPcs
    /\ next \in ReturnedPcs => pc \in ReturnedPcs
    /\ next \in CheckedPcs => pc \in CheckedPcs
    /\ next \notin {"record", "mark"}

LEMMA CalmMove ==
  ASSUME IInv, DataInv, Calm, NEW pc, NEW next, At(pc), Trails(pc, next),
         To(next) \/ Failed \/ Ends,
         next \in PausedPcs => ~mac'.active,
         next \in VmPausedPcs => ~vm'.active,
         next \in IdleMacPcs => mac'.busy = {},
         next \in IdleVmPcs => vm'.busy = {}
  PROVE  DataInv'
<1>1. CASE Failed \/ Ends BY <1>1, CalmLeaves
<1>2. CASE To(next)
  <2>1. /\ op'.pc = next /\ op'.snap = op.snap /\ op'.token = op.token
        /\ op'.lockAt = op.lockAt
    BY <1>2, Moved
  <2>2. op.pc = pc BY DEF At
  <2>3. Secured'
    BY <2>1, <2>2, CalmSame DEF DataInv, Secured, Calm, Trails
  <2>4. next \in CheckedPcs => VmSpent'
    <3> SUFFICES ASSUME next \in CheckedPcs PROVE VmSpent' OBVIOUS
    <3>1. pc \in CheckedPcs BY DEF Trails
    <3>2. vm.role # "primary" BY <2>2, <3>1 DEF IInv, Fit, AwayPcs, Unlock
    <3>3. VmSpent BY <2>2, <3>1 DEF DataInv, Carrying
    <3>q. QED BY <3>2, <3>3 DEF Calm, VmSpent
  <2>5. Carrying'
    BY <2>1, <2>2, <2>4, CalmSame DEF DataInv, Carrying, Calm, Trails
  <2>6. op'.token <= past.newest BY <2>1, TokenBound
  <2>q. QED BY <2>3, <2>5, <2>6, CalmData DEF DataInv
<1>q. QED BY <1>1, <1>2

LEMMA BeginData ==
  ASSUME IInv, DataInv, NEW cmd, NEW first \in Pcs, Begin(cmd, first),
         \/ cmd = "dry-run" /\ first = "dSnapshot"
         \/ cmd = "cutover" /\ first = "lock"
         \/ cmd = "rollback" /\ first = (IF AsData THEN "record" ELSE "uCheck")
  PROVE  DataInv'
<1>1. PICK a \in Bool :
        op' = [NoOp EXCEPT !.pc = first, !.accepts = a,
                           !.lockAt = IF cmd = "rollback" THEN mac.lock ELSE 0]
  BY DEF Begin
<1>2. /\ op'.pc = first /\ op'.token = 0
      /\ op'.lockAt = IF cmd = "rollback" THEN mac.lock ELSE 0
  BY <1>1 DEF NoOp
<1>3. UNCHANGED <<mac, vm, db, notes, locks, writes, faults, past>> BY DEF Begin
<1>4. Calm BY <1>3 DEF Calm
<1>5. Tokens' /\ DataPlace' /\ TokenPlace' BY <1>2, <1>4, TokenBound, CalmData
<1>6. CASE first \in {"dSnapshot", "lock"}
  <2>1. ~BringingHome /\ vm.role # "primary" /\ (cmd = "dry-run" => mac.lock = 0)
    BY <1>6 DEF Begin, Allowed
  <2>2. Secured'
    BY <1>2, <1>3, <1>4, <1>6, <2>1, CalmSame DEF Secured, Dry, Roll
  <2>3. Carrying' BY <1>2, <1>6 DEF Carrying
  <2>q. QED BY <1>5, <2>2, <2>3 DEF DataInv
<1>7. CASE first \in {"record", "uCheck"}
  <2>1. cmd = "rollback" BY <1>7
  <2>2. first = "record" => Away
    BY <1>7, <2>1 DEF AsData, Away
  <2>3. first = "uCheck" => ~BringingHome
    BY <1>7, <2>1 DEF AsData
  <2>4. op'.lockAt = mac'.lock BY <1>2, <1>3, <2>1
  <2>5. Secured'
    BY <1>2, <1>4, <1>7, <2>2, <2>3, <2>4, CalmSame DEF Secured, Dry, Cut, Roll, AwayPcs, Unlock
  <2>6. Carrying' BY <1>2, <1>7 DEF Carrying
  <2>q. QED BY <1>5, <2>5, <2>6 DEF DataInv
<1>q. QED BY <1>6, <1>7

LEMMA BeginAnyData ==
  ASSUME IInv, DataInv, BeginDryRun \/ BeginCutover \/ BeginRollback
  PROVE  DataInv'
<1>1. {"dSnapshot", "lock", "record", "uCheck"} \subseteq Pcs BY DEF Pcs, Dry, Cut, Roll, Unlock
<1>q. QED BY <1>1, BeginData DEF BeginDryRun, BeginCutover, BeginRollback

-----------------------------------------------------------------------------
(* The steps that leave the data alone                                     *)

(* What a step secured is owed at both ends of the step.                   *)
Retains(pc, next) ==
    /\ Trails(pc, next)
    /\ next \in PausedPcs => pc \in PausedPcs
    /\ next \in VmPausedPcs => pc \in VmPausedPcs
    /\ next \in IdleMacPcs => pc \in IdleMacPcs
    /\ next \in IdleVmPcs => pc \in IdleVmPcs

LEMMA CalmFollows ==
  ASSUME IInv, DataInv, Calm, NEW pc, NEW next, At(pc), Retains(pc, next),
         To(next) \/ Failed \/ Ends,
         next \in PausedPcs /\ ~mac.active => ~mac'.active,
         next \in VmPausedPcs /\ ~vm.active => ~vm'.active
  PROVE  DataInv'
<1>1. next \in PausedPcs => ~mac'.active BY DEF DataInv, Secured, Retains, At
<1>2. next \in VmPausedPcs => ~vm'.active BY DEF DataInv, Secured, Retains, At
<1>3. next \in IdleMacPcs => mac'.busy = {}
  <2>1. next \in IdleMacPcs => mac.busy = {} /\ mac.lock # 0
    BY DEF DataInv, Secured, Retains, At, IInv, Fit, LockedPcs, Cut
  <2>q. QED BY <2>1 DEF Calm
<1>4. next \in IdleVmPcs => vm'.busy = {}
  <2>1. next \in IdleVmPcs => vm.busy = {} /\ vm.role = "dry-run"
    BY DEF DataInv, Secured, Retains, At, IInv, Fit, HeldPcs, Roll
  <2>q. QED BY <2>1 DEF Calm
<1>q. QED BY <1>1, <1>2, <1>3, <1>4, CalmMove DEF Retains

LEMMA DryRetains ==
  Retains("dStopVm", "dHold") /\ Retains("dPush", "dInstall") /\ Retains("dStart", "dVerify")
BY DEF Retains, Trails, Dry, Cut, Roll, Unlock, AwayPcs

LEMMA CutRetains ==
  /\ Retains("drain", "stopMac") /\ Retains("stopMac", "disable")
  /\ Retains("disable", "confirm") /\ Retains("stopVm", "hold")
  /\ Retains("start", "noteRan") /\ Trails("pause", "drain")
  /\ Trails("confirm", "snapshot") /\ Trails("push", "install")
BY DEF Retains, Trails, Dry, Cut, Roll, Unlock, AwayPcs

LEMMA RollRetains ==
  /\ Retains("rPause", "rGroup") /\ Retains("rGroup", "rDrain")
  /\ Trails("rDrain", "rStopVm") /\ Retains("rStopVm", "rConfirmVm")
  /\ Retains("rConfirmVm", "rSnapshot") /\ Retains("rPull", "rConfirm")
  /\ Retains("rConfirm", "rInstall") /\ Retains("rInstall", "rMoved")
  /\ Retains("rResume", "rEnable")
  /\ Retains("rEnable", "rUnlock") /\ Retains("uResume", "uEnable")
  /\ Retains("uEnable", "uUnlock")
BY DEF Retains, Trails, Dry, Cut, Roll, Unlock, AwayPcs

LEMMA StopVmData ==
  ASSUME IInv, DataInv, NEW pc, NEW next, Retains(pc, next), StopVm(pc, next)
  PROVE  DataInv'
<1>1. vm \in VmState BY DEF IInv, TypeOK
<1>2. Calm /\ UNCHANGED mac /\ vm'.active = vm.active
  BY <1>1 DEF Calm, VmState, StopVm, Stopped, Halted, OnVm
<1>q. QED BY <1>2, CalmFollows DEF StopVm, Remotely

LEMMA StartVmData ==
  ASSUME IInv, DataInv, NEW pc, NEW next, Retains(pc, next), StartVm(pc, next)
  PROVE  DataInv'
<1>1. vm \in VmState BY DEF IInv, TypeOK
<1>2. Calm /\ UNCHANGED mac /\ vm'.active = vm.active
  BY <1>1 DEF Calm, VmState, StartVm, Booted, OnVm
<1>q. QED BY <1>2, CalmFollows DEF StartVm, Remotely

(* The power state that travels with user-data is that of the paused Mac.  *)
LEMMA PushData ==
  ASSUME IInv, DataInv,
         Push("dPush", "dInstall") \/ Push("push", "install")
  PROVE  DataInv'
<1>1. vm \in VmState BY DEF IInv, TypeOK
<1>2. vm.role = "dry-run" BY DEF Push, At, IInv, Fit, HeldPcs
<1>3. Calm /\ UNCHANGED mac /\ vm'.active = mac.active /\ vm'.busy = vm.busy
  BY <1>1, <1>2 DEF Calm, VmState, Push, OnVm
<1>4. CASE Push("dPush", "dInstall")
  BY <1>3, <1>4, DryRetains, CalmFollows DEF Push, Remotely
<1>5. CASE Push("push", "install")
  <2>1. ~mac.active /\ mac.busy = {} BY <1>5 DEF Push, At, DataInv, Secured
  <2>q. QED BY <1>3, <1>5, <2>1, CutRetains, CalmMove DEF Push, Remotely
<1>q. QED BY <1>4, <1>5

LEMMA LooksData ==
  ASSUME IInv, DataInv,
         \/ InstallRefused \/ Drain \/ Confirm \/ Verify \/ VerifyTimesOut
         \/ At("dVerify") /\ Ends /\ UNCHANGED vm /\ OnVm
         \/ DrainVm \/ ConfirmVm \/ ConfirmVmTimesOut \/ RConfirm \/ FindGroup \/ NoMacDb
  PROVE  DataInv'
<1>1. /\ Calm /\ UNCHANGED <<mac, vm>>
  BY DEF Calm, InstallRefused, Drain, Confirm, Verify, VerifyTimesOut, DrainVm,
         ConfirmVm, ConfirmVmTimesOut, RConfirm, FindGroup, NoMacDb, OnVm, OnMac, IInv, TypeOK,
         NotesState
<1>2. CASE \/ InstallRefused \/ Verify \/ VerifyTimesOut \/ ConfirmVmTimesOut \/ NoMacDb
           \/ At("dVerify") /\ Ends /\ UNCHANGED vm /\ OnVm
  BY <1>1, <1>2, CalmLeaves
     DEF InstallRefused, Verify, VerifyTimesOut, ConfirmVmTimesOut, NoMacDb
<1>3. CASE Drain BY <1>1, <1>3, CutRetains, CalmFollows DEF Drain
<1>4. CASE Confirm
  <2>1. ~mac.active BY <1>4 DEF Confirm, At, DataInv, Secured
  <2>q. QED BY <1>1, <1>4, <2>1, CutRetains, CalmMove DEF Confirm
<1>5. CASE DrainVm BY <1>1, <1>5, RollRetains, CalmMove DEF DrainVm
<1>6. CASE ConfirmVm BY <1>1, <1>6, RollRetains, CalmFollows DEF ConfirmVm
<1>7. CASE RConfirm BY <1>1, <1>7, RollRetains, CalmFollows DEF RConfirm
<1>8. CASE FindGroup BY <1>1, <1>8, RollRetains, CalmFollows DEF FindGroup
<1>q. QED BY <1>2, <1>3, <1>4, <1>5, <1>6, <1>7, <1>8

LEMMA MacStepsData ==
  ASSUME IInv, DataInv,
         \/ PauseMac \/ StopMac \/ Disable \/ PullUserData \/ MoveAside
         \/ ResumeMac("rResume", "rEnable") \/ ResumeMac("uResume", "uEnable")
         \/ Enable("rEnable", "rUnlock") \/ Enable("uEnable", "uUnlock")
         \/ StartMac("rStart") \/ StartMac("uStart")
  PROVE  DataInv'
<1>1. mac \in MacState BY DEF IInv, TypeOK
<1>2. Calm /\ UNCHANGED vm
  BY <1>1 DEF Calm, MacState, PauseMac, StopMac, Disable, PullUserData, MoveAside,
     ResumeMac, Enable, StartMac, OnMac
<1>3. CASE PauseMac
  <2>1. ~mac'.active BY <1>1, <1>3 DEF PauseMac, MacState
  <2>q. QED BY <1>2, <1>3, <2>1, CutRetains, CalmMove DEF PauseMac
<1>4. CASE StopMac
  <2>1. mac'.active = mac.active BY <1>1, <1>4 DEF StopMac, MacState
  <2>q. QED BY <1>2, <1>4, <2>1, CutRetains, CalmFollows DEF StopMac
<1>5. CASE Disable
  <2>1. mac'.active = mac.active BY <1>1, <1>5 DEF Disable, MacState
  <2>q. QED BY <1>2, <1>5, <2>1, CutRetains, CalmFollows DEF Disable
<1>6. CASE PullUserData
  BY <1>2, <1>6, RollRetains, CalmFollows DEF PullUserData, Remotely
<1>7. CASE ResumeMac("rResume", "rEnable") \/ ResumeMac("uResume", "uEnable")
  BY <1>2, <1>7, RollRetains, CalmFollows DEF ResumeMac
<1>8. CASE Enable("rEnable", "rUnlock") \/ Enable("uEnable", "uUnlock")
  BY <1>2, <1>8, RollRetains, CalmFollows DEF Enable
<1>9. CASE StartMac("rStart") \/ StartMac("uStart")
  BY <1>2, <1>9, CalmLeaves DEF StartMac
<1>10. CASE MoveAside BY <1>2, <1>10, RollRetains, CalmFollows DEF MoveAside
<1>q. QED BY <1>3, <1>4, <1>5, <1>6, <1>7, <1>8, <1>9, <1>10

LEMMA VmStepsData ==
  ASSUME IInv, DataInv, ResumeVm \/ ParkStop \/ PauseVm
  PROVE  DataInv'
<1>1. vm \in VmState BY DEF IInv, TypeOK
<1>2. CASE ResumeVm
  <2>1. notes.vmRan BY <1>2 DEF ResumeVm, At, DataInv, Secured
  <2>2. Calm /\ UNCHANGED mac BY <1>1, <1>2, <2>1 DEF Calm, VmState, ResumeVm, OnVm
  <2>3. Trails("resume", "verify")
    BY DEF Trails, Dry, Cut, Roll, Unlock, AwayPcs
  <2>q. QED BY <1>2, <2>2, <2>3, CalmMove DEF ResumeVm, Remotely
<1>3. CASE ParkStop
  <2>1. Calm BY <1>1, <1>3 DEF Calm, VmState, ParkStop, Stopped, Halted, OnVm
  <2>q. QED BY <1>3, <2>1, CalmLeaves DEF ParkStop
<1>4. CASE PauseVm
  <2>1. Calm /\ UNCHANGED mac BY <1>1, <1>4 DEF Calm, VmState, PauseVm, OnVm
  <2>q. QED BY <1>4, <2>1, RollRetains, CalmFollows DEF PauseVm, Remotely
<1>q. QED BY <1>2, <1>3, <1>4

-----------------------------------------------------------------------------
(* The steps that carry the data or change a role                          *)

LEMMA SnapshotData ==
  ASSUME IInv, DataInv,
         Snapshot("dSnapshot", "dStopVm") \/ Snapshot("snapshot", "stopVm")
  PROVE  DataInv'
<1>1. op \in OpState BY DEF IInv, TypeOK
<1>2. /\ op'.snap = db[Mac].rows /\ op'.token = db[Mac].token
      /\ UNCHANGED <<mac, vm, db, notes, opLock, locks, writes, faults, past>>
  BY <1>1 DEF Snapshot, OpState
<1>3. Calm BY <1>2 DEF Calm
<1>4. op'.token <= past.newest BY <1>2 DEF DataInv, Tokens
<1>5. CASE Snapshot("dSnapshot", "dStopVm")
  <2>1. op.pc = "dSnapshot" /\ op'.pc = "dStopVm" BY <1>1, <1>5 DEF Snapshot, At, OpState
  <2>2. Secured' BY <1>2, <1>3, <2>1, CalmSame DEF DataInv, Secured, Dry, Roll
  <2>3. Carrying' BY <2>1 DEF Carrying
  <2>q. QED BY <1>3, <1>4, <2>2, <2>3, CalmData DEF DataInv
<1>6. CASE Snapshot("snapshot", "stopVm")
  <2>1. op.pc = "snapshot" /\ op'.pc = "stopVm" BY <1>1, <1>6 DEF Snapshot, At, OpState
  <2>2. Secured' BY <1>2, <1>3, <2>1, CalmSame DEF DataInv, Secured, Dry, Cut, Roll
  <2>3. Carrying' BY <1>2, <2>1 DEF Carrying
  <2>q. QED BY <1>3, <1>4, <2>2, <2>3, CalmData DEF DataInv
<1>q. QED BY <1>5, <1>6

(* Holding the VM: before its mark, or once its data is being brought home *)
(* anyway.                                                                 *)
LEMMA HoldVmData ==
  ASSUME IInv, DataInv,
         \/ HoldVm("dHold", "dPush") \/ HoldVm("hold", "push") \/ HoldVm("rHold", "rPause")
  PROVE  DataInv'
<1>1. vm \in VmState BY DEF IInv, TypeOK
<1>2. /\ vm'.role = "dry-run" /\ vm'.active = vm.active /\ vm'.busy = vm.busy
      /\ vm'.revoked = vm.revoked
      /\ UNCHANGED <<mac, db, notes, locks, writes, past>>
  BY <1>1 DEF HoldVm, OnVm, VmState
<1>3. BringingHome' = BringingHome BY <1>2 DEF BringingHome
<1>4. vm.role # "primary" \/ BringingHome
  BY DEF HoldVm, At, DataInv, Secured, Dry, Roll
<1>5. Away' = Away BY <1>2, <1>3, <1>4 DEF Away
<1>6. /\ Owed' = Owed /\ MacHasAll' = MacHasAll /\ VmHasAll' = VmHasAll
      /\ MacFresh' = MacFresh /\ VmFresh' = VmFresh /\ VmSpent' = VmSpent
  BY <1>2 DEF Owed, MacHasAll, VmHasAll, MacFresh, VmFresh, VmSpent
<1>7. DataPlace' BY <1>2, <1>5, <1>6 DEF DataInv, DataPlace
<1>8. TokenPlace' BY <1>2, <1>3, <1>6 DEF DataInv, TokenPlace
<1>9. op'.token <= past.newest => Tokens' BY <1>2 DEF DataInv, Tokens
<1>10. CASE Failed \/ Ends BY <1>3, <1>7, <1>8, <1>9, <1>10, Leaves DEF DataInv
<1>11. ASSUME NEW pc, NEW next, At(pc), To(next),
             <<pc, next>> \in {<<"dHold", "dPush">>, <<"hold", "push">>, <<"rHold", "rPause">>}
      PROVE  DataInv'
  <2>1. /\ op'.pc = next /\ op'.snap = op.snap /\ op'.token = op.token /\ op.pc = pc
    BY <1>11, Moved DEF At
  <2>2. Secured'
    BY <1>2, <1>3, <1>11, <2>1 DEF DataInv, Secured, Dry, Cut, Roll, Unlock, AwayPcs
  <2>3. Carrying' BY <1>2, <1>11, <2>1 DEF DataInv, Carrying
  <2>q. QED BY <1>7, <1>8, <1>9, <2>1, <2>2, <2>3, TokenBound DEF DataInv
<1>q. QED BY <1>10, <1>11 DEF HoldVm, Remotely

(* Only an idle VM is installed to, while the data is on the Mac.          *)
LEMMA InstallFacts ==
  ASSUME IInv, DataInv, NEW token \in Nat, token <= past.newest,
         \/ Install("dInstall", "dStart", token)
         \/ Install("install", "mark", token) /\ token = past.newest
  PROVE  /\ db'[Vm].rows = op.snap /\ db'[Vm].token = token /\ db'[Mac] = db[Mac]
         /\ (op'.token = op.token \/ op' = NoOp => Tokens')
         /\ DataPlace' /\ TokenPlace' /\ ~BringingHome' /\ ~BringingHome
         /\ Owed' = Owed /\ vm'.role = vm.role /\ vm'.active = vm.active
         /\ UNCHANGED <<mac, notes, locks, writes, past>>
<1>1. vm \in VmState /\ DOMAIN db = {Mac, Vm} BY DEF IInv, TypeOK
<1>2. /\ vm'.role = vm.role /\ vm'.active = vm.active /\ vm'.busy = {}
      /\ UNCHANGED <<mac, notes, locks, writes, past>>
  BY <1>1 DEF Install, VmDbFree, VmState
<1>3. db'[Vm] = [rows |-> op.snap, token |-> token] /\ db'[Mac] = db[Mac]
  BY <1>1, CloudAssumption DEF Install
<1>4. db'[Vm].rows = op.snap /\ db'[Vm].token = token BY <1>3
<1>5. BringingHome' = BringingHome /\ Away' = Away BY <1>2 DEF BringingHome, Away
<1>6. ~Away /\ ~BringingHome BY DEF Install, At, DataInv, Secured, Dry, Cut, Away
<1>7. /\ Owed' = Owed /\ MacHasAll' = MacHasAll /\ MacFresh' = MacFresh /\ VmSpent'
  BY <1>2, <1>3 DEF Owed, MacHasAll, MacFresh, VmSpent
<1>8. MacFresh' \/ VmFresh'
  <2>1. CASE op.pc = "dInstall"
    BY <1>7, <2>1 DEF DataInv, Secured, TokenPlace, Dry
  <2>2. CASE op.pc = "install"
    <3>1. token = past.newest BY <2>2 DEF Install, At
    <3>q. QED BY <1>2, <1>4, <3>1 DEF VmFresh
  <2>q. QED BY <2>1, <2>2 DEF Install, At
<1>9. DataPlace' BY <1>5, <1>6, <1>7, <1>8 DEF DataInv, DataPlace
<1>10. TokenPlace' BY <1>2, <1>5, <1>7 DEF DataInv, TokenPlace
<1>11. op'.token = op.token \/ op' = NoOp => Tokens'
  BY <1>2, <1>3, <1>4, NoOpFacts, TokenBound DEF DataInv, Tokens
<1>q. QED BY <1>2, <1>3, <1>4, <1>5, <1>6, <1>7, <1>9, <1>10, <1>11

LEMMA InstallData ==
  ASSUME IInv, DataInv,
         Install("dInstall", "dStart", op.token) \/ Install("install", "mark", Carried)
  PROVE  DataInv'
<1>1. /\ op \in OpState /\ op.token \in Nat /\ op.token <= past.newest
      /\ db[Mac].token \in Nat /\ db[Vm].token \in Nat /\ past.newest \in Nat
  BY TokenBound DEF IInv, TypeOK, OpState, DbState
<1>2. CASE Install("dInstall", "dStart", op.token)
  <2>1. /\ (op'.token = op.token \/ op' = NoOp => Tokens')
        /\ DataPlace' /\ TokenPlace' /\ ~BringingHome' /\ ~BringingHome
        /\ vm'.role = vm.role /\ UNCHANGED mac
    BY <1>1, <1>2, InstallFacts
  <2>2. op.pc = "dInstall" BY <1>2 DEF Install, At
  <2>3. CASE To("dStart")
    <3>1. op'.pc = "dStart" /\ op'.token = op.token BY <2>3, Moved
    <3>2. Secured' BY <2>1, <2>2, <3>1 DEF DataInv, Secured, Dry, Roll
    <3>3. Carrying' BY <3>1 DEF Carrying
    <3>q. QED BY <2>1, <3>1, <3>2, <3>3 DEF DataInv
  <2>4. CASE Failed
    <3>1. op' = NoOp BY <2>2, <2>4 DEF Failed, Parking
    <3>q. QED BY <2>1, <3>1, NoOpFacts, IdleCarries DEF DataInv
  <2>q. QED BY <1>2, <2>3, <2>4 DEF Install, Remotely
<1>3. CASE Install("install", "mark", Carried)
  <2>1. op.pc = "install" BY <1>3 DEF Install, At
  <2>2. op.snap = db[Mac].rows /\ op.token = db[Mac].token
    BY <2>1 DEF DataInv, Carrying
  <2>3. Carried \in Nat /\ Carried = past.newest
    BY <1>1, <2>2 DEF Carried, Newest, DataInv, DataPlace, Tokens, MacFresh, VmFresh
  <2>4. /\ (op'.token = op.token \/ op' = NoOp => Tokens')
        /\ DataPlace' /\ TokenPlace' /\ ~BringingHome' /\ ~BringingHome
        /\ db'[Vm].rows = op.snap /\ db'[Vm].token = Carried
        /\ Owed' = Owed /\ vm'.role = vm.role /\ vm'.active = vm.active
        /\ UNCHANGED <<mac, notes, locks, writes, past>>
    BY <1>1, <1>3, <2>3, InstallFacts
  <2>5. CASE To("mark")
    <3>1. op'.pc = "mark" /\ op'.token = op.token BY <2>5, Moved
    <3>2. MacHasAll
      BY <2>1, <2>4 DEF DataInv, DataPlace, Secured, Away
    <3>3. VmHasAll' /\ VmFresh'
      BY <2>2, <2>3, <2>4, <3>2 DEF MacHasAll, VmHasAll, VmFresh
    <3>4. Secured' BY <2>1, <2>4, <3>1 DEF DataInv, Secured, Dry, Roll
    <3>5. Carrying' BY <3>1, <3>3 DEF Carrying
    <3>q. QED BY <2>4, <3>1, <3>4, <3>5 DEF DataInv
  <2>6. CASE Failed
    <3>1. op' = NoOp BY <2>1, <2>6 DEF Failed, Parking
    <3>q. QED BY <2>4, <3>1, NoOpFacts, IdleCarries DEF DataInv
  <2>q. QED BY <1>3, <2>5, <2>6 DEF Install, Remotely
<1>q. QED BY <1>2, <1>3

LEMMA LockMacData ==
  ASSUME IInv, DataInv, LockMac
  PROVE  DataInv'
<1>1. /\ op \in OpState /\ mac \in MacState /\ locks \in Nat /\ mac.lock <= locks
  BY DEF IInv, TypeOK
<1>2. op.pc = "lock" /\ UNCHANGED <<vm, db, opLock, writes, faults, past>>
  BY DEF LockMac, At
<1>3. ~BringingHome /\ vm.role # "primary" BY <1>2 DEF DataInv, Secured, Cut
<1>4. op'.pc = "pause" /\ op'.token = op.token BY <1>1 DEF LockMac, OpState
<1>5. Carrying' BY <1>4 DEF Carrying
<1>6. CASE mac.lock # 0
  <2>1. Calm BY <1>2, <1>6 DEF LockMac, Calm
  <2>2. op'.token <= past.newest BY <1>4, TokenBound
  <2>3. Secured' BY <1>2, <1>3, <1>4, <2>1, CalmSame DEF Secured, Calm, Dry, Cut, Roll
  <2>q. QED BY <1>5, <2>1, <2>2, <2>3, CalmData DEF DataInv
<1>7. CASE mac.lock = 0
  <2>1. /\ mac'.lock # 0 /\ mac'.busy = mac.busy /\ notes'.rollback = 0
        /\ notes'.vmRan = FALSE
    BY <1>1, <1>7 DEF LockMac, MacState
  <2>2. ~BringingHome' /\ ~Away' /\ ~Away
    BY <1>2, <1>3, <2>1 DEF BringingHome, Away
  <2>3. /\ Owed' = Owed /\ MacHasAll' = MacHasAll /\ VmHasAll' = VmHasAll
        /\ MacFresh' = MacFresh /\ VmFresh' = VmFresh /\ VmSpent' = VmSpent
    BY <1>2 DEF Owed, MacHasAll, VmHasAll, MacFresh, VmFresh, VmSpent
  <2>4. Tokens' BY <1>2, <1>4, TokenBound DEF DataInv, Tokens
  <2>5. DataPlace' BY <2>2, <2>3 DEF DataInv, DataPlace
  <2>6. TokenPlace' BY <1>2, <1>3, <1>7, <2>3 DEF DataInv, TokenPlace
  <2>7. Secured' BY <1>2, <1>3, <1>4, <2>2 DEF Secured, Dry, Cut, Roll
  <2>q. QED BY <1>5, <2>4, <2>5, <2>6, <2>7 DEF DataInv
<1>q. QED BY <1>6, <1>7

(* The VM becomes primary with everything on it and the Mac idle.          *)
LEMMA MarkPrimaryData ==
  ASSUME IInv, DataInv, MarkPrimary
  PROVE  DataInv'
<1>1. vm \in VmState /\ op.pc = "mark" BY DEF IInv, TypeOK, MarkPrimary, At
<1>2. /\ vm'.role = "primary" /\ vm'.active = vm.active /\ vm'.busy = vm.busy
      /\ vm'.revoked = vm.revoked
      /\ UNCHANGED <<mac, db, notes, locks, writes, past>>
  BY <1>1 DEF MarkPrimary, OnVm, VmState
<1>3. BringingHome' = BringingHome /\ ~BringingHome
  BY <1>1, <1>2 DEF DataInv, Secured, BringingHome, Cut
<1>4. /\ Owed' = Owed /\ MacHasAll' = MacHasAll /\ VmHasAll' = VmHasAll
      /\ MacFresh' = MacFresh /\ VmFresh' = VmFresh /\ VmSpent' = VmSpent
  BY <1>2 DEF Owed, MacHasAll, VmHasAll, MacFresh, VmFresh, VmSpent
<1>5. mac.busy = {} /\ ~vm.active /\ VmHasAll /\ VmFresh
  BY <1>1 DEF DataInv, Secured, Carrying
<1>6. DataPlace' BY <1>2, <1>4, <1>5 DEF DataPlace, Away
<1>7. TokenPlace' BY <1>2, <1>3, <1>4, <1>5 DEF DataInv, TokenPlace
<1>8. op'.token <= past.newest => Tokens' BY <1>2 DEF DataInv, Tokens
<1>9. CASE Failed BY <1>3, <1>6, <1>7, <1>8, <1>9, Leaves DEF DataInv
<1>10. CASE To("start")
  <2>1. op'.pc = "start" /\ op'.token = op.token BY <1>10, Moved
  <2>2. Secured' BY <1>2, <1>3, <1>5, <2>1 DEF Secured, Dry, Cut, Roll
  <2>3. Carrying' BY <2>1 DEF Carrying
  <2>q. QED BY <1>6, <1>7, <1>8, <2>1, <2>2, <2>3, TokenBound DEF DataInv
<1>q. QED BY <1>9, <1>10 DEF MarkPrimary, Remotely

LEMMA NoteRanData ==
  ASSUME IInv, DataInv, NoteRan
  PROVE  DataInv'
<1>1. notes \in NotesState /\ op.pc = "noteRan" BY DEF IInv, TypeOK, NoteRan, At
<1>2. /\ notes'.vmRan = TRUE /\ notes'.rollback = notes.rollback
      /\ UNCHANGED <<mac, vm, db, locks, writes, past>>
  BY <1>1 DEF NoteRan, NotesState
<1>3. BringingHome' = BringingHome /\ ~BringingHome
  BY <1>1, <1>2 DEF DataInv, Secured, BringingHome, Cut
<1>4. /\ Owed' = Owed /\ MacHasAll' = MacHasAll /\ VmHasAll' = VmHasAll /\ Away' = Away
      /\ MacFresh' = MacFresh /\ VmFresh' = VmFresh /\ VmSpent' = VmSpent
  BY <1>2, <1>3 DEF Owed, MacHasAll, VmHasAll, MacFresh, VmFresh, VmSpent, Away
<1>5. op'.pc = "resume" /\ op'.token = op.token BY Moved DEF NoteRan
<1>6. DataPlace' BY <1>2, <1>4 DEF DataInv, DataPlace
<1>7. TokenPlace' BY <1>2, <1>4 DEF DataInv, TokenPlace
<1>8. Tokens' BY <1>2, <1>5, TokenBound DEF DataInv, Tokens
<1>9. Secured' BY <1>2, <1>3, <1>5 DEF Secured, Dry, Cut, Roll
<1>10. Carrying' BY <1>5 DEF Carrying
<1>q. QED BY <1>6, <1>7, <1>8, <1>9, <1>10 DEF DataInv

(* What only the VM has is given up with its role.                         *)
LEMMA ParkData ==
  ASSUME IInv, DataInv, Park
  PROVE  DataInv'
<1>1. vm \in VmState /\ op.pc = "park" BY DEF IInv, TypeOK, Park, At
<1>2. /\ vm'.role = "dry-run" /\ vm'.busy = vm.busy /\ vm'.revoked = vm.revoked
      /\ UNCHANGED <<mac, db, notes, locks, writes>>
      /\ past'.newest = past.newest
      /\ past'.waived = past.waived \cup (db[Vm].rows \ db[Mac].rows)
  BY <1>1 DEF Park, VmState, IInv, TypeOK
<1>3. BringingHome' = BringingHome /\ ~BringingHome
  BY <1>1, <1>2 DEF DataInv, Secured, BringingHome, Cut
<1>4. /\ MacFresh' = MacFresh /\ VmFresh' = VmFresh /\ VmSpent' = VmSpent /\ ~Away'
  BY <1>2, <1>3 DEF MacFresh, VmFresh, VmSpent, Away
<1>5. MacHasAll'
  <2>1. Owed' \subseteq Owed \ (db[Vm].rows \ db[Mac].rows) BY <1>2 DEF Owed
  <2>2. MacHasAll \/ VmHasAll BY DEF DataInv, DataPlace
  <2>q. QED BY <1>2, <2>1, <2>2 DEF MacHasAll, VmHasAll
<1>6. DataPlace' BY <1>4, <1>5 DEF DataInv, DataPlace
<1>7. TokenPlace' BY <1>2, <1>3, <1>4 DEF DataInv, TokenPlace
<1>8. op'.token <= past.newest => Tokens' BY <1>2 DEF DataInv, Tokens
<1>9. CASE Failed BY <1>3, <1>6, <1>7, <1>8, <1>9, Leaves DEF DataInv
<1>10. CASE To("parkStop")
  <2>1. op'.pc = "parkStop" /\ op'.token = op.token BY <1>10, Moved
  <2>2. Secured' BY <1>2, <1>3, <2>1 DEF Secured, Dry, Cut, Roll
  <2>3. Carrying' BY <2>1 DEF Carrying
  <2>q. QED BY <1>6, <1>7, <1>8, <2>1, <2>2, <2>3, TokenBound DEF DataInv
<1>q. QED BY <1>9, <1>10 DEF Park, Remotely

LEMMA RecordRollbackData ==
  ASSUME IInv, DataInv, RecordRollback
  PROVE  DataInv'
<1>1. notes \in NotesState /\ op.pc = "record" BY DEF IInv, TypeOK, RecordRollback, At
<1>2. /\ notes'.vmRan = notes.vmRan /\ notes'.rollback = op.lockAt
      /\ UNCHANGED <<mac, vm, db, locks, writes, past>>
  BY <1>1 DEF RecordRollback, NotesState
<1>3. op.lockAt = mac.lock /\ Away BY <1>1 DEF DataInv, Secured
<1>4. mac.lock # 0 BY <1>1 DEF IInv, Fit, LockedPcs, Roll
<1>5. BringingHome' /\ Away' BY <1>2, <1>3, <1>4 DEF BringingHome, Away
<1>6. /\ Owed' = Owed /\ MacHasAll' = MacHasAll /\ VmHasAll' = VmHasAll
      /\ MacFresh' = MacFresh /\ VmFresh' = VmFresh
  BY <1>2 DEF Owed, MacHasAll, VmHasAll, MacFresh, VmFresh
<1>7. op'.pc = "rHold" /\ op'.token = op.token BY Moved DEF RecordRollback
<1>8. DataPlace' BY <1>2, <1>3, <1>5, <1>6 DEF DataInv, DataPlace
<1>9. TokenPlace' BY <1>2, <1>4, <1>5 DEF DataInv, TokenPlace
<1>10. Tokens' BY <1>2, <1>7, TokenBound DEF DataInv, Tokens
<1>11. Secured' BY <1>5, <1>7 DEF Secured, Dry, Cut, Roll, AwayPcs, Unlock
<1>12. Carrying' BY <1>7 DEF Carrying
<1>q. QED BY <1>8, <1>9, <1>10, <1>11, <1>12 DEF DataInv

LEMMA PullSnapshotData ==
  ASSUME IInv, DataInv, PullSnapshot
  PROVE  DataInv'
<1>1. op \in OpState /\ op.pc = "rSnapshot" BY DEF IInv, TypeOK, PullSnapshot, At
<1>2. /\ op'.pc = "rPull" /\ op'.snap = db[Vm].rows /\ op'.token = db[Vm].token
      /\ UNCHANGED <<mac, vm, db, notes, opLock, locks, writes, faults, past>>
  BY <1>1 DEF PullSnapshot, OpState
<1>3. Calm BY <1>2 DEF Calm
<1>4. BringingHome /\ vm.busy = {} BY <1>1 DEF DataInv, Secured, Roll
<1>5. VmHasAll /\ VmFresh BY <1>4 DEF DataInv, DataPlace, Away
<1>6. op'.token <= past.newest BY <1>2 DEF DataInv, Tokens
<1>7. Secured' BY <1>2, <1>3, <1>4, CalmSame DEF Secured, Dry, Cut, Roll, AwayPcs, Unlock
<1>8. Carrying' BY <1>2, <1>3, <1>5, CalmSame DEF Carrying, VmHasAll, VmFresh
<1>q. QED BY <1>3, <1>6, <1>7, <1>8, CalmData DEF DataInv

LEMMA InstallOnMacData ==
  ASSUME IInv, DataInv, InstallOnMac
  PROVE  DataInv'
<1>1. op.pc = "rMoved" /\ DOMAIN db = {Mac, Vm} /\ mac \in MacState
  BY DEF InstallOnMac, At, IInv, TypeOK
<1>2. db'[Mac] = [rows |-> op.snap, token |-> op.token] /\ db'[Vm] = db[Vm]
  BY <1>1, CloudAssumption DEF InstallOnMac
<1>3. db'[Mac].rows = op.snap /\ db'[Mac].token = op.token BY <1>2
<1>4. /\ UNCHANGED <<vm, notes, locks, writes, past>>
      /\ mac'.lock = mac.lock /\ mac'.active = mac.active /\ mac'.busy = mac.busy
  BY <1>1 DEF InstallOnMac, MacState
<1>5. Owed \subseteq op.snap /\ op.token = past.newest BY <1>1 DEF DataInv, Carrying
<1>6. BringingHome /\ vm.busy = {} BY <1>1 DEF DataInv, Secured, Roll
<1>7. BringingHome' /\ Away' /\ Away BY <1>4, <1>6 DEF BringingHome, Away
<1>8. MacHasAll' /\ MacFresh' /\ VmHasAll' = VmHasAll /\ VmFresh' = VmFresh
  BY <1>2, <1>3, <1>4, <1>5 DEF Owed, MacHasAll, MacFresh, VmHasAll, VmFresh
<1>9. op'.pc = "rResume" /\ op'.token = op.token BY Moved DEF InstallOnMac
<1>10. DataPlace' BY <1>4, <1>7, <1>8 DEF DataInv, DataPlace
<1>11. mac.lock # 0 BY <1>6 DEF BringingHome
<1>12. TokenPlace' BY <1>4, <1>7, <1>11 DEF DataInv, TokenPlace
<1>13. past.newest \in Nat BY DEF IInv, TypeOK
<1>14. Tokens' BY <1>2, <1>3, <1>4, <1>5, <1>9, <1>13 DEF DataInv, Tokens
<1>15. Secured' BY <1>4, <1>6, <1>7, <1>9 DEF Secured, Dry, Cut, Roll, AwayPcs, Unlock
<1>16. Carrying' BY <1>8, <1>9 DEF Carrying
<1>q. QED BY <1>10, <1>12, <1>14, <1>15, <1>16 DEF DataInv

(* Either rollback ends with everything, and the newest token, on the Mac. *)
LEMMA UnlockMacData ==
  ASSUME IInv, DataInv,
         UnlockMac("rUnlock", "rForget") \/ UnlockMac("uUnlock", "uForget")
  PROVE  DataInv'
<1>1. mac \in MacState BY DEF IInv, TypeOK
<1>2. mac'.lock = 0 /\ UNCHANGED <<vm, db, notes, locks, writes, past>>
  BY <1>1 DEF UnlockMac, OnMac, MacState
<1>3. op.pc \in {"rUnlock", "uUnlock"} BY DEF UnlockMac, At
<1>4. vm.role # "primary" BY <1>3, HomewardFits DEF IInv, Homeward
<1>5. ~BringingHome' /\ ~Away' BY <1>2, <1>4 DEF BringingHome, Away
<1>6. MacHasAll /\ MacFresh /\ VmSpent
  <2>1. CASE op.pc = "rUnlock" BY <2>1 DEF DataInv, Secured, Carrying, VmSpent
  <2>2. CASE op.pc = "uUnlock"
    <3>1. ~Away BY <1>4, <2>2 DEF DataInv, Secured, AwayPcs, Unlock, Away
    <3>q. QED BY <2>2, <3>1 DEF DataInv, DataPlace, Carrying
  <2>q. QED BY <1>3, <2>1, <2>2
<1>7. MacHasAll' /\ MacFresh' /\ VmSpent'
  BY <1>2, <1>6 DEF Owed, MacHasAll, MacFresh, VmSpent
<1>8. op'.pc \in {"rForget", "uForget"} /\ op'.token = op.token
  BY Moved DEF UnlockMac
<1>9. DataPlace' BY <1>5, <1>7 DEF DataPlace
<1>10. TokenPlace' BY <1>2, <1>4, <1>7 DEF TokenPlace
<1>11. Tokens' BY <1>2, <1>8, TokenBound DEF DataInv, Tokens
<1>12. Secured' BY <1>2, <1>8 DEF Secured, Dry, Cut, Roll, AwayPcs, Unlock
<1>13. Carrying' BY <1>8 DEF Carrying
<1>q. QED BY <1>9, <1>10, <1>11, <1>12, <1>13 DEF DataInv

LEMMA ForgetData ==
  ASSUME IInv, DataInv,
         Forget("rForget", "rStart") \/ Forget("uForget", "uStart")
  PROVE  DataInv'
<1>1. mac.lock = 0 BY DEF Forget, At, DataInv, Secured
<1>2. UNCHANGED <<mac, vm, db, locks, writes, past>> BY DEF Forget
<1>3. ~BringingHome /\ ~BringingHome' BY <1>1, <1>2 DEF BringingHome
<1>4. vm.role # "primary" BY <1>1 DEF IInv, Roles
<1>5. /\ Owed' = Owed /\ MacHasAll' = MacHasAll /\ VmHasAll' = VmHasAll /\ Away' = Away
      /\ MacFresh' = MacFresh /\ VmFresh' = VmFresh /\ VmSpent' = VmSpent
  BY <1>2, <1>3 DEF Owed, MacHasAll, VmHasAll, MacFresh, VmFresh, VmSpent, Away
<1>6. op'.pc \in {"rStart", "uStart"} /\ op'.token = op.token BY Moved DEF Forget
<1>7. DataPlace' BY <1>2, <1>5 DEF DataInv, DataPlace
<1>8. TokenPlace' BY <1>1, <1>2, <1>4, <1>5 DEF DataInv, TokenPlace
<1>9. Tokens' BY <1>2, <1>6, TokenBound DEF DataInv, Tokens
<1>10. Secured' BY <1>6 DEF Secured, Dry, Cut, Roll, AwayPcs, Unlock
<1>11. Carrying' BY <1>6 DEF Carrying
<1>q. QED BY <1>7, <1>8, <1>9, <1>10, <1>11 DEF DataInv

(* No unlocking over a token the VM may have spent, unless a new login has *)
(* revoked its family.                                                     *)
LEMMA CheckRanData ==
  ASSUME IInv, DataInv, CheckRan
  PROVE  DataInv'
<1>1. op.pc = "uCheck" /\ vm \in VmState /\ DOMAIN db = {Mac, Vm} /\ db[Mac] \in DbState
  BY DEF CheckRan, At, IInv, TypeOK
<1>2. ~BringingHome /\ vm.role # "primary"
  BY <1>1 DEF DataInv, Secured, IInv, Fit, AwayPcs, Unlock
<1>3. CASE Ends /\ UNCHANGED <<vm, db>>
  <2>1. Calm BY <1>3 DEF CheckRan, Calm
  <2>q. QED BY <1>3, <2>1, CalmLeaves
<1>4. CASE ~notes.vmRan /\ To("uResume") /\ UNCHANGED <<vm, db>>
  <2>1. Calm BY <1>4 DEF CheckRan, Calm
  <2>2. op'.pc = "uResume" /\ op'.token = op.token BY <1>4, Moved
  <2>3. MacFresh /\ VmSpent BY <1>2, <1>4 DEF DataInv, TokenPlace
  <2>4. VmSpent' BY <1>4, <2>3 DEF VmSpent
  <2>5. Secured' BY <1>2, <2>1, <2>2, CalmSame DEF Secured, Dry, Cut, Roll
  <2>6. Carrying' BY <2>1, <2>2, <2>3, <2>4, CalmSame DEF Carrying
  <2>7. op'.token <= past.newest BY <2>2, TokenBound
  <2>q. QED BY <2>1, <2>5, <2>6, <2>7, CalmData DEF DataInv
<1>5. CASE To("uResume") /\ db' = [db EXCEPT ![Mac].token = past.newest]
           /\ vm' = [vm EXCEPT !.revoked = TRUE]
  <2>1. /\ vm'.role = vm.role /\ vm'.busy = vm.busy /\ vm'.revoked = TRUE
        /\ UNCHANGED <<mac, notes, locks, writes, past>>
    BY <1>1, <1>5 DEF CheckRan, VmState
  <2>2. db'[Mac].rows = db[Mac].rows /\ db'[Mac].token = past.newest /\ db'[Vm] = db[Vm]
    BY <1>1, <1>5, CloudAssumption DEF DbState
  <2>3. BringingHome' = BringingHome /\ Away' = Away BY <2>1 DEF BringingHome, Away
  <2>4. ~Away BY <1>2 DEF Away
  <2>5. MacHasAll' /\ MacFresh' /\ VmSpent'
    BY <2>1, <2>2, <2>4
       DEF DataInv, DataPlace, Owed, MacHasAll, MacFresh, VmSpent
  <2>6. op'.pc = "uResume" /\ op'.token = op.token BY <1>5, Moved
  <2>7. DataPlace' BY <2>3, <2>4, <2>5 DEF DataPlace
  <2>8. TokenPlace' BY <1>2, <2>1, <2>5 DEF TokenPlace
  <2>9. past.newest \in Nat BY DEF IInv, TypeOK
  <2>10. Tokens' BY <2>1, <2>2, <2>6, <2>9, TokenBound DEF DataInv, Tokens
  <2>11. Secured' BY <1>2, <2>1, <2>3, <2>6 DEF Secured, Dry, Cut, Roll
  <2>12. Carrying' BY <2>5, <2>6 DEF Carrying
  <2>q. QED BY <2>7, <2>8, <2>10, <2>11, <2>12 DEF DataInv
<1>q. QED BY <1>3, <1>4, <1>5 DEF CheckRan

-----------------------------------------------------------------------------
(* Nothing is lost, and no spent token presented                           *)

LEMMA DataAtStart == Init => DataInv
<1> SUFFICES ASSUME Init PROVE DataInv OBVIOUS
<1>1. op.pc = "idle" /\ op.token = 0 BY NoOpFacts DEF Init
<1>2. db[Mac] = Empty /\ db[Vm] = Empty BY DEF Init
<1>3. ~BringingHome /\ ~Away BY DEF Init, BringingHome, Away
<1>4. MacFresh /\ VmFresh BY <1>2 DEF Init, MacFresh, VmFresh, Empty
<1>5. Tokens BY <1>1, <1>2 DEF Init, Tokens, Empty
<1>6. MacHasAll BY DEF Init, Owed, MacHasAll
<1>7. DataPlace BY <1>3, <1>4, <1>6 DEF DataPlace
<1>8. TokenPlace BY <1>4 DEF Init, TokenPlace, VmSpent
<1>9. Secured BY <1>1 DEF Secured, Dry, Cut, Roll, AwayPcs, Unlock
<1>10. Carrying BY <1>1 DEF Carrying
<1>q. QED BY <1>5, <1>7, <1>8, <1>9, <1>10 DEF DataInv

LEMMA CommandData ==
  ASSUME IInv, DataInv, Command
  PROVE  DataInv'
<1>1. CASE DryRunStep
  <2>1. CASE Snapshot("dSnapshot", "dStopVm") BY <2>1, SnapshotData
  <2>2. CASE StopVm("dStopVm", "dHold") BY <2>2, DryRetains, StopVmData
  <2>3. CASE HoldVm("dHold", "dPush") BY <2>3, HoldVmData
  <2>4. CASE Push("dPush", "dInstall") BY <2>4, PushData
  <2>5. CASE Install("dInstall", "dStart", op.token) BY <2>5, InstallData
  <2>6. CASE StartVm("dStart", "dVerify") BY <2>6, DryRetains, StartVmData
  <2>7. CASE InstallRefused \/ (At("dVerify") /\ Ends /\ UNCHANGED vm /\ OnVm)
    BY <2>7, LooksData
  <2>q. QED BY <1>1, <2>1, <2>2, <2>3, <2>4, <2>5, <2>6, <2>7 DEF DryRunStep
<1>2. CASE CutoverStep
  <2>1. CASE LockMac \/ MarkPrimary \/ NoteRan \/ Park
    BY <2>1, LockMacData, MarkPrimaryData, NoteRanData, ParkData
  <2>2. CASE PauseMac \/ StopMac \/ Disable BY <2>2, MacStepsData
  <2>3. CASE Drain \/ Confirm \/ Verify \/ VerifyTimesOut BY <2>3, LooksData
  <2>4. CASE ResumeVm \/ ParkStop BY <2>4, VmStepsData
  <2>5. CASE Snapshot("snapshot", "stopVm") BY <2>5, SnapshotData
  <2>6. CASE StopVm("stopVm", "hold") BY <2>6, CutRetains, StopVmData
  <2>7. CASE HoldVm("hold", "push") BY <2>7, HoldVmData
  <2>8. CASE Push("push", "install") BY <2>8, PushData
  <2>9. CASE Install("install", "mark", Carried) BY <2>9, InstallData
  <2>10. CASE StartVm("start", "noteRan") BY <2>10, CutRetains, StartVmData
  <2>q. QED
    BY <1>2, <2>1, <2>2, <2>3, <2>4, <2>5, <2>6, <2>7, <2>8, <2>9, <2>10 DEF CutoverStep
<1>3. CASE RollbackStep
  <2>1. CASE RecordRollback \/ PullSnapshot \/ InstallOnMac
    BY <2>1, RecordRollbackData, PullSnapshotData, InstallOnMacData
  <2>2. CASE HoldVm("rHold", "rPause") BY <2>2, HoldVmData
  <2>3. CASE PauseVm BY <2>3, VmStepsData
  <2>4. CASE \/ FindGroup \/ DrainVm \/ ConfirmVm \/ ConfirmVmTimesOut \/ NoMacDb
             \/ RConfirm
    BY <2>4, LooksData
  <2>5. CASE StopVm("rStopVm", "rConfirmVm") BY <2>5, RollRetains, StopVmData
  <2>6. CASE \/ PullUserData \/ MoveAside \/ ResumeMac("rResume", "rEnable")
             \/ Enable("rEnable", "rUnlock") \/ StartMac("rStart")
    BY <2>6, MacStepsData
  <2>7. CASE UnlockMac("rUnlock", "rForget") BY <2>7, UnlockMacData
  <2>8. CASE Forget("rForget", "rStart") BY <2>8, ForgetData
  <2>q. QED BY <1>3, <2>1, <2>2, <2>3, <2>4, <2>5, <2>6, <2>7, <2>8 DEF RollbackStep
<1>4. CASE UnlockStep
  BY <1>4, CheckRanData, MacStepsData, UnlockMacData, ForgetData DEF UnlockStep
<1>q. QED BY <1>1, <1>2, <1>3, <1>4 DEF Command

LEMMA DataStep == IInv /\ DataInv /\ [Next]_vars => DataInv'
<1> SUFFICES ASSUME IInv, DataInv, [Next]_vars PROVE DataInv' OBVIOUS
<1>1. CASE Machines
  <2>1. CASE \E h \in {Mac, Vm}, k \in {"job", "child", "session"} : Write(h, k)
    BY <2>1, WriteData
  <2>q. QED BY <1>1, <2>1, MachinesCalm DEF Machines
<1>2. CASE \/ MacReboots \/ VmReboots \/ MacDaemonDies \/ VmDaemonDies \/ Interrupted
           \/ StaleLockDeleted \/ StartedByHand \/ VmStartedByHand \/ DbPutBack
  BY <1>2, MachinesCalm
<1>3. CASE StepFails BY <1>3, StepFailsData
<1>4. CASE BeginDryRun \/ BeginCutover \/ BeginRollback BY <1>4, BeginAnyData
<1>5. CASE Command BY <1>5, CommandData
<1>6. CASE UNCHANGED vars
  <2>1. Calm /\ op' = op BY <1>6 DEF vars, Calm
  <2>q. QED BY <1>6, <2>1, BesideKeeps DEF vars
<1>q. QED BY <1>1, <1>2, <1>3, <1>4, <1>5, <1>6 DEF Next

-----------------------------------------------------------------------------
(* The Mac's database is out of its place only while the VM's is on its    *)
(* way home, and back in it before the Mac is resumed.                     *)
Placed ==
    /\ mac.aside => BringingHome
    /\ op.pc \in ReturnedPcs => ~mac.aside

(* A step that moves nothing aside and does not come to resume the Mac.    *)
Settled ==
    /\ mac'.aside => mac.aside
    /\ BringingHome => BringingHome'
    /\ op'.pc \in ReturnedPcs => op.pc \in ReturnedPcs

LEMMA SettledPlaced == Placed /\ Settled => Placed'
BY DEF Placed, Settled

(* Steps of the machines, and what the operator does by hand.              *)
LEMMA MachinesSettled ==
  ASSUME IInv,
         \/ Machines \/ MacReboots \/ VmReboots \/ MacDaemonDies \/ VmDaemonDies
         \/ Interrupted \/ StepFails \/ StaleLockDeleted \/ StartedByHand
         \/ VmStartedByHand \/ DbPutBack \/ UNCHANGED vars
  PROVE  Settled
<1>1. mac \in MacState BY DEF IInv, TypeOK
<1>2. /\ mac'.aside => mac.aside
      /\ mac'.lock = mac.lock
      /\ notes' = notes
  <2>1. CASE Machines
    BY <1>1, <2>1 DEF MacState, Machines, MacBoots, VmBoots, SessionOpens, MacStartsWork,
       VmStartsWork, VmWorkEnds, MacWorkEnds, Write
  <2>2. CASE MacReboots \/ MacDaemonDies \/ StartedByHand \/ DbPutBack
    BY <1>1, <2>2 DEF MacState, MacReboots, MacDaemonDies, StartedByHand, DbPutBack
  <2>3. CASE \/ VmReboots \/ VmDaemonDies \/ Interrupted \/ StepFails
             \/ StaleLockDeleted \/ VmStartedByHand \/ UNCHANGED vars
    BY <2>3 DEF VmReboots, VmDaemonDies, Interrupted, StepFails, StaleLockDeleted,
       VmStartedByHand, vars
  <2>q. QED BY <2>1, <2>2, <2>3
<1>3. op'.pc \in {op.pc, "idle", "park"}
  <2>1. CASE StepFails BY <2>1, Fails DEF IInv, StepFails, Fault, TypeOK
  <2>2. CASE ~StepFails
    BY <2>2, IdleOp DEF Machines, MacBoots, VmBoots, SessionOpens, MacStartsWork,
       VmStartsWork, VmWorkEnds, MacWorkEnds, Write, MacReboots, VmReboots, MacDaemonDies,
       VmDaemonDies, Interrupted, StaleLockDeleted, StartedByHand, VmStartedByHand,
       DbPutBack, vars
  <2>q. QED BY <2>1, <2>2
<1>q. QED BY <1>2, <1>3 DEF Settled, BringingHome

LEMMA BeginSettled ==
  ASSUME IInv, BeginDryRun \/ BeginCutover \/ BeginRollback
  PROVE  Settled
<1>1. UNCHANGED <<mac, notes>>
  BY DEF BeginDryRun, BeginCutover, BeginRollback, Begin
<1>2. op'.pc \in {"dSnapshot", "lock", "record", "uCheck"}
  BY DEF BeginDryRun, BeginCutover, BeginRollback, Begin, NoOp
<1>q. QED BY <1>1, <1>2 DEF Settled, BringingHome

(* Where a step of the command goes.                                       *)
LEMMA Goes ==
  ASSUME IInv, NEW next, To(next) \/ Remotely(next) \/ Failed \/ Ends
  PROVE  op'.pc \in {next, "idle", "park"}
BY IdleOp DEF IInv, TypeOK, OpState, To, Remotely, Failed, Ends

(* A step that neither moves the database nor changes who is coming home.  *)
LEMMA GoesSettled ==
  ASSUME IInv, NEW next, To(next) \/ Remotely(next) \/ Failed \/ Ends,
         next \in ReturnedPcs => op.pc \in ReturnedPcs,
         mac'.aside = mac.aside, mac'.lock = mac.lock, notes'.rollback = notes.rollback
  PROVE  Settled
BY Goes DEF Settled, BringingHome

LEMMA DryRunSettled ==
  ASSUME IInv, DryRunStep
  PROVE  Settled
<1> USE DEF OnVm
<1>1. CASE Snapshot("dSnapshot", "dStopVm")
  <2>1. op'.pc = "dStopVm" /\ UNCHANGED <<mac, notes>>
    BY <1>1 DEF Snapshot, IInv, TypeOK, OpState
  <2>q. QED BY <2>1 DEF Settled, BringingHome
<1>2. CASE \/ StopVm("dStopVm", "dHold") \/ HoldVm("dHold", "dPush")
           \/ Push("dPush", "dInstall") \/ Install("dInstall", "dStart", op.token)
           \/ StartVm("dStart", "dVerify") \/ InstallRefused
           \/ At("dVerify") /\ Ends /\ UNCHANGED vm /\ OnVm
  <2>1. UNCHANGED <<mac, notes>>
    BY <1>2 DEF StopVm, HoldVm, Push, Install, StartVm, InstallRefused
  <2>2. \E next \in {"dHold", "dPush", "dInstall", "dStart", "dVerify"} :
            To(next) \/ Remotely(next) \/ Failed \/ Ends
    BY <1>2 DEF StopVm, HoldVm, Push, Install, StartVm, InstallRefused
  <2>q. QED BY <2>1, <2>2, GoesSettled
<1>q. QED BY <1>1, <1>2 DEF DryRunStep

LEMMA CutoverSettled ==
  ASSUME IInv, CutoverStep
  PROVE  Settled
<1>1. mac \in MacState /\ notes \in NotesState BY DEF IInv, TypeOK
<1>2. CASE LockMac
  <2>1. op'.pc = "pause" BY <1>2 DEF LockMac, IInv, TypeOK, OpState
  <2>2. mac'.aside = mac.aside BY <1>1, <1>2 DEF LockMac, MacState
  <2>3. BringingHome => BringingHome' BY <1>2 DEF LockMac, BringingHome
  <2>q. QED BY <2>1, <2>2, <2>3 DEF Settled
<1>3. CASE Snapshot("snapshot", "stopVm")
  <2>1. op'.pc = "stopVm" /\ UNCHANGED <<mac, notes>>
    BY <1>3 DEF Snapshot, IInv, TypeOK, OpState
  <2>q. QED BY <2>1 DEF Settled, BringingHome
<1>4. CASE PauseMac \/ Drain \/ StopMac \/ Disable \/ Confirm
  <2>1. mac'.aside = mac.aside /\ mac'.lock = mac.lock /\ notes' = notes
    BY <1>1, <1>4 DEF MacState, PauseMac, Drain, StopMac, Disable, Confirm, OnMac
  <2>2. \E next \in {"drain", "stopMac", "disable", "confirm", "snapshot"} : To(next)
    BY <1>4 DEF PauseMac, Drain, StopMac, Disable, Confirm
  <2>q. QED BY <2>1, <2>2, GoesSettled
<1>5. CASE \/ StopVm("stopVm", "hold") \/ HoldVm("hold", "push") \/ Push("push", "install")
           \/ Install("install", "mark", Carried) \/ MarkPrimary
           \/ StartVm("start", "noteRan") \/ NoteRan \/ ResumeVm \/ Verify
           \/ VerifyTimesOut \/ Park \/ ParkStop
  <2>1. mac' = mac /\ notes'.rollback = notes.rollback
    BY <1>1, <1>5 DEF NotesState, OnVm, StopVm, HoldVm, Push, Install, MarkPrimary, StartVm,
       NoteRan, ResumeVm, Verify, VerifyTimesOut, Park, ParkStop
  <2>2. \E next \in {"hold", "push", "install", "mark", "start", "noteRan", "resume",
                     "verify", "parkStop"} : To(next) \/ Remotely(next) \/ Failed \/ Ends
    BY <1>5 DEF StopVm, HoldVm, Push, Install, MarkPrimary, StartVm, NoteRan, ResumeVm,
       Verify, VerifyTimesOut, Park, ParkStop
  <2>q. QED BY <2>1, <2>2, GoesSettled
<1>q. QED BY <1>2, <1>3, <1>4, <1>5 DEF CutoverStep

(* Homeward: nothing is forgotten before the Mac is unlocked, and the Mac  *)
(* is unlocked with its database in place.                                 *)
LEMMA HomePlaced ==
  ASSUME IInv, DataInv, Placed, RollbackStep \/ UnlockStep
  PROVE  Placed'
<1>1. mac \in MacState /\ notes \in NotesState /\ op \in OpState
  BY DEF IInv, TypeOK
<1>2. CASE RecordRollback
  <2>1. op.lockAt = mac.lock BY <1>2 DEF RecordRollback, At, DataInv, Secured
  <2>2. op'.pc = "rHold" BY <1>2, Moved DEF RecordRollback
  <2>3. mac' = mac /\ notes'.rollback = mac.lock
    BY <1>1, <1>2, <2>1 DEF RecordRollback, NotesState
  <2>q. QED BY <2>2, <2>3, SettledPlaced DEF Settled, BringingHome
<1>3. CASE PullSnapshot
  <2>1. op'.pc = "rPull" /\ UNCHANGED <<mac, notes>> BY <1>1, <1>3 DEF PullSnapshot, OpState
  <2>q. QED BY <2>1, SettledPlaced DEF Settled, BringingHome
<1>4. CASE MoveAside
  <2>1. BringingHome BY <1>4 DEF MoveAside, At, DataInv, Secured, Roll
  <2>2. mac'.lock = mac.lock /\ notes' = notes BY <1>1, <1>4 DEF MoveAside, OnMac, MacState
  <2>3. op'.pc = "rMoved" BY <1>4, Moved DEF MoveAside
  <2>q. QED BY <2>1, <2>2, <2>3 DEF Placed, BringingHome
<1>5. CASE InstallOnMac
  <2>1. mac'.aside = FALSE BY <1>1, <1>5 DEF InstallOnMac, MacState
  <2>q. QED BY <2>1 DEF Placed
<1>6. CASE UnlockMac("rUnlock", "rForget") \/ UnlockMac("uUnlock", "uForget")
  <2>1. ~mac.aside
    BY <1>6 DEF UnlockMac, At, Placed, DataInv, Secured, AwayPcs, Unlock
  <2>2. mac'.aside = mac.aside BY <1>1, <1>6 DEF UnlockMac, MacState
  <2>q. QED BY <2>1, <2>2 DEF Placed
<1>7. CASE Forget("rForget", "rStart") \/ Forget("uForget", "uStart")
  <2>1. ~BringingHome BY <1>7 DEF Forget, At, DataInv, Secured, BringingHome
  <2>2. mac' = mac BY <1>7 DEF Forget
  <2>q. QED BY <2>1, <2>2 DEF Placed
<1>8. CASE \/ HoldVm("rHold", "rPause") \/ PauseVm \/ FindGroup \/ DrainVm
           \/ StopVm("rStopVm", "rConfirmVm") \/ ConfirmVm \/ ConfirmVmTimesOut \/ NoMacDb
           \/ RConfirm \/ CheckRan
  <2>1. mac' = mac /\ notes'.rollback = notes.rollback
    BY <1>1, <1>8 DEF NotesState, OnVm, OnMac, HoldVm, PauseVm, FindGroup, DrainVm, StopVm,
       ConfirmVm, ConfirmVmTimesOut, NoMacDb, RConfirm, CheckRan
  <2>2. \E next \in {"rPause", "rGroup", "rDrain", "rStopVm", "rConfirmVm", "rSnapshot",
                     "rInstall", "uResume"} : To(next) \/ Remotely(next) \/ Ends
    BY <1>8 DEF HoldVm, PauseVm, FindGroup, DrainVm, StopVm, ConfirmVm, ConfirmVmTimesOut,
       NoMacDb, RConfirm, CheckRan
  <2>q. QED BY <2>1, <2>2, GoesSettled, SettledPlaced
<1>9. CASE \/ PullUserData \/ ResumeMac("rResume", "rEnable")
           \/ ResumeMac("uResume", "uEnable") \/ Enable("rEnable", "rUnlock")
           \/ Enable("uEnable", "uUnlock") \/ StartMac("rStart") \/ StartMac("uStart")
  <2>1. mac'.aside = mac.aside /\ mac'.lock = mac.lock /\ notes' = notes
    BY <1>1, <1>9 DEF MacState, OnMac, PullUserData, ResumeMac, Enable, StartMac
  <2>2. \/ \E next \in {"rConfirm", "uEnable", "uUnlock"} :
               To(next) \/ Remotely(next) \/ Ends
        \/ \E next \in {"rEnable", "rUnlock"} : To(next) /\ op.pc \in ReturnedPcs
    BY <1>9 DEF PullUserData, ResumeMac, Enable, StartMac, At
  <2>q. QED BY <2>1, <2>2, GoesSettled, SettledPlaced
<1>q. QED
  BY <1>2, <1>3, <1>4, <1>5, <1>6, <1>7, <1>8, <1>9 DEF RollbackStep, UnlockStep

LEMMA PlacedStep == IInv /\ DataInv /\ Placed /\ [Next]_vars => Placed'
<1> SUFFICES ASSUME IInv, DataInv, Placed, [Next]_vars PROVE Placed' OBVIOUS
<1>1. CASE Command
  BY <1>1, DryRunSettled, CutoverSettled, HomePlaced, SettledPlaced DEF Command
<1>2. CASE BeginDryRun \/ BeginCutover \/ BeginRollback
  BY <1>2, BeginSettled, SettledPlaced
<1>3. CASE ~Command /\ ~(BeginDryRun \/ BeginCutover \/ BeginRollback)
  BY <1>3, MachinesSettled, SettledPlaced DEF Next
<1>q. QED BY <1>1, <1>2, <1>3

(* Where the data and the newest token are, at every point of every move,  *)
(* whatever fails, reboots or is interrupted.                              *)
THEOREM DataInductive == Spec => [](IInv /\ DataInv /\ Placed)
<1>1. Init => Placed BY DEF Init, Placed, NoOp
<1>q. QED BY <1>1, InitHolds, StepKeeps, DataAtStart, DataStep, PlacedStep, PTL DEF Spec

(* The host that is free to work has every write of the one that worked    *)
(* before it, except those a parked VM made, and the Mac is never free to  *)
(* work while its database is moved aside (cutover, rollback and park in   *)
(* migrate.ts).                                                            *)
THEOREM NothingIsLost == Spec => []NothingLost
<1>1. IInv /\ DataInv /\ Placed => NothingLost
  <2> SUFFICES ASSUME IInv, DataInv, Placed PROVE NothingLost OBVIOUS
  <2>1. MacMayWork => MacHasAll
    BY UnlockedIsHome DEF MacMayWork, DataInv, DataPlace
  <2>2. VmMayWork => VmHasAll
    BY VmWorksAsPrimary DEF DataInv, DataPlace, Away
  <2>3. MacMayWork => ~mac.aside BY UnlockedIsHome DEF MacMayWork, Placed
  <2>q. QED BY <2>1, <2>2, <2>3 DEF NothingLost, MacHasAll, VmHasAll, Owed
<1>q. QED BY <1>1, DataInductive, PTL

(* ... and the newest token of the OAuth family, unless a new login has    *)
(* replaced the family (the token check of rollback, carry-oauth).         *)
THEOREM TokensAreFresh == Spec => []TokenFresh
<1>1. IInv /\ DataInv => TokenFresh
  <2> SUFFICES ASSUME IInv, DataInv PROVE TokenFresh OBVIOUS
  <2>1. MacMayWork => MacFresh BY DEF MacMayWork, DataInv, TokenPlace
  <2>2. VmMayWork => VmFresh
    BY VmWorksAsPrimary DEF DataInv, DataPlace, Away
  <2>q. QED BY <2>1, <2>2 DEF TokenFresh, MacFresh, VmFresh
<1>q. QED BY <1>1, DataInductive, PTL
=============================================================================
