--------------------------- MODULE AutoLandProofs ---------------------------
(***************************************************************************)
(* Theorems about AutoLand, for any fixes, edits, overlaps and bounds, when*)
(* nobody commits between a merge and the rev-parse that follows it.       *)
(***************************************************************************)
EXTENDS AutoLand, TLAPS

OneLanding ==
    \A f, g \in Fixes : pc[f] \notin {"idle", "over"} /\ pc[g] \notin {"idle", "over"}
                        => f = g

(* The commit on record is the merge of the fix, as long as a step may     *)
(* still revert it.                                                        *)
Settled == {"build", "unmerge", "restart", "look", "again", "undo"}
Recorded ==
    \A f \in Fixes : /\ pc[f] = "revparse" => tip = {f}
                     /\ pc[f] \in Settled => commit[f] = {f}

(* A fix is not on main before its merge and after it was taken out, and   *)
(* not in dist/ unless it was merged or the rebuild is still to come.      *)
Unmerged(f) ==
    \/ pc[f] \in {"idle", "gate", "suite", "merge"}
    \/ pc[f] \in {"over", "bounce"} /\ verdict[f] \in {"held", "reverted"}
Out(f) == Unmerged(f) \/ pc[f] \in {"rebuild", "undone"}
OutOfMain == \A f \in Fixes : Out(f) => f \notin main
OutOfDist == \A f \in Fixes : Unmerged(f) => f \notin dist

IInv == TypeOK /\ OneLanding /\ Recorded /\ OutOfMain /\ OutOfDist

-----------------------------------------------------------------------------
(* The steps of a landing                                                  *)

LEMMA BeginKeeps ==
  ASSUME IInv, NEW f \in Fixes, Begin(f)
  PROVE  IInv'
<1>1. TypeOK'
  BY LandAssumption
     DEF IInv, Begin, Goes, Ends, checkout, TypeOK, Changes, Verdicts, OnMac,
         OnProbation
<1>2. OneLanding'
  BY LandAssumption DEF IInv, Begin, Goes, Ends, checkout, OneLanding, TypeOK
<1>3. Recorded'
  BY LandAssumption
     DEF IInv, Begin, Goes, Ends, checkout, Recorded, Settled, OneLanding, TypeOK
<1>4. OutOfMain'
  BY LandAssumption
     DEF IInv, Begin, Goes, Ends, checkout, OutOfMain, Recorded, Settled, Out,
         Unmerged, OneLanding, TypeOK
<1>5. OutOfDist'
  BY LandAssumption
     DEF IInv, Begin, Goes, Ends, checkout, OutOfDist, OutOfMain, Out, Unmerged,
         OneLanding, TypeOK, Changes
<1>q. QED BY <1>1, <1>2, <1>3, <1>4, <1>5 DEF IInv

LEMMA GateHoldsKeeps ==
  ASSUME IInv, NEW f \in Fixes, GateHolds(f)
  PROVE  IInv'
<1>1. TypeOK'
  BY LandAssumption
     DEF IInv, GateHolds, Goes, Ends, checkout, TypeOK, Changes, Verdicts, OnMac,
         OnProbation
<1>2. OneLanding'
  BY LandAssumption DEF IInv, GateHolds, Goes, Ends, checkout, OneLanding, TypeOK
<1>3. Recorded'
  BY LandAssumption
     DEF IInv, GateHolds, Goes, Ends, checkout, Recorded, Settled, OneLanding, TypeOK
<1>4. OutOfMain'
  BY LandAssumption
     DEF IInv, GateHolds, Goes, Ends, checkout, OutOfMain, Recorded, Settled, Out,
         Unmerged, OneLanding, TypeOK
<1>5. OutOfDist'
  BY LandAssumption
     DEF IInv, GateHolds, Goes, Ends, checkout, OutOfDist, OutOfMain, Out, Unmerged,
         OneLanding, TypeOK, Changes
<1>q. QED BY <1>1, <1>2, <1>3, <1>4, <1>5 DEF IInv

LEMMA GateReadsKeeps ==
  ASSUME IInv, NEW f \in Fixes, GateReads(f)
  PROVE  IInv'
<1>1. TypeOK'
  BY LandAssumption
     DEF IInv, GateReads, Goes, Ends, checkout, TypeOK, Changes, Verdicts, OnMac,
         OnProbation
<1>2. OneLanding'
  BY LandAssumption DEF IInv, GateReads, Goes, Ends, checkout, OneLanding, TypeOK
<1>3. Recorded'
  BY LandAssumption
     DEF IInv, GateReads, Goes, Ends, checkout, Recorded, Settled, OneLanding, TypeOK
<1>4. OutOfMain'
  BY LandAssumption
     DEF IInv, GateReads, Goes, Ends, checkout, OutOfMain, Recorded, Settled, Out,
         Unmerged, OneLanding, TypeOK
<1>5. OutOfDist'
  BY LandAssumption
     DEF IInv, GateReads, Goes, Ends, checkout, OutOfDist, OutOfMain, Out, Unmerged,
         OneLanding, TypeOK, Changes
<1>q. QED BY <1>1, <1>2, <1>3, <1>4, <1>5 DEF IInv

LEMMA SuitePassesKeeps ==
  ASSUME IInv, NEW f \in Fixes, SuitePasses(f)
  PROVE  IInv'
<1>1. TypeOK'
  BY LandAssumption
     DEF IInv, SuitePasses, Goes, Ends, checkout, TypeOK, Changes, Verdicts, OnMac,
         OnProbation
<1>2. OneLanding'
  BY LandAssumption DEF IInv, SuitePasses, Goes, Ends, checkout, OneLanding, TypeOK
<1>3. Recorded'
  BY LandAssumption
     DEF IInv, SuitePasses, Goes, Ends, checkout, Recorded, Settled, OneLanding,
         TypeOK
<1>4. OutOfMain'
  BY LandAssumption
     DEF IInv, SuitePasses, Goes, Ends, checkout, OutOfMain, Recorded, Settled, Out,
         Unmerged, OneLanding, TypeOK
<1>5. OutOfDist'
  BY LandAssumption
     DEF IInv, SuitePasses, Goes, Ends, checkout, OutOfDist, OutOfMain, Out,
         Unmerged, OneLanding, TypeOK, Changes
<1>q. QED BY <1>1, <1>2, <1>3, <1>4, <1>5 DEF IInv

LEMMA MergeKeeps ==
  ASSUME IInv, NEW f \in Fixes, Merge(f)
  PROVE  IInv'
<1>1. TypeOK'
  BY LandAssumption
     DEF IInv, Merge, Goes, Ends, checkout, TypeOK, Changes, Verdicts, OnMac,
         OnProbation
<1>2. OneLanding'
  BY LandAssumption DEF IInv, Merge, Goes, Ends, checkout, OneLanding, TypeOK
<1>3. Recorded'
  BY LandAssumption
     DEF IInv, Merge, Goes, Ends, checkout, Recorded, Settled, OneLanding, TypeOK
<1>4. OutOfMain'
  BY LandAssumption
     DEF IInv, Merge, Goes, Ends, checkout, OutOfMain, Recorded, Settled, Out,
         Unmerged, OneLanding, TypeOK
<1>5. OutOfDist'
  BY LandAssumption
     DEF IInv, Merge, Goes, Ends, checkout, OutOfDist, OutOfMain, Out, Unmerged,
         OneLanding, TypeOK, Changes
<1>q. QED BY <1>1, <1>2, <1>3, <1>4, <1>5 DEF IInv

LEMMA MergeFailsKeeps ==
  ASSUME IInv, NEW f \in Fixes, MergeFails(f)
  PROVE  IInv'
<1>1. TypeOK'
  BY LandAssumption
     DEF IInv, MergeFails, Goes, Ends, checkout, Fault, TypeOK, Changes, Verdicts,
         OnMac, OnProbation
<1>2. OneLanding'
  BY LandAssumption
     DEF IInv, MergeFails, Goes, Ends, checkout, Fault, OneLanding, TypeOK
<1>3. Recorded'
  BY LandAssumption
     DEF IInv, MergeFails, Goes, Ends, checkout, Fault, Recorded, Settled,
         OneLanding, TypeOK
<1>4. OutOfMain'
  BY LandAssumption
     DEF IInv, MergeFails, Goes, Ends, checkout, Fault, OutOfMain, Recorded, Settled,
         Out, Unmerged, OneLanding, TypeOK
<1>5. OutOfDist'
  BY LandAssumption
     DEF IInv, MergeFails, Goes, Ends, checkout, Fault, OutOfDist, OutOfMain, Out,
         Unmerged, OneLanding, TypeOK, Changes
<1>q. QED BY <1>1, <1>2, <1>3, <1>4, <1>5 DEF IInv

LEMMA RevParseKeeps ==
  ASSUME IInv, NEW f \in Fixes, RevParse(f)
  PROVE  IInv'
<1>1. TypeOK'
  BY LandAssumption
     DEF IInv, RevParse, Goes, Ends, checkout, Fault, TypeOK, Changes, Verdicts,
         OnMac, OnProbation
<1>2. OneLanding'
  BY LandAssumption DEF IInv, RevParse, Goes, Ends, checkout, Fault, OneLanding, TypeOK
<1>3. Recorded'
  BY LandAssumption
     DEF IInv, RevParse, Goes, Ends, checkout, Fault, Recorded, Settled, OneLanding,
         TypeOK
<1>4. OutOfMain'
  BY LandAssumption
     DEF IInv, RevParse, Goes, Ends, checkout, Fault, OutOfMain, Recorded, Settled,
         Out, Unmerged, OneLanding, TypeOK
<1>5. OutOfDist'
  BY LandAssumption
     DEF IInv, RevParse, Goes, Ends, checkout, Fault, OutOfDist, OutOfMain, Out,
         Unmerged, OneLanding, TypeOK, Changes
<1>q. QED BY <1>1, <1>2, <1>3, <1>4, <1>5 DEF IInv

LEMMA BuildKeeps ==
  ASSUME IInv, NEW f \in Fixes, Build(f)
  PROVE  IInv'
<1>1. TypeOK'
  BY LandAssumption
     DEF IInv, Build, Goes, Ends, checkout, BuildPasses, BuildFails, Fault, Tree,
         TypeOK, Changes, Verdicts, OnMac, OnProbation
<1>2. OneLanding'
  BY LandAssumption
     DEF IInv, Build, Goes, Ends, checkout, BuildPasses, BuildFails, Fault, Tree,
         OneLanding, TypeOK
<1>3. Recorded'
  BY LandAssumption
     DEF IInv, Build, Goes, Ends, checkout, BuildPasses, BuildFails, Fault, Tree,
         Recorded, Settled, OneLanding, TypeOK
<1>4. OutOfMain'
  BY LandAssumption
     DEF IInv, Build, Goes, Ends, checkout, BuildPasses, BuildFails, Fault, Tree,
         OutOfMain, Recorded, Settled, Out, Unmerged, OneLanding, TypeOK
<1>5. OutOfDist'
  BY LandAssumption
     DEF IInv, Build, Goes, Ends, checkout, BuildPasses, BuildFails, Fault, Tree,
         OutOfDist, OutOfMain, Out, Unmerged, OneLanding, TypeOK, Changes
<1>q. QED BY <1>1, <1>2, <1>3, <1>4, <1>5 DEF IInv

LEMMA UnmergeKeeps ==
  ASSUME IInv, NEW f \in Fixes, Unmerge(f)
  PROVE  IInv'
<1>1. TypeOK'
  <2>1. /\ main' \in SUBSET Changes /\ work' \in SUBSET Edits /\ merging' \in SUBSET Edits
        /\ tip' \in SUBSET Changes /\ dist' \in SUBSET Changes
    BY
       DEF IInv, Unmerge, Reverted, RevertFails, Goes, Ends, Notes, checkout, Fault,
           Without, TypeOK
  <2>2. torn' \in BOOLEAN
    BY
       DEF IInv, Unmerge, Reverted, RevertFails, Goes, Ends, Notes, checkout, Fault,
           Conflicts, TypeOK
  <2>3. /\ pc' \in [Fixes -> {"idle", "over"} \cup OnMac \cup OnProbation]
        /\ verdict' \in [Fixes -> Verdicts]
    BY
       DEF IInv, Unmerge, Reverted, RevertFails, Goes, Ends, Notes, checkout, Fault,
           RevertFailed, TypeOK, Verdicts, OnMac, OnProbation
  <2>4. /\ faults' \in 0 .. MaxFaults
        /\ UNCHANGED <<daemon, held, base, commit, others>>
    BY LandAssumption
       DEF IInv, Unmerge, Reverted, RevertFails, Goes, Ends, Notes, checkout, Fault,
           TypeOK
  <2>q. QED BY <2>1, <2>2, <2>3, <2>4 DEF IInv, TypeOK
<1>2. OneLanding'
  BY LandAssumption
     DEF IInv, Unmerge, Goes, Ends, checkout, Reverted, RevertFails, RevertFailed,
         Conflicts, Without, Fault, OneLanding, TypeOK
<1>3. Recorded'
  BY LandAssumption
     DEF IInv, Unmerge, Goes, Ends, checkout, Reverted, RevertFails, RevertFailed,
         Conflicts, Without, Fault, Recorded, Settled, OneLanding, TypeOK
<1>4. OutOfMain'
  BY LandAssumption
     DEF IInv, Unmerge, Goes, Ends, checkout, Reverted, RevertFails, RevertFailed,
         Conflicts, Without, Fault, OutOfMain, Recorded, Settled, Out, Unmerged,
         OneLanding, TypeOK
<1>5. OutOfDist'
  BY LandAssumption
     DEF IInv, Unmerge, Goes, Ends, checkout, Reverted, RevertFails, RevertFailed,
         Conflicts, Without, Fault, OutOfDist, OutOfMain, Out, Unmerged, OneLanding,
         TypeOK, Changes
<1>q. QED BY <1>1, <1>2, <1>3, <1>4, <1>5 DEF IInv

LEMMA RebuildKeeps ==
  ASSUME IInv, NEW f \in Fixes, Rebuild(f)
  PROVE  IInv'
<1>1. TypeOK'
  BY LandAssumption
     DEF IInv, Rebuild, Goes, Ends, checkout, BuildPasses, BuildFails, Fault, Tree,
         TypeOK, Changes, Verdicts, OnMac, OnProbation
<1>2. OneLanding'
  BY LandAssumption
     DEF IInv, Rebuild, Goes, Ends, checkout, BuildPasses, BuildFails, Fault, Tree,
         OneLanding, TypeOK
<1>3. Recorded'
  BY LandAssumption
     DEF IInv, Rebuild, Goes, Ends, checkout, BuildPasses, BuildFails, Fault, Tree,
         Recorded, Settled, OneLanding, TypeOK
<1>4. OutOfMain'
  BY LandAssumption
     DEF IInv, Rebuild, Goes, Ends, checkout, BuildPasses, BuildFails, Fault, Tree,
         OutOfMain, Recorded, Settled, Out, Unmerged, OneLanding, TypeOK
<1>5. OutOfDist'
  BY LandAssumption
     DEF IInv, Rebuild, Goes, Ends, checkout, BuildPasses, BuildFails, Fault, Tree,
         OutOfDist, OutOfMain, Out, Unmerged, OneLanding, TypeOK, Changes
<1>q. QED BY <1>1, <1>2, <1>3, <1>4, <1>5 DEF IInv

LEMMA RestartKeeps ==
  ASSUME IInv, NEW f \in Fixes, Restart(f)
  PROVE  IInv'
<1>1. TypeOK'
  BY LandAssumption
     DEF IInv, Restart, Goes, Ends, checkout, Relaunched, Fault, TypeOK, Changes,
         Verdicts, OnMac, OnProbation
<1>2. OneLanding'
  BY LandAssumption
     DEF IInv, Restart, Goes, Ends, checkout, Relaunched, Fault, OneLanding, TypeOK
<1>3. Recorded'
  BY LandAssumption
     DEF IInv, Restart, Goes, Ends, checkout, Relaunched, Fault, Recorded, Settled,
         OneLanding, TypeOK
<1>4. OutOfMain'
  BY LandAssumption
     DEF IInv, Restart, Goes, Ends, checkout, Relaunched, Fault, OutOfMain, Recorded,
         Settled, Out, Unmerged, OneLanding, TypeOK
<1>5. OutOfDist'
  BY LandAssumption
     DEF IInv, Restart, Goes, Ends, checkout, Relaunched, Fault, OutOfDist,
         OutOfMain, Out, Unmerged, OneLanding, TypeOK, Changes
<1>q. QED BY <1>1, <1>2, <1>3, <1>4, <1>5 DEF IInv

LEMMA LookKeeps ==
  ASSUME IInv, NEW f \in Fixes, Look(f)
  PROVE  IInv'
<1>1. TypeOK'
  BY LandAssumption
     DEF IInv, Look, Goes, Ends, checkout, Rechecking, TypeOK, Changes, Verdicts,
         OnMac, OnProbation
<1>2. OneLanding'
  BY LandAssumption DEF IInv, Look, Goes, Ends, checkout, Rechecking, OneLanding, TypeOK
<1>3. Recorded'
  BY LandAssumption
     DEF IInv, Look, Goes, Ends, checkout, Rechecking, Recorded, Settled, OneLanding,
         TypeOK
<1>4. OutOfMain'
  BY LandAssumption
     DEF IInv, Look, Goes, Ends, checkout, Rechecking, OutOfMain, Recorded, Settled,
         Out, Unmerged, OneLanding, TypeOK
<1>5. OutOfDist'
  BY LandAssumption
     DEF IInv, Look, Goes, Ends, checkout, Rechecking, OutOfDist, OutOfMain, Out,
         Unmerged, OneLanding, TypeOK, Changes
<1>q. QED BY <1>1, <1>2, <1>3, <1>4, <1>5 DEF IInv

LEMMA LookAgainKeeps ==
  ASSUME IInv, NEW f \in Fixes, LookAgain(f)
  PROVE  IInv'
<1>1. TypeOK'
  BY LandAssumption
     DEF IInv, LookAgain, Goes, Ends, checkout, TypeOK, Changes, Verdicts, OnMac,
         OnProbation
<1>2. OneLanding'
  BY LandAssumption DEF IInv, LookAgain, Goes, Ends, checkout, OneLanding, TypeOK
<1>3. Recorded'
  BY LandAssumption
     DEF IInv, LookAgain, Goes, Ends, checkout, Recorded, Settled, OneLanding, TypeOK
<1>4. OutOfMain'
  BY LandAssumption
     DEF IInv, LookAgain, Goes, Ends, checkout, OutOfMain, Recorded, Settled, Out,
         Unmerged, OneLanding, TypeOK
<1>5. OutOfDist'
  BY LandAssumption
     DEF IInv, LookAgain, Goes, Ends, checkout, OutOfDist, OutOfMain, Out, Unmerged,
         OneLanding, TypeOK, Changes
<1>q. QED BY <1>1, <1>2, <1>3, <1>4, <1>5 DEF IInv

LEMMA UndoKeeps ==
  ASSUME IInv, NEW f \in Fixes, Undo(f)
  PROVE  IInv'
<1>1. TypeOK'
  <2>1. /\ main' \in SUBSET Changes /\ work' \in SUBSET Edits /\ merging' \in SUBSET Edits
        /\ tip' \in SUBSET Changes /\ dist' \in SUBSET Changes
    BY
       DEF IInv, Undo, Reverted, RevertFails, Goes, Ends, Notes, checkout, Fault,
           Without, TypeOK
  <2>2. torn' \in BOOLEAN
    BY
       DEF IInv, Undo, Reverted, RevertFails, Goes, Ends, Notes, checkout, Fault,
           Conflicts, TypeOK
  <2>3. /\ pc' \in [Fixes -> {"idle", "over"} \cup OnMac \cup OnProbation]
        /\ verdict' \in [Fixes -> Verdicts]
    BY
       DEF IInv, Undo, Reverted, RevertFails, Goes, Ends, Notes, checkout, Fault,
           RevertFailed, TypeOK, Verdicts, OnMac, OnProbation
  <2>4. /\ faults' \in 0 .. MaxFaults
        /\ UNCHANGED <<daemon, held, base, commit, others>>
    BY LandAssumption
       DEF IInv, Undo, Reverted, RevertFails, Goes, Ends, Notes, checkout, Fault,
           TypeOK
  <2>q. QED BY <2>1, <2>2, <2>3, <2>4 DEF IInv, TypeOK
<1>2. OneLanding'
  BY LandAssumption
     DEF IInv, Undo, Goes, Ends, checkout, Reverted, RevertFails, Conflicts, Without,
         Fault, Notes, OneLanding, TypeOK
<1>3. Recorded'
  BY LandAssumption
     DEF IInv, Undo, Goes, Ends, checkout, Reverted, RevertFails, Conflicts, Without,
         Fault, Notes, Recorded, Settled, OneLanding, TypeOK
<1>4. OutOfMain'
  BY LandAssumption
     DEF IInv, Undo, Goes, Ends, checkout, Reverted, RevertFails, Conflicts, Without,
         Fault, Notes, OutOfMain, Recorded, Settled, Out, Unmerged, OneLanding,
         TypeOK
<1>5. OutOfDist'
  BY LandAssumption
     DEF IInv, Undo, Goes, Ends, checkout, Reverted, RevertFails, Conflicts, Without,
         Fault, Notes, OutOfDist, OutOfMain, Out, Unmerged, OneLanding, TypeOK,
         Changes
<1>q. QED BY <1>1, <1>2, <1>3, <1>4, <1>5 DEF IInv

LEMMA UndoBuildsKeeps ==
  ASSUME IInv, NEW f \in Fixes, UndoBuilds(f)
  PROVE  IInv'
<1>1. TypeOK'
  BY LandAssumption
     DEF IInv, UndoBuilds, Goes, Ends, checkout, BuildPasses, BuildFails, Fault,
         Notes, Tree, TypeOK, Changes, Verdicts, OnMac, OnProbation
<1>2. OneLanding'
  BY LandAssumption
     DEF IInv, UndoBuilds, Goes, Ends, checkout, BuildPasses, BuildFails, Fault,
         Notes, Tree, OneLanding, TypeOK
<1>3. Recorded'
  BY LandAssumption
     DEF IInv, UndoBuilds, Goes, Ends, checkout, BuildPasses, BuildFails, Fault,
         Notes, Tree, Recorded, Settled, OneLanding, TypeOK
<1>4. OutOfMain'
  BY LandAssumption
     DEF IInv, UndoBuilds, Goes, Ends, checkout, BuildPasses, BuildFails, Fault,
         Notes, Tree, OutOfMain, Recorded, Settled, Out, Unmerged, OneLanding, TypeOK
<1>5. OutOfDist'
  BY LandAssumption
     DEF IInv, UndoBuilds, Goes, Ends, checkout, BuildPasses, BuildFails, Fault,
         Notes, Tree, OutOfDist, OutOfMain, Out, Unmerged, OneLanding, TypeOK,
         Changes
<1>q. QED BY <1>1, <1>2, <1>3, <1>4, <1>5 DEF IInv

LEMMA BounceKeeps ==
  ASSUME IInv, NEW f \in Fixes, Bounce(f)
  PROVE  IInv'
<1>1. TypeOK'
  BY LandAssumption
     DEF IInv, Bounce, Goes, Ends, checkout, Relaunched, Fault, TypeOK, Changes,
         Verdicts, OnMac, OnProbation
<1>2. OneLanding'
  BY LandAssumption
     DEF IInv, Bounce, Goes, Ends, checkout, Relaunched, Fault, OneLanding, TypeOK
<1>3. Recorded'
  BY LandAssumption
     DEF IInv, Bounce, Goes, Ends, checkout, Relaunched, Fault, Recorded, Settled,
         OneLanding, TypeOK
<1>4. OutOfMain'
  BY LandAssumption
     DEF IInv, Bounce, Goes, Ends, checkout, Relaunched, Fault, OutOfMain, Recorded,
         Settled, Out, Unmerged, OneLanding, TypeOK
<1>5. OutOfDist'
  BY LandAssumption
     DEF IInv, Bounce, Goes, Ends, checkout, Relaunched, Fault, OutOfDist, OutOfMain,
         Out, Unmerged, OneLanding, TypeOK, Changes
<1>q. QED BY <1>1, <1>2, <1>3, <1>4, <1>5 DEF IInv

-----------------------------------------------------------------------------
(* The daemon, the operator, the host                                      *)

LEMMA DaemonLoopsKeeps ==
  ASSUME IInv, DaemonLoops
  PROVE  IInv'
<1>1. TypeOK'
  BY LandAssumption
     DEF IInv, DaemonLoops, checkout, landing, Relaunched, TypeOK, Changes, Verdicts,
         OnMac, OnProbation
<1>2. OneLanding'
  BY LandAssumption
     DEF IInv, DaemonLoops, checkout, landing, Relaunched, OneLanding, TypeOK
<1>3. Recorded'
  BY LandAssumption
     DEF IInv, DaemonLoops, checkout, landing, Relaunched, Recorded, Settled,
         OneLanding, TypeOK
<1>4. OutOfMain'
  BY LandAssumption
     DEF IInv, DaemonLoops, checkout, landing, Relaunched, OutOfMain, Recorded,
         Settled, Out, Unmerged, OneLanding, TypeOK
<1>5. OutOfDist'
  BY LandAssumption
     DEF IInv, DaemonLoops, checkout, landing, Relaunched, OutOfDist, OutOfMain, Out,
         Unmerged, OneLanding, TypeOK, Changes
<1>q. QED BY <1>1, <1>2, <1>3, <1>4, <1>5 DEF IInv

LEMMA DaemonSettlesKeeps ==
  ASSUME IInv, DaemonSettles
  PROVE  IInv'
<1>1. TypeOK'
  BY LandAssumption
     DEF IInv, DaemonSettles, checkout, landing, TypeOK, Changes, Verdicts, OnMac,
         OnProbation
<1>2. OneLanding'
  BY LandAssumption DEF IInv, DaemonSettles, checkout, landing, OneLanding, TypeOK
<1>3. Recorded'
  BY LandAssumption
     DEF IInv, DaemonSettles, checkout, landing, Recorded, Settled, OneLanding,
         TypeOK
<1>4. OutOfMain'
  BY LandAssumption
     DEF IInv, DaemonSettles, checkout, landing, OutOfMain, Recorded, Settled, Out,
         Unmerged, OneLanding, TypeOK
<1>5. OutOfDist'
  BY LandAssumption
     DEF IInv, DaemonSettles, checkout, landing, OutOfDist, OutOfMain, Out, Unmerged,
         OneLanding, TypeOK, Changes
<1>q. QED BY <1>1, <1>2, <1>3, <1>4, <1>5 DEF IInv

LEMMA OtherRestartKeeps ==
  ASSUME IInv, OtherRestart
  PROVE  IInv'
<1>1. TypeOK'
  BY LandAssumption
     DEF IInv, OtherRestart, checkout, landing, TypeOK, Changes, Verdicts, OnMac,
         OnProbation
<1>2. OneLanding'
  BY LandAssumption DEF IInv, OtherRestart, checkout, landing, OneLanding, TypeOK
<1>3. Recorded'
  BY LandAssumption
     DEF IInv, OtherRestart, checkout, landing, Recorded, Settled, OneLanding, TypeOK
<1>4. OutOfMain'
  BY LandAssumption
     DEF IInv, OtherRestart, checkout, landing, OutOfMain, Recorded, Settled, Out,
         Unmerged, OneLanding, TypeOK
<1>5. OutOfDist'
  BY LandAssumption
     DEF IInv, OtherRestart, checkout, landing, OutOfDist, OutOfMain, Out, Unmerged,
         OneLanding, TypeOK, Changes
<1>q. QED BY <1>1, <1>2, <1>3, <1>4, <1>5 DEF IInv

LEMMA EditKeeps ==
  ASSUME IInv, NEW e \in Edits, Edit(e)
  PROVE  IInv'
<1>1. TypeOK'
  BY LandAssumption
     DEF IInv, Edit, checkout, landing, TypeOK, Changes, Verdicts, OnMac, OnProbation
<1>2. OneLanding'
  BY LandAssumption DEF IInv, Edit, checkout, landing, OneLanding, TypeOK
<1>3. Recorded'
  BY LandAssumption
     DEF IInv, Edit, checkout, landing, Recorded, Settled, OneLanding, TypeOK
<1>4. OutOfMain'
  BY LandAssumption
     DEF IInv, Edit, checkout, landing, OutOfMain, Recorded, Settled, Out, Unmerged,
         OneLanding, TypeOK
<1>5. OutOfDist'
  BY LandAssumption
     DEF IInv, Edit, checkout, landing, OutOfDist, OutOfMain, Out, Unmerged,
         OneLanding, TypeOK, Changes
<1>q. QED BY <1>1, <1>2, <1>3, <1>4, <1>5 DEF IInv

LEMMA StartMergeKeeps ==
  ASSUME IInv, NEW e \in Edits, StartMerge(e)
  PROVE  IInv'
<1>1. TypeOK'
  BY LandAssumption
     DEF IInv, StartMerge, checkout, landing, TypeOK, Changes, Verdicts, OnMac,
         OnProbation
<1>2. OneLanding'
  BY LandAssumption DEF IInv, StartMerge, checkout, landing, OneLanding, TypeOK
<1>3. Recorded'
  BY LandAssumption
     DEF IInv, StartMerge, checkout, landing, Recorded, Settled, OneLanding, TypeOK
<1>4. OutOfMain'
  BY LandAssumption
     DEF IInv, StartMerge, checkout, landing, OutOfMain, Recorded, Settled, Out,
         Unmerged, OneLanding, TypeOK
<1>5. OutOfDist'
  BY LandAssumption
     DEF IInv, StartMerge, checkout, landing, OutOfDist, OutOfMain, Out, Unmerged,
         OneLanding, TypeOK, Changes
<1>q. QED BY <1>1, <1>2, <1>3, <1>4, <1>5 DEF IInv

LEMMA CommitKeeps ==
  ASSUME IInv, ~Races, Commit
  PROVE  IInv'
<1>1. TypeOK'
  BY LandAssumption
     DEF IInv, Commit, checkout, landing, Undisturbed, TypeOK, Changes, Verdicts,
         OnMac, OnProbation
<1>2. OneLanding'
  BY LandAssumption DEF IInv, Commit, checkout, landing, Undisturbed, OneLanding, TypeOK
<1>3. Recorded'
  BY LandAssumption
     DEF IInv, Commit, checkout, landing, Undisturbed, Recorded, Settled, OneLanding,
         TypeOK
<1>4. OutOfMain'
  BY LandAssumption
     DEF IInv, Commit, checkout, landing, Undisturbed, OutOfMain, Recorded, Settled,
         Out, Unmerged, OneLanding, TypeOK
<1>5. OutOfDist'
  BY LandAssumption
     DEF IInv, Commit, checkout, landing, Undisturbed, OutOfDist, OutOfMain, Out,
         Unmerged, OneLanding, TypeOK, Changes
<1>q. QED BY <1>1, <1>2, <1>3, <1>4, <1>5 DEF IInv

LEMMA ConcludeMergeKeeps ==
  ASSUME IInv, ~Races, ConcludeMerge
  PROVE  IInv'
<1>1. TypeOK'
  BY LandAssumption
     DEF IInv, ConcludeMerge, checkout, landing, Undisturbed, TypeOK, Changes,
         Verdicts, OnMac, OnProbation
<1>2. OneLanding'
  BY LandAssumption
     DEF IInv, ConcludeMerge, checkout, landing, Undisturbed, OneLanding, TypeOK
<1>3. Recorded'
  BY LandAssumption
     DEF IInv, ConcludeMerge, checkout, landing, Undisturbed, Recorded, Settled,
         OneLanding, TypeOK
<1>4. OutOfMain'
  BY LandAssumption
     DEF IInv, ConcludeMerge, checkout, landing, Undisturbed, OutOfMain, Recorded,
         Settled, Out, Unmerged, OneLanding, TypeOK
<1>5. OutOfDist'
  BY LandAssumption
     DEF IInv, ConcludeMerge, checkout, landing, Undisturbed, OutOfDist, OutOfMain,
         Out, Unmerged, OneLanding, TypeOK, Changes
<1>q. QED BY <1>1, <1>2, <1>3, <1>4, <1>5 DEF IInv

LEMMA OperatorBuildsKeeps ==
  ASSUME IInv, OperatorBuilds
  PROVE  IInv'
<1>1. TypeOK'
  BY LandAssumption
     DEF IInv, OperatorBuilds, checkout, landing, Tree, TypeOK, Changes, Verdicts,
         OnMac, OnProbation
<1>2. OneLanding'
  BY LandAssumption
     DEF IInv, OperatorBuilds, checkout, landing, Tree, OneLanding, TypeOK
<1>3. Recorded'
  BY LandAssumption
     DEF IInv, OperatorBuilds, checkout, landing, Tree, Recorded, Settled,
         OneLanding, TypeOK
<1>4. OutOfMain'
  BY LandAssumption
     DEF IInv, OperatorBuilds, checkout, landing, Tree, OutOfMain, Recorded, Settled,
         Out, Unmerged, OneLanding, TypeOK
<1>5. OutOfDist'
  BY LandAssumption
     DEF IInv, OperatorBuilds, checkout, landing, Tree, OutOfDist, OutOfMain, Out,
         Unmerged, OneLanding, TypeOK, Changes
<1>q. QED BY <1>1, <1>2, <1>3, <1>4, <1>5 DEF IInv

LEMMA LockKeeps ==
  ASSUME IInv, Lock
  PROVE  IInv'
<1>1. TypeOK'
  BY LandAssumption
     DEF IInv, Lock, checkout, landing, TypeOK, Changes, Verdicts, OnMac, OnProbation
<1>2. OneLanding'
  BY LandAssumption DEF IInv, Lock, checkout, landing, OneLanding, TypeOK
<1>3. Recorded'
  BY LandAssumption
     DEF IInv, Lock, checkout, landing, Recorded, Settled, OneLanding, TypeOK
<1>4. OutOfMain'
  BY LandAssumption
     DEF IInv, Lock, checkout, landing, OutOfMain, Recorded, Settled, Out, Unmerged,
         OneLanding, TypeOK
<1>5. OutOfDist'
  BY LandAssumption
     DEF IInv, Lock, checkout, landing, OutOfDist, OutOfMain, Out, Unmerged,
         OneLanding, TypeOK, Changes
<1>q. QED BY <1>1, <1>2, <1>3, <1>4, <1>5 DEF IInv

LEMMA UnlockKeeps ==
  ASSUME IInv, Unlock
  PROVE  IInv'
<1>1. TypeOK'
  BY LandAssumption
     DEF IInv, Unlock, checkout, landing, TypeOK, Changes, Verdicts, OnMac,
         OnProbation
<1>2. OneLanding'
  BY LandAssumption DEF IInv, Unlock, checkout, landing, OneLanding, TypeOK
<1>3. Recorded'
  BY LandAssumption
     DEF IInv, Unlock, checkout, landing, Recorded, Settled, OneLanding, TypeOK
<1>4. OutOfMain'
  BY LandAssumption
     DEF IInv, Unlock, checkout, landing, OutOfMain, Recorded, Settled, Out,
         Unmerged, OneLanding, TypeOK
<1>5. OutOfDist'
  BY LandAssumption
     DEF IInv, Unlock, checkout, landing, OutOfDist, OutOfMain, Out, Unmerged,
         OneLanding, TypeOK, Changes
<1>q. QED BY <1>1, <1>2, <1>3, <1>4, <1>5 DEF IInv

LEMMA RebootKeeps ==
  ASSUME IInv, Reboot
  PROVE  IInv'
<1>1. TypeOK'
  BY LandAssumption
     DEF IInv, Reboot, checkout, landing, Fault, Relaunched, TypeOK, Changes,
         Verdicts, OnMac, OnProbation
<1>2. OneLanding'
  BY LandAssumption
     DEF IInv, Reboot, checkout, landing, Fault, Relaunched, OneLanding, TypeOK
<1>3. Recorded'
  BY LandAssumption
     DEF IInv, Reboot, checkout, landing, Fault, Relaunched, Recorded, Settled,
         OneLanding, TypeOK
<1>4. OutOfMain'
  BY LandAssumption
     DEF IInv, Reboot, checkout, landing, Fault, Relaunched, OutOfMain, Recorded,
         Settled, Out, Unmerged, OneLanding, TypeOK
<1>5. OutOfDist'
  BY LandAssumption
     DEF IInv, Reboot, checkout, landing, Fault, Relaunched, OutOfDist, OutOfMain,
         Out, Unmerged, OneLanding, TypeOK, Changes
<1>q. QED BY <1>1, <1>2, <1>3, <1>4, <1>5 DEF IInv

-----------------------------------------------------------------------------
(* The inductive invariant and the theorems                                *)

LEMMA Initially == Init => IInv
<1> SUFFICES ASSUME Init PROVE IInv
  OBVIOUS
<1>1. TypeOK
  <2>1. /\ main \in SUBSET Changes /\ work \in SUBSET Edits /\ merging \in SUBSET Edits
        /\ tip \in SUBSET Changes /\ dist \in SUBSET Changes
        /\ torn \in BOOLEAN /\ held \in BOOLEAN
    BY DEF Init
  <2>2. daemon \in [code : SUBSET Changes, age : {"late", "young", "settled"}]
    BY DEF Init
  <2>3. /\ pc \in [Fixes -> {"idle", "over"} \cup OnMac \cup OnProbation]
        /\ verdict \in [Fixes -> Verdicts]
    BY DEF Init, Verdicts
  <2>4. base \in [Fixes -> SUBSET Changes] /\ commit \in [Fixes -> SUBSET Changes]
    BY DEF Init
  <2>5. others \in 0 .. MaxOthers /\ faults \in 0 .. MaxFaults
    BY LandAssumption DEF Init
  <2>q. QED BY <2>1, <2>2, <2>3, <2>4, <2>5 DEF TypeOK
<1>2. OneLanding /\ Recorded BY DEF Init, OneLanding, Recorded, Settled
<1>3. OutOfMain /\ OutOfDist BY DEF Init, OutOfMain, OutOfDist
<1>q. QED BY <1>1, <1>2, <1>3 DEF IInv

LEMMA Inductive ==
  ASSUME ~Races, IInv, [Next]_vars
  PROVE  IInv'
<1>1. CASE \E f \in Fixes : Begin(f) \/ LandSteps(f)
  BY <1>1, BeginKeeps, GateHoldsKeeps, GateReadsKeeps, SuitePassesKeeps, MergeKeeps,
     MergeFailsKeeps, RevParseKeeps, BuildKeeps, UnmergeKeeps, RebuildKeeps,
     RestartKeeps, LookKeeps, LookAgainKeeps, UndoKeeps, UndoBuildsKeeps,
     BounceKeeps
     DEF LandSteps
<1>2. CASE \E e \in Edits : Edit(e) \/ StartMerge(e)
  BY <1>2, EditKeeps, StartMergeKeeps
<1>3. CASE \/ DaemonLoops \/ DaemonSettles \/ OtherRestart \/ Commit \/ ConcludeMerge
           \/ OperatorBuilds \/ Lock \/ Unlock \/ Reboot
  BY <1>3, DaemonLoopsKeeps, DaemonSettlesKeeps, OtherRestartKeeps, CommitKeeps,
     ConcludeMergeKeeps, OperatorBuildsKeeps, LockKeeps, UnlockKeeps,
     RebootKeeps
<1>4. CASE UNCHANGED vars
  BY <1>4
     DEF IInv, TypeOK, OneLanding, Recorded, OutOfMain, OutOfDist, Out, Unmerged,
         vars
<1>q. QED BY <1>1, <1>2, <1>3, <1>4 DEF Next

LEMMA Invariance ==
  ASSUME ~Races
  PROVE  Spec => []IInv
<1>1. IInv /\ [Next]_vars => IInv' BY Inductive
<1>q. QED BY <1>1, Initially, PTL DEF Spec

(* Every variable has its type.                                            *)
THEOREM LandTypeCorrect ==
  ASSUME ~Races
  PROVE  Spec => []TypeOK
<1>1. IInv => TypeOK BY DEF IInv
<1>q. QED BY <1>1, Invariance, PTL

(* A fix reported as held, or as reverted and rebuilt, is in neither main  *)
(* nor dist/ (autoLand, makeRevert), whatever fails on the way.            *)
THEOREM HeldIsOut ==
  ASSUME ~Races
  PROVE  Spec => []HeldMeansOut
<1>1. IInv => HeldMeansOut BY
   DEF IInv, HeldMeansOut, OutOfMain, OutOfDist, Out, Unmerged
<1>q. QED BY <1>1, Invariance, PTL

-----------------------------------------------------------------------------
(* What a landing leaves alone                                             *)

(* Only a revert takes something off main, and only the fix itself.        *)
LEMMA RevertTakesTheFix ==
  ASSUME IInv, NEW f \in Fixes, pc[f] \in Settled, Reverted(f)
  PROVE  main \cap Edits \subseteq main' /\ work' = work
BY LandAssumption DEF IInv, Recorded, Reverted, Without

LEMMA StepKeepsEdits ==
  ASSUME IInv, [Next]_vars
  PROVE  (main \cup work) \cap Edits \subseteq Tree'
<1>1. CASE \E f \in Fixes : Begin(f) \/ LandSteps(f)
  <2>1. PICK f \in Fixes : Begin(f) \/ LandSteps(f) BY <1>1
  <2>2. CASE Reverted(f) /\ pc[f] \in Settled
    BY <2>2, RevertTakesTheFix DEF Tree
  <2>3. CASE Unmerge(f) \/ Undo(f)
    BY <2>2, <2>3 DEF Unmerge, Undo, RevertFails, Tree, Settled
  <2>4. CASE Build(f) \/ Rebuild(f) \/ UndoBuilds(f)
    BY <2>4 DEF Build, Rebuild, UndoBuilds, BuildPasses, BuildFails, checkout, Tree
  <2>5. CASE Merge(f) \/ MergeFails(f)
    BY <2>5 DEF Merge, MergeFails, Tree
  <2>6. CASE \/ Begin(f) \/ GateHolds(f) \/ GateReads(f) \/ SuitePasses(f) \/ RevParse(f)
             \/ Restart(f) \/ Look(f) \/ LookAgain(f) \/ Bounce(f)
    BY <2>6 DEF Begin, GateHolds, GateReads, SuitePasses, RevParse, Restart, Look,
                LookAgain, Bounce, checkout, Tree
  <2>q. QED BY <2>1, <2>3, <2>4, <2>5, <2>6 DEF LandSteps
<1>2. CASE \/ \E e \in Edits : Edit(e) \/ StartMerge(e)
           \/ Commit \/ ConcludeMerge
  BY <1>2 DEF Edit, StartMerge, Commit, ConcludeMerge, Tree
<1>3. CASE \/ DaemonLoops \/ DaemonSettles \/ OtherRestart \/ OperatorBuilds
           \/ Lock \/ Unlock \/ Reboot
  BY <1>3 DEF DaemonLoops, DaemonSettles, OtherRestart, OperatorBuilds, Lock, Unlock,
              Reboot, checkout, Tree
<1>4. CASE UNCHANGED vars
  BY <1>4 DEF vars, Tree
<1>q. QED BY <1>1, <1>2, <1>3, <1>4 DEF Next

(* Landing and undoing take no edit of the operator, committed or not.     *)
THEOREM EditsStay ==
  ASSUME ~Races
  PROVE  Spec => OperatorsWorkKept
<1>1. IInv /\ [Next]_vars => [(main \cup work) \cap Edits \subseteq Tree']_vars
  BY StepKeepsEdits
<1>q. QED BY <1>1, Invariance, PTL DEF Spec, OperatorsWorkKept
-----------------------------------------------------------------------------
(* The probation absorbs one restart by somebody else.  Of the states of a *)
(* probation this needs, beside IInv, that the build on trial is still all *)
(* on disk (so that a later build holds it, too), that a held Mac and a    *)
(* daemon restarted just before the look cost one of the events of others, *)
(* and what a first look that failed without such an event has seen: code  *)
(* that does not boot.                                                     *)

Probed == {"restart", "look", "again"}
Standing == \A f \in Fixes : pc[f] \in Probed => dist \subseteq Tree
Disturbed == held \/ daemon.age = "late" => others > 0
Doubted ==
    \A f \in Fixes :
        pc[f] = "again" =>
            /\ others = 0 => ~Boots(daemon.code) /\ daemon.code \subseteq dist
            /\ daemon.age = "late" => ~Boots(daemon.code)

PInv == IInv /\ Standing /\ Disturbed /\ Doubted

(* More changes never repair a tree that does not boot.                    *)
LEMMA BadStaysBad ==
  ASSUME NEW small, NEW big, small \subseteq big, ~Boots(small)
  PROVE  ~Boots(big)
BY DEF Boots

(* Who steps is the one landing there is.                                  *)
LEMMA TheOneAtWork ==
  ASSUME IInv, NEW f \in Fixes, LandSteps(f), NEW g \in Fixes,
         pc'[g] \in Probed
  PROVE  g = f
<1>1. pc[f] \notin {"idle", "over"}
  BY DEF LandSteps, GateHolds, GateReads, SuitePasses, Merge, MergeFails, RevParse,
         Build, Unmerge, Rebuild, Restart, Look, LookAgain, Undo, UndoBuilds, Bounce
<1>2. \E where : pc' = [pc EXCEPT ![f] = where]
  <2>1. CASE GateHolds(f) \/ GateReads(f) \/ SuitePasses(f) \/ Merge(f)
             \/ MergeFails(f) \/ RevParse(f) \/ Build(f) \/ Unmerge(f)
    BY <2>1 DEF GateHolds, GateReads, SuitePasses, Merge, MergeFails, RevParse, Build,
                Unmerge, Goes, Ends
  <2>2. CASE Rebuild(f) \/ Restart(f) \/ Look(f) \/ LookAgain(f)
             \/ Undo(f) \/ UndoBuilds(f) \/ Bounce(f)
    BY <2>2 DEF Rebuild, Restart, Look, LookAgain, Undo, UndoBuilds, Bounce, Goes,
                Ends, Notes
  <2>q. QED BY <2>1, <2>2 DEF LandSteps
<1>3. g # f => pc'[g] = pc[g]
  BY <1>2 DEF IInv, TypeOK
<1>q. QED BY <1>1, <1>3 DEF IInv, OneLanding, Probed

LEMMA BeginProbes ==
  ASSUME PInv, NEW f \in Fixes, Begin(f)
  PROVE  (Standing /\ Disturbed /\ Doubted)'
<1>1. \A g \in Fixes : pc'[g] \notin Probed
  BY DEF PInv, IInv, TypeOK, Begin, Goes, Ends, Probed
<1>2. Disturbed'
  BY DEF PInv, Disturbed, Begin
<1>q. QED BY <1>1, <1>2 DEF Standing, Doubted, Probed

(* A landing leaves what others did, and reaches its probation only with a *)
(* build of the whole tree.                                                *)
LEMMA LandingProbes ==
  ASSUME PInv, NEW f \in Fixes, LandSteps(f)
  PROVE  (Standing /\ Disturbed /\ Doubted)'
<1>1. IInv /\ TypeOK
  BY DEF PInv, IInv
<1>2. \A g \in Fixes : pc'[g] \in Probed => g = f
  BY <1>1, TheOneAtWork
<1>3. CASE GateHolds(f) \/ GateReads(f) \/ SuitePasses(f) \/ Merge(f)
           \/ MergeFails(f) \/ RevParse(f) \/ Unmerge(f) \/ Rebuild(f)
           \/ Undo(f) \/ UndoBuilds(f)
  <2>1. pc'[f] \notin Probed
    BY <1>1, <1>3 DEF TypeOK, GateHolds, GateReads, SuitePasses, Merge, MergeFails,
                      RevParse, Unmerge, Rebuild, Undo, UndoBuilds, Goes, Ends, Notes,
                      Probed
  <2>2. UNCHANGED <<held, daemon, others>>
    BY <1>3 DEF GateHolds, GateReads, SuitePasses, Merge, MergeFails, RevParse,
                Unmerge, Rebuild, Undo, UndoBuilds
  <2>q. QED BY <1>2, <2>1, <2>2 DEF PInv, Standing, Disturbed, Doubted, Probed
<1>4. CASE Build(f)
  <2>1. pc'[f] # "again" /\ (pc'[f] \in Probed => dist' = Tree')
    BY <1>1, <1>4 DEF TypeOK, Build, BuildPasses, BuildFails, Goes, checkout, Tree,
                      Probed
  <2>2. UNCHANGED <<held, daemon, others>>
    BY <1>4 DEF Build
  <2>q. QED BY <1>2, <2>1, <2>2 DEF PInv, Standing, Disturbed, Doubted, Probed
<1>5. CASE Restart(f)
  <2>1. pc[f] \in Probed /\ pc'[f] = "look"
    BY <1>1, <1>5 DEF TypeOK, Restart, Goes, Probed
  <2>2. UNCHANGED <<main, work, merging, dist, held, others>>
    BY <1>5 DEF Restart, checkout
  <2>3. UNCHANGED daemon \/ daemon'.age = "young"
    BY <1>5 DEF Restart, Relaunched
  <2>q. QED BY <1>2, <2>1, <2>2, <2>3 DEF PInv, Standing, Disturbed, Doubted, Tree,
                                          Probed
<1>6. CASE Look(f)
  <2>1. pc[f] \in Probed
    BY <1>6 DEF Look, Probed
  <2>2. UNCHANGED <<main, work, merging, dist, held, others>>
    BY <1>6 DEF Look, checkout
  <2>3. daemon'.code = daemon.code /\ (daemon' = daemon \/ daemon'.age = "young")
    BY <1>1, <1>6 DEF TypeOK, Look
  <2>4. Standing' /\ Disturbed'
    BY <1>2, <2>1, <2>2, <2>3 DEF PInv, Standing, Disturbed, Tree, Probed
  <2>5. ASSUME pc'[f] = "again"
        PROVE  daemon'.age = "young" /\ daemon.age # "settled" /\ Waited
    BY <1>1, <1>6, <2>5 DEF TypeOK, Look, Goes, Ends, Healthy, Rechecking
  <2>6. ASSUME pc'[f] = "again", others = 0
        PROVE  ~Boots(daemon.code) /\ daemon.code \subseteq dist
    <3>1. daemon.age = "young" /\ ~held
      BY <1>1, <2>5, <2>6 DEF PInv, Disturbed, TypeOK
    <3>q. QED BY <2>5, <2>6, <3>1 DEF Waited, ComesUp
  <2>7. Doubted'
    BY <1>2, <2>2, <2>3, <2>5, <2>6 DEF Doubted, Boots, Probed
  <2>q. QED BY <2>4, <2>7
<1>7. CASE LookAgain(f)
  <2>1. pc'[f] \notin Probed
    BY <1>1, <1>7 DEF TypeOK, LookAgain, Goes, Ends, Probed
  <2>2. UNCHANGED <<held, others>> /\ (daemon' = daemon \/ daemon'.age = "young")
    BY <1>1, <1>7 DEF TypeOK, LookAgain
  <2>q. QED BY <1>2, <2>1, <2>2 DEF PInv, Standing, Disturbed, Doubted, Probed
<1>8. CASE Bounce(f)
  <2>1. pc'[f] \notin Probed
    BY <1>1, <1>8 DEF TypeOK, Bounce, Goes, Ends, Probed
  <2>2. UNCHANGED <<held, others>> /\ (daemon' = daemon \/ daemon'.age = "young")
    BY <1>8 DEF Bounce, Relaunched
  <2>q. QED BY <1>2, <2>1, <2>2 DEF PInv, Standing, Disturbed, Doubted, Probed
<1>q. QED BY <1>3, <1>4, <1>5, <1>6, <1>7, <1>8 DEF LandSteps

(* A daemon that loops while the probation doubts it runs a build that     *)
(* still holds what did not boot; so does one that somebody restarts.      *)
LEMMA DaemonProbes ==
  ASSUME PInv, MaxOthers <= 1, DaemonLoops \/ DaemonSettles \/ OtherRestart
  PROVE  (Standing /\ Disturbed /\ Doubted)'
<1>1. TypeOK
  BY DEF PInv, IInv
<1>2. UNCHANGED <<main, work, merging, dist, held, pc>>
  BY DEF DaemonLoops, DaemonSettles, OtherRestart, checkout, landing
<1>3. Standing'
  BY <1>2 DEF PInv, Standing, Tree
<1>4. ASSUME NEW f \in Fixes, pc[f] = "again", others = 0
      PROVE  ~Boots(dist)
  BY <1>4, BadStaysBad DEF PInv, Doubted
<1>5. CASE DaemonLoops
  <2>1. daemon'.code = dist /\ daemon'.age = "young" /\ others' = others
    BY <1>5 DEF DaemonLoops, Relaunched
  <2>2. Disturbed'
    BY <1>2, <2>1 DEF PInv, Disturbed
  <2>q. QED BY <1>2, <1>3, <1>4, <2>1, <2>2 DEF Doubted, Boots
<1>6. CASE DaemonSettles
  <2>1. /\ daemon'.code = daemon.code /\ daemon'.age = "settled"
        /\ others' = others
    BY <1>1, <1>6 DEF TypeOK, DaemonSettles
  <2>q. QED BY <1>2, <1>3, <2>1 DEF PInv, Disturbed, Doubted, Boots
<1>7. CASE OtherRestart
  <2>1. daemon'.code = dist /\ others = 0 /\ others' = 1
    BY <1>1, <1>7, LandAssumption DEF TypeOK, OtherRestart
  <2>q. QED BY <1>2, <1>3, <1>4, <2>1 DEF Disturbed, Doubted, Boots
<1>q. QED BY <1>5, <1>6, <1>7

(* What the operator does to the checkout only adds to the tree.           *)
LEMMA OperatorProbes ==
  ASSUME PInv,
         \/ \E e \in Edits : Edit(e) \/ StartMerge(e)
         \/ Commit \/ ConcludeMerge \/ OperatorBuilds
  PROVE  (Standing /\ Disturbed /\ Doubted)'
<1>1. UNCHANGED <<daemon, held, pc, others>>
  BY DEF Edit, StartMerge, Commit, ConcludeMerge, OperatorBuilds, landing
<1>2. /\ Tree \subseteq Tree'
      /\ dist' = dist \/ dist' = Tree'
  BY DEF Edit, StartMerge, Commit, ConcludeMerge, OperatorBuilds, checkout, Tree
<1>3. Standing'
  BY <1>1, <1>2 DEF PInv, Standing
<1>4. Disturbed'
  BY <1>1 DEF PInv, Disturbed
<1>5. ASSUME NEW f \in Fixes, pc[f] = "again"
      PROVE  dist \subseteq dist'
  BY <1>2, <1>5 DEF PInv, Standing, Probed
<1>6. Doubted'
  BY <1>1, <1>5 DEF PInv, Doubted, Boots
<1>q. QED BY <1>3, <1>4, <1>6

LEMMA HostProbes ==
  ASSUME PInv, Lock \/ Unlock \/ Reboot
  PROVE  (Standing /\ Disturbed /\ Doubted)'
<1>1. TypeOK
  BY DEF PInv, IInv
<1>2. CASE Lock
  <2>1. /\ UNCHANGED <<main, work, merging, dist, daemon, pc>>
        /\ others' > 0 /\ \A f \in Fixes : pc[f] \notin Probed
    BY <1>1, <1>2, LandAssumption
       DEF TypeOK, Lock, checkout, landing, OnProbation, Probed
  <2>q. QED BY <2>1 DEF Standing, Disturbed, Doubted, Probed
<1>3. CASE Unlock
  BY <1>3 DEF PInv, Unlock, checkout, landing, Standing, Disturbed, Doubted, Tree,
              Boots
<1>4. CASE Reboot
  <2>1. \A f \in Fixes : pc'[f] \notin Probed
    BY <1>4 DEF Reboot, Probed
  <2>2. UNCHANGED <<held, others>> /\ daemon'.age = "young"
    BY <1>4 DEF Reboot, Relaunched
  <2>q. QED BY <2>1, <2>2 DEF PInv, Standing, Disturbed, Doubted, Probed
<1>q. QED BY <1>2, <1>3, <1>4

LEMMA ProbationInductive ==
  ASSUME ~Races, MaxOthers <= 1, PInv, [Next]_vars
  PROVE  PInv'
<1>1. IInv'
  BY Inductive DEF PInv
<1>2. CASE \E f \in Fixes : Begin(f) \/ LandSteps(f)
  BY <1>1, <1>2, BeginProbes, LandingProbes DEF PInv
<1>3. CASE \/ DaemonLoops \/ DaemonSettles \/ OtherRestart
           \/ \E e \in Edits : Edit(e) \/ StartMerge(e)
           \/ Commit \/ ConcludeMerge \/ OperatorBuilds \/ Lock \/ Unlock \/ Reboot
  BY <1>1, <1>3, DaemonProbes, OperatorProbes, HostProbes DEF PInv
<1>4. CASE UNCHANGED vars
  BY <1>1, <1>4 DEF PInv, vars, Standing, Disturbed, Doubted, Tree, Boots
<1>q. QED BY <1>2, <1>3, <1>4 DEF Next

(* Only a second look that failed gives up, and it has seen a daemon that  *)
(* does not come up, however young.                                        *)
LEMMA GivesUpRightly ==
  ASSUME PInv, [Next]_vars
  PROVE  \A f \in Fixes : pc[f] \in {"look", "again"} /\ pc'[f] = "undo" => ~ComesUp
<1> SUFFICES ASSUME NEW f \in Fixes, pc[f] \in {"look", "again"}, pc'[f] = "undo"
             PROVE  ~ComesUp
  OBVIOUS
<1>1. IInv /\ TypeOK
  BY DEF PInv, IInv
<1>2. LookAgain(f)
  <2>1. CASE \E g \in Fixes : Begin(g) \/ LandSteps(g)
    <3>1. PICK g \in Fixes : Begin(g) \/ LandSteps(g)
      BY <2>1
    <3>2. CASE Begin(g)
      BY <1>1, <3>2 DEF TypeOK, Begin, Goes, Ends
    <3>3. CASE LandSteps(g)
      <4>1. g = f
        <5>1. pc[g] \notin {"idle", "over"}
          BY <3>3 DEF LandSteps, GateHolds, GateReads, SuitePasses, Merge, MergeFails,
                      RevParse, Build, Unmerge, Rebuild, Restart, Look, LookAgain,
                      Undo, UndoBuilds, Bounce
        <5>q. QED BY <1>1, <5>1 DEF IInv, OneLanding
      <4>2. Look(f) \/ LookAgain(f)
        BY <3>3, <4>1 DEF LandSteps, GateHolds, GateReads, SuitePasses, Merge,
                          MergeFails, RevParse, Build, Unmerge, Rebuild, Restart,
                          Undo, UndoBuilds, Bounce
      <4>q. QED BY <1>1, <4>2 DEF TypeOK, Look, Goes, Ends, Rechecking
    <3>q. QED BY <3>1, <3>2, <3>3
  <2>2. CASE \/ DaemonLoops \/ DaemonSettles \/ OtherRestart
             \/ \E e \in Edits : Edit(e) \/ StartMerge(e)
             \/ Commit \/ ConcludeMerge \/ OperatorBuilds \/ Lock \/ Unlock
             \/ UNCHANGED vars
    BY <2>2 DEF DaemonLoops, DaemonSettles, OtherRestart, Edit, StartMerge, Commit,
                ConcludeMerge, OperatorBuilds, Lock, Unlock, landing, vars
  <2>3. CASE Reboot
    BY <1>1, <2>3 DEF TypeOK, Reboot
  <2>q. QED BY <2>1, <2>2, <2>3 DEF Next
<1>3. pc[f] = "again" /\ Waited /\ daemon.age # "settled"
  BY <1>1, <1>2 DEF TypeOK, LookAgain, Ends, Healthy
<1>4. CASE daemon.age = "young"
  BY <1>3, <1>4 DEF Waited
<1>5. CASE daemon.age = "late"
  BY <1>3, <1>5 DEF PInv, Doubted, ComesUp
<1>q. QED BY <1>1, <1>3, <1>4, <1>5 DEF TypeOK

(* A fix whose daemon comes up is not taken out by its probation, where    *)
(* others restart the daemon or move the role once at most (runProbation's *)
(* one re-check): with two such restarts TLC finds it taken out.           *)
THEOREM GoodFixesStay ==
  ASSUME ~Races, MaxOthers <= 1
  PROVE  Spec => GoodFixStays
<1>1. Init => PInv
  BY Initially DEF PInv, Init, Standing, Disturbed, Doubted, Probed
<1>2. PInv /\ [Next]_vars => PInv'
  BY ProbationInductive
<1>3. PInv /\ [Next]_vars
        => [\A f \in Fixes : pc[f] \in {"look", "again"} /\ pc'[f] = "undo"
                             => ~ComesUp]_vars
  BY GivesUpRightly
<1>q. QED BY <1>1, <1>2, <1>3, PTL DEF Spec, GoodFixStays
=============================================================================
