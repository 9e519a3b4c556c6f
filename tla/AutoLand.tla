------------------------------ MODULE AutoLand ------------------------------
(* How a verified fix of K lands without review: a gate in its worktree,   *)
(* the merge into the checkout the operator works in, the build, a restart *)
(* of the daemon and a probation that takes a bad fix out again            *)
(* (agent/auto-land.ts, agent/land-probation.ts and the end of             *)
(* agent/runner-entry.ts).  A tree is the set of changes it holds.         *)
EXTENDS FiniteSets, Integers

CONSTANTS
    Fixes,         \* fixes of K, one run after the other
    Edits,         \* changes of the operator
    Overlaps,      \* pairs <<fix, edit>> that touch a common file
    BadBuild,      \* sets of changes that do not build together
    BadBoot,       \* sets of changes the daemon does not survive together
    Races,         \* may the operator commit between merge and rev-parse?
    Events,        \* what the operator does beside editing
    MaxOthers,     \* bound on restarts by others, and moves
    Faults,        \* kinds of faults allowed
    MaxFaults      \* bound on their number

Changes == Fixes \cup Edits

ASSUME LandAssumption ==
    /\ Fixes \cap Edits = {} /\ IsFiniteSet(Changes)
    /\ Overlaps \subseteq Fixes \X Edits
    /\ BadBuild \subseteq SUBSET Changes /\ BadBoot \subseteq SUBSET Changes
    /\ Races \in BOOLEAN /\ Events \subseteq {"merge", "move", "build"}
    /\ MaxOthers \in Nat /\ MaxFaults \in Nat
    /\ Faults \subseteq {"git", "revparse", "build", "restart", "reboot"}

VARIABLES
    main,       \* changes committed in the checkout
    work,       \* uncommitted edits of the operator
    merging,    \* edits of a merge the operator has not concluded
    torn,       \* is a revert stuck on a conflict?
    tip,        \* what `git revert -m 1` of HEAD would take out
    dist,       \* the tree the last build was of
    daemon,     \* the code the daemon runs and its age
    held,       \* is the cloud role mac-locked?
    pc,         \* where the landing of a fix is
    base,       \* the tree a fix was made from
    commit,     \* like tip, of the commit the landing recorded
    verdict,    \* what has been reported of a fix
    others,     \* restarts by others, and moves
    faults

checkout == <<main, work, merging, torn, tip>>
landing == <<pc, base, commit, verdict>>
vars == <<main, work, merging, torn, tip, dist, daemon, held, pc, base,
          commit, verdict, others, faults>>

OnMac == {"gate", "suite", "merge", "revparse", "build", "unmerge", "rebuild"}
OnProbation == {"restart", "look", "again", "undo", "undone", "bounce"}
Verdicts == {"none", "held", "kept", "stale", "attention", "passed",
             "reverted", "unreported", "lost"}

TypeOK ==
    /\ main \in SUBSET Changes /\ work \in SUBSET Edits
    /\ merging \in SUBSET Edits /\ torn \in BOOLEAN
    /\ tip \in SUBSET Changes /\ dist \in SUBSET Changes
    /\ daemon \in [code : SUBSET Changes, age : {"late", "young", "settled"}]
    /\ held \in BOOLEAN
    /\ pc \in [Fixes -> {"idle", "over"} \cup OnMac \cup OnProbation]
    /\ base \in [Fixes -> SUBSET Changes]
    /\ commit \in [Fixes -> SUBSET Changes]
    /\ verdict \in [Fixes -> Verdicts]
    /\ others \in 0 .. MaxOthers /\ faults \in 0 .. MaxFaults

Init ==
    /\ main = {} /\ work = {} /\ merging = {} /\ torn = FALSE /\ tip = {}
    /\ dist = {} /\ daemon = [code |-> {}, age |-> "settled"]
    /\ held = FALSE
    /\ pc = [f \in Fixes |-> "idle"]
    /\ base = [f \in Fixes |-> {}] /\ commit = [f \in Fixes |-> {}]
    /\ verdict = [f \in Fixes |-> "none"]
    /\ others = 0 /\ faults = 0

Fault(kind) == kind \in Faults /\ faults < MaxFaults /\ faults' = faults + 1

Tree == main \cup work \cup merging    \* what is on disk
Builds(tree) == \A bad \in BadBuild : ~(bad \subseteq tree)
Boots(tree) == \A bad \in BadBoot : ~(bad \subseteq tree)
Overlapping(fixes, edits) == \E f \in fixes, e \in edits : <<f, e>> \in Overlaps

Goes(f, where) == pc' = [pc EXCEPT ![f] = where] /\ UNCHANGED verdict
Ends(f, report) ==
    /\ pc' = [pc EXCEPT ![f] = "over"]
    /\ verdict' = [verdict EXCEPT ![f] = report]

-----------------------------------------------------------------------------
(* git and the build                                                       *)

(* A revert wants an index without a merge or a revert in progress, a merge*)
(* commit, and files the operator is not at work in.                       *)
CanRevert(f) ==
    /\ commit[f] # {} /\ merging = {} /\ ~torn
    /\ ~Overlapping(commit[f] \cap Fixes, work \cup (main \ base[f]))

(* It stops half-way on a conflict with what was committed since.          *)
Conflicts(f) ==
    /\ commit[f] # {} /\ merging = {} /\ ~torn
    /\ ~Overlapping(commit[f] \cap Fixes, work)
    /\ Overlapping(commit[f] \cap Fixes, main \ base[f])

ResetToBase(f) == base[f]    \* mutant
Without(f) == main \ commit[f]

Reverted(f) ==
    /\ CanRevert(f)
    /\ main' = Without(f) /\ tip' = {}
    /\ UNCHANGED <<work, merging, torn, faults>>

RevertFails(f) ==
    /\ \/ ~CanRevert(f) /\ torn' = (torn \/ Conflicts(f)) /\ UNCHANGED faults
       \/ Fault("git") /\ UNCHANGED torn
    /\ UNCHANGED <<main, work, merging, tip>>

(* tsc emits what it rejects, too; a build that times out may not.         *)
BuildPasses ==
    /\ Builds(Tree) /\ ~torn
    /\ dist' = Tree
    /\ UNCHANGED <<checkout, faults>>

BuildFails ==
    /\ \/ (~Builds(Tree) \/ torn) /\ dist' = Tree /\ UNCHANGED faults
       \/ Fault("build") /\ dist' \in {dist, Tree}
    /\ UNCHANGED checkout

-----------------------------------------------------------------------------
(* autoLand, in the detached run of K                                      *)

(* No landing begins in a move to the cloud; K's runs do not overlap.      *)
Begin(f) ==
    /\ pc[f] = "idle"
    /\ \A g \in Fixes : pc[g] \in {"idle", "over"}
    /\ IF held THEN Ends(f, "held") ELSE Goes(f, "gate")
    /\ base' = [base EXCEPT ![f] = main]
    /\ UNCHANGED <<checkout, dist, daemon, held, commit, others, faults>>

(* Any check of the gate may refuse.                                       *)
GateHolds(f) ==
    /\ pc[f] \in {"gate", "suite"}
    /\ Ends(f, "held")
    /\ UNCHANGED <<checkout, dist, daemon, held, base, commit, others, faults>>

(* The static checks: among them, no file the operator has work in.        *)
GateReads(f) ==
    /\ pc[f] = "gate"
    /\ ~Overlapping({f}, work \cup merging)
    /\ Goes(f, "suite")
    /\ UNCHANGED <<checkout, dist, daemon, held, base, commit, others, faults>>

(* Up to an hour later: types, lint and the suite pass in the worktree,    *)
(* and the fix is committed on its branch.                                 *)
SuitePasses(f) ==
    /\ pc[f] = "suite"
    /\ Builds(base[f] \cup {f})
    /\ Goes(f, "merge")
    /\ UNCHANGED <<checkout, dist, daemon, held, base, commit, others, faults>>

CanMerge(f) ==
    /\ merging = {} /\ ~torn
    /\ ~Overlapping({f}, work \cup (main \ base[f]))

Merge(f) ==
    /\ pc[f] = "merge"
    /\ CanMerge(f)
    /\ main' = main \cup {f} /\ tip' = {f}
    /\ Goes(f, "revparse")
    /\ UNCHANGED <<work, merging, torn, dist, daemon, held, base, commit,
                   others, faults>>

(* The merge that `git merge --abort` then aborts may be the operator's.   *)
MergeFails(f) ==
    /\ pc[f] = "merge"
    /\ \/ ~CanMerge(f) /\ UNCHANGED faults
       \/ Fault("git")
    /\ merging' = {}
    /\ Ends(f, "held")
    /\ UNCHANGED <<main, work, torn, tip, dist, daemon, held, base, commit,
                   others>>

(* rev-parse HEAD; when it throws, the run keeps the branch for review.    *)
RevParse(f) ==
    /\ pc[f] = "revparse"
    /\ \/ /\ commit' = [commit EXCEPT ![f] = tip]
          /\ Goes(f, "build") /\ UNCHANGED faults
       \/ Fault("revparse") /\ Ends(f, "kept") /\ UNCHANGED commit
    /\ UNCHANGED <<checkout, dist, daemon, held, base, others>>

(* Built: the worktree goes, and afterLand starts the shell below.         *)
Build(f) ==
    /\ pc[f] = "build"
    /\ \/ BuildPasses /\ Goes(f, "restart")
       \/ BuildFails /\ Goes(f, "unmerge")
    /\ UNCHANGED <<daemon, held, base, commit, others>>

HeldAnyway == "held"    \* mutant
RevertFailed == "attention"

(* Never leave a merge live that the build rejects.                        *)
Unmerge(f) ==
    /\ pc[f] = "unmerge"
    /\ \/ Reverted(f) /\ Goes(f, "rebuild")
       \/ RevertFails(f) /\ Ends(f, RevertFailed)
    /\ UNCHANGED <<dist, daemon, held, base, commit, others>>

Rebuild(f) ==
    /\ pc[f] = "rebuild"
    /\ \/ BuildPasses /\ Ends(f, "held")
       \/ BuildFails /\ Ends(f, "stale")
    /\ UNCHANGED <<daemon, held, base, commit, others>>

-----------------------------------------------------------------------------
(* The detached shell: sleep 10; restart; sleep 150; land-probation        *)

Relaunched == daemon' = [code |-> dist, age |-> "young"]

(* `;` goes on when the restart failed.                                    *)
Restart(f) ==
    /\ pc[f] = "restart"
    /\ \/ Relaunched /\ UNCHANGED faults
       \/ Fault("restart") /\ UNCHANGED daemon
    /\ Goes(f, "look")
    /\ UNCHANGED <<checkout, dist, held, base, commit, others>>

(* A daemon that can settle has done so when the shell wakes up, unless    *)
(* somebody restarted it just before; one that cannot has been relaunched  *)
(* since, on what dist/ holds: launchd waits seconds, the shell minutes.   *)
ComesUp == Boots(daemon.code) /\ ~held
Waited == daemon.age = "young" => ~ComesUp /\ daemon.code = dist

Running == daemon.age # "late"    \* mutant
Healthy == daemon.age = "settled"

Undoing == "undo"    \* mutant
Rechecking == "again"

Look(f) ==
    /\ pc[f] = "look" /\ Waited
    /\ IF Healthy
       THEN Ends(f, "passed") /\ UNCHANGED daemon
       ELSE Goes(f, Rechecking) /\ daemon' = [daemon EXCEPT !.age = "young"]
    /\ UNCHANGED <<checkout, dist, held, base, commit, others, faults>>

LookAgain(f) ==
    /\ pc[f] = "again" /\ Waited
    /\ IF Healthy
       THEN Ends(f, "passed") /\ UNCHANGED daemon
       ELSE Goes(f, "undo") /\ daemon' = [daemon EXCEPT !.age = "young"]
    /\ UNCHANGED <<checkout, dist, held, base, commit, others, faults>>

Notes(f, report, where) ==
    /\ pc' = [pc EXCEPT ![f] = where]
    /\ verdict' = [verdict EXCEPT ![f] = report]

(* makeRevert: whatever fails, the restart follows.                        *)
Undo(f) ==
    /\ pc[f] = "undo"
    /\ \/ Reverted(f) /\ Goes(f, "undone")
       \/ RevertFails(f) /\ Notes(f, "attention", "bounce")
    /\ UNCHANGED <<dist, daemon, held, base, commit, others>>

UndoBuilds(f) ==
    /\ pc[f] = "undone"
    /\ \/ BuildPasses /\ Notes(f, "reverted", "bounce")
       \/ BuildFails /\ Notes(f, "attention", "bounce")
    /\ UNCHANGED <<daemon, held, base, commit, others>>

(* A restart that throws takes the log entry and the message with it.      *)
Bounce(f) ==
    /\ pc[f] = "bounce"
    /\ \/ Relaunched /\ Goes(f, "over") /\ UNCHANGED faults
       \/ Fault("restart") /\ Ends(f, "unreported") /\ UNCHANGED daemon
    /\ UNCHANGED <<checkout, dist, held, base, commit, others>>

LandSteps(f) ==
    \/ GateHolds(f) \/ GateReads(f) \/ SuitePasses(f) \/ Merge(f)
    \/ MergeFails(f) \/ RevParse(f) \/ Build(f) \/ Unmerge(f) \/ Rebuild(f)
    \/ Restart(f) \/ Look(f) \/ LookAgain(f) \/ Undo(f) \/ UndoBuilds(f)
    \/ Bounce(f)

-----------------------------------------------------------------------------
(* The daemon under launchd, the operator, the host                        *)

(* launchd starts a daemon that exits again, on whatever dist/ holds.      *)
DaemonLoops ==
    /\ daemon.age # "settled" /\ ~ComesUp
    /\ Relaunched
    /\ UNCHANGED <<checkout, dist, held, landing, others, faults>>

DaemonSettles ==
    /\ daemon.age # "settled" /\ ComesUp
    /\ daemon.age = "late" => \A f \in Fixes : pc[f] \notin {"look", "again"}
    /\ daemon' = [daemon EXCEPT !.age = "settled"]
    /\ UNCHANGED <<checkout, dist, held, landing, others, faults>>

(* By another session, perhaps within a minute of the probation's look.    *)
OtherRestart ==
    /\ others < MaxOthers
    /\ \E age \in {"young", "late"} : daemon' = [code |-> dist, age |-> age]
    /\ others' = others + 1
    /\ UNCHANGED <<checkout, dist, held, landing, faults>>

Undisturbed == Races \/ \A f \in Fixes : pc[f] # "revparse"

Edit(e) ==
    /\ e \notin main \cup work \cup merging
    /\ work' = work \cup {e}
    /\ UNCHANGED <<main, merging, torn, tip, dist, daemon, held, landing,
                   others, faults>>

Commit ==
    /\ work # {} /\ merging = {} /\ ~torn /\ Undisturbed
    /\ main' = main \cup work /\ work' = {} /\ tip' = {}
    /\ UNCHANGED <<merging, torn, dist, daemon, held, landing, others, faults>>

StartMerge(e) ==
    /\ "merge" \in Events
    /\ e \notin main \cup work /\ merging = {} /\ ~torn
    /\ merging' = {e}
    /\ UNCHANGED <<main, work, torn, tip, dist, daemon, held, landing,
                   others, faults>>

ConcludeMerge ==
    /\ merging # {} /\ Undisturbed
    /\ main' = main \cup merging /\ merging' = {} /\ tip' = merging
    /\ UNCHANGED <<work, torn, dist, daemon, held, landing, others, faults>>

OperatorBuilds ==
    /\ "build" \in Events
    /\ dist' = Tree
    /\ UNCHANGED <<checkout, daemon, held, landing, others, faults>>

(* cutover locks the Mac; its preflight waits for a probation to end, not  *)
(* for a gate.                                                             *)
Lock ==
    /\ "move" \in Events /\ ~held
    /\ \A f \in Fixes : pc[f] \notin OnProbation
    /\ others < MaxOthers /\ others' = others + 1
    /\ held' = TRUE
    /\ UNCHANGED <<checkout, dist, daemon, landing, faults>>

Unlock ==
    /\ held /\ held' = FALSE
    /\ UNCHANGED <<checkout, dist, daemon, landing, others, faults>>

Reboot ==
    /\ Fault("reboot")
    /\ Relaunched
    /\ pc' = [f \in Fixes |-> IF pc[f] = "idle" THEN "idle" ELSE "over"]
    /\ verdict' = [f \in Fixes |->
                      IF pc[f] \in {"idle", "over"} THEN verdict[f] ELSE "lost"]
    /\ UNCHANGED <<checkout, dist, held, base, commit, others>>

Next ==
    \/ \E f \in Fixes : Begin(f) \/ LandSteps(f)
    \/ DaemonLoops \/ DaemonSettles \/ OtherRestart
    \/ \E e \in Edits : Edit(e) \/ StartMerge(e)
    \/ Commit \/ ConcludeMerge \/ OperatorBuilds \/ Lock \/ Unlock \/ Reboot

Spec == Init /\ [][Next]_vars

(* Commands have timeouts, sleeps end, launchd keeps the daemon alive.     *)
Fairness ==
    /\ \A f \in Fixes : WF_vars(LandSteps(f))
    /\ WF_vars(DaemonLoops) /\ WF_vars(DaemonSettles)

FairSpec == Spec /\ Fairness

-----------------------------------------------------------------------------
(* Properties                                                              *)

(* A fix reported as held for review, or as reverted and rebuilt, is       *)
(* neither on main nor in dist/ ("Never leave a merge live that the build  *)
(* rejects: revert it and rebuild so dist/ matches", auto-land.ts:1351).   *)
HeldMeansOut ==
    \A f \in Fixes : pc[f] = "over" /\ verdict[f] \in {"held", "reverted"}
                     => f \notin main \cup dist

(* Landing and its undoing take nothing of the operator: an edit once made *)
(* stays, on disk or committed, whatever is committed and edited meanwhile *)
(* ("never touch a file the operator has uncommitted work in",             *)
(* auto-land.ts:12).                                                       *)
OperatorsWorkKept == [][(main \cup work) \cap Edits \subseteq Tree']_vars

(* A build that the restarted daemon does not survive never passes: unless *)
(* the host reboots under the shell, the merge is reverted or the operator *)
(* is told that it could not be, and the daemon comes back where the rest  *)
(* of the tree allows it ("if the daemon isn't up and settled, it reverts  *)
(* the merge, rebuilds, restarts", land-probation.ts:4).                 *)
BadLandUndone ==
    \A f \in Fixes :
        pc[f] = "look" /\ ~Boots(daemon.code)
        ~> \/ verdict[f] = "lost"
           \/ /\ pc[f] = "over"
              /\ verdict[f] \in {"attention", "reverted", "unreported"}
              /\ daemon.age = "settled" \/ ~Boots(dist) \/ held

(* The probation gives up on a fix only when the daemon does not come up:  *)
(* a restart by somebody else is absorbed ("One re-check a minute later    *)
(* absorbs an unrelated restart", land-probation.ts:40).                   *)
GoodFixStays ==
    [][\A f \in Fixes : pc[f] \in {"look", "again"} /\ pc'[f] = "undo"
                        => ~ComesUp]_vars

(* Nothing lands on a Mac that is locked for a move ("Hold the branch for  *)
(* review instead", runner-entry.ts:494).                                  *)
LockedLandsNothing == [][held => Fixes \cap main' \subseteq main]_vars

(* Nor does a failed merge take a merge the operator is in the middle of   *)
(* (auto-land.ts:12 again).                                                *)
OperatorsMergeKept == [][Tree \cap Edits \subseteq Tree']_vars

(* A branch the run says it kept for review (runner-entry.ts:505) is not   *)
(* on main.                                                                *)
KeptMeansOut ==
    \A f \in Fixes : pc[f] = "over" /\ verdict[f] = "kept" => f \notin main

(* A landed build on which no daemon survives does not pass its probation. *)
BadLandSeen ==
    [][\A f \in Fixes : pc[f] \in {"look", "again"} /\ verdict'[f] = "passed"
                        => Boots(dist)]_vars
=============================================================================
