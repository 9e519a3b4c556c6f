------------------------------ MODULE Transcripts ------------------------------
(***************************************************************************)
(* Session capture: Claude Code, another program, appends to transcripts;  *)
(* the claude_code integration polls their directory every few minutes,    *)
(* the SessionEnd hook posts one transcript at a time, and both hand what  *)
(* they read to captureSession (brain/cognition/capture.ts), which stores  *)
(* a session once per hash of its user turns and never while incognito.    *)
(*                                                                         *)
(* The daemon's part runs in one event loop, so captureSession, whose      *)
(* database calls are synchronous, is one step; a transcript may be        *)
(* written between the poller's stat and its read.  Times are ages, in     *)
(* ticks of a coarse clock.                                                *)
(*                                                                         *)
(* Incognito is a line of policies.yaml, which `robin incognito`, pause,   *)
(* offline and their opposites each truncate and write anew.  A file that  *)
(* is empty or cannot be parsed reads as not suspended.                    *)
(***************************************************************************)
EXTENDS Integers, FiniteSets

CONSTANTS
    Files,       \* the transcripts of one project directory, one per session
    Dull,        \* those that a skip rule of captureSession rejects
    Oversized,   \* those above MAX_TRANSCRIPT_BYTES
    Idle,        \* SESSION_IDLE_MS
    MaxAge,      \* SESSION_MAX_AGE_MS
    Rescan,      \* DIR_FULL_RESCAN_MS
    Cap,         \* MAX_CAPTURES_PER_TICK
    Writes,      \* bound: appends to each transcript
    MaxToggles,  \* bound: commands that rewrite policies.yaml
    MaxFaults,   \* bound: failing captures, crashes, killed commands, sleeps
                 \* and wiped cursors
    None

ASSUME TranscriptsAssumption ==
    /\ IsFiniteSet(Files) /\ Dull \subseteq Files /\ Oversized \subseteq Files
    /\ Idle \in Nat \ {0} /\ Rescan \in Nat \ {0} /\ Idle + Rescan < MaxAge
    /\ MaxAge \in Nat /\ Cap \in Nat \ {0}
    /\ Writes \in [Files -> Nat] /\ MaxToggles \in Nat /\ MaxFaults \in Nat
    /\ None \notin Files

VARIABLES
    file,      \* [Files -> record]: the transcript on disk
    dirTime,   \* mtime of the directory: files created in it
    policy,    \* policies.yaml as it reads now: "open", "private" or "torn"
    cli,       \* what the command that has truncated it will write, or "none"
    private,   \* history: the operator is told that incognito holds
    toggles,
    cursor,    \* [Files -> Nat]: the mtime last processed, 0 without a row
    dirCursor, \* the directory's scan cursor, or NoScan
    marked,    \* sessions with an incognito:<id> row
    stored,    \* [Files -> [Nat -> Nat]]: events by hash of the user turns
    poll,      \* the poller's tick
    due,       \* a tick of the cron is due
    consumed,  \* history: sessions that poller or hook met while incognito
    overslept, \* history: sessions that no tick could meet for MaxAge
    faults

policyVars == <<policy, cli, private, toggles>>
vars == <<file, dirTime, policyVars, cursor, dirCursor, marked, stored,
          poll, due, consumed, overslept, faults>>

(* mtime counts the appends and said those of them by the user.            *)
NoFile == [mtime |-> 0, said |-> 0, age |-> 0]
NoScan == [m |-> 0, age |-> Rescan, pending |-> TRUE]
Idler == [pc |-> "idle", todo |-> {}, private |-> FALSE, m |-> 0,
          pending |-> FALSE, count |-> 0, of |-> None, mtime |-> 0]

Init ==
    /\ file = [f \in Files |-> NoFile]
    /\ dirTime = 0
    /\ policy = "open"
    /\ cli = "none"
    /\ private = FALSE
    /\ toggles = 0
    /\ cursor = [f \in Files |-> 0]
    /\ dirCursor = NoScan
    /\ marked = {}
    /\ stored = [f \in Files |-> [h \in 1..Writes[f] |-> 0]]
    /\ poll = Idler
    /\ due = FALSE
    /\ consumed = {}
    /\ overslept = {}
    /\ faults = 0

TypeOK ==
    /\ \A f \in Files : /\ file[f].mtime \in 0..Writes[f]
                        /\ file[f].said \in 0..file[f].mtime
                        /\ file[f].age \in 0..(MaxAge + 1)
                        /\ cursor[f] \in 0..file[f].mtime
    /\ dirTime \in 0..Cardinality(Files)
    /\ policy \in {"open", "private", "torn"} /\ cli \in {"none", "open", "private"}
    /\ private \in BOOLEAN /\ due \in BOOLEAN /\ overslept \subseteq Files
    /\ dirCursor.m \in 0..dirTime /\ dirCursor.age \in 0..Rescan
    /\ marked \subseteq Files /\ consumed \subseteq Files
    /\ \A f \in Files : stored[f] \in [1..Writes[f] -> Nat]
    /\ poll.pc \in {"idle", "next", "read"} /\ poll.todo \subseteq Files
    /\ poll.pc = "read" => poll.of \in Files

-----------------------------------------------------------------------------
(* The operator and Claude Code                                            *)

Write(f, byUser) ==
    /\ file[f].mtime < Writes[f]
    /\ file[f].mtime = 0 => byUser
    /\ file' = [file EXCEPT ![f] = [mtime |-> @.mtime + 1, age |-> 0,
                                    said |-> IF byUser THEN @.said + 1 ELSE @.said]]
    /\ dirTime' = IF file[f].mtime = 0 THEN dirTime + 1 ELSE dirTime
    /\ overslept' = overslept \ {f}
    /\ UNCHANGED <<policyVars, cursor, dirCursor, marked, stored, poll, due,
                   consumed, faults>>

(* A command reads policies.yaml, truncates it and writes it back: robin   *)
(* incognito and its off as they say, the others what they have read, which*)
(* is "open" of an empty file.  An `off` under way promises nothing.       *)
Command(says) ==
    /\ cli = "none" /\ toggles < MaxToggles
    /\ policy' = "torn" /\ cli' = says
    /\ private' = (private /\ says = "private")
    /\ toggles' = toggles + 1
    /\ UNCHANGED <<file, dirTime, cursor, dirCursor, marked, stored, poll, due,
                   consumed, overslept, faults>>

Returns ==
    /\ cli # "none"
    /\ policy' = cli /\ cli' = "none"
    /\ private' = (cli = "private")
    /\ UNCHANGED <<file, dirTime, toggles, cursor, dirCursor, marked, stored, poll,
                   due, consumed, overslept, faults>>

(* Killed before its write: the file stays empty, and no command that      *)
(* reads it later knows that incognito was on.                             *)
CommandKilled ==
    /\ cli # "none" /\ faults < MaxFaults
    /\ cli' = "none" /\ private' = FALSE
    /\ faults' = faults + 1
    /\ UNCHANGED <<file, dirTime, policy, toggles, cursor, dirCursor, marked,
                   stored, poll, due, consumed, overslept>>

(* expires_at passes; nothing rewrites the file.                           *)
Lapses ==
    /\ policy = "private"
    /\ policy' = "open" /\ private' = FALSE
    /\ UNCHANGED <<file, dirTime, cli, toggles, cursor, dirCursor, marked, stored,
                   poll, due, consumed, overslept, faults>>

(* While the daemon runs, the cron does not fall a whole tick behind: ages *)
(* grow once per poll.                                                     *)
OlderPast(x, cap) == IF x <= cap THEN x + 1 ELSE cap    \* mutant
Older(x, cap) == IF x < cap THEN x + 1 ELSE cap
Tick ==
    /\ ~due /\ poll.pc = "idle"
    /\ due' = TRUE
    /\ file' = [f \in Files |-> IF file[f].mtime = 0 THEN file[f]
                                ELSE [file[f] EXCEPT !.age = Older(@, MaxAge + 1)]]
    /\ dirCursor' = [dirCursor EXCEPT !.age = Older(@, Rescan)]
    /\ UNCHANGED <<dirTime, policyVars, cursor, marked, stored, poll, consumed,
                   overslept, faults>>

(* The Mac sleeps, or no daemon runs, for longer than MaxAge.              *)
Asleep ==
    /\ poll.pc = "idle" /\ faults < MaxFaults
    /\ faults' = faults + 1
    /\ file' = [f \in Files |-> IF file[f].mtime = 0 THEN file[f]
                                ELSE [file[f] EXCEPT !.age = MaxAge + 1]]
    /\ dirCursor' = [dirCursor EXCEPT !.age = Rescan]
    /\ overslept' = {f \in Files : file[f].mtime > 0}
    /\ UNCHANGED <<dirTime, policyVars, cursor, marked, stored, poll, due, consumed>>

-----------------------------------------------------------------------------
(* captureSession                                                          *)

SuspendedAtStart == poll.private    \* mutant: the poller's own reading is trusted
Suspended == (policy = "private")

NeverSeen(f) == f = None            \* mutant
SeenIncognito(f) == f \in marked

NoDuplicate(f, h) == stored[f][h] < 0    \* mutant: no dedup
Duplicate(f, h) == stored[f][h] > 0

Stores(f, h) == ~Suspended /\ ~SeenIncognito(f) /\ f \notin Dull /\ ~Duplicate(f, h)

CaptureSession(f, h) ==
    /\ marked' = IF Suspended THEN marked \cup {f} ELSE marked
    /\ stored' = IF Stores(f, h) THEN [stored EXCEPT ![f][h] = @ + 1] ELSE stored
    /\ consumed' = IF Suspended THEN consumed \cup {f} ELSE consumed

(* The SessionEnd hook: the transcript is read and captured in one go.     *)
SessionEnd(f) ==
    /\ file[f].mtime > 0 /\ f \notin Oversized
    /\ CaptureSession(f, file[f].said)
    /\ UNCHANGED <<file, dirTime, policyVars, cursor, dirCursor, poll, due,
                   overslept, faults>>

-----------------------------------------------------------------------------
(* A tick of the claude_code integration                                   *)

UnchangedForever == dirCursor.m = dirTime /\ ~dirCursor.pending    \* mutant
DirUnchanged == /\ dirCursor.m = dirTime /\ ~dirCursor.pending
                /\ dirCursor.age < Rescan

Existing == {f \in Files : file[f].mtime > 0}

PollStart ==
    /\ poll.pc = "idle" /\ due
    /\ due' = FALSE
    /\ poll' = IF DirUnchanged THEN Idler
               ELSE [Idler EXCEPT !.pc = "next", !.todo = Existing,
                                  !.private = (policy = "private"), !.m = dirTime]
    /\ UNCHANGED <<file, dirTime, policyVars, cursor, dirCursor, marked,
                   stored, consumed, overslept, faults>>

Historical(f) == file[f].age > MaxAge /\ cursor[f] = 0

(* stat and the decisions taken on it alone.                               *)
Passes(f) == poll' = [poll EXCEPT !.todo = @ \ {f}]
Postpones(f) == poll' = [poll EXCEPT !.todo = @ \ {f}, !.pending = TRUE]
Advances(f) == cursor' = [cursor EXCEPT ![f] = file[f].mtime]

PollStat(f) ==
    /\ poll.pc = "next" /\ f \in poll.todo
    /\ \/ /\ file[f].mtime <= cursor[f]
          /\ Passes(f)
          /\ UNCHANGED <<cursor, consumed>>
       \/ /\ file[f].mtime > cursor[f] /\ file[f].age < Idle
          /\ Postpones(f)
          /\ UNCHANGED <<cursor, consumed>>
       \/ /\ file[f].mtime > cursor[f] /\ file[f].age >= Idle
          /\ \/ /\ poll.private
                /\ Passes(f) /\ Advances(f)
                /\ consumed' = consumed \cup {f}
             \/ /\ ~poll.private
                /\ Historical(f) \/ (poll.count < Cap /\ f \in Oversized)
                /\ Passes(f) /\ Advances(f)
                /\ UNCHANGED consumed
             \/ /\ ~poll.private /\ ~Historical(f) /\ poll.count >= Cap
                /\ Postpones(f)
                /\ UNCHANGED <<cursor, consumed>>
             \/ /\ ~poll.private /\ ~Historical(f) /\ poll.count < Cap
                /\ f \notin Oversized
                /\ poll' = [poll EXCEPT !.pc = "read", !.todo = @ \ {f}, !.of = f,
                                        !.mtime = file[f].mtime]
                /\ UNCHANGED <<cursor, consumed>>
    /\ UNCHANGED <<file, dirTime, policyVars, dirCursor, marked, stored,
                   due, overslept, faults>>

(* read, capture and record the mtime of the stat; or the capture throws.  *)
Covered == [cursor EXCEPT ![poll.of] = poll.mtime]
AfterThrowCovered == Covered    \* mutant: a failed capture advances the cursor
AfterThrow == cursor

PollRead ==
    /\ poll.pc = "read"
    /\ \/ /\ CaptureSession(poll.of, file[poll.of].said)
          /\ cursor' = Covered
          /\ poll' = [poll EXCEPT !.pc = "next", !.of = None, !.mtime = 0, !.count =
                        IF Stores(poll.of, file[poll.of].said) THEN @ + 1 ELSE @]
          /\ UNCHANGED faults
       \/ /\ faults < MaxFaults
          /\ faults' = faults + 1
          /\ poll' = [poll EXCEPT !.pc = "next", !.of = None, !.mtime = 0, !.pending = TRUE]
          /\ cursor' = AfterThrow
          /\ UNCHANGED <<marked, stored, consumed>>
    /\ UNCHANGED <<file, dirTime, policyVars, dirCursor, due, overslept>>

PollEnd ==
    /\ poll.pc = "next" /\ poll.todo = {}
    /\ dirCursor' = [m |-> poll.m, age |-> 0, pending |-> poll.pending]
    /\ poll' = Idler
    /\ UNCHANGED <<file, dirTime, policyVars, cursor, marked, stored, due,
                   consumed, overslept, faults>>

(* The daemon stops within a tick, or a purge removes the session cursors. *)
PollKilled ==
    /\ poll.pc # "idle" /\ faults < MaxFaults
    /\ faults' = faults + 1
    /\ poll' = Idler
    /\ UNCHANGED <<file, dirTime, policyVars, cursor, dirCursor, marked,
                   stored, due, consumed, overslept>>

CursorsWiped ==
    /\ poll.pc = "idle" /\ faults < MaxFaults
    /\ faults' = faults + 1
    /\ cursor' = [f \in Files |-> 0]
    /\ UNCHANGED <<file, dirTime, policyVars, dirCursor, marked, stored,
                   poll, due, consumed, overslept>>

PollStep == PollStart \/ (\E f \in Files : PollStat(f)) \/ PollRead \/ PollEnd

Next ==
    \/ \E f \in Files, u \in BOOLEAN : Write(f, u)
    \/ \E says \in {"open", "private"} : Command(says)
    \/ Returns \/ CommandKilled \/ Lapses
    \/ Tick \/ Asleep
    \/ \E f \in Files : SessionEnd(f)
    \/ PollStep \/ PollKilled \/ CursorsWiped

Spec == Init /\ [][Next]_vars
FairSpec == Spec /\ WF_vars(Tick) /\ WF_vars(PollStep)

-----------------------------------------------------------------------------
(* Properties                                                              *)

(* Hook, poller, retries and wiped cursors store one content of a session  *)
(* at most once.                                                           *)
StoredOnce == \A f \in Files : \A h \in 1..Writes[f] : stored[f][h] <= 1

(* Nothing is stored from the return of `robin incognito` to its end, what-*)
(* ever a tick that was under way when it began had read of the policy -   *)
(* save while another command has the file truncated: captureSession takes *)
(* what it cannot read for "not suspended".                                *)
NothingWhilePrivate == [][private /\ cli = "none" => stored' = stored]_vars

(* A session that captureSession has met while incognito is never stored   *)
(* afterwards, by the hook or by the poller.                               *)
MarkedNeverStored == [][\A f \in marked : stored'[f] = stored[f]]_vars

(* The comment of INCOGNITO_NS and the poller's test promise the same of   *)
(* every session seen then, those the poller consumed included.            *)
ConsumedNeverStored == [][\A f \in consumed : stored'[f] = stored[f]]_vars

(* A transcript behind its cursor has been dealt with: what its user said  *)
(* is stored, or a rule, incognito or its age kept it out.                 *)
CursorHonest ==
    \A f \in Files : cursor[f] = file[f].mtime /\ file[f].mtime > 0 =>
        \/ stored[f][file[f].said] > 0
        \/ f \in Dull \cup Oversized \cup marked \cup consumed
        \/ file[f].age > MaxAge

(* A session that never meets incognito is stored with all its user said   *)
(* once its transcript has settled, if the poller runs within MaxAge of    *)
(* its last append: one first met later is taken for history.              *)
SessionsStored ==
    \A f \in Files \ (Dull \cup Oversized) :
        <>[](\/ file[f].mtime = 0 \/ f \in consumed \cup overslept
             \/ stored[f][file[f].said] > 0)
=============================================================================
