--------------------------- MODULE TranscriptProofs ---------------------------
(***************************************************************************)
(* Theorems about Transcripts, for any set of transcripts and any bounds.  *)
(***************************************************************************)
EXTENDS Transcripts, FiniteSetTheorems, TLAPS

FileState == [mtime : Nat, said : Nat, age : Nat]
PollState == [pc : {"idle", "next", "read"}, todo : SUBSET Files, private : BOOLEAN,
              m : Nat, pending : BOOLEAN, count : Nat, of : Files \cup {None}, mtime : Nat]

(* TypeOK, with the records and functions spelled out.                     *)
FilesTyped ==
    /\ file \in [Files -> FileState]
    /\ \A f \in Files : /\ file[f].mtime <= Writes[f]
                        /\ file[f].said <= file[f].mtime
                        /\ file[f].mtime > 0 => file[f].said > 0
                        /\ file[f].age <= MaxAge + 1
    /\ dirTime = Cardinality(Existing)
    /\ due \in BOOLEAN /\ overslept \subseteq Files

(* The poller records an mtime that it saw, of a file that exists, and the *)
(* directory's mtime of its start.                                         *)
PollTyped ==
    /\ poll \in PollState
    /\ poll.todo \subseteq Existing
    /\ poll.pc = "read" => poll.of \in Existing /\ poll.mtime <= file[poll.of].mtime
    /\ poll.m <= dirTime
    /\ dirCursor \in [m : Nat, age : 0..Rescan, pending : BOOLEAN]
    /\ dirCursor.m <= dirTime

StoreTyped ==
    /\ cursor \in [Files -> Nat]
    /\ \A f \in Files : cursor[f] <= file[f].mtime
    /\ marked \subseteq Files /\ consumed \subseteq Files
    /\ stored = [f \in Files |-> stored[f]]
    /\ \A f \in Files : stored[f] \in [1..Writes[f] -> {0, 1}]

Typed == FilesTyped /\ PollTyped /\ StoreTyped

IInv == Typed /\ CursorHonest

(* The file says what the operator was told, unless a command has it       *)
(* truncated; a killed command leaves nothing promised.                    *)
Policied ==
    /\ policy \in {"open", "private", "torn"} /\ cli \in {"none", "open", "private"}
    /\ private \in BOOLEAN
    /\ cli = "none" => (private <=> policy = "private")
    /\ cli # "none" => policy = "torn"

-----------------------------------------------------------------------------
(* captureSession                                                          *)

(* What is stored stays, a session's content is stored at most once, and   *)
(* afterwards the session is stored, dull, marked or met while incognito.  *)
LEMMA CaptureStores ==
  ASSUME Typed, NEW f \in Files, file[f].mtime > 0, CaptureSession(f, file[f].said)
  PROVE  /\ stored' = [g \in Files |-> stored'[g]]
         /\ \A g \in Files : stored'[g] \in [1..Writes[g] -> {0, 1}]
         /\ \A g \in Files : \A h \in 1..Writes[g] : stored[g][h] > 0 => stored'[g][h] > 0
         /\ marked \subseteq marked' /\ marked' \subseteq Files
         /\ consumed \subseteq consumed' /\ consumed' \subseteq Files
         /\ stored'[f][file[f].said] > 0 \/ f \in Dull \cup marked' \cup consumed'
<1> DEFINE h == file[f].said
<1>1. h \in 1..Writes[f]
  BY TranscriptsAssumption DEF Typed, FilesTyped, FileState
<1>2. /\ marked \subseteq marked' /\ marked' \subseteq Files
      /\ consumed \subseteq consumed' /\ consumed' \subseteq Files
      /\ Suspended => f \in consumed'
  BY DEF CaptureSession, Typed, StoreTyped
<1>3. CASE ~Stores(f, h)
  <2>1. stored' = stored BY <1>3 DEF CaptureSession
  <2>2. Suspended \/ f \in marked \/ f \in Dull \/ stored[f][h] > 0
    BY <1>3 DEF Stores, SeenIncognito, Duplicate
  <2>q. QED BY <1>2, <2>1, <2>2 DEF Typed, StoreTyped
<1>4. CASE Stores(f, h)
  <2>1. stored[f][h] = 0
    <3>1. ~(stored[f][h] > 0) BY <1>4 DEF Stores, Duplicate
    <3>2. stored[f][h] \in {0, 1} BY <1>1 DEF Typed, StoreTyped
    <3>q. QED BY <3>1, <3>2
  <2>2. stored' = [stored EXCEPT ![f] = [stored[f] EXCEPT ![h] = 1]]
    BY <1>4, <2>1 DEF CaptureSession
  <2>3. stored'[f] = [stored[f] EXCEPT ![h] = 1] /\ \A g \in Files \ {f} : stored'[g] = stored[g]
    BY <2>2 DEF Typed, StoreTyped
  <2>4. stored' = [g \in Files |-> stored'[g]]
    BY <2>2 DEF Typed, StoreTyped
  <2>5. stored'[f] \in [1..Writes[f] -> {0, 1}] /\ stored'[f][h] = 1
    BY <1>1, <2>3 DEF Typed, StoreTyped
  <2>6. \A g \in Files : stored'[g] \in [1..Writes[g] -> {0, 1}]
    BY <2>3, <2>5 DEF Typed, StoreTyped
  <2>7. ASSUME NEW g \in Files, NEW k \in 1..Writes[g], stored[g][k] > 0
        PROVE  stored'[g][k] > 0
    <3>1. CASE g = f /\ k = h BY <2>5, <3>1
    <3>2. CASE g = f /\ k # h BY <2>3, <2>7, <3>2 DEF Typed, StoreTyped
    <3>3. CASE g # f BY <2>3, <2>7, <3>3
    <3>q. QED BY <3>1, <3>2, <3>3
  <2>q. QED BY <1>2, <2>4, <2>5, <2>6, <2>7
<1>q. QED BY <1>3, <1>4

(* Nothing else changes what is stored.                                    *)
LEMMA OnlyCaptureStores ==
  ASSUME [Next]_vars, stored' # stored
  PROVE  \/ \E f \in Files : SessionEnd(f)
         \/ PollRead /\ CaptureSession(poll.of, file[poll.of].said)
BY DEF Next, vars, Write, Command, Returns, CommandKilled, Lapses, Tick, Asleep, PollStep, PollStart, PollStat, PollRead, PollEnd,
       PollKilled, CursorsWiped

-----------------------------------------------------------------------------
(* Steps by what they change                                               *)

(* The disk is as it was.                                                  *)
LEMMA FilesKept ==
  ASSUME FilesTyped, UNCHANGED <<file, dirTime, overslept>>, due' \in BOOLEAN
  PROVE  FilesTyped'
BY DEF FilesTyped, Existing

(* The disk and all stores are as they were; only the poller moves.        *)
LEMMA StoresKept ==
  ASSUME IInv, UNCHANGED <<file, cursor, marked, stored, consumed>>
  PROVE  StoreTyped' /\ CursorHonest'
BY DEF IInv, Typed, StoreTyped, CursorHonest

LEMMA WriteKeeps ==
  ASSUME IInv, NEW f \in Files, NEW u \in BOOLEAN, Write(f, u)
  PROVE  IInv'
<1> USE DEF IInv, Typed
<1>1. file[f] \in FileState /\ Writes[f] \in Nat
  BY TranscriptsAssumption DEF FilesTyped
<1>2. DEFINE n == [mtime |-> file[f].mtime + 1, age |-> 0,
                   said |-> IF u THEN file[f].said + 1 ELSE file[f].said]
<1>3. /\ n \in FileState /\ n.mtime <= Writes[f] /\ n.said <= n.mtime /\ n.said > 0
      /\ n.age <= MaxAge + 1 /\ n.mtime = file[f].mtime + 1 /\ n.mtime > 0
  BY <1>1, TranscriptsAssumption DEF FileState, FilesTyped, Write
<1>4. file' = [file EXCEPT ![f] = n] BY DEF Write
<1> HIDE DEF n
<1>5. /\ file' \in [Files -> FileState] /\ file'[f] = n
      /\ \A g \in Files \ {f} : file'[g] = file[g]
  BY <1>3, <1>4 DEF FilesTyped
<1>6. Existing' = Existing \cup {f} BY <1>3, <1>5 DEF Existing
<1>7. IsFiniteSet(Existing)
  BY FS_Subset, TranscriptsAssumption DEF Existing
<1>8. dirTime' = Cardinality(Existing') /\ dirTime <= dirTime' /\ dirTime \in Nat
  <2>1. Cardinality(Existing) \in Nat BY <1>7, FS_CardinalityType
  <2>2. CASE file[f].mtime = 0
    <3>1. f \notin Existing BY <2>2 DEF Existing
    <3>2. Cardinality(Existing \cup {f}) = Cardinality(Existing) + 1
      BY <1>7, <3>1, FS_AddElement
    <3>3. dirTime = Cardinality(Existing) /\ dirTime' = dirTime + 1
      BY <2>2 DEF Write, FilesTyped
    <3>q. QED BY <1>6, <2>1, <3>2, <3>3
  <2>3. CASE file[f].mtime # 0
    <3>1. f \in Existing BY <1>1, <2>3 DEF Existing, FileState
    <3>2. Existing' = Existing BY <1>6, <3>1
    <3>q. QED BY <2>1, <2>3, <3>2 DEF Write, FilesTyped
  <2>q. QED BY <2>2, <2>3
<1>9. FilesTyped' BY <1>3, <1>5, <1>8 DEF FilesTyped, Write
<1>10. \A g \in Files : file[g].mtime \in Nat /\ file[g].mtime <= file'[g].mtime
  BY <1>1, <1>3, <1>5 DEF FilesTyped, FileState
<1>11. PollTyped'
  BY <1>6, <1>8, <1>9, <1>10 DEF Existing, PollTyped, PollState, Write, FilesTyped, FileState
<1>12. StoreTyped'
  BY <1>9, <1>10 DEF StoreTyped, Write, FilesTyped, FileState
<1>13. cursor[f] # file'[f].mtime BY <1>1, <1>3, <1>5 DEF StoreTyped, FileState
<1>14. CursorHonest' BY <1>5, <1>13 DEF CursorHonest, Write
<1>q. QED BY <1>9, <1>11, <1>12, <1>14

(* A tick of the cron, and a sleep, only let the ages grow.                *)
LEMMA AgesGrow ==
  ASSUME IInv, NEW due1 \in BOOLEAN, due' = due1, overslept' \subseteq Files,
         file' = [f \in Files |-> file'[f]],
         \A f \in Files : /\ file'[f] \in FileState /\ file'[f].mtime = file[f].mtime
                          /\ file'[f].said = file[f].said /\ file'[f].age <= MaxAge + 1
                          /\ file[f].age > MaxAge => file[f].mtime = 0 \/ file'[f].age > MaxAge,
         dirCursor' \in [m : Nat, age : 0..Rescan, pending : BOOLEAN],
         dirCursor'.m = dirCursor.m,
         UNCHANGED <<dirTime, cursor, marked, stored, poll, consumed>>
  PROVE  IInv'
<1> USE DEF IInv, Typed
<1>1. Existing' = Existing BY DEF Existing
<1>2. file' \in [Files -> FileState] OBVIOUS
<1>3. FilesTyped' BY <1>1, <1>2 DEF FilesTyped
<1>4. PollTyped' BY <1>1 DEF PollTyped, PollState, Existing
<1>5. StoreTyped' BY DEF StoreTyped
<1>6. \A f \in Files : file[f] \in FileState BY DEF FilesTyped
<1>7. CursorHonest' BY <1>6 DEF CursorHonest, FileState
<1>q. QED BY <1>3, <1>4, <1>5, <1>7

LEMMA TickKeeps ==
  ASSUME IInv, Tick \/ Asleep
  PROVE  IInv'
<1> USE DEF IInv, Typed
<1>1. MaxAge \in Nat /\ Rescan \in Nat BY TranscriptsAssumption
<1>2. \A f \in Files : file[f] \in FileState BY DEF FilesTyped
<1>3. \A f \in Files : /\ file'[f] \in FileState /\ file'[f].mtime = file[f].mtime
                       /\ file'[f].said = file[f].said /\ file'[f].age <= MaxAge + 1
                       /\ file[f].age > MaxAge => file[f].mtime = 0 \/ file'[f].age > MaxAge
  <2>1. CASE Tick BY <1>1, <1>2, <2>1 DEF Tick, FileState, Older, FilesTyped
  <2>2. CASE Asleep BY <1>1, <1>2, <2>2 DEF Asleep, FileState, FilesTyped
  <2>q. QED BY <2>1, <2>2
<1>4. dirCursor' \in [m : Nat, age : 0..Rescan, pending : BOOLEAN] /\ dirCursor'.m = dirCursor.m
  BY <1>1 DEF PollTyped, Tick, Asleep, Older
<1>5. due' \in BOOLEAN /\ overslept' \subseteq Files BY DEF Tick, Asleep, FilesTyped
<1>6. file' = [f \in Files |-> file'[f]] BY DEF Tick, Asleep
<1>7. UNCHANGED <<dirTime, cursor, marked, stored, poll, consumed>> BY DEF Tick, Asleep
<1>q. QED BY <1>3, <1>4, <1>5, <1>6, <1>7, AgesGrow

LEMMA SessionEndKeeps ==
  ASSUME IInv, NEW f \in Files, SessionEnd(f)
  PROVE  IInv'
<1>1. /\ stored' = [g \in Files |-> stored'[g]]
      /\ \A g \in Files : stored'[g] \in [1..Writes[g] -> {0, 1}]
      /\ \A g \in Files : \A h \in 1..Writes[g] : stored[g][h] > 0 => stored'[g][h] > 0
      /\ marked \subseteq marked' /\ marked' \subseteq Files
      /\ consumed \subseteq consumed' /\ consumed' \subseteq Files
  BY CaptureStores DEF IInv, SessionEnd
<1>2. FilesTyped' BY FilesKept DEF IInv, Typed, SessionEnd, FilesTyped
<1>3. PollTyped' BY DEF IInv, Typed, PollTyped, SessionEnd, Existing
<1>4. StoreTyped' BY <1>1 DEF IInv, Typed, StoreTyped, SessionEnd
<1>5. \A g \in Files : file[g].mtime > 0 => file[g].said \in 1..Writes[g]
  BY TranscriptsAssumption DEF IInv, Typed, FilesTyped, FileState
<1>6. CursorHonest' BY <1>1, <1>5 DEF IInv, CursorHonest, SessionEnd
<1>q. QED BY <1>2, <1>3, <1>4, <1>6 DEF IInv, Typed

LEMMA PollStartKeeps ==
  ASSUME IInv, PollStart
  PROVE  IInv'
<1>1. Existing \subseteq Files /\ dirTime \in Nat
  BY FS_Subset, FS_CardinalityType, TranscriptsAssumption
     DEF IInv, Typed, FilesTyped, Existing
<1>2. /\ poll' \in PollState /\ poll'.pc # "read" /\ poll'.m <= dirTime
      /\ poll'.todo \subseteq Existing
  <2>1. Idler \in PollState /\ Idler.pc = "idle" /\ Idler.m = 0 /\ Idler.todo = {}
    BY DEF Idler, PollState
  <2>2. CASE poll' = Idler BY <1>1, <2>1, <2>2
  <2>3. CASE poll' = [Idler EXCEPT !.pc = "next", !.todo = Existing,
                                   !.private = (policy = "private"), !.m = dirTime]
    <3>1. poll' = [pc |-> "next", todo |-> Existing, private |-> (policy = "private"), m |-> dirTime,
                   pending |-> FALSE, count |-> 0, of |-> None, mtime |-> 0]
      BY <2>3 DEF Idler
    <3>2. (policy = "private") \in BOOLEAN OBVIOUS
    <3>q. QED BY <1>1, <3>1, <3>2 DEF PollState
  <2>q. QED BY <2>2, <2>3 DEF PollStart
<1>3. PollTyped' BY <1>2 DEF IInv, Typed, PollTyped, PollStart, Existing
<1>4. FilesTyped' BY FilesKept DEF IInv, Typed, PollStart
<1>q. QED BY <1>3, <1>4, StoresKept DEF IInv, Typed, PollStart

LEMMA PollStatKeeps ==
  ASSUME IInv, NEW f \in Files, PollStat(f)
  PROVE  IInv'
<1>1. FilesTyped' BY FilesKept DEF IInv, Typed, PollStat, FilesTyped
<1>2. file[f] \in FileState BY DEF IInv, Typed, FilesTyped
<1>3. poll' \in PollState /\ poll'.m = poll.m
      /\ (poll'.pc = "read" => poll'.of = f /\ poll'.mtime = file[f].mtime)
      /\ poll'.todo \subseteq poll.todo
  <2>1. poll \in PollState /\ poll.pc = "next" BY DEF IInv, Typed, PollTyped, PollStat
  <2>2. CASE Passes(f) BY <2>1, <2>2 DEF Passes, PollState
  <2>3. CASE Postpones(f) BY <2>1, <2>3 DEF Postpones, PollState
  <2>4. CASE poll' = [poll EXCEPT !.pc = "read", !.todo = @ \ {f}, !.of = f,
                                  !.mtime = file[f].mtime]
    BY <1>2, <2>1, <2>4 DEF PollState, FileState
  <2>q. QED BY <2>2, <2>3, <2>4 DEF PollStat
<1>4. f \in Existing BY DEF IInv, Typed, PollTyped, PollStat
<1>7. PollTyped'
  BY <1>2, <1>3, <1>4 DEF IInv, Typed, PollTyped, PollStat, FileState, Existing
<1>5. CASE UNCHANGED <<cursor, consumed>>
  BY <1>1, <1>7, <1>5, StoresKept DEF IInv, Typed, PollStat
<1>6. CASE /\ Advances(f)
           /\ \/ consumed' = consumed \cup {f}
              \/ UNCHANGED consumed /\ (Historical(f) \/ f \in Oversized)
  <2>1. /\ cursor' \in [Files -> Nat] /\ cursor'[f] = file[f].mtime
        /\ \A g \in Files \ {f} : cursor'[g] = cursor[g]
    BY <1>2, <1>6 DEF Advances, IInv, Typed, StoreTyped, FileState
  <2>2. StoreTyped'
    <3>1. consumed' \subseteq Files /\ UNCHANGED <<file, marked, stored>>
      BY <1>6 DEF IInv, Typed, StoreTyped, PollStat
    <3>2. \A g \in Files : cursor'[g] <= file[g].mtime
      <4>1. file[f].mtime \in Nat BY <1>2 DEF FileState
      <4>2. cursor'[f] <= file[f].mtime BY <2>1, <4>1
      <4>q. QED BY <2>1, <4>2 DEF IInv, Typed, StoreTyped
    <3>q. QED BY <2>1, <3>1, <3>2 DEF IInv, Typed, StoreTyped
  <2>3. CursorHonest' BY <1>6, <2>1 DEF IInv, CursorHonest, PollStat, Historical
  <2>q. QED BY <1>1, <1>7, <2>2, <2>3 DEF IInv, Typed
<1>q. QED BY <1>5, <1>6 DEF PollStat

LEMMA PollReadKeeps ==
  ASSUME IInv, PollRead
  PROVE  IInv'
<1> DEFINE f == poll.of
<1>1. /\ f \in Files /\ file[f].mtime > 0
      /\ poll.mtime \in Nat /\ poll.mtime <= file[f].mtime
  BY DEF IInv, Typed, PollTyped, PollState, PollRead, Existing
<1>2. FilesTyped' BY FilesKept DEF IInv, Typed, PollRead, FilesTyped
<1>3. /\ poll' \in PollState /\ poll'.pc = "next" /\ poll'.m = poll.m
      /\ poll'.todo = poll.todo
  <2>1. poll \in PollState BY DEF IInv, Typed, PollTyped
  <2>2. PICK c \in Nat, p \in BOOLEAN :
          poll' = [poll EXCEPT !.pc = "next", !.of = None, !.mtime = 0, !.count = c,
                               !.pending = p]
    <3>1. poll.count \in Nat /\ poll.pending \in BOOLEAN BY <2>1 DEF PollState
    <3>2. CASE poll' = [poll EXCEPT !.pc = "next", !.of = None, !.mtime = 0, !.count =
                          IF Stores(poll.of, file[poll.of].said) THEN @ + 1 ELSE @]
      <4> DEFINE c == IF Stores(poll.of, file[poll.of].said) THEN poll.count + 1
                      ELSE poll.count
      <4>1. c \in Nat BY <3>1
      <4>2. poll' = [poll EXCEPT !.pc = "next", !.of = None, !.mtime = 0, !.count = c]
        BY <3>2
      <4> HIDE DEF c
      <4>3. poll' = [poll EXCEPT !.pc = "next", !.of = None, !.mtime = 0, !.count = c,
                                 !.pending = poll.pending]
        BY <2>1, <4>2 DEF PollState
      <4>q. QED BY <3>1, <4>1, <4>3
    <3>3. CASE poll' = [poll EXCEPT !.pc = "next", !.of = None, !.mtime = 0,
                                    !.pending = TRUE]
      <4>1. poll' = [poll EXCEPT !.pc = "next", !.of = None, !.mtime = 0,
                                 !.count = poll.count, !.pending = TRUE]
        BY <2>1, <3>3 DEF PollState
      <4>q. QED BY <3>1, <4>1
    <3>q. QED BY <3>2, <3>3 DEF PollRead
  <2>q. QED BY <2>1, <2>2 DEF PollState
<1>4. PollTyped' BY <1>3 DEF IInv, Typed, PollTyped, PollRead, Existing
<1>5. CASE UNCHANGED <<cursor, marked, stored, consumed>>
  BY <1>2, <1>4, <1>5, StoresKept DEF IInv, Typed, PollRead
<1>6. CASE CaptureSession(f, file[f].said) /\ cursor' = Covered
  <2>1. file[f] \in FileState BY <1>1 DEF IInv, Typed, FilesTyped
  <2>2. /\ cursor' \in [Files -> Nat] /\ cursor'[f] = poll.mtime
        /\ \A g \in Files \ {f} : cursor'[g] = cursor[g]
    BY <1>1, <1>6 DEF Covered, IInv, Typed, StoreTyped
  <2>3. /\ stored' = [g \in Files |-> stored'[g]]
        /\ \A g \in Files : stored'[g] \in [1..Writes[g] -> {0, 1}]
        /\ \A g \in Files : \A h \in 1..Writes[g] : stored[g][h] > 0 => stored'[g][h] > 0
        /\ marked \subseteq marked' /\ marked' \subseteq Files
        /\ consumed \subseteq consumed' /\ consumed' \subseteq Files
        /\ stored'[f][file[f].said] > 0 \/ f \in Dull \cup marked' \cup consumed'
    BY <1>1, <1>6, CaptureStores DEF IInv
  <2>4. StoreTyped' BY <1>1, <2>2, <2>3 DEF IInv, Typed, StoreTyped, PollRead
  <2>5. \A g \in Files : file[g].mtime > 0 => file[g].said \in 1..Writes[g]
    BY TranscriptsAssumption DEF IInv, Typed, FilesTyped, FileState
  <2>6. CursorHonest' BY <2>2, <2>3, <2>5 DEF IInv, CursorHonest, PollRead
  <2>q. QED BY <1>2, <1>4, <2>4, <2>6 DEF IInv, Typed
<1>q. QED BY <1>5, <1>6 DEF PollRead, AfterThrow

LEMMA PollEndKeeps ==
  ASSUME IInv, PollEnd
  PROVE  IInv'
<1>1. Idler \in PollState /\ Idler.pc = "idle" /\ Idler.m = 0 /\ Idler.todo = {}
  BY DEF Idler, PollState
<1>2. dirTime \in Nat
  BY FS_Subset, FS_CardinalityType, TranscriptsAssumption
     DEF IInv, Typed, FilesTyped, Existing
<1>3. PollTyped'
  BY <1>1, <1>2, TranscriptsAssumption DEF IInv, Typed, PollTyped, PollState, PollEnd
<1>4. FilesTyped' BY FilesKept DEF IInv, Typed, PollEnd, FilesTyped
<1>q. QED BY <1>3, <1>4, StoresKept DEF IInv, Typed, PollEnd

LEMMA FaultsKeep ==
  ASSUME IInv, PollKilled \/ CursorsWiped
  PROVE  IInv'
<1>1. Idler \in PollState /\ Idler.pc = "idle" /\ Idler.m = 0 /\ Idler.todo = {}
  BY DEF Idler, PollState
<1>2. dirTime \in Nat
  BY FS_Subset, FS_CardinalityType, TranscriptsAssumption
     DEF IInv, Typed, FilesTyped, Existing
<1>3. PollTyped'
  BY <1>1, <1>2 DEF IInv, Typed, PollTyped, PollKilled, CursorsWiped, Existing
<1>4. FilesTyped' BY FilesKept DEF IInv, Typed, FilesTyped, PollKilled, CursorsWiped
<1>5. CASE PollKilled BY <1>3, <1>4, <1>5, StoresKept DEF IInv, Typed, PollKilled
<1>6. CASE CursorsWiped
  <2>1. \A f \in Files : file[f].mtime \in Nat
    BY DEF IInv, Typed, FilesTyped, FileState
  <2>2. StoreTyped' BY <1>6, <2>1 DEF IInv, Typed, StoreTyped, CursorsWiped
  <2>3. CursorHonest' BY <1>6, <2>1 DEF CursorHonest, CursorsWiped
  <2>q. QED BY <1>3, <1>4, <2>2, <2>3 DEF IInv, Typed
<1>q. QED BY <1>5, <1>6

-----------------------------------------------------------------------------
(* The invariant and what follows from it                                  *)

LEMMA InitHolds == Init => IInv
<1> SUFFICES ASSUME Init PROVE IInv OBVIOUS
<1>1. Existing = {} BY DEF Init, Existing, NoFile
<1>2. FilesTyped
  <2>1. NoFile \in FileState /\ NoFile.mtime = 0 /\ NoFile.said = 0 /\ NoFile.age = 0
    BY DEF NoFile, FileState
  <2>2. \A f \in Files : 0 <= Writes[f] BY TranscriptsAssumption
  <2>3. 0 <= MaxAge + 1 BY TranscriptsAssumption
  <2>4. dirTime = Cardinality(Existing) BY <1>1, FS_EmptySet DEF Init
  <2>5. file \in [Files -> FileState] /\ \A f \in Files : file[f] = NoFile
    BY <2>1 DEF Init
  <2>6. due \in BOOLEAN /\ overslept \subseteq Files BY DEF Init
  <2>q. QED BY <2>1, <2>2, <2>3, <2>4, <2>5, <2>6 DEF FilesTyped
<1>3. PollTyped
  BY <1>1, TranscriptsAssumption DEF Init, PollTyped, PollState, Idler, NoScan
<1>4. StoreTyped BY TranscriptsAssumption DEF Init, StoreTyped, NoFile
<1>5. CursorHonest BY DEF Init, CursorHonest, NoFile
<1>q. QED BY <1>2, <1>3, <1>4, <1>5 DEF IInv, Typed

LEMMA StepKeeps == IInv /\ [Next]_vars => IInv'
<1> SUFFICES ASSUME IInv, [Next]_vars PROVE IInv' OBVIOUS
<1>1. CASE \E f \in Files, u \in BOOLEAN : Write(f, u) BY <1>1, WriteKeeps
<1>2. CASE \/ \E says \in {"open", "private"} : Command(says)
           \/ Returns \/ CommandKilled \/ Lapses
  <2> USE <1>2 DEF Command, Returns, CommandKilled, Lapses
  <2>1. FilesTyped' BY DEF IInv, Typed, FilesTyped, Existing
  <2>2. PollTyped' BY DEF IInv, Typed, PollTyped, Existing
  <2>q. QED BY <2>1, <2>2, StoresKept DEF IInv, Typed
<1>3. CASE Tick \/ Asleep BY <1>3, TickKeeps
<1>4. CASE \E f \in Files : SessionEnd(f) BY <1>4, SessionEndKeeps
<1>5. CASE PollStep
  BY <1>5, PollStartKeeps, PollStatKeeps, PollReadKeeps, PollEndKeeps DEF PollStep
<1>6. CASE PollKilled \/ CursorsWiped BY <1>6, FaultsKeep
<1>7. CASE UNCHANGED vars
  <2>1. FilesTyped' BY <1>7 DEF IInv, Typed, FilesTyped, Existing, vars
  <2>2. PollTyped' BY <1>7 DEF IInv, Typed, PollTyped, Existing, vars
  <2>q. QED BY <1>7, <2>1, <2>2, StoresKept DEF IInv, Typed, vars
<1>q. QED BY <1>1, <1>2, <1>3, <1>4, <1>5, <1>6, <1>7 DEF Next

(* Files, cursors and stores are well-typed, no cursor is ahead of its     *)
(* transcript, and each cursor says the truth.                             *)
THEOREM Inductive == Spec => []IInv
BY InitHolds, StepKeeps, PTL DEF Spec

(* The operator is told the truth about incognito while no command has the *)
(* file truncated.                                                         *)
THEOREM PolicyTold == Spec => []Policied
<1>1. Init => Policied BY DEF Init, Policied
<1>2. Policied /\ [Next]_vars => Policied'
  <2> SUFFICES ASSUME Policied, [Next]_vars PROVE Policied' OBVIOUS
  <2>1. CASE \E says \in {"open", "private"} : Command(says)
    BY <2>1 DEF Policied, Command
  <2>2. CASE Returns BY <2>2 DEF Policied, Returns
  <2>3. CASE CommandKilled BY <2>3 DEF Policied, CommandKilled
  <2>4. CASE Lapses BY <2>4 DEF Policied, Lapses
  <2>5. CASE UNCHANGED policyVars BY <2>5 DEF Policied, policyVars
  <2>q. QED
    BY <2>1, <2>2, <2>3, <2>4, <2>5
       DEF Next, vars, Write, Tick, Asleep, SessionEnd, PollStep, PollStart, PollStat,
           PollRead, PollEnd, PollKilled, CursorsWiped
<1>q. QED BY <1>1, <1>2, PTL DEF Spec

(* Type correctness, with the bounds of ages, cursors and mtimes.          *)
THEOREM TypeCorrect == Spec => []TypeOK
<1>1. ASSUME IInv, Policied PROVE TypeOK
  <2>1. ASSUME NEW f \in Files
        PROVE  /\ file[f].mtime \in 0..Writes[f] /\ file[f].said \in 0..file[f].mtime
               /\ file[f].age \in 0..(MaxAge + 1) /\ cursor[f] \in 0..file[f].mtime
    BY <1>1, TranscriptsAssumption DEF IInv, Typed, FilesTyped, StoreTyped, FileState
  <2>2. dirTime \in 0..Cardinality(Files)
    <3>1. Existing \in SUBSET Files BY DEF Existing
    <3>q. QED
      BY <1>1, <3>1, FS_Subset, FS_CardinalityType, TranscriptsAssumption
         DEF IInv, Typed, FilesTyped
  <2>3. dirCursor.m \in 0..dirTime /\ dirCursor.age \in 0..Rescan
    BY <1>1, <2>2, FS_CardinalityType, TranscriptsAssumption DEF IInv, Typed, PollTyped
  <2>4. \A f \in Files : stored[f] \in [1..Writes[f] -> Nat]
    BY <1>1 DEF IInv, Typed, StoreTyped
  <2>5. /\ poll.pc \in {"idle", "next", "read"} /\ poll.todo \subseteq Files
        /\ poll.pc = "read" => poll.of \in Files
    BY <1>1 DEF IInv, Typed, PollTyped, PollState, Existing
  <2>q. QED
    BY <1>1, <2>1, <2>2, <2>3, <2>4, <2>5
       DEF TypeOK, IInv, Typed, FilesTyped, StoreTyped, Policied
<1>q. QED BY <1>1, Inductive, PolicyTold, PTL

(* One content of a session is stored at most once by hook, poller,        *)
(* retries and after wiped cursors (capture.ts: dedup).                    *)
THEOREM EachStoredOnce == Spec => []StoredOnce
<1>1. ASSUME IInv, NEW f \in Files, NEW h \in 1..Writes[f] PROVE stored[f][h] <= 1
  <2>1. stored[f][h] \in {0, 1} BY <1>1 DEF IInv, Typed, StoreTyped
  <2>q. QED BY <2>1
<1>2. IInv => StoredOnce BY <1>1 DEF StoredOnce
<1>q. QED BY <1>2, Inductive, PTL

(* A cursor at the end of its transcript means that it was dealt with: no  *)
(* failure, crash or write in between leaves a session silently skipped.   *)
THEOREM CursorsHonest == Spec => []CursorHonest
<1>1. IInv => CursorHonest BY DEF IInv
<1>q. QED BY <1>1, Inductive, PTL

(* captureSession asks the policy itself, so a tick that began before      *)
(* incognito stores nothing during it; and no rewrite, lapse or killed     *)
(* command lets the file say other than what the operator was told, save   *)
(* while a rewrite has it truncated.                                       *)
THEOREM PrivateStoresNothing == Spec => NothingWhilePrivate
<1>1. ASSUME Policied, [Next]_vars, private, cli = "none" PROVE stored' = stored
  <2>1. Suspended BY <1>1 DEF Policied, Suspended
  <2>q. QED
    BY <1>1, <2>1, OnlyCaptureStores DEF SessionEnd, CaptureSession, Stores
<1>2. Policied /\ [Next]_vars => [private /\ cli = "none" => stored' = stored]_vars BY <1>1
<1>q. QED BY <1>2, PolicyTold, PTL DEF Spec, NothingWhilePrivate

(* A session with an incognito row is never stored, whoever meets it next. *)
THEOREM MarkedStaysOut == Spec => MarkedNeverStored
<1>1. ASSUME IInv, [Next]_vars, NEW f \in marked PROVE stored'[f] = stored[f]
  <2>1. f \in Files /\ stored = [g \in Files |-> stored[g]]
    BY <1>1 DEF IInv, Typed, StoreTyped
  <2>2. ASSUME NEW g, NEW h, CaptureSession(g, h) PROVE stored'[f] = stored[f]
    <3>1. CASE g = f BY <2>2, <3>1 DEF CaptureSession, Stores, SeenIncognito
    <3>2. CASE g # f BY <2>1, <2>2, <3>2 DEF CaptureSession
    <3>q. QED BY <3>1, <3>2
  <2>q. QED BY <1>1, <2>2, OnlyCaptureStores DEF SessionEnd
<1>2. IInv /\ [Next]_vars => [\A f \in marked : stored'[f] = stored[f]]_vars BY <1>1
<1>q. QED BY <1>2, Inductive, PTL DEF Spec, MarkedNeverStored

==============================================================================
