------------------------------ MODULE Biographer ------------------------------
(***************************************************************************)
(* The biographer (brain/cognition/biographer.ts): a detached child takes  *)
(* captured sessions chunk by chunk to the reasoning model, parks a cursor *)
(* when its budget or deadline is spent, drafts belief candidates from the *)
(* same chunks and finalizes the session with a biographer.extracted       *)
(* marker.  Chunks whose claims could not be drafted become dead letters   *)
(* (claim_failures), which the nightly dream, another process, drains.     *)
(*                                                                         *)
(* Every SQL statement is its own commit, so a child may be killed between *)
(* any two steps below.  A hard outage (subscription limit, spend cap) is  *)
(* an answer of the model that stops the tick; any other failure of a call *)
(* (timeout, bad JSON, schema) only loses that call.  A child that could   *)
(* not build its dispatcher (a models.yaml it cannot read, say) runs the   *)
(* tick all the same, blind: it finalizes every session it selects, and    *)
(* asks no model about any of their chunks.                                *)
(***************************************************************************)
EXTENDS Integers, SequencesExt

CONSTANTS
    Sessions,    \* captured personal sessions (their events)
    Bodies,      \* chunk bodies; two sessions may share one, byte for byte
    Text,        \* [Sessions -> Seq(Bodies)]: chunkBody(preprocessForExtraction)
    Spoken,      \* the bodies with [USER] content: they may carry claims
    ToolOnly,    \* the bodies skipToolChunks leaves out of the entity pass
    Unfit,       \* sessions too large, too small or without human content
    Budget,      \* maxChunksPerTick
    Batch,       \* batchChunks
    ClaimCap,    \* MAX_CLAIMS_PER_SESSION
    MaxAttempts, \* CLAIM_RETRY_MAX_ATTEMPTS
    PerPass,     \* rows a retry pass takes
    None,
    MaxFaults    \* bound: kills, hard outages and blind children

ASSUME BiographerAssumption ==
    /\ Text \in [Sessions -> Seq(Bodies)]
    /\ Spoken \subseteq Bodies /\ ToolOnly \subseteq Bodies
    /\ Spoken \cap ToolOnly = {}
    /\ Unfit \subseteq Sessions
    /\ Budget \in Nat \ {0} /\ Batch \in Nat \ {0} /\ ClaimCap \in Nat
    /\ MaxAttempts \in Nat /\ PerPass \in Nat \ {0}
    /\ None \notin Sessions /\ MaxFaults \in Nat

VARIABLES
    captured,   \* sessions with a session.captured event
    marks,      \* [Sessions -> Nat]: biographer.extracted rows
    parked,     \* [Sessions -> row or NoRow]: biographer_progress
    graph,      \* [Sessions -> SUBSET Nat]: chunks whose entities are upserted
    letters,    \* claim_failures, oldest first
    queue,      \* [Bodies -> session whose claim is pending, or None]
    child,      \* the biographer.run child
    drain,      \* the retry pass of the dream child
    fate,       \* history: what became of a chunk when a tick last came to it
    excused,    \* history: chunks that lost their claims to the cap, to retention
                \*   or to a blind child
    orphaned,   \* history: chunks that lost them to an entity-pass outage
    faults

vars == <<captured, marks, parked, graph, letters, queue, child,
          drain, fate, excused, orphaned, faults>>

-----------------------------------------------------------------------------
(* Rows                                                                    *)

N(s) == Len(Text[s])                \* totalChunks
BodyOf(s, i) == Text[s][i + 1]      \* chunks are numbered from 0, as in the code
Chunks == UNION {{<<s, i>> : i \in 0..(N(s) - 1)} : s \in Sessions}
Lower(a, b) == IF a < b THEN a ELSE b

NoRow == [next |-> -1, got |-> {}]
NoChild == [pc |-> "none", of |-> None, from |-> 0, at |-> 0, end |-> 0,
            budget |-> 0, resume |-> FALSE, got |-> {},
            late |-> FALSE, out |-> FALSE, blind |-> FALSE]
NoDrain == [pc |-> "idle", rows |-> <<>>]

Init ==
    /\ captured = {}
    /\ marks = [s \in Sessions |-> 0]
    /\ parked = [s \in Sessions |-> NoRow]
    /\ graph = [s \in Sessions |-> {}]
    /\ letters = <<>>
    /\ queue = [b \in Bodies |-> None]
    /\ child = NoChild
    /\ drain = NoDrain
    /\ fate = [s \in Sessions |-> [i \in 0..(N(s) - 1) |-> "none"]]
    /\ excused = {}
    /\ orphaned = {}
    /\ faults = 0

Fates == {"none", "seen", "lost", "tool", "outage", "unasked"}
ChildPlaces == {"none", "choose", "extract", "claims", "drafting", "defer",
                "settle", "mark", "unpark"}
ChildState == [pc : ChildPlaces, of : Sessions \cup {None}, from : Nat, at : Nat,
               end : Nat, budget : Nat, resume : BOOLEAN, got : SUBSET Nat,
               late : BOOLEAN, out : BOOLEAN, blind : BOOLEAN]
Letters == [of : Chunks, tries : Nat]

TypeOK ==
    /\ captured \subseteq Sessions
    /\ marks \in [Sessions -> Nat]
    /\ parked \in [Sessions -> [next : Nat \cup {-1}, got : SUBSET Nat]]
    /\ graph \in [Sessions -> SUBSET Nat]
    /\ letters \in Seq(Letters)
    /\ queue \in [Bodies -> Sessions \cup {None}]
    /\ child \in ChildState
    /\ drain \in [pc : {"idle", "next"}, rows : Seq(Chunks)]
    /\ DOMAIN fate = Sessions /\ \A s \in Sessions : fate[s] \in [0..(N(s) - 1) -> Fates]
    /\ excused \subseteq Chunks /\ orphaned \subseteq Chunks
    /\ faults \in 0..MaxFaults

FreshAgain(s) == s \in captured /\ parked[s] = NoRow    \* mutant: no marker test
Fresh(s) == s \in captured /\ marks[s] = 0 /\ parked[s] = NoRow
ResumableLater(s) == parked[s].next > 0 /\ parked[s].next < N(s)    \* mutant
Resumable(s) == parked[s] # NoRow /\ parked[s].next < N(s)
HasWork == \E s \in Sessions : Fresh(s) \/ Resumable(s)

Pending(s) == {b \in Bodies : queue[b] = s}

-----------------------------------------------------------------------------
(* claim_failures                                                          *)

Lettered(ls, b) == \E k \in DOMAIN ls : BodyOf(ls[k].of[1], ls[k].of[2]) = b
Open(l) == l.tries < MaxAttempts

(* The rows of ls at the places K, in their order.                         *)
RowsAt(ls, K) == [j \in 1..Cardinality(K) |->
                     ls[CHOOSE k \in K : Cardinality({i \in K : i <= k}) = j]]

(* A row that exists is bumped, and becomes the newest; a new one is only  *)
(* written for a body that no row holds.                                   *)
RecordUncounted(ls, c) ==    \* mutant: a failed retry does not count
    IF Lettered(ls, BodyOf(c[1], c[2])) THEN ls ELSE Append(ls, [of |-> c, tries |-> 1])
RecordClaimFailure(ls, c) ==
    LET own == {k \in DOMAIN ls : ls[k].of = c} IN
    IF own # {}
    THEN LET k == CHOOSE k \in own : TRUE IN
         Append(RowsAt(ls, DOMAIN ls \ {k}), [of |-> c, tries |-> ls[k].tries + 1])
    ELSE IF Lettered(ls, BodyOf(c[1], c[2])) THEN ls
    ELSE Append(ls, [of |-> c, tries |-> 1])

DraftsTopic(s, b) == queue' = [queue EXCEPT ![b] = b]    \* mutant: the wrong column
Drafts(s, b) == queue' = [queue EXCEPT ![b] = IF @ = None THEN s ELSE @]

-----------------------------------------------------------------------------
(* A tick of the biographer child                                          *)

(* Only Spawn and Choose read the captured sessions: one that arrives      *)
(* between two other steps of a tick might as well arrive after them.      *)
Capture(s) ==
    /\ s \notin captured /\ child.pc \in {"none", "choose"}
    /\ captured' = captured \cup {s}
    /\ UNCHANGED <<marks, parked, graph, letters, queue, child, drain,
                   fate, excused, orphaned, faults>>

(* llm stays null where the dispatcher cannot be built.                    *)
Spawn ==
    /\ child.pc = "none" /\ HasWork
    /\ \E blind \in BOOLEAN :
         /\ child' = [NoChild EXCEPT !.pc = "choose", !.budget = Budget, !.blind = blind]
         /\ blind => faults < MaxFaults
         /\ faults' = IF blind THEN faults + 1 ELSE faults
    /\ UNCHANGED <<captured, marks, parked, graph, letters, queue,
                   drain, fate, excused, orphaned>>

Unasked(s, from) ==
    [fate EXCEPT ![s] = [i \in DOMAIN @ |-> IF i >= from THEN "unasked" ELSE @[i]]]

(* With a model, the window of the budget; blind, the rest of the session, *)
(* which neither pass is run for and which spends no budget.               *)
Working(s, next, got, resume) ==
    LET taken == [child EXCEPT !.of = s, !.from = next, !.at = next, !.got = got,
                               !.resume = resume, !.out = FALSE] IN
    \/ /\ ~child.blind
       /\ child' = [taken EXCEPT !.pc = "extract", !.end = Lower(next + child.budget, N(s))]
       /\ fate' = fate
    \/ /\ child.blind
       /\ child' = [taken EXCEPT !.pc = "settle", !.end = N(s)]
       /\ fate' = Unasked(s, next)

(* selectBiographerTarget: a parked session first, then the shortest one.  *)
TargetsAnyOrder == {s \in Sessions : Resumable(s) \/ Fresh(s)}   \* mutant
Targets ==
    IF \E s \in Sessions : Resumable(s) THEN {s \in Sessions : Resumable(s)}
    ELSE {s \in Sessions : Fresh(s) /\ \A t \in Sessions : Fresh(t) => N(s) <= N(t)}

(* A parked session takes up the entities and relations of its row.        *)
RestoredEmpty(s) == {}    \* mutant
Restored(s) == parked[s].got

Choose ==
    /\ child.pc = "choose"
    /\ \/ /\ child.budget = 0 \/ child.late \/ Targets = {}
          /\ child' = NoChild /\ UNCHANGED <<marks, fate>>
       \/ /\ child.budget # 0 /\ ~child.late
          /\ \E s \in Targets :
               \/ /\ Resumable(s)
                  /\ Working(s, parked[s].next, Restored(s), TRUE)
                  /\ marks' = marks
               \/ /\ ~Resumable(s)
                  /\ IF s \in Unfit
                     THEN marks' = [marks EXCEPT ![s] = @ + 1] /\ UNCHANGED <<child, fate>>
                     ELSE Working(s, 0, {}, FALSE) /\ marks' = marks
    /\ UNCHANGED <<captured, parked, graph, letters, queue, drain,
                   excused, orphaned, faults>>

(* The next batch: the first Batch chunks of the window that are not       *)
(* tool-only, and the place after them.                                    *)
Heard == {i \in child.at..(child.end - 1) : BodyOf(child.of, i) \notin ToolOnly}
NextBatch == {i \in Heard : Cardinality({j \in Heard : j < i}) < Batch}
AfterBatch == IF NextBatch # Heard
              THEN 1 + CHOOSE i \in NextBatch : \A j \in NextBatch : j <= i
              ELSE child.end

(* The tick's deadline is only ever crossed while the model is awaited.    *)
Later(late) == {late, TRUE}

ParkPast == AfterBatch    \* mutant: the cursor is parked behind the failed batch
ParkAt == CHOOSE i \in NextBatch : \A j \in NextBatch : i <= j    \* batch[0]

(* What becomes of the chunks of this step: `what` for those asked about;  *)
(* an outage says nothing of a chunk that an earlier tick was answered on. *)
Answer(was, what) == IF what = "outage" /\ was # "none" THEN was ELSE what
Fated(what) ==
    fate' = [fate EXCEPT ![child.of] = [i \in DOMAIN @ |->
                IF i \in NextBatch THEN Answer(@[i], what)
                ELSE IF i \in child.at..(AfterBatch - 1) THEN "tool" ELSE @[i]]]

Spoke(a, e) == {<<child.of, i>> : i \in {j \in a..(e - 1) : BodyOf(child.of, j) \in Spoken}}

(* One batch of the entity pass, answered, failed or stopped by an outage: *)
(* then the claims pass of the chunks before it never runs.                *)
Extract ==
    /\ child.pc = "extract" /\ child.at < child.end /\ ~child.late
    /\ \/ /\ \E late \in Later(child.late) :
               child' = [child EXCEPT !.at = AfterBatch, !.got = @ \cup NextBatch,
                                      !.late = late]
          /\ Fated("seen")
          /\ UNCHANGED <<parked, excused, orphaned, faults>>
       \/ /\ NextBatch # {}
          /\ \E late \in Later(child.late) :
               child' = [child EXCEPT !.at = AfterBatch, !.late = late]
          /\ Fated("lost")
          /\ UNCHANGED <<parked, excused, orphaned, faults>>
       \/ /\ NextBatch # {} /\ faults < MaxFaults
          /\ faults' = faults + 1
          /\ parked' = [parked EXCEPT ![child.of] = [next |-> ParkAt, got |-> child.got]]
          /\ child' = NoChild
          /\ Fated("outage")
          /\ orphaned' = orphaned \cup Spoke(child.from, ParkAt)
          /\ UNCHANGED excused
    /\ UNCHANGED <<captured, marks, graph, letters, queue, drain>>

(* The window is over, or is clipped by the deadline.                      *)
CloseWindow ==
    /\ child.pc = "extract" /\ (child.at = child.end \/ child.late)
    /\ child' = [child EXCEPT !.pc = "claims", !.end = child.at, !.at = child.from,
                              !.budget = @ - (child.at - child.from)]
    /\ UNCHANGED <<captured, marks, parked, graph, letters, queue,
                   drain, fate, excused, orphaned, faults>>

(* Where the chunks start that are put aside when the deadline has passed. *)
DeferFromNext == child.at + 1    \* mutant: as after an outage
DeferFrom == child.at

ClaimsStep ==
    /\ child.pc = "claims"
    /\ \/ /\ child.at = child.end
          /\ child' = [child EXCEPT !.pc = "settle"]
          /\ UNCHANGED excused
       \/ /\ child.at < child.end /\ child.late
          /\ child' = [child EXCEPT !.pc = "defer", !.at = DeferFrom]
          /\ UNCHANGED excused
       \/ /\ child.at < child.end /\ ~child.late
          /\ Cardinality(Pending(child.of)) >= ClaimCap
          /\ child' = [child EXCEPT !.pc = "settle"]
          /\ excused' = excused \cup Spoke(child.at, child.end)
       \/ /\ child.at < child.end /\ ~child.late
          /\ Cardinality(Pending(child.of)) < ClaimCap
          /\ LET b == BodyOf(child.of, child.at) IN
             child' = IF b \in Spoken /\ ~Lettered(letters, b)
                      THEN [child EXCEPT !.pc = "drafting"]
                      ELSE [child EXCEPT !.at = @ + 1]
          /\ UNCHANGED excused
    /\ UNCHANGED <<captured, marks, parked, graph, letters, queue, drain, fate,
                   orphaned, faults>>

Drafted ==
    /\ child.pc = "drafting"
    /\ \E late \in Later(child.late) :
       \/ /\ Drafts(child.of, BodyOf(child.of, child.at))
          /\ child' = [child EXCEPT !.pc = "claims", !.at = @ + 1, !.late = late]
          /\ UNCHANGED <<letters, faults>>
       \/ /\ letters' = RecordClaimFailure(letters, <<child.of, child.at>>)
          /\ child' = [child EXCEPT !.pc = "claims", !.at = @ + 1, !.late = late]
          /\ UNCHANGED <<queue, faults>>
       \/ /\ faults < MaxFaults
          /\ faults' = faults + 1
          /\ letters' = RecordClaimFailure(letters, <<child.of, child.at>>)
          /\ child' = [child EXCEPT !.pc = "defer", !.at = @ + 1, !.late = late,
                                    !.out = TRUE]
          /\ UNCHANGED queue
    /\ UNCHANGED <<captured, marks, parked, graph, drain, fate, excused, orphaned>>

(* Past the deadline, or after an outage, the spoken chunks that are left  *)
(* become dead letters one by one, and none is asked about.                *)
Defer ==
    /\ child.pc = "defer"
    /\ \/ /\ child.at = child.end
          /\ child' = [child EXCEPT !.pc = "settle"]
          /\ UNCHANGED letters
       \/ /\ child.at < child.end
          /\ child' = [child EXCEPT !.at = @ + 1]
          /\ letters' = IF BodyOf(child.of, child.at) \in Spoken
                        THEN RecordClaimFailure(letters, <<child.of, child.at>>)
                        ELSE letters
    /\ UNCHANGED <<captured, marks, parked, graph, queue, drain, fate, excused,
                   orphaned, faults>>

Onward(c) == [NoChild EXCEPT !.pc = "choose", !.budget = c.budget, !.late = c.late,
                             !.blind = c.blind]
After(c) == IF c.out THEN NoChild ELSE Onward(c)

(* The rest of an unfinished session is parked with what it has so far.    *)
Settle ==
    /\ child.pc = "settle"
    /\ IF child.end < N(child.of)
       THEN /\ parked' = [parked EXCEPT ![child.of] = [next |-> child.end, got |-> child.got]]
            /\ child' = Onward(child)
            /\ UNCHANGED graph
       ELSE /\ graph' = [graph EXCEPT ![child.of] = @ \cup child.got]
            /\ \E late \in Later(child.late) :
                 child' = [child EXCEPT !.pc = "mark", !.late = late]
            /\ UNCHANGED parked
    /\ UNCHANGED <<captured, marks, letters, queue, drain, fate, excused, orphaned, faults>>

Mark ==
    /\ child.pc = "mark"
    /\ marks' = [marks EXCEPT ![child.of] = @ + 1]
    /\ child' = IF child.resume THEN [child EXCEPT !.pc = "unpark"] ELSE After(child)
    /\ excused' = IF child.blind THEN excused \cup Spoke(child.from, child.end) ELSE excused
    /\ UNCHANGED <<captured, parked, graph, letters, queue, drain, fate,
                   orphaned, faults>>

Unpark ==
    /\ child.pc = "unpark"
    /\ parked' = [parked EXCEPT ![child.of] = NoRow]
    /\ child' = After(child)
    /\ UNCHANGED <<captured, marks, graph, letters, queue, drain, fate,
                   excused, orphaned, faults>>

Kill ==
    /\ child.pc # "none" /\ faults < MaxFaults
    /\ faults' = faults + 1
    /\ child' = NoChild
    /\ UNCHANGED <<captured, marks, parked, graph, letters, queue,
                   drain, fate, excused, orphaned>>

-----------------------------------------------------------------------------
(* retryClaimFailures, run by the dream child                              *)

OpenRows == RowsAt(letters, {k \in DOMAIN letters : Open(letters[k])})

DrainStart ==
    /\ drain.pc = "idle" /\ letters # <<>>
    /\ drain' = [pc |-> "next", rows |-> [k \in 1..Lower(PerPass, Len(OpenRows)) |->
                                           OpenRows[k].of]]
    /\ UNCHANGED <<captured, marks, parked, graph, letters, queue,
                   child, fate, excused, orphaned, faults>>

Delivered(c) == RowsAt(letters, {k \in DOMAIN letters : letters[k].of # c})
DrainReply ==
    /\ drain.pc = "next" /\ drain.rows # <<>>
    /\ LET c == Head(drain.rows) IN
       \/ /\ Drafts(c[1], BodyOf(c[1], c[2]))
          /\ letters' = Delivered(c)
          /\ drain' = [pc |-> "next", rows |-> Tail(drain.rows)]
          /\ UNCHANGED faults
       \/ /\ letters' = RecordClaimFailure(letters, c)
          /\ drain' = [pc |-> "next", rows |-> Tail(drain.rows)]
          /\ UNCHANGED <<queue, faults>>
       \/ /\ faults < MaxFaults
          /\ faults' = faults + 1
          /\ drain' = [pc |-> "next", rows |-> <<>>]
          /\ UNCHANGED <<queue, letters>>
    /\ UNCHANGED <<captured, marks, parked, graph, child, fate, excused, orphaned>>

(* The claims pass, of this tick or an earlier one, is past the chunk.     *)
Finalized(s) == marks[s] > 0 /\ s \notin Unfit
Claimed(s, i) == \/ Finalized(s) \/ parked[s].next > i
                 \/ /\ child.of = s /\ child.pc \in {"claims", "drafting", "defer"}
                    /\ i < child.at
                 \/ /\ child.of = s /\ child.pc \in {"settle", "mark"}
                    /\ i < child.end /\ ~child.blind

(* The pass ends: of the exhausted rows those past retention go.  (It also *)
(* records or resolves the backlog alert, which nothing here reads.)       *)
DrainEnd ==
    /\ drain.pc = "next" /\ drain.rows = <<>>
    /\ \E old \in SUBSET {letters[k].of : k \in {j \in DOMAIN letters : ~Open(letters[j])}} :
         /\ letters' = RowsAt(letters, {k \in DOMAIN letters : letters[k].of \notin old})
         /\ excused' = excused \cup {c \in Chunks : Claimed(c[1], c[2])
               /\ \E o \in old : BodyOf(c[1], c[2]) = BodyOf(o[1], o[2])}
    /\ drain' = NoDrain
    /\ UNCHANGED <<captured, marks, parked, graph, queue, child, fate, orphaned,
                   faults>>

DrainKilled ==
    /\ drain.pc # "idle" /\ faults < MaxFaults
    /\ faults' = faults + 1
    /\ drain' = NoDrain
    /\ UNCHANGED <<captured, marks, parked, graph, letters, queue,
                   child, fate, excused, orphaned>>

ChildStep == \/ Spawn \/ Choose \/ Extract \/ CloseWindow \/ ClaimsStep
             \/ Drafted \/ Defer \/ Settle \/ Mark \/ Unpark
DrainStep == DrainStart \/ DrainReply \/ DrainEnd

Next ==
    \/ \E s \in Sessions : Capture(s)
    \/ ChildStep \/ Kill
    \/ DrainStep \/ DrainKilled

Spec == Init /\ [][Next]_vars
FairSpec == Spec /\ WF_vars(ChildStep) /\ WF_vars(DrainStep)

-----------------------------------------------------------------------------
(* Properties                                                              *)

Passed(s, i) == Finalized(s) \/ parked[s].next > i

(* The cursor and the marker never move past content the model has not     *)
(* seen because of an outage: of every chunk behind them the entity pass   *)
(* was answered, failed on that chunk alone or left a tool chunk out, or a *)
(* blind child finalized the session with nothing asked, as its comment    *)
(* has it ("the historical no-LLM marker behavior").                       *)
NothingSkipped ==
    \A s \in Sessions : \A i \in 0..(N(s) - 1) :
        Passed(s, i) => fate[s][i] \in {"seen", "lost", "tool", "unasked"}

(* What earlier ticks extracted survives the ticks, kills and outages      *)
(* between them: a finalized session, not being extracted again, has the   *)
(* entities of every chunk whose last extraction was answered.             *)
EntitiesKept ==
    \A s \in Sessions : Finalized(s) /\ parked[s] = NoRow =>
        {i \in 0..(N(s) - 1) : fate[s][i] = "seen"} \subseteq graph[s]

(* No claims are lost on the way: a spoken chunk behind the cursor is      *)
(* drafted, or a dead letter holds its body, or a named path gave it up    *)
(* (the session cap, an exhausted letter past retention, a child with no   *)
(* model, an entity-pass outage).                                          *)
Held(s, i) == LET b == BodyOf(s, i) IN queue[b] # None \/ Lettered(letters, b)
ClaimsAccounted ==
    \A s \in Sessions : \A i \in 0..(N(s) - 1) :
        Passed(s, i) /\ BodyOf(s, i) \in Spoken
            => Held(s, i) \/ <<s, i>> \in excused \cup orphaned

(* The same with no exception for the outage, as the comments of the       *)
(* claims pass have it: no cursor advances past undrafted claims.          *)
EveryClaimKept ==
    \A s \in Sessions : \A i \in 0..(N(s) - 1) :
        Passed(s, i) /\ BodyOf(s, i) \in Spoken
            => Held(s, i) \/ <<s, i>> \in excused

(* Partially extracted work finishes before a new session is started.      *)
OneInProgress == Cardinality({s \in Sessions : parked[s] # NoRow}) <= 1

(* A session is extracted again only where a kill tore its marker from its *)
(* progress row.                                                           *)
MarkedOnce == \A s \in Sessions : marks[s] <= 1 + faults

(* No session is stranded: in spite of kills and outages every captured    *)
(* session gets its marker (there are finitely many of them).              *)
EverySessionExtracted == <>[](\A s \in captured : marks[s] > 0)

(* The dead letters drain: each is delivered or exhausted in the end.      *)
LettersDrain == <>[](\A k \in DOMAIN letters : ~Open(letters[k]))
=============================================================================
