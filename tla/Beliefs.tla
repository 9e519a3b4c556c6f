-------------------------------- MODULE Beliefs --------------------------------
(***************************************************************************)
(* The life of a belief.  The operator's sessions believe, retract, review *)
(* and correct through MCP; the biographer drafts candidates; the nightly  *)
(* dream expires, deduplicates, promotes or has them judged against their  *)
(* head, merges topics and replays corrections; `robin beliefs reconcile`  *)
(* judges the conflicted ones again.  They are separate processes on one   *)
(* database.  A pass reads, awaits an embedder or an LLM, and then writes  *)
(* by id: between its steps everybody else may act.                        *)
(*                                                                         *)
(* The answers of embedder and LLM are arbitrary.  Provenance "external"   *)
(* stands for the gates of resolveBeliefCandidate other than the one on    *)
(* claims about Robin.  Days are the unit of age; corroboration counts and *)
(* confidences only break ties, so ties are broken arbitrarily.            *)
(***************************************************************************)
EXTENDS BeliefStream, FiniteSets

CONSTANTS
    Cands,           \* ids of candidates, in the order of drafting
    Drafts,          \* what the biographer may extract: topic, claim, prov
    Sayings,         \* what a session may believe: topic, claim, retracted
    Amendments,      \* what the operator may correct: topic, claim or None, a
                     \* blank text
    Near,            \* pairs of claims within nearDupRatio
    Paraphrases,     \* pairs of claims above DEDUP_COSINE_THRESHOLD
    Rephrasings,     \* pairs of claims that isRephrasingOfHead accepts
    Legacy,          \* the rows of an older release
    Passes,          \* who judges: "dream", and "cli" for reconcile
    PromoteAge,      \* promoteAgeDays
    ExpiryAge,       \* candidateExpiryDays
    ConflictAge,     \* conflictExpiryDays
    MaxJudged,       \* reconcileMaxPerRun
    MaxInputs,       \* bound: beliefs, corrections, drafts and reconciles
    MaxFaults        \* bound: deaths of a pass and writes that throw

ASSUME BeliefsAssumption ==
    /\ Cands = 1..Cardinality(Cands) /\ IsFiniteSet(Cands)
    /\ Drafts \subseteq [topic : Topics, claim : Claims, prov : Provenance]
    /\ Sayings \subseteq [topic : Topics, claim : Claims, retracted : BOOLEAN]
    /\ Amendments \subseteq [topic : Topics, claim : Claims \cup {None}]
    /\ Near \subseteq Claims \X Claims /\ Paraphrases \subseteq Claims \X Claims
    /\ Rephrasings \subseteq Claims \X Claims
    /\ Legacy \in Seq(Row)
    /\ \A i \in DOMAIN Legacy : Legacy[i].sup < i /\ Legacy[i].key < i
    /\ {"dream"} \subseteq Passes /\ Passes \subseteq {"dream", "cli"}
    /\ PromoteAge \in Nat /\ ExpiryAge \in Nat /\ ConflictAge \in Nat
    /\ MaxJudged \in Nat \ {0}
    /\ MaxInputs \in Nat /\ MaxFaults \in Nat

VARIABLES
    rows,         \* the belief.update rows, by id
    cands,        \* [Cands -> record]: belief_candidates
    corrections,  \* the corrections with a topic, by id
    pass,         \* [Passes -> record]: what each pass has read
    due,          \* the night's dream is due
    refused,      \* history: how the operator's rejection met a candidate
    inputs, faults

vars == <<rows, cands, corrections, pass, due, refused, inputs, faults>>

NoCand == [status |-> "none", lapsed |-> FALSE, topic |-> None, claim |-> None,
           prov |-> "unknown", age |-> 0]
Resting == [pc |-> "idle", todo |-> {}, judged |-> {}, refined |-> {}, heads |-> {},
            left |-> {}]

Init ==
    /\ rows = Legacy
    /\ cands = [c \in Cands |-> NoCand]
    /\ corrections = << >>
    /\ pass = [j \in Passes |-> Resting]
    /\ due = FALSE
    /\ refused = [c \in Cands |-> "no"]
    /\ inputs = 0 /\ faults = 0

With(status) == {c \in Cands : cands[c].status = status}
First(S) == CHOOSE c \in S : \A d \in S : c <= d
Marked(S, status) ==
    [c \in Cands |-> IF c \in S THEN [cands[c] EXCEPT !.status = status] ELSE cands[c]]

-----------------------------------------------------------------------------
(* Promotion                                                               *)

Gated(c) == cands[c].prov = "external" \/ cands[c].claim \in Machinery

Promoted(c) ==
    Believe(rows, cands[c].topic, cands[c].claim, FALSE, cands[c].prov, None)

(* resolveBeliefCandidate with promote, once the row is known to be        *)
(* pending: a gate rejects, or the claim is believed and the row resolved. *)
Promote(c) ==
    /\ rows' = IF Gated(c) THEN rows ELSE Promoted(c)
    /\ cands' = [cands EXCEPT ![c].status = IF Gated(c) THEN "rejected" ELSE "promoted",
                              ![c].lapsed = FALSE]

(* applyVerdict writes by id, whatever the row has become.  A head that    *)
(* was first-party when it was read is not superseded by a weaker claim.   *)
ApplyVerdict(item, verdict) ==
    LET c == item.cand
        Set(status) == /\ cands' = [cands EXCEPT ![c].status = status, ![c].lapsed = FALSE]
                       /\ UNCHANGED rows
    IN \/ verdict = "same" /\ Set("merged")
       \/ verdict \in {"contradicts", "unrelated"} /\ Set("conflicted")
       \/ /\ verdict = "refines"
          /\ IF item.firstParty /\ cands[c].prov # "first-party"
             THEN Set("conflicted") ELSE Promote(c)

-----------------------------------------------------------------------------
(* The operator's sessions, and the biographer                             *)

OperatorBelieves(said, explicit) ==
    /\ inputs < MaxInputs
    /\ MaySupersede(rows, said.topic, explicit)
    /\ inputs' = inputs + 1
    /\ rows' = Believe(rows, said.topic, said.claim, said.retracted, "unknown", explicit)
    /\ UNCHANGED <<cands, corrections, pass, due, refused, faults>>

(* A pass that has read candidate c and will write it by id.  The dedupe   *)
(* only ever rejects, which changes nothing for a rejected candidate.      *)
Held(c) ==
    \E j \in Passes : \/ pass[j].pc # "dedupe" /\ c \in pass[j].todo
                      \/ \E item \in pass[j].judged : item.cand = c

OperatorPromotes(c) ==
    /\ cands[c].status = "pending"
    /\ Promote(c)
    /\ UNCHANGED <<corrections, pass, due, refused, inputs, faults>>

OperatorRejects(c) ==
    /\ cands[c].status = "pending"
    /\ cands' = [cands EXCEPT ![c].status = "rejected"]
    /\ refused' = [refused EXCEPT ![c] = IF Held(c) THEN "late" ELSE "in time"]
    /\ UNCHANGED <<rows, corrections, pass, due, inputs, faults>>

OperatorCorrects(right) ==
    /\ inputs < MaxInputs
    /\ inputs' = inputs + 1
    /\ corrections' = Append(corrections, [topic |-> right.topic, claim |-> right.claim,
                                           applied |-> FALSE])
    /\ UNCHANGED <<rows, cands, pass, due, refused, faults>>

(* insertCandidateWithDedup, for a claim that is not about Robin itself: a *)
(* paraphrase of a pending candidate adds nothing, or puts its words in the*)
(* other's place.                                                          *)
DraftMerges(d, c) ==
    /\ d.claim \notin Machinery
    /\ c \in With("pending") /\ Alike(Paraphrases, cands[c].claim, d.claim)
    /\ cands[c].claim # d.claim /\ inputs < MaxInputs
    /\ inputs' = inputs + 1
    /\ cands' = [cands EXCEPT ![c].claim = d.claim]
    /\ UNCHANGED <<rows, corrections, pass, due, refused, faults>>

(* Otherwise, and when the embedder is down, only an identical candidate   *)
(* keeps it out.                                                           *)
DraftInserts(d) ==
    /\ d.claim \notin Machinery
    /\ \A c \in With("pending") : <<cands[c].topic, cands[c].claim>> # <<d.topic, d.claim>>
    /\ With("none") # {} /\ inputs < MaxInputs
    /\ inputs' = inputs + 1
    /\ cands' = [cands EXCEPT ![First(With("none"))] =
                     [status |-> "pending", lapsed |-> FALSE, topic |-> d.topic,
                      claim |-> d.claim, prov |-> d.prov, age |-> 0]]
    /\ UNCHANGED <<rows, corrections, pass, due, refused, faults>>

(* Midnight: the date in the external_ids changes, candidates are a day    *)
(* older.  The dream starts at night and is over before the next one.      *)
NextDay ==
    /\ pass["dream"].pc = "idle"
    /\ due' = TRUE
    /\ rows' = [i \in DOMAIN rows |-> [rows[i] EXCEPT !.today = FALSE]]
    /\ cands' = [c \in Cands |->
                    IF cands[c].status # "none" /\ cands[c].age <= ConflictAge
                    THEN [cands[c] EXCEPT !.age = @ + 1] ELSE cands[c]]
    /\ UNCHANGED <<corrections, pass, refused, inputs, faults>>

-----------------------------------------------------------------------------
(* The nightly dream, up to the judge                                      *)

Goes(j, next) == pass' = [pass EXCEPT ![j] = next]

OldPending(status, age) == {c \in With("pending") : status = "pending" /\ cands[c].age > age}    \* mutant
Expired(status, age) == {c \in With(status) : cands[c].age > age}

(* expireStaleCandidates and expireStaleConflicts; then the dedupe reads   *)
(* the pending rows and awaits their embeddings.                           *)
NightBegins ==
    LET gone == Expired("pending", ExpiryAge)
        lapsed == Expired("conflicted", ConflictAge)
    IN /\ due /\ pass["dream"].pc = "idle"
       /\ due' = FALSE
       /\ cands' = [c \in Cands |->
                       IF c \in lapsed
                       THEN [cands[c] EXCEPT !.status = "rejected", !.lapsed = TRUE]
                       ELSE Marked(gone, "rejected")[c]]
       /\ Goes("dream", [Resting EXCEPT !.pc = "dedupe", !.todo = With("pending") \ gone])
       /\ UNCHANGED <<rows, corrections, refused, inputs, faults>>

(* dedupePendingCandidates: every row joins the cluster of a seed like it, *)
(* seeds are unlike each other, and one row of each cluster is kept.       *)
Collapse ==
    LET old == pass["dream"].todo
        Like(c, d) == Alike(Paraphrases, cands[c].claim, cands[d].claim)
    IN /\ pass["dream"].pc = "dedupe"
       /\ \E seeds \in SUBSET old : \E of \in [old -> seeds] : \E kept \in [seeds -> old] :
            /\ \A c, d \in seeds : c # d => ~Like(c, d)
            /\ \A c \in old : Like(c, of[c])
            /\ \A s \in seeds : of[s] = s /\ of[kept[s]] = s
            /\ cands' = Marked({c \in old : c # kept[of[c]]}, "rejected")
       /\ Goes("dream", [pass["dream"] EXCEPT !.pc = "merge", !.todo = {}])
       /\ UNCHANGED <<rows, corrections, due, refused, inputs, faults>>

NoEmbedder ==
    /\ pass["dream"].pc = "dedupe"
    /\ Goes("dream", [pass["dream"] EXCEPT !.pc = "merge", !.todo = {}])
    /\ UNCHANGED <<rows, cands, corrections, due, refused, inputs, faults>>

(* The first half of promoteStableCandidates: of two stable candidates     *)
(* with nearly the same words one is merged away, across all topics.       *)
NearMerge ==
    LET stable == {c \in With("pending") : cands[c].age > PromoteAge}
        Like(c, d) == Alike(Near, cands[c].claim, cands[d].claim)
    IN /\ pass["dream"].pc = "merge"
       /\ \E kept \in SUBSET stable :
            /\ \A c, d \in kept : c # d => ~Like(c, d)
            /\ \A S \in SUBSET stable :
                  S # {} /\ (\A c \in S, d \in stable \ S : ~Like(c, d)) => S \cap kept # {}
            /\ cands' = Marked(stable \ kept, "merged")
            /\ Goes("dream", [pass["dream"] EXCEPT !.pc = "promote", !.todo = kept])
       /\ UNCHANGED <<rows, corrections, due, refused, inputs, faults>>

(* What the judge is shown of a candidate, and what is done without it.    *)
Item(c, from) ==
    LET head == rows[CurrentHead(rows, cands[c].topic)]
    IN [cand |-> c, from |-> from, firstParty |-> head.prov = "first-party",
        rephrased |-> Alike(Rephrasings, head.claim, cands[c].claim)]

(* The second half, one candidate: one that differs from its head goes to  *)
(* the judge, or waits when the judge has enough; the others are promoted, *)
(* unless somebody else has resolved them.                                 *)
Settle ==
    LET p == pass["dream"]
        c == First(p.todo)
        head == CurrentHead(rows, cands[c].topic)
        differs == head # None /\ rows[head].claim # cands[c].claim
        asks == differs /\ Cardinality(p.judged) < MaxJudged
    IN /\ p.pc = "promote" /\ p.todo # {}
       /\ IF ~differs /\ cands[c].status = "pending" THEN Promote(c)
          ELSE UNCHANGED <<rows, cands>>
       /\ Goes("dream", [p EXCEPT !.todo = @ \ {c},
                                  !.judged = IF asks THEN @ \cup {Item(c, "pending")} ELSE @])
       /\ UNCHANGED <<corrections, due, refused, inputs, faults>>

-----------------------------------------------------------------------------
(* The judge                                                               *)

AllRejected == With("conflicted") \cup With("rejected")    \* mutant

(* The conflicted rows, and those that expired as conflicts.               *)
Backlog == With("conflicted") \cup {c \in With("rejected") : cands[c].lapsed}

(* reconcileConflicts reads its rows and the heads they have now.          *)
CliReads ==
    LET items == {Item(c, cands[c].status) :
                     c \in {d \in Backlog : CurrentHead(rows, cands[d].topic) # None}}
    IN /\ pass["cli"].pc = "idle" /\ items # {}
       /\ inputs < MaxInputs
       /\ inputs' = inputs + 1
       /\ Goes("cli", [Resting EXCEPT !.pc = "promote", !.judged = items])
       /\ UNCHANGED <<rows, cands, corrections, due, refused, faults>>

NextItem(j) ==
    CHOOSE item \in pass[j].judged : \A other \in pass[j].judged : item.cand <= other.cand

(* A verdict arrives.  Only the first refinement of a topic is applied,    *)
(* and an expired row is only reopened to be merged or promoted.           *)
Judged(j, verdict) ==
    LET item == NextItem(j)
        topic == cands[item.cand].topic
        again == verdict = "refines" /\ topic \in pass[j].refined
        stays == item.from = "rejected" /\ verdict \in {"contradicts", "unrelated"}
    IN /\ pass[j].pc = "promote" /\ pass[j].todo = {} /\ pass[j].judged # {}
       /\ IF again \/ stays THEN UNCHANGED <<rows, cands>> ELSE ApplyVerdict(item, verdict)
       /\ Goes(j, [pass[j] EXCEPT !.judged = @ \ {item},
                                  !.refined = IF verdict = "refines" THEN @ \cup {topic}
                                              ELSE @])
       /\ UNCHANGED <<corrections, due, refused, inputs, faults>>

(* No verdict: the dream falls back on the words, reconcile on nothing.    *)
Unjudged(j) ==
    LET item == NextItem(j)
    IN /\ pass[j].pc = "promote" /\ pass[j].todo = {} /\ pass[j].judged # {}
       /\ cands' = IF j = "cli" THEN cands
                   ELSE Marked({item.cand}, IF item.rephrased THEN "merged" ELSE "conflicted")
       /\ Goes(j, [pass[j] EXCEPT !.judged = @ \ {item}])
       /\ UNCHANGED <<rows, corrections, due, refused, inputs, faults>>

CliEnds ==
    /\ pass["cli"].pc = "promote" /\ pass["cli"].judged = {}
    /\ Goes("cli", Resting)
    /\ UNCHANGED <<rows, cands, corrections, due, refused, inputs, faults>>

-----------------------------------------------------------------------------
(* Topic hygiene and the replay of corrections                             *)

(* runTopicHygiene loads the heads and awaits the judge of its pairs.      *)
TopicsRead ==
    /\ pass["dream"].pc = "promote" /\ pass["dream"].todo = {} /\ pass["dream"].judged = {}
    /\ Goes("dream", [Resting EXCEPT !.pc = "topics", !.heads = LoadedHeads(rows)])
    /\ UNCHANGED <<rows, cands, corrections, due, refused, inputs, faults>>

(* A pair is judged the same fact: the topic of head d is retired by a     *)
(* pointer under its exact slug, and touched no more in this run.          *)
MergeTopics(s, d) ==
    /\ pass["dream"].pc = "topics" /\ {s, d} \subseteq pass["dream"].heads /\ s # d
    /\ rows' = Ingested(rows, rows[d].topic, Pointer, TRUE, "unknown", d, d)
    /\ Goes("dream", [pass["dream"] EXCEPT !.heads = @ \ {d}])
    /\ UNCHANGED <<cands, corrections, due, refused, inputs, faults>>

(* The corrections that applyCorrections reads, and replays by id.         *)
Unapplied == {n \in DOMAIN corrections : ~corrections[n].applied}

(* No further pair, or no LLM.  applyCorrections then reads its rows.      *)
TopicsEnd ==
    /\ pass["dream"].pc = "topics"
    /\ Goes("dream", [Resting EXCEPT !.pc = "replay", !.left = Unapplied])
    /\ UNCHANGED <<rows, cands, corrections, due, refused, inputs, faults>>

(* The correction in hand.                                                 *)
Current == First(pass["dream"].left)

(* A live head is retracted by the operator's word.                        *)
Retract ==
    LET topic == corrections[Current].topic
        head == Recalled(rows, topic)
        live == head # None /\ ~rows[head].retracted
    IN /\ pass["dream"].pc = "replay" /\ pass["dream"].left # {}
       /\ rows' = IF live
                  THEN Believe(rows, topic, rows[head].claim, TRUE, "first-party", head)
                  ELSE rows
       /\ Goes("dream", [pass["dream"] EXCEPT !.pc = "assert",
                             !.heads = IF live THEN {Latest(rows', DOMAIN rows')}
                                       ELSE {head} \ {None}])
       /\ UNCHANGED <<cands, corrections, due, refused, inputs, faults>>

(* The row this correction just retracted, or the older retraction.        *)
Replaced == IF pass["dream"].heads = {} THEN None ELSE First(pass["dream"].heads)

(* The corrected claim supersedes the retraction, or the older one that    *)
(* stood.  A blank text asserts nothing, nor does one that believe refuses.*)
Assert ==
    LET right == corrections[Current]
    IN /\ pass["dream"].pc = "assert"
       /\ rows' = IF right.claim = None THEN rows
                  ELSE Believe(rows, right.topic, right.claim, FALSE, "first-party", Replaced)
       /\ Goes("dream", [pass["dream"] EXCEPT !.pc = "mark", !.heads = {}])
       /\ UNCHANGED <<cands, corrections, due, refused, inputs, faults>>

(* Whatever was asserted, the correction is marked applied.                *)
MarkApplied ==
    /\ pass["dream"].pc = "mark"
    /\ corrections' = [corrections EXCEPT ![Current].applied = TRUE]
    /\ Goes("dream", [pass["dream"] EXCEPT !.pc = "replay", !.left = @ \ {Current}])
    /\ UNCHANGED <<rows, cands, due, refused, inputs, faults>>

FinallyMarked ==    \* mutant
    /\ pass["dream"].pc \in {"replay", "assert", "mark"} /\ pass["dream"].left # {}
    /\ faults < MaxFaults
    /\ faults' = faults + 1
    /\ corrections' = [corrections EXCEPT ![Current].applied = TRUE]
    /\ Goes("dream", [pass["dream"] EXCEPT !.pc = "replay", !.heads = {},
                                           !.left = @ \ {Current}])
    /\ UNCHANGED <<rows, cands, due, refused, inputs>>

(* One of these three writes throws: the others stay, and the replay goes  *)
(* on with the next correction.                                            *)
Skips ==
    /\ pass["dream"].pc \in {"replay", "assert", "mark"} /\ pass["dream"].left # {}
    /\ faults < MaxFaults
    /\ faults' = faults + 1
    /\ Goes("dream", [pass["dream"] EXCEPT !.pc = "replay", !.heads = {},
                                           !.left = @ \ {Current}])
    /\ UNCHANGED <<rows, cands, corrections, due, refused, inputs>>

NightEnds ==
    /\ pass["dream"].pc = "replay" /\ pass["dream"].left = {}
    /\ Goes("dream", Resting)
    /\ UNCHANGED <<rows, cands, corrections, due, refused, inputs, faults>>

(* A pass is killed: between two steps, or between the belief and the row  *)
(* of a candidate that Settle promotes.                                    *)
Dies(j) ==
    /\ faults < MaxFaults /\ pass[j].pc # "idle"
    /\ faults' = faults + 1
    /\ Goes(j, Resting)
    /\ \/ UNCHANGED rows
       \/ /\ pass[j].pc = "promote" /\ pass[j].todo # {}
          /\ LET c == First(pass[j].todo)
                 head == CurrentHead(rows, cands[c].topic)
             IN /\ cands[c].status = "pending" /\ ~Gated(c)
                /\ head # None => rows[head].claim = cands[c].claim
                /\ rows' = Promoted(c)
    /\ UNCHANGED <<cands, corrections, due, refused, inputs>>

-----------------------------------------------------------------------------
Operator ==
    \/ \E said \in Sayings, i \in {None} \cup DOMAIN rows : OperatorBelieves(said, i)
    \/ \E c \in Cands : OperatorPromotes(c) \/ OperatorRejects(c)
    \/ \E right \in Amendments : OperatorCorrects(right)

Biographer == \E d \in Drafts : DraftInserts(d) \/ \E c \in Cands : DraftMerges(d, c)

Verdicts == {"same", "refines", "contradicts", "unrelated"}
Answers(j) == (\E v \in Verdicts : Judged(j, v)) \/ Unjudged(j)

DreamSteps ==
    \/ NightBegins \/ Collapse \/ NoEmbedder \/ NearMerge \/ Settle
    \/ Answers("dream") \/ TopicsRead
    \/ (\E s, d \in DOMAIN rows : MergeTopics(s, d)) \/ TopicsEnd
    \/ Retract \/ Assert \/ MarkApplied \/ NightEnds

CliSteps == "cli" \in Passes /\ (CliReads \/ Answers("cli") \/ CliEnds)

Next ==
    \/ Operator \/ Biographer \/ NextDay \/ DreamSteps \/ CliSteps
    \/ Skips \/ \E j \in Passes : Dies(j)

Spec == Init /\ [][Next]_vars

(* Midnight comes, and the scheduler runs the dream to its end: every await*)
(* of it has a timeout.                                                    *)
FairSpec == Spec /\ WF_vars(NextDay) /\ WF_vars(DreamSteps)

-----------------------------------------------------------------------------
CandState ==
    [status : {"none", "pending", "promoted", "rejected", "merged", "conflicted"},
     lapsed : BOOLEAN, topic : Topics \cup {None}, claim : Claims \cup {None},
     prov : Provenance, age : 0..(ConflictAge + 1)]
ItemState == [cand : Cands, from : {"pending", "conflicted", "rejected"},
              firstParty : BOOLEAN, rephrased : BOOLEAN]
PassState ==
    [pc : {"idle", "dedupe", "merge", "promote", "topics", "replay",
           "assert", "mark"},
     todo : SUBSET Cands, judged : SUBSET ItemState, refined : SUBSET Topics,
     heads : SUBSET Nat, left : SUBSET Nat]
CorrectionState == [topic : Topics, claim : Claims \cup {None}, applied : BOOLEAN]

TypeOK ==
    /\ rows \in Seq(Row)
    /\ cands \in [Cands -> CandState]
    /\ \A c \in Cands : cands[c].status # "none" =>
          cands[c].topic \in Topics /\ cands[c].claim \in Claims
    /\ corrections \in Seq(CorrectionState)
    /\ pass \in [Passes -> PassState]
    /\ \A j \in Passes :
          pass[j].heads \subseteq DOMAIN rows /\ pass[j].left \subseteq DOMAIN corrections
    /\ refused \in [Cands -> {"no", "late", "in time"}]
    /\ due \in BOOLEAN /\ inputs \in Nat /\ faults \in Nat

(* A row of the belief stream never supersedes itself, whatever is         *)
(* rewritten in place: belief.ts appends an explicit supersession and      *)
(* keeps a same-day re-set away from its own row.                          *)
NeverItself == \A i \in DOMAIN rows : rows[i].sup < i \/ rows[i].sup \in DOMAIN rows \ {i}

(* What the operator rejects before a pass has read it stays rejected,     *)
(* whatever verdicts, deaths and later runs bring: resolveBeliefCandidate  *)
(* and the passes act on pending rows only.                                *)
RejectionStands ==
    \A c \in Cands : refused[c] = "in time" => cands[c].status = "rejected"

(* dream.ts:1139 takes a candidate "resolved underneath us (race)" to be   *)
(* skipped: a rejection would stand even when a pass has read the          *)
(* candidate.                                                              *)
RaceIsSkipped == \A c \in Cands : refused[c] # "no" => cands[c].status = "rejected"

(* README.md:105: what is believed under a topic is what recall_belief     *)
(* then returns for it.                                                    *)
BelievedIsRecalled ==
    [][\A said \in Sayings :
          OperatorBelieves(said, None) /\ ~Blocked(said.claim, said.retracted) =>
             rows'[Recalled(rows', said.topic)].claim = said.claim]_vars

(* topic-hygiene.ts: when a topic is retired, the fact has a live head     *)
(* under the topic it was merged into.                                     *)
MergeKeepsFact ==
    [][\A s, d \in DOMAIN rows : MergeTopics(s, d) =>
          \E i \in Believed(rows') : rows[s].topic = rows'[i].topic]_vars

(* apply-corrections.ts: once a correction has been replayed, no candidate *)
(* of a weaker provenance takes its place, unless the operator has spoken  *)
(* since.                                                                  *)
CorrectionStands ==
    [][\A t \in Topics :
          LET i == Recalled(rows, t)
              j == Recalled(rows', t)
          IN i # None /\ rows[i].prov = "first-party" /\ ~rows[i].retracted
                => \/ rows'[j].prov = "first-party" \/ rows'[j].claim = rows[i].claim
                   \/ inputs' # inputs \/ rows'[j].claim = Pointer
                   \/ \E c \in Cands : OperatorPromotes(c)]_vars

(* apply-corrections.ts:10: a replay asserts the corrected value, "never   *)
(* leave a topic headless".                                                *)
NeverHeadless ==
    [][Assert => LET i == Recalled(rows', corrections[Current].topic)
                 IN i # None /\ ~rows'[i].retracted]_vars

(* No candidate waits for ever: a pending one is promoted, merged,         *)
(* rejected or found conflicting, and a conflicting one is decided or      *)
(* expires.                                                                *)
CandidatesSettle ==
    \A c \in Cands : cands[c].status \in {"pending", "conflicted"} ~>
                        cands[c].status \in {"promoted", "merged", "rejected"}

(* What a replay is to leave behind: the operator's words are what         *)
(* recall_belief returns for the topic; words that are blank or that       *)
(* believe refuses only take back what was believed.                       *)
Landed(right) ==
    LET i == Recalled(rows, right.topic)
    IN IF right.claim = None \/ Blocked(right.claim, FALSE)
       THEN i = None \/ rows[i].retracted
       ELSE /\ i # None /\ ~rows[i].retracted
            /\ rows[i].claim = right.claim /\ rows[i].prov = "first-party"

(* A correction that is not applied, nor in the hand of a replay that has  *)
(* retracted for it.                                                       *)
Waiting(right) ==
    \E n \in Unapplied :
        /\ corrections[n].topic = right.topic /\ corrections[n].claim = right.claim
        /\ pass["dream"].pc \in {"assert", "mark"} => n # Current

(* A correction lands in the end, through nights that are killed or fail   *)
(* between its writes and beside sessions that believe something else.  It *)
(* need not stay: what comes later supersedes it (CorrectionStands).       *)
CorrectionLands == \A right \in Amendments : Waiting(right) ~> Landed(right)
=============================================================================
