----------------------------- MODULE BeliefStream -----------------------------
(***************************************************************************)
(* The belief.update rows of the events table and what reads and writes    *)
(* them: believe and recallBelief (brain/memory/belief.ts), the upsert of  *)
(* ingest, currentHead of belief-reconcile.ts and loadHeads of             *)
(* topic-hygiene.ts.  Rows are numbered by id; an upsert rewrites a row in *)
(* place and gives it a new ts (at), so the latest row of a topic need not *)
(* be the one with the highest id.                                         *)
(***************************************************************************)
EXTENDS Integers, Sequences

CONSTANTS
    Topics,    \* slugs that normalizeTopic returns
    Canon,     \* [Topics -> Topics]: canonicalizeTopic
    Claims,
    Machinery, \* the claims about Robin itself that isLowQualityClaim refuses
    Similar,   \* pairs of claims that claimsSimilar accepts
    Pointer    \* the text "Merged into topic ..." of topic hygiene

ASSUME StreamAssumption ==
    /\ Canon \in [Topics -> Topics] /\ \A t \in Topics : Canon[Canon[t]] = Canon[t]
    /\ Machinery \subseteq Claims
    /\ Similar \subseteq Claims \X Claims
    /\ Pointer \notin Claims

Provenance == {"first-party", "inferred", "third-party", "external", "unknown"}
None == 0

(* The external_id belief:<date>:<topic>[:s<n>] is today, topic and key,   *)
(* the explicitly superseded n or None.                                    *)
Row == [topic : Topics, claim : Claims \cup {Pointer}, retracted : BOOLEAN,
        prov : Provenance, sup : Nat, key : Nat, today : BOOLEAN, at : Nat]

Alike(relation, a, b) == a = b \/ <<a, b>> \in relation \/ <<b, a>> \in relation

(* ORDER BY ts DESC, id DESC LIMIT 1; no two writes share a ts here.       *)
Latest(rs, S) ==
    IF S = {} THEN None ELSE CHOOSE i \in S : \A j \in S : rs[j].at <= rs[i].at

Entries(rs, t) == {i \in DOMAIN rs : rs[i].topic = t}
Now(rs) == IF rs = << >> THEN 1 ELSE 1 + rs[Latest(rs, DOMAIN rs)].at

-----------------------------------------------------------------------------
(* Readers                                                                 *)

(* recallBelief with a topic: the canonical slug, else the given one.      *)
Recalled(rs, t) ==
    IF Entries(rs, Canon[t]) # {} THEN Latest(rs, Entries(rs, Canon[t]))
    ELSE Latest(rs, Entries(rs, t))

(* recallBelief without one: what Robin currently believes.                *)
Believed(rs) ==
    {i \in DOMAIN rs : i = Latest(rs, Entries(rs, rs[i].topic)) /\ ~rs[i].retracted}

(* currentHead: the exact slug, and its latest row that is no retraction.  *)
CurrentHead(rs, t) == Latest(rs, {i \in Entries(rs, t) : ~rs[i].retracted})

(* loadHeads: the row with the highest id, if it is no retraction.         *)
LoadedHeads(rs) ==
    {i \in DOMAIN rs : (\A j \in Entries(rs, rs[i].topic) : j <= i) /\ ~rs[i].retracted}

-----------------------------------------------------------------------------
(* Writers                                                                 *)

(* Rows that hold the external_id of a write of today.                     *)
SameKey(rs, t, key) ==
    {i \in DOMAIN rs : rs[i].today /\ rs[i].topic = t /\ rs[i].key = key}

(* ingest: a row with this external_id is rewritten, else one is appended. *)
Ingested(rs, t, k, retracted, prov, sup, key) ==
    LET row == [topic |-> t, claim |-> k, retracted |-> retracted, prov |-> prov,
                sup |-> sup, key |-> key, today |-> TRUE, at |-> Now(rs)]
        same == SameKey(rs, t, key)
    IN IF same = {} THEN Append(rs, row)
       ELSE [rs EXCEPT ![CHOOSE i \in same : \A j \in same : j <= i] = row]

FoundAny(rs, t, explicit) ==    \* mutant
    IF Entries(rs, Canon[t]) # {} THEN Latest(rs, Entries(rs, Canon[t]))
    ELSE Latest(rs, Entries(rs, t))

(* believe's findHead, without the row that the write itself would rewrite,*)
(* by the canonical slug and then by the given one.                        *)
Found(rs, t, explicit) ==
    LET own == SameKey(rs, Canon[t], explicit)
        canonical == Entries(rs, Canon[t]) \ own
    IN IF canonical # {} THEN Latest(rs, canonical)
       ELSE Latest(rs, Entries(rs, t) \ own)

(* The cross-slug gate: the head was reached by canonicalization alone and *)
(* says something else.                                                    *)
KeptApart(rs, t, k, explicit) ==
    LET head == Found(rs, t, explicit)
    IN /\ explicit = None /\ t # Canon[t] /\ head # None
       /\ rs[head].topic # t
       /\ ~Alike(Similar, rs[head].claim, k)

(* An explicit supersedes must name a belief of the same canonical topic.  *)
MaySupersede(rs, t, explicit) ==
    explicit # None => explicit \in DOMAIN rs /\ Canon[rs[explicit].topic] = Canon[t]

(* The dev-artifact gate: such a claim is not written, only taken back.    *)
Blocked(k, retracted) == k \in Machinery /\ ~retracted

Believe(rs, t, k, retracted, prov, explicit) ==
    LET apart == KeptApart(rs, t, k, explicit)
        sup == IF explicit # None THEN explicit
               ELSE IF apart THEN None ELSE Found(rs, t, explicit)
    IN IF Blocked(k, retracted) THEN rs
       ELSE Ingested(rs, IF apart THEN t ELSE Canon[t], k, retracted, prov, sup, explicit)
=============================================================================
