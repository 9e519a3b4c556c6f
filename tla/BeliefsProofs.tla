----------------------------- MODULE BeliefsProofs -----------------------------
(* Theorems about Beliefs: types, the operator's rejection, and the links  *)
(* of the belief stream, for any topics, claims, ages and number of steps. *)
EXTENDS Beliefs, FiniteSetTheorems, SequenceTheorems, WellFoundedInduction, TLAPS

-----------------------------------------------------------------------------
(* The inductive invariant                                                 *)

(* A row is keyed by an older row, and what it supersedes is another one.  *)
Linked(rs) ==
    \A i \in DOMAIN rs : rs[i].key < i /\ rs[i].sup # i /\ rs[i].sup <= Len(rs)

RowsFit(rs) == rs \in Seq(Row) /\ Linked(rs)

(* Only a candidate that lapsed as a conflict carries the mark.            *)
CandsFit(cs) ==
    /\ cs \in [Cands -> CandState]
    /\ \A c \in Cands :
          /\ cs[c].status # "none" => cs[c].topic \in Topics /\ cs[c].claim \in Claims
          /\ cs[c].status = "pending" => ~cs[c].lapsed

(* What a pass has read exists, and only the dream replays corrections.    *)
PassesFit(ps, rs, cs, ids) ==
    /\ ps \in [Passes -> PassState]
    /\ \A j \in Passes :
          /\ ps[j].heads \subseteq DOMAIN rs
          /\ ps[j].left \subseteq ids
          /\ j # "dream" => ps[j].left = {}
          /\ ps[j].pc \in {"assert", "mark"} => ps[j].left # {}
          /\ \A c \in ps[j].todo : cs[c].status # "none"
          /\ \A item \in ps[j].judged : cs[item.cand].status # "none"

(* No pass holds a candidate rejected in time, and none will read it.      *)
Final ==
    \A c \in Cands : refused[c] = "in time" =>
        cands[c].status = "rejected" /\ ~cands[c].lapsed /\ ~Held(c)

RestTyped ==
    /\ corrections \in Seq(CorrectionState)
    /\ refused \in [Cands -> {"no", "late", "in time"}]
    /\ due \in BOOLEAN /\ inputs \in Nat /\ faults \in Nat

IInv ==
    /\ RowsFit(rows) /\ CandsFit(cands)
    /\ PassesFit(pass, rows, cands, DOMAIN corrections)
    /\ Final /\ RestTyped

-----------------------------------------------------------------------------
(* Least and greatest                                                      *)

LEMMA Least ==
    ASSUME NEW S, S \subseteq Nat, S # {}
    PROVE  \E n \in S : \A m \in S : n <= m
<1> DEFINE R == OpToRel(<, Nat)
<1>1. IsWellFoundedOn(R, Nat) BY NatLessThanWellFounded
<1> HIDE DEF R
<1>2. PICK n \in S : \A m \in S : <<m, n>> \notin R BY <1>1, WFMin, Zenon
<1>3. \A m \in S : <<m, n>> \in R <=> m < n BY DEF R, OpToRel
<1>4. \A m \in S : m \in Nat /\ n \in Nat /\ ~(m < n) BY <1>2, <1>3
<1>5. \A m \in S : n <= m BY <1>4
<1> QED BY <1>5

LEMMA Greatest ==
    ASSUME NEW n \in Nat, NEW at \in [1 .. n -> Nat], NEW S, S \subseteq 1 .. n, S # {}
    PROVE  \E i \in S : \A j \in S : at[j] <= at[i]
<1> DEFINE Topless(T) == T # {} /\ ~\E i \in T : \A j \in T : at[j] <= at[i]
           Bad == {m \in 0 .. n : \E T \in SUBSET (1 .. m) : Topless(T)}
<1>1. ASSUME NEW m \in Bad, \A k \in Bad : m <= k PROVE FALSE
  <2>1. m \in 0 .. n OBVIOUS
  <2>2. PICK T \in SUBSET (1 .. m) : Topless(T) OBVIOUS
  <2> DEFINE U == T \ {m}
  <2>3. m # 0
    <3> SUFFICES ASSUME m = 0 PROVE FALSE OBVIOUS
    <3>1. 1 .. m = {} BY SMT
    <3> QED BY <2>2, <3>1
  <2>4. m - 1 \in 0 .. n /\ U \in SUBSET (1 .. m - 1)
    <3>1. m - 1 \in 0 .. n BY <2>1, <2>3
    <3>2. ASSUME NEW j \in U PROVE j \in 1 .. m - 1
      <4>1. j \in 1 .. m /\ j # m BY <2>2
      <4> QED BY <2>1, <4>1
    <3> QED BY <3>1, <3>2
  <2>5. m - 1 \notin Bad
    <3>1. ~(m <= m - 1) BY <2>1
    <3> HIDE DEF Bad
    <3> QED BY <1>1, <3>1
  <2>6. ~Topless(U)
    <3> SUFFICES ASSUME Topless(U) PROVE FALSE OBVIOUS
    <3> HIDE DEF Topless, U
    <3>1. m - 1 \in Bad BY <2>4
    <3> QED BY <2>5, <3>1
  <2>7. \A j \in T : j \in 1 .. n /\ at[j] \in Nat BY <2>1, <2>2
  <2>8. m \in T
    <3> SUFFICES ASSUME m \notin T PROVE FALSE OBVIOUS
    <3>1. U = T OBVIOUS
    <3> HIDE DEF U, Topless
    <3> QED BY <2>2, <2>6, <3>1
  <2>9. CASE U = {}
    <3>1. T = {m} BY <2>8, <2>9
    <3>2. at[m] <= at[m] BY <2>7, <2>8
    <3> QED BY <2>2, <3>1, <3>2
  <2>10. CASE U # {}
    <3>1. PICK i \in U : \A j \in U : at[j] <= at[i] BY <2>6, <2>10
    <3>2. i \in T OBVIOUS
    <3>3. CASE at[m] <= at[i]
      <4>1. \A j \in T : at[j] <= at[i] BY <3>1, <3>3
      <4> QED BY <2>2, <3>2, <4>1
    <3>4. CASE ~(at[m] <= at[i])
      <4>1. at[m] \in Nat /\ at[i] \in Nat BY <2>7, <2>8, <3>2
      <4>2. ASSUME NEW j \in T PROVE at[j] <= at[m]
        <5>1. at[j] \in Nat BY <2>7
        <5>2. CASE j = m BY <5>1, <5>2
        <5>3. CASE j # m
          <6>1. at[j] <= at[i] BY <3>1, <5>3
          <6> QED BY <6>1, <5>1, <4>1, <3>4
        <5> QED BY <5>2, <5>3
      <4> QED BY <2>2, <2>8, <4>2
    <3> QED BY <3>3, <3>4
  <2> QED BY <2>9, <2>10
<1>2. Bad = {}
  <2>1. Bad \subseteq Nat OBVIOUS
  <2> HIDE DEF Bad
  <2> QED BY <1>1, <2>1, Least
<1>3. n \in 0 .. n OBVIOUS
<1>4. ~Topless(S)
  <2> SUFFICES ASSUME Topless(S) PROVE FALSE OBVIOUS
  <2> HIDE DEF Topless
  <2>1. n \in Bad BY <1>3
  <2> QED BY <1>2, <2>1
<1> QED BY <1>4

-----------------------------------------------------------------------------
(* The stream                                                              *)

LEMMA LatestIn ==
    ASSUME NEW rs \in Seq(Row), NEW S, S \subseteq DOMAIN rs, S # {}
    PROVE  Latest(rs, S) \in S
<1> DEFINE at == [i \in 1 .. Len(rs) |-> rs[i].at]
<1>1. Len(rs) \in Nat /\ DOMAIN rs = 1 .. Len(rs) OBVIOUS
<1>2. \A i \in 1 .. Len(rs) : rs[i] \in Row OBVIOUS
<1>3. at \in [1 .. Len(rs) -> Nat] BY <1>2 DEF Row
<1>4. \A i \in S : at[i] = rs[i].at BY <1>1
<1> HIDE DEF at
<1>5. PICK i \in S : \A j \in S : at[j] <= at[i] BY <1>1, <1>3, Greatest
<1>6. \A j \in S : rs[j].at <= rs[i].at BY <1>4, <1>5
<1> QED BY <1>6 DEF Latest

LEMMA NoneLatest == \A rs : Latest(rs, {}) = None
  BY DEF Latest

LEMMA NowNat == ASSUME NEW rs \in Seq(Row) PROVE Now(rs) \in Nat
<1>1. CASE rs = << >> BY <1>1 DEF Now
<1>2. CASE rs # << >>
  <2>1. DOMAIN rs # {} BY <1>2, EmptySeq
  <2>2. Latest(rs, DOMAIN rs) \in DOMAIN rs BY <2>1, LatestIn
  <2>3. rs[Latest(rs, DOMAIN rs)] \in Row BY <2>2
  <2>4. rs[Latest(rs, DOMAIN rs)].at \in Nat BY <2>3 DEF Row
  <2> QED BY <1>2, <2>4 DEF Now
<1> QED BY <1>1, <1>2

(* A write keeps the stream well-formed if it names an older row as its    *)
(* key and does not supersede the row it rewrites.                         *)
LEMMA IngestedFits ==
    ASSUME NEW rs, RowsFit(rs), NEW t \in Topics, NEW k \in Claims \cup {Pointer},
           NEW retracted \in BOOLEAN, NEW prov \in Provenance,
           NEW sup \in 0 .. Len(rs), NEW key \in 0 .. Len(rs),
           \A i \in SameKey(rs, t, key) : sup # i
    PROVE  /\ RowsFit(Ingested(rs, t, k, retracted, prov, sup, key))
           /\ Len(rs) <= Len(Ingested(rs, t, k, retracted, prov, sup, key))
<1> DEFINE row == [topic |-> t, claim |-> k, retracted |-> retracted, prov |-> prov,
                   sup |-> sup, key |-> key, today |-> TRUE, at |-> Now(rs)]
           same == SameKey(rs, t, key)
           spot == CHOOSE i \in same : \A j \in same : j <= i
<1>1. rs \in Seq(Row) /\ Len(rs) \in Nat /\ DOMAIN rs = 1 .. Len(rs) BY DEF RowsFit
<1>2. row \in Row /\ row.key = key /\ row.sup = sup
  <2>1. Now(rs) \in Nat BY <1>1, NowNat
  <2>2. sup \in Nat /\ key \in Nat BY <1>1
  <2> QED BY <2>1, <2>2 DEF Row
<1>3. \A i \in 1 .. Len(rs) : rs[i].sup \in Nat /\ rs[i].key \in Nat
  <2>1. \A i \in 1 .. Len(rs) : rs[i] \in Row BY <1>1
  <2> QED BY <2>1 DEF Row
<1>4. \A i \in 1 .. Len(rs) : rs[i].key < i /\ rs[i].sup # i /\ rs[i].sup <= Len(rs)
  BY <1>1 DEF RowsFit, Linked
<1> HIDE DEF row
<1>5. CASE same = {}
  <2> DEFINE rt == Append(rs, row)
  <2>1. rt \in Seq(Row) /\ Len(rt) = Len(rs) + 1 /\ DOMAIN rt = 1 .. Len(rs) + 1
    BY <1>1, <1>2
  <2>2. \A i \in 1 .. Len(rs) : rt[i] = rs[i] BY <1>1, <1>2
  <2>3. rt[Len(rs) + 1] = row BY <1>1, <1>2
  <2> HIDE DEF rt
  <2>4. ASSUME NEW i \in DOMAIN rt PROVE rt[i].key < i /\ rt[i].sup # i /\ rt[i].sup <= Len(rt)
    <3>1. CASE i \in 1 .. Len(rs) BY <1>1, <1>3, <1>4, <2>1, <2>2, <3>1
    <3>2. CASE i = Len(rs) + 1 BY <1>1, <1>2, <2>1, <2>3, <3>2
    <3> QED BY <1>1, <2>1, <3>1, <3>2
  <2>5. Ingested(rs, t, k, retracted, prov, sup, key) = rt BY <1>5 DEF Ingested, rt, row
  <2> QED BY <1>1, <2>1, <2>4, <2>5 DEF RowsFit, Linked
<1>6. CASE same # {}
  <2>1. same \subseteq 1 .. Len(rs) BY <1>1 DEF SameKey
  <2>2. spot \in same
    <3> DEFINE at == [i \in 1 .. Len(rs) |-> i]
    <3>1. at \in [1 .. Len(rs) -> Nat] OBVIOUS
    <3>2. \A i \in same : at[i] = i BY <2>1
    <3> HIDE DEF at, same
    <3>3. \E i \in same : \A j \in same : at[j] <= at[i] BY <1>1, <1>6, <2>1, <3>1, Greatest
    <3>4. \E i \in same : \A j \in same : j <= i BY <3>2, <3>3
    <3> QED BY <3>4
  <2>3. rs[spot].key = key BY <2>2 DEF SameKey
  <2>4. spot \in 1 .. Len(rs) /\ sup # spot BY <2>1, <2>2
  <2> HIDE DEF spot
  <2> DEFINE rt == [rs EXCEPT ![spot] = row]
  <2>5. rt \in Seq(Row) /\ Len(rt) = Len(rs) /\ DOMAIN rt = 1 .. Len(rs)
    BY <1>1, <1>2, <2>4
  <2>6. rt[spot] = row /\ \A i \in 1 .. Len(rs) : i # spot => rt[i] = rs[i] BY <1>1, <2>4
  <2> HIDE DEF rt
  <2>7. ASSUME NEW i \in DOMAIN rt PROVE rt[i].key < i /\ rt[i].sup # i /\ rt[i].sup <= Len(rt)
    <3>1. CASE i # spot BY <1>1, <1>3, <1>4, <2>5, <2>6, <3>1
    <3>2. CASE i = spot BY <1>1, <1>2, <1>4, <2>3, <2>4, <2>5, <2>6, <3>2
    <3> QED BY <3>1, <3>2
  <2>8. Ingested(rs, t, k, retracted, prov, sup, key) = rt BY <1>6 DEF Ingested, rt, row, spot
  <2> QED BY <1>1, <2>5, <2>7, <2>8 DEF RowsFit, Linked
<1> QED BY <1>5, <1>6

LEMMA LatestBound ==
    ASSUME NEW rs \in Seq(Row), NEW S, S \subseteq DOMAIN rs
    PROVE  Latest(rs, S) \in 0 .. Len(rs)
<1>1. Len(rs) \in Nat /\ DOMAIN rs = 1 .. Len(rs) OBVIOUS
<1>2. CASE S = {} BY <1>1, <1>2, NoneLatest DEF None
<1>3. CASE S # {}
  <2>1. Latest(rs, S) \in S BY <1>3, LatestIn
  <2> QED BY <1>1, <2>1
<1> QED BY <1>2, <1>3

LEMMA RecalledBound ==
    ASSUME NEW rs \in Seq(Row), NEW t
    PROVE  Recalled(rs, t) \in 0 .. Len(rs)
<1>1. \A u : Entries(rs, u) \subseteq DOMAIN rs BY DEF Entries
<1>2. \A u : Latest(rs, Entries(rs, u)) \in 0 .. Len(rs) BY <1>1, LatestBound
<1> QED BY <1>2 DEF Recalled

(* findHead never returns the row that the write would rewrite.            *)
LEMMA FoundBound ==
    ASSUME NEW rs \in Seq(Row), NEW t \in Topics, NEW explicit
    PROVE  /\ Found(rs, t, explicit) \in 0 .. Len(rs)
           /\ Found(rs, t, explicit) \notin SameKey(rs, Canon[t], explicit)
<1> DEFINE own == SameKey(rs, Canon[t], explicit)
<1>1. \A u : Entries(rs, u) \ own \subseteq DOMAIN rs BY DEF Entries
<1>2. None \notin own
  <2>1. DOMAIN rs = 1 .. Len(rs) OBVIOUS
  <2> QED BY <2>1 DEF SameKey, None
<1> HIDE DEF own
<1>3. ASSUME NEW u
      PROVE  /\ Latest(rs, Entries(rs, u) \ own) \in 0 .. Len(rs)
             /\ Latest(rs, Entries(rs, u) \ own) \notin own
  <2>1. Latest(rs, Entries(rs, u) \ own) \in 0 .. Len(rs) BY <1>1, LatestBound
  <2>2. CASE Entries(rs, u) \ own = {} BY <1>2, <2>1, <2>2, NoneLatest
  <2>3. CASE Entries(rs, u) \ own # {}
    <3>1. Latest(rs, Entries(rs, u) \ own) \in Entries(rs, u) \ own BY <1>1, <2>3, LatestIn
    <3> QED BY <2>1, <3>1
  <2> QED BY <2>2, <2>3
<1> QED BY <1>3 DEF Found, own

LEMMA BelieveFits ==
    ASSUME NEW rs, RowsFit(rs), NEW t \in Topics, NEW k \in Claims \cup {Pointer},
           NEW retracted \in BOOLEAN, NEW prov \in Provenance, NEW explicit \in 0 .. Len(rs)
    PROVE  /\ RowsFit(Believe(rs, t, k, retracted, prov, explicit))
           /\ Len(rs) <= Len(Believe(rs, t, k, retracted, prov, explicit))
<1> DEFINE apart == KeptApart(rs, t, k, explicit)
           topic == IF apart THEN t ELSE Canon[t]
           sup == IF explicit # None THEN explicit
                  ELSE IF apart THEN None ELSE Found(rs, t, explicit)
<1>1. rs \in Seq(Row) /\ Linked(rs) /\ Len(rs) \in Nat /\ DOMAIN rs = 1 .. Len(rs) BY DEF RowsFit
<1>2. topic \in Topics BY StreamAssumption
<1>3. sup \in 0 .. Len(rs) BY <1>1, FoundBound DEF None
<1>4. ASSUME NEW i \in SameKey(rs, topic, explicit) PROVE sup # i
  <2>1. i \in 1 .. Len(rs) /\ rs[i].key = explicit BY <1>1 DEF SameKey
  <2>2. rs[i].key < i BY <1>1, <2>1 DEF Linked
  <2>3. CASE explicit # None BY <2>1, <2>2, <2>3
  <2>4. CASE explicit = None /\ apart BY <2>1, <2>4 DEF None
  <2>5. CASE explicit = None /\ ~apart BY <1>1, <2>5, FoundBound
  <2> QED BY <2>3, <2>4, <2>5
<1>5. CASE Blocked(k, retracted)
  <2>1. Believe(rs, t, k, retracted, prov, explicit) = rs BY <1>5 DEF Believe
  <2> QED BY <1>1, <2>1
<1>6. CASE ~Blocked(k, retracted)
  <2>1. Believe(rs, t, k, retracted, prov, explicit)
          = Ingested(rs, topic, k, retracted, prov, sup, explicit)
    BY <1>6 DEF Believe
  <2> HIDE DEF topic, sup
  <2> QED BY <1>2, <1>3, <1>4, <2>1, IngestedFits
<1> QED BY <1>5, <1>6

-----------------------------------------------------------------------------
(* The passes                                                              *)

LEMMA DreamPasses == "dream" \in Passes /\ \A j \in Passes : j \in {"dream", "cli"}
  BY BeliefsAssumption

LEMMA CandsAreNats == Cands \subseteq Nat
<1>1. Cardinality(Cands) \in Nat BY BeliefsAssumption, FS_CardinalityType
<1> QED BY <1>1, BeliefsAssumption

LEMMA FirstIn == ASSUME NEW S, S \subseteq Nat, S # {} PROVE First(S) \in S
<1>1. \E c \in S : \A d \in S : c <= d BY Least
<1> QED BY <1>1 DEF First

LEMMA NextItemIn ==
    ASSUME IInv, NEW j \in Passes, pass[j].judged # {}
    PROVE  NextItem(j) \in pass[j].judged
<1> DEFINE J == pass[j].judged
           T == {item.cand : item \in J}
<1>1. J \subseteq ItemState BY DEF IInv, PassesFit, PassState
<1>2. T \subseteq Nat BY <1>1, CandsAreNats DEF ItemState
<1>3. T # {} OBVIOUS
<1>4. PICK n \in T : \A m \in T : n <= m
  <2> HIDE DEF T
  <2> QED BY <1>2, <1>3, Least
<1>5. \E item \in J : \A it \in J : item.cand <= it.cand BY <1>4
<1> QED BY <1>5 DEF NextItem

(* What every action owes the candidates: drafted ones stay drafted, and   *)
(* those rejected in time stay rejected.                                   *)
Respected ==
    /\ CandsFit(cands')
    /\ \A c \in Cands : cands[c].status # "none" => cands'[c].status # "none"
    /\ \A c \in Cands : refused[c] = "in time" =>
          cands'[c].status = "rejected" /\ ~cands'[c].lapsed

LEMMA CandFacts ==
    ASSUME IInv, NEW c \in Cands
    PROVE  /\ cands \in [Cands -> CandState] /\ cands[c] \in CandState
           /\ cands[c].status # "none" => cands[c].topic \in Topics /\ cands[c].claim \in Claims
           /\ cands[c].status = "pending" => ~cands[c].lapsed
           /\ refused[c] = "in time" =>
                 cands[c].status = "rejected" /\ ~cands[c].lapsed /\ ~Held(c)
BY DEF IInv, CandsFit, Final

LEMMA SeqFacts ==
    ASSUME NEW S, NEW s \in Seq(S)
    PROVE  Len(s) \in Nat /\ DOMAIN s = 1 .. Len(s)
OBVIOUS

LEMMA LongerDomain ==
    ASSUME NEW rs, NEW rt, RowsFit(rs), RowsFit(rt), Len(rs) <= Len(rt)
    PROVE  DOMAIN rs \subseteq DOMAIN rt
<1>1. Len(rs) \in Nat /\ DOMAIN rs = 1 .. Len(rs) BY SeqFacts DEF RowsFit
<1>2. Len(rt) \in Nat /\ DOMAIN rt = 1 .. Len(rt) BY SeqFacts DEF RowsFit
<1> QED BY <1>1, <1>2

LEMMA Untouched == ASSUME IInv, cands' = cands PROVE Respected
BY DEF IInv, Respected, CandsFit, Final

Outcomes == {"promoted", "rejected", "merged", "conflicted"}

LEMMA OneResolved ==
    ASSUME IInv, NEW c \in Cands, cands[c].status # "none", refused[c] # "in time",
           NEW status \in Outcomes,
           cands' = [cands EXCEPT ![c].status = status, ![c].lapsed = FALSE]
    PROVE  Respected
<1>1. cands' = [cands EXCEPT ![c] = [cands[c] EXCEPT !.status = status, !.lapsed = FALSE]]
  BY CandFacts
<1>2. [cands[c] EXCEPT !.status = status, !.lapsed = FALSE] \in CandState
  BY CandFacts DEF CandState, Outcomes
<1>3. cands' \in [Cands -> CandState] BY <1>1, <1>2, CandFacts
<1>4. cands'[c].status = status /\ ~cands'[c].lapsed
      /\ cands'[c].topic = cands[c].topic /\ cands'[c].claim = cands[c].claim
  BY <1>1, <1>2, CandFacts DEF CandState
<1>5. \A d \in Cands : d # c => cands'[d] = cands[d] BY <1>1, CandFacts
<1>6. status # "none" /\ status # "pending" BY DEF Outcomes
<1>7. ASSUME NEW d \in Cands
      PROVE  /\ cands'[d].status # "none" => cands'[d].topic \in Topics /\ cands'[d].claim \in Claims
             /\ cands'[d].status = "pending" => ~cands'[d].lapsed
             /\ cands[d].status # "none" => cands'[d].status # "none"
             /\ refused[d] = "in time" => cands'[d].status = "rejected" /\ ~cands'[d].lapsed
  <2>1. CASE d = c BY <1>4, <1>6, <2>1, CandFacts
  <2>2. CASE d # c BY <1>5, <2>2, CandFacts
  <2> QED BY <2>1, <2>2
<1> QED BY <1>3, <1>7 DEF Respected, CandsFit

LEMMA MarkedRespected ==
    ASSUME IInv, NEW S, S \subseteq Cands, NEW status \in Outcomes,
           \A c \in S : cands[c].status # "none",
           \A c \in S : refused[c] = "in time" => status = "rejected",
           cands' = Marked(S, status)
    PROVE  Respected
<1>1. ASSUME NEW d \in Cands
      PROVE  /\ cands'[d] \in CandState
             /\ cands'[d].status # "none" => cands'[d].topic \in Topics /\ cands'[d].claim \in Claims
             /\ cands'[d].status = "pending" => ~cands'[d].lapsed
             /\ cands[d].status # "none" => cands'[d].status # "none"
             /\ refused[d] = "in time" => cands'[d].status = "rejected" /\ ~cands'[d].lapsed
  <2>1. CASE d \in S
    <3>1. cands'[d] = [cands[d] EXCEPT !.status = status] BY <2>1 DEF Marked
    <3>2. cands'[d] \in CandState BY <3>1, CandFacts DEF CandState, Outcomes
    <3>3. cands'[d].status = status /\ cands'[d].lapsed = cands[d].lapsed
          /\ cands'[d].topic = cands[d].topic /\ cands'[d].claim = cands[d].claim
      BY <3>1, CandFacts DEF CandState
    <3>4. status # "none" /\ status # "pending" BY DEF Outcomes
    <3> QED BY <2>1, <3>2, <3>3, <3>4, CandFacts
  <2>2. CASE d \notin S
    <3>1. cands'[d] = cands[d] BY <2>2 DEF Marked
    <3> QED BY <3>1, CandFacts
  <2> QED BY <2>1, <2>2
<1>2. cands' \in [Cands -> CandState] BY <1>1 DEF Marked
<1> QED BY <1>1, <1>2 DEF Respected, CandsFit

LEMMA PassStays ==
    ASSUME IInv, pass' = pass, Respected, RowsFit(rows'), Len(rows) <= Len(rows'),
           DOMAIN corrections \subseteq DOMAIN corrections', refused' = refused, RestTyped'
    PROVE  IInv'
<1>1. DOMAIN rows \subseteq DOMAIN rows' BY LongerDomain, Zenon DEF IInv
<1>2. \A j \in Passes : pass[j].left \subseteq DOMAIN corrections BY DEF IInv, PassesFit
<1>3. \A j \in Passes : pass[j].todo \subseteq Cands /\ \A item \in pass[j].judged : item.cand \in Cands
  <2>1. \A j \in Passes : pass[j] \in PassState BY DEF IInv, PassesFit
  <2>2. \A j \in Passes : pass[j].judged \in SUBSET ItemState BY <2>1 DEF PassState
  <2> QED BY <2>1, <2>2 DEF PassState, ItemState
<1>4. ASSUME NEW j \in Passes
      PROVE  /\ pass'[j].heads \subseteq DOMAIN rows'
             /\ pass'[j].left \subseteq DOMAIN corrections'
             /\ j # "dream" => pass'[j].left = {}
             /\ pass'[j].pc \in {"assert", "mark"} => pass'[j].left # {}
             /\ \A c \in pass'[j].todo : cands'[c].status # "none"
             /\ \A item \in pass'[j].judged : cands'[item.cand].status # "none"
  <2>1. pass'[j].left \subseteq DOMAIN corrections' BY <1>2
  <2>2. \A c \in pass'[j].todo : cands'[c].status # "none"
    BY <1>3 DEF IInv, PassesFit, Respected
  <2>3. \A item \in pass'[j].judged : cands'[item.cand].status # "none"
    BY <1>3 DEF IInv, PassesFit, Respected
  <2> QED BY <1>1, <2>1, <2>2, <2>3 DEF IInv, PassesFit
<1>5. PassesFit(pass', rows', cands', DOMAIN corrections') BY <1>4 DEF IInv, PassesFit
<1>6. \A c : Held(c)' <=> Held(c) BY DEF Held
<1>7. Final' BY <1>6 DEF IInv, Final, Respected
<1> QED BY <1>5, <1>7 DEF IInv, Respected

LEMMA PassGoes ==
    ASSUME IInv, Respected, RowsFit(rows'), Len(rows) <= Len(rows'),
           refused' = refused, RestTyped',
           NEW j \in Passes, NEW next \in PassState, Goes(j, next),
           next.heads \subseteq DOMAIN rows', next.left \subseteq DOMAIN corrections',
           j # "dream" => next.left = {} /\ corrections' = corrections,
           next.pc \in {"assert", "mark"} => next.left # {},
           \A c \in next.todo : cands'[c].status # "none"
                                /\ (next.pc # "dedupe" => refused[c] # "in time"),
           \A item \in next.judged : cands'[item.cand].status # "none"
                                     /\ refused[item.cand] # "in time"
    PROVE  IInv'
<1>1. DOMAIN rows \subseteq DOMAIN rows' BY LongerDomain, Zenon DEF IInv
<1>2. \A i \in Passes : i # "dream" => pass[i].left = {} BY DEF IInv, PassesFit
<1>3. \A i \in Passes : pass[i].todo \subseteq Cands /\ \A item \in pass[i].judged : item.cand \in Cands
  <2>1. \A i \in Passes : pass[i] \in PassState BY DEF IInv, PassesFit
  <2>2. \A i \in Passes : pass[i].judged \in SUBSET ItemState BY <2>1 DEF PassState
  <2> QED BY <2>1, <2>2 DEF PassState, ItemState
<1>4. pass \in [Passes -> PassState] BY DEF IInv, PassesFit
<1>5. pass'[j] = next /\ \A i \in Passes : i # j => pass'[i] = pass[i] BY <1>4 DEF Goes
<1>6. pass' \in [Passes -> PassState] BY <1>4 DEF Goes
<1>7. ASSUME NEW i \in Passes
      PROVE  /\ pass'[i].heads \subseteq DOMAIN rows'
             /\ pass'[i].left \subseteq DOMAIN corrections'
             /\ i # "dream" => pass'[i].left = {}
             /\ pass'[i].pc \in {"assert", "mark"} => pass'[i].left # {}
             /\ \A c \in pass'[i].todo : cands'[c].status # "none"
             /\ \A item \in pass'[i].judged : cands'[item.cand].status # "none"
  <2>1. CASE i = j BY <1>5, <2>1
  <2>2. CASE i # j
    <3>1. pass'[i] = pass[i] BY <1>5, <2>2
    <3>2. pass[i].left \subseteq DOMAIN corrections'
      <4>1. CASE i # "dream"
        <5>1. pass[i].left = {} BY <1>2, <4>1
        <5> QED BY <5>1
      <4>2. CASE i = "dream"
        <5>1. corrections' = corrections BY <2>2, <4>2
        <5> QED BY <5>1 DEF IInv, PassesFit
      <4> QED BY <4>1, <4>2
    <3>3. \A c \in pass[i].todo : cands'[c].status # "none"
      BY <1>3 DEF IInv, PassesFit, Respected
    <3>4. \A item \in pass[i].judged : cands'[item.cand].status # "none"
      BY <1>3 DEF IInv, PassesFit, Respected
    <3> QED BY <1>1, <3>1, <3>2, <3>3, <3>4 DEF IInv, PassesFit
  <2> QED BY <2>1, <2>2
<1>8. PassesFit(pass', rows', cands', DOMAIN corrections') BY <1>6, <1>7 DEF PassesFit
<1>9. ASSUME NEW c \in Cands, refused[c] = "in time" PROVE ~Held(c)'
  <2>1. ~Held(c) BY <1>9 DEF IInv, Final
  <2>2. SUFFICES ASSUME NEW i \in Passes,
                        \/ pass'[i].pc # "dedupe" /\ c \in pass'[i].todo
                        \/ \E item \in pass'[i].judged : item.cand = c
                 PROVE  FALSE
    BY DEF Held
  <2>3. CASE i = j BY <1>5, <1>9, <2>2, <2>3
  <2>4. CASE i # j BY <1>5, <2>1, <2>2, <2>4 DEF Held
  <2> QED BY <2>3, <2>4
<1>10. Final' BY <1>9 DEF Final, Respected
<1> QED BY <1>8, <1>10 DEF IInv, Respected

-----------------------------------------------------------------------------
(* What the actions are made of                                            *)

LEMMA PromotionFits ==
    ASSUME IInv, NEW c \in Cands, cands[c].status # "none"
    PROVE  RowsFit(Promoted(c)) /\ Len(rows) <= Len(Promoted(c))
<1>1. cands[c].topic \in Topics /\ cands[c].claim \in Claims /\ cands[c].prov \in Provenance
  BY CandFacts DEF CandState
<1>2. RowsFit(rows) /\ Len(rows) \in Nat BY SeqFacts DEF IInv, RowsFit
<1>3. None \in 0 .. Len(rows) BY <1>2 DEF None
<1>4. FALSE \in BOOLEAN /\ cands[c].claim \in Claims \cup {Pointer} BY <1>1
<1> DEFINE topic == cands[c].topic
           claim == cands[c].claim
           prov == cands[c].prov
<1>5. Promoted(c) = Believe(rows, topic, claim, FALSE, prov, None) BY DEF Promoted
<1>6. topic \in Topics /\ claim \in Claims \cup {Pointer} /\ prov \in Provenance BY <1>1
<1> HIDE DEF topic, claim, prov
<1> QED BY <1>2, <1>3, <1>4, <1>5, <1>6, BelieveFits

LEMMA RowsStay == ASSUME IInv, rows' = rows PROVE RowsFit(rows') /\ Len(rows) <= Len(rows')
<1>1. Len(rows) \in Nat BY SeqFacts DEF IInv, RowsFit
<1> QED BY <1>1 DEF IInv

LEMMA PromoteRespects ==
    ASSUME IInv, NEW c \in Cands, cands[c].status # "none", refused[c] # "in time",
           Promote(c)
    PROVE  Respected /\ RowsFit(rows') /\ Len(rows) <= Len(rows')
<1> DEFINE status == IF Gated(c) THEN "rejected" ELSE "promoted"
<1>1. status \in Outcomes BY DEF Outcomes
<1>2. cands' = [cands EXCEPT ![c].status = status, ![c].lapsed = FALSE] BY DEF Promote
<1>3. Respected
  <2> HIDE DEF status
  <2> QED BY <1>1, <1>2, OneResolved
<1>4. CASE rows' = rows BY <1>3, <1>4, RowsStay
<1>5. CASE rows' = Promoted(c)
  <2>1. RowsFit(Promoted(c)) /\ Len(rows) <= Len(Promoted(c)) BY PromotionFits
  <2> QED BY <1>3, <1>5, <2>1, Zenon
<1> QED BY <1>4, <1>5 DEF Promote

LEMMA VerdictRespects ==
    ASSUME IInv, NEW item \in ItemState, cands[item.cand].status # "none",
           refused[item.cand] # "in time", NEW verdict, ApplyVerdict(item, verdict)
    PROVE  Respected /\ RowsFit(rows') /\ Len(rows) <= Len(rows')
<1>1. item.cand \in Cands BY DEF ItemState
<1>2. ASSUME NEW status \in {"merged", "conflicted"},
             cands' = [cands EXCEPT ![item.cand].status = status,
                                    ![item.cand].lapsed = FALSE], rows' = rows
      PROVE  Respected /\ RowsFit(rows') /\ Len(rows) <= Len(rows')
  <2>1. status \in Outcomes BY DEF Outcomes
  <2>2. Respected BY <1>1, <1>2, <2>1, OneResolved
  <2> QED BY <1>2, <2>2, RowsStay
<1>3. CASE Promote(item.cand) BY <1>1, <1>3, PromoteRespects
<1> QED BY <1>2, <1>3 DEF ApplyVerdict

LEMMA ItemTyped ==
    ASSUME NEW c \in Cands, NEW from \in {"pending", "conflicted", "rejected"}
    PROVE  Item(c, from) \in ItemState /\ Item(c, from).cand = c
<1> DEFINE head == rows[CurrentHead(rows, cands[c].topic)]
           own == (head.prov = "first-party")
           same == Alike(Rephrasings, head.claim, cands[c].claim)
<1>1. own \in BOOLEAN OBVIOUS
<1>2. same \in BOOLEAN BY DEF Alike
<1>3. Item(c, from) = [cand |-> c, from |-> from, firstParty |-> own, rephrased |-> same]
  BY DEF Item
<1> HIDE DEF own, same
<1> QED BY <1>1, <1>2, <1>3 DEF ItemState

(* What a pass holds was drafted and has not been rejected in time.        *)
LEMMA HeldFacts ==
    ASSUME IInv, NEW j \in Passes
    PROVE  /\ pass[j] \in PassState
           /\ \A c \in pass[j].todo :
                 /\ c \in Cands /\ cands[c].status # "none"
                 /\ pass[j].pc # "dedupe" => refused[c] # "in time"
           /\ \A item \in pass[j].judged :
                 /\ item \in ItemState /\ item.cand \in Cands
                 /\ cands[item.cand].status # "none" /\ refused[item.cand] # "in time"
           /\ pass[j].heads \subseteq DOMAIN rows /\ pass[j].left \subseteq DOMAIN corrections
           /\ j # "dream" => pass[j].left = {}
           /\ pass[j].pc \in {"assert", "mark"} => pass[j].left # {}
<1>1. pass[j] \in PassState BY DEF IInv, PassesFit
<1>2. pass[j].todo \subseteq Cands /\ pass[j].judged \subseteq ItemState BY <1>1 DEF PassState
<1>3. \A item \in ItemState : item.cand \in Cands BY DEF ItemState
<1>4. ASSUME NEW c \in pass[j].todo, pass[j].pc # "dedupe" PROVE refused[c] # "in time"
  <2>1. Held(c) BY <1>4 DEF Held
  <2> QED BY <1>2, <2>1, CandFacts
<1>5. ASSUME NEW item \in pass[j].judged PROVE refused[item.cand] # "in time"
  <2>1. Held(item.cand) BY <1>5 DEF Held
  <2>2. item.cand \in Cands BY <1>2, <1>3
  <2> QED BY <2>1, <2>2, CandFacts
<1> QED BY <1>1, <1>2, <1>3, <1>4, <1>5 DEF IInv, PassesFit

LEMMA RestingTyped ==
    /\ Resting \in PassState /\ Resting.todo = {} /\ Resting.judged = {}
    /\ Resting.heads = {} /\ Resting.left = {} /\ Resting.pc = "idle"
BY DEF Resting, PassState

(* A pass that forgets, or goes on with less than it has read.             *)
LEMMA PassShrinks ==
    ASSUME IInv, Respected, RowsFit(rows'), Len(rows) <= Len(rows'),
           refused' = refused, corrections' = corrections, RestTyped',
           NEW j \in Passes, NEW next \in PassState, Goes(j, next),
           next.heads \subseteq DOMAIN rows', next.left \subseteq DOMAIN corrections,
           j # "dream" => next.left = {}, next.pc \in {"assert", "mark"} => next.left # {},
           next.todo \subseteq pass[j].todo, next.judged \subseteq pass[j].judged,
           pass[j].pc # "dedupe" \/ next.todo = {}
    PROVE  IInv'
<1>1. \A c \in next.todo : cands'[c].status # "none" /\ refused[c] # "in time"
  BY HeldFacts DEF Respected
<1>2. \A item \in next.judged : cands'[item.cand].status # "none" /\ refused[item.cand] # "in time"
  BY HeldFacts DEF Respected
<1> QED BY <1>1, <1>2, PassGoes

LEMMA RestFits ==
    ASSUME IInv, corrections' = corrections, refused' = refused, due' \in BOOLEAN,
           inputs' \in {inputs, inputs + 1}, faults' \in {faults, faults + 1}
    PROVE  RestTyped'
<1>1. inputs \in Nat /\ faults \in Nat BY DEF IInv, RestTyped
<1>2. inputs' \in Nat /\ faults' \in Nat BY <1>1
<1> QED BY <1>2 DEF IInv, RestTyped

-----------------------------------------------------------------------------
(* The operator, the biographer and the days                               *)

LEMMA BelievesStep ==
    ASSUME IInv, NEW said \in Sayings, NEW explicit \in {None} \cup DOMAIN rows,
           OperatorBelieves(said, explicit)
    PROVE  IInv'
<1>1. said.topic \in Topics /\ said.claim \in Claims /\ said.retracted \in BOOLEAN
  BY BeliefsAssumption
<1>2. RowsFit(rows) /\ Len(rows) \in Nat /\ DOMAIN rows = 1 .. Len(rows)
  BY SeqFacts DEF IInv, RowsFit
<1>3. explicit \in 0 .. Len(rows) BY <1>2 DEF None
<1>4. "unknown" \in Provenance BY DEF Provenance
<1>5. RowsFit(rows') /\ Len(rows) <= Len(rows')
  BY <1>1, <1>2, <1>3, <1>4, BelieveFits DEF OperatorBelieves
<1>6. Respected BY Untouched DEF OperatorBelieves
<1>7. RestTyped'
  <2>1. due \in BOOLEAN BY DEF IInv, RestTyped
  <2> QED BY <2>1, RestFits DEF OperatorBelieves
<1>8. pass' = pass /\ corrections' = corrections /\ refused' = refused BY DEF OperatorBelieves
<1> QED BY <1>5, <1>6, <1>7, <1>8, PassStays

LEMMA PromotesStep == ASSUME IInv, NEW c \in Cands, OperatorPromotes(c) PROVE IInv'
<1>1. cands[c].status # "none" /\ refused[c] # "in time"
  BY CandFacts DEF OperatorPromotes
<1>2. Respected /\ RowsFit(rows') /\ Len(rows) <= Len(rows')
  BY <1>1, PromoteRespects DEF OperatorPromotes
<1>3. RestTyped'
  <2>1. due \in BOOLEAN BY DEF IInv, RestTyped
  <2> QED BY <2>1, RestFits DEF OperatorPromotes
<1>4. pass' = pass /\ corrections' = corrections /\ refused' = refused BY DEF OperatorPromotes
<1> QED BY <1>2, <1>3, <1>4, PassStays

LEMMA RejectsStep == ASSUME IInv, NEW c \in Cands, OperatorRejects(c) PROVE IInv'
<1>1. refused \in [Cands -> {"no", "late", "in time"}] BY DEF IInv, RestTyped
<1>2. cands' = [cands EXCEPT ![c] = [cands[c] EXCEPT !.status = "rejected"]]
  BY DEF OperatorRejects
<1>3. cands' = Marked({c}, "rejected")
  <2>1. cands = [d \in Cands |-> cands[d]] BY CandFacts DEF IInv, CandsFit
  <2> QED BY <1>2, <2>1 DEF Marked
<1>4. cands[c].status = "pending" /\ ~cands[c].lapsed BY CandFacts DEF OperatorRejects
<1>5. Respected
  <2>1. "rejected" \in Outcomes BY DEF Outcomes
  <2> DEFINE S == {c}
  <2>2. S \subseteq Cands /\ \A d \in S : cands[d].status # "none" BY <1>4
  <2>3. cands' = Marked(S, "rejected") BY <1>3
  <2> HIDE DEF S
  <2> QED BY <2>1, <2>2, <2>3, MarkedRespected
<1>6. cands'[c].status = "rejected" /\ ~cands'[c].lapsed
  <2>1. cands'[c] = [cands[c] EXCEPT !.status = "rejected"] BY <1>3 DEF Marked
  <2> QED BY <1>4, <2>1, CandFacts DEF CandState
<1>7. rows' = rows /\ pass' = pass /\ corrections' = corrections BY DEF OperatorRejects
<1>8. RestTyped' BY <1>1 DEF IInv, RestTyped, OperatorRejects
<1>9. Final'
  <2>1. \A d : Held(d)' <=> Held(d) BY <1>7 DEF Held
  <2>2. refused'[c] = "in time" => ~Held(c) BY <1>1 DEF OperatorRejects
  <2>3. \A d \in Cands : d # c => refused'[d] = refused[d] BY <1>1 DEF OperatorRejects
  <2>4. ASSUME NEW d \in Cands, refused'[d] = "in time"
        PROVE  cands'[d].status = "rejected" /\ ~cands'[d].lapsed /\ ~Held(d)'
    <3>1. CASE d = c BY <1>6, <2>1, <2>2, <2>4, <3>1
    <3>2. CASE d # c BY <1>5, <2>1, <2>3, <2>4, <3>2, CandFacts DEF Respected
    <3> QED BY <3>1, <3>2
  <2> QED BY <2>4 DEF Final
<1>10. PassesFit(pass', rows', cands', DOMAIN corrections')
  <2>1. ASSUME NEW j \in Passes
        PROVE  /\ \A d \in pass[j].todo : cands'[d].status # "none"
               /\ \A item \in pass[j].judged : cands'[item.cand].status # "none"
    BY <1>5, HeldFacts DEF Respected
  <2> QED BY <1>7, <2>1 DEF IInv, PassesFit
<1> QED BY <1>5, <1>7, <1>8, <1>9, <1>10 DEF IInv, Respected

LEMMA CorrectsStep == ASSUME IInv, NEW right \in Amendments, OperatorCorrects(right) PROVE IInv'
<1> DEFINE new == [topic |-> right.topic, claim |-> right.claim, applied |-> FALSE]
<1>1. new \in CorrectionState BY BeliefsAssumption DEF CorrectionState
<1>2. corrections \in Seq(CorrectionState) BY DEF IInv, RestTyped
<1>3. corrections' = Append(corrections, new) BY DEF OperatorCorrects
<1> HIDE DEF new
<1>4. corrections' \in Seq(CorrectionState) /\ DOMAIN corrections \subseteq DOMAIN corrections'
  <2>1. Len(corrections) \in Nat /\ Len(corrections') = Len(corrections) + 1
        /\ corrections' \in Seq(CorrectionState)
    BY <1>1, <1>2, <1>3
  <2> QED BY <1>2, <2>1
<1>5. RestTyped'
  <2>1. inputs \in Nat BY DEF IInv, RestTyped
  <2>2. inputs' \in Nat BY <2>1 DEF OperatorCorrects
  <2> QED BY <1>4, <2>2 DEF IInv, RestTyped, OperatorCorrects
<1>6. Respected /\ RowsFit(rows') /\ Len(rows) <= Len(rows')
  BY Untouched, RowsStay DEF OperatorCorrects
<1>7. pass' = pass /\ refused' = refused BY DEF OperatorCorrects
<1> QED BY <1>4, <1>5, <1>6, <1>7, PassStays

LEMMA MergesStep ==
    ASSUME IInv, NEW d \in Drafts, NEW c \in Cands, DraftMerges(d, c) PROVE IInv'
<1>1. d.claim \in Claims BY BeliefsAssumption
<1>2. cands[c].status = "pending" /\ refused[c] # "in time"
  BY CandFacts DEF DraftMerges, With
<1>3. cands' = [cands EXCEPT ![c] = [cands[c] EXCEPT !.claim = d.claim]] BY DEF DraftMerges
<1>4. cands'[c] = [cands[c] EXCEPT !.claim = d.claim]
      /\ \A e \in Cands : e # c => cands'[e] = cands[e]
  BY <1>3, CandFacts
<1>5. cands'[c] \in CandState BY <1>1, <1>4, CandFacts DEF CandState
<1>6. cands'[c].status = "pending" /\ ~cands'[c].lapsed /\ cands'[c].topic \in Topics
      /\ cands'[c].claim \in Claims
  BY <1>1, <1>2, <1>4, CandFacts DEF CandState
<1>7. Respected
  <2>1. cands' \in [Cands -> CandState] BY <1>3, <1>4, <1>5, CandFacts
  <2>2. ASSUME NEW e \in Cands
        PROVE  /\ cands'[e].status # "none" => cands'[e].topic \in Topics /\ cands'[e].claim \in Claims
               /\ cands'[e].status = "pending" => ~cands'[e].lapsed
               /\ cands[e].status # "none" => cands'[e].status # "none"
               /\ refused[e] = "in time" => cands'[e].status = "rejected" /\ ~cands'[e].lapsed
    <3>1. CASE e = c BY <1>2, <1>6, <3>1
    <3>2. CASE e # c BY <1>4, <3>2, CandFacts
    <3> QED BY <3>1, <3>2
  <2> QED BY <2>1, <2>2 DEF Respected, CandsFit
<1>8. RestTyped'
  <2>1. due \in BOOLEAN BY DEF IInv, RestTyped
  <2> QED BY <2>1, RestFits DEF DraftMerges
<1>9. RowsFit(rows') /\ Len(rows) <= Len(rows') BY RowsStay DEF DraftMerges
<1>10. pass' = pass /\ corrections' = corrections /\ refused' = refused BY DEF DraftMerges
<1> QED BY <1>7, <1>8, <1>9, <1>10, PassStays

LEMMA InsertsStep == ASSUME IInv, NEW d \in Drafts, DraftInserts(d) PROVE IInv'
<1> DEFINE c == First(With("none"))
           new == [status |-> "pending", lapsed |-> FALSE, topic |-> d.topic,
                   claim |-> d.claim, prov |-> d.prov, age |-> 0]
<1>1. d.topic \in Topics /\ d.claim \in Claims /\ d.prov \in Provenance BY BeliefsAssumption
<1>2. c \in Cands /\ cands[c].status = "none"
  <2>1. With("none") \subseteq Cands /\ With("none") # {} BY DEF DraftInserts, With
  <2>2. c \in With("none") BY <2>1, CandsAreNats, FirstIn
  <2> QED BY <2>2 DEF With
<1>3. new \in CandState /\ new.status = "pending" /\ ~new.lapsed /\ new.topic \in Topics
      /\ new.claim \in Claims
  <2>1. 0 \in 0 .. (ConflictAge + 1) BY BeliefsAssumption
  <2> QED BY <1>1, <2>1 DEF CandState
<1>4. cands' = [cands EXCEPT ![c] = new] BY DEF DraftInserts
<1>5. refused[c] # "in time" BY <1>2, CandFacts
<1> HIDE DEF c, new
<1>6. cands'[c] = new /\ \A e \in Cands : e # c => cands'[e] = cands[e]
  BY <1>2, <1>4, CandFacts
<1>7. Respected
  <2>1. cands' \in [Cands -> CandState] BY <1>2, <1>3, <1>4, CandFacts
  <2>2. ASSUME NEW e \in Cands
        PROVE  /\ cands'[e].status # "none" => cands'[e].topic \in Topics /\ cands'[e].claim \in Claims
               /\ cands'[e].status = "pending" => ~cands'[e].lapsed
               /\ cands[e].status # "none" => cands'[e].status # "none"
               /\ refused[e] = "in time" => cands'[e].status = "rejected" /\ ~cands'[e].lapsed
    <3>1. CASE e = c BY <1>3, <1>5, <1>6, <3>1
    <3>2. CASE e # c BY <1>6, <3>2, CandFacts
    <3> QED BY <3>1, <3>2
  <2> QED BY <2>1, <2>2 DEF Respected, CandsFit
<1>8. RestTyped'
  <2>1. due \in BOOLEAN BY DEF IInv, RestTyped
  <2> QED BY <2>1, RestFits DEF DraftInserts
<1>9. RowsFit(rows') /\ Len(rows) <= Len(rows') BY RowsStay DEF DraftInserts
<1>10. pass' = pass /\ corrections' = corrections /\ refused' = refused BY DEF DraftInserts
<1> QED BY <1>7, <1>8, <1>9, <1>10, PassStays

LEMMA DayStep == ASSUME IInv, NextDay PROVE IInv'
<1>1. rows \in Seq(Row) /\ Linked(rows) /\ Len(rows) \in Nat /\ DOMAIN rows = 1 .. Len(rows)
  BY SeqFacts DEF IInv, RowsFit
<1>2. rows' = [i \in 1 .. Len(rows) |-> [rows[i] EXCEPT !.today = FALSE]] BY <1>1 DEF NextDay
<1>3. ASSUME NEW i \in 1 .. Len(rows)
      PROVE  /\ [rows[i] EXCEPT !.today = FALSE] \in Row
             /\ rows'[i].key = rows[i].key /\ rows'[i].sup = rows[i].sup
  <2>1. rows[i] \in Row BY <1>1
  <2> QED BY <1>2, <2>1 DEF Row
<1>4. rows' \in Seq(Row) BY <1>1, <1>2, <1>3, IsASeq
<1>5. DOMAIN rows' = 1 .. Len(rows) /\ Len(rows') = Len(rows)
  <2>1. DOMAIN rows' = 1 .. Len(rows) BY <1>2
  <2>2. Len(rows') \in Nat /\ DOMAIN rows' = 1 .. Len(rows') BY <1>4, SeqFacts
  <2> QED BY <1>1, <2>1, <2>2
<1>6. RowsFit(rows') /\ Len(rows) <= Len(rows')
  <2>1. Linked(rows') BY <1>1, <1>3, <1>5 DEF Linked
  <2> QED BY <1>1, <1>4, <1>5, <2>1 DEF RowsFit
<1>7. ASSUME NEW c \in Cands
      PROVE  /\ cands'[c] \in CandState
             /\ cands'[c].status = cands[c].status /\ cands'[c].lapsed = cands[c].lapsed
             /\ cands'[c].topic = cands[c].topic /\ cands'[c].claim = cands[c].claim
  <2>1. CASE cands[c].status # "none" /\ cands[c].age <= ConflictAge
    <3>1. cands'[c] = [cands[c] EXCEPT !.age = cands[c].age + 1] BY <2>1 DEF NextDay
    <3>2. ConflictAge \in Nat /\ cands[c].age \in 0 .. (ConflictAge + 1)
      BY BeliefsAssumption, CandFacts DEF CandState
    <3>3. cands[c].age + 1 \in 0 .. (ConflictAge + 1) BY <2>1, <3>2
    <3> QED BY <3>1, <3>3, CandFacts DEF CandState
  <2>2. CASE ~(cands[c].status # "none" /\ cands[c].age <= ConflictAge)
    <3>1. cands'[c] = cands[c] BY <2>2 DEF NextDay
    <3> QED BY <3>1, CandFacts
  <2> QED BY <2>1, <2>2
<1>8. cands' \in [Cands -> CandState] BY <1>7 DEF NextDay
<1>9. Respected BY <1>7, <1>8, CandFacts DEF Respected, CandsFit
<1>10. RestTyped'
  <2>1. due \in BOOLEAN BY DEF IInv, RestTyped
  <2> QED BY <2>1, RestFits DEF NextDay
<1>11. pass' = pass /\ corrections' = corrections /\ refused' = refused BY DEF NextDay
<1> QED BY <1>6, <1>9, <1>10, <1>11, PassStays

-----------------------------------------------------------------------------
(* The passes, step by step                                                *)

LEMMA NightStep == ASSUME IInv, NightBegins PROVE IInv'
<1> DEFINE gone == Expired("pending", ExpiryAge)
           lapsed == Expired("conflicted", ConflictAge)
           next == [Resting EXCEPT !.pc = "dedupe", !.todo = With("pending") \ gone]
<1>1. ASSUME NEW c \in Cands
      PROVE  \/ /\ c \in lapsed /\ cands[c].status = "conflicted"
                /\ cands'[c] = [cands[c] EXCEPT !.status = "rejected", !.lapsed = TRUE]
             \/ /\ c \in gone /\ cands[c].status = "pending"
                /\ cands'[c] = [cands[c] EXCEPT !.status = "rejected"]
             \/ cands'[c] = cands[c]
  BY DEF NightBegins, Marked, Expired, With
<1>2. ASSUME NEW c \in Cands
      PROVE  /\ cands'[c] \in CandState
             /\ cands'[c].status # "none" => cands'[c].topic \in Topics /\ cands'[c].claim \in Claims
             /\ cands'[c].status = "pending" => ~cands'[c].lapsed
             /\ cands[c].status # "none" => cands'[c].status # "none"
             /\ refused[c] = "in time" => cands'[c].status = "rejected" /\ ~cands'[c].lapsed
  <2>1. CASE cands[c].status = "conflicted"
             /\ cands'[c] = [cands[c] EXCEPT !.status = "rejected", !.lapsed = TRUE]
    BY <2>1, CandFacts DEF CandState
  <2>2. CASE cands[c].status = "pending" /\ cands'[c] = [cands[c] EXCEPT !.status = "rejected"]
    BY <2>2, CandFacts DEF CandState
  <2>3. CASE cands'[c] = cands[c] BY <2>3, CandFacts
  <2> QED BY <1>1, <2>1, <2>2, <2>3
<1>3. cands' \in [Cands -> CandState] BY <1>2 DEF NightBegins
<1>4. Respected BY <1>2, <1>3 DEF Respected, CandsFit
<1>5. next \in PassState /\ next.todo = With("pending") \ gone /\ next.pc = "dedupe"
      /\ next.judged = {} /\ next.heads = {} /\ next.left = {}
  BY DEF Resting, PassState, With
<1>6. \A c \in next.todo : cands'[c].status # "none"
  <2>1. \A c \in next.todo : c \in Cands /\ cands[c].status = "pending" BY <1>5 DEF With
  <2> QED BY <1>4, <2>1 DEF Respected
<1>7. RestTyped' BY RestFits DEF NightBegins
<1>8. RowsFit(rows') /\ Len(rows) <= Len(rows') BY RowsStay DEF NightBegins
<1>9. Goes("dream", next) /\ corrections' = corrections /\ refused' = refused BY DEF NightBegins
<1>10. next.heads \subseteq DOMAIN rows' /\ next.left \subseteq DOMAIN corrections'
  BY <1>5, <1>9
<1> HIDE DEF next
<1>11. /\ "dream" # "dream" => next.left = {} /\ corrections' = corrections
       /\ next.pc \in {"assert", "mark"} => next.left # {}
       /\ \A c \in next.todo : cands'[c].status # "none"
                               /\ (next.pc # "dedupe" => refused[c] # "in time")
       /\ \A item \in next.judged : cands'[item.cand].status # "none"
                                    /\ refused[item.cand] # "in time"
  BY <1>5, <1>6
<1> QED BY <1>4, <1>5, <1>7, <1>8, <1>9, <1>10, <1>11, DreamPasses, PassGoes

(* The steps of the dream that only read or forget.                        *)
LEMMA DreamForgets ==
    ASSUME IInv, Respected, RowsFit(rows'), Len(rows) <= Len(rows'), refused' = refused,
           corrections' = corrections, RestTyped', NEW next \in PassState, Goes("dream", next),
           next.heads \subseteq DOMAIN rows', next.left \subseteq DOMAIN corrections,
           next.pc \in {"assert", "mark"} => next.left # {},
           next.todo = {}, next.judged = {}
    PROVE  IInv'
BY DreamPasses, PassShrinks

LEMMA CollapseStep == ASSUME IInv, Collapse \/ NoEmbedder PROVE IInv'
<1> DEFINE next == [pass["dream"] EXCEPT !.pc = "merge", !.todo = {}]
<1>1. pass["dream"] \in PassState BY DreamPasses, HeldFacts
<1>2. next \in PassState /\ next.pc = "merge" /\ next.todo = {}
      /\ next.judged = pass["dream"].judged /\ next.heads = pass["dream"].heads
      /\ next.left = pass["dream"].left
  BY <1>1 DEF PassState
<1>3. RowsFit(rows') /\ Len(rows) <= Len(rows') BY RowsStay DEF Collapse, NoEmbedder
<1>4. due \in BOOLEAN BY DEF IInv, RestTyped
<1>5. RestTyped' BY <1>4, RestFits DEF Collapse, NoEmbedder
<1>6. /\ Goes("dream", next) /\ corrections' = corrections /\ refused' = refused
      /\ rows' = rows
  BY DEF Collapse, NoEmbedder
<1>7. CASE NoEmbedder
  <2>1. Respected BY <1>7, Untouched DEF NoEmbedder
  <2> QED BY <1>2, <1>3, <1>5, <1>6, <2>1, HeldFacts, DreamPasses, PassShrinks
<1>8. CASE Collapse
  <2>1. PICK S : S \subseteq pass["dream"].todo /\ cands' = Marked(S, "rejected")
    BY <1>8 DEF Collapse
  <2>2. \A c \in S : c \in Cands /\ cands[c].status # "none" BY <2>1, HeldFacts, DreamPasses
  <2>3. "rejected" \in Outcomes BY DEF Outcomes
  <2>4. Respected BY <2>1, <2>2, <2>3, MarkedRespected
  <2> QED BY <1>2, <1>3, <1>5, <1>6, <2>4, HeldFacts, DreamPasses, PassShrinks
<1> QED BY <1>7, <1>8

LEMMA NearMergeStep == ASSUME IInv, NearMerge PROVE IInv'
<1>1. PICK stable, kept :
        /\ stable \subseteq With("pending") /\ kept \subseteq stable
        /\ cands' = Marked(stable \ kept, "merged")
        /\ Goes("dream", [pass["dream"] EXCEPT !.pc = "promote", !.todo = kept])
  BY DEF NearMerge
<1> DEFINE next == [pass["dream"] EXCEPT !.pc = "promote", !.todo = kept]
           S == stable \ kept
<1>2. \A c \in stable : c \in Cands /\ cands[c].status = "pending" /\ refused[c] # "in time"
  BY <1>1, CandFacts DEF With
<1>3. Respected
  <2>1. "merged" \in Outcomes BY DEF Outcomes
  <2>2. S \subseteq Cands /\ (\A c \in S : cands[c].status # "none")
        /\ (\A c \in S : refused[c] # "in time") /\ cands' = Marked(S, "merged")
    BY <1>1, <1>2
  <2> HIDE DEF S
  <2> QED BY <2>1, <2>2, MarkedRespected
<1>4. next \in PassState /\ next.pc = "promote" /\ next.todo = kept
      /\ next.judged = pass["dream"].judged /\ next.heads = pass["dream"].heads
      /\ next.left = pass["dream"].left
  BY <1>1, <1>2, HeldFacts, DreamPasses DEF PassState
<1>5. due \in BOOLEAN BY DEF IInv, RestTyped
<1>6. RestTyped' BY <1>5, RestFits DEF NearMerge
<1>7. RowsFit(rows') /\ Len(rows) <= Len(rows') BY RowsStay DEF NearMerge
<1>8. rows' = rows /\ corrections' = corrections /\ refused' = refused /\ Goes("dream", next)
  BY <1>1 DEF NearMerge
<1> HIDE DEF next
<1>9. \A c \in next.todo : cands'[c].status # "none" /\ refused[c] # "in time"
  BY <1>1, <1>2, <1>3, <1>4 DEF Respected
<1>10. \A item \in next.judged : cands'[item.cand].status # "none" /\ refused[item.cand] # "in time"
  BY <1>3, <1>4, HeldFacts, DreamPasses DEF Respected
<1>11. next.heads \subseteq DOMAIN rows' /\ next.left \subseteq DOMAIN corrections'
       /\ (next.pc \in {"assert", "mark"} => next.left # {})
  BY <1>4, <1>8, HeldFacts, DreamPasses
<1> QED BY <1>3, <1>4, <1>6, <1>7, <1>8, <1>9, <1>10, <1>11, DreamPasses, PassGoes

LEMMA SettleStep == ASSUME IInv, Settle PROVE IInv'
<1> DEFINE p == pass["dream"]
           c == First(p.todo)
           item == Item(c, "pending")
<1>1. /\ p \in PassState /\ p.todo \subseteq Cands /\ p.judged \subseteq ItemState
      /\ p.pc = "promote"
  BY HeldFacts, DreamPasses DEF Settle, PassState
<1>2. c \in p.todo
  <2>1. p.todo \subseteq Nat /\ p.todo # {} BY <1>1, CandsAreNats DEF Settle
  <2> HIDE DEF p
  <2> QED BY <2>1, FirstIn
<1>3. c \in Cands /\ cands[c].status # "none" /\ refused[c] # "in time"
  BY <1>1, <1>2, HeldFacts, DreamPasses
<1>4. item \in ItemState /\ item.cand = c
  <2> HIDE DEF c
  <2> QED BY <1>3, ItemTyped
<1> HIDE DEF c, item
<1>5. PICK asked \in {{}, {item}} :
        Goes("dream", [p EXCEPT !.todo = p.todo \ {c}, !.judged = p.judged \cup asked])
  <2>1. Goes("dream", [p EXCEPT !.todo = p.todo \ {c}, !.judged = p.judged \cup {item}])
        \/ Goes("dream", [p EXCEPT !.todo = p.todo \ {c}, !.judged = p.judged])
    BY DEF Settle, c, item
  <2>2. p.judged \cup {} = p.judged OBVIOUS
  <2> QED BY <2>1, <2>2
<1> DEFINE next == [p EXCEPT !.todo = p.todo \ {c}, !.judged = p.judged \cup asked]
<1>6. next \in PassState /\ next.pc = "promote" /\ next.todo = p.todo \ {c}
      /\ next.judged = p.judged \cup asked /\ next.heads = p.heads /\ next.left = p.left
  BY <1>1, <1>4, <1>5 DEF PassState
<1>7. Respected /\ RowsFit(rows') /\ Len(rows) <= Len(rows')
  <2>1. CASE Promote(c) BY <1>3, <2>1, PromoteRespects
  <2>2. CASE rows' = rows /\ cands' = cands BY <2>2, RowsStay, Untouched
  <2> QED BY <2>1, <2>2 DEF Settle, c
<1>8. due \in BOOLEAN BY DEF IInv, RestTyped
<1>9. RestTyped' BY <1>8, RestFits DEF Settle
<1>10. corrections' = corrections /\ refused' = refused /\ Goes("dream", next)
  BY <1>5 DEF Settle
<1>11. \A d \in p.todo : cands'[d].status # "none" /\ refused[d] # "in time"
  BY <1>1, <1>7, HeldFacts, DreamPasses DEF Respected
<1>12. \A it \in p.judged : cands'[it.cand].status # "none" /\ refused[it.cand] # "in time"
  BY <1>7, HeldFacts, DreamPasses DEF Respected
<1>13. cands'[item.cand].status # "none" /\ refused[item.cand] # "in time"
  BY <1>2, <1>4, <1>11
<1>14. p.heads \subseteq DOMAIN rows' /\ p.left \subseteq DOMAIN corrections
  <2>1. DOMAIN rows \subseteq DOMAIN rows' BY <1>7, LongerDomain, Zenon DEF IInv
  <2> QED BY <2>1, HeldFacts, DreamPasses
<1> HIDE DEF p, next
<1>15. \A d \in next.todo : cands'[d].status # "none" /\ refused[d] # "in time"
  BY <1>6, <1>11
<1>16. \A it \in next.judged : cands'[it.cand].status # "none" /\ refused[it.cand] # "in time"
  BY <1>5, <1>6, <1>12, <1>13
<1>17. next.heads \subseteq DOMAIN rows' /\ next.left \subseteq DOMAIN corrections'
       /\ (next.pc \in {"assert", "mark"} => next.left # {})
  BY <1>6, <1>10, <1>14
<1> QED BY <1>6, <1>7, <1>9, <1>10, <1>15, <1>16, <1>17, DreamPasses, PassGoes

LEMMA CliReadsStep == ASSUME IInv, "cli" \in Passes, CliReads PROVE IInv'
<1> DEFINE read == {d \in Backlog : CurrentHead(rows, cands[d].topic) # None}
           items == {Item(c, cands[c].status) : c \in read}
           next == [Resting EXCEPT !.pc = "promote", !.judged = items]
<1>1. ASSUME NEW c \in read
      PROVE  /\ c \in Cands /\ cands[c].status \in {"pending", "conflicted", "rejected"}
             /\ cands[c].status # "none" /\ refused[c] # "in time"
  <2>1. c \in Cands /\ (cands[c].status = "conflicted"
                        \/ (cands[c].status = "rejected" /\ cands[c].lapsed))
    BY DEF Backlog, With
  <2> QED BY <2>1, CandFacts
<1>2. ASSUME NEW item \in items
      PROVE  item \in ItemState /\ cands[item.cand].status # "none"
             /\ refused[item.cand] # "in time"
  <2>1. PICK c \in read : item = Item(c, cands[c].status) OBVIOUS
  <2> HIDE DEF read
  <2>2. item \in ItemState /\ item.cand = c BY <1>1, <2>1, ItemTyped
  <2> QED BY <1>1, <2>2
<1>3. Goes("cli", next) /\ corrections' = corrections /\ refused' = refused
      /\ inputs' = inputs + 1 /\ faults' = faults /\ due' = due
  BY DEF CliReads
<1> HIDE DEF items
<1>4. next \in PassState /\ next.pc = "promote" /\ next.todo = {} /\ next.judged = items
      /\ next.heads = {} /\ next.left = {}
  BY <1>2 DEF Resting, PassState
<1>5. Respected /\ RowsFit(rows') /\ Len(rows) <= Len(rows') /\ cands' = cands
  BY RowsStay, Untouched DEF CliReads
<1>6. due \in BOOLEAN BY DEF IInv, RestTyped
<1>7. RestTyped' BY <1>3, <1>6, RestFits
<1>8. next.left \subseteq DOMAIN corrections' BY <1>3, <1>4
<1> HIDE DEF next
<1>9. \A item \in next.judged : cands'[item.cand].status # "none" /\ refused[item.cand] # "in time"
  BY <1>2, <1>4, <1>5
<1>10. next.heads \subseteq DOMAIN rows' /\ (next.pc \in {"assert", "mark"} => next.left # {})
       /\ \A c \in next.todo : cands'[c].status # "none" /\ refused[c] # "in time"
  BY <1>4
<1> QED BY <1>3, <1>4, <1>5, <1>7, <1>8, <1>9, <1>10, PassGoes

LEMMA JudgedStep == ASSUME IInv, NEW j \in Passes, NEW verdict, Judged(j, verdict) PROVE IInv'
<1> DEFINE p == pass[j]
           item == NextItem(j)
           topic == cands[item.cand].topic
           refined == IF verdict = "refines" THEN p.refined \cup {topic} ELSE p.refined
           next == [p EXCEPT !.judged = p.judged \ {item}, !.refined = refined]
<1>1. item \in p.judged BY NextItemIn DEF Judged
<1>2. item \in ItemState /\ item.cand \in Cands /\ cands[item.cand].status # "none"
      /\ refused[item.cand] # "in time"
  BY <1>1, HeldFacts
<1>3. topic \in Topics BY <1>2, CandFacts
<1>4. (rows' = rows /\ cands' = cands) \/ ApplyVerdict(item, verdict) BY DEF Judged
<1>5. Goes(j, next) /\ corrections' = corrections /\ refused' = refused /\ due' = due
      /\ inputs' = inputs /\ faults' = faults /\ p.pc = "promote"
  BY DEF Judged
<1> HIDE DEF item, topic
<1>6. Respected /\ RowsFit(rows') /\ Len(rows) <= Len(rows')
  <2>1. CASE rows' = rows /\ cands' = cands BY <2>1, RowsStay, Untouched
  <2>2. CASE ApplyVerdict(item, verdict) BY <1>2, <2>2, VerdictRespects
  <2> QED BY <1>4, <2>1, <2>2
<1>7. p \in PassState BY HeldFacts
<1>8. refined \subseteq Topics BY <1>3, <1>7 DEF PassState
<1> HIDE DEF refined
<1>9. next \in PassState /\ next.pc = p.pc /\ next.todo = p.todo
      /\ next.judged = p.judged \ {item} /\ next.heads = p.heads /\ next.left = p.left
  BY <1>7, <1>8 DEF PassState
<1>10. due \in BOOLEAN BY DEF IInv, RestTyped
<1>11. RestTyped' BY <1>5, <1>10, RestFits
<1>12. DOMAIN rows \subseteq DOMAIN rows' BY <1>6, LongerDomain, Zenon DEF IInv
<1>13. p.heads \subseteq DOMAIN rows' /\ p.left \subseteq DOMAIN corrections
       /\ (j # "dream" => p.left = {})
  BY <1>12, HeldFacts
<1> HIDE DEF next
<1>14. next.todo \subseteq pass[j].todo /\ next.judged \subseteq pass[j].judged
       /\ pass[j].pc # "dedupe"
  BY <1>5, <1>9
<1>15. next.heads \subseteq DOMAIN rows' /\ next.left \subseteq DOMAIN corrections
       /\ (j # "dream" => next.left = {}) /\ (next.pc \in {"assert", "mark"} => next.left # {})
  BY <1>5, <1>9, <1>13
<1> QED BY <1>5, <1>6, <1>9, <1>11, <1>14, <1>15, PassShrinks

LEMMA UnjudgedStep == ASSUME IInv, NEW j \in Passes, Unjudged(j) PROVE IInv'
<1> DEFINE p == pass[j]
           item == NextItem(j)
           next == [p EXCEPT !.judged = p.judged \ {item}]
<1>1. item \in p.judged BY NextItemIn DEF Unjudged
<1>2. item.cand \in Cands /\ cands[item.cand].status # "none" /\ refused[item.cand] # "in time"
  BY <1>1, HeldFacts
<1>3. Goes(j, next) /\ corrections' = corrections /\ refused' = refused /\ due' = due
      /\ inputs' = inputs /\ faults' = faults /\ rows' = rows /\ p.pc = "promote"
  BY DEF Unjudged
<1>4. \/ cands' = cands
      \/ \E status \in {"merged", "conflicted"} : cands' = Marked({item.cand}, status)
  BY DEF Unjudged
<1> HIDE DEF item
<1>5. Respected
  <2>1. CASE cands' = cands BY <2>1, Untouched
  <2>2. CASE \E status \in {"merged", "conflicted"} : cands' = Marked({item.cand}, status)
    <3> DEFINE S == {item.cand}
    <3>1. PICK status \in {"merged", "conflicted"} : cands' = Marked(S, status) BY <2>2
    <3>2. status \in Outcomes BY DEF Outcomes
    <3>3. S \subseteq Cands /\ (\A c \in S : cands[c].status # "none")
          /\ (\A c \in S : refused[c] # "in time")
      BY <1>2
    <3> HIDE DEF S
    <3> QED BY <3>1, <3>2, <3>3, MarkedRespected
  <2> QED BY <1>4, <2>1, <2>2
<1>6. p \in PassState BY HeldFacts
<1>7. next \in PassState /\ next.pc = p.pc /\ next.todo = p.todo
      /\ next.judged = p.judged \ {item} /\ next.heads = p.heads /\ next.left = p.left
  BY <1>6 DEF PassState
<1>8. due \in BOOLEAN BY DEF IInv, RestTyped
<1>9. RestTyped' BY <1>3, <1>8, RestFits
<1>10. RowsFit(rows') /\ Len(rows) <= Len(rows') BY <1>3, RowsStay
<1>11. p.heads \subseteq DOMAIN rows' /\ p.left \subseteq DOMAIN corrections
       /\ (j # "dream" => p.left = {})
  BY <1>3, HeldFacts
<1> HIDE DEF next
<1>12. next.todo \subseteq pass[j].todo /\ next.judged \subseteq pass[j].judged
       /\ pass[j].pc # "dedupe"
  BY <1>3, <1>7
<1>13. next.heads \subseteq DOMAIN rows' /\ next.left \subseteq DOMAIN corrections
       /\ (j # "dream" => next.left = {}) /\ (next.pc \in {"assert", "mark"} => next.left # {})
  BY <1>3, <1>7, <1>11
<1> QED BY <1>3, <1>5, <1>7, <1>9, <1>10, <1>12, <1>13, PassShrinks

(* A pass ends or is killed; a killed one may leave a belief behind.       *)
LEMMA RestingStep ==
    ASSUME IInv, NEW j \in Passes, Goes(j, Resting), cands' = cands,
           RowsFit(rows'), Len(rows) <= Len(rows'), corrections' = corrections,
           refused' = refused, due' = due, inputs' = inputs,
           faults' \in {faults, faults + 1}
    PROVE  IInv'
<1>1. due \in BOOLEAN BY DEF IInv, RestTyped
<1>2. RestTyped' BY <1>1, RestFits
<1>3. Respected BY Untouched
<1>4. Resting.left \subseteq DOMAIN corrections BY RestingTyped
<1>5. Resting.heads \subseteq DOMAIN rows' /\ Resting.todo \subseteq pass[j].todo
      /\ Resting.judged \subseteq pass[j].judged /\ Resting.pc \notin {"assert", "mark"}
  BY RestingTyped
<1> QED BY <1>2, <1>3, <1>4, <1>5, RestingTyped, PassShrinks

LEMMA EndsStep == ASSUME IInv, NightEnds \/ ("cli" \in Passes /\ CliEnds) PROVE IInv'
<1>1. PICK j \in Passes : Goes(j, Resting) BY DreamPasses DEF NightEnds, CliEnds
<1>2. RowsFit(rows') /\ Len(rows) <= Len(rows') BY RowsStay DEF NightEnds, CliEnds
<1> QED BY <1>1, <1>2, RestingStep DEF NightEnds, CliEnds

LEMMA DiesStep == ASSUME IInv, NEW j \in Passes, Dies(j) PROVE IInv'
<1>1. RowsFit(rows') /\ Len(rows) <= Len(rows')
  <2>1. CASE rows' = rows BY <2>1, RowsStay
  <2>2. CASE /\ pass[j].pc = "promote" /\ pass[j].todo # {}
             /\ rows' = Promoted(First(pass[j].todo))
    <3> DEFINE todo == pass[j].todo
    <3>1. todo \subseteq Cands /\ \A c \in todo : cands[c].status # "none" BY HeldFacts
    <3>2. todo \subseteq Nat /\ todo # {} BY <2>2, <3>1, CandsAreNats
    <3> HIDE DEF todo
    <3>3. First(todo) \in todo BY <3>2, FirstIn
    <3>4. rows' = Promoted(First(todo)) BY <2>2 DEF todo
    <3>5. RowsFit(Promoted(First(todo))) /\ Len(rows) <= Len(Promoted(First(todo)))
      BY <3>1, <3>3, PromotionFits
    <3> QED BY <3>4, <3>5, Zenon
  <2> QED BY <2>1, <2>2 DEF Dies
<1> QED BY <1>1, RestingStep DEF Dies

LEMMA TopicsReadStep == ASSUME IInv, TopicsRead PROVE IInv'
<1> DEFINE heads == LoadedHeads(rows)
           next == [Resting EXCEPT !.pc = "topics", !.heads = heads]
<1>1. heads \subseteq DOMAIN rows /\ DOMAIN rows \subseteq Nat
  <2>1. Len(rows) \in Nat /\ DOMAIN rows = 1 .. Len(rows) BY SeqFacts DEF IInv, RowsFit
  <2> QED BY <2>1 DEF LoadedHeads
<1>2. Goes("dream", next) /\ corrections' = corrections /\ refused' = refused /\ due' = due
      /\ inputs' = inputs /\ faults' = faults /\ rows' = rows
  BY DEF TopicsRead
<1>3. Respected BY Untouched DEF TopicsRead
<1> HIDE DEF heads
<1>4. next \in PassState /\ next.pc = "topics" /\ next.todo = {} /\ next.judged = {}
      /\ next.heads = heads /\ next.left = {}
  BY <1>1 DEF Resting, PassState
<1>5. due \in BOOLEAN BY DEF IInv, RestTyped
<1>6. RestTyped' BY <1>2, <1>5, RestFits
<1>7. RowsFit(rows') /\ Len(rows) <= Len(rows') BY <1>2, RowsStay
<1>8. next.heads \subseteq DOMAIN rows' BY <1>1, <1>2, <1>4
<1>9. next.left \subseteq DOMAIN corrections BY <1>4
<1> QED BY <1>2, <1>3, <1>4, <1>6, <1>7, <1>8, <1>9, DreamForgets

LEMMA MergeTopicsStep == ASSUME IInv, NEW s, NEW d, MergeTopics(s, d) PROVE IInv'
<1> DEFINE p == pass["dream"]
           next == [p EXCEPT !.heads = p.heads \ {d}]
<1>1. RowsFit(rows) /\ rows \in Seq(Row) /\ Linked(rows) /\ Len(rows) \in Nat
      /\ DOMAIN rows = 1 .. Len(rows)
  BY SeqFacts DEF IInv, RowsFit
<1>2. d \in 1 .. Len(rows)
  <2>1. d \in p.heads BY DEF MergeTopics
  <2> QED BY <1>1, <2>1, HeldFacts, DreamPasses
<1>3. rows[d].topic \in Topics
  <2>1. rows[d] \in Row BY <1>1, <1>2
  <2> QED BY <2>1 DEF Row
<1>4. RowsFit(rows') /\ Len(rows) <= Len(rows')
  <2> DEFINE topic == rows[d].topic
  <2>1. ASSUME NEW i \in SameKey(rows, topic, d) PROVE d # i
    <3>1. i \in 1 .. Len(rows) /\ rows[i].key = d BY <1>1 DEF SameKey
    <3>2. rows[i].key < i BY <1>1, <3>1 DEF Linked
    <3> QED BY <1>2, <3>1, <3>2
  <2>2. d \in 0 .. Len(rows) BY <1>1, <1>2
  <2>3. "unknown" \in Provenance /\ Pointer \in Claims \cup {Pointer} /\ TRUE \in BOOLEAN
    BY DEF Provenance
  <2>4. rows' = Ingested(rows, topic, Pointer, TRUE, "unknown", d, d) BY DEF MergeTopics
  <2>5. topic \in Topics BY <1>3
  <2> HIDE DEF topic
  <2> DEFINE new == Ingested(rows, topic, Pointer, TRUE, "unknown", d, d)
  <2>6. RowsFit(new) /\ Len(rows) <= Len(new) BY <1>1, <2>1, <2>2, <2>3, <2>5, IngestedFits
  <2>7. rows' = new BY <2>4
  <2> HIDE DEF new
  <2> QED BY <2>6, <2>7, Zenon
<1>5. Goes("dream", next) /\ corrections' = corrections /\ refused' = refused /\ due' = due
      /\ inputs' = inputs /\ faults' = faults /\ p.pc = "topics"
  BY DEF MergeTopics
<1>6. Respected BY Untouched DEF MergeTopics
<1>7. p \in PassState BY HeldFacts, DreamPasses
<1>8. next \in PassState /\ next.pc = p.pc /\ next.todo = p.todo /\ next.judged = p.judged
      /\ next.heads = p.heads \ {d} /\ next.left = p.left
  BY <1>7 DEF PassState
<1>9. due \in BOOLEAN BY DEF IInv, RestTyped
<1>10. RestTyped' BY <1>5, <1>9, RestFits
<1>11. DOMAIN rows \subseteq DOMAIN rows' BY <1>4, LongerDomain, Zenon DEF IInv
<1>12. p.heads \subseteq DOMAIN rows' /\ p.left \subseteq DOMAIN corrections
  BY <1>11, HeldFacts, DreamPasses
<1> HIDE DEF next
<1>13. next.todo \subseteq pass["dream"].todo /\ next.judged \subseteq pass["dream"].judged
       /\ pass["dream"].pc # "dedupe" /\ next.heads \subseteq DOMAIN rows'
       /\ next.left \subseteq DOMAIN corrections /\ next.pc \notin {"assert", "mark"}
  BY <1>5, <1>8, <1>12
<1> QED BY <1>4, <1>5, <1>6, <1>8, <1>10, <1>13, DreamPasses, PassShrinks

LEMMA TopicsEndStep == ASSUME IInv, TopicsEnd PROVE IInv'
<1> DEFINE n == Unapplied
           next == [Resting EXCEPT !.pc = "replay", !.left = n]
<1>1. n \subseteq Nat /\ n \subseteq DOMAIN corrections
  <2>1. corrections \in Seq(CorrectionState) BY DEF IInv, RestTyped
  <2>2. Len(corrections) \in Nat /\ DOMAIN corrections = 1 .. Len(corrections)
    BY <2>1, SeqFacts
  <2>3. DOMAIN corrections \subseteq Nat BY <2>2
  <2> QED BY <2>3 DEF Unapplied
<1>2. Goes("dream", next) /\ corrections' = corrections /\ refused' = refused /\ due' = due
      /\ inputs' = inputs /\ faults' = faults /\ rows' = rows
  BY DEF TopicsEnd
<1>3. Respected BY Untouched DEF TopicsEnd
<1> HIDE DEF n
<1>4. next \in PassState /\ next.pc = "replay" /\ next.todo = {} /\ next.judged = {}
      /\ next.heads = {} /\ next.left = n
  BY <1>1 DEF Resting, PassState
<1>5. due \in BOOLEAN BY DEF IInv, RestTyped
<1>6. RestTyped' BY <1>2, <1>5, RestFits
<1>7. RowsFit(rows') /\ Len(rows) <= Len(rows') BY <1>2, RowsStay
<1> HIDE DEF next
<1>8. next.heads \subseteq DOMAIN rows' /\ next.left \subseteq DOMAIN corrections BY <1>1, <1>4
<1> QED BY <1>2, <1>3, <1>4, <1>6, <1>7, <1>8, DreamForgets

LEMMA CurrentCorrection ==
    ASSUME IInv, pass["dream"].left # {}
    PROVE  /\ Current \in pass["dream"].left /\ Current \in DOMAIN corrections
           /\ corrections[Current] \in CorrectionState
           /\ corrections[Current].topic \in Topics
           /\ corrections[Current].claim \in Claims \cup {None}
<1> DEFINE left == pass["dream"].left
<1>1. left \subseteq Nat /\ left # {} /\ left \subseteq DOMAIN corrections
  BY HeldFacts, DreamPasses DEF PassState
<1> HIDE DEF left
<1>2. First(left) \in left BY <1>1, FirstIn
<1>3. Current = First(left) BY DEF Current, left
<1>4. corrections \in Seq(CorrectionState) BY DEF IInv, RestTyped
<1>5. corrections[Current] \in CorrectionState
  <2>1. Current \in DOMAIN corrections BY <1>1, <1>2, <1>3
  <2> HIDE DEF Current, CorrectionState
  <2> QED BY <1>4, <2>1, SeqFacts
<1> QED BY <1>1, <1>2, <1>3, <1>5 DEF left, CorrectionState

LEMMA RetractStep == ASSUME IInv, Retract PROVE IInv'
<1> DEFINE p == pass["dream"]
           topic == corrections[Current].topic
           head == Recalled(rows, topic)
           live == head # None /\ ~rows[head].retracted
           new == Believe(rows, topic, rows[head].claim, TRUE, "first-party", head)
           latest == Latest(rows', DOMAIN rows')
<1>1. p \in PassState /\ p.left \subseteq DOMAIN corrections
  BY HeldFacts, DreamPasses DEF PassState
<1>2. p.left # {} /\ corrections' = corrections /\ refused' = refused /\ due' = due
      /\ inputs' = inputs /\ faults' = faults
  BY DEF Retract
<1>3. topic \in Topics BY <1>2, CurrentCorrection
<1>4. RowsFit(rows) /\ rows \in Seq(Row) /\ Len(rows) \in Nat /\ DOMAIN rows = 1 .. Len(rows)
  BY SeqFacts DEF IInv, RowsFit
<1>5. head \in 0 .. Len(rows)
  <2> HIDE DEF topic
  <2> QED BY <1>4, RecalledBound
<1>6. \/ live /\ rows' = new
         /\ Goes("dream", [p EXCEPT !.pc = "assert", !.heads = {latest}])
      \/ ~live /\ rows' = rows
         /\ Goes("dream", [p EXCEPT !.pc = "assert", !.heads = {head} \ {None}])
  BY DEF Retract
<1>7. Respected BY Untouched DEF Retract
<1>8. due \in BOOLEAN BY DEF IInv, RestTyped
<1>9. RestTyped' BY <1>2, <1>8, RestFits
<1> HIDE DEF topic, head
<1> DEFINE Leads(hs) == Goes("dream", [p EXCEPT !.pc = "assert", !.heads = hs])
<1>10. PICK heads \in SUBSET Nat :
         Leads(heads) /\ heads \subseteq DOMAIN rows' /\ RowsFit(rows') /\ Len(rows) <= Len(rows')
  <2>1. CASE live /\ rows' = new
             /\ Goes("dream", [p EXCEPT !.pc = "assert", !.heads = {latest}])
    <3>1. head \in 1 .. Len(rows) BY <1>4, <1>5, <2>1 DEF None
    <3>2. rows[head].claim \in Claims \cup {Pointer}
      <4>1. rows[head] \in Row BY <1>4, <3>1
      <4> QED BY <4>1 DEF Row
    <3>3. "first-party" \in Provenance /\ TRUE \in BOOLEAN BY DEF Provenance
    <3>4. RowsFit(new) /\ Len(rows) <= Len(new)
      <4> DEFINE claim == rows[head].claim
      <4>1. claim \in Claims \cup {Pointer} BY <3>2
      <4>2. new = Believe(rows, topic, claim, TRUE, "first-party", head) OBVIOUS
      <4> HIDE DEF claim
      <4> QED BY <1>3, <1>4, <1>5, <3>3, <4>1, <4>2, BelieveFits
    <3>5. RowsFit(rows') /\ Len(rows) <= Len(rows')
      <4>1. rows' = new BY <2>1
      <4> HIDE DEF new
      <4> QED BY <3>4, <4>1, Zenon
    <3>6. rows' \in Seq(Row) /\ Len(rows') \in Nat /\ DOMAIN rows' = 1 .. Len(rows')
      BY <3>5, SeqFacts DEF RowsFit
    <3>7. head \in DOMAIN rows' BY <1>4, <3>1, <3>5, LongerDomain
    <3>8. latest \in DOMAIN rows' BY <3>6, <3>7, LatestIn
    <3> HIDE DEF latest
    <3>9. {latest} \subseteq DOMAIN rows' /\ {latest} \subseteq Nat BY <3>6, <3>8
    <3>10. Leads({latest}) BY <2>1
    <3> HIDE DEF Leads
    <3> QED BY <3>5, <3>9, <3>10
  <2>2. CASE rows' = rows
             /\ Goes("dream", [p EXCEPT !.pc = "assert", !.heads = {head} \ {None}])
    <3>1. {head} \ {None} \subseteq DOMAIN rows' /\ {head} \ {None} \subseteq Nat
      BY <1>4, <1>5, <2>2 DEF None
    <3>2. Leads({head} \ {None}) BY <2>2
    <3>3. RowsFit(rows') /\ Len(rows) <= Len(rows') BY <2>2, RowsStay
    <3> HIDE DEF Leads
    <3> QED BY <3>1, <3>2, <3>3
  <2> QED BY <1>6, <2>1, <2>2
<1> DEFINE next == [p EXCEPT !.pc = "assert", !.heads = heads]
<1>11. next \in PassState /\ next.pc = "assert" /\ next.todo = p.todo
       /\ next.judged = p.judged /\ next.heads = heads /\ next.left = p.left
  BY <1>1, <1>10 DEF PassState
<1>12. p.pc = "replay" BY DEF Retract
<1>13. Goes("dream", next) BY <1>10
<1> HIDE DEF next
<1>14. next.todo \subseteq pass["dream"].todo /\ next.judged \subseteq pass["dream"].judged
       /\ pass["dream"].pc # "dedupe" /\ next.heads \subseteq DOMAIN rows'
       /\ next.left \subseteq DOMAIN corrections /\ next.left # {}
  BY <1>1, <1>2, <1>10, <1>11, <1>12
<1> QED BY <1>2, <1>7, <1>9, <1>10, <1>11, <1>13, <1>14, DreamPasses, PassShrinks

LEMMA AssertStep == ASSUME IInv, Assert PROVE IInv'
<1> DEFINE p == pass["dream"]
           topic == corrections[Current].topic
           claim == corrections[Current].claim
           new == Believe(rows, topic, claim, FALSE, "first-party", Replaced)
           next == [p EXCEPT !.pc = "mark", !.heads = {}]
<1>1. p \in PassState /\ p.left \subseteq DOMAIN corrections /\ p.left # {}
      /\ p.heads \subseteq DOMAIN rows /\ p.pc = "assert"
  BY HeldFacts, DreamPasses DEF Assert
<1>2. /\ \/ claim = None /\ rows' = rows
         \/ claim # None /\ rows' = new
      /\ corrections' = corrections /\ Goes("dream", next)
      /\ refused' = refused /\ due' = due /\ inputs' = inputs /\ faults' = faults
  BY DEF Assert
<1>3. topic \in Topics /\ (claim # None => claim \in Claims) BY <1>1, CurrentCorrection
<1>4. RowsFit(rows) /\ Len(rows) \in Nat /\ DOMAIN rows = 1 .. Len(rows)
  BY SeqFacts DEF IInv, RowsFit
<1>5. Replaced \in 0 .. Len(rows)
  <2>1. CASE p.heads = {} BY <1>4, <2>1 DEF Replaced, None
  <2>2. CASE p.heads # {}
    <3> DEFINE heads == p.heads
    <3>1. heads \subseteq Nat /\ heads # {} /\ heads \subseteq 1 .. Len(rows)
      BY <1>1, <1>4, <2>2
    <3> HIDE DEF heads
    <3>2. First(heads) \in heads BY <3>1, FirstIn
    <3>3. Replaced = First(heads) BY <2>2 DEF Replaced, heads
    <3>4. First(heads) \in 1 .. Len(rows) BY <3>1, <3>2, Zenon
    <3>5. \A i \in 1 .. Len(rows) : i \in 0 .. Len(rows) BY <1>4
    <3> QED BY <3>3, <3>4, <3>5, Zenon
  <2> QED BY <2>1, <2>2
<1>6. RowsFit(rows') /\ Len(rows) <= Len(rows')
  <2>1. CASE rows' = rows BY <2>1, RowsStay
  <2>2. CASE claim # None /\ rows' = new
    <3>1. "first-party" \in Provenance /\ FALSE \in BOOLEAN /\ claim \in Claims \cup {Pointer}
      BY <1>3, <2>2 DEF Provenance
    <3>2. topic \in Topics BY <1>3
    <3>3. new = Believe(rows, topic, claim, FALSE, "first-party", Replaced) OBVIOUS
    <3> HIDE DEF topic, claim
    <3>4. RowsFit(new) /\ Len(rows) <= Len(new)
      BY <1>4, <1>5, <3>1, <3>2, <3>3, BelieveFits
    <3>5. rows' = new BY <2>2
    <3> HIDE DEF new
    <3> QED BY <3>4, <3>5, Zenon
  <2> QED BY <1>2, <2>1, <2>2
<1>7. Respected BY Untouched DEF Assert
<1>8. due \in BOOLEAN BY DEF IInv, RestTyped
<1>9. RestTyped' BY <1>2, <1>8, RestFits
<1>10. next \in PassState /\ next.pc = "mark" /\ next.todo = p.todo
       /\ next.judged = p.judged /\ next.heads = {} /\ next.left = p.left
  BY <1>1 DEF PassState
<1> HIDE DEF topic, claim, new
<1>11. Goes("dream", next) /\ refused' = refused /\ corrections' = corrections BY <1>2
<1> HIDE DEF next
<1>12. /\ next.todo \subseteq pass["dream"].todo /\ next.judged \subseteq pass["dream"].judged
       /\ pass["dream"].pc # "dedupe" /\ next.heads \subseteq DOMAIN rows'
       /\ next.left \subseteq DOMAIN corrections /\ next.left # {}
  BY <1>1, <1>10
<1> QED BY <1>6, <1>7, <1>9, <1>10, <1>11, <1>12, DreamPasses, PassShrinks

(* A correction is done with, or given up for tonight.                     *)
LEMMA MarkStep == ASSUME IInv, MarkApplied \/ Skips PROVE IInv'
<1> DEFINE p == pass["dream"]
           rest == p.left \ {Current}
<1>1. p \in PassState /\ p.left \subseteq DOMAIN corrections /\ p.left # {}
      /\ p.heads \subseteq DOMAIN rows /\ p.pc # "dedupe"
  BY HeldFacts, DreamPasses DEF MarkApplied, Skips
<1>2. PICK heads \in {p.heads, {}} :
        Goes("dream", [p EXCEPT !.pc = "replay", !.heads = heads, !.left = rest])
  <2>1. CASE Skips BY <2>1 DEF Skips
  <2>2. CASE MarkApplied
    <3>1. [p EXCEPT !.pc = "replay", !.left = rest]
            = [p EXCEPT !.pc = "replay", !.heads = p.heads, !.left = rest]
      BY <1>1 DEF PassState
    <3> QED BY <2>2, <3>1 DEF MarkApplied
  <2> QED BY <2>1, <2>2
<1> DEFINE next == [p EXCEPT !.pc = "replay", !.heads = heads, !.left = rest]
<1>3. next \in PassState /\ next.pc = "replay" /\ next.todo = p.todo
      /\ next.judged = p.judged /\ next.heads = heads /\ next.left = rest
  BY <1>1 DEF PassState
<1>4. corrections' \in Seq(CorrectionState) /\ DOMAIN corrections' = DOMAIN corrections
  <2>1. corrections \in Seq(CorrectionState) BY DEF IInv, RestTyped
  <2>2. CASE Skips BY <2>1, <2>2 DEF Skips
  <2>3. CASE MarkApplied
    <3> DEFINE new == [corrections[Current] EXCEPT !.applied = TRUE]
    <3>1. corrections' = [corrections EXCEPT ![Current] = new] BY <2>3 DEF MarkApplied
    <3>2. new \in CorrectionState BY <1>1, CurrentCorrection DEF CorrectionState
    <3> HIDE DEF new
    <3> QED BY <1>1, <2>1, <3>1, <3>2, CurrentCorrection
  <2> QED BY <2>2, <2>3
<1>5. rows' = rows /\ cands' = cands /\ refused' = refused /\ due' = due /\ inputs' = inputs
      /\ faults' \in {faults, faults + 1}
  BY DEF MarkApplied, Skips
<1>6. Respected /\ RowsFit(rows') /\ Len(rows) <= Len(rows') BY <1>5, Untouched, RowsStay
<1>7. RestTyped'
  <2>1. faults \in Nat BY DEF IInv, RestTyped
  <2>2. faults' = faults \/ faults' = faults + 1 BY <1>5
  <2>3. faults' \in Nat BY <2>1, <2>2
  <2> QED BY <1>4, <1>5, <2>3 DEF IInv, RestTyped
<1>8. Goes("dream", next) BY <1>2
<1> HIDE DEF next
<1>9. \A c \in next.todo : cands'[c].status # "none" /\ refused[c] # "in time"
  BY <1>1, <1>3, <1>5, HeldFacts, DreamPasses
<1>10. \A it \in next.judged : cands'[it.cand].status # "none" /\ refused[it.cand] # "in time"
  BY <1>3, <1>5, HeldFacts, DreamPasses
<1>11. next.heads \subseteq DOMAIN rows' /\ next.left \subseteq DOMAIN corrections'
       /\ next.pc \notin {"assert", "mark"}
  BY <1>1, <1>2, <1>3, <1>4, <1>5
<1> QED BY <1>3, <1>5, <1>6, <1>7, <1>8, <1>9, <1>10, <1>11, DreamPasses, PassGoes

-----------------------------------------------------------------------------
(* The theorems                                                            *)

LEMMA InvariantStarts == ASSUME Init PROVE IInv
<1>1. RowsFit(rows)
  <2>1. rows \in Seq(Row) /\ rows = Legacy BY BeliefsAssumption DEF Init
  <2>2. Len(rows) \in Nat /\ DOMAIN rows = 1 .. Len(rows) BY <2>1, SeqFacts
  <2>3. ASSUME NEW i \in 1 .. Len(rows)
        PROVE  rows[i].key < i /\ rows[i].sup # i /\ rows[i].sup <= Len(rows)
    <3>1. rows[i].key < i /\ rows[i].sup < i BY <2>1, <2>2, BeliefsAssumption
    <3>2. rows[i].sup \in Nat
      <4>1. rows[i] \in Row BY <2>1
      <4> QED BY <4>1 DEF Row
    <3> QED BY <2>2, <3>1, <3>2
  <2> QED BY <2>1, <2>2, <2>3 DEF RowsFit, Linked
<1>2. NoCand \in CandState /\ NoCand.status = "none"
  <2>1. 0 \in 0 .. (ConflictAge + 1) BY BeliefsAssumption
  <2> QED BY <2>1 DEF NoCand, CandState, Provenance, None
<1>3. cands \in [Cands -> CandState] /\ \A c \in Cands : cands[c].status = "none"
  BY <1>2 DEF Init
<1>4. CandsFit(cands) BY <1>3 DEF CandsFit
<1>5. corrections = << >> BY DEF Init
<1>6. PassesFit(pass, rows, cands, DOMAIN corrections)
  <2>1. pass \in [Passes -> PassState] /\ \A j \in Passes : pass[j] = Resting
    BY RestingTyped DEF Init
  <2> QED BY <1>5, <2>1, RestingTyped DEF PassesFit
<1>7. Final
  <2>1. \A c \in Cands : refused[c] = "no" BY DEF Init
  <2> QED BY <2>1 DEF Final
<1>8. RestTyped
  <2>1. corrections \in Seq(CorrectionState) BY <1>5
  <2>2. refused \in [Cands -> {"no", "late", "in time"}] BY DEF Init
  <2>3. due \in BOOLEAN /\ inputs \in Nat /\ faults \in Nat BY DEF Init
  <2> QED BY <2>1, <2>2, <2>3 DEF RestTyped
<1> QED BY <1>1, <1>4, <1>6, <1>7, <1>8 DEF IInv

LEMMA InvariantStays == ASSUME IInv, [Next]_vars PROVE IInv'
<1>1. CASE Operator BY <1>1, BelievesStep, PromotesStep, RejectsStep, CorrectsStep DEF Operator
<1>2. CASE Biographer BY <1>2, MergesStep, InsertsStep DEF Biographer
<1>3. CASE NextDay BY <1>3, DayStep
<1>4. ASSUME NEW j \in Passes, Answers(j) PROVE IInv'
  BY <1>4, JudgedStep, UnjudgedStep DEF Answers
<1>5. CASE DreamSteps
  BY <1>4, <1>5, DreamPasses, NightStep, CollapseStep, NearMergeStep, SettleStep,
     TopicsReadStep, MergeTopicsStep, TopicsEndStep, RetractStep, AssertStep, MarkStep,
     EndsStep
     DEF DreamSteps
<1>6. CASE CliSteps BY <1>4, <1>6, CliReadsStep, EndsStep DEF CliSteps
<1>7. CASE Skips \/ \E j \in Passes : Dies(j) BY <1>7, MarkStep, DiesStep
<1>8. CASE UNCHANGED vars
  <2>1. Respected BY <1>8, Untouched DEF vars
  <2>2. RowsFit(rows') /\ Len(rows) <= Len(rows') BY <1>8, RowsStay DEF vars
  <2>3. due \in BOOLEAN BY DEF IInv, RestTyped
  <2>4. RestTyped' BY <1>8, <2>3, RestFits DEF vars
  <2> QED BY <1>8, <2>1, <2>2, <2>4, PassStays DEF vars
<1> QED BY <1>1, <1>2, <1>3, <1>5, <1>6, <1>7, <1>8 DEF Next

(* The invariant holds in every reachable state.                           *)
THEOREM InductiveInvariant == Spec => []IInv
<1>1. Init => IInv BY InvariantStarts
<1>2. IInv /\ [Next]_vars => IInv' BY InvariantStays
<1> QED BY <1>1, <1>2, PTL DEF Spec

(* Every row, candidate and pass has its type, and what a pass refers to   *)
(* exists.                                                                 *)
THEOREM BeliefsTypeCorrect == Spec => []TypeOK
<1>1. IInv => TypeOK
  <2> SUFFICES ASSUME IInv PROVE TypeOK OBVIOUS
  <2>1. rows \in Seq(Row) /\ cands \in [Cands -> CandState] BY DEF IInv, RowsFit, CandsFit
  <2>2. \A c \in Cands : cands[c].status # "none" =>
           cands[c].topic \in Topics /\ cands[c].claim \in Claims
    BY CandFacts
  <2>3. pass \in [Passes -> PassState]
        /\ \A j \in Passes : pass[j].heads \subseteq DOMAIN rows /\ pass[j].left \subseteq DOMAIN corrections
    BY DEF IInv, PassesFit
  <2> QED BY <2>1, <2>2, <2>3 DEF IInv, RestTyped, TypeOK
<1> QED BY <1>1, InductiveInvariant, PTL

(* A candidate the operator rejected before any pass had read it stays     *)
(* rejected for ever: promotion, the judge, reconcile and a pass that dies *)
(* act on what they read, and they never read it.                          *)
THEOREM RejectionIsFinal == Spec => []RejectionStands
<1>1. IInv => RejectionStands BY DEF IInv, Final, RejectionStands
<1> QED BY <1>1, InductiveInvariant, PTL

(* No row of the belief stream ever supersedes itself, though a write may  *)
(* rewrite a row of the same day in place.                                 *)
THEOREM NoSelfSupersession == Spec => []NeverItself
<1>1. IInv => NeverItself
  <2> SUFFICES ASSUME IInv, NEW i \in DOMAIN rows
               PROVE  rows[i].sup < i \/ rows[i].sup \in DOMAIN rows \ {i}
    BY DEF NeverItself
  <2>1. rows \in Seq(Row) /\ Linked(rows) /\ Len(rows) \in Nat /\ DOMAIN rows = 1 .. Len(rows)
    BY SeqFacts DEF IInv, RowsFit
  <2>2. rows[i].sup # i /\ rows[i].sup <= Len(rows) BY <2>1 DEF Linked
  <2>3. rows[i].sup \in Nat
    <3>1. rows[i] \in Row BY <2>1
    <3> QED BY <3>1 DEF Row
  <2> QED BY <2>1, <2>2, <2>3
<1> QED BY <1>1, InductiveInvariant, PTL
=============================================================================
