-------------------------- MODULE BiographerProofs --------------------------
(***************************************************************************)
(* Proofs about Biographer, for every number of sessions, chunk texts,     *)
(* budgets and bounds on faults: types, and the four safety invariants of  *)
(* the runs.                                                               *)
(***************************************************************************)
EXTENDS Biographer, FiniteSetTheorems, WellFoundedInduction, TLAPS

-----------------------------------------------------------------------------
(* 1. Chunks, rows of a table, batches                                     *)

(* A chunk that a session's text has, has a body.                          *)
LEMMA ChunkFacts ==
    ASSUME NEW s \in Sessions
    PROVE  /\ N(s) \in Nat
           /\ \A i \in 0..(N(s) - 1) : BodyOf(s, i) \in Bodies /\ <<s, i>> \in Chunks
<1>1. Text[s] \in Seq(Bodies)
    BY BiographerAssumption
<1>2. N(s) \in Nat
    BY <1>1 DEF N
<1>3. ASSUME NEW i \in 0..(N(s) - 1) PROVE BodyOf(s, i) \in Bodies
    BY <1>1, <1>2 DEF N, BodyOf
<1>4. ASSUME NEW i \in 0..(N(s) - 1) PROVE <<s, i>> \in Chunks
    BY DEF Chunks
<1> QED BY <1>2, <1>3, <1>4

LEMMA ChunkParts ==
    ASSUME NEW c \in Chunks
    PROVE  /\ c = <<c[1], c[2]>> /\ c[1] \in Sessions
           /\ c[2] \in 0..(N(c[1]) - 1) /\ BodyOf(c[1], c[2]) \in Bodies
<1>1. PICK s \in Sessions : c \in {<<s, i>> : i \in 0..(N(s) - 1)}
    BY DEF Chunks
<1>2. PICK i \in 0..(N(s) - 1) : c = <<s, i>>
    BY <1>1
<1> QED BY <1>2, ChunkFacts

(* The places of a table up to a given one are as many as its rank: ranks  *)
(* of different places differ.                                             *)
LEMMA RanksRise ==
    ASSUME NEW n \in Nat, NEW K \in SUBSET (1..n), NEW a \in K, NEW b \in K, a < b
    PROVE  /\ IsFiniteSet({i \in K : i <= a}) /\ IsFiniteSet({i \in K : i <= b})
           /\ Cardinality({i \in K : i <= a}) \in Nat
           /\ Cardinality({i \in K : i <= b}) \in Nat
           /\ Cardinality({i \in K : i <= a}) < Cardinality({i \in K : i <= b})
<1> DEFINE A == {i \in K : i <= a}
           B == {i \in K : i <= b}
<1>1. \A i \in A : i \in B
  <2> SUFFICES ASSUME NEW i \in K, i <= a PROVE i <= b
      OBVIOUS
  <2>1. i \in Int /\ a \in Int /\ b \in Int
      OBVIOUS
  <2> QED BY <2>1
<1>2. A \in SUBSET B /\ B \in SUBSET (1..n)
    BY <1>1
<1>3. IsFiniteSet(B) /\ Cardinality(B) \in Nat
  <2>1. IsFiniteSet(1..n)
      BY FS_Interval
  <2> QED BY <1>2, <2>1, FS_Subset, FS_CardinalityType
<1>4. /\ IsFiniteSet(A) /\ Cardinality(A) \in Nat /\ Cardinality(A) <= Cardinality(B)
      /\ Cardinality(B) = Cardinality(A) => B = A
    BY <1>2, <1>3, FS_Subset, FS_CardinalityType
<1>5. b \in B /\ b \notin A
    OBVIOUS
<1> QED BY <1>3, <1>4, <1>5

(* RowsAt takes exactly the rows at the places K.                          *)
LEMMA RowsAtRows ==
    ASSUME NEW n \in Nat, NEW K \in SUBSET (1..n), NEW ls
    PROVE  /\ Cardinality(K) \in Nat
           /\ DOMAIN RowsAt(ls, K) = 1..Cardinality(K)
           /\ \A j \in 1..Cardinality(K) : \E k \in K : RowsAt(ls, K)[j] = ls[k]
           /\ \A k \in K : \E j \in 1..Cardinality(K) : RowsAt(ls, K)[j] = ls[k]
<1> DEFINE rank == [k \in K |-> Cardinality({i \in K : i <= k})]
           m == Cardinality(K)
<1>1. IsFiniteSet(K) /\ m \in Nat
  <2>1. IsFiniteSet(1..n)
      BY FS_Interval
  <2> QED BY <2>1, FS_Subset, FS_CardinalityType
<1>2. ASSUME NEW k \in K PROVE rank[k] \in 1..m
  <2> DEFINE A == {i \in K : i <= k}
  <2>1. IsFiniteSet(A) /\ Cardinality(A) <= m /\ Cardinality(A) \in Nat
      BY <1>1, FS_Subset, FS_CardinalityType
  <2>2. k \in A
      OBVIOUS
  <2>3. Cardinality(A) # 0
      BY <2>1, <2>2, FS_EmptySet
  <2> QED BY <2>1, <2>3, <1>1
<1>3. ASSUME NEW a \in K, NEW b \in K, rank[a] = rank[b] PROVE a = b
  <2>1. a \in Int /\ b \in Int
      OBVIOUS
  <2> DEFINE A == {i \in K : i <= a}
             B == {i \in K : i <= b}
  <2>2. Cardinality(A) = Cardinality(B)
      BY <1>3
  <2>3. a < b => Cardinality(A) \in Nat /\ Cardinality(A) < Cardinality(B)
      BY RanksRise
  <2>4. b < a => Cardinality(B) \in Nat /\ Cardinality(B) < Cardinality(A)
      BY RanksRise
  <2> HIDE DEF A, B
  <2> QED BY <2>1, <2>2, <2>3, <2>4
<1>4. rank \in Injection(K, 1..m)
    BY <1>2, <1>3 DEF Injection, IsInjective
<1>5. IsFiniteSet(1..m) /\ Cardinality(1..m) = m
    BY <1>1, FS_Interval
<1>6. rank \in Surjection(K, 1..m)
    BY <1>4, <1>5, FS_Injection
<1>7. \A j \in 1..m : \E k \in K : rank[k] = j
    BY <1>6 DEF Surjection
<1>8. ASSUME NEW j \in 1..m, NEW k \in K, rank[k] = j
      PROVE  RowsAt(ls, K)[j] = ls[k]
  <2>1. \A i \in K : Cardinality({x \in K : x <= i}) = j <=> i = k
      BY <1>3, <1>8
  <2>2. (CHOOSE i \in K : Cardinality({x \in K : x <= i}) = j) = k
      BY <2>1
  <2> QED BY <2>2 DEF RowsAt
<1>9. DOMAIN RowsAt(ls, K) = 1..m
    BY DEF RowsAt
<1> HIDE DEF rank, m
<1>10. \A j \in 1..m : \E k \in K : RowsAt(ls, K)[j] = ls[k]
    BY <1>7, <1>8
<1>11. \A k \in K : \E j \in 1..m : RowsAt(ls, K)[j] = ls[k]
    BY <1>2, <1>8
<1> QED BY <1>1, <1>9, <1>10, <1>11 DEF m

(* A table of letters keeps its type, and the rows at the other places.    *)
LEMMA LettersKept ==
    ASSUME NEW ls \in Seq(Letters), NEW K \in SUBSET DOMAIN ls
    PROVE  /\ RowsAt(ls, K) \in Seq(Letters)
           /\ \A k \in K : \E j \in DOMAIN RowsAt(ls, K) : RowsAt(ls, K)[j] = ls[k]
           /\ \A j \in DOMAIN RowsAt(ls, K) : \E k \in K : RowsAt(ls, K)[j] = ls[k]
<1>1. Len(ls) \in Nat /\ DOMAIN ls = 1..Len(ls) /\ \A k \in DOMAIN ls : ls[k] \in Letters
    OBVIOUS
<1>2. K \in SUBSET (1..Len(ls))
    BY <1>1
<1>3. /\ Cardinality(K) \in Nat
      /\ DOMAIN RowsAt(ls, K) = 1..Cardinality(K)
      /\ \A j \in 1..Cardinality(K) : \E k \in K : RowsAt(ls, K)[j] = ls[k]
      /\ \A k \in K : \E j \in 1..Cardinality(K) : RowsAt(ls, K)[j] = ls[k]
  <2> DEFINE n == Len(ls)
  <2>1. n \in Nat /\ K \in SUBSET (1..n)
      BY <1>1, <1>2
  <2> HIDE DEF n
  <2> QED BY <2>1, RowsAtRows
<1>4. \A j \in 1..Cardinality(K) : RowsAt(ls, K)[j] \in Letters
    BY <1>1, <1>3
<1>5. RowsAt(ls, K) = [j \in 1..Cardinality(K) |-> RowsAt(ls, K)[j]]
    BY DEF RowsAt
<1>6. RowsAt(ls, K) \in [1..Cardinality(K) -> Letters]
    BY <1>4, <1>5
<1>7. RowsAt(ls, K) \in Seq(Letters)
    BY <1>3, <1>6
<1> QED BY <1>3, <1>7

(* Recording a failure writes a letter for the body, and drops none.       *)
LEMMA FailureRecorded ==
    ASSUME NEW ls \in Seq(Letters), NEW c \in Chunks
    PROVE  /\ RecordClaimFailure(ls, c) \in Seq(Letters)
           /\ Lettered(RecordClaimFailure(ls, c), BodyOf(c[1], c[2]))
           /\ \A b : Lettered(ls, b) => Lettered(RecordClaimFailure(ls, c), b)
<1> DEFINE new == RecordClaimFailure(ls, c)
           own == {k \in DOMAIN ls : ls[k].of = c}
<1>1. \A k \in DOMAIN ls : ls[k] \in Letters
    OBVIOUS
<1>2. CASE own # {}
  <2>1. PICK k \in own : /\ k \in DOMAIN ls /\ ls[k].of = c
                         /\ new = Append(RowsAt(ls, DOMAIN ls \ {k}),
                                         [of |-> c, tries |-> ls[k].tries + 1])
    <3>1. (CHOOSE k \in own : TRUE) \in own
        BY <1>2
    <3> QED BY <1>2, <3>1 DEF RecordClaimFailure
  <2> DEFINE rest == RowsAt(ls, DOMAIN ls \ {k})
             row == [of |-> c, tries |-> ls[k].tries + 1]
  <2>2. /\ rest \in Seq(Letters)
        /\ \A i \in DOMAIN ls \ {k} : \E j \in DOMAIN rest : rest[j] = ls[i]
    <3> DEFINE K == DOMAIN ls \ {k}
    <3>1. K \in SUBSET DOMAIN ls
        OBVIOUS
    <3> HIDE DEF K
    <3>2. /\ RowsAt(ls, K) \in Seq(Letters)
          /\ \A i \in K : \E j \in DOMAIN RowsAt(ls, K) : RowsAt(ls, K)[j] = ls[i]
        BY <3>1, LettersKept
    <3> QED BY <3>2 DEF K
  <2>3. row \in Letters
      BY <1>1, <2>1 DEF Letters
  <2> HIDE DEF rest
  <2>4. /\ new \in Seq(Letters) /\ Len(rest) + 1 \in DOMAIN new
        /\ new[Len(rest) + 1] = row
        /\ \A j \in DOMAIN rest : j \in DOMAIN new /\ new[j] = rest[j]
    <3>1. new = Append(rest, row)
        BY <2>1 DEF rest
    <3> HIDE DEF row, new
    <3> QED BY <2>2, <2>3, <3>1
  <2> HIDE DEF new
  <2>5. Lettered(new, BodyOf(c[1], c[2]))
      BY <2>4 DEF Lettered
  <2>6. ASSUME NEW b, Lettered(ls, b) PROVE Lettered(new, b)
    <3>1. PICK i \in DOMAIN ls : BodyOf(ls[i].of[1], ls[i].of[2]) = b
        BY <2>6 DEF Lettered
    <3>2. CASE i = k
        BY <2>1, <2>5, <3>1, <3>2
    <3>3. CASE i # k
      <4>1. PICK j \in DOMAIN rest : rest[j] = ls[i]
          BY <2>2, <3>3
      <4> QED BY <2>4, <3>1, <4>1 DEF Lettered
    <3> QED BY <3>2, <3>3
  <2> QED BY <2>4, <2>5, <2>6 DEF new
<1>3. CASE own = {} /\ Lettered(ls, BodyOf(c[1], c[2]))
    BY <1>3 DEF RecordClaimFailure
<1>4. CASE own = {} /\ ~Lettered(ls, BodyOf(c[1], c[2]))
  <2> DEFINE row == [of |-> c, tries |-> 1]
  <2>1. new = Append(ls, row) /\ row \in Letters
      BY <1>4 DEF RecordClaimFailure, Letters
  <2>2. /\ new \in Seq(Letters) /\ Len(ls) + 1 \in DOMAIN new
        /\ new[Len(ls) + 1] = row
        /\ \A j \in DOMAIN ls : j \in DOMAIN new /\ new[j] = ls[j]
      BY <2>1
  <2> HIDE DEF new
  <2>3. Lettered(new, BodyOf(c[1], c[2]))
      BY <2>2 DEF Lettered
  <2>4. ASSUME NEW b, Lettered(ls, b) PROVE Lettered(new, b)
    <3>1. PICK i \in DOMAIN ls : BodyOf(ls[i].of[1], ls[i].of[2]) = b
        BY <2>4 DEF Lettered
    <3> QED BY <2>2, <3>1 DEF Lettered
  <2> QED BY <2>2, <2>3, <2>4 DEF new
<1> QED BY <1>2, <1>3, <1>4

(* A set of numbers that is not empty has a least member.                  *)
LEMMA LeastChunk ==
    ASSUME NEW S, S \subseteq Nat, S # {}
    PROVE  \E n \in S : \A m \in S : n <= m
<1> DEFINE R == OpToRel(<, Nat)
<1>1. IsWellFoundedOn(R, Nat)
    BY NatLessThanWellFounded
<1>2. \A m, n \in Nat : <<m, n>> \in R <=> m < n
    BY DEF R, OpToRel
<1> HIDE DEF R
<1>3. PICK n \in S : \A m \in S : <<m, n>> \notin R
    BY <1>1, WFMin, Zenon
<1>4. ASSUME NEW m \in S PROVE n <= m
  <2>1. m \in Nat /\ n \in Nat
      OBVIOUS
  <2>2. <<m, n>> \notin R
      BY <1>3
  <2>3. ~(m < n)
      BY <1>2, <2>1, <2>2, Zenon
  <2> QED BY <2>1, <2>3
<1> QED BY <1>4

(* The next batch lies in the window; the place after it is past all of    *)
(* it; a batch that is not empty has a first chunk.                        *)
LEMMA BatchFacts ==
    ASSUME child.at \in Nat, child.end \in Nat, child.at < child.end
    PROVE  /\ AfterBatch \in (child.at + 1)..child.end
           /\ NextBatch \subseteq child.at..(AfterBatch - 1)
           /\ NextBatch # {} => /\ ParkAt \in NextBatch
                                /\ \A j \in NextBatch : ParkAt <= j
<1> DEFINE a == child.at
           e == child.end
<1>1. Heard \subseteq a..(e - 1) /\ NextBatch \subseteq Heard
    BY DEF Heard, NextBatch
<1>2. \A i \in Heard : i \in Nat /\ a <= i /\ i < e
    BY <1>1
<1>3. ASSUME NextBatch # {}
      PROVE  ParkAt \in NextBatch /\ \A j \in NextBatch : ParkAt <= j
  <2>1. \E i \in NextBatch : \A j \in NextBatch : i <= j
    <3>1. NextBatch \subseteq Nat
        BY <1>1, <1>2
    <3> QED BY <1>3, <3>1, LeastChunk
  <2> QED BY <2>1 DEF ParkAt
<1>4. ASSUME NextBatch # {}
      PROVE  \E i \in NextBatch : \A j \in NextBatch : j <= i
  <2> DEFINE M == {e - 1 - i : i \in NextBatch}
  <2>1. M \subseteq Nat /\ M # {}
    <3>1. ASSUME NEW i \in NextBatch PROVE e - 1 - i \in Nat
        BY <1>1, <1>2
    <3> QED BY <1>4, <3>1
  <2> HIDE DEF M
  <2>2. PICK m \in M : \A x \in M : m <= x
      BY <2>1, LeastChunk
  <2>3. PICK i \in NextBatch : m = e - 1 - i
      BY <2>2 DEF M
  <2>4. ASSUME NEW j \in NextBatch PROVE j <= i
    <3>1. e - 1 - i <= e - 1 - j
        BY <2>2, <2>3, <2>4 DEF M
    <3> QED BY <1>1, <1>2, <3>1
  <2> QED BY <2>4
<1>5. NextBatch # Heard => NextBatch # {}
  <2> SUFFICES ASSUME Heard # {} PROVE NextBatch # {}
      BY <1>1
  <2>1. Heard \subseteq Nat
      BY <1>2
  <2>2. PICK i \in Heard : \A j \in Heard : i <= j
      BY <2>1, LeastChunk
  <2>3. {j \in Heard : j < i} = {}
      BY <1>2, <2>2
  <2>4. Cardinality({j \in Heard : j < i}) = 0
      BY <2>3, FS_EmptySet
  <2>5. 0 < Batch
      BY BiographerAssumption
  <2>6. i \in NextBatch
      BY <2>4, <2>5 DEF NextBatch
  <2> QED BY <2>6
<1>6. CASE NextBatch = Heard
  <2>1. AfterBatch = e
      BY <1>6 DEF AfterBatch
  <2> QED BY <1>1, <1>3, <2>1
<1>7. CASE NextBatch # Heard
  <2>1. PICK i \in NextBatch : /\ AfterBatch = 1 + i
                               /\ \A j \in NextBatch : j <= i
    <3> DEFINE last == CHOOSE i \in NextBatch : \A j \in NextBatch : j <= i
    <3>1. last \in NextBatch /\ \A j \in NextBatch : j <= last
        BY <1>4, <1>5, <1>7
    <3>2. AfterBatch = 1 + last
        BY <1>7 DEF AfterBatch
    <3> QED BY <3>1, <3>2
  <2>2. AfterBatch \in (a + 1)..e
      BY <1>1, <1>2, <2>1
  <2>3. ASSUME NEW j \in NextBatch PROVE j \in a..(AfterBatch - 1)
      BY <1>1, <1>2, <2>1
  <2> QED BY <1>3, <2>2, <2>3
<1> QED BY <1>6, <1>7

-----------------------------------------------------------------------------
(* 2. Types, and where a tick stands                                       *)

Busy == child.pc \notin {"none", "choose"}

(* The window of the session at hand, and the place in it.                 *)
Window ==
    Busy =>
       /\ child.of \in Sessions
       /\ child.from <= child.at /\ child.at <= child.end /\ child.end <= N(child.of)
       /\ child.pc = "extract" => child.end <= child.from + child.budget
       /\ child.pc = "drafting" => child.at < child.end
       /\ child.pc \in {"mark", "unpark"} => child.end = N(child.of)
       /\ child.blind => /\ child.pc \in {"settle", "mark", "unpark"}
                         /\ child.end = N(child.of)

(* A parked cursor points at a chunk.                                      *)
Cursors == \A s \in Sessions : parked[s] = NoRow \/ parked[s].next \in 0..(N(s) - 1)

(* A session was taken up at its cursor, or for the first time.            *)
Resumed ==
    Busy => IF child.resume
            THEN /\ parked[child.of] # NoRow
                 /\ child.from = parked[child.of].next
            ELSE /\ parked[child.of] = NoRow /\ child.from = 0
                 /\ marks[child.of] = 0 /\ child.pc # "unpark"

Shape == TypeOK /\ Window /\ Cursors /\ Resumed

LEMMA ShapeAtStart == Init => Shape
<1> SUFFICES ASSUME Init PROVE Shape
    OBVIOUS
<1>1. NoChild \in ChildState /\ NoDrain \in [pc : {"idle", "next"}, rows : Seq(Chunks)]
    BY DEF NoChild, ChildState, ChildPlaces, NoDrain
<1>2. NoRow \in [next : Nat \cup {-1}, got : SUBSET Nat]
    BY DEF NoRow
<1>3. faults \in 0..MaxFaults
    BY BiographerAssumption DEF Init
<1>4. \A s \in Sessions : fate[s] \in [0..(N(s) - 1) -> Fates]
    BY DEF Init, Fates
<1>5. TypeOK
    BY <1>1, <1>2, <1>3, <1>4 DEF Init, TypeOK
<1> QED BY <1>5 DEF Init, Shape, Window, Cursors, Resumed, Busy, NoChild

(* A tick between two sessions, or none, says nothing of a session.        *)
LEMMA AfterShape ==
    ASSUME child \in ChildState
    PROVE  /\ Onward(child) \in ChildState /\ After(child) \in ChildState
           /\ NoChild \in ChildState /\ NoChild.pc = "none" /\ Onward(child).pc = "choose"
           /\ After(child).pc \in {"none", "choose"}
BY DEF Onward, After, NoChild, ChildState, ChildPlaces

(* While no session is at hand the shape asks only for types and cursors.  *)
LEMMA IdleShape ==
    ASSUME TypeOK', Cursors', child'.pc \in {"none", "choose"}
    PROVE  Shape'
BY DEF Shape, Window, Resumed, Busy

LEMMA ShapeCapture == ASSUME Shape, NEW s \in Sessions, Capture(s) PROVE Shape'
BY DEF Shape, TypeOK, Window, Cursors, Resumed, Busy, Capture, Chunks, N

LEMMA ShapeSpawn == ASSUME Shape, Spawn PROVE Shape'
<1>1. child' \in ChildState /\ child'.pc = "choose"
  <2>1. PICK blind \in BOOLEAN : child' = [NoChild EXCEPT !.pc = "choose", !.budget = Budget,
                                                          !.blind = blind]
      BY DEF Spawn
  <2> QED BY <2>1, BiographerAssumption DEF NoChild, ChildState, ChildPlaces
<1>3. faults' \in 0..MaxFaults
    BY BiographerAssumption DEF Spawn, Shape, TypeOK
<1>2. TypeOK' /\ Cursors'
    BY <1>1, <1>3 DEF Shape, TypeOK, Cursors, Spawn
<1> QED BY <1>1, <1>2, IdleShape

LEMMA ShapeKill == ASSUME Shape, Kill PROVE Shape'
<1>1. child' \in ChildState /\ child'.pc = "none"
    BY AfterShape DEF Kill, Shape, TypeOK
<1>2. faults' \in 0..MaxFaults
    BY BiographerAssumption DEF Kill, Shape, TypeOK
<1>3. TypeOK' /\ Cursors'
    BY <1>1, <1>2 DEF Shape, TypeOK, Cursors, Kill
<1> QED BY <1>1, <1>3, IdleShape

LEMMA ShapeUnpark == ASSUME Shape, Unpark PROVE Shape'
<1>1. child' \in ChildState /\ child'.pc \in {"none", "choose"}
    BY AfterShape DEF Unpark, Shape, TypeOK
<1>2. parked' \in [Sessions -> [next : Nat \cup {-1}, got : SUBSET Nat]]
    BY DEF Unpark, Shape, TypeOK, NoRow
<1>3. Cursors'
    BY DEF Shape, TypeOK, Cursors, Unpark
<1>4. TypeOK'
    BY <1>1, <1>2 DEF Shape, TypeOK, Unpark
<1> QED BY <1>1, <1>3, <1>4, IdleShape

(* What a blind child writes into the history of the chunks it leaves.     *)
LEMMA UnaskedFacts ==
    ASSUME Shape, NEW s \in Sessions, NEW from \in Nat, fate' = Unasked(s, from)
    PROVE  /\ DOMAIN fate' = Sessions
           /\ \A t \in Sessions : fate'[t] \in [0..(N(t) - 1) -> Fates]
           /\ \A t \in Sessions : t # s => fate'[t] = fate[t]
           /\ \A i \in 0..(N(s) - 1) :
                 fate'[s][i] = IF i >= from THEN "unasked" ELSE fate[s][i]
<1> DEFINE new == [i \in 0..(N(s) - 1) |-> IF i >= from THEN "unasked" ELSE fate[s][i]]
<1>1. /\ DOMAIN fate = Sessions
      /\ \A t \in Sessions : fate[t] \in [0..(N(t) - 1) -> Fates]
    BY DEF Shape, TypeOK
<1>2. new \in [0..(N(s) - 1) -> Fates]
    BY <1>1 DEF Fates
<1>3. fate' = [fate EXCEPT ![s] = new]
    BY <1>1 DEF Unasked
<1>4. DOMAIN fate' = Sessions /\ fate'[s] = new
           /\ \A t \in Sessions : t # s => fate'[t] = fate[t]
    BY <1>1, <1>3
<1>5. \A i \in 0..(N(s) - 1) : fate'[s][i] = new[i]
    BY <1>4
<1> QED BY <1>1, <1>2, <1>4, <1>5

(* A session is taken up at its first chunk or at its cursor; blind, to be *)
(* settled at once.                                                        *)
LEMMA ShapeWorking ==
    ASSUME Shape, child.pc = "choose", NEW s \in Sessions, NEW next \in 0..N(s),
           NEW got \in SUBSET Nat, NEW resume \in BOOLEAN, Working(s, next, got, resume)
    PROVE  /\ child' \in ChildState /\ child'.of = s
           /\ child'.from = next /\ child'.at = next /\ child'.got = got
           /\ child'.resume = resume /\ child'.blind = child.blind
           /\ next <= child'.end /\ child'.end <= N(s)
           /\ \/ /\ child'.pc = "extract" /\ ~child'.blind /\ fate' = fate
                 /\ child'.end <= next + child'.budget
              \/ /\ child'.pc = "settle" /\ child'.blind /\ fate' = Unasked(s, next)
                 /\ child'.end = N(s)
           /\ DOMAIN fate' = Sessions
           /\ \A t \in Sessions : fate'[t] \in [0..(N(t) - 1) -> Fates]
<1>1. child \in ChildState /\ N(s) \in Nat /\ next \in Nat /\ child.budget \in Nat
    BY ChunkFacts DEF Shape, TypeOK, ChildState
<1>2. /\ Lower(next + child.budget, N(s)) \in Nat
      /\ next <= Lower(next + child.budget, N(s))
      /\ Lower(next + child.budget, N(s)) <= N(s)
      /\ Lower(next + child.budget, N(s)) <= next + child.budget
    BY <1>1 DEF Lower
<1> DEFINE end == Lower(next + child.budget, N(s))
<1>3. CASE ~child.blind
  <2>1. /\ fate' = fate
        /\ child' = [child EXCEPT !.of = s, !.from = next, !.at = next, !.got = got,
                                  !.resume = resume, !.out = FALSE,
                                  !.pc = "extract", !.end = end]
      BY <1>1, <1>3 DEF Working, ChildState
  <2>2. end \in Nat
      BY <1>2
  <2> HIDE DEF end
  <2>3. /\ child' \in ChildState /\ child'.pc = "extract" /\ child'.of = s
        /\ child'.from = next /\ child'.at = next /\ child'.got = got /\ ~child'.blind
        /\ child'.resume = resume /\ child'.budget = child.budget /\ child'.end = end
        /\ child'.blind = child.blind
      BY <1>1, <1>3, <2>1, <2>2 DEF ChildState, ChildPlaces
  <2>4. DOMAIN fate' = Sessions /\ \A t \in Sessions : fate'[t] \in [0..(N(t) - 1) -> Fates]
      BY <2>1 DEF Shape, TypeOK
  <2> QED BY <1>2, <2>1, <2>3, <2>4 DEF end
<1>4. CASE child.blind
  <2>1. /\ fate' = Unasked(s, next)
        /\ child' = [child EXCEPT !.of = s, !.from = next, !.at = next, !.got = got,
                                  !.resume = resume, !.out = FALSE,
                                  !.pc = "settle", !.end = N(s)]
      BY <1>1, <1>4 DEF Working, ChildState
  <2>2. /\ child' \in ChildState /\ child'.pc = "settle" /\ child'.of = s
        /\ child'.from = next /\ child'.at = next /\ child'.got = got /\ child'.blind
        /\ child'.resume = resume /\ child'.end = N(s) /\ child'.blind = child.blind
      BY <1>1, <1>4, <2>1 DEF ChildState, ChildPlaces
  <2>3. DOMAIN fate' = Sessions /\ \A t \in Sessions : fate'[t] \in [0..(N(t) - 1) -> Fates]
      BY <1>1, <2>1, UnaskedFacts
  <2>4. next <= N(s) /\ N(s) <= N(s)
      BY <1>1
  <2> QED BY <2>1, <2>2, <2>3, <2>4
<1> QED BY <1>3, <1>4

LEMMA ShapeChoose == ASSUME Shape, Choose PROVE Shape'
<1>1. child \in ChildState /\ child.pc = "choose"
    BY DEF Choose, Shape, TypeOK
<1>2. UNCHANGED <<captured, parked, graph, letters, queue, drain, excused,
                  orphaned, faults>>
    BY DEF Choose
<1>3. Cursors'
    BY <1>2 DEF Shape, Cursors
<1>4. ASSUME child' \in ChildState, marks' \in [Sessions -> Nat], DOMAIN fate' = Sessions,
             \A t \in Sessions : fate'[t] \in [0..(N(t) - 1) -> Fates]
      PROVE  TypeOK'
    BY <1>2, <1>4 DEF Shape, TypeOK, N, Chunks
<1>9. fate' = fate => /\ DOMAIN fate' = Sessions
                      /\ \A t \in Sessions : fate'[t] \in [0..(N(t) - 1) -> Fates]
    BY DEF Shape, TypeOK
<1>5. CASE child' = NoChild /\ UNCHANGED <<marks, fate>>
  <2>1. TypeOK' /\ child'.pc = "none"
      BY <1>1, <1>4, <1>5, <1>9, AfterShape DEF Shape, TypeOK
  <2> QED BY <1>3, <2>1, IdleShape
<1>6. ASSUME NEW s \in Targets, Resumable(s),
             Working(s, parked[s].next, Restored(s), TRUE), marks' = marks
      PROVE  Shape'
  <2>1. s \in Sessions /\ parked[s] # NoRow
      BY <1>6 DEF Targets, Resumable
  <2>2. parked[s].next \in 0..(N(s) - 1) /\ Restored(s) \in SUBSET Nat /\ N(s) \in Nat
      BY <2>1, ChunkFacts DEF Shape, TypeOK, Cursors, Restored
  <2>3. parked[s].next \in 0..N(s)
      BY <2>2
  <2>4. /\ child' \in ChildState /\ child'.of = s
        /\ child'.from = parked[s].next /\ child'.at = parked[s].next
        /\ child'.resume = TRUE
        /\ parked[s].next <= child'.end /\ child'.end <= N(s)
        /\ \/ /\ child'.pc = "extract" /\ ~child'.blind
              /\ child'.end <= parked[s].next + child'.budget
           \/ child'.pc = "settle" /\ child'.blind /\ child'.end = N(s)
        /\ DOMAIN fate' = Sessions
        /\ \A t \in Sessions : fate'[t] \in [0..(N(t) - 1) -> Fates]
      BY <1>1, <1>6, <2>1, <2>2, <2>3, ShapeWorking
  <2>5. TypeOK'
      BY <1>4, <1>6, <2>4 DEF Shape, TypeOK
  <2>6. Window'
      BY <2>1, <2>2, <2>4 DEF Window, N
  <2>7. Resumed'
      BY <1>2, <2>1, <2>4 DEF Resumed
  <2> QED BY <1>3, <2>5, <2>6, <2>7 DEF Shape
<1>7. ASSUME NEW s \in Targets, ~Resumable(s), s \in Unfit,
             marks' = [marks EXCEPT ![s] = @ + 1], UNCHANGED <<child, fate>>
      PROVE  Shape'
  <2>1. marks' \in [Sessions -> Nat]
      BY <1>7 DEF Shape, TypeOK, Targets
  <2>2. TypeOK' /\ child'.pc = "choose"
      BY <1>1, <1>4, <1>7, <1>9, <2>1
  <2> QED BY <1>3, <2>2, IdleShape
<1>8. ASSUME NEW s \in Targets, ~Resumable(s), Working(s, 0, {}, FALSE), marks' = marks
      PROVE  Shape'
  <2>1. s \in Sessions /\ Fresh(s)
      BY <1>8 DEF Targets
  <2>2. N(s) \in Nat /\ 0 \in 0..N(s)
      BY <2>1, ChunkFacts
  <2>3. /\ child' \in ChildState /\ child'.of = s
        /\ child'.from = 0 /\ child'.at = 0
        /\ child'.resume = FALSE
        /\ 0 <= child'.end /\ child'.end <= N(s)
        /\ \/ /\ child'.pc = "extract" /\ ~child'.blind
              /\ child'.end <= 0 + child'.budget
           \/ child'.pc = "settle" /\ child'.blind /\ child'.end = N(s)
        /\ DOMAIN fate' = Sessions
        /\ \A t \in Sessions : fate'[t] \in [0..(N(t) - 1) -> Fates]
      BY <1>1, <1>8, <2>1, <2>2, ShapeWorking
  <2>4. TypeOK'
      BY <1>4, <1>8, <2>3 DEF Shape, TypeOK
  <2>5. Window'
      BY <2>1, <2>2, <2>3 DEF Window, N
  <2>6. Resumed'
      BY <1>2, <1>8, <2>1, <2>3 DEF Resumed, Fresh
  <2> QED BY <1>3, <2>4, <2>5, <2>6 DEF Shape
<1> QED BY <1>5, <1>6, <1>7, <1>8 DEF Choose

(* What a step of the entity pass writes into the history of a chunk.      *)
LEMMA FatedFacts ==
    ASSUME Shape, child.pc = "extract", child.at < child.end,
           NEW what \in {"seen", "lost", "outage"}, Fated(what)
    PROVE  /\ DOMAIN fate' = Sessions
           /\ \A s \in Sessions : fate'[s] \in [0..(N(s) - 1) -> Fates]
           /\ \A s \in Sessions : s # child.of => fate'[s] = fate[s]
           /\ \A i \in 0..(N(child.of) - 1) :
                 fate'[child.of][i] =
                    IF i \in NextBatch THEN Answer(fate[child.of][i], what)
                    ELSE IF i \in child.at..(AfterBatch - 1) THEN "tool"
                    ELSE fate[child.of][i]
<1>1. child.of \in Sessions /\ child \in ChildState
    BY DEF Shape, TypeOK, Window, Busy
<1> DEFINE new == [i \in 0..(N(child.of) - 1) |->
                      IF i \in NextBatch THEN Answer(fate[child.of][i], what)
                      ELSE IF i \in child.at..(AfterBatch - 1) THEN "tool"
                      ELSE fate[child.of][i]]
<1>2. /\ DOMAIN fate = Sessions
      /\ \A s \in Sessions : fate[s] \in [0..(N(s) - 1) -> Fates]
    BY DEF Shape, TypeOK
<1>3. new \in [0..(N(child.of) - 1) -> Fates]
    BY <1>1, <1>2 DEF Answer, Fates
<1>4. fate' = [fate EXCEPT ![child.of] = new]
    BY <1>1, <1>2 DEF Fated
<1>5. DOMAIN fate' = Sessions /\ fate'[child.of] = new
           /\ \A s \in Sessions : s # child.of => fate'[s] = fate[s]
    BY <1>1, <1>2, <1>4
<1>6. \A i \in 0..(N(child.of) - 1) : fate'[child.of][i] = new[i]
    BY <1>5
<1>7. \A s \in Sessions : fate'[s] \in [0..(N(s) - 1) -> Fates]
    BY <1>2, <1>3, <1>5
<1> QED BY <1>5, <1>6, <1>7

(* The chunks of the window that may carry claims.                         *)
LEMMA SpokeChunks ==
    ASSUME child.of \in Sessions, NEW a \in Nat, NEW e \in Nat, e <= N(child.of)
    PROVE  /\ Spoke(a, e) \subseteq Chunks
           /\ \A i \in a..(e - 1) : BodyOf(child.of, i) \in Spoken
                                      => <<child.of, i>> \in Spoke(a, e)
<1>1. N(child.of) \in Nat
    BY ChunkFacts
<1>2. ASSUME NEW i \in a..(e - 1) PROVE <<child.of, i>> \in Chunks
    BY <1>1, <1>2, ChunkFacts
<1> QED BY <1>2 DEF Spoke

LEMMA ShapeExtract == ASSUME Shape, Extract PROVE Shape'
<1>1. /\ child \in ChildState /\ child.pc = "extract" /\ child.at < child.end /\ Busy
      /\ child.of \in Sessions /\ child.at \in Nat /\ child.end \in Nat /\ child.from \in Nat
      /\ child.from <= child.at /\ child.end <= N(child.of) /\ N(child.of) \in Nat
      /\ child.end <= child.from + child.budget /\ ~child.blind
    BY ChunkFacts DEF Extract, Shape, TypeOK, Window, Busy, ChildState
<1>2. /\ AfterBatch \in (child.at + 1)..child.end
      /\ NextBatch \subseteq child.at..(AfterBatch - 1)
      /\ NextBatch # {} => ParkAt \in NextBatch
    BY <1>1, BatchFacts
<1>9. /\ AfterBatch \in Nat /\ NextBatch \in SUBSET Nat
      /\ NextBatch # {} => ParkAt \in 0..(N(child.of) - 1)
  <2>1. AfterBatch \in Nat /\ AfterBatch <= child.end
      BY <1>1, <1>2
  <2>2. \A i \in NextBatch : i \in Nat /\ i < N(child.of)
      BY <1>1, <1>2, <2>1
  <2>3. NextBatch # {} => ParkAt \in Nat /\ ParkAt < N(child.of)
      BY <1>2, <2>2
  <2> QED BY <1>1, <2>1, <2>2, <2>3
<1>3. UNCHANGED <<captured, marks, graph, letters, queue, drain>>
    BY DEF Extract
<1>4. ASSUME NEW got \in SUBSET Nat, NEW late \in BOOLEAN,
             NEW what \in {"seen", "lost"}, Fated(what),
             child' = [child EXCEPT !.at = AfterBatch, !.got = got, !.late = late],
             UNCHANGED <<parked, excused, orphaned, faults>>
      PROVE  Shape'
  <2>1. /\ DOMAIN fate' = Sessions
        /\ \A s \in Sessions : fate'[s] \in [0..(N(s) - 1) -> Fates]
      BY <1>1, <1>4, FatedFacts
  <2>2. /\ child' \in ChildState /\ child'.pc = "extract" /\ child'.of = child.of
        /\ child'.at = AfterBatch /\ child'.from = child.from /\ child'.end = child.end
        /\ child'.resume = child.resume /\ child'.budget = child.budget
        /\ ~child'.blind
      BY <1>1, <1>4, <1>9 DEF ChildState
  <2>3. TypeOK'
      BY <1>3, <1>4, <2>1, <2>2 DEF Shape, TypeOK
  <2>4. Window'
      BY <1>1, <1>2, <2>2 DEF Window, N
  <2>5. Resumed' /\ Cursors'
      BY <1>1, <1>3, <1>4, <2>2 DEF Shape, Resumed, Cursors
  <2> QED BY <2>3, <2>4, <2>5 DEF Shape
<1>5. ASSUME NextBatch # {}, faults < MaxFaults, faults' = faults + 1,
             parked' = [parked EXCEPT ![child.of] = [next |-> ParkAt, got |-> child.got]],
             child' = NoChild, Fated("outage"),
             orphaned' = orphaned \cup Spoke(child.from, ParkAt), UNCHANGED excused
      PROVE  Shape'
  <2>1. /\ DOMAIN fate' = Sessions
        /\ \A s \in Sessions : fate'[s] \in [0..(N(s) - 1) -> Fates]
      BY <1>1, <1>5, FatedFacts
  <2>2. ParkAt \in 0..(N(child.of) - 1) /\ child.got \in SUBSET Nat
      BY <1>1, <1>5, <1>9 DEF ChildState
  <2>3. Spoke(child.from, ParkAt) \subseteq Chunks
      BY <1>1, <2>2, SpokeChunks
  <2>4. parked' \in [Sessions -> [next : Nat \cup {-1}, got : SUBSET Nat]]
      BY <1>1, <1>5, <2>2 DEF Shape, TypeOK
  <2>5. faults' \in 0..MaxFaults
      BY <1>5, BiographerAssumption DEF Shape, TypeOK
  <2>6. child' \in ChildState /\ child'.pc = "none"
      BY <1>1, <1>5, AfterShape
  <2>7. TypeOK'
      BY <1>3, <1>5, <2>1, <2>3, <2>4, <2>5, <2>6 DEF Shape, TypeOK
  <2>8. Cursors'
      BY <1>1, <1>5, <2>2 DEF Shape, TypeOK, Cursors
  <2> QED BY <2>6, <2>7, <2>8, IdleShape
<1>6. child.got \cup NextBatch \in SUBSET Nat /\ child.got \in SUBSET Nat
    BY <1>1, <1>9 DEF ChildState
<1>7. Later(child.late) \subseteq BOOLEAN
    BY <1>1 DEF Later, ChildState
<1>8. child' = [child EXCEPT !.at = AfterBatch, !.late = child'.late]
         => child' = [child EXCEPT !.at = AfterBatch, !.got = child.got, !.late = child'.late]
    BY <1>1 DEF ChildState
<1> QED BY <1>1, <1>4, <1>5, <1>6, <1>7, <1>8 DEF Extract

(* A step in the middle of a session that keeps the cursor and the marker  *)
(* keeps the shape, if the place it goes to has one.                       *)
LEMMA ShapeInside ==
    ASSUME Shape, Busy, child' \in ChildState, child'.pc \notin {"none", "choose", "unpark"},
           child'.of = child.of, child'.from = child.from, child'.resume = child.resume,
           child.pc # "unpark", UNCHANGED <<marks, parked>>,
           child'.from <= child'.at, child'.at <= child'.end, child'.end <= N(child.of),
           child'.pc \in {"claims", "drafting", "defer", "settle", "mark"},
           child'.pc = "drafting" => child'.at < child'.end,
           child'.pc = "mark" => child'.end = N(child.of),
           child'.blind => child'.pc = "mark",
           TypeOK'
    PROVE  Shape'
<1>1. Window'
    BY DEF Shape, Window, Busy, N
<1>2. Cursors' /\ Resumed'
    BY DEF Shape, Cursors, Resumed, Busy
<1> QED BY <1>1, <1>2 DEF Shape

LEMMA ShapeCloseWindow == ASSUME Shape, CloseWindow PROVE Shape'
<1>1. /\ child \in ChildState /\ child.pc = "extract" /\ Busy
      /\ child.of \in Sessions /\ child.at \in Nat /\ child.end \in Nat /\ child.from \in Nat
      /\ child.from <= child.at /\ child.at <= child.end /\ child.end <= N(child.of)
      /\ child.end <= child.from + child.budget /\ child.budget \in Nat
      /\ N(child.of) \in Nat /\ ~child.blind
    BY ChunkFacts DEF CloseWindow, Shape, TypeOK, Window, Busy, ChildState
<1>2. child.budget - (child.at - child.from) \in Nat
    BY <1>1
<1>3. /\ child' \in ChildState /\ child'.pc = "claims" /\ child'.of = child.of
      /\ child'.from = child.from /\ child'.at = child.from /\ child'.end = child.at
      /\ child'.resume = child.resume /\ ~child'.blind
    BY <1>1, <1>2 DEF CloseWindow, ChildState, ChildPlaces
<1>4. TypeOK'
    BY <1>3 DEF CloseWindow, Shape, TypeOK
<1> QED BY <1>1, <1>3, <1>4, ShapeInside DEF CloseWindow

(* In the claims pass: the place, and what Shape says of it.               *)
LEMMA InClaims ==
    ASSUME Shape, child.pc \in {"claims", "drafting", "defer", "settle", "mark"}
    PROVE  /\ Busy /\ child \in ChildState /\ child.of \in Sessions
           /\ child.at \in Nat /\ child.end \in Nat /\ child.from \in Nat
           /\ child.from <= child.at /\ child.at <= child.end /\ child.end <= N(child.of)
           /\ N(child.of) \in Nat
           /\ child.pc \in {"claims", "drafting", "defer"} => ~child.blind
           /\ child.at < child.end => /\ <<child.of, child.at>> \in Chunks
                                      /\ BodyOf(child.of, child.at) \in Bodies
                                      /\ child.at + 1 <= child.end
<1>1. /\ Busy /\ child \in ChildState /\ child.of \in Sessions
      /\ child.at \in Nat /\ child.end \in Nat /\ child.from \in Nat
      /\ child.from <= child.at /\ child.at <= child.end /\ child.end <= N(child.of)
      /\ N(child.of) \in Nat
      /\ child.pc \in {"claims", "drafting", "defer"} => ~child.blind
    BY ChunkFacts DEF Shape, TypeOK, Window, Busy, ChildState
<1>2. child.at < child.end => child.at \in 0..(N(child.of) - 1) /\ child.at + 1 <= child.end
    BY <1>1
<1> QED BY <1>1, <1>2, ChunkFacts

LEMMA ShapeClaimsStep == ASSUME Shape, ClaimsStep PROVE Shape'
<1>1. /\ Busy /\ child \in ChildState /\ child.of \in Sessions /\ child.pc = "claims"
      /\ child.at \in Nat /\ child.end \in Nat /\ child.from \in Nat
      /\ child.from <= child.at /\ child.at <= child.end /\ child.end <= N(child.of)
      /\ child.at < child.end => child.at + 1 <= child.end
      /\ ~child.blind
    BY InClaims DEF ClaimsStep
<1>2. excused' \subseteq Chunks
  <2>1. Spoke(child.at, child.end) \subseteq Chunks
      BY <1>1, SpokeChunks
  <2> QED BY <2>1 DEF ClaimsStep, Shape, TypeOK
<1>3. \/ child' = [child EXCEPT !.pc = "settle"]
      \/ child.at < child.end /\ child' = [child EXCEPT !.pc = "defer", !.at = child.at]
      \/ child.at < child.end /\ child' = [child EXCEPT !.pc = "drafting"]
      \/ child.at < child.end /\ child' = [child EXCEPT !.at = @ + 1]
    BY DEF ClaimsStep, DeferFrom
<1>4. /\ child' \in ChildState /\ child'.pc \in {"claims", "drafting", "defer", "settle"}
      /\ child'.of = child.of /\ child'.from = child.from /\ child'.resume = child.resume
      /\ child'.from <= child'.at /\ child'.at <= child'.end /\ child'.end = child.end
      /\ child'.pc = "drafting" => child'.at < child'.end
      /\ ~child'.blind
  <2>1. CASE child' = [child EXCEPT !.pc = "settle"]
      BY <1>1, <2>1 DEF ChildState, ChildPlaces
  <2>2. CASE child.at < child.end /\ child' = [child EXCEPT !.pc = "defer", !.at = child.at]
      BY <1>1, <2>2 DEF ChildState, ChildPlaces
  <2>3. CASE child.at < child.end /\ child' = [child EXCEPT !.pc = "drafting"]
      BY <1>1, <2>3 DEF ChildState, ChildPlaces
  <2>4. CASE child.at < child.end /\ child' = [child EXCEPT !.at = @ + 1]
      BY <1>1, <2>4 DEF ChildState, ChildPlaces
  <2> QED BY <1>3, <2>1, <2>2, <2>3, <2>4
<1>5. TypeOK'
    BY <1>2, <1>4 DEF ClaimsStep, Shape, TypeOK
<1> QED BY <1>1, <1>4, <1>5, ShapeInside DEF ClaimsStep

LEMMA DraftsType ==
    ASSUME queue \in [Bodies -> Sessions \cup {None}], NEW s \in Sessions, NEW b \in Bodies,
           Drafts(s, b)
    PROVE  /\ queue' \in [Bodies -> Sessions \cup {None}]
           /\ queue'[b] # None
           /\ \A x \in Bodies : queue[x] # None => queue'[x] # None
<1>1. s # None
    BY BiographerAssumption
<1> QED BY <1>1 DEF Drafts

LEMMA ShapeDrafted == ASSUME Shape, Drafted PROVE Shape'
<1>1. /\ Busy /\ child \in ChildState /\ child.of \in Sessions /\ child.pc = "drafting"
      /\ child.at \in Nat /\ child.end \in Nat /\ child.from \in Nat
      /\ child.from <= child.at /\ child.at < child.end /\ child.end <= N(child.of)
      /\ <<child.of, child.at>> \in Chunks /\ BodyOf(child.of, child.at) \in Bodies
      /\ ~child.blind
  <2>1. child.pc = "drafting"
      BY DEF Drafted
  <2>2. child.at < child.end
      BY <2>1 DEF Shape, Window, Busy
  <2> QED BY <2>1, <2>2, InClaims
<1>2. queue' \in [Bodies -> Sessions \cup {None}]
  <2>1. queue \in [Bodies -> Sessions \cup {None}]
      BY DEF Shape, TypeOK
  <2> QED BY <1>1, <2>1, DraftsType DEF Drafted
<1>3. letters' \in Seq(Letters)
  <2>1. letters \in Seq(Letters)
      BY DEF Shape, TypeOK
  <2> QED BY <1>1, <2>1, FailureRecorded DEF Drafted
<1>4. faults' \in 0..MaxFaults
    BY BiographerAssumption DEF Drafted, Shape, TypeOK
<1>5. \E late \in BOOLEAN :
         \/ child' = [child EXCEPT !.pc = "claims", !.at = @ + 1, !.late = late]
         \/ child' = [child EXCEPT !.pc = "defer", !.at = @ + 1, !.late = late, !.out = TRUE]
  <2>1. Later(child.late) \subseteq BOOLEAN
      BY <1>1 DEF Later, ChildState
  <2> QED BY <2>1 DEF Drafted
<1>6. /\ child' \in ChildState /\ child'.pc \in {"claims", "defer"}
      /\ child'.of = child.of /\ child'.from = child.from /\ child'.resume = child.resume
      /\ child'.from <= child'.at /\ child'.at <= child'.end /\ child'.end = child.end
      /\ ~child'.blind
  <2>1. PICK late \in BOOLEAN :
         \/ child' = [child EXCEPT !.pc = "claims", !.at = @ + 1, !.late = late]
         \/ child' = [child EXCEPT !.pc = "defer", !.at = @ + 1, !.late = late, !.out = TRUE]
      BY <1>5
  <2>2. child.at + 1 \in Nat /\ child.from <= child.at + 1 /\ child.at + 1 <= child.end
      BY <1>1
  <2>3. CASE child' = [child EXCEPT !.pc = "claims", !.at = @ + 1, !.late = late]
      BY <1>1, <2>2, <2>3 DEF ChildState, ChildPlaces
  <2>4. CASE child' = [child EXCEPT !.pc = "defer", !.at = @ + 1, !.late = late, !.out = TRUE]
      BY <1>1, <2>2, <2>4 DEF ChildState, ChildPlaces
  <2> QED BY <2>1, <2>3, <2>4
<1>7. TypeOK'
    BY <1>2, <1>3, <1>4, <1>6 DEF Drafted, Shape, TypeOK
<1> QED BY <1>1, <1>6, <1>7, ShapeInside DEF Drafted

LEMMA ShapeDefer == ASSUME Shape, Defer PROVE Shape'
<1>1. /\ Busy /\ child \in ChildState /\ child.of \in Sessions /\ child.pc = "defer"
      /\ child.at \in Nat /\ child.end \in Nat /\ child.from \in Nat
      /\ child.from <= child.at /\ child.at <= child.end /\ child.end <= N(child.of)
      /\ child.at < child.end => <<child.of, child.at>> \in Chunks /\ child.at + 1 <= child.end
      /\ ~child.blind
    BY InClaims DEF Defer
<1>2. letters' \in Seq(Letters)
  <2>1. letters \in Seq(Letters)
      BY DEF Shape, TypeOK
  <2> QED BY <1>1, <2>1, FailureRecorded DEF Defer
<1>3. /\ child' \in ChildState /\ child'.pc \in {"defer", "settle"}
      /\ child'.of = child.of /\ child'.from = child.from /\ child'.resume = child.resume
      /\ child'.from <= child'.at /\ child'.at <= child'.end /\ child'.end = child.end
      /\ ~child'.blind
    BY <1>1 DEF Defer, ChildState, ChildPlaces
<1>4. TypeOK'
    BY <1>2, <1>3 DEF Defer, Shape, TypeOK
<1> QED BY <1>1, <1>3, <1>4, ShapeInside DEF Defer

LEMMA ShapeSettle == ASSUME Shape, Settle PROVE Shape'
<1>1. /\ Busy /\ child \in ChildState /\ child.of \in Sessions /\ child.pc = "settle"
      /\ child.at \in Nat /\ child.end \in Nat /\ child.from \in Nat
      /\ child.from <= child.at /\ child.at <= child.end /\ child.end <= N(child.of)
      /\ N(child.of) \in Nat
    BY InClaims DEF Settle
<1>2. child.got \in SUBSET Nat
    BY <1>1 DEF ChildState
<1>3. CASE child.end < N(child.of)
  <2>1. /\ parked' = [parked EXCEPT ![child.of] = [next |-> child.end, got |-> child.got]]
        /\ child' = Onward(child) /\ UNCHANGED graph
      BY <1>3 DEF Settle
  <2>2. parked' \in [Sessions -> [next : Nat \cup {-1}, got : SUBSET Nat]]
      BY <1>1, <1>2, <2>1 DEF Shape, TypeOK
  <2>3. Cursors'
      BY <1>1, <1>3, <2>1 DEF Shape, TypeOK, Cursors
  <2>4. child' \in ChildState /\ child'.pc = "choose"
      BY <1>1, <2>1, AfterShape
  <2>5. TypeOK'
      BY <2>1, <2>2, <2>4 DEF Settle, Shape, TypeOK
  <2> QED BY <2>3, <2>4, <2>5, IdleShape
<1>4. CASE child.end >= N(child.of)
  <2>1. /\ graph' = [graph EXCEPT ![child.of] = @ \cup child.got] /\ UNCHANGED parked
        /\ \E late \in Later(child.late) :
              child' = [child EXCEPT !.pc = "mark", !.late = late]
    <3>1. ~(child.end < N(child.of))
        BY <1>1, <1>4
    <3> QED BY <3>1 DEF Settle
  <2>2. Later(child.late) \subseteq BOOLEAN
      BY <1>1 DEF Later, ChildState
  <2>3. /\ child' \in ChildState /\ child'.pc = "mark"
        /\ child'.of = child.of /\ child'.from = child.from /\ child'.resume = child.resume
        /\ child'.from <= child'.at /\ child'.at <= child'.end /\ child'.end = child.end
        /\ child'.end = N(child.of)
    <3>1. PICK late \in BOOLEAN : child' = [child EXCEPT !.pc = "mark", !.late = late]
        BY <2>1, <2>2
    <3>2. child.end = N(child.of)
        BY <1>1, <1>4
    <3>3. child' \in ChildState /\ child'.pc = "mark" /\ child'.of = child.of
          /\ child'.from = child.from /\ child'.resume = child.resume
          /\ child'.at = child.at /\ child'.end = child.end
        BY <1>1, <3>1 DEF ChildState, ChildPlaces
    <3> QED BY <1>1, <3>2, <3>3
  <2>4. graph' \in [Sessions -> SUBSET Nat]
      BY <1>1, <1>2, <2>1 DEF Shape, TypeOK
  <2>5. TypeOK'
      BY <2>1, <2>3, <2>4 DEF Settle, Shape, TypeOK
  <2> QED BY <1>1, <2>1, <2>3, <2>5, ShapeInside DEF Settle
<1> QED BY <1>1, <1>3, <1>4

LEMMA ShapeMark == ASSUME Shape, Mark PROVE Shape'
<1>1. /\ Busy /\ child \in ChildState /\ child.of \in Sessions /\ child.pc = "mark"
      /\ child.from <= child.at /\ child.at <= child.end /\ child.end = N(child.of)
      /\ child.from \in Nat /\ child.end \in Nat
    BY DEF Mark, Shape, TypeOK, Window, Busy, ChildState
<1>5. excused' \subseteq Chunks
  <2>1. Spoke(child.from, child.end) \subseteq Chunks
      BY <1>1, SpokeChunks
  <2> QED BY <2>1 DEF Mark, Shape, TypeOK
<1>2. marks' \in [Sessions -> Nat] /\ Cursors'
    BY <1>1 DEF Mark, Shape, TypeOK, Cursors
<1>3. CASE ~child.resume
  <2>1. child' \in ChildState /\ child'.pc \in {"none", "choose"}
      BY <1>1, <1>3, AfterShape DEF Mark
  <2>2. TypeOK'
      BY <1>2, <1>5, <2>1 DEF Mark, Shape, TypeOK
  <2> QED BY <1>2, <2>1, <2>2, IdleShape
<1>4. CASE child.resume
  <2>1. /\ child' \in ChildState /\ child'.pc = "unpark" /\ child'.of = child.of
        /\ child'.from = child.from /\ child'.at = child.at /\ child'.end = child.end
        /\ child'.resume = child.resume
      BY <1>1, <1>4 DEF Mark, ChildState, ChildPlaces
  <2>2. TypeOK'
      BY <1>2, <1>5, <2>1 DEF Mark, Shape, TypeOK
  <2>3. Window'
      BY <1>1, <2>1 DEF Window, N
  <2>4. Resumed'
      BY <1>1, <1>4, <2>1 DEF Shape, Resumed, Mark
  <2> QED BY <1>2, <2>2, <2>3, <2>4 DEF Shape
<1> QED BY <1>3, <1>4

(* The retry pass touches neither the sessions nor the child.              *)
LEMMA ShapeDrain ==
    ASSUME Shape, TypeOK', UNCHANGED <<marks, parked, child>>
    PROVE  Shape'
BY DEF Shape, Window, Cursors, Resumed, Busy, N

LEMMA ShapeDrainStart == ASSUME Shape, DrainStart PROVE Shape'
<1> DEFINE K == {k \in DOMAIN letters : Open(letters[k])}
           rows == RowsAt(letters, K)
           n == Lower(PerPass, Len(rows))
<1>1. letters \in Seq(Letters) /\ K \in SUBSET DOMAIN letters
    BY DEF Shape, TypeOK
<1> HIDE DEF K
<1>2. rows \in Seq(Letters)
    BY <1>1, LettersKept
<1> HIDE DEF rows
<1>3. n \in Nat /\ n <= Len(rows)
    BY <1>2, BiographerAssumption DEF Lower
<1>4. \A k \in 1..n : rows[k].of \in Chunks
  <2>1. \A k \in 1..n : k \in DOMAIN rows
      BY <1>2, <1>3
  <2>2. \A k \in DOMAIN rows : rows[k] \in Letters
      BY <1>2
  <2> QED BY <2>1, <2>2 DEF Letters
<1> HIDE DEF n
<1>5. [k \in 1..n |-> rows[k].of] \in Seq(Chunks)
    BY <1>3, <1>4
<1>6. drain' = [pc |-> "next", rows |-> [k \in 1..n |-> rows[k].of]]
    BY DEF DrainStart, OpenRows, n, rows, K
<1>7. drain' \in [pc : {"idle", "next"}, rows : Seq(Chunks)]
    BY <1>5, <1>6
<1>8. TypeOK'
    BY <1>7 DEF DrainStart, Shape, TypeOK
<1> QED BY <1>8, ShapeDrain DEF DrainStart

(* The row that was delivered leaves the table, and only rows of its chunk *)
(* do.                                                                     *)
LEMMA DeliveredFacts ==
    ASSUME letters \in Seq(Letters), NEW c
    PROVE  /\ Delivered(c) \in Seq(Letters)
           /\ \A k \in DOMAIN letters : letters[k].of # c
                 => Lettered(Delivered(c), BodyOf(letters[k].of[1], letters[k].of[2]))
<1> DEFINE K == {k \in DOMAIN letters : letters[k].of # c}
<1>1. K \in SUBSET DOMAIN letters
    OBVIOUS
<1>2. \A k \in K : k \in DOMAIN letters
    OBVIOUS
<1>3. \A k \in DOMAIN letters : letters[k].of # c => k \in K
    OBVIOUS
<1>4. Delivered(c) = RowsAt(letters, K)
    BY DEF Delivered
<1> HIDE DEF K
<1>5. /\ RowsAt(letters, K) \in Seq(Letters)
      /\ \A k \in K : \E j \in DOMAIN RowsAt(letters, K) : RowsAt(letters, K)[j] = letters[k]
    BY <1>1, LettersKept
<1> QED BY <1>3, <1>4, <1>5 DEF Lettered

LEMMA DrainHead ==
    ASSUME Shape, drain.pc = "next", drain.rows # <<>>
    PROVE  /\ Head(drain.rows) \in Chunks /\ Tail(drain.rows) \in Seq(Chunks)
           /\ Head(drain.rows)[1] \in Sessions
           /\ BodyOf(Head(drain.rows)[1], Head(drain.rows)[2]) \in Bodies
<1>1. drain.rows \in Seq(Chunks)
    BY DEF Shape, TypeOK
<1>2. Head(drain.rows) \in Chunks /\ Tail(drain.rows) \in Seq(Chunks)
    BY <1>1
<1> QED BY <1>2, ChunkParts

LEMMA ShapeDrainReply == ASSUME Shape, DrainReply PROVE Shape'
<1> DEFINE c == Head(drain.rows)
<1>1. /\ c \in Chunks /\ Tail(drain.rows) \in Seq(Chunks) /\ <<>> \in Seq(Chunks)
      /\ c[1] \in Sessions /\ BodyOf(c[1], c[2]) \in Bodies
    BY DrainHead DEF DrainReply
<1>2. letters \in Seq(Letters) /\ queue \in [Bodies -> Sessions \cup {None}]
    BY DEF Shape, TypeOK
<1>3. \/ Drafts(c[1], BodyOf(c[1], c[2])) /\ letters' = Delivered(c)
      \/ letters' = RecordClaimFailure(letters, c) /\ queue' = queue
      \/ letters' = letters /\ queue' = queue
    BY DEF DrainReply
<1>4. drain' \in [pc : {"idle", "next"}, rows : Seq(Chunks)]
  <2>1. \/ drain' = [pc |-> "next", rows |-> Tail(drain.rows)]
        \/ drain' = [pc |-> "next", rows |-> <<>>]
      BY DEF DrainReply
  <2>2. CASE drain' = [pc |-> "next", rows |-> Tail(drain.rows)]
      BY <1>1, <2>2
  <2>3. CASE drain' = [pc |-> "next", rows |-> <<>>]
      BY <2>3
  <2> QED BY <2>1, <2>2, <2>3
<1> HIDE DEF c
<1>5. queue' \in [Bodies -> Sessions \cup {None}]
    BY <1>1, <1>2, <1>3, DraftsType
<1>6. letters' \in Seq(Letters)
    BY <1>1, <1>2, <1>3, DeliveredFacts, FailureRecorded
<1>7. faults' \in 0..MaxFaults
    BY BiographerAssumption DEF DrainReply, Shape, TypeOK
<1>8. TypeOK'
    BY <1>4, <1>5, <1>6, <1>7 DEF DrainReply, Shape, TypeOK
<1> QED BY <1>8, ShapeDrain DEF DrainReply

LEMMA ShapeDrainEnd == ASSUME Shape, DrainEnd PROVE Shape'
<1>1. letters \in Seq(Letters)
    BY DEF Shape, TypeOK
<1>2. letters' \in Seq(Letters)
  <2>1. PICK old : letters' = RowsAt(letters, {k \in DOMAIN letters : letters[k].of \notin old})
      BY DEF DrainEnd
  <2> DEFINE K == {k \in DOMAIN letters : letters[k].of \notin old}
  <2>2. K \in SUBSET DOMAIN letters /\ letters' = RowsAt(letters, K)
      BY <2>1
  <2> HIDE DEF K
  <2> QED BY <1>1, <2>2, LettersKept
<1>3. excused' \subseteq Chunks
    BY DEF DrainEnd, Shape, TypeOK
<1>4. drain' \in [pc : {"idle", "next"}, rows : Seq(Chunks)]
    BY DEF DrainEnd, NoDrain
<1>5. TypeOK'
    BY <1>2, <1>3, <1>4 DEF DrainEnd, Shape, TypeOK
<1> QED BY <1>5, ShapeDrain DEF DrainEnd

LEMMA ShapeDrainKilled == ASSUME Shape, DrainKilled PROVE Shape'
<1>1. drain' \in [pc : {"idle", "next"}, rows : Seq(Chunks)]
    BY DEF DrainKilled, NoDrain
<1>2. faults' \in 0..MaxFaults
    BY BiographerAssumption DEF DrainKilled, Shape, TypeOK
<1>3. TypeOK'
    BY <1>1, <1>2 DEF DrainKilled, Shape, TypeOK
<1> QED BY <1>3, ShapeDrain DEF DrainKilled

LEMMA ShapeKept == Shape /\ [Next]_vars => Shape'
<1>1. ASSUME Shape, UNCHANGED vars PROVE Shape'
    BY <1>1 DEF vars, Shape, TypeOK, Window, Cursors, Resumed, Busy, Chunks, N
<1> QED BY <1>1, ShapeCapture, ShapeSpawn, ShapeChoose, ShapeExtract, ShapeCloseWindow,
           ShapeClaimsStep, ShapeDrafted, ShapeDefer, ShapeSettle, ShapeMark, ShapeUnpark,
           ShapeKill, ShapeDrainStart, ShapeDrainReply, ShapeDrainEnd, ShapeDrainKilled
        DEF Next, ChildStep, DrainStep

(* Type correctness: every variable keeps its type through every tick,     *)
(* kill, outage and retry pass.                                            *)
THEOREM TypeCorrect == Spec => []TypeOK
<1>1. Shape => TypeOK
    BY DEF Shape
<1> QED BY <1>1, ShapeAtStart, ShapeKept, PTL DEF Spec

-----------------------------------------------------------------------------
(* 3. What the steps of a tick do to a session, told from outside          *)

(* The chunks of the session at hand that the entity pass is past.         *)
Reach == IF child.pc = "extract" THEN child.at ELSE child.end

(* From the end of the window to the end of the claims pass only the place *)
(* in the claims pass moves.                                               *)
LEMMA PassMoves ==
    ASSUME Shape, CloseWindow \/ ClaimsStep \/ Drafted \/ Defer
    PROVE  /\ Busy /\ Busy' /\ child.of \in Sessions
           /\ child.pc \in {"extract", "claims", "drafting", "defer"}
           /\ child'.pc \in {"claims", "drafting", "defer", "settle"}
           /\ child'.of = child.of /\ child'.got = child.got
           /\ child'.resume = child.resume /\ child'.end = Reach
           /\ UNCHANGED <<marks, parked, graph, fate>>
           /\ faults' \in {faults, faults + 1}
<1>1. child \in ChildState
    BY DEF Shape, TypeOK
<1>2. CASE CloseWindow
  <2>1. /\ child.pc = "extract"
        /\ child' = [child EXCEPT !.pc = "claims", !.end = child.at, !.at = child.from,
                                  !.budget = @ - (child.at - child.from)]
        /\ UNCHANGED <<marks, parked, graph, fate, faults>>
      BY <1>2 DEF CloseWindow
  <2> QED BY <1>1, <2>1 DEF ChildState, Busy, Reach, Shape, Window
<1>3. CASE ClaimsStep
  <2>1. /\ child.pc = "claims"
        /\ \/ child' = [child EXCEPT !.pc = "settle"]
           \/ child' = [child EXCEPT !.pc = "defer", !.at = child.at]
           \/ child' = [child EXCEPT !.pc = "drafting"]
           \/ child' = [child EXCEPT !.at = @ + 1]
        /\ UNCHANGED <<marks, parked, graph, fate, faults>>
      BY <1>3 DEF ClaimsStep, DeferFrom
  <2> QED BY <1>1, <2>1 DEF ChildState, Busy, Reach, Shape, Window
<1>4. CASE Drafted
  <2>1. /\ child.pc = "drafting" /\ UNCHANGED <<marks, parked, graph, fate>>
        /\ faults' \in {faults, faults + 1}
      BY <1>4 DEF Drafted
  <2>2. PICK late :
           \/ child' = [child EXCEPT !.pc = "claims", !.at = @ + 1, !.late = late]
           \/ child' = [child EXCEPT !.pc = "defer", !.at = @ + 1, !.late = late, !.out = TRUE]
      BY <1>4 DEF Drafted
  <2>3. /\ child'.pc \in {"claims", "defer"} /\ child'.of = child.of /\ child'.got = child.got
        /\ child'.resume = child.resume /\ child'.end = child.end
      BY <1>1, <2>2 DEF ChildState
  <2> QED BY <2>1, <2>3 DEF Busy, Reach, Shape, Window
<1>5. CASE Defer
  <2>1. /\ child.pc = "defer" /\ UNCHANGED <<marks, parked, graph, fate, faults>>
        /\ \/ child' = [child EXCEPT !.pc = "settle"]
           \/ child' = [child EXCEPT !.at = @ + 1]
      BY <1>5 DEF Defer
  <2> QED BY <1>1, <2>1 DEF ChildState, Busy, Reach, Shape, Window
<1> QED BY <1>2, <1>3, <1>4, <1>5

(* A session is begun, with a model or blind.                              *)
Started(s) ==
    \/ child'.pc = "extract" /\ ~child'.blind /\ fate' = fate
    \/ /\ child'.pc = "settle" /\ child'.blind /\ child'.end = N(s)
       /\ child'.from \in Nat /\ fate' = Unasked(s, child'.from)

(* A tick begins a session at its cursor with the entities of its row, or  *)
(* at its first chunk with none; or it marks a session that it leaves out; *)
(* or it ends.                                                             *)
LEMMA ChooseMoves ==
    ASSUME Shape, Choose
    PROVE  /\ child.pc = "choose" /\ UNCHANGED <<parked, graph, faults, letters, queue,
                                                  excused, orphaned>>
           /\ \/ child'.pc = "none" /\ marks' = marks /\ fate' = fate
              \/ \E s \in Sessions :
                    /\ child'.of = s /\ marks' = marks /\ Started(s)
                    /\ \/ /\ parked[s] # NoRow /\ child'.resume
                          /\ child'.at = parked[s].next /\ child'.got = parked[s].got
                          /\ child'.from = parked[s].next
                       \/ /\ parked[s] = NoRow /\ marks[s] = 0 /\ ~child'.resume
                          /\ child'.at = 0 /\ child'.got = {} /\ child'.from = 0
              \/ \E s \in Unfit :
                    /\ s \in Sessions /\ child' = child /\ parked[s] = NoRow /\ marks[s] = 0
                    /\ fate' = fate /\ marks' = [marks EXCEPT ![s] = 1]
<1>1. child \in ChildState /\ child.pc = "choose"
    BY DEF Choose, Shape, TypeOK
<1>2. UNCHANGED <<parked, graph, faults, letters, queue, excused, orphaned>>
    BY DEF Choose
<1>3. CASE child' = NoChild /\ UNCHANGED <<marks, fate>>
    BY <1>1, <1>2, <1>3 DEF NoChild
<1>4. ASSUME NEW s \in Targets, Resumable(s),
             Working(s, parked[s].next, Restored(s), TRUE), marks' = marks
      PROVE  \E t \in Sessions :
                /\ child'.of = t /\ marks' = marks /\ Started(t)
                /\ parked[t] # NoRow /\ child'.resume
                /\ child'.at = parked[t].next /\ child'.got = parked[t].got
                /\ child'.from = parked[t].next
  <2>1. s \in Sessions /\ parked[s] # NoRow
      BY <1>4 DEF Targets, Resumable
  <2>2. parked[s].next \in 0..(N(s) - 1) /\ Restored(s) \in SUBSET Nat /\ N(s) \in Nat
      BY <2>1, ChunkFacts DEF Shape, TypeOK, Cursors, Restored
  <2>3. parked[s].next \in 0..N(s)
      BY <2>2
  <2> DEFINE next == parked[s].next
  <2>4. /\ Started(s) /\ child'.of = s /\ child'.got = parked[s].got
        /\ child'.from = next /\ child'.at = next /\ child'.resume = TRUE
    <3>1. next \in 0..N(s) /\ next \in Nat /\ Working(s, next, Restored(s), TRUE)
      <4>1. next \in 0..N(s) /\ next \in Nat
          BY <2>2, <2>3
      <4>2. Working(s, next, Restored(s), TRUE)
          BY <1>4
      <4> QED BY <4>1, <4>2
    <3> HIDE DEF next
    <3>2. /\ child'.of = s /\ child'.got = Restored(s)
          /\ child'.from = next /\ child'.at = next /\ child'.resume = TRUE
          /\ \/ child'.pc = "extract" /\ ~child'.blind /\ fate' = fate
             \/ /\ child'.pc = "settle" /\ child'.blind /\ fate' = Unasked(s, next)
                /\ child'.end = N(s)
        BY <1>1, <2>1, <2>2, <3>1, ShapeWorking
    <3> QED BY <3>1, <3>2 DEF Restored, Started
  <2> QED BY <1>4, <2>1, <2>4
<1>5. ASSUME NEW s \in Targets, ~Resumable(s), s \in Unfit,
             marks' = [marks EXCEPT ![s] = @ + 1], UNCHANGED <<child, fate>>
      PROVE  /\ s \in Sessions /\ parked[s] = NoRow /\ marks[s] = 0
             /\ marks' = [marks EXCEPT ![s] = 1]
  <2>1. s \in Sessions /\ Fresh(s)
      BY <1>5 DEF Targets
  <2> QED BY <1>5, <2>1 DEF Fresh, Shape, TypeOK
<1>6. ASSUME NEW s \in Targets, ~Resumable(s), Working(s, 0, {}, FALSE), marks' = marks
      PROVE  \E t \in Sessions :
                /\ child'.of = t /\ marks' = marks /\ Started(t)
                /\ parked[t] = NoRow /\ marks[t] = 0 /\ ~child'.resume
                /\ child'.at = 0 /\ child'.got = {} /\ child'.from = 0
  <2>1. s \in Sessions /\ Fresh(s)
      BY <1>6 DEF Targets
  <2>2. N(s) \in Nat /\ 0 \in 0..N(s)
      BY <2>1, ChunkFacts
  <2>3. /\ Started(s) /\ child'.of = s /\ child'.got = {}
        /\ child'.from = 0 /\ child'.at = 0 /\ child'.resume = FALSE
    <3>1. /\ child'.of = s /\ child'.got = {}
          /\ child'.from = 0 /\ child'.at = 0 /\ child'.resume = FALSE
          /\ \/ child'.pc = "extract" /\ ~child'.blind /\ fate' = fate
             \/ /\ child'.pc = "settle" /\ child'.blind /\ fate' = Unasked(s, 0)
                /\ child'.end = N(s)
        BY <1>1, <1>6, <2>1, <2>2, ShapeWorking
    <3> QED BY <3>1 DEF Started
  <2> QED BY <1>6, <2>1, <2>3 DEF Fresh
<1> QED BY <1>1, <1>2, <1>3, <1>4, <1>5, <1>6 DEF Choose

(* The end of a session: parked at the end of its window, or its entities  *)
(* stored.                                                                 *)
LEMMA SettleMoves ==
    ASSUME Shape, Settle
    PROVE  /\ Busy /\ child.pc = "settle" /\ child.of \in Sessions
           /\ UNCHANGED <<marks, fate, faults, letters, queue, excused, orphaned>>
           /\ \/ /\ child'.pc = "choose" /\ graph' = graph /\ ~child.blind
                 /\ parked' = [parked EXCEPT ![child.of] =
                                  [next |-> child.end, got |-> child.got]]
              \/ /\ child'.pc = "mark" /\ child'.of = child.of /\ parked' = parked
                 /\ child'.got = child.got /\ child'.end = child.end
                 /\ child'.resume = child.resume /\ child.end = N(child.of)
                 /\ child'.blind = child.blind /\ child'.from = child.from
                 /\ graph' = [graph EXCEPT ![child.of] = @ \cup child.got]
<1>1. /\ Busy /\ child.pc = "settle" /\ child.of \in Sessions /\ child \in ChildState
      /\ child.end <= N(child.of) /\ child.end \in Nat /\ N(child.of) \in Nat
      /\ child.blind => child.end = N(child.of)
    BY InClaims DEF Settle, Shape, Window
<1>2. UNCHANGED <<marks, fate, faults, letters, queue, excused, orphaned>>
    BY DEF Settle
<1>3. CASE child.end < N(child.of)
    BY <1>1, <1>2, <1>3, AfterShape DEF Settle
<1>4. CASE ~(child.end < N(child.of))
  <2>1. child.end = N(child.of)
      BY <1>1, <1>4
  <2>2. /\ graph' = [graph EXCEPT ![child.of] = @ \cup child.got] /\ parked' = parked
        /\ \E late \in Later(child.late) : child' = [child EXCEPT !.pc = "mark", !.late = late]
      BY <1>4 DEF Settle
  <2>3. PICK late : child' = [child EXCEPT !.pc = "mark", !.late = late]
      BY <2>2
  <2>4. /\ child'.pc = "mark" /\ child'.of = child.of /\ child'.got = child.got
        /\ child'.end = child.end /\ child'.resume = child.resume
        /\ child'.blind = child.blind /\ child'.from = child.from
      BY <1>1, <2>3 DEF ChildState
  <2> QED BY <1>1, <1>2, <2>1, <2>2, <2>4
<1> QED BY <1>3, <1>4

LEMMA MarkMoves ==
    ASSUME Shape, Mark
    PROVE  /\ Busy /\ child.pc = "mark" /\ child.of \in Sessions /\ child.end = N(child.of)
           /\ marks' = [marks EXCEPT ![child.of] = @ + 1] /\ marks[child.of] \in Nat
           /\ UNCHANGED <<parked, graph, fate, faults, letters, queue, orphaned>>
           /\ excused' = IF child.blind THEN excused \cup Spoke(child.from, child.end)
                         ELSE excused
           /\ child.from \in Nat /\ child.end \in Nat
           /\ \/ /\ child.resume /\ child'.pc = "unpark" /\ child'.of = child.of
                 /\ child'.got = child.got /\ child'.end = child.end
              \/ /\ ~child.resume /\ child'.pc \in {"none", "choose"}
                 /\ parked[child.of] = NoRow /\ marks[child.of] = 0
<1>1. /\ Busy /\ child.pc = "mark" /\ child.of \in Sessions /\ child.end = N(child.of)
      /\ child \in ChildState /\ marks[child.of] \in Nat
      /\ child.from \in Nat /\ child.end \in Nat
    BY DEF Mark, Shape, TypeOK, Window, Busy, ChildState
<1>2. CASE child.resume
    BY <1>1, <1>2 DEF Mark, ChildState
<1>3. CASE ~child.resume
  <2>1. parked[child.of] = NoRow /\ marks[child.of] = 0
      BY <1>1, <1>3 DEF Shape, Resumed
  <2> QED BY <1>1, <1>3, <2>1, AfterShape DEF Mark
<1> QED BY <1>2, <1>3

LEMMA UnparkMoves ==
    ASSUME Shape, Unpark
    PROVE  /\ Busy /\ child.pc = "unpark" /\ child.of \in Sessions /\ child.end = N(child.of)
           /\ parked' = [parked EXCEPT ![child.of] = NoRow]
           /\ child'.pc \in {"none", "choose"}
           /\ UNCHANGED <<marks, graph, fate, faults, letters, queue, excused, orphaned>>
<1>1. /\ Busy /\ child.pc = "unpark" /\ child.of \in Sessions /\ child.end = N(child.of)
      /\ child \in ChildState
    BY DEF Unpark, Shape, TypeOK, Window, Busy
<1> QED BY <1>1, AfterShape DEF Unpark

(* The tick is killed, begins, or is not concerned: the dream's retry pass *)
(* and new captures leave every session as it is.                          *)
Aside == Spawn \/ Kill \/ DrainStep \/ DrainKilled \/ \E s \in Sessions : Capture(s)

LEMMA AsideMoves ==
    ASSUME Shape, Aside \/ UNCHANGED vars
    PROVE  /\ UNCHANGED <<marks, parked, graph, fate>> /\ faults' \in {faults, faults + 1}
           /\ \/ child' = child
              \/ child'.pc \in {"none", "choose"}
                    /\ (child.pc \in {"none", "choose"} \/ faults' = faults + 1)
<1>1. CASE Spawn
    BY <1>1 DEF Spawn, NoChild
<1>2. CASE Kill
    BY <1>2 DEF Kill, NoChild
<1>3. CASE DrainStart \/ DrainEnd \/ DrainKilled
    BY <1>3 DEF DrainStart, DrainEnd, DrainKilled
<1>4. CASE DrainReply
    BY <1>4 DEF DrainReply
<1>5. CASE UNCHANGED vars
    BY <1>5 DEF vars
<1>6. CASE \E s \in Sessions : Capture(s)
    BY <1>6 DEF Capture
<1> QED BY <1>1, <1>2, <1>3, <1>4, <1>5, <1>6 DEF Aside, DrainStep

(* The steps, by what they mean for a session.                             *)
LEMMA StepKinds ==
    [Next]_vars => \/ Aside \/ UNCHANGED vars \/ Choose \/ Extract \/ Settle \/ Mark \/ Unpark
                   \/ CloseWindow \/ ClaimsStep \/ Drafted \/ Defer
BY DEF Next, ChildStep, Aside

-----------------------------------------------------------------------------
(* 4. A session is marked once, and once more for every kill               *)

(* Only the session whose row the child is about to remove has its marker  *)
(* and its row at once without a kill to blame.                            *)
Removing(s) == child.pc = "unpark" /\ child.of = s
TornMarks == \A s \in Sessions : parked[s] # NoRow /\ ~Removing(s) => marks[s] <= faults

(* No marker is written: the kills can only have become more.              *)
LEMMA MarksQuiet ==
    ASSUME Shape, MarkedOnce, TornMarks, marks' = marks, faults' \in {faults, faults + 1},
           \A s \in Sessions : parked'[s] # NoRow /\ ~Removing(s)' =>
               \/ parked[s] # NoRow /\ ~Removing(s)
               \/ parked[s] # NoRow /\ faults' = faults + 1
               \/ marks[s] = 0
    PROVE  MarkedOnce' /\ TornMarks'
<1>1. faults \in Nat /\ \A s \in Sessions : marks[s] \in Nat
    BY BiographerAssumption DEF Shape, TypeOK
<1>2. ASSUME NEW s \in Sessions PROVE marks'[s] <= 1 + faults'
    BY <1>1 DEF MarkedOnce
<1>3. ASSUME NEW s \in Sessions, parked'[s] # NoRow, ~Removing(s)'
      PROVE  marks'[s] <= faults'
  <2>1. CASE parked[s] # NoRow /\ ~Removing(s)
      BY <1>1, <2>1 DEF TornMarks
  <2>2. CASE parked[s] # NoRow /\ faults' = faults + 1
      BY <1>1, <2>2 DEF MarkedOnce
  <2>3. CASE marks[s] = 0
      BY <1>1, <2>3
  <2> QED BY <1>3, <2>1, <2>2, <2>3
<1> QED BY <1>2, <1>3 DEF MarkedOnce, TornMarks

LEMMA MarksStep ==
    ASSUME Shape, MarkedOnce, TornMarks, [Next]_vars
    PROVE  MarkedOnce' /\ TornMarks'
<1>1. faults \in Nat /\ marks \in [Sessions -> Nat]
    BY BiographerAssumption DEF Shape, TypeOK
<1>2. CASE Aside \/ UNCHANGED vars
  <2>1. /\ UNCHANGED <<marks, parked>> /\ faults' \in {faults, faults + 1}
        /\ \/ child' = child
           \/ child'.pc \in {"none", "choose"}
                 /\ (child.pc \in {"none", "choose"} \/ faults' = faults + 1)
      BY <1>2, AsideMoves
  <2> QED BY <2>1, MarksQuiet DEF Removing
<1>3. CASE CloseWindow \/ ClaimsStep \/ Drafted \/ Defer
  <2>1. /\ child.pc \in {"extract", "claims", "drafting", "defer"}
        /\ UNCHANGED <<marks, parked>> /\ faults' \in {faults, faults + 1}
      BY <1>3, PassMoves
  <2> QED BY <2>1, MarksQuiet DEF Removing
<1>4. CASE Extract
  <2>1. /\ child.pc = "extract" /\ marks' = marks /\ faults' \in {faults, faults + 1}
      BY <1>4 DEF Extract
  <2>2. ASSUME NEW s \in Sessions, parked'[s] # NoRow PROVE parked[s] # NoRow \/ marks[s] = 0
    <3>1. CASE s # child.of
        BY <1>4, <2>2, <3>1 DEF Extract, Shape, TypeOK
    <3>2. CASE s = child.of
        BY <2>1, <3>2 DEF Shape, Resumed, Busy
    <3> QED BY <3>1, <3>2
  <2> QED BY <2>1, <2>2, MarksQuiet DEF Removing
<1>5. CASE Settle
  <2>1. /\ Busy /\ child.pc = "settle" /\ child.of \in Sessions
        /\ UNCHANGED <<marks, faults>>
        /\ \/ parked' = [parked EXCEPT ![child.of] = [next |-> child.end, got |-> child.got]]
           \/ parked' = parked
      BY <1>5, SettleMoves
  <2>2. ASSUME NEW s \in Sessions, parked'[s] # NoRow PROVE parked[s] # NoRow \/ marks[s] = 0
    <3>1. CASE s # child.of
        BY <2>1, <2>2, <3>1 DEF Shape, TypeOK
    <3>2. CASE s = child.of
        BY <2>1, <3>2 DEF Shape, Resumed
    <3> QED BY <3>1, <3>2
  <2> QED BY <2>1, <2>2, MarksQuiet DEF Removing
<1>6. CASE Unpark
  <2>1. /\ child.pc = "unpark" /\ child.of \in Sessions
        /\ parked' = [parked EXCEPT ![child.of] = NoRow] /\ UNCHANGED <<marks, faults>>
      BY <1>6, UnparkMoves
  <2>2. ASSUME NEW s \in Sessions, parked'[s] # NoRow PROVE parked[s] # NoRow /\ ~Removing(s)
      BY <2>1, <2>2 DEF Shape, TypeOK, Removing
  <2> QED BY <2>1, <2>2, MarksQuiet
<1>7. CASE Mark
  <2>1. /\ child.pc = "mark" /\ child.of \in Sessions
        /\ marks' = [marks EXCEPT ![child.of] = @ + 1] /\ UNCHANGED <<parked, faults>>
        /\ \/ child.resume /\ child'.pc = "unpark" /\ child'.of = child.of
           \/ child'.pc \in {"none", "choose"} /\ parked[child.of] = NoRow /\ marks[child.of] = 0
      BY <1>7, MarkMoves
  <2>2. child.resume => marks[child.of] <= faults
      BY <2>1 DEF Shape, Resumed, Busy, TornMarks, Removing
  <2>3. ASSUME NEW s \in Sessions PROVE marks'[s] <= 1 + faults
    <3>1. CASE s # child.of
        BY <1>1, <2>1, <3>1 DEF MarkedOnce
    <3>2. CASE s = child.of
        BY <1>1, <2>1, <2>2, <3>2
    <3> QED BY <3>1, <3>2
  <2>4. ASSUME NEW s \in Sessions, parked'[s] # NoRow, ~Removing(s)' PROVE marks'[s] <= faults
    <3>1. s # child.of
        BY <2>1, <2>4 DEF Removing
    <3> QED BY <1>1, <2>1, <2>4, <3>1 DEF TornMarks, Removing
  <2> QED BY <2>1, <2>3, <2>4 DEF MarkedOnce, TornMarks
<1>8. CASE Choose
  <2>1. child.pc = "choose" /\ UNCHANGED <<parked, faults>>
      BY <1>8, ChooseMoves
  <2>2. CASE marks' = marks
      BY <2>1, <2>2, MarksQuiet DEF Removing
  <2>3. CASE marks' # marks
    <3>1. PICK s \in Sessions : /\ parked[s] = NoRow /\ marks[s] = 0
                                /\ marks' = [marks EXCEPT ![s] = 1]
        BY <1>8, <2>3, ChooseMoves
    <3>2. ASSUME NEW t \in Sessions PROVE marks'[t] <= 1 + faults
        BY <1>1, <3>1 DEF MarkedOnce
    <3>3. ASSUME NEW t \in Sessions, parked'[t] # NoRow PROVE marks'[t] <= faults
        BY <1>1, <2>1, <3>1, <3>3 DEF TornMarks, Removing
    <3> QED BY <2>1, <3>2, <3>3 DEF MarkedOnce, TornMarks
  <2> QED BY <2>2, <2>3
<1> QED BY <1>2, <1>3, <1>4, <1>5, <1>6, <1>7, <1>8, StepKinds

(* A session is extracted again only where a kill tore its marker from its *)
(* progress row: it has one marker, and at most one more for each fault.   *)
THEOREM MarkedOnceHolds == Spec => []MarkedOnce
<1>1. Init => MarkedOnce /\ TornMarks
    BY DEF Init, MarkedOnce, TornMarks
<1>2. Shape /\ MarkedOnce /\ TornMarks /\ [Next]_vars => MarkedOnce' /\ TornMarks'
    BY MarksStep
<1> QED BY <1>1, <1>2, ShapeAtStart, ShapeKept, PTL DEF Spec

-----------------------------------------------------------------------------
(* 5. Nothing is skipped                                                   *)

Behind(s, i) == Passed(s, i) \/ (Busy /\ child.of = s /\ i < Reach)
Answered == {"seen", "lost", "tool", "unasked"}

(* Every chunk behind a cursor, a marker or the child's place was answered *)
(* on, or left by a blind child: what NothingSkipped says, and the same of the tick that is running. *)
AllBehindAnswered ==
    \A s \in Sessions : \A i \in 0..(N(s) - 1) : Behind(s, i) => fate[s][i] \in Answered

(* Only the entity pass, and a child that begins a session blind, put a    *)
(* chunk behind: the other steps hand over what was behind already.        *)
LEMMA BehindOnlyByExtract ==
    ASSUME Shape, [Next]_vars, ~Extract, ~(Choose /\ child'.pc = "settle"),
           NEW s \in Sessions, NEW i \in 0..(N(s) - 1), Behind(s, i)'
    PROVE  Behind(s, i)
<1>1. marks \in [Sessions -> Nat] /\ parked \in [Sessions -> [next : Nat \cup {-1}, got : SUBSET Nat]]
      /\ i \in Nat
    BY ChunkFacts DEF Shape, TypeOK
<1>2. CASE Aside \/ UNCHANGED vars
  <2>1. /\ UNCHANGED <<marks, parked>>
        /\ child' = child \/ child'.pc \in {"none", "choose"}
      BY <1>2, AsideMoves
  <2> QED BY <2>1 DEF Behind, Passed, Finalized, Busy, Reach
<1>3. CASE CloseWindow \/ ClaimsStep \/ Drafted \/ Defer
  <2>1. /\ Busy /\ child'.pc # "extract" /\ child'.of = child.of /\ child'.end = Reach
        /\ UNCHANGED <<marks, parked>>
      BY <1>3, PassMoves
  <2> QED BY <2>1 DEF Behind, Passed, Finalized, Reach
<1>4. CASE Settle
  <2>1. /\ Busy /\ child.pc = "settle" /\ child.of \in Sessions /\ marks' = marks
        /\ \/ /\ child'.pc = "choose"
              /\ parked' = [parked EXCEPT ![child.of] = [next |-> child.end, got |-> child.got]]
           \/ /\ child'.pc = "mark" /\ child'.of = child.of /\ parked' = parked
              /\ child'.end = child.end
      BY <1>4, SettleMoves
  <2> QED BY <1>1, <2>1 DEF Behind, Passed, Finalized, Reach, Busy
<1>5. CASE Mark
  <2>1. /\ Busy /\ child.pc = "mark" /\ child.of \in Sessions /\ child.end = N(child.of)
        /\ marks' = [marks EXCEPT ![child.of] = @ + 1] /\ parked' = parked
        /\ \/ child'.pc = "unpark" /\ child'.of = child.of /\ child'.end = child.end
           \/ child'.pc \in {"none", "choose"}
      BY <1>5, MarkMoves
  <2>2. s = child.of => Behind(s, i)
    <3>1. i < N(s)
        BY ChunkFacts
    <3> QED BY <1>1, <2>1, <3>1 DEF Behind, Reach
  <2>3. s # child.of => Behind(s, i)
      BY <1>1, <2>1 DEF Behind, Passed, Finalized, Busy
  <2> QED BY <2>2, <2>3
<1>6. CASE Unpark
  <2>1. /\ child.of \in Sessions /\ parked' = [parked EXCEPT ![child.of] = NoRow]
        /\ child'.pc \in {"none", "choose"} /\ marks' = marks
      BY <1>6, UnparkMoves
  <2> QED BY <1>1, <2>1 DEF Behind, Passed, Finalized, Busy, NoRow
<1>7. CASE Choose
  <2>1. child.pc = "choose" /\ parked' = parked
      BY <1>7, ChooseMoves
  <2>2. CASE child'.pc = "none" /\ marks' = marks
      BY <2>1, <2>2 DEF Behind, Passed, Finalized, Busy
  <2>3. ASSUME NEW t \in Sessions, child'.pc = "extract", child'.of = t, marks' = marks,
               \/ child'.at = parked[t].next
               \/ child'.at = 0
        PROVE  Behind(s, i)
      BY <1>1, <2>1, <2>3 DEF Behind, Passed, Finalized, Busy, Reach
  <2>4. ASSUME NEW t \in Unfit, t \in Sessions, child' = child,
               marks' = [marks EXCEPT ![t] = 1]
        PROVE  Behind(s, i)
      BY <1>1, <2>1, <2>4 DEF Behind, Passed, Finalized, Busy
  <2>5. child'.pc # "settle"
      BY <1>7
  <2> QED BY <1>7, <2>2, <2>3, <2>4, <2>5, ChooseMoves DEF Started
<1> QED BY <1>2, <1>3, <1>4, <1>5, <1>6, <1>7, StepKinds

(* One batch of the entity pass, seen from outside: the place moves past   *)
(* the batch, or the cursor is parked at its first chunk.                  *)
LEMMA ExtractMoves ==
    ASSUME Shape, Extract
    PROVE  /\ Busy /\ child.pc = "extract" /\ child.of \in Sessions
           /\ child.at \in Nat /\ child.end \in Nat /\ child.from \in Nat
           /\ child.from <= child.at /\ child.end <= N(child.of) /\ child.at < child.end
           /\ AfterBatch \in (child.at + 1)..child.end
           /\ NextBatch \subseteq child.at..(AfterBatch - 1)
           /\ UNCHANGED <<marks, graph, letters, queue, excused>>
           /\ \/ /\ child'.pc = "extract" /\ child'.of = child.of /\ child'.at = AfterBatch
                 /\ child'.from = child.from
                 /\ UNCHANGED <<parked, orphaned>>
                 /\ \/ child'.got = child.got \cup NextBatch /\ Fated("seen")
                    \/ child'.got = child.got /\ Fated("lost")
              \/ /\ NextBatch # {} /\ child'.pc = "none" /\ Fated("outage")
                 /\ ParkAt \in NextBatch /\ \A j \in NextBatch : ParkAt <= j
                 /\ parked' = [parked EXCEPT ![child.of] = [next |-> ParkAt, got |-> child.got]]
                 /\ orphaned' = orphaned \cup Spoke(child.from, ParkAt)
<1>1. /\ Busy /\ child.pc = "extract" /\ child.of \in Sessions /\ child \in ChildState
      /\ child.at \in Nat /\ child.end \in Nat /\ child.from \in Nat
      /\ child.from <= child.at /\ child.end <= N(child.of) /\ child.at < child.end
    BY DEF Extract, Shape, TypeOK, Window, Busy, ChildState
<1>2. /\ AfterBatch \in (child.at + 1)..child.end
      /\ NextBatch \subseteq child.at..(AfterBatch - 1)
      /\ NextBatch # {} => /\ ParkAt \in NextBatch
                           /\ \A j \in NextBatch : ParkAt <= j
    BY <1>1, BatchFacts
<1>3. UNCHANGED <<marks, graph, letters, queue, excused>>
    BY DEF Extract
<1>4. ASSUME NEW late, Fated("seen"), UNCHANGED <<parked, orphaned>>,
             child' = [child EXCEPT !.at = AfterBatch, !.got = @ \cup NextBatch, !.late = late]
      PROVE  /\ child'.pc = "extract" /\ child'.of = child.of /\ child'.at = AfterBatch
             /\ child'.from = child.from /\ child'.got = child.got \cup NextBatch
    BY <1>1, <1>4 DEF ChildState
<1>5. ASSUME NEW late, Fated("lost"), UNCHANGED <<parked, orphaned>>,
             child' = [child EXCEPT !.at = AfterBatch, !.late = late]
      PROVE  /\ child'.pc = "extract" /\ child'.of = child.of /\ child'.at = AfterBatch
             /\ child'.from = child.from /\ child'.got = child.got
    BY <1>1, <1>5 DEF ChildState
<1>6. child' = NoChild => child'.pc = "none"
    BY DEF NoChild
<1> QED BY <1>1, <1>2, <1>3, <1>4, <1>5, <1>6 DEF Extract

LEMMA AnsweredStep ==
    ASSUME Shape, Shape', AllBehindAnswered, [Next]_vars
    PROVE  AllBehindAnswered'
<1> SUFFICES ASSUME NEW s \in Sessions, NEW i \in 0..(N(s) - 1), Behind(s, i)'
             PROVE  fate'[s][i] \in Answered
    BY DEF AllBehindAnswered, N
<1>1. CASE ~Extract /\ ~(Choose /\ child'.pc = "settle")
  <2>1. fate' = fate
    <3>1. CASE Choose
        BY <1>1, <3>1, ChooseMoves DEF Started
    <3> QED BY <1>1, <3>1, StepKinds, AsideMoves, PassMoves, SettleMoves, MarkMoves, UnparkMoves
  <2>2. Behind(s, i)
      BY <1>1, BehindOnlyByExtract
  <2> QED BY <2>1, <2>2 DEF AllBehindAnswered
<1>2. CASE Extract
  <2>1. /\ Busy /\ child.pc = "extract" /\ child.of \in Sessions /\ child.at \in Nat
        /\ child.at < child.end
        /\ AfterBatch \in (child.at + 1)..child.end /\ child.end \in Nat
        /\ NextBatch \subseteq child.at..(AfterBatch - 1) /\ marks' = marks
        /\ \/ /\ child'.pc = "extract" /\ child'.of = child.of /\ child'.at = AfterBatch
              /\ parked' = parked
              /\ Fated("seen") \/ Fated("lost")
           \/ /\ child'.pc = "none" /\ Fated("outage")
              /\ ParkAt \in NextBatch /\ \A j \in NextBatch : ParkAt <= j
              /\ parked' = [parked EXCEPT ![child.of] = [next |-> ParkAt, got |-> child.got]]
      BY <1>2, ExtractMoves
  <2>2. PICK what \in {"seen", "lost", "outage"} : Fated(what)
      BY <2>1
  <2>3. \A t \in Sessions : t # child.of => fate'[t] = fate[t]
      BY <2>1, <2>2, FatedFacts
  <2>4. \A j \in 0..(N(child.of) - 1) :
           fate'[child.of][j] = IF j \in NextBatch THEN Answer(fate[child.of][j], what)
                                ELSE IF j \in child.at..(AfterBatch - 1) THEN "tool"
                                ELSE fate[child.of][j]
      BY <2>1, <2>2, FatedFacts
  <2>5. CASE s # child.of
    <3>1. Behind(s, i)
        BY <2>1, <2>5 DEF Behind, Passed, Finalized, Busy, Shape, TypeOK
    <3> QED BY <2>3, <2>5, <3>1 DEF AllBehindAnswered
  <2>6. CASE s = child.of
    <3>1. i \in Nat
        OBVIOUS
    <3>2. CASE fate[s][i] \in Answered
        BY <2>2, <2>4, <2>6, <3>2 DEF Answer, Answered
    <3>3. CASE fate[s][i] \notin Answered
      <4>1. ~Behind(s, i)
          BY <3>3 DEF AllBehindAnswered
      <4>2. /\ ~Finalized(s) /\ ~(parked[s].next > i) /\ ~(i < child.at)
          BY <2>1, <2>6, <4>1 DEF Behind, Passed, Reach
      <4>3. CASE child'.pc = "extract"
        <5>1. i < AfterBatch /\ i \in child.at..(AfterBatch - 1)
            BY <2>1, <2>6, <3>1, <4>2, <4>3 DEF Behind, Passed, Finalized, Reach
        <5>2. Fated("seen") \/ Fated("lost")
            BY <2>1, <4>3
        <5>3. PICK w \in {"seen", "lost"} : Fated(w)
            BY <5>2
        <5>4. fate'[s][i] = IF i \in NextBatch THEN Answer(fate[s][i], w) ELSE "tool"
            BY <2>1, <2>6, <5>1, <5>3, FatedFacts
        <5> QED BY <5>4 DEF Answer, Answered
      <4>4. CASE child'.pc = "none"
        <5>1. parked'[s].next > i
            BY <2>1, <2>6, <4>2, <4>4 DEF Behind, Passed, Finalized, Busy
        <5>2. /\ parked'[s].next = ParkAt /\ ParkAt \in NextBatch
              /\ \A j \in NextBatch : ParkAt <= j
            BY <2>1, <2>6, <4>4 DEF Shape, TypeOK
        <5>3. i < ParkAt /\ ParkAt \in Nat /\ ParkAt <= AfterBatch - 1
            BY <2>1, <5>1, <5>2
        <5>4. i \notin NextBatch /\ i \in child.at..(AfterBatch - 1)
            BY <2>1, <3>1, <4>2, <5>2, <5>3
        <5> QED BY <2>4, <2>6, <5>4 DEF Answered
      <4> QED BY <2>1, <4>3, <4>4
    <3> QED BY <3>2, <3>3
  <2> QED BY <2>5, <2>6
<1>3. CASE Choose /\ child'.pc = "settle"
  <2>1. child.pc = "choose" /\ parked' = parked
      BY <1>3, ChooseMoves
  <2>2. PICK t \in Sessions : /\ child'.of = t /\ marks' = marks
                              /\ child'.from \in Nat /\ fate' = Unasked(t, child'.from)
                              /\ child'.from = parked[t].next \/ child'.from = 0
      BY <1>3, <2>1, ChooseMoves DEF Started
  <2>3. /\ \A x \in Sessions : x # t => fate'[x] = fate[x]
        /\ \A j \in 0..(N(t) - 1) :
              fate'[t][j] = IF j >= child'.from THEN "unasked" ELSE fate[t][j]
      BY <2>2, UnaskedFacts
  <2>4. CASE s # t
    <3>1. Behind(s, i)
        BY <2>1, <2>2, <2>4 DEF Behind, Passed, Finalized
    <3> QED BY <2>3, <2>4, <3>1 DEF AllBehindAnswered
  <2>5. CASE s = t /\ i >= child'.from
      BY <2>3, <2>5 DEF Answered
  <2>6. CASE s = t /\ ~(i >= child'.from)
    <3>1. i \in Nat /\ i < child'.from
        BY <2>2, <2>6
    <3>2. Behind(s, i)
        BY <2>2, <2>6, <3>1 DEF Behind, Passed
    <3> QED BY <2>3, <2>6, <3>2 DEF AllBehindAnswered
  <2> QED BY <2>4, <2>5, <2>6
<1> QED BY <1>1, <1>2, <1>3

(* The cursor and the marker never move past content that the model has    *)
(* not seen because of an outage, whatever ticks, kills and outages there  *)
(* are; only a child without a model leaves chunks unasked.                *)
THEOREM NothingIsSkipped == Spec => []NothingSkipped
<1>1. Init => AllBehindAnswered
    BY ChunkFacts DEF Init, AllBehindAnswered, Behind, Passed, Finalized, Busy, NoChild, NoRow
<1>2. Shape /\ Shape' /\ AllBehindAnswered /\ [Next]_vars => AllBehindAnswered'
    BY AnsweredStep
<1>3. AllBehindAnswered => NothingSkipped
    BY DEF AllBehindAnswered, NothingSkipped, Behind, Answered
<1> QED BY <1>1, <1>2, <1>3, ShapeAtStart, ShapeKept, PTL DEF Spec

-----------------------------------------------------------------------------
(* 6. Entities are kept                                                    *)

Seen(s, i) == fate[s][i] = "seen"

(* What was seen of the chunks behind the cursor is in the row, what was   *)
(* seen of those behind the child is with the child, and from the upsert   *)
(* on it is in the graph.                                                  *)
RowKeeps == \A s \in Sessions : \A i \in 0..(N(s) - 1) :
               i < parked[s].next /\ Seen(s, i) => i \in parked[s].got
ChildKeeps == Busy => \A i \in 0..(N(child.of) - 1) :
               i < Reach /\ Seen(child.of, i) => i \in child.got
GraphKeeps == child.pc \in {"mark", "unpark"} => \A i \in 0..(N(child.of) - 1) :
               Seen(child.of, i) => i \in graph[child.of]
DoneKeeps == \A s \in Sessions : Finalized(s) /\ parked[s] = NoRow =>
               \A i \in 0..(N(s) - 1) : Seen(s, i) => i \in graph[s]
Kept == RowKeeps /\ ChildKeeps /\ GraphKeeps /\ DoneKeeps

LEMMA KeptStep ==
    ASSUME Shape, Shape', Kept, [Next]_vars
    PROVE  Kept'
<1>1. /\ marks \in [Sessions -> Nat] /\ graph \in [Sessions -> SUBSET Nat]
      /\ parked \in [Sessions -> [next : Nat \cup {-1}, got : SUBSET Nat]]
      /\ RowKeeps /\ ChildKeeps /\ GraphKeeps /\ DoneKeeps
    BY DEF Shape, TypeOK, Kept
<1>2. CASE Aside \/ UNCHANGED vars
  <2>1. /\ UNCHANGED <<marks, parked, graph, fate>>
        /\ child' = child \/ child'.pc \in {"none", "choose"}
      BY <1>2, AsideMoves
  <2>2. RowKeeps' /\ DoneKeeps'
      BY <1>1, <2>1 DEF RowKeeps, DoneKeeps, Seen, Finalized, N
  <2>3. ChildKeeps' /\ GraphKeeps'
      BY <1>1, <2>1 DEF ChildKeeps, GraphKeeps, Seen, Busy, Reach, N
  <2> QED BY <2>2, <2>3 DEF Kept
<1>3. CASE CloseWindow \/ ClaimsStep \/ Drafted \/ Defer
  <2>1. /\ Busy /\ child'.pc \in {"claims", "drafting", "defer", "settle"}
        /\ child'.of = child.of /\ child'.end = Reach /\ child'.got = child.got
        /\ UNCHANGED <<marks, parked, graph, fate>>
      BY <1>3, PassMoves
  <2>2. RowKeeps' /\ DoneKeeps'
      BY <1>1, <2>1 DEF RowKeeps, DoneKeeps, Seen, Finalized, N
  <2>3. Reach' = Reach
      BY <2>1 DEF Reach
  <2>4. ChildKeeps' /\ GraphKeeps'
      BY <1>1, <2>1, <2>3 DEF ChildKeeps, GraphKeeps, Seen, N
  <2> QED BY <2>2, <2>4 DEF Kept
<1>4. CASE Settle
  <2>1. /\ Busy /\ child.pc = "settle" /\ child.of \in Sessions
        /\ marks' = marks /\ fate' = fate
        /\ \/ /\ child'.pc = "choose" /\ graph' = graph
              /\ parked' = [parked EXCEPT ![child.of] = [next |-> child.end, got |-> child.got]]
           \/ /\ child'.pc = "mark" /\ child'.of = child.of /\ parked' = parked
              /\ child'.got = child.got /\ child'.end = child.end
              /\ child.end = N(child.of)
              /\ graph' = [graph EXCEPT ![child.of] = @ \cup child.got]
      BY <1>4, SettleMoves
  <2>2. \A i \in 0..(N(child.of) - 1) : i < child.end /\ Seen(child.of, i) => i \in child.got
      BY <1>1, <2>1 DEF ChildKeeps, Reach
  <2>3. RowKeeps'
      BY <1>1, <2>1, <2>2 DEF RowKeeps, Seen, N
  <2>4. DoneKeeps'
    <3> SUFFICES ASSUME NEW s \in Sessions, Finalized(s), parked'[s] = NoRow,
                        NEW i \in 0..(N(s) - 1), Seen(s, i)
                 PROVE  i \in graph'[s]
        BY <2>1 DEF DoneKeeps, N, Seen, Finalized
    <3>1. child.end \in Nat
        BY DEF Shape, TypeOK, ChildState
    <3>2. parked[s] = NoRow
      <4>1. [next |-> child.end, got |-> child.got].next = child.end /\ NoRow.next = -1
          BY DEF NoRow
      <4>2. [next |-> child.end, got |-> child.got] # NoRow
          BY <3>1, <4>1
      <4> QED BY <1>1, <2>1, <4>2
    <3>3. i \in graph[s]
        BY <1>1, <3>2 DEF DoneKeeps
    <3> QED BY <1>1, <2>1, <3>3
  <2>5. \A i \in 0..(N(child.of) - 1) : i < N(child.of)
      BY <2>1, ChunkFacts
  <2>6. ChildKeeps' /\ GraphKeeps'
    <3>1. CASE child'.pc = "choose"
        BY <3>1 DEF ChildKeeps, GraphKeeps, Busy
    <3>2. CASE child'.pc = "mark"
      <4>1. /\ child'.of = child.of /\ child'.got = child.got /\ child'.end = child.end
            /\ child.end = N(child.of) /\ child.got \subseteq graph'[child.of]
          BY <1>1, <2>1, <3>2
      <4>2. \A i \in 0..(N(child.of) - 1) : Seen(child.of, i) => i \in child.got
          BY <2>2, <2>5, <4>1
      <4> QED BY <2>1, <4>1, <4>2 DEF ChildKeeps, GraphKeeps, Seen, N
    <3> QED BY <2>1, <3>1, <3>2
  <2> QED BY <2>3, <2>4, <2>6 DEF Kept
<1>5. CASE Mark
  <2>1. /\ Busy /\ child.pc = "mark" /\ child.of \in Sessions /\ child.end = N(child.of)
        /\ marks' = [marks EXCEPT ![child.of] = @ + 1]
        /\ UNCHANGED <<parked, graph, fate>>
        /\ \/ /\ child'.pc = "unpark" /\ child'.of = child.of
              /\ child'.got = child.got /\ child'.end = child.end
           \/ child'.pc \in {"none", "choose"}
      BY <1>5, MarkMoves
  <2>2. \A i \in 0..(N(child.of) - 1) : Seen(child.of, i) => i \in graph[child.of]
      BY <1>1, <2>1 DEF GraphKeeps
  <2>3. RowKeeps'
      BY <1>1, <2>1 DEF RowKeeps, Seen, N
  <2>4. DoneKeeps'
      BY <1>1, <2>1, <2>2 DEF DoneKeeps, Seen, Finalized, N
  <2>5. ChildKeeps' /\ GraphKeeps'
      BY <1>1, <2>1, <2>2 DEF ChildKeeps, GraphKeeps, Seen, N, Busy, Reach
  <2> QED BY <2>3, <2>4, <2>5 DEF Kept
<1>6. CASE Unpark
  <2>1. /\ child.pc = "unpark" /\ child.of \in Sessions
        /\ parked' = [parked EXCEPT ![child.of] = NoRow]
        /\ child'.pc \in {"none", "choose"} /\ UNCHANGED <<marks, graph, fate>>
      BY <1>6, UnparkMoves
  <2>2. \A i \in 0..(N(child.of) - 1) : Seen(child.of, i) => i \in graph[child.of]
      BY <1>1, <2>1 DEF GraphKeeps
  <2>3. ASSUME NEW s \in Sessions, NEW i \in 0..(N(s) - 1), i < parked'[s].next, Seen(s, i)'
        PROVE  i \in parked'[s].got
    <3>1. s # child.of
        BY <1>1, <2>1, <2>3 DEF NoRow
    <3> QED BY <1>1, <2>1, <2>3, <3>1 DEF RowKeeps, Seen
  <2>4. RowKeeps'
      BY <2>3 DEF RowKeeps, N
  <2>5. DoneKeeps'
      BY <1>1, <2>1, <2>2 DEF DoneKeeps, Seen, Finalized, N
  <2>6. ChildKeeps' /\ GraphKeeps'
      BY <2>1 DEF ChildKeeps, GraphKeeps, Busy
  <2> QED BY <2>4, <2>5, <2>6 DEF Kept
<1>7. CASE Choose
  <2>1. child.pc = "choose" /\ UNCHANGED <<parked, graph>>
      BY <1>7, ChooseMoves
  <2>0. ASSUME NEW s \in Sessions, NEW i \in 0..(N(s) - 1), Seen(s, i)'
        PROVE  Seen(s, i) /\ (child'.pc = "settle" /\ child'.of = s => i < child'.from)
    <3>1. CASE fate' = fate /\ child'.pc # "settle"
        BY <2>0, <3>1 DEF Seen
    <3>2. ASSUME NEW t \in Sessions, child'.of = t, child'.from \in Nat,
                 fate' = Unasked(t, child'.from)
          PROVE  Seen(s, i) /\ (child'.of = s => i < child'.from)
      <4>1. /\ \A x \in Sessions : x # t => fate'[x] = fate[x]
            /\ \A j \in 0..(N(t) - 1) :
                  fate'[t][j] = IF j >= child'.from THEN "unasked" ELSE fate[t][j]
          BY <3>2, UnaskedFacts
      <4>2. CASE s # t
          BY <2>0, <3>2, <4>1, <4>2 DEF Seen
      <4>3. CASE s = t
        <5>1. ~(i >= child'.from)
            BY <2>0, <4>1, <4>3 DEF Seen
        <5>2. i < child'.from /\ fate'[s][i] = fate[s][i]
            BY <3>2, <4>1, <4>3, <5>1
        <5> QED BY <2>0, <5>2 DEF Seen
      <4> QED BY <4>2, <4>3
    <3> QED BY <1>7, <2>1, <3>1, <3>2, ChooseMoves DEF Started
  <2>2. RowKeeps'
      BY <1>1, <2>0, <2>1 DEF RowKeeps, N
  <2>3. CASE child'.pc = "none" /\ marks' = marks /\ fate' = fate
      BY <1>1, <2>1, <2>2, <2>3
         DEF Kept, ChildKeeps, GraphKeeps, DoneKeeps, Seen, Finalized, N, Busy
  <2>4. ASSUME NEW s \in Sessions, child'.pc \in {"extract", "settle"}, child'.of = s,
               marks' = marks,
               \/ /\ child'.at = parked[s].next /\ child'.got = parked[s].got
                  /\ child'.from = parked[s].next
               \/ child'.at = 0 /\ child'.from = 0
        PROVE  Kept'
    <3>1. ASSUME NEW i \in 0..(N(s) - 1), Seen(s, i)', i < Reach' PROVE i \in child'.got
      <4>1. i \in Nat /\ Seen(s, i)
          BY <2>0, <3>1
      <4>2. i < child'.from
          BY <2>0, <2>4, <3>1 DEF Reach
      <4> QED BY <1>1, <2>4, <4>1, <4>2 DEF RowKeeps
    <3>2. ChildKeeps' /\ GraphKeeps'
        BY <2>1, <2>4, <3>1 DEF ChildKeeps, GraphKeeps, N, Busy
    <3>3. DoneKeeps'
        BY <1>1, <2>0, <2>1, <2>4 DEF DoneKeeps, Finalized, N
    <3> QED BY <2>2, <3>2, <3>3 DEF Kept
  <2>5. ASSUME NEW s \in Unfit, s \in Sessions, child' = child, fate' = fate,
               marks' = [marks EXCEPT ![s] = 1]
        PROVE  Kept'
    <3>1. DoneKeeps'
        BY <1>1, <2>1, <2>5 DEF DoneKeeps, Seen, Finalized, N
    <3> QED BY <2>1, <2>2, <2>5, <3>1 DEF Kept, ChildKeeps, GraphKeeps, Busy
  <2> QED BY <1>7, <2>3, <2>4, <2>5, ChooseMoves DEF Started
<1>8. CASE Extract
  <2>1. /\ Busy /\ child.pc = "extract" /\ child.of \in Sessions /\ child.at \in Nat
        /\ child.at < child.end
        /\ AfterBatch \in (child.at + 1)..child.end /\ child.end \in Nat
        /\ NextBatch \subseteq child.at..(AfterBatch - 1) /\ UNCHANGED <<marks, graph>>
        /\ \/ /\ child'.pc = "extract" /\ child'.of = child.of /\ child'.at = AfterBatch
              /\ parked' = parked
              /\ \/ child'.got = child.got \cup NextBatch /\ Fated("seen")
                 \/ child'.got = child.got /\ Fated("lost")
           \/ /\ child'.pc = "none" /\ Fated("outage")
              /\ ParkAt \in NextBatch /\ \A j \in NextBatch : ParkAt <= j
              /\ parked' = [parked EXCEPT ![child.of] = [next |-> ParkAt, got |-> child.got]]
      BY <1>8, ExtractMoves
  <2>2. PICK what \in {"seen", "lost", "outage"} :
           /\ Fated(what)
           /\ what = "seen" => child'.pc = "extract" /\ child'.got = child.got \cup NextBatch
           /\ what = "lost" => child'.pc = "extract" /\ child'.got = child.got
           /\ what = "outage" => child'.pc = "none"
      BY <2>1
  <2>3. \A t \in Sessions : t # child.of => fate'[t] = fate[t]
      BY <2>1, <2>2, FatedFacts
  <2>4. \A j \in 0..(N(child.of) - 1) :
           fate'[child.of][j] = IF j \in NextBatch THEN Answer(fate[child.of][j], what)
                                ELSE IF j \in child.at..(AfterBatch - 1) THEN "tool"
                                ELSE fate[child.of][j]
      BY <2>1, <2>2, FatedFacts
  <2>5. ASSUME NEW j \in 0..(N(child.of) - 1), fate'[child.of][j] = "seen"
        PROVE  \/ Seen(child.of, j)
               \/ j \in NextBatch /\ what = "seen"
      BY <2>2, <2>4, <2>5 DEF Seen, Answer
  <2>6. ASSUME NEW j \in 0..(N(child.of) - 1), fate'[child.of][j] = "seen", j < child.at
        PROVE  j \in child.got
    <3>1. j \notin NextBatch
        BY <2>1, <2>6
    <3> QED BY <1>1, <2>1, <2>5, <2>6, <3>1 DEF ChildKeeps, Reach
  <2>7. RowKeeps'
    <3> SUFFICES ASSUME NEW s \in Sessions, NEW i \in 0..(N(s) - 1),
                        i < parked'[s].next, Seen(s, i)'
                 PROVE  i \in parked'[s].got
        BY DEF RowKeeps, N
    <3>0. fate'[s][i] = "seen"
        BY DEF Seen
    <3>1. CASE s # child.of
        BY <1>1, <2>1, <2>3, <3>1 DEF RowKeeps, Seen
    <3>2. CASE s = child.of /\ what = "outage"
      <4>1. /\ parked'[s].next = ParkAt /\ parked'[s].got = child.got
            /\ ParkAt \in NextBatch /\ \A j \in NextBatch : ParkAt <= j
          BY <1>1, <2>1, <2>2, <3>2
      <4>2. i \in Nat /\ ParkAt \in Nat /\ i < ParkAt /\ ParkAt <= AfterBatch - 1
          BY <2>1, <4>1
      <4>3. i \notin NextBatch
          BY <4>1, <4>2
      <4>4. i < child.at
        <5>1. i \in child.at..(AfterBatch - 1) => fate'[s][i] = "tool"
            BY <2>4, <3>2, <4>3
        <5>2. i \notin child.at..(AfterBatch - 1)
            BY <3>0, <5>1
        <5>3. child.at \in Int /\ AfterBatch \in Int
            BY <2>1
        <5> QED BY <4>2, <5>2, <5>3
      <4> QED BY <2>6, <3>0, <3>2, <4>1, <4>4
    <3>3. CASE s = child.of /\ what # "outage"
      <4>1. parked' = parked
          BY <2>1, <2>2, <3>3
      <4>2. /\ Resumed /\ child.from <= child.at /\ child.from \in Nat
            /\ parked[s].next \in Nat \cup {-1}
          BY <1>1, <2>1, <3>3 DEF Shape, TypeOK, ChildState, Window
      <4>3. parked[s].next <= child.at
          BY <2>1, <3>3, <4>2 DEF Resumed, NoRow
      <4>4. i \in Nat /\ i < child.at
          BY <2>1, <4>1, <4>2, <4>3
      <4>5. i \notin NextBatch
          BY <2>1, <4>4
      <4>6. Seen(s, i)
          BY <2>5, <3>0, <3>3, <4>5
      <4> QED BY <1>1, <4>1, <4>6 DEF RowKeeps
    <3> QED BY <3>1, <3>2, <3>3
  <2>8. ChildKeeps' /\ GraphKeeps'
    <3>1. CASE what = "outage"
        BY <2>2, <3>1 DEF ChildKeeps, GraphKeeps, Busy
    <3>2. CASE what # "outage"
      <4>1. /\ child'.pc = "extract" /\ child'.of = child.of /\ child'.at = AfterBatch
            /\ child'.got = IF what = "seen" THEN child.got \cup NextBatch ELSE child.got
          BY <2>1, <2>2, <3>2
      <4>2. ASSUME NEW i \in 0..(N(child.of) - 1), i < AfterBatch, fate'[child.of][i] = "seen"
            PROVE  i \in child'.got
        <5>1. i \in Nat
            OBVIOUS
        <5>2. CASE i < child.at
            BY <2>6, <4>1, <4>2, <5>2
        <5>3. CASE i \in NextBatch /\ what = "seen"
            BY <4>1, <5>3
        <5>4. CASE ~(i < child.at) /\ ~(i \in NextBatch /\ what = "seen")
          <6>1. i \in child.at..(AfterBatch - 1)
              BY <2>1, <4>2, <5>1, <5>4
          <6>2. fate'[child.of][i] \in {Answer(fate[child.of][i], what), "tool"}
                /\ i \in NextBatch => fate'[child.of][i] = Answer(fate[child.of][i], what)
              BY <2>4, <6>1
          <6> QED BY <2>2, <2>4, <3>2, <4>2, <5>4, <6>1 DEF Seen, Answer
        <5> QED BY <5>2, <5>3, <5>4
      <4>3. Reach' = AfterBatch /\ child'.pc \notin {"mark", "unpark"}
          BY <4>1 DEF Reach
      <4>4. \A i \in 0..(N(child.of) - 1) :
               i < AfterBatch /\ fate'[child.of][i] = "seen" => i \in child'.got
          BY <4>2
      <4> QED BY <4>1, <4>3, <4>4 DEF ChildKeeps, GraphKeeps, N, Seen
    <3> QED BY <3>1, <3>2
  <2>9. DoneKeeps'
    <3> SUFFICES ASSUME NEW s \in Sessions, Finalized(s)', parked'[s] = NoRow,
                        NEW i \in 0..(N(s) - 1), Seen(s, i)'
                 PROVE  i \in graph'[s]
        BY DEF DoneKeeps, N
    <3>1. CASE s # child.of
        BY <1>1, <2>1, <2>3, <3>1 DEF DoneKeeps, Seen, Finalized
    <3>2. CASE s = child.of
      <4>1. parked[s] = NoRow
        <5>1. CASE child'.pc = "extract"
            BY <2>1, <5>1
        <5>2. CASE child'.pc = "none"
          <6>1. parked'[s] = [next |-> ParkAt, got |-> child.got] /\ ParkAt \in NextBatch
              BY <1>1, <2>1, <3>2, <5>2
          <6>3. ParkAt \in Nat
              BY <2>1, <6>1
          <6>2. parked'[s].next = ParkAt
              BY <6>1
          <6> QED BY <6>2, <6>3 DEF NoRow
        <5> QED BY <2>1, <5>1, <5>2
      <4>2. marks[s] = 0
          BY <2>1, <3>2, <4>1 DEF Shape, Resumed
      <4> QED BY <1>1, <2>1, <4>2 DEF Finalized
    <3> QED BY <3>1, <3>2
  <2> QED BY <2>7, <2>8, <2>9 DEF Kept
<1> QED BY <1>2, <1>3, <1>4, <1>5, <1>6, <1>7, <1>8, StepKinds

(* What earlier ticks extracted survives the ticks, kills and outages      *)
(* between them: a finalized session has the entities of every chunk whose *)
(* last extraction was answered.                                           *)
THEOREM EntitiesAreKept == Spec => []EntitiesKept
<1>1. Init => Kept
    BY DEF Init, Kept, RowKeeps, ChildKeeps, GraphKeeps, DoneKeeps, Seen, Busy, NoChild, NoRow
<1>2. Shape /\ Shape' /\ Kept /\ [Next]_vars => Kept'
    BY KeptStep
<1>3. Kept => EntitiesKept
    BY DEF Kept, DoneKeeps, EntitiesKept, Seen
<1> QED BY <1>1, <1>2, <1>3, ShapeAtStart, ShapeKept, PTL DEF Spec

-----------------------------------------------------------------------------
(* 7. Claims are accounted for                                             *)

Excused(s, i) == Held(s, i) \/ <<s, i>> \in excused \cup orphaned

(* Every spoken chunk that the claims pass, of this tick or an earlier     *)
(* one, is past, is drafted, is a dead letter or was given up by name.     *)
Accounted ==
    \A s \in Sessions : \A i \in 0..(N(s) - 1) :
        Claimed(s, i) /\ BodyOf(s, i) \in Spoken => Excused(s, i)

(* What is drafted or in a letter stays so, under every step but the       *)
(* pruning of exhausted letters.                                           *)
LEMMA HeldStays ==
    ASSUME Shape, [Next]_vars, ~DrainEnd, NEW b \in Bodies,
           queue[b] # None \/ Lettered(letters, b)
    PROVE  queue'[b] # None \/ Lettered(letters', b)
<1>1. letters \in Seq(Letters) /\ queue \in [Bodies -> Sessions \cup {None}]
    BY DEF Shape, TypeOK
<1>2. CASE letters' = letters /\ queue' = queue
    BY <1>2
<1>3. CASE Drafted
  <2>1. /\ child.pc = "drafting" /\ child.at < child.end
      BY <1>3 DEF Drafted, Shape, Window, Busy
  <2>2. /\ <<child.of, child.at>> \in Chunks /\ child.of \in Sessions
        /\ BodyOf(child.of, child.at) \in Bodies
      BY <2>1, InClaims
  <2>3. \/ Drafts(child.of, BodyOf(child.of, child.at)) /\ letters' = letters
        \/ queue' = queue /\ letters' = RecordClaimFailure(letters, <<child.of, child.at>>)
      BY <1>3 DEF Drafted
  <2> QED BY <1>1, <2>2, <2>3, DraftsType, FailureRecorded
<1>4. CASE Defer
  <2>1. /\ child.pc = "defer"
        /\ \/ letters' = letters
           \/ /\ child.at < child.end
              /\ letters' = RecordClaimFailure(letters, <<child.of, child.at>>)
        /\ queue' = queue
      BY <1>4 DEF Defer
  <2>2. child.at < child.end => <<child.of, child.at>> \in Chunks
      BY <2>1, InClaims
  <2> QED BY <1>1, <2>1, <2>2, FailureRecorded
<1>5. CASE DrainReply
  <2> DEFINE c == Head(drain.rows)
  <2>1. c \in Chunks /\ c[1] \in Sessions /\ BodyOf(c[1], c[2]) \in Bodies
      BY <1>5, DrainHead DEF DrainReply
  <2>2. \/ Drafts(c[1], BodyOf(c[1], c[2])) /\ letters' = Delivered(c)
        \/ queue' = queue /\ letters' = RecordClaimFailure(letters, c)
        \/ queue' = queue /\ letters' = letters
      BY <1>5 DEF DrainReply
  <2> HIDE DEF c
  <2>3. CASE Drafts(c[1], BodyOf(c[1], c[2])) /\ letters' = Delivered(c)
    <3>1. /\ queue'[BodyOf(c[1], c[2])] # None
          /\ queue[b] # None => queue'[b] # None
        BY <1>1, <2>1, <2>3, DraftsType
    <3>2. CASE queue[b] # None
        BY <3>1, <3>2
    <3>3. CASE Lettered(letters, b)
      <4>1. PICK k \in DOMAIN letters : BodyOf(letters[k].of[1], letters[k].of[2]) = b
          BY <3>3 DEF Lettered
      <4>2. CASE letters[k].of = c
          BY <3>1, <4>1, <4>2
      <4>3. CASE letters[k].of # c
          BY <1>1, <2>3, <4>1, <4>3, DeliveredFacts
      <4> QED BY <4>2, <4>3
    <3> QED BY <3>2, <3>3
  <2> QED BY <1>1, <2>1, <2>2, <2>3, FailureRecorded
<1>6. CASE ~Drafted /\ ~Defer /\ ~DrainReply
  <2>1. letters' = letters /\ queue' = queue
      BY <1>6 DEF Next, ChildStep, DrainStep, vars, Capture, Spawn, Choose, Extract, CloseWindow,
         ClaimsStep, Settle, Mark, Unpark, Kill, DrainStart, DrainKilled
  <2> QED BY <1>2, <2>1
<1> QED BY <1>3, <1>4, <1>5, <1>6

(* What was given up stays given up.                                       *)
LEMMA GivenUpGrows ==
    [Next]_vars => excused \subseteq excused' /\ orphaned \subseteq orphaned'
BY DEF Next, ChildStep, DrainStep, vars, Capture, Spawn, Choose, Extract, CloseWindow,
       ClaimsStep, Drafted, Defer, Settle, Mark, Unpark, Kill, DrainStart, DrainReply,
       DrainEnd, DrainKilled

LEMMA ExcusedStays ==
    ASSUME Shape, [Next]_vars, ~DrainEnd, NEW s \in Sessions, NEW i \in 0..(N(s) - 1),
           Excused(s, i)
    PROVE  Excused(s, i)'
<1>1. BodyOf(s, i) \in Bodies
    BY ChunkFacts
<1>2. Held(s, i) => Held(s, i)'
    BY <1>1, HeldStays DEF Held, BodyOf
<1> QED BY <1>2, GivenUpGrows DEF Excused

(* The pruning of exhausted letters gives up what it takes.                *)
LEMMA PrunedExcused ==
    ASSUME Shape, DrainEnd, NEW s \in Sessions, NEW i \in 0..(N(s) - 1),
           Excused(s, i), Claimed(s, i)
    PROVE  Excused(s, i)'
<1>1. letters \in Seq(Letters)
    BY DEF Shape, TypeOK
<1>2. PICK old : /\ letters' = RowsAt(letters, {k \in DOMAIN letters : letters[k].of \notin old})
                 /\ excused' = excused \cup {c \in Chunks : Claimed(c[1], c[2])
                       /\ \E o \in old : BodyOf(c[1], c[2]) = BodyOf(o[1], o[2])}
    BY DEF DrainEnd
<1>3. queue' = queue /\ orphaned' = orphaned
    BY DEF DrainEnd
<1>4. CASE queue[BodyOf(s, i)] # None
    BY <1>3, <1>4 DEF Excused, Held, BodyOf
<1>5. CASE <<s, i>> \in excused \cup orphaned
    BY <1>2, <1>3, <1>5 DEF Excused
<1>6. CASE Lettered(letters, BodyOf(s, i))
  <2>1. PICK k \in DOMAIN letters :
           BodyOf(letters[k].of[1], letters[k].of[2]) = BodyOf(s, i)
      BY <1>6 DEF Lettered
  <2>2. CASE letters[k].of \in old
    <3>1. <<s, i>> \in Chunks
        BY ChunkFacts
    <3>2. <<s, i>>[1] = s /\ <<s, i>>[2] = i
        OBVIOUS
    <3>3. <<s, i>> \in excused'
        BY <1>2, <2>1, <2>2, <3>1, <3>2
    <3> QED BY <3>3 DEF Excused
  <2>3. CASE letters[k].of \notin old
    <3> DEFINE K == {j \in DOMAIN letters : letters[j].of \notin old}
    <3>1. K \in SUBSET DOMAIN letters /\ k \in K /\ letters' = RowsAt(letters, K)
        BY <1>2, <2>3
    <3> HIDE DEF K
    <3>2. \E j \in DOMAIN letters' : letters'[j] = letters[k]
        BY <1>1, <3>1, LettersKept
    <3>3. Lettered(letters', BodyOf(s, i))
        BY <2>1, <3>2 DEF Lettered
    <3> QED BY <3>3 DEF Excused, Held, BodyOf
  <2> QED BY <2>2, <2>3
<1> QED BY <1>4, <1>5, <1>6 DEF Excused, Held

(* What lies before the window is behind the cursor of a parked row.       *)
LEMMA BehindFrom ==
    ASSUME Shape, Busy, NEW i \in Nat, i < child.from
    PROVE  parked[child.of].next > i
BY DEF Shape, Resumed

(* The claims pass, or an outage of the entity pass, moves past a spoken   *)
(* chunk only once it is drafted, a dead letter or given up.               *)
LEMMA ClaimedOnlyIfExcused ==
    ASSUME Shape, [Next]_vars, NEW s \in Sessions, NEW i \in 0..(N(s) - 1),
           Claimed(s, i)', BodyOf(s, i) \in Spoken, ~Claimed(s, i)
    PROVE  Excused(s, i)'
<1>1. /\ marks \in [Sessions -> Nat] /\ N(s) \in Nat /\ i \in Nat /\ i < N(s)
      /\ parked \in [Sessions -> [next : Nat \cup {-1}, got : SUBSET Nat]]
      /\ letters \in Seq(Letters) /\ queue \in [Bodies -> Sessions \cup {None}]
      /\ child \in ChildState /\ child.at \in Nat /\ child.end \in Nat /\ child.from \in Nat
    BY ChunkFacts DEF Shape, TypeOK, ChildState
<1>2. CASE Aside \/ UNCHANGED vars
  <2>1. /\ UNCHANGED <<marks, parked>>
        /\ child' = child \/ child'.pc \in {"none", "choose"}
      BY <1>2, AsideMoves
  <2> QED BY <2>1 DEF Claimed, Finalized
<1>3. CASE CloseWindow
  <2>1. /\ child.pc = "extract" /\ child' = [child EXCEPT !.pc = "claims", !.end = child.at,
                                      !.at = child.from, !.budget = @ - (child.at - child.from)]
        /\ UNCHANGED <<marks, parked>>
      BY <1>3 DEF CloseWindow
  <2>2. child'.pc = "claims" /\ child'.at = child.from /\ child'.of = child.of
      BY <1>1, <2>1 DEF ChildState
  <2>3. s = child.of /\ i < child.from
      BY <2>1, <2>2 DEF Claimed, Finalized
  <2>4. parked[s].next > i
      BY <1>1, <2>1, <2>3, BehindFrom DEF Busy
  <2> QED BY <2>4 DEF Claimed
<1>4. CASE ClaimsStep
  <2>1. /\ child.pc = "claims" /\ UNCHANGED <<marks, parked, queue, letters, orphaned>>
        /\ child.of \in Sessions /\ child.at <= child.end /\ child.end <= N(child.of)
      BY <1>4, InClaims DEF ClaimsStep
  <2>2. CASE child' = [child EXCEPT !.pc = "settle"] /\ child.at = child.end
      BY <1>1, <2>1, <2>2 DEF Claimed, Finalized, ChildState
  <2>3. CASE child' = [child EXCEPT !.pc = "defer", !.at = child.at]
      BY <1>1, <2>1, <2>3 DEF Claimed, Finalized, ChildState
  <2>4. CASE /\ child' = [child EXCEPT !.pc = "settle"]
             /\ excused' = excused \cup Spoke(child.at, child.end)
    <3>1. s = child.of /\ i \in child.at..(child.end - 1)
        BY <1>1, <2>1, <2>4 DEF Claimed, Finalized, ChildState
    <3>2. <<s, i>> \in Spoke(child.at, child.end)
        BY <1>1, <2>1, <3>1, SpokeChunks
    <3> QED BY <2>4, <3>2 DEF Excused
  <2>5. CASE child' = [child EXCEPT !.pc = "drafting"]
      BY <1>1, <2>1, <2>5 DEF Claimed, Finalized, ChildState
  <2>6. CASE /\ child' = [child EXCEPT !.at = @ + 1] /\ child.at < child.end
             /\ LET b == BodyOf(child.of, child.at) IN ~(b \in Spoken /\ ~Lettered(letters, b))
    <3>1. s = child.of /\ i = child.at
        BY <1>1, <2>1, <2>6 DEF Claimed, Finalized, ChildState
    <3>2. Lettered(letters, BodyOf(s, i))
        BY <2>6, <3>1
    <3> QED BY <2>1, <3>2 DEF Excused, Held, BodyOf, Lettered
  <2> QED BY <1>4, <2>2, <2>3, <2>4, <2>5, <2>6 DEF ClaimsStep, DeferFrom
<1>5. CASE Drafted
  <2>1. child.pc = "drafting" /\ child.at < child.end /\ UNCHANGED <<marks, parked>>
      BY <1>5 DEF Drafted, Shape, Window, Busy
  <2>2. /\ <<child.of, child.at>> \in Chunks /\ child.of \in Sessions
        /\ BodyOf(child.of, child.at) \in Bodies
      BY <2>1, InClaims
  <2>3. PICK late :
           \/ child' = [child EXCEPT !.pc = "claims", !.at = @ + 1, !.late = late]
           \/ child' = [child EXCEPT !.pc = "defer", !.at = @ + 1, !.late = late, !.out = TRUE]
      BY <1>5 DEF Drafted
  <2>4. child'.pc \in {"claims", "defer"} /\ child'.of = child.of /\ child'.at = child.at + 1
      BY <1>1, <2>3 DEF ChildState
  <2>5. s = child.of /\ i = child.at
      BY <1>1, <2>1, <2>4 DEF Claimed, Finalized
  <2>6. \/ Drafts(child.of, BodyOf(child.of, child.at))
        \/ letters' = RecordClaimFailure(letters, <<child.of, child.at>>)
      BY <1>5 DEF Drafted
  <2>7. queue'[BodyOf(s, i)] # None \/ Lettered(letters', BodyOf(s, i))
      BY <1>1, <2>2, <2>5, <2>6, DraftsType, FailureRecorded
  <2> QED BY <2>7 DEF Excused, Held, BodyOf
<1>6. CASE Defer
  <2>1. /\ child.pc = "defer" /\ UNCHANGED <<marks, parked>>
        /\ child.of \in Sessions /\ child.at <= child.end
        /\ child.at < child.end => <<child.of, child.at>> \in Chunks
      BY <1>6, InClaims DEF Defer
  <2>2. CASE child' = [child EXCEPT !.pc = "settle"] /\ child.at = child.end
      BY <1>1, <2>1, <2>2 DEF Claimed, Finalized, ChildState
  <2>3. CASE /\ child' = [child EXCEPT !.at = @ + 1] /\ child.at < child.end
             /\ letters' = IF BodyOf(child.of, child.at) \in Spoken
                           THEN RecordClaimFailure(letters, <<child.of, child.at>>)
                           ELSE letters
    <3>1. s = child.of /\ i = child.at
        BY <1>1, <2>1, <2>3 DEF Claimed, Finalized, ChildState
    <3>2. Lettered(letters', BodyOf(s, i))
        BY <1>1, <2>1, <2>3, <3>1, FailureRecorded
    <3> QED BY <3>2 DEF Excused, Held, BodyOf
  <2> QED BY <1>6, <2>2, <2>3 DEF Defer
<1>7. CASE Settle
  <2>1. /\ child.pc = "settle" /\ child.of \in Sessions /\ marks' = marks
        /\ \/ /\ child'.pc = "choose" /\ ~child.blind
              /\ parked' = [parked EXCEPT ![child.of] = [next |-> child.end, got |-> child.got]]
           \/ /\ child'.pc = "mark" /\ child'.of = child.of /\ parked' = parked
              /\ child'.end = child.end /\ child'.blind = child.blind
      BY <1>7, SettleMoves
  <2> QED BY <1>1, <2>1 DEF Claimed, Finalized
<1>8. CASE Mark
  <2>1. /\ child.pc = "mark" /\ child.of \in Sessions /\ child.end = N(child.of)
        /\ marks' = [marks EXCEPT ![child.of] = @ + 1] /\ parked' = parked
        /\ child'.pc \in {"none", "choose", "unpark"}
        /\ child.blind => excused' = excused \cup Spoke(child.from, child.end)
      BY <1>8, MarkMoves
  <2>2. s = child.of
      BY <1>1, <2>1 DEF Claimed, Finalized
  <2>3. child.blind /\ i \in child.from..(child.end - 1)
    <3>1. child.blind
        BY <1>1, <2>1, <2>2 DEF Claimed
    <3>2. ASSUME i < child.from PROVE parked[child.of].next > i
      <4>1. Busy /\ i \in Nat
          BY <1>1, <2>1 DEF Busy
      <4> QED BY <3>2, <4>1, BehindFrom
    <3>3. ~(parked[child.of].next > i)
        BY <2>2 DEF Claimed
    <3>4. ~(i < child.from)
        BY <3>2, <3>3
    <3> QED BY <1>1, <2>1, <2>2, <3>1, <3>4
  <2>4. <<s, i>> \in Spoke(child.from, child.end)
      BY <1>1, <2>1, <2>2, <2>3, SpokeChunks
  <2> QED BY <2>1, <2>3, <2>4 DEF Excused
<1>9. CASE Unpark
  <2>1. /\ child.of \in Sessions /\ parked' = [parked EXCEPT ![child.of] = NoRow]
        /\ child'.pc \in {"none", "choose"} /\ marks' = marks
      BY <1>9, UnparkMoves
  <2> QED BY <1>1, <2>1 DEF Claimed, Finalized, NoRow
<1>10. CASE Choose
  <2>1. child.pc = "choose" /\ parked' = parked
      BY <1>10, ChooseMoves
  <2>2. CASE /\ child'.pc \in {"none", "extract", "settle"} /\ marks' = marks
             /\ child'.pc = "settle" => child'.blind
      BY <2>1, <2>2 DEF Claimed, Finalized
  <2>3. ASSUME NEW t \in Unfit, child' = child, marks' = [marks EXCEPT ![t] = 1]
        PROVE  Excused(s, i)'
      BY <1>1, <2>1, <2>3 DEF Claimed, Finalized
  <2> QED BY <1>10, <2>2, <2>3, ChooseMoves DEF Started
<1>11. CASE Extract
  <2>1. /\ Busy /\ child.pc = "extract" /\ child.of \in Sessions /\ marks' = marks
        /\ child.end <= N(child.of)
        /\ AfterBatch \in (child.at + 1)..child.end
        /\ NextBatch \subseteq child.at..(AfterBatch - 1)
        /\ \/ child'.pc = "extract" /\ parked' = parked
           \/ /\ child'.pc = "none" /\ ParkAt \in NextBatch
              /\ parked' = [parked EXCEPT ![child.of] = [next |-> ParkAt, got |-> child.got]]
              /\ orphaned' = orphaned \cup Spoke(child.from, ParkAt)
      BY <1>11, ExtractMoves
  <2>2. /\ s = child.of /\ ParkAt \in NextBatch /\ i < ParkAt
        /\ orphaned' = orphaned \cup Spoke(child.from, ParkAt)
      BY <1>1, <2>1 DEF Claimed, Finalized
  <2>3. ParkAt \in Nat /\ ParkAt <= N(child.of)
      BY <1>1, <2>1, <2>2
  <2>4. ~(i < child.from)
      BY <1>1, <2>1, <2>2, BehindFrom DEF Claimed
  <2>5. i \in child.from..(ParkAt - 1)
      BY <1>1, <2>2, <2>3, <2>4
  <2>6. <<s, i>> \in Spoke(child.from, ParkAt)
      BY <1>1, <2>1, <2>2, <2>3, <2>5, SpokeChunks
  <2> QED BY <2>2, <2>6 DEF Excused
<1> QED BY <1>2, <1>3, <1>4, <1>5, <1>6, <1>7, <1>8, <1>9, <1>10, <1>11, StepKinds

LEMMA AccountedStep ==
    ASSUME Shape, Accounted, [Next]_vars
    PROVE  Accounted'
<1> SUFFICES ASSUME NEW s \in Sessions, NEW i \in 0..(N(s) - 1),
                    Claimed(s, i)', BodyOf(s, i) \in Spoken
             PROVE  Excused(s, i)'
    BY DEF Accounted, N, BodyOf
<1>1. CASE ~Claimed(s, i)
    BY <1>1, ClaimedOnlyIfExcused
<1>2. CASE Claimed(s, i)
  <2>1. Excused(s, i)
      BY <1>2 DEF Accounted
  <2> QED BY <1>2, <2>1, ExcusedStays, PrunedExcused
<1> QED BY <1>1, <1>2

(* No claims are lost on the way: a spoken chunk behind the cursor or the  *)
(* marker is drafted, or a dead letter holds its body, or a named path     *)
(* gave it up.                                                             *)
THEOREM ClaimsAreAccounted == Spec => []ClaimsAccounted
<1>1. Init => Accounted
    BY ChunkFacts DEF Init, Accounted, Claimed, Finalized, NoChild, NoRow
<1>2. Shape /\ Accounted /\ [Next]_vars => Accounted'
    BY AccountedStep
<1>3. Accounted => ClaimsAccounted
    BY DEF Accounted, ClaimsAccounted, Claimed, Passed, Excused
<1> QED BY <1>1, <1>2, <1>3, ShapeAtStart, ShapeKept, PTL DEF Spec

=============================================================================
