-------------------------- MODULE AgentRunnerProofs --------------------------
(* Theorems about AgentRunner: types, no failure counted twice, and the    *)
(* promises to a request, for any rotation, limits, runs and faults.       *)
EXTENDS AgentRunner, TLAPS

-----------------------------------------------------------------------------
(* The inductive invariant                                                 *)

(* The time a run has left, and what it holds when it is about to write.   *)
RunsFit ==
    \A s \in Runs :
        /\ run[s].pc \in {"boot", "sdk"} => run[s].left <= SdkMax
        /\ Writing(s) => run[s].req \in Ids
        /\ run[s].pc = "rewrite" => run[s].was > 0

(* A failure that made a bench lies behind its watermark, or, once the     *)
(* bench is gone, behind a success.                                        *)
CountedBehind ==
    \A h \in Handlers : \A i \in Last :
        rows[h][i] = "counted" =>
            \/ bench[h] # NoBench /\ i > since[h]
            \/ \E j \in Last : j < i /\ rows[h][j] = "ok"

(* The file holds what a run about to write to it has read, or nothing.    *)
WritersAgree ==
    ~Races => \A s \in Runs : Writing(s) =>
        /\ request.id \in {run[s].req, None}
        /\ \A t \in Runs : Writing(t) => run[t].req = run[s].req

IInv == TypeOK /\ RunsFit /\ CountedBehind /\ WritersAgree

-----------------------------------------------------------------------------
(* Arithmetic                                                              *)

LEMMA Remainder ==
    ASSUME NEW n \in Nat \ {0}, NEW x \in Nat
    PROVE  x % n \in 0 .. n - 1
  OBVIOUS

LEMMA Quotient ==
    ASSUME NEW n \in Nat \ {0}, NEW x \in 0 .. 2 * n - 1
    PROVE  x \div n \in 0 .. 1
<1>1. CASE x < n
  <2>1. x = 0 * n + x BY SMT
  <2> QED BY <1>1, <2>1, SMT
<1>2. CASE x >= n
  <2> DEFINE r == x - n
  <2>1. x = 1 * n + r /\ r \in 0 .. n - 1 BY <1>2, SMT
  <2> QED BY <1>2, <2>1, SMT
<1> QED BY <1>1, <1>2

LEMMA OrderFacts == N \in Nat \ {0} /\ \A i \in 1 .. N : Order[i] \in Handlers
  BY RunnerAssumption DEF Handlers, N

(* A tick looks only at handlers of the rotation, and goes round at most   *)
(* once.                                                                   *)
LEMMA TurnFacts ==
    ASSUME cursor \in 0 .. N - 1, NEW steps \in 1 .. N
    PROVE  /\ NextCursor(steps) \in 0 .. N - 1
           /\ Wraps(steps) \in 0 .. 1
           /\ \A i \in 1 .. steps : At(i) \in Handlers
<1>1. cursor + steps \in Nat /\ cursor + steps \in 0 .. 2 * N - 1
  BY OrderFacts
<1>2. (cursor + steps) % N \in 0 .. N - 1 BY <1>1, OrderFacts, Remainder
<1>3. (cursor + steps) \div N \in 0 .. 1 BY <1>1, OrderFacts, Quotient
<1>4. ASSUME NEW i \in 1 .. steps PROVE At(i) \in Handlers
  <2>1. cursor + i - 1 \in Nat BY OrderFacts
  <2>2. (cursor + i - 1) % N \in 0 .. N - 1 BY <2>1, OrderFacts, Remainder
  <2>3. ((cursor + i - 1) % N) + 1 \in 1 .. N BY <2>2, OrderFacts
  <2> QED BY <2>3, OrderFacts DEF At
<1> QED BY <1>2, <1>3, <1>4 DEF NextCursor, Wraps

-----------------------------------------------------------------------------
(* The ledger                                                              *)

Rows == {"none", "ok", "fail", "counted", "forgotten"}

LedgerTyped ==
    /\ bench \in [Handlers -> NoBench .. BenchRotations]
    /\ rows \in [Handlers -> [Last -> Rows]]
    /\ since \in [Handlers -> 0 .. BenchAfter]

(* A new row pushes the older ones, and the watermark, one back.           *)
LEMMA RecordKeeps ==
    ASSUME LedgerTyped, CountedBehind, UNCHANGED bench,
           NEW h, NEW row \in {"ok", "fail"}, Record(h, row)
    PROVE  LedgerTyped' /\ CountedBehind'
<1> USE RunnerAssumption
<1>0. BenchAfter \in Nat /\ 1 \in Last BY DEF Last
<1>1. LedgerTyped'
  <2>1. ASSUME h \in Handlers, NEW i \in Last
        PROVE  (IF i = 1 THEN row ELSE rows[h][i - 1]) \in Rows
    <3>1. i # 1 => i - 1 \in Last BY <1>0 DEF Last
    <3> QED BY <2>1, <3>1 DEF LedgerTyped, Rows
  <2>2. rows' \in [Handlers -> [Last -> Rows]]
    BY <2>1 DEF LedgerTyped, Record
  <2>3. since' \in [Handlers -> 0 .. BenchAfter]
    <3>1. ASSUME h \in Handlers
          PROVE  (IF since[h] < BenchAfter THEN since[h] + 1 ELSE since[h]) \in 0 .. BenchAfter
      BY <3>1, <1>0 DEF LedgerTyped
    <3> QED BY <3>1 DEF LedgerTyped, Record
  <2> QED BY <2>2, <2>3 DEF LedgerTyped
<1>2. ASSUME NEW g \in Handlers, NEW i \in Last, rows'[g][i] = "counted"
      PROVE  \/ bench'[g] # NoBench /\ i > since'[g]
             \/ \E j \in Last : j < i /\ rows'[g][j] = "ok"
  <2>1. CASE g # h
    BY <1>2, <2>1 DEF Record, CountedBehind, LedgerTyped
  <2>2. CASE g = h
    <3>0. /\ \A k \in Last : rows'[g][k] = IF k = 1 THEN row ELSE rows[g][k - 1]
          /\ since'[g] = IF since[g] < BenchAfter THEN since[g] + 1 ELSE since[g]
      BY <2>2 DEF Record, LedgerTyped
    <3>1. i # 1 /\ i - 1 \in Last /\ rows[g][i - 1] = "counted"
      BY <1>0, <1>2, <3>0 DEF Last
    <3>2. CASE bench[g] # NoBench /\ i - 1 > since[g]
      BY <3>0, <3>1, <3>2, <1>0 DEF Last, LedgerTyped
    <3>3. CASE \E j \in Last : j < i - 1 /\ rows[g][j] = "ok"
      <4>1. PICK j \in Last : j < i - 1 /\ rows[g][j] = "ok" BY <3>3
      <4>2. j + 1 \in Last /\ j + 1 < i /\ j + 1 # 1 /\ (j + 1) - 1 = j
        BY <4>1, <1>0 DEF Last
      <4>3. rows'[g][j + 1] = "ok" BY <3>0, <4>1, <4>2
      <4> QED BY <4>2, <4>3
    <3> QED BY <3>1, <3>2, <3>3 DEF CountedBehind
  <2> QED BY <2>1, <2>2
<1> QED BY <1>1, <1>2 DEF CountedBehind

(* The three rows of a new bench are failures that made no bench before,   *)
(* or none that is still known.                                            *)
LEMMA StrikesFresh ==
    ASSUME LedgerTyped, CountedBehind, NEW h \in Handlers, Strikes(h)
    PROVE  \A i \in Last : rows[h][i] \in {"fail", "forgotten"}
<1> USE RunnerAssumption
<1>0. BenchAfter \in Nat /\ 1 \in Last BY DEF Last
<1>1. \A i \in Last : rows[h][i] \in {"fail", "counted", "forgotten"}
  BY DEF Strikes, Streak, Failing
<1>2. \A i \in Last : rows[h][i] # "ok" BY <1>1
<1>3. ~Dropped(h) BY <1>0, <1>2 DEF Dropped, Recovered
<1>4. \A i \in Last : ~(bench[h] # NoBench /\ i > since[h])
  BY <1>0, <1>3 DEF Strikes, Streak, LedgerTyped, Last
<1> QED BY <1>1, <1>2, <1>4 DEF CountedBehind

(* A lost state file leaves no bench and no row that counts as made of one.*)
LEMMA ForgetsKeeps ==
    ASSUME LedgerTyped, Forgets, UNCHANGED since
    PROVE  LedgerTyped' /\ CountedBehind' /\ \A h \in Handlers : bench'[h] <= bench[h]
<1> USE RunnerAssumption
<1>1. bench' \in [Handlers -> NoBench .. BenchRotations] BY DEF Forgets, NoBench
<1>2. \A h \in Handlers : \A i \in Last :
         rows'[h][i] \in Rows /\ rows'[h][i] # "counted"
  BY DEF Forgets, LedgerTyped, Rows
<1>3. rows' \in [Handlers -> [Last -> Rows]] BY <1>2 DEF Forgets
<1>4. \A h \in Handlers : bench'[h] <= bench[h] BY DEF Forgets, LedgerTyped, NoBench
<1> QED BY <1>1, <1>2, <1>3, <1>4 DEF LedgerTyped, CountedBehind

(* The loop over the rotation keeps the ledger in order, and only a strike *)
(* lengthens a bench.                                                      *)
LEMMA RotateKeeps ==
    ASSUME LedgerTyped, CountedBehind, cursor \in 0 .. N - 1,
           NEW steps \in 1 .. N, Rotate(steps)
    PROVE  /\ LedgerTyped' /\ CountedBehind' /\ cursor' \in 0 .. N - 1
           /\ \A h \in Handlers : bench'[h] > bench[h] => Strikes(h)
<1> USE RunnerAssumption
<1> DEFINE w == Wraps(steps)
           seen == {At(i) : i \in 1 .. steps}
           look(h) == IF h \in seen THEN Looked(h) ELSE bench[h]
           struck(h) == h \in seen /\ Strikes(h)
<1>0. BenchAfter \in Nat /\ 1 \in Last /\ BenchRotations \in Nat /\ BenchRotations > 1
  BY DEF Last
<1>1. w \in 0 .. 1 /\ cursor' \in 0 .. N - 1 BY TurnFacts DEF Rotate
<1>2. /\ bench' = [h \in Handlers |-> IF look(h) > 0 THEN look(h) - w ELSE look(h)]
      /\ rows' = [h \in Handlers |->
                    IF struck(h) THEN [i \in Last |-> "counted"] ELSE rows[h]]
      /\ since' = [h \in Handlers |-> IF struck(h) THEN 0 ELSE since[h]]
  <2>1. \A h \in Handlers : h \in {g \in seen : Strikes(g)} <=> struck(h) OBVIOUS
  <2>2. \A h \in Handlers :
          [g \in Handlers |-> IF g \in seen THEN Looked(g) ELSE bench[g]][h] = look(h)
    OBVIOUS
  <2> QED BY <2>1, <2>2 DEF Rotate
<1>3. \A h \in Handlers : look(h) \in NoBench .. BenchRotations
  BY <1>0 DEF Looked, LedgerTyped, NoBench
<1>4. LedgerTyped'
  <2>1. bench' \in [Handlers -> NoBench .. BenchRotations]
    BY <1>0, <1>1, <1>2, <1>3 DEF NoBench
  <2>2. rows' \in [Handlers -> [Last -> Rows]]
    BY <1>2 DEF LedgerTyped, Rows
  <2>3. since' \in [Handlers -> 0 .. BenchAfter] BY <1>0, <1>2 DEF LedgerTyped
  <2> QED BY <2>1, <2>2, <2>3 DEF LedgerTyped
<1>5. CountedBehind'
  <2> SUFFICES ASSUME NEW h \in Handlers, NEW i \in Last, rows'[h][i] = "counted"
               PROVE  \/ bench'[h] # NoBench /\ i > since'[h]
                      \/ \E j \in Last : j < i /\ rows'[h][j] = "ok"
    BY DEF CountedBehind
  <2>1. CASE struck(h)
    <3>1. look(h) = BenchRotations BY <2>1 DEF Looked
    <3>2. bench'[h] # NoBench BY <3>1, <1>0, <1>1, <1>2 DEF NoBench
    <3>3. since'[h] = 0 /\ i > 0 BY <2>1, <1>2, <1>0 DEF Last
    <3> QED BY <3>2, <3>3
  <2>2. CASE ~struck(h)
    <3>1. rows'[h] = rows[h] /\ since'[h] = since[h] BY <2>2, <1>2
    <3>2. CASE \E j \in Last : j < i /\ rows[h][j] = "ok" BY <3>1, <3>2
    <3>3. CASE bench[h] # NoBench /\ i > since[h]
      <4>1. CASE look(h) = bench[h]
        BY <4>1, <3>1, <3>3, <1>1, <1>2, <1>3 DEF NoBench
      <4>2. CASE look(h) # bench[h]
        <5>1. Dropped(h) BY <4>2, <2>2 DEF Looked
        <5>2. rows[h][1] = "ok" /\ since[h] > 0 BY <5>1 DEF Dropped, Recovered
        <5>3. 1 < i BY <5>2, <3>3, <1>0 DEF LedgerTyped, Last
        <5>4. rows'[h][1] = "ok" BY <5>2, <3>1
        <5> QED BY <5>3, <5>4, <1>0
      <4> QED BY <4>1, <4>2
    <3> QED BY <3>1, <3>2, <3>3 DEF CountedBehind
  <2> QED BY <2>1, <2>2
<1>6. ASSUME NEW h \in Handlers, bench'[h] > bench[h] PROVE Strikes(h)
  <2> SUFFICES ASSUME ~Strikes(h) PROVE FALSE OBVIOUS
  <2>1. look(h) \in {bench[h], NoBench} BY DEF Looked
  <2>2. bench'[h] <= look(h) BY <1>1, <1>2, <1>3 DEF NoBench
  <2>3. look(h) <= bench[h] BY <2>1, <1>0 DEF LedgerTyped, NoBench
  <2>4. bench[h] \in Int /\ bench'[h] \in Int /\ look(h) \in Int
    BY <1>0, <1>3, <1>4 DEF LedgerTyped, NoBench
  <2> QED BY <1>6, <2>2, <2>3, <2>4
<1> QED BY <1>1, <1>4, <1>5, <1>6

-----------------------------------------------------------------------------
(* The runs and the request                                                *)

RunStates ==
    [pc : {"none", "boot", "sdk", "land", "clear", "unlink", "refund", "rewrite"},
     h : Handlers \cup {None}, req : Ids \cup {None},
     left : 0 .. SdkMax + LandMax, was : 0 .. MaxAttempts]

RestTyped ==
    /\ request \in Requests \cup {NoRequest}
    /\ lock \in 0 .. LockStale
    /\ due \in 0 .. Period
    /\ run \in [Runs -> RunStates]
    /\ ticks \in 0 .. AuditGap
    /\ faults \in 0 .. MaxFaults

LEMMA TypeParts == TypeOK <=> cursor \in 0 .. N - 1 /\ LedgerTyped /\ RestTyped
  BY DEF TypeOK, LedgerTyped, RestTyped, RunStates, Rows

RunInv == RestTyped /\ RunsFit /\ WritersAgree

LEMMA NoRunTyped == NoRun \in RunStates /\ ~(NoRun.pc \in {"unlink", "rewrite"})
  BY RunnerAssumption DEF NoRun, RunStates

(* No run comes to the point of writing, and the file stays: the writers   *)
(* still agree.                                                            *)
LEMMA WritersStay ==
    ASSUME WritersAgree, UNCHANGED request,
           \A s \in Runs : Writing(s)' => Writing(s) /\ run'[s].req = run[s].req
    PROVE  WritersAgree'
  BY DEF WritersAgree

LEMMA DispatchKeeps ==
    ASSUME RunInv, NEW h \in Handlers, NEW req \in Ids \cup {None}, Dispatch(h, req)
    PROVE  /\ run' \in [Runs -> RunStates] /\ RunsFit'
           /\ lock' \in 0 .. LockStale /\ faults' \in 0 .. MaxFaults
           /\ \A s \in Runs : Writing(s)' => Writing(s) /\ run'[s].req = run[s].req
<1> USE RunnerAssumption DEF RunInv, RestTyped
<1> DEFINE new == [pc |-> "boot", h |-> h, req |-> req, left |-> SdkMax, was |-> 0]
<1>1. CASE \E s \in Runs : run' = [run EXCEPT ![s] = new] /\ lock' = LockStale
                             /\ UNCHANGED faults
  <2>1. PICK s \in Runs : run' = [run EXCEPT ![s] = new] BY <1>1
  <2>2. new \in RunStates BY DEF RunStates
  <2>3. /\ new.pc = "boot" /\ new.left = SdkMax
        /\ \A t \in Runs : run'[t] = IF t = s THEN new ELSE run[t]
    BY <2>1
  <2>4. run' \in [Runs -> RunStates] BY <2>1, <2>2
  <2>5. RunsFit' BY <2>3 DEF RunsFit, Writing
  <2> QED BY <1>1, <2>3, <2>4, <2>5 DEF Writing
<1>2. CASE Fault("spawn") /\ lock' = 0 /\ UNCHANGED run
  BY <1>2 DEF Fault, RunsFit, Writing
<1> QED BY <1>1, <1>2 DEF Dispatch

(* A run changes its phase or ends, without reaching a write.              *)
LEMMA PhaseKeeps ==
    ASSUME RunInv, NEW s \in Runs, NEW r \in RunStates,
           run' = [run EXCEPT ![s] = r], UNCHANGED request,
           r.pc \in {"boot", "sdk"} => r.left <= SdkMax,
           r.pc \notin {"unlink", "rewrite"}
    PROVE  run' \in [Runs -> RunStates] /\ RunsFit' /\ WritersAgree'
<1> USE DEF RunInv, RestTyped
<1>1. run' \in [Runs -> RunStates] OBVIOUS
<1>2. \A t \in Runs : run'[t] = IF t = s THEN r ELSE run[t] OBVIOUS
<1>3. RunsFit' BY <1>2 DEF RunsFit, Writing
<1>4. WritersAgree' BY <1>2, WritersStay DEF Writing
<1> QED BY <1>1, <1>3, <1>4

(* A run is about to write: it has just read its own request.              *)
LEMMA WriterKeeps ==
    ASSUME RunInv, NEW s \in Runs, Mine(s), UNCHANGED request, NEW r \in RunStates,
           run' = [run EXCEPT ![s] = r], r.req = run[s].req,
           r.pc \in {"unlink", "rewrite"}, r.pc = "rewrite" => r.was > 0
    PROVE  run' \in [Runs -> RunStates] /\ RunsFit' /\ WritersAgree'
<1> USE DEF RunInv, RestTyped
<1>1. run' \in [Runs -> RunStates] OBVIOUS
<1>2. \A t \in Runs : run'[t] = IF t = s THEN r ELSE run[t] OBVIOUS
<1>3. run[s].req \in Ids BY DEF Mine, RunStates
<1>4. RunsFit' BY <1>2, <1>3 DEF RunsFit, Writing
<1>5. request.id = run[s].req /\ request.id # None BY DEF Mine
<1>6. ASSUME ~Races, NEW t \in Runs, Writing(t) PROVE run[t].req = run[s].req
  BY <1>5, <1>6 DEF WritersAgree
<1>7. WritersAgree'
  <2> SUFFICES ASSUME ~Races, NEW t \in Runs, Writing(t)'
               PROVE  /\ request'.id \in {run'[t].req, None}
                      /\ \A u \in Runs : Writing(u)' => run'[u].req = run'[t].req
    BY DEF WritersAgree
  <2>1. \A u \in Runs : Writing(u)' => run'[u].req = run[s].req
    BY <1>2, <1>6 DEF Writing
  <2> QED BY <2>1, <1>5
<1> QED BY <1>1, <1>4, <1>7

(* A run has written: what it leaves is its own request or nothing.        *)
LEMMA WrittenKeeps ==
    ASSUME RunInv, NEW s \in Runs, Writing(s), run' = [run EXCEPT ![s] = NoRun],
           request'.id \in {run[s].req, None}
    PROVE  run' \in [Runs -> RunStates] /\ RunsFit' /\ WritersAgree'
<1> USE DEF RunInv, RestTyped
<1>1. run' \in [Runs -> RunStates] BY NoRunTyped
<1>2. \A t \in Runs : run'[t] = IF t = s THEN NoRun ELSE run[t] OBVIOUS
<1>3. RunsFit' BY <1>2, NoRunTyped DEF RunsFit, Writing, NoRun
<1>4. WritersAgree' BY <1>2, NoRunTyped DEF WritersAgree, Writing
<1> QED BY <1>1, <1>3, <1>4

LEMMA GoesKeeps ==
    ASSUME RunInv, NEW s \in Runs, NEW pc \in {"sdk", "land", "clear", "refund"},
           NEW left \in 0 .. SdkMax + LandMax, pc = "sdk" => left <= SdkMax,
           Goes(s, pc, left), UNCHANGED request
    PROVE  run' \in [Runs -> RunStates] /\ RunsFit' /\ WritersAgree'
<1> DEFINE r == [run[s] EXCEPT !.pc = pc, !.left = left]
<1>1. run[s] \in RunStates BY DEF RunInv, RestTyped
<1>2. r \in RunStates /\ r.pc = pc /\ r.left = left BY <1>1 DEF RunStates
<1>3. run' = [run EXCEPT ![s] = r] BY DEF Goes, RunInv, RestTyped
<1> HIDE DEF r
<1> QED BY <1>2, <1>3, PhaseKeeps

LEMMA EndsKeeps ==
    ASSUME RunInv, NEW s \in Runs, Ends(s), UNCHANGED request
    PROVE  run' \in [Runs -> RunStates] /\ RunsFit' /\ WritersAgree'
<1>1. NoRun.pc \notin {"boot", "sdk", "unlink", "rewrite"} BY DEF NoRun
<1> QED BY <1>1, NoRunTyped, PhaseKeeps DEF Ends

-----------------------------------------------------------------------------
(* The invariant holds at the start and every step keeps it                *)

LEMMA InvParts ==
    IInv <=> cursor \in 0 .. N - 1 /\ LedgerTyped /\ CountedBehind /\ RunInv
  BY TypeParts DEF IInv, RunInv

LEMMA InvInit == Init => IInv
<1> SUFFICES ASSUME Init PROVE IInv OBVIOUS
<1> USE RunnerAssumption DEF Init
<1>1. cursor \in 0 .. N - 1 BY OrderFacts
<1>2. LedgerTyped BY DEF LedgerTyped, NoBench, Rows
<1>3. CountedBehind BY DEF CountedBehind
<1>4. RestTyped BY NoRunTyped DEF RestTyped
<1>5. RunsFit /\ WritersAgree BY DEF RunsFit, WritersAgree, Writing, NoRun
<1> QED BY <1>1, <1>2, <1>3, <1>4, <1>5, InvParts DEF RunInv

(* A tick that changes the request finds no run about to write, unless the *)
(* races are allowed.                                                      *)
LEMMA UndisturbedKeeps ==
    ASSUME RunInv, Undisturbed,
           \A s \in Runs : Writing(s)' => Writing(s) /\ run'[s].req = run[s].req
    PROVE  WritersAgree'
  BY DEF Undisturbed, WritersAgree

LEMMA TickKeeps ==
    ASSUME IInv, Ticking
    PROVE  IInv'
<1> USE RunnerAssumption
<1>0. cursor \in 0 .. N - 1 /\ LedgerTyped /\ CountedBehind /\ RunInv BY InvParts
<1>1. \A t : NextTick(t) /\ t \in 0 .. Period => due' \in 0 .. Period /\ ticks' \in 0 .. AuditGap
  BY <1>0 DEF NextTick, RunInv, RestTyped
<1>2. CASE TickSkips
  <2>1. LedgerTyped' /\ CountedBehind' /\ cursor' \in 0 .. N - 1
    BY <1>0, <1>2 DEF TickSkips, LedgerTyped, CountedBehind
  <2>2. RestTyped' BY <1>0, <1>1, <1>2 DEF TickSkips, RunInv, RestTyped
  <2>3. RunsFit' /\ WritersAgree'
    BY <1>0, <1>2 DEF TickSkips, RunInv, RunsFit, WritersAgree, Writing
  <2> QED BY <2>1, <2>2, <2>3
       DEF IInv, TypeOK, LedgerTyped, RestTyped, RunStates, RunInv, Rows
<1>3. CASE TickServesRequest
  <2>1. LedgerTyped' /\ CountedBehind' /\ cursor' \in 0 .. N - 1
    BY <1>0, <1>3 DEF TickServesRequest, LedgerTyped, CountedBehind
  <2>2. request \in Requests /\ request.attempts < MaxAttempts
    BY <1>0, <1>3 DEF TickServesRequest, RunInv, RestTyped
  <2>3. request' \in Requests /\ request.id \in Ids
    BY <1>3, <2>2 DEF TickServesRequest, Charged, Requests
  <2>4. Dispatch(K, request.id) BY <1>3 DEF TickServesRequest
  <2>5. /\ run' \in [Runs -> RunStates] /\ RunsFit'
        /\ lock' \in 0 .. LockStale /\ faults' \in 0 .. MaxFaults
        /\ \A s \in Runs : Writing(s)' => Writing(s) /\ run'[s].req = run[s].req
    BY <1>0, <2>3, <2>4, DispatchKeeps
  <2>6. WritersAgree' BY <1>0, <1>3, <2>5, UndisturbedKeeps DEF TickServesRequest
  <2>7. RestTyped' BY <1>1, <1>3, <2>3, <2>5 DEF TickServesRequest, RestTyped
  <2> QED BY <2>1, <2>5, <2>6, <2>7
       DEF IInv, TypeOK, LedgerTyped, RestTyped, RunStates, RunInv, Rows
<1>4. CASE TickRotates
  <2>1. PICK idle \in SUBSET (Handlers \ Steady), steps \in 1 .. N :
           /\ Rotate(steps)
           /\ IF PassedOver(At(steps), idle)
              THEN UNCHANGED <<run, lock, faults>>
              ELSE Dispatch(At(steps), None)
    BY <1>4 DEF TickRotates
  <2>2. LedgerTyped' /\ CountedBehind' /\ cursor' \in 0 .. N - 1
    BY <1>0, <2>1, RotateKeeps
  <2>3. request' \in Requests \cup {NoRequest}
    BY <1>0, <1>4 DEF TickRotates, RunInv, RestTyped
  <2>4. At(steps) \in Handlers BY <1>0, OrderFacts, TurnFacts
  <2>5. /\ run' \in [Runs -> RunStates] /\ RunsFit'
        /\ lock' \in 0 .. LockStale /\ faults' \in 0 .. MaxFaults
        /\ \A s \in Runs : Writing(s)' => Writing(s) /\ run'[s].req = run[s].req
    <3>1. CASE PassedOver(At(steps), idle)
      BY <1>0, <2>1, <3>1 DEF RunInv, RestTyped, RunsFit, Writing
    <3>2. CASE ~PassedOver(At(steps), idle)
      BY <1>0, <2>1, <2>4, <3>2, DispatchKeeps
    <3> QED BY <3>1, <3>2
  <2>6. WritersAgree' BY <1>0, <1>4, <2>5, UndisturbedKeeps DEF TickRotates
  <2>7. RestTyped' BY <1>1, <1>4, <2>3, <2>5 DEF TickRotates, RestTyped
  <2> QED BY <2>2, <2>5, <2>6, <2>7
       DEF IInv, TypeOK, LedgerTyped, RestTyped, RunStates, RunInv, Rows
<1> QED BY <1>2, <1>3, <1>4 DEF Ticking

(* The state file is lost, with the daemon or without.                     *)
LEMMA TornKeeps ==
    ASSUME IInv, TickDies \/ StateLost
    PROVE  IInv' /\ \A h \in Handlers : bench'[h] <= bench[h]
<1> USE RunnerAssumption
<1>0. cursor \in 0 .. N - 1 /\ LedgerTyped /\ CountedBehind /\ RunInv BY InvParts
<1>1. LedgerTyped' /\ CountedBehind' /\ \A h \in Handlers : bench'[h] <= bench[h]
  <2>1. CASE Forgets
    <3>1. UNCHANGED since BY DEF TickDies, StateLost
    <3> QED BY <1>0, <2>1, <3>1, ForgetsKeeps
  <2>2. CASE UNCHANGED <<bench, rows>>
    <3>1. UNCHANGED since BY DEF TickDies, StateLost
    <3>2. \A h \in Handlers : bench[h] \in Int BY <1>0 DEF LedgerTyped, NoBench
    <3> QED BY <1>0, <2>2, <3>1, <3>2 DEF LedgerTyped, CountedBehind
  <2> QED BY <2>1, <2>2 DEF TickDies, StateLost
<1>2. cursor' \in 0 .. N - 1
  <2>1. ASSUME NEW steps \in 0 .. N PROVE NextCursor(steps) \in 0 .. N - 1
    <3>1. cursor + steps \in Nat BY <1>0, OrderFacts
    <3> QED BY <3>1, OrderFacts, Remainder DEF NextCursor
  <2>2. 0 \in 0 .. N - 1 BY OrderFacts
  <2> QED BY <1>0, <2>1, <2>2 DEF TickDies, StateLost
<1>3. UNCHANGED run /\ lock' \in 0 .. LockStale /\ faults' \in 0 .. MaxFaults
  BY <1>0 DEF TickDies, StateLost, Fault, RunInv, RestTyped
<1>4. due' \in 0 .. Period /\ ticks' \in 0 .. AuditGap
  BY <1>0 DEF TickDies, StateLost, NextTick, RunInv, RestTyped
<1>5. request' \in Requests \cup {NoRequest}
  <2>1. ASSUME request # NoRequest, ~GivenUp PROVE Charged(request) \in Requests
    <3>1. request \in Requests BY <1>0, <2>1 DEF RunInv, RestTyped
    <3>2. request.attempts \in 0 .. MaxAttempts /\ request.attempts < MaxAttempts
      BY <2>1, <3>1 DEF GivenUp, Requests
    <3>3. request.attempts + 1 \in 0 .. MaxAttempts BY <3>2
    <3> QED BY <3>1, <3>3 DEF Charged, Requests
  <2> QED BY <1>0, <2>1 DEF TickDies, StateLost, RunInv, RestTyped
<1>6. RestTyped' BY <1>0, <1>3, <1>4, <1>5 DEF RunInv, RestTyped
<1>7. RunsFit' BY <1>0, <1>3 DEF RunInv, RunsFit, Writing
<1>8. WritersAgree'
  <2>1. CASE TickDies
    BY <1>0, <1>3, <2>1, UndisturbedKeeps DEF TickDies, Writing
  <2>2. CASE StateLost
    BY <1>0, <1>3, <2>2 DEF StateLost, RunInv, WritersAgree, Writing
  <2> QED BY <2>1, <2>2
<1> QED BY <1>1, <1>2, <1>6, <1>7, <1>8
     DEF IInv, TypeOK, LedgerTyped, RestTyped, RunStates, RunInv, Rows

(* The audit, the end of a request's life, and time.                       *)
LEMMA WorldKeeps ==
    ASSUME IInv, Audit \/ RequestExpires \/ TimePasses \/ CronCatchesUp
    PROVE  IInv'
<1> USE RunnerAssumption
<1>0. cursor \in 0 .. N - 1 /\ LedgerTyped /\ CountedBehind /\ RunInv BY InvParts
<1>1. LedgerTyped' /\ CountedBehind' /\ cursor' \in 0 .. N - 1
  BY <1>0 DEF Audit, RequestExpires, TimePasses, CronCatchesUp, LedgerTyped, CountedBehind
<1>2. CASE Audit \/ RequestExpires
  <2>1. request' \in Requests \cup {NoRequest}
    <3>1. \A i \in Ids : [id |-> i, attempts |-> 0] \in Requests BY DEF Requests
    <3> QED BY <1>2, <3>1 DEF Audit, RequestExpires
  <2>2. RestTyped' BY <1>0, <1>2, <2>1 DEF Audit, RequestExpires, RunInv, RestTyped
  <2>3. UNCHANGED run /\ Undisturbed BY <1>2 DEF Audit, RequestExpires
  <2>4. RunsFit' /\ WritersAgree'
    BY <1>0, <2>3, UndisturbedKeeps DEF RunInv, RunsFit, Writing
  <2> QED BY <1>1, <2>2, <2>4
       DEF IInv, TypeOK, LedgerTyped, RestTyped, RunStates, RunInv, Rows
<1>3. CASE CronCatchesUp
  <2>1. RestTyped'
    BY <1>0, <1>3 DEF CronCatchesUp, Fault, RunInv, RestTyped
  <2>2. RunsFit' /\ WritersAgree'
    BY <1>0, <1>3 DEF CronCatchesUp, RunInv, RunsFit, WritersAgree, Writing
  <2> QED BY <1>1, <2>1, <2>2
       DEF IInv, TypeOK, LedgerTyped, RestTyped, RunStates, RunInv, Rows
<1>4. CASE TimePasses
  <2>1. ASSUME NEW s \in Runs
        PROVE  /\ run'[s] \in RunStates
               /\ run'[s].pc = run[s].pc /\ run'[s].req = run[s].req
               /\ run'[s].pc \in {"boot", "sdk"} => run'[s].left <= SdkMax
               /\ run'[s].was = run[s].was
    <3>1. run[s] \in RunStates BY <1>0 DEF RunInv, RestTyped
    <3>2. run'[s] = IF run[s] = NoRun THEN NoRun ELSE [run[s] EXCEPT !.left = @ - 1]
      BY <1>4 DEF TimePasses
    <3>3. CASE run[s] = NoRun BY <3>1, <3>2, <3>3 DEF NoRun
    <3>4. CASE run[s] # NoRun
      <4>1. run[s].left > 0 /\ run[s].left \in 0 .. SdkMax + LandMax
        BY <1>4, <3>1, <3>4 DEF TimePasses, Lasting, RunStates
      <4>2. run[s].left - 1 \in 0 .. SdkMax + LandMax BY <4>1
      <4>3. run'[s] = [run[s] EXCEPT !.left = run[s].left - 1] BY <3>2, <3>4
      <4>4. run'[s] \in RunStates BY <3>1, <4>2, <4>3 DEF RunStates
      <4>5. /\ run'[s].pc = run[s].pc /\ run'[s].req = run[s].req
            /\ run'[s].was = run[s].was /\ run'[s].left = run[s].left - 1
        BY <3>1, <4>3 DEF RunStates
      <4>6. run'[s].pc \in {"boot", "sdk"} => run[s].left <= SdkMax
        BY <1>0, <4>5 DEF RunInv, RunsFit
      <4> QED BY <4>1, <4>4, <4>5, <4>6
    <3> QED BY <3>3, <3>4
  <2>2. run' \in [Runs -> RunStates] BY <1>4, <2>1 DEF TimePasses
  <2>3. due' \in 0 .. Period /\ lock' \in 0 .. LockStale
    BY <1>0, <1>4 DEF TimePasses, RunInv, RestTyped
  <2>4. RestTyped' BY <1>0, <1>4, <2>2, <2>3 DEF TimePasses, RunInv, RestTyped
  <2>5. RunsFit' BY <1>0, <2>1 DEF RunInv, RunsFit, Writing
  <2>6. WritersAgree'
    BY <1>0, <1>4, <2>1, WritersStay DEF TimePasses, RunInv, Writing
  <2> QED BY <1>1, <2>4, <2>5, <2>6
       DEF IInv, TypeOK, LedgerTyped, RestTyped, RunStates, RunInv, Rows
<1> QED BY <1>2, <1>3, <1>4

(* A run, and its end.                                                     *)
LEMMA RunKeeps ==
    ASSUME IInv, NEW s \in Runs, RunSteps(s) \/ RunKilled(s)
    PROVE  IInv'
<1> USE RunnerAssumption
<1>0. cursor \in 0 .. N - 1 /\ LedgerTyped /\ CountedBehind /\ RunInv BY InvParts
<1>1. cursor' = cursor /\ bench' = bench /\ lock' = lock /\ due' = due /\ ticks' = ticks
  BY DEF RunSteps, RunBacklogged, RunCannotStart, RunStarts, RunSucceeds, RunFails,
         RunDeferred, RunLanded, RunClears, RunUnlinks, RunRefunds, RunRewrites, RunKilled
<1>2. faults' \in 0 .. MaxFaults
  BY <1>0 DEF RunSteps, RunBacklogged, RunCannotStart, RunStarts, RunSucceeds, RunFails,
         RunDeferred, RunLanded, RunClears, RunUnlinks, RunRefunds, RunRewrites, RunKilled,
         Fault, RunInv, RestTyped
<1>3. LedgerTyped' /\ CountedBehind'
  <2>1. CASE UNCHANGED <<rows, since>>
    BY <1>0, <1>1, <2>1 DEF LedgerTyped, CountedBehind
  <2>2. UNCHANGED <<rows, since>> \/ Record(run[s].h, "ok") \/ Record(run[s].h, "fail")
        \/ Record(K, "ok")
    BY DEF RunSteps, RunBacklogged, RunCannotStart, RunStarts, RunSucceeds, RunFails,
           RunDeferred, RunLanded, RunClears, RunUnlinks, RunRefunds, RunRewrites, RunKilled
  <2>3. \A h : \A row \in {"ok", "fail"} : Record(h, row) => LedgerTyped' /\ CountedBehind'
    BY <1>0, <1>1, RecordKeeps
  <2> QED BY <2>1, <2>2, <2>3
<1>4. run[s] \in RunStates /\ run[s].left \in 0 .. SdkMax + LandMax
  BY <1>0 DEF RunInv, RestTyped, RunStates
<1>5. /\ run' \in [Runs -> RunStates] /\ RunsFit' /\ WritersAgree'
      /\ request' \in Requests \cup {NoRequest}
  <2>0. request \in Requests \cup {NoRequest} BY <1>0 DEF RunInv, RestTyped
  <2>1. CASE Ends(s) /\ UNCHANGED request BY <1>0, <2>0, <2>1, EndsKeeps
  <2>2. ASSUME NEW pc \in {"sdk", "land", "clear", "refund"},
               NEW left \in 0 .. SdkMax + LandMax, pc = "sdk" => left <= SdkMax,
               Goes(s, pc, left), UNCHANGED request
        PROVE  /\ run' \in [Runs -> RunStates] /\ RunsFit' /\ WritersAgree'
               /\ request' \in Requests \cup {NoRequest}
    BY <1>0, <2>0, <2>2, GoesKeeps
  <2>3. CASE RunStarts(s)
    <3>1. run[s].left <= SdkMax BY <1>0, <2>3 DEF RunStarts, RunInv, RunsFit
    <3> QED BY <1>4, <2>2, <2>3, <3>1 DEF RunStarts
  <2>4. CASE RunSucceeds(s)
    <3>1. run[s].left <= SdkMax BY <1>0, <2>4 DEF RunSucceeds, RunInv, RunsFit
    <3>2. run[s].left + LandMax \in 0 .. SdkMax + LandMax BY <1>4, <3>1
    <3>3. UNCHANGED request BY <2>4 DEF RunSucceeds
    <3>4. Goes(s, "clear", run[s].left) \/ Goes(s, "land", run[s].left + LandMax)
      BY <2>4 DEF RunSucceeds
    <3> QED BY <1>4, <2>2, <3>2, <3>3, <3>4
  <2>5. CASE RunDeferred(s) BY <1>4, <2>2, <2>5 DEF RunDeferred
  <2>6. CASE RunLanded(s) BY <1>4, <2>2, <2>6 DEF RunLanded
  <2>7. CASE RunClears(s)
    <3>1. CASE ~Mine(s) BY <2>1, <2>7, <3>1 DEF RunClears
    <3>2. CASE Mine(s)
      <4> DEFINE r == [run[s] EXCEPT !.pc = "unlink", !.left = run[s].left]
      <4>1. r \in RunStates /\ r.pc = "unlink" /\ r.req = run[s].req
        BY <1>4 DEF RunStates
      <4>2. run' = [run EXCEPT ![s] = r] /\ UNCHANGED request
        BY <1>0, <2>7, <3>2 DEF RunClears, Goes, RunInv, RestTyped
      <4> HIDE DEF r
      <4> QED BY <1>0, <2>0, <3>2, <4>1, <4>2, WriterKeeps
    <3> QED BY <3>1, <3>2
  <2>8. CASE RunRefunds(s)
    <3>1. CASE ~(Mine(s) /\ request.attempts > 0)
      BY <2>1, <2>8, <3>1 DEF RunRefunds
    <3>2. CASE Mine(s) /\ request.attempts > 0
      <4> DEFINE r == [run[s] EXCEPT !.pc = "rewrite", !.was = request.attempts]
      <4>0. request.attempts \in 0 .. MaxAttempts BY <2>0 DEF Requests, NoRequest
      <4>1. r \in RunStates /\ r.pc = "rewrite" /\ r.req = run[s].req /\ r.was > 0
        BY <1>4, <3>2, <4>0 DEF RunStates
      <4>2. run' = [run EXCEPT ![s] = r] /\ UNCHANGED request
        BY <1>0, <2>8, <3>2 DEF RunRefunds, RunInv, RestTyped
      <4> HIDE DEF r
      <4> QED BY <1>0, <2>0, <3>2, <4>1, <4>2, WriterKeeps
    <3> QED BY <3>1, <3>2
  <2>9. CASE RunUnlinks(s)
    <3>1. Writing(s) /\ request'.id = None /\ request' \in {NoRequest}
      BY <2>9 DEF RunUnlinks, Writing, NoRequest
    <3> QED BY <1>0, <2>9, <3>1, WrittenKeeps DEF RunUnlinks, Ends
  <2>10. CASE RunRewrites(s)
    <3>1. Writing(s) /\ run[s].was > 0 /\ run[s].req \in Ids
      BY <1>0, <2>10 DEF RunRewrites, Writing, RunInv, RunsFit
    <3>2. run[s].was - 1 \in 0 .. MaxAttempts BY <1>4, <3>1 DEF RunStates
    <3>3. request' \in Requests /\ request'.id = run[s].req
      BY <2>10, <3>1, <3>2 DEF RunRewrites, Requests
    <3> QED BY <1>0, <2>10, <3>1, <3>3, WrittenKeeps DEF RunRewrites, Ends
  <2>11. CASE RunBacklogged(s) \/ RunCannotStart(s) \/ RunFails(s) \/ RunKilled(s)
    BY <2>1, <2>11 DEF RunBacklogged, RunCannotStart, RunFails, RunKilled
  <2> QED BY <2>3, <2>4, <2>5, <2>6, <2>7, <2>8, <2>9, <2>10, <2>11 DEF RunSteps
<1>6. RestTyped' BY <1>0, <1>1, <1>2, <1>5 DEF RunInv, RestTyped
<1> QED BY <1>0, <1>1, <1>3, <1>5, <1>6
     DEF IInv, TypeOK, LedgerTyped, RestTyped, RunStates, RunInv, Rows

LEMMA InvStep == IInv /\ [Next]_vars => IInv'
<1> SUFFICES ASSUME IInv, [Next]_vars PROVE IInv' OBVIOUS
<1>1. CASE UNCHANGED vars
  BY <1>1 DEF vars, IInv, TypeOK, RunsFit, CountedBehind, WritersAgree, Writing
<1>2. CASE Next BY <1>2, TickKeeps, TornKeeps, WorldKeeps, RunKeeps DEF Next
<1> QED BY <1>1, <1>2

LEMMA InvAlways == Spec => []IInv
  BY InvInit, InvStep, PTL DEF Spec

-----------------------------------------------------------------------------
(* The theorems                                                            *)

(* The rotation, the benches, the ledger, the request and the runs stay in *)
(* their types: the cursor in the rotation, attempts within their limit.   *)
THEOREM RunnerTypeCorrect == Spec => []TypeOK
  BY InvAlways, PTL DEF IInv

(* A handler goes on the bench only for failures none of which has put it  *)
(* there before (hasFailureStreak and its watermark), except those whose   *)
(* bench was lost with the state file (readAdaptive).                      *)
THEOREM StrikesCountOnce == Spec => FailureBenchesOnce
<1> DEFINE Fresh == \A h \in Handlers :
                      bench'[h] > bench[h] =>
                         \A i \in Last : rows[h][i] \in {"fail", "forgotten"}
<1>1. ASSUME IInv, [Next]_vars PROVE [Fresh]_vars
  <2>1. CASE TickRotates
    <3>1. LedgerTyped /\ CountedBehind /\ cursor \in 0 .. N - 1 BY <1>1, InvParts
    <3>2. PICK steps \in 1 .. N : Rotate(steps) BY <2>1 DEF TickRotates
    <3>3. ASSUME NEW h \in Handlers, bench'[h] > bench[h] PROVE Strikes(h)
      BY <3>1, <3>2, <3>3, RotateKeeps
    <3> QED BY <3>1, <3>3, StrikesFresh
  <2>2. CASE UNCHANGED bench
    <3>1. \A h \in Handlers : bench[h] \in Int
      BY <1>1, InvParts, RunnerAssumption DEF LedgerTyped, NoBench
    <3> QED BY <2>2, <3>1
  <2>3. CASE TickDies \/ StateLost
    <3>1. \A h \in Handlers : bench[h] \in Int /\ bench'[h] \in Int /\ bench'[h] <= bench[h]
      BY <1>1, <2>3, TornKeeps, InvParts, RunnerAssumption DEF LedgerTyped, NoBench, IInv, TypeOK
    <3> QED BY <3>1
  <2>4. Next => TickRotates \/ UNCHANGED bench \/ TickDies \/ StateLost
    BY DEF Next, Ticking, TickSkips, TickServesRequest, Audit, RequestExpires, TimePasses,
           CronCatchesUp, RunSteps, RunBacklogged, RunCannotStart, RunStarts, RunSucceeds,
           RunFails, RunDeferred, RunLanded, RunClears, RunUnlinks, RunRefunds, RunRewrites,
           RunKilled
  <2> QED BY <1>1, <2>1, <2>2, <2>3, <2>4
<1> QED BY <1>1, InvAlways, PTL DEF Spec, FailureBenchesOnce

(* Where no audit writes between the read and the write of a run, a        *)
(* request that has not had its attempts leaves the file before the next   *)
(* night only for a run on it that has succeeded.                          *)
THEOREM RequestsHonoured ==
    ASSUME ~Races
    PROVE  Spec => RequestHonoured
<1> DEFINE Honoured ==
       request # NoRequest /\ request'.id # request.id
       => \/ ticks = AuditGap
          \/ request.attempts = MaxAttempts
          \/ \E s \in Runs : run[s].pc = "unlink" /\ run[s].req = request.id
<1>1. ASSUME IInv, [Next]_vars PROVE [Honoured]_vars
  <2> SUFFICES ASSUME request # NoRequest, request'.id # request.id
               PROVE  \/ ticks = AuditGap
                      \/ request.attempts = MaxAttempts
                      \/ \E s \in Runs : run[s].pc = "unlink" /\ run[s].req = request.id
    OBVIOUS
  <2>0. RunInv BY <1>1, InvParts
  <2>1. request \in Requests /\ request.id \in Ids /\ request.id # None
    BY <2>0, RunnerAssumption DEF RunInv, RestTyped, Requests
  <2>2. CASE Audit \/ RequestExpires BY <2>2 DEF Audit, RequestExpires
  <2>3. CASE TickServesRequest
    BY <2>1, <2>3 DEF TickServesRequest, Charged, Requests
  <2>4. CASE TickRotates
    <3>1. request.attempts >= MaxAttempts BY <2>4 DEF TickRotates, GivenUp
    <3> QED BY <2>1, <3>1, RunnerAssumption DEF Requests
  <2>5. ASSUME NEW s \in Runs, Writing(s) PROVE run[s].req = request.id
    BY <2>0, <2>1, <2>5 DEF RunInv, WritersAgree
  <2>6. CASE \E s \in Runs : RunUnlinks(s)
    BY <2>5, <2>6 DEF RunUnlinks, Writing
  <2>7. CASE \E s \in Runs : RunRewrites(s)
    BY <2>5, <2>7 DEF RunRewrites, Writing
  <2>8. CASE TickDies
    <3>1. request' \in {request, Charged(request)} \/ GivenUp BY <2>8 DEF TickDies
    <3>2. Charged(request).id = request.id BY <2>1 DEF Charged, Requests
    <3> QED BY <2>1, <3>1, <3>2, RunnerAssumption DEF GivenUp, Requests
  <2>9. Next => \/ Audit \/ RequestExpires \/ TickServesRequest \/ TickRotates
                \/ UNCHANGED request \/ TickDies
                \/ \E s \in Runs : RunUnlinks(s) \/ RunRewrites(s)
    BY DEF Next, Ticking, TickSkips, TimePasses, CronCatchesUp, RunSteps, RunBacklogged,
           RunCannotStart, RunStarts, RunSucceeds, RunFails, RunDeferred, RunLanded,
           RunClears, RunRefunds, RunKilled, StateLost
  <2> QED BY <1>1, <2>2, <2>3, <2>4, <2>6, <2>7, <2>8, <2>9 DEF vars
<1> QED BY <1>1, InvAlways, PTL DEF Spec, RequestHonoured
=============================================================================
