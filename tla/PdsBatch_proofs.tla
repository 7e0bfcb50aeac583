--------------------------- MODULE PdsBatch_proofs ---------------------------
(***************************************************************************)
(* The worker pool of fpga_pds_batch, for every batch, every number of     *)
(* workers and every asked parallelism: its invariants, and that it        *)
(* implements BatchContract.                                               *)
(***************************************************************************)
EXTENDS PdsBatch, FiniteSetTheorems, TLAPS

\* What ties the cursor, the workers and the slots together.  A slot below
\* the cursor was taken once and is either awaited or settled; a slot at or
\* above it is untouched; a worker returns only when the cursor is past the
\* end.
CursorInv ==
  /\ \A i \in Slots : runs[i] = IF i < cursor THEN 1 ELSE 0
  /\ \A i \in Slots : i >= cursor => envelope[i] = "empty"
  /\ \A i \in Slots : i < cursor => envelope[i] # "empty" \/ \E w \in Workers : task[w] = i
  /\ \A w \in Workers : task[w] # 0 => task[w] < cursor /\ envelope[task[w]] = "empty"
  /\ \A v, w \in Workers : v # w /\ task[v] # 0 => task[v] # task[w]
  /\ \A w \in Workers : w > Parallel => task[w] = 0

OutcomeInv ==
  \A i \in Slots : /\ envelope[i] = "empty" <=> outcome[i] = "none"
                   /\ envelope[i] = "ok" <=> outcome[i] = "ok"

PhaseInv ==
  /\ phase \in {"validate", "rejected"} =>
       /\ cursor = 1
       /\ \A w \in Workers : task[w] = 0
  /\ phase \in {"running", "returned"} =>
       /\ Valid(req)
       /\ \A w \in 1..Parallel : task[w] = 0 => cursor > N
  /\ phase = "returned" <=> result.given
  /\ phase = "returned" =>
       /\ \A w \in Workers : task[w] = 0
       /\ result.failed = {i \in Slots : envelope[i] # "ok"}

PoolInv == TypeOK /\ CursorInv /\ OutcomeInv /\ PhaseInv

-----------------------------------------------------------------------------
(* The number of workers started. *)

\* At least one worker starts for a batch that validation admits, and never
\* more than the caller, the tool or the batch allow.
LEMMA ParallelBounds ==
  ASSUME TypeOK
  PROVE  /\ Parallel \in Nat
         /\ Parallel <= asked /\ Parallel <= MaxParallel /\ Parallel <= N
         /\ Valid(req) => Parallel >= 1
         /\ N \in Nat /\ asked \in Nat
BY BatchAssumption DEF TypeOK, Parallel, N, Valid

-----------------------------------------------------------------------------
(* PoolInv is inductive. *)

LEMMA InitPool == Init => PoolInv
<1> SUFFICES ASSUME Init PROVE PoolInv
  OBVIOUS
<1>1. TypeOK
  BY BatchAssumption DEF Init, TypeOK, Slots, Workers, N
<1> QED
  BY <1>1, ParallelBounds, BatchAssumption
  DEF Init, PoolInv, CursorInv, OutcomeInv, PhaseInv, Slots, Workers, N

LEMMA RejectPool == PoolInv /\ Reject => PoolInv'
BY DEF Reject, PoolInv, TypeOK, CursorInv, OutcomeInv, PhaseInv, Slots, Workers, N, Parallel, Valid

\* The first synchronous turn hands slot w to worker w.
LEMMA StartPool == PoolInv /\ StartWorkers => PoolInv'
<1> SUFFICES ASSUME PoolInv, StartWorkers PROVE PoolInv'
  OBVIOUS
<1>0. /\ Parallel \in Nat /\ Parallel <= MaxParallel /\ Parallel <= N /\ N \in Nat
      /\ Parallel >= 1 /\ Parallel' = Parallel /\ N' = N /\ Slots' = Slots
  BY ParallelBounds DEF PoolInv, StartWorkers, Parallel, N, Slots
<1>1. TypeOK'
  BY <1>0, BatchAssumption DEF PoolInv, StartWorkers, TypeOK, Slots, Workers
<1>2. CursorInv'
  <2>1. \A i \in Slots : envelope'[i] = "empty"
    BY <1>0 DEF PoolInv, StartWorkers, CursorInv, PhaseInv, Slots
  <2>2. /\ cursor' = Parallel + 1
        /\ \A w \in Workers : task'[w] = IF w <= Parallel THEN w ELSE 0
        /\ \A i \in Slots : runs'[i] = IF i <= Parallel THEN 1 ELSE 0
    BY <1>0 DEF StartWorkers
  <2>3. \A i \in Slots : i < cursor' => i \in Workers /\ task'[i] = i
    BY <1>0, <2>2, BatchAssumption DEF Slots, Workers
  <2>4. \A w \in Workers : task'[w] # 0 => w \in Slots /\ task'[w] = w /\ w < cursor'
    BY <1>0, <2>2, BatchAssumption DEF Slots, Workers
  <2>5. Workers' = Workers
    BY DEF Workers
  <2>6. \A i \in Slots : runs'[i] = IF i < cursor' THEN 1 ELSE 0
    BY <1>0, <2>2 DEF Slots
  <2>7. \A w \in Workers : w > Parallel => task'[w] = 0
    BY <1>0, <2>2, BatchAssumption DEF Workers
  <2> QED
    BY <1>0, <2>1, <2>3, <2>4, <2>5, <2>6, <2>7 DEF CursorInv
<1>3. OutcomeInv'
  BY <1>0 DEF PoolInv, StartWorkers, OutcomeInv
<1>4. PhaseInv'
  BY <1>0, BatchAssumption DEF PoolInv, StartWorkers, PhaseInv, Valid, Workers, TypeOK
<1> QED
  BY <1>1, <1>2, <1>3, <1>4 DEF PoolInv

\* A settling build fills the slot its worker held; the worker takes the slot
\* under the cursor or returns.
LEMMA SettlePool ==
  ASSUME NEW w \in Workers, PoolInv, Settle(w)
  PROVE  PoolInv'
<1> DEFINE s == task[w]
<1>0. /\ Parallel \in Nat /\ N \in Nat /\ cursor \in Nat \ {0} /\ s \in Slots /\ s < cursor
      /\ Parallel' = Parallel /\ N' = N /\ Slots' = Slots /\ Workers' = Workers
  <2>1. Parallel \in Nat /\ N \in Nat
    BY ParallelBounds DEF PoolInv
  <2>2. cursor \in Nat \ {0} /\ s \in Slots /\ s < cursor
    BY <2>1 DEF PoolInv, TypeOK, CursorInv, Settle, Slots
  <2>3. Parallel' = Parallel /\ N' = N /\ Slots' = Slots /\ Workers' = Workers
    BY DEF Settle, Parallel, N, Slots, Workers
  <2> QED
    BY <2>1, <2>2, <2>3
<1>a. /\ envelope'[s] # "empty"
      /\ \A i \in Slots : i # s => envelope'[i] = envelope[i]
  BY <1>0 DEF PoolInv, TypeOK, Settle
<1>b. cursor' = cursor + 1
  BY DEF Settle
<1>c. /\ \A v \in Workers : v # w => task'[v] = task[v]
      /\ task'[w] = IF cursor <= N THEN cursor ELSE 0
  BY DEF PoolInv, TypeOK, Settle
<1>d. \A i \in Slots : runs'[i] = IF i = cursor THEN runs[i] + 1 ELSE runs[i]
  BY <1>0 DEF PoolInv, TypeOK, Settle, Slots
<1>1. TypeOK'
  <2>1. runs' \in [Slots -> 0..1]
    <3>1. cursor <= N => runs[cursor] = 0
      BY <1>0 DEF PoolInv, CursorInv, Slots
    <3> QED
      BY <3>1, <1>0 DEF PoolInv, TypeOK, Settle, Slots
  <2>2. task' \in [Workers -> 0..N]
    BY <1>0 DEF PoolInv, TypeOK, Settle
  <2>3. envelope' \in [Slots -> {"empty", "ok", "fail"}] /\ cursor' \in Nat \ {0}
    BY <1>0 DEF PoolInv, TypeOK, Settle
  <2>4. outcome' \in [Slots -> {"none", "ok", "fail", "throw"}]
    BY <1>0 DEF PoolInv, TypeOK, Settle
  <2> QED
    BY <1>0, <2>1, <2>2, <2>3, <2>4 DEF PoolInv, TypeOK, Settle
<1>2. CursorInv'
  <2>1. \A i \in Slots : runs'[i] = IF i < cursor' THEN 1 ELSE 0
    BY <1>0, <1>b, <1>d DEF PoolInv, CursorInv, Slots
  <2>2. \A i \in Slots : i >= cursor' => envelope'[i] = "empty"
    BY <1>0, <1>a, <1>b DEF PoolInv, CursorInv, Slots
  <2>3. ASSUME NEW i \in Slots, i < cursor', envelope'[i] = "empty"
        PROVE  \E v \in Workers : task'[v] = i
    <3>1. CASE i = cursor
      BY <3>1, <1>0, <1>c DEF Slots
    <3>2. CASE i # cursor
      <4>1. i < cursor /\ i # s /\ envelope[i] = "empty"
        BY <2>3, <3>2, <1>0, <1>a, <1>b DEF Slots
      <4>2. PICK v \in Workers : task[v] = i
        BY <4>1 DEF PoolInv, CursorInv
      <4> QED
        BY <4>1, <4>2, <1>c
    <3> QED
      BY <3>1, <3>2
  <2>4. ASSUME NEW v \in Workers, task'[v] # 0
        PROVE  task'[v] < cursor' /\ envelope'[task'[v]] = "empty"
    <3>1. CASE v = w
      <4>1. task'[v] = cursor /\ cursor \in Slots
        BY <3>1, <2>4, <1>0, <1>c DEF Slots
      <4>2. envelope[cursor] = "empty" /\ cursor # s
        BY <4>1, <1>0 DEF PoolInv, CursorInv, Slots
      <4> QED
        BY <4>1, <4>2, <1>0, <1>a, <1>b
    <3>2. CASE v # w
      <4>1. task'[v] = task[v] /\ task[v] # 0 /\ task[v] # s
        BY <3>2, <2>4, <1>c DEF PoolInv, CursorInv
      <4>2. task[v] \in Slots /\ task[v] < cursor /\ envelope[task[v]] = "empty"
        BY <4>1 DEF PoolInv, TypeOK, CursorInv, Slots
      <4> QED
        BY <4>1, <4>2, <1>0, <1>a, <1>b DEF Slots
    <3> QED
      BY <3>1, <3>2
  <2>5. ASSUME NEW u \in Workers, NEW v \in Workers, u # v, task'[u] # 0
        PROVE  task'[u] # task'[v]
    <3>1. \A x \in Workers : task[x] # 0 => task[x] < cursor
      BY DEF PoolInv, CursorInv
    <3>2. \A x \in Workers : task[x] \in Nat
      BY <1>0 DEF PoolInv, TypeOK
    <3>3. CASE u = w
      BY <3>1, <3>2, <3>3, <2>5, <1>0, <1>c
    <3>4. CASE v = w
      BY <3>1, <3>2, <3>4, <2>5, <1>0, <1>c
    <3>5. CASE u # w /\ v # w
      BY <3>5, <2>5, <1>c DEF PoolInv, CursorInv
    <3> QED
      BY <3>3, <3>4, <3>5
  <2>6. \A v \in Workers : v > Parallel => task'[v] = 0
    <3>1. ~(w > Parallel)
      BY DEF PoolInv, CursorInv, Settle
    <3> QED
      BY <3>1, <1>c DEF PoolInv, CursorInv
  <2> QED
    BY <1>0, <2>1, <2>2, <2>3, <2>4, <2>5, <2>6 DEF CursorInv
<1>3. OutcomeInv'
  BY <1>0 DEF PoolInv, Settle, OutcomeInv, TypeOK
<1>4. PhaseInv'
  <2>1. phase' = "running" /\ result' = result /\ ~result'.given /\ Valid(req)'
    BY DEF PoolInv, PhaseInv, Settle, Valid
  <2>2. ASSUME NEW v \in 1..Parallel, task'[v] = 0, v \in Workers
        PROVE  cursor' > N
    <3>1. CASE v = w
      BY <3>1, <2>2, <1>0, <1>b, <1>c
    <3>2. CASE v # w
      <4>1. cursor > N
        BY <3>2, <2>2, <1>c DEF PoolInv, PhaseInv, Settle
      <4> QED
        BY <4>1, <1>0, <1>b
    <3> QED
      BY <3>1, <3>2
  <2>3. 1..Parallel \subseteq Workers
    BY ParallelBounds, BatchAssumption DEF PoolInv, Workers
  <2> QED
    BY <1>0, <2>1, <2>2, <2>3 DEF PhaseInv
<1> QED
  BY <1>1, <1>2, <1>3, <1>4 DEF PoolInv

LEMMA ReturnPool == PoolInv /\ Return => PoolInv'
BY DEF Return, PoolInv, TypeOK, CursorInv, OutcomeInv, PhaseInv, Slots, Workers, N, Parallel, Valid

LEMMA NextPool == PoolInv /\ [Next]_vars => PoolInv'
<1> SUFFICES ASSUME PoolInv, [Next]_vars PROVE PoolInv'
  OBVIOUS
<1>1. CASE UNCHANGED vars
  BY <1>1 DEF vars, PoolInv, TypeOK, CursorInv, OutcomeInv, PhaseInv, Slots, Workers, N, Parallel, Valid
<1>2. CASE Next
  BY <1>1, <1>2, RejectPool, StartPool, SettlePool, ReturnPool DEF Next, Finished
<1> QED
  BY <1>1, <1>2

\* The inductive invariant of the worker pool.
THEOREM PoolInvariant == Spec => []PoolInv
BY InitPool, NextPool, PTL DEF Spec

-----------------------------------------------------------------------------
(* What it implies. *)

\* The type invariant.
THEOREM PoolTypeOK == Spec => []TypeOK
BY PoolInvariant, PTL DEF PoolInv

LEMMA OnceFromPool == PoolInv => EachVariantOnce
<1> SUFFICES ASSUME PoolInv PROVE EachVariantOnce
  OBVIOUS
<1>1. ASSUME phase = "returned" PROVE cursor > N
  BY <1>1, ParallelBounds, BatchAssumption DEF PoolInv, PhaseInv, Workers
<1> QED
  BY <1>1, ParallelBounds DEF PoolInv, TypeOK, CursorInv, EachVariantOnce, Building, Slots

\* Every variant is built by one worker, once, and an answered batch built
\* them all (the cursor of executePdsBatch, batch.mjs:102-120).
THEOREM VariantsBuiltOnce == Spec => []EachVariantOnce
BY PoolInvariant, OnceFromPool, PTL

LEMMA HonestFromPool == PoolInv => AnswerIsHonest
<1> SUFFICES ASSUME PoolInv, result.given PROVE AnswerIsHonest
  BY DEF AnswerIsHonest
<1>1. cursor > N /\ \A w \in Workers : task[w] = 0
  BY ParallelBounds, BatchAssumption DEF PoolInv, PhaseInv, Workers
<1>2. \A i \in Slots : envelope[i] # "empty"
  BY <1>1, ParallelBounds DEF PoolInv, TypeOK, CursorInv, Slots
<1> QED
  BY <1>2 DEF PoolInv, OutcomeInv, PhaseInv, AnswerIsHonest

\* The answer names exactly the variants that did not pass.
THEOREM AnswersAreHonest == Spec => []AnswerIsHonest
BY PoolInvariant, HonestFromPool, PTL

LEMMA ParallelFromPool == PoolInv => WithinAskedParallel
<1> SUFFICES ASSUME PoolInv PROVE WithinAskedParallel
  OBVIOUS
<1>1. Parallel \in Nat /\ Parallel <= asked /\ Parallel <= N /\ asked \in Nat /\ N \in Nat
  BY ParallelBounds DEF PoolInv
<1>2. Building \subseteq 1..Parallel
  BY <1>1, BatchAssumption DEF Building, PoolInv, CursorInv, Workers
<1>3. IsFiniteSet(1..Parallel) /\ Cardinality(1..Parallel) = Parallel
  BY <1>1, FS_Interval
<1>4. Cardinality(Building) <= Parallel /\ Cardinality(Building) \in Nat
  BY <1>2, <1>3, FS_Subset, FS_CardinalityType
<1> QED
  BY <1>1, <1>4 DEF WithinAskedParallel

\* Builds in progress never exceed what was asked, nor the batch.
THEOREM ParallelismBounded == Spec => []WithinAskedParallel
BY PoolInvariant, ParallelFromPool, PTL
LEMMA DisjointFromPool == DotNames = {} /\ PoolInv => DisjointBuilds
<1> SUFFICES ASSUME DotNames = {}, PoolInv,
                    NEW v \in Building, NEW w \in Building, v # w
             PROVE  /\ ~Below(req[task[v]].dir, req[task[w]].dir)
                    /\ ~Below(req[task[w]].dir, req[task[v]].dir)
  BY DEF DisjointBuilds
<1>1. N \in Nat
  BY ParallelBounds DEF PoolInv
<1>2. task[v] \in 1..N /\ task[w] \in 1..N /\ task[v] # task[w]
  BY <1>1 DEF PoolInv, TypeOK, CursorInv, Building
<1>3. Valid(req)
  BY DEF PoolInv, PhaseInv, Building, TypeOK
<1>4. \A i, j \in 1..N : i < j => /\ ~ContainsPath(req[i].dir, req[j].dir)
                                 /\ ~ContainsPath(req[j].dir, req[i].dir)
  BY <1>3 DEF Valid, N
<1>5. \A p, q : Below(p, q) => ContainsPath(p, q)
  BY DEF ContainsPath
<1>6. task[v] < task[w] \/ task[w] < task[v]
  BY <1>1, <1>2
<1> QED
  BY <1>2, <1>4, <1>5, <1>6

\* Where no directory name begins with "..", the check of
\* validatePdsBatchVariants keeps concurrent builds out of each other's trees.
THEOREM BuildsDisjoint ==
  ASSUME DotNames = {}
  PROVE  Spec => []DisjointBuilds
<1>1. PoolInv => DisjointBuilds
  BY DisjointFromPool
<1> QED
  BY <1>1, PoolInvariant, PTL

-----------------------------------------------------------------------------
(* The worker pool implements BatchContract. *)

\* What a slot looks like to the contract, in terms of the pool's own state.
LEMMA StatusFacts ==
  ASSUME PoolInv
  PROVE  \A i \in Slots :
           /\ envelope[i] # "empty" => StatusOf(i) = envelope[i]
           /\ i >= cursor => StatusOf(i) = "pending"
           /\ (\E w \in Workers : task[w] = i) => StatusOf(i) = "running"
           /\ i < cursor /\ envelope[i] = "empty" => StatusOf(i) = "running"
           /\ StatusOf(i) = "running" => \E w \in Workers : task[w] = i
<1>0. N \in Nat
  BY ParallelBounds DEF PoolInv
<1>1. \A i \in Slots : i # 0 /\ i \in Nat /\ cursor \in Nat /\ envelope[i] \in {"empty", "ok", "fail"}
  BY <1>0 DEF Slots, PoolInv, TypeOK
<1>2. \A w \in Workers : task[w] \in Nat
  BY ParallelBounds DEF PoolInv, TypeOK
<1>3. \A i \in Slots : i >= cursor => ~ \E w \in Workers : task[w] = i
  BY <1>1, <1>2 DEF PoolInv, CursorInv
<1>4. \A i \in Slots : (\E w \in Workers : task[w] = i) => envelope[i] = "empty"
  BY <1>1 DEF PoolInv, CursorInv
<1> QED
  BY <1>1, <1>3, <1>4 DEF PoolInv, CursorInv, StatusOf

LEMMA InitContract == Init => Contract!ContractInit
<1> SUFFICES ASSUME Init PROVE Contract!ContractInit
  OBVIOUS
<1>1. \A i \in Slots : i \in Nat \ {0} /\ envelope[i] = "empty"
  BY DEF Init, Slots, N
<1>2. \A i \in Slots : StatusOf(i) = "pending"
  BY <1>1 DEF Init, StatusOf
<1> QED
  BY <1>2 DEF Init, Contract!ContractInit

LEMMA StartContract == PoolInv /\ StartWorkers => Contract!Open
<1> SUFFICES ASSUME PoolInv, StartWorkers PROVE Contract!Open
  OBVIOUS
<1> DEFINE S == 1..Parallel
<1>1. /\ Parallel \in Nat /\ N \in Nat /\ 1 <= Parallel /\ Parallel <= N /\ Parallel <= MaxParallel
      /\ Slots' = Slots /\ Parallel' = Parallel /\ result' = result /\ cursor = 1
      /\ cursor' = Parallel + 1 /\ envelope' = envelope
  BY ParallelBounds DEF PoolInv, PhaseInv, StartWorkers, Slots, N, Parallel
<1>2. S \subseteq Slots /\ S # {} /\ Cardinality(S) <= Parallel
  BY <1>1, FS_Interval DEF Slots
<1>3. \A i \in Slots : StatusOf(i) = "pending"
  BY <1>1, StatusFacts DEF Slots
<1>4. PoolInv'
  BY StartPool
<1>5. \A i \in Slots : StatusOf(i)' = IF i \in S THEN "running" ELSE "pending"
  <2>1. \A i \in Slots : i \in Nat /\ i > 0 /\ envelope'[i] = "empty"
    BY <1>1 DEF PoolInv, CursorInv, Slots
  <2>2. \A i \in Slots : i \in S <=> i < cursor'
    BY <1>1, <2>1 DEF Slots
  <2>3. \A i \in Slots : i \in S <=> \E w \in Workers : task'[w] = i
    BY <1>1, <2>1, BatchAssumption DEF StartWorkers, Slots, Workers
  <2> QED
    BY <1>1, <2>1, <2>3 DEF StatusOf, Workers
<1>6. Contract!Pending = Slots
  BY <1>3 DEF Contract!Pending
<1>7. [i \in Slots |-> StatusOf(i)]' = [v \in Slots |-> IF v \in S THEN "running" ELSE "pending"]
  BY <1>1, <1>5
<1>8. Contract!Cardinality(S) = Cardinality(S)
  BY DEF Contract!Cardinality, Contract!IsFiniteSet, Cardinality, IsFiniteSet
<1> HIDE DEF S
<1> QED
  BY <1>1, <1>2, <1>6, <1>7, <1>8 DEF Contract!Open

LEMMA SettleContract ==
  ASSUME NEW w \in Workers, PoolInv, Settle(w)
  PROVE  Contract!Settle
<1> DEFINE s == task[w]
           S == IF cursor <= N THEN {cursor} ELSE {}
<1>1. PoolInv'
  BY SettlePool
<1>2. /\ cursor \in Nat \ {0} /\ N \in Nat /\ s \in Slots /\ s < cursor /\ envelope[s] = "empty"
      /\ cursor' = cursor + 1 /\ result' = result
      /\ Slots' = Slots /\ Workers' = Workers /\ Parallel' = Parallel
  BY ParallelBounds DEF PoolInv, TypeOK, CursorInv, Settle, Slots, N, Workers, Parallel
<1>3. PICK o \in {"ok", "fail"} :
        envelope' = [envelope EXCEPT ![s] = o]
  BY DEF Settle
<1>4. /\ \A v \in Workers : v # w => task'[v] = task[v]
      /\ task'[w] = IF cursor <= N THEN cursor ELSE 0
  BY DEF PoolInv, TypeOK, Settle
<1>5. s \in Contract!Running
  BY <1>2, StatusFacts DEF Contract!Running
<1>6. S \in {{}} \union {{u} : u \in Contract!Pending}
  BY <1>2, StatusFacts DEF Contract!Pending, Slots
<1>8. ASSUME NEW i \in Slots
      PROVE  StatusOf(i)' = IF i = s THEN o ELSE IF i \in S THEN "running" ELSE StatusOf(i)
  <2>0. i \in Nat \ {0} /\ envelope \in [Slots -> {"empty", "ok", "fail"}]
    BY <1>2 DEF Slots, PoolInv, TypeOK
  <2>a. \A x \in Workers : task'[x] = i => x # w \/ i = cursor
    BY <1>2, <1>4, <2>0 DEF Slots
  <2>1. CASE i = s
    BY <2>0, <2>1, <1>2, <1>3 DEF StatusOf
  <2>2. CASE i # s /\ i \in S
    <3>1. i = cursor /\ task'[w] = i /\ envelope'[i] = "empty"
      BY <2>0, <2>2, <1>2, <1>3, <1>4 DEF PoolInv, CursorInv
    <3> QED
      BY <3>1, <2>2, <1>2 DEF StatusOf
  <2>3. CASE i # s /\ i \notin S
    <3>1. envelope'[i] = envelope[i]
      BY <2>0, <2>3, <1>3
    <3>2. (\E x \in Workers : task'[x] = i) <=> (\E x \in Workers : task[x] = i)
      BY <2>3, <2>0, <1>2, <1>4 DEF Slots
    <3> QED
      BY <3>1, <3>2, <2>3, <1>2 DEF StatusOf
  <2> QED
    BY <2>1, <2>2, <2>3
<1>9. [i \in Slots |-> StatusOf(i)]' =
        [u \in Slots |-> IF u = s THEN o ELSE IF u \in S THEN "running"
                         ELSE [i \in Slots |-> StatusOf(i)][u]]
  BY <1>2, <1>8
<1> HIDE DEF s, S
<1> QED
  BY <1>2, <1>3, <1>5, <1>6, <1>9 DEF Contract!Settle

LEMMA ReturnContract == PoolInv /\ Return => Contract!Answer
<1> SUFFICES ASSUME PoolInv, Return PROVE Contract!Answer
  OBVIOUS
<1>1. /\ Slots' = Slots /\ Workers' = Workers /\ Parallel' = Parallel /\ ~result.given
      /\ [i \in Slots |-> StatusOf(i)]' = [i \in Slots |-> StatusOf(i)]
  BY DEF PoolInv, PhaseInv, Return, Slots, N, Workers, Parallel, StatusOf
<1>2. cursor > N
  BY ParallelBounds, BatchAssumption DEF PoolInv, PhaseInv, Return, Workers
<1>3. \A i \in Slots : envelope[i] \in {"ok", "fail"} /\ StatusOf(i) = envelope[i]
  <2>1. \A i \in Slots : i < cursor /\ i # 0
    BY <1>2, ParallelBounds DEF PoolInv, TypeOK, Slots
  <2>2. \A i \in Slots : envelope[i] # "empty"
    BY <2>1 DEF PoolInv, CursorInv, Return
  <2> QED
    BY <2>2, StatusFacts DEF PoolInv, TypeOK
<1> QED
  BY <1>1, <1>3 DEF Return, Contract!Answer

\* Every step of the pool is a step of the contract or leaves it unchanged.
LEMMA StepContract == PoolInv /\ [Next]_vars => [Contract!ContractNext]_(Contract!contractVars)
<1> SUFFICES ASSUME PoolInv, [Next]_vars
             PROVE  [Contract!ContractNext]_(Contract!contractVars)
  OBVIOUS
<1>1. CASE UNCHANGED vars \/ Reject
  BY <1>1 DEF vars, Reject, Contract!contractVars, Slots, N, Parallel, StatusOf, Workers
<1>2. CASE StartWorkers
  BY <1>2, StartContract DEF Contract!ContractNext
<1>3. CASE \E w \in Workers : Settle(w)
  BY <1>3, SettleContract DEF Contract!ContractNext
<1>4. CASE Return
  BY <1>4, ReturnContract DEF Contract!ContractNext
<1> QED
  BY <1>1, <1>2, <1>3, <1>4 DEF Next, Finished

\* executePdsBatch keeps the contract of a batch, for every batch.
THEOREM PoolImplementsContract == Spec => ImplementsContract
BY PoolInvariant, InitContract, StepContract, PTL DEF Spec, ImplementsContract, Contract!ContractSpec
=============================================================================
