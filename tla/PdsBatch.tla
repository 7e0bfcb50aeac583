------------------------------ MODULE PdsBatch ------------------------------
(***************************************************************************)
(* The worker pool of fpga_pds_batch (toolchains/pango-pds/batch.mjs):     *)
(* the validation that admits a batch, and executePdsBatch, whose workers  *)
(* share one cursor.  A worker runs without interruption from one await to *)
(* the next, so what it does when a build settles (store the envelope,     *)
(* come back to the top of its loop, take the next variant) is one action. *)
(* pdsRun itself is an opaque call here; PdsBuild models it.               *)
(***************************************************************************)
EXTENDS Integers, Sequences, FiniteSets

CONSTANTS
  Requests,      (* the batches callers send: sequences of variants, each
                    [id, pds, dir, wellFormed, localOutputs], dir being the
                    canonical project directory as a sequence of components *)
  DotNames,      (* the path components whose text begins with ".."      *)
  Asked,         (* the maxParallel values callers send                  *)
  MaxVariants,   (* MAX_PDS_BATCH_VARIANTS                               *)
  MaxParallel    (* MAX_PDS_BATCH_PARALLEL                               *)

ASSUME BatchAssumption ==
  /\ MaxVariants \in Nat \ {0}
  /\ MaxParallel \in Nat \ {0}
  /\ Asked \subseteq Nat \ {0}
  /\ \A q \in Requests : Len(q) \in Nat

VARIABLES
  req,        (* the batch this call was given                           *)
  asked,      (* the maxParallel it was given                            *)
  phase,      (* "validate", "running", "rejected" or "returned"         *)
  cursor,     (* the next slot a worker takes (1-based here)             *)
  task,       (* task[w]: the slot worker w awaits, 0 when it has none   *)
  envelope,   (* envelope[i]: "empty", or what slot i holds              *)
  runs,       (* history: how often runVariant was called for slot i     *)
  outcome,    (* history: how the build of slot i really ended           *)
  result      (* the failed slots named in the answer, and whether it is
                 given                                                   *)

vars == <<req, asked, phase, cursor, task, envelope, runs, outcome, result>>

N == Len(req)
Slots == 1..N
Workers == 1..MaxParallel
-----------------------------------------------------------------------------
(* Validation *)

Below(parent, child) ==
  /\ Len(parent) <= Len(child)
  /\ \A k \in 1..Len(parent) : parent[k] = child[k]

\* Seeded fault: only equal directories count as overlapping.
ContainsOnlyItself(parent, child) == parent = child

\* containsPath: path.relative() climbs with ".." unless child is below
\* parent, and a relative path that begins with ".." is taken for a climb.
ContainsPath(parent, child) ==
  /\ Below(parent, child)
  /\ Len(child) > Len(parent) => child[Len(parent) + 1] \notin DotNames

Valid(q) ==
  /\ Len(q) \in 1..MaxVariants
  /\ \A i \in 1..Len(q) : q[i].wellFormed /\ q[i].localOutputs
  /\ \A i, j \in 1..Len(q) : i < j =>
       /\ q[i].id # q[j].id
       /\ q[i].pds # q[j].pds
       /\ ~ContainsPath(q[i].dir, q[j].dir)
       /\ ~ContainsPath(q[j].dir, q[i].dir)

\* Seeded faults: the pool is not cut to the number of variants, or not to what
\* the caller asked for.
ParallelPastEnd == IF asked < MaxParallel THEN asked ELSE MaxParallel
ParallelIgnoresAsked == IF MaxParallel < N THEN MaxParallel ELSE N

\* How many workers executePdsBatch starts.
Parallel ==
  LET wanted == IF asked < MaxParallel THEN asked ELSE MaxParallel
  IN  IF wanted < N THEN wanted ELSE N
-----------------------------------------------------------------------------
Init ==
  /\ req \in Requests
  /\ asked \in Asked
  /\ phase = "validate"
  /\ cursor = 1
  /\ task = [w \in Workers |-> 0]
  /\ envelope = [i \in Slots |-> "empty"]
  /\ runs = [i \in Slots |-> 0]
  /\ outcome = [i \in Slots |-> "none"]
  /\ result = [given |-> FALSE, failed |-> {}]

Reject ==
  /\ phase = "validate"
  /\ ~Valid(req)
  /\ phase' = "rejected"
  /\ UNCHANGED <<req, asked, cursor, task, envelope, runs, outcome, result>>

\* Array.from starts every worker in one synchronous turn: worker w takes
\* slot w and stops at its first await.
StartWorkers ==
  /\ phase = "validate"
  /\ Valid(req)
  /\ phase' = "running"
  /\ task' = [w \in Workers |-> IF w <= Parallel THEN w ELSE 0]
  /\ runs' = [i \in Slots |-> IF i <= Parallel THEN 1 ELSE 0]
  /\ cursor' = Parallel + 1
  /\ UNCHANGED <<req, asked, envelope, outcome, result>>

\* Seeded fault: the cursor is read but not advanced.
SettleKeepsCursor(w) ==
  /\ phase = "running"
  /\ task[w] # 0
  /\ \E o \in {"ok", "fail"} :
       /\ outcome' = [outcome EXCEPT ![task[w]] = o]
       /\ envelope' = [envelope EXCEPT ![task[w]] = o]
  /\ task' = [task EXCEPT ![w] = IF cursor <= N THEN cursor ELSE 0]
  /\ runs' = [i \in Slots |-> IF i = cursor THEN runs[i] + 1 ELSE runs[i]]
  /\ UNCHANGED <<req, asked, phase, cursor, result>>

\* The build worker w awaits passes, fails, or throws (which the worker turns
\* into a failed envelope); the worker then takes the slot under the cursor,
\* or returns when the cursor is past the end.
Settle(w) ==
  /\ phase = "running"
  /\ task[w] # 0
  /\ \E o \in {"ok", "fail", "throw"} :
       /\ outcome' = [outcome EXCEPT ![task[w]] = o]
       /\ envelope' = [envelope EXCEPT ![task[w]] = IF o = "ok" THEN "ok" ELSE "fail"]
  /\ cursor' = cursor + 1
  /\ IF cursor <= N
     THEN /\ task' = [task EXCEPT ![w] = cursor]
          /\ runs' = [runs EXCEPT ![cursor] = @ + 1]
     ELSE /\ task' = [task EXCEPT ![w] = 0]
          /\ UNCHANGED runs
  /\ UNCHANGED <<req, asked, phase, result>>

\* Seeded faults: the answer is given when the first worker returns, or when the
\* cursor stands just past the end.
ReturnWithFirst ==
  /\ phase = "running"
  /\ \E w \in 1..Parallel : task[w] = 0
  /\ phase' = "returned"
  /\ result' = [given |-> TRUE, failed |-> {i \in Slots : envelope[i] = "fail"}]
  /\ UNCHANGED <<req, asked, cursor, task, envelope, runs, outcome>>
ReturnAtEnd ==
  /\ phase = "running"
  /\ cursor = N + 1
  /\ \A w \in Workers : task[w] = 0
  /\ phase' = "returned"
  /\ result' = [given |-> TRUE, failed |-> {i \in Slots : envelope[i] # "ok"}]
  /\ UNCHANGED <<req, asked, cursor, task, envelope, runs, outcome>>

\* Promise.all resolves once every worker has returned.
Return ==
  /\ phase = "running"
  /\ \A w \in Workers : task[w] = 0
  /\ phase' = "returned"
  /\ result' = [given |-> TRUE, failed |-> {i \in Slots : envelope[i] # "ok"}]
  /\ UNCHANGED <<req, asked, cursor, task, envelope, runs, outcome>>

Finished ==
  /\ phase \in {"rejected", "returned"}
  /\ UNCHANGED vars

Next == Reject \/ StartWorkers \/ (\E w \in Workers : Settle(w)) \/ Return \/ Finished

\* Every build settles (pdsRun bounds its pds_shell with timeoutSec) and the
\* event loop runs what is ready.
Fairness ==
  /\ WF_vars(Reject) /\ WF_vars(StartWorkers) /\ WF_vars(Return)
  /\ \A w \in Workers : WF_vars(Settle(w))

Spec == Init /\ [][Next]_vars
FairSpec == Spec /\ Fairness
-----------------------------------------------------------------------------
(* Properties *)

TypeOK ==
  /\ req \in Requests
  /\ asked \in Asked
  /\ phase \in {"validate", "running", "rejected", "returned"}
  /\ cursor \in Nat \ {0}
  /\ task \in [Workers -> 0..N]
  /\ envelope \in [Slots -> {"empty", "ok", "fail"}]
  /\ runs \in [Slots -> 0..1]
  /\ outcome \in [Slots -> {"none", "ok", "fail", "throw"}]
  /\ result \in [given : BOOLEAN, failed : SUBSET Slots]

Building == {w \in Workers : task[w] # 0}

\* Two pds_shell processes never share a project tree: of two builds in
\* progress, neither project directory is inside the other (batch.mjs:1-6:
\* PDS does not lock a shared .pds/prj_tasks tree).
DisjointBuilds ==
  \A v, w \in Building : v # w =>
    /\ ~Below(req[task[v]].dir, req[task[w]].dir)
    /\ ~Below(req[task[w]].dir, req[task[v]].dir)

\* The shared cursor hands every variant to exactly one worker: none is built
\* twice, and none is missing from an answered batch.
EachVariantOnce ==
  /\ \A v, w \in Building : v # w => task[v] # task[w]
  /\ phase = "returned" => \A i \in Slots : runs[i] = 1

\* No more builds are in progress than the caller asked for, than the tool
\* allows, and than there are variants.
WithinAskedParallel ==
  /\ Cardinality(Building) <= asked
  /\ Cardinality(Building) <= N

\* An answered batch names as failed exactly the variants whose own build did
\* not pass, including one whose worker threw.
AnswerIsHonest ==
  result.given =>
    /\ \A i \in Slots : outcome[i] # "none"
    /\ result.failed = {i \in Slots : outcome[i] # "ok"}

\* An admitted batch is answered, whatever its builds do.
AdmittedBatchAnswers == (phase = "running") ~> (phase = "returned")

StatusOf(i) ==
  CASE envelope[i] # "empty" -> envelope[i]
    [] envelope[i] = "empty" /\ (\E w \in Workers : task[w] = i) -> "running"
    [] OTHER -> "pending"

Contract == INSTANCE BatchContract WITH
  variants <- Slots,
  limit <- Parallel,
  status <- [i \in Slots |-> StatusOf(i)],
  answer <- result

\* The worker pool implements the contract of a batch.
ImplementsContract == Contract!ContractSpec
=============================================================================
