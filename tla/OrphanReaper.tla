---------------------------- MODULE OrphanReaper ----------------------------
(***************************************************************************)
(* fpga_server_cleanup: one call of reapOrphanedServerInstances            *)
(* (core/lifecycle.mjs) over the inventory of core/server-instances.mjs,   *)
(* on a Windows machine whose processes start, exit and reuse each other's *)
(* PIDs at any moment, also between the call's probes and its kills.       *)
(*                                                                         *)
(* Creation times are unique: every start takes the clock's value.  What   *)
(* the inventory cannot see is kept as history: `from' is the creation     *)
(* time of the process that really started a server.                       *)
(***************************************************************************)
EXTENDS Integers, FiniteSets

CONSTANTS
  Pids,       (* process ids                                             *)
  Me,         (* the server that handles the call                        *)
  Boss,       (* the client that owns it                                 *)
  Asks,       (* what callers pass: [confirm, pids, minAge]              *)
  Slack,      (* the tolerance for a parent younger than its child       *)
  MaxTime     (* bound: the clock                                        *)

ASSUME ReaperAssumption ==
  /\ {Me, Boss} \subseteq Pids /\ Me # Boss
  /\ Slack \in Nat /\ MaxTime \in Nat
  /\ Asks \subseteq [confirm : BOOLEAN, pids : SUBSET Pids, minAge : Nat]

VARIABLES
  clock,      (* time, in the unit of Slack and minAge                   *)
  proc,       (* proc[p]: the process that has PID p                     *)
  ask,        (* the call's arguments                                    *)
  pc,         (* where the call is                                       *)
  first,      (* candidates of the first inventory: [pid, born]          *)
  targets,    (* those the second inventory confirmed                    *)
  signalled,  (* targets that were sent SIGTERM or were gone             *)
  refused,    (* targets whose kill failed                               *)
  report,     (* what the call returned                                  *)
  probed,     (* history: the time of the second inventory               *)
  victims     (* history: [pid, born, orphan] of the processes killed    *)

os == <<clock, proc>>
call == <<ask, pc, first, targets, signalled, refused, report>>
history == <<probed, victims>>
vars == <<os, call, history>>

Gone == [kind |-> "gone"]
Other(t) == [kind |-> "other", born |-> t]
Server(t, q, f) == [kind |-> "server", born |-> t, parent |-> q, from |-> f]

Alive(p) == proc[p].kind # "gone"
IsServer(p) == proc[p].kind = "server"

\* The process that started server p no longer exists.
Orphan(p) == ~Alive(proc[p].parent) \/ proc[proc[p].parent].born # proc[p].from

Pending == [kind |-> "pending"]
-----------------------------------------------------------------------------
Init ==
  /\ clock = 2
  /\ proc = [p \in Pids |-> IF p = Boss THEN Other(0)
                            ELSE IF p = Me THEN Server(1, Boss, 0) ELSE Gone]
  /\ ask \in Asks
  /\ pc = "first"
  /\ first = {} /\ targets = {} /\ signalled = {} /\ refused = {}
  /\ report = Pending
  /\ probed = 0 /\ victims = {}

(* The machine *)

Tick ==
  /\ clock < MaxTime
  /\ clock' = clock + 1
  /\ UNCHANGED <<proc, call, history>>

\* A process starts with a free PID: a client, or a server of a live process.
Start(p) ==
  /\ ~Alive(p) /\ clock < MaxTime
  /\ clock' = clock + 1
  /\ \/ proc' = [proc EXCEPT ![p] = Other(clock)]
     \/ \E q \in Pids \ {p} :
          /\ Alive(q)
          /\ proc' = [proc EXCEPT ![p] = Server(clock, q, proc[q].born)]
  /\ UNCHANGED <<call, history>>

\* A process ends: a client at any time, a server when its stdin has ended and
\* its work is done (installStdioLifecycle), or when somebody else stops it.
Exit(p) ==
  /\ Alive(p) /\ p # Me
  /\ proc' = [proc EXCEPT ![p] = Gone]
  /\ UNCHANGED <<clock, call, history>>
-----------------------------------------------------------------------------
(* The inventory *)

\* classifyServerProcessRows
Ownership(p) ==
  IF p = Me THEN "current"
  ELSE IF \/ ~Alive(proc[p].parent)
          \/ proc[proc[p].parent].born > proc[p].born + Slack
       THEN "orphan_candidate"
       ELSE "client_owned"

\* Seeded fault: the age of an orphan does not matter.
OldEnoughAlways(p) == TRUE

OldEnough(p) == clock - proc[p].born >= ask.minAge

\* selectOrphanCleanupCandidates over an inventory taken now.
Candidates ==
  {[pid |-> p, born |-> proc[p].born] :
     p \in {q \in ask.pids : IsServer(q) /\ Ownership(q) = "orphan_candidate" /\ OldEnough(q)}}

Return(ok, killed) ==
  /\ pc' = "done"
  /\ report' = [kind |-> "report", ok |-> ok, terminated |-> killed]

\* The inventory fails (PowerShell errs or is over its five seconds).
NoInventory ==
  /\ pc \in {"first", "second", "after"}
  /\ Return(FALSE, {})
  /\ UNCHANGED <<os, ask, first, targets, signalled, refused, history>>

\* The first inventory; an audit ends with it.
Probe ==
  /\ pc = "first"
  /\ first' = Candidates
  /\ IF ask.confirm THEN pc' = "second" /\ UNCHANGED report ELSE Return(TRUE, {})
  /\ UNCHANGED <<os, ask, targets, signalled, refused, history>>

\* Seeded faults: the candidates of the first inventory are killed unseen; one
\* that the first had not listed is killed as well.
TargetsOfFirst == first
TargetsOfSecond == Candidates

\* The candidates of both inventories: same PID, same creation time.
Targets == Candidates \intersect first

Reprobe ==
  /\ pc = "second"
  /\ targets' = Targets
  /\ probed' = clock
  /\ IF Targets = {} THEN Return(TRUE, {}) ELSE pc' = "kill" /\ UNCHANGED report
  /\ UNCHANGED <<os, ask, first, signalled, refused, victims>>

\* process.kill by PID: whoever has the PID now is terminated, at once or after
\* a while; no such process counts as done; the system may also refuse.
Kill(t) ==
  /\ pc = "kill" /\ t \in targets \ (signalled \union refused)
  /\ \/ /\ Alive(t.pid)
        /\ proc' = [proc EXCEPT ![t.pid] = Gone] \/ UNCHANGED proc
        /\ victims' = victims \union
             {[pid |-> t.pid, born |-> proc[t.pid].born,
               orphan |-> IsServer(t.pid) /\ Orphan(t.pid)]}
        /\ signalled' = signalled \union {t} /\ UNCHANGED refused
     \/ /\ ~Alive(t.pid)
        /\ signalled' = signalled \union {t} /\ UNCHANGED <<proc, refused, victims>>
     \/ /\ Alive(t.pid)
        /\ refused' = refused \union {t} /\ UNCHANGED <<proc, signalled, victims>>
  /\ UNCHANGED <<clock, ask, pc, first, targets, report, probed>>

\* Seeded fault: a refused kill is not counted.
WaitForEverySignal ==
  /\ pc = "kill" /\ targets = signalled
  /\ pc' = "after"
  /\ UNCHANGED <<os, ask, first, targets, signalled, refused, report, history>>

Wait ==
  /\ pc = "kill" /\ targets = signalled \union refused
  /\ pc' = "after"
  /\ UNCHANGED <<os, ask, first, targets, signalled, refused, report, history>>

\* Seeded fault: a signal that was sent is taken for a process that ended.
VerifyTrustsSignal ==
  /\ pc = "after"
  /\ Return(refused = {}, signalled)
  /\ UNCHANGED <<os, ask, first, targets, signalled, refused, history>>

\* The last inventory: a target counts as terminated when no server has its PID.
Verify ==
  /\ pc = "after"
  /\ LET ended == {t \in signalled : ~IsServer(t.pid)}
     IN  Return(refused = {} /\ ended = signalled, ended)
  /\ UNCHANGED <<os, ask, first, targets, signalled, refused, history>>

Done == pc = "done" /\ UNCHANGED vars

Reap == NoInventory \/ Probe \/ Reprobe \/ (\E t \in targets : Kill(t)) \/ Wait \/ Verify

Next == Tick \/ (\E p \in Pids : Start(p) \/ Exit(p)) \/ Reap \/ Done

Spec == Init /\ [][Next]_vars

\* The handler's steps are synchronous but for the inventories, which end within
\* five seconds, and one timer.
FairSpec == Spec /\ WF_vars(Reap)
-----------------------------------------------------------------------------
(* Properties *)

Processes ==
  {Gone} \union [kind : {"other"}, born : Nat]
         \union [kind : {"server"}, born : Nat, parent : Pids, from : Nat]
Suspects == [pid : Pids, born : Nat]

TypeOK ==
  /\ clock \in Nat
  /\ proc \in [Pids -> Processes]
  /\ ask \in Asks
  /\ pc \in {"first", "second", "kill", "after", "done"}
  /\ first \subseteq Suspects /\ targets \subseteq first
  /\ signalled \subseteq targets /\ refused \subseteq targets
  /\ report = Pending \/ report \in [kind : {"report"}, ok : BOOLEAN, terminated : SUBSET Suspects]
  /\ probed \in Nat
  /\ victims \subseteq [pid : Pids, born : Nat, orphan : BOOLEAN]

\* A server whose client lives is never killed, however PIDs are reused and
\* whatever exits between the two inventories; the one way to hit a process
\* that is no orphan is that it took the PID after the second inventory
\* (lifecycle.mjs:1-6, index.mjs:198).
OwnedServersSurvive == \A v \in victims : v.orphan \/ v.born >= probed

\* Nothing younger than minAge at the second inventory is killed, and nothing the
\* first inventory had not listed, unless it took the PID after the second one.
VictimsWereListed ==
  \A v \in victims : v.born < probed =>
    /\ [pid |-> v.pid, born |-> v.born] \in first
    /\ probed - v.born >= ask.minAge
    /\ v.pid \in ask.pids /\ v.pid # Me

\* What the report calls terminated has ended, and ok:true on a cleanup means
\* that every target has: a kill that was refused or is slow is not a success.
ReportIsTrue ==
  report.kind = "report" =>
    /\ \A t \in report.terminated : ~(IsServer(t.pid) /\ proc[t.pid].born = t.born)
    /\ report.ok => report.terminated = targets

\* The call returns, whatever is refused and whatever the machine does.
CallReturns == <>(pc = "done")
=============================================================================
