------------------------ MODULE OrphanReaper_proofs ------------------------
(***************************************************************************)
(* fpga_server_cleanup, for any number of processes and any arguments: it  *)
(* never takes a server from a living client, and its report is true.      *)
(***************************************************************************)
EXTENDS OrphanReaper, TLAPS

\* Every process is older than now, and younger than the one that started it.
WorldInv ==
  /\ \A p \in Pids : Alive(p) => proc[p].born < clock
  /\ \A p \in Pids : IsServer(p) => proc[p].from < proc[p].born
  /\ probed <= clock

\* A target that still runs is the orphan the second inventory saw, unless its
\* PID has changed hands since.
TargetInv ==
  /\ pc \in {"first", "second"} =>
       targets = {} /\ victims = {} /\ signalled = {} /\ refused = {}
  /\ \A t \in targets :
       /\ t.pid \in ask.pids /\ t.pid # Me
       /\ t.born < probed /\ probed - t.born >= ask.minAge
       /\ Alive(t.pid) => \/ IsServer(t.pid) /\ proc[t.pid].born = t.born /\ Orphan(t.pid)
                          \/ proc[t.pid].born >= probed

\* The call reports once, at its end, and only on its targets; the settling
\* delay ends when every target has been dealt with; what was reported as
\* terminated does not come back, creation times being unique.
ReportInv ==
  /\ pc # "done" => report = Pending
  /\ pc = "after" => targets = signalled \union refused
  /\ ReportIsTrue
  /\ report.kind = "report" =>
       /\ report.terminated \subseteq targets
       /\ \A t \in report.terminated : t.born < clock

\* At most PID q changes hands: it is freed, or taken by a process younger than
\* all others.
Turnover(q) ==
  /\ proc' \in [Pids -> Processes] /\ clock' \in Nat /\ clock' >= clock
  /\ \A r \in Pids \ {q} : proc'[r] = proc[r]
  /\ \/ proc'[q] = Gone
     \/ proc'[q] = proc[q]
     \/ proc'[q].kind # "gone" /\ proc'[q].born = clock /\ clock' = clock + 1

ReaperInv ==
  TypeOK /\ WorldInv /\ TargetInv /\ OwnedServersSurvive /\ VictimsWereListed /\ ReportInv

-----------------------------------------------------------------------------
(* What the inventory may conclude. *)

\* What a process is, field by field.
LEMMA ProcessTypes ==
  ASSUME TypeOK, NEW p \in Pids
  PROVE  /\ Alive(p) => proc[p].born \in Nat
         /\ IsServer(p) => /\ Alive(p)
                           /\ proc[p].from \in Nat /\ proc[p].parent \in Pids
<1>1. proc[p] \in Processes
  BY DEF TypeOK
<1>2. CASE proc[p] = Gone
  BY <1>2 DEF Alive, IsServer, Gone
<1>3. CASE proc[p] \in [kind : {"other"}, born : Nat]
  BY <1>3 DEF Alive, IsServer
<1>4. CASE proc[p] \in [kind : {"server"}, born : Nat, parent : Pids, from : Nat]
  BY <1>4 DEF Alive, IsServer
<1> QED
  BY <1>1, <1>2, <1>3, <1>4 DEF Processes

\* The classification errs on one side only: what it calls an orphan is one.
LEMMA ClassifiedOrphansAreOrphans ==
  ASSUME TypeOK, WorldInv, NEW p \in Pids, IsServer(p), Ownership(p) = "orphan_candidate"
  PROVE  Orphan(p) /\ p # Me
<1>1. proc[p].born \in Nat /\ proc[p].from \in Nat /\ proc[p].parent \in Pids
  BY ProcessTypes
<1>2. CASE ~Alive(proc[p].parent)
  BY <1>2 DEF Orphan, Ownership
<1>3. CASE Alive(proc[p].parent) /\ proc[proc[p].parent].born > proc[p].born + Slack
  <2>1. proc[proc[p].parent].born \in Nat
    BY <1>1, <1>3, ProcessTypes
  <2>2. proc[p].from < proc[p].born
    BY DEF WorldInv
  <2> QED
    BY <1>1, <1>3, <2>1, <2>2, ReaperAssumption DEF Orphan, Ownership
<1> QED
  BY <1>2, <1>3 DEF Ownership

\* What an inventory lists: running orphans that are old enough and asked for.
LEMMA CandidatesAreOrphans ==
  ASSUME TypeOK, WorldInv, NEW t \in Candidates
  PROVE  /\ t \in Suspects
         /\ t.pid \in ask.pids /\ t.pid # Me
         /\ t.born < clock /\ clock - t.born >= ask.minAge
         /\ IsServer(t.pid) /\ proc[t.pid].born = t.born /\ Orphan(t.pid)
<1>1. PICK p \in ask.pids : /\ t = [pid |-> p, born |-> proc[p].born]
                            /\ IsServer(p) /\ Ownership(p) = "orphan_candidate"
                            /\ OldEnough(p)
  BY DEF Candidates
<1>2. p \in Pids
  BY <1>1, ReaperAssumption DEF TypeOK
<1>3. Alive(p) /\ proc[p].born \in Nat
  BY <1>1, <1>2, ProcessTypes
<1>4. Orphan(p) /\ p # Me
  BY <1>1, <1>2, ClassifiedOrphansAreOrphans
<1>5. proc[p].born < clock
  BY <1>2, <1>3 DEF WorldInv
<1> QED
  BY <1>1, <1>2, <1>3, <1>4, <1>5 DEF Suspects, OldEnough

\* The machine's steps: a PID is taken by a younger process, or freed.
LEMMA MachineSteps ==
  ASSUME TypeOK, NEW q \in Pids, Start(q) \/ Exit(q)
  PROVE  Turnover(q)
<1>1. proc \in [Pids -> Processes] /\ clock \in Nat
  BY DEF TypeOK
<1>2. CASE Start(q)
  <2>1. clock' = clock + 1
    BY <1>2 DEF Start
  <2>2. CASE proc' = [proc EXCEPT ![q] = Other(clock)]
    <3>1. Other(clock) \in Processes /\ Other(clock).kind # "gone" /\ Other(clock).born = clock
      BY <1>1 DEF Other, Processes
    <3> QED
      BY <1>1, <2>1, <2>2, <3>1 DEF Turnover
  <2>3. CASE \E r \in Pids \ {q} :
               Alive(r) /\ proc' = [proc EXCEPT ![q] = Server(clock, r, proc[r].born)]
    <3>1. PICK r \in Pids \ {q} :
            Alive(r) /\ proc' = [proc EXCEPT ![q] = Server(clock, r, proc[r].born)]
      BY <2>3
    <3>2. proc[r].born \in Nat
      BY <3>1, ProcessTypes
    <3> DEFINE s == Server(clock, r, proc[r].born)
    <3>3. s \in Processes /\ s.kind # "gone" /\ s.born = clock
      BY <1>1, <3>1, <3>2 DEF Server, Processes
    <3>4. proc' = [proc EXCEPT ![q] = s]
      BY <3>1
    <3> HIDE DEF s
    <3> QED
      BY <1>1, <2>1, <3>3, <3>4 DEF Turnover
  <2> QED
    BY <1>2, <2>2, <2>3 DEF Start
<1>3. CASE Exit(q)
  BY <1>1, <1>3 DEF Exit, Processes, Turnover
<1> QED
  BY <1>2, <1>3

\* A kill frees the PID, now or later; nothing else changes hands.
LEMMA KillsFree ==
  ASSUME TypeOK, NEW t \in targets, Kill(t)
  PROVE  t.pid \in Pids /\ Turnover(t.pid)
<1>1. proc \in [Pids -> Processes] /\ clock \in Nat /\ t.pid \in Pids
  BY DEF TypeOK, Suspects
<1>2. clock' = clock /\ (proc' = [proc EXCEPT ![t.pid] = Gone] \/ proc' = proc)
  BY DEF Kill
<1> QED
  BY <1>1, <1>2 DEF Turnover, Processes

\* An orphan stays one as long as it runs: a process that takes its parent's
\* PID is younger than it.
LEMMA OrphansStayOrphans ==
  ASSUME TypeOK, WorldInv, NEW q \in Pids, Turnover(q),
         NEW p \in Pids, IsServer(p), Orphan(p), proc'[p] = proc[p]
  PROVE  Orphan(p)'
<1>1. /\ proc[p].from < proc[p].born /\ proc[p].born < clock
      /\ proc[p].from \in Nat /\ proc[p].born \in Nat /\ proc[p].parent \in Pids
      /\ clock \in Nat
  BY ProcessTypes DEF WorldInv, TypeOK
<1>2. proc'[p].parent = proc[p].parent /\ proc'[p].from = proc[p].from
  OBVIOUS
<1>3. CASE proc[p].parent = q
  BY <1>1, <1>2, <1>3 DEF Orphan, Alive, Gone, Turnover
<1>4. CASE proc[p].parent # q
  BY <1>1, <1>2, <1>4 DEF Orphan, Alive, Turnover
<1> QED
  BY <1>3, <1>4

\* Whoever changes hands, the world stays ordered by age.
LEMMA WorldTurns ==
  ASSUME TypeOK, WorldInv, NEW q \in Pids, Turnover(q), probed' = probed,
         IsServer(q)' => proc'[q] = proc[q] \/ proc'[q].from < proc'[q].born
  PROVE  WorldInv'
<1>1. probed \in Nat /\ clock \in Nat /\ clock' \in Nat /\ clock <= clock' /\ probed <= clock
  BY DEF TypeOK, WorldInv, Turnover
<1>2. ASSUME NEW p \in Pids, Alive(p)'
      PROVE  proc'[p].born < clock'
  <2>1. CASE proc'[p] = proc[p]
    <3>1. Alive(p) /\ proc[p].born < clock /\ proc[p].born \in Nat
      BY <1>2, <2>1, ProcessTypes DEF WorldInv, Alive
    <3> QED
      BY <1>1, <2>1, <3>1
  <2>2. CASE proc'[p] # proc[p]
    BY <1>1, <1>2, <2>2 DEF Turnover, Alive, Gone
  <2> QED
    BY <2>1, <2>2
<1>3. ASSUME NEW p \in Pids, IsServer(p)'
      PROVE  proc'[p].from < proc'[p].born
  <2>1. CASE proc'[p] = proc[p]
    BY <1>3, <2>1 DEF WorldInv, IsServer
  <2>2. CASE proc'[p] # proc[p]
    BY <1>3, <2>2 DEF Turnover
  <2> QED
    BY <2>1, <2>2
<1>4. probed' <= clock'
  BY <1>1
<1> QED
  BY <1>2, <1>3, <1>4 DEF WorldInv

\* Whoever changes hands, a target that still runs is the orphan it was.
LEMMA TargetsTurn ==
  ASSUME TypeOK, WorldInv, TargetInv, NEW q \in Pids, Turnover(q),
         UNCHANGED <<ask, pc, targets, probed>>,
         pc \in {"first", "second"} => UNCHANGED <<victims, signalled, refused>>
  PROVE  TargetInv'
<1>1. ASSUME NEW t \in targets, Alive(t.pid)'
      PROVE  \/ IsServer(t.pid)' /\ proc'[t.pid].born = t.born /\ Orphan(t.pid)'
             \/ proc'[t.pid].born >= probed
  <2>1. t.pid \in Pids /\ probed <= clock
    BY DEF TypeOK, Suspects, WorldInv
  <2>2. CASE proc'[t.pid] = proc[t.pid]
    <3>1. Alive(t.pid)
      BY <1>1, <2>2 DEF Alive
    <3>2. CASE IsServer(t.pid) /\ proc[t.pid].born = t.born /\ Orphan(t.pid)
      <4>1. Orphan(t.pid)'
        BY <2>1, <2>2, <3>2, OrphansStayOrphans
      <4> QED
        BY <2>2, <3>2, <4>1 DEF IsServer
    <3> QED
      BY <2>2, <3>1, <3>2 DEF TargetInv
  <2>3. CASE proc'[t.pid] # proc[t.pid]
    BY <1>1, <2>1, <2>3 DEF Turnover, Alive, Gone
  <2> QED
    BY <2>2, <2>3
<1> QED
  BY <1>1 DEF TargetInv

\* Whoever changes hands, what was reported as ended does not run again.
LEMMA ReportsTurn ==
  ASSUME TypeOK, ReportInv, NEW q \in Pids, Turnover(q),
         UNCHANGED <<pc, targets, report>>,
         pc = "after" => UNCHANGED <<signalled, refused>>
  PROVE  ReportInv'
<1>1. clock \in Nat /\ clock' \in Nat /\ clock <= clock'
  BY DEF TypeOK, Turnover
<1>2. ASSUME NEW t \in report.terminated, report.kind = "report"
      PROVE  t.born < clock' /\ ~(IsServer(t.pid)' /\ proc'[t.pid].born = t.born)
  <2>1. t \in targets /\ t.born < clock /\ ~(IsServer(t.pid) /\ proc[t.pid].born = t.born)
    BY <1>2 DEF ReportInv, ReportIsTrue
  <2>2. t.born \in Nat /\ t.pid \in Pids
    BY <2>1 DEF TypeOK, Suspects
  <2>3. proc'[t.pid] = proc[t.pid] \/ proc'[t.pid] = Gone \/ proc'[t.pid].born = clock
    BY <2>2 DEF Turnover
  <2> QED
    BY <1>1, <2>1, <2>2, <2>3 DEF IsServer, Gone
<1>3. ReportIsTrue'
  BY <1>2 DEF ReportInv, ReportIsTrue
<1> QED
  BY <1>2, <1>3 DEF ReportInv

-----------------------------------------------------------------------------
(* The call. *)

\* Init establishes the invariant.
LEMMA ReaperInit == ASSUME Init PROVE ReaperInv
<1> USE ReaperAssumption
<1>1. /\ Other(0) \in Processes /\ Server(1, Boss, 0) \in Processes /\ Gone \in Processes
      /\ Other(0).kind = "other" /\ Other(0).born = 0 /\ Gone.kind = "gone"
      /\ Server(1, Boss, 0).kind = "server" /\ Server(1, Boss, 0).born = 1
      /\ Server(1, Boss, 0).from = 0
  BY DEF Other, Server, Gone, Processes
<1>2. /\ clock = 2 /\ proc \in [Pids -> Processes]
      /\ \A p \in Pids : proc[p] \in {Other(0), Server(1, Boss, 0), Gone}
  BY <1>1 DEF Init
<1>3. TypeOK
  BY <1>2 DEF Init, TypeOK
<1>4. WorldInv
  BY <1>1, <1>2 DEF Init, WorldInv, Alive, IsServer
<1>5. TargetInv /\ OwnedServersSurvive /\ VictimsWereListed /\ ReportInv
  BY DEF Init, TargetInv, OwnedServersSurvive, VictimsWereListed, ReportInv, ReportIsTrue, Pending
<1> QED
  BY <1>3, <1>4, <1>5 DEF ReaperInv

\* The machine's own steps touch neither the call nor its history.
LEMMA MachineKeeps ==
  ASSUME ReaperInv, Tick \/ (\E p \in Pids : Start(p) \/ Exit(p))
  PROVE  ReaperInv'
<1> USE DEF ReaperInv
<1>1. PICK q \in Pids : Turnover(q) /\ (IsServer(q)' => proc'[q] = proc[q] \/ proc'[q].from < proc'[q].born)
  <2>1. CASE Tick
    <3>1. Me \in Pids /\ Turnover(Me)
      BY <2>1, ReaperAssumption DEF Tick, Turnover, TypeOK
    <3> QED
      BY <2>1, <3>1 DEF Tick
  <2>2. ASSUME NEW p \in Pids, Exit(p)
        PROVE  Turnover(p) /\ ~IsServer(p)'
    BY <2>2, MachineSteps DEF Exit, IsServer, Gone, TypeOK
  <2>3. ASSUME NEW p \in Pids, Start(p), IsServer(p)'
        PROVE  proc'[p].from < proc'[p].born
    <3>1. CASE proc' = [proc EXCEPT ![p] = Other(clock)]
      BY <2>3, <3>1 DEF IsServer, Other, TypeOK
    <3>2. CASE \E r \in Pids \ {p} :
                 Alive(r) /\ proc' = [proc EXCEPT ![p] = Server(clock, r, proc[r].born)]
      BY <3>2 DEF WorldInv, Server, TypeOK
    <3> QED
      BY <2>3, <3>1, <3>2 DEF Start
  <2> QED
    BY <2>1, <2>2, <2>3, MachineSteps
<1>2. UNCHANGED <<call, history>>
  BY DEF Tick, Start, Exit
<1>3. /\ UNCHANGED <<ask, pc, first, targets, signalled, refused, report>>
      /\ UNCHANGED <<probed, victims>>
  BY <1>2 DEF call, history
<1>4. TypeOK'
  BY <1>1, <1>3 DEF TypeOK, Turnover
<1>5. WorldInv' /\ TargetInv' /\ ReportInv'
  BY <1>1, <1>3, WorldTurns, TargetsTurn, ReportsTurn
<1>6. OwnedServersSurvive' /\ VictimsWereListed'
  BY <1>3 DEF OwnedServersSurvive, VictimsWereListed
<1> QED
  BY <1>4, <1>5, <1>6

\* A kill hits the orphan that was listed, or one that took its PID since.
LEMMA KillKeeps ==
  ASSUME ReaperInv, NEW t \in targets, Kill(t)
  PROVE  ReaperInv'
<1> USE DEF ReaperInv
<1>1. /\ UNCHANGED <<clock, ask, pc, first, targets, report, probed>>
      /\ pc = "kill" /\ t \in first /\ t \in Suspects
  BY DEF Kill, TypeOK
<1>2. t.pid \in Pids /\ Turnover(t.pid)
  BY KillsFree
<1>3. proc' = [proc EXCEPT ![t.pid] = Gone] \/ proc' = proc
  BY DEF Kill
<1>4. WorldInv' /\ TargetInv' /\ ReportInv'
  <2>1. IsServer(t.pid)' => proc'[t.pid] = proc[t.pid]
    BY <1>2, <1>3 DEF IsServer, Gone, TypeOK
  <2> QED
    BY <1>1, <1>2, <2>1, WorldTurns, TargetsTurn, ReportsTurn
<1> DEFINE v == [pid |-> t.pid, born |-> proc[t.pid].born,
                 orphan |-> IsServer(t.pid) /\ Orphan(t.pid)]
<1>5. CASE Alive(t.pid) /\ victims' = victims \union {v}
  <2>1. proc[t.pid].born \in Nat
    BY <1>2, <1>5, ProcessTypes
  <2>2. v \in [pid : Pids, born : Nat, orphan : BOOLEAN]
    <3>1. (IsServer(t.pid) /\ Orphan(t.pid)) \in BOOLEAN
      BY DEF IsServer, Orphan
    <3> QED
      BY <1>2, <2>1, <3>1
  <2>3. \/ v.orphan /\ v.born = t.born
        \/ v.born >= probed
    BY <1>5 DEF TargetInv
  <2>4. t = [pid |-> t.pid, born |-> t.born] /\ t.born \in Nat
    BY <1>1 DEF Suspects
  <2>5. signalled' \subseteq targets' /\ refused' \subseteq targets'
    BY <1>1 DEF Kill, TypeOK
  <2>6. TypeOK'
    BY <1>1, <1>2, <1>5, <2>2, <2>5 DEF TypeOK, Turnover
  <2>7. OwnedServersSurvive'
    BY <1>1, <1>5, <2>3 DEF OwnedServersSurvive
  <2>8. v.born < probed =>
          /\ [pid |-> v.pid, born |-> v.born] \in first
          /\ probed - v.born >= ask.minAge
          /\ v.pid \in ask.pids /\ v.pid # Me
    <3>1. v.born < probed => v.born = t.born
      BY <2>1, <2>3 DEF TypeOK
    <3> QED
      BY <1>1, <2>4, <3>1 DEF TargetInv
  <2>9. VictimsWereListed'
    BY <1>1, <1>5, <2>8 DEF VictimsWereListed
  <2> QED
    BY <1>4, <2>6, <2>7, <2>9
<1>6. CASE victims' = victims
  <2>1. signalled' \subseteq targets' /\ refused' \subseteq targets'
    BY <1>1 DEF Kill, TypeOK
  <2>2. TypeOK'
    BY <1>1, <1>2, <1>6, <2>1 DEF TypeOK, Turnover
  <2>3. OwnedServersSurvive' /\ VictimsWereListed'
    BY <1>1, <1>6 DEF OwnedServersSurvive, VictimsWereListed
  <2> QED
    BY <1>4, <2>2, <2>3
<1> QED
  BY <1>5, <1>6 DEF Kill

\* The call's other steps change nothing in the machine.
LEMMA ProbesKeep ==
  ASSUME ReaperInv, NoInventory \/ Probe \/ Reprobe \/ Wait \/ Verify
  PROVE  ReaperInv'
<1> USE DEF ReaperInv
<1>0. /\ UNCHANGED <<clock, proc, ask, victims>>
      /\ clock \in Nat /\ probed \in Nat /\ probed <= clock
      /\ first \subseteq Suspects /\ targets \subseteq first
      /\ signalled \subseteq targets /\ refused \subseteq targets
  BY DEF NoInventory, Probe, Reprobe, Wait, Verify, os, history, TypeOK, WorldInv
<1>1. \A t \in Candidates :
        /\ t \in Suspects
        /\ t.pid \in ask.pids /\ t.pid # Me
        /\ t.born < clock /\ clock - t.born >= ask.minAge
        /\ IsServer(t.pid) /\ proc[t.pid].born = t.born /\ Orphan(t.pid)
  BY CandidatesAreOrphans
<1>2. CASE NoInventory
  <2>1. /\ UNCHANGED <<first, targets, signalled, refused, probed>> /\ pc' = "done"
        /\ report' = [kind |-> "report", ok |-> FALSE, terminated |-> {}]
    BY <1>2 DEF NoInventory, Return, history
  <2>2. TypeOK'
    BY <1>0, <2>1 DEF TypeOK
  <2>3. WorldInv' /\ TargetInv' /\ OwnedServersSurvive' /\ VictimsWereListed' /\ ReportInv'
    BY <1>0, <2>1 DEF WorldInv, TargetInv, OwnedServersSurvive, VictimsWereListed, ReportInv,
                      ReportIsTrue, Alive, IsServer, Orphan
  <2> QED
    BY <2>2, <2>3
<1>3. CASE Probe
  <2>1. /\ UNCHANGED <<targets, signalled, refused, probed>> /\ pc = "first"
        /\ first' = Candidates /\ targets = {} /\ victims = {}
        /\ \/ pc' = "second" /\ report' = report
           \/ /\ pc' = "done"
              /\ report' = [kind |-> "report", ok |-> TRUE, terminated |-> {}]
    BY <1>3 DEF Probe, Return, history, TargetInv
  <2>2. report = Pending
    BY <2>1 DEF ReportInv
  <2>3. TypeOK'
    <3>1. report' = Pending \/ report' \in [kind : {"report"}, ok : BOOLEAN, terminated : SUBSET Suspects]
      <4>1. [kind |-> "report", ok |-> TRUE, terminated |-> {}]
              \in [kind : {"report"}, ok : BOOLEAN, terminated : SUBSET Suspects]
        OBVIOUS
      <4>2. CASE report' = report
        BY <2>2, <4>2
      <4>3. CASE report' = [kind |-> "report", ok |-> TRUE, terminated |-> {}]
        BY <4>1, <4>3
      <4> QED
        BY <2>1, <4>2, <4>3
    <3>2. first' \subseteq Suspects /\ targets' \subseteq first'
      BY <1>1, <2>1
    <3>3. pc' \in {"first", "second", "kill", "after", "done"}
      BY <2>1
    <3> QED
      BY <1>0, <2>1, <3>1, <3>2, <3>3 DEF TypeOK
  <2>4. WorldInv' /\ TargetInv' /\ OwnedServersSurvive' /\ VictimsWereListed' /\ ReportInv'
    BY <1>0, <2>1, <2>2 DEF WorldInv, TargetInv, OwnedServersSurvive, VictimsWereListed,
                      ReportInv, ReportIsTrue, Alive, IsServer, Orphan, Pending
  <2> QED
    BY <2>3, <2>4
<1>4. CASE Reprobe
  <2>1. /\ UNCHANGED <<first, signalled, refused>> /\ pc = "second"
        /\ targets' = Candidates \intersect first /\ probed' = clock
        /\ signalled = {} /\ refused = {} /\ victims = {}
        /\ \/ pc' = "kill" /\ report' = report
           \/ /\ pc' = "done" /\ targets' = {}
              /\ report' = [kind |-> "report", ok |-> TRUE, terminated |-> {}]
    BY <1>4 DEF Reprobe, Return, Targets, TargetInv
  <2>2. report = Pending
    BY <2>1 DEF ReportInv
  <2>3. TypeOK'
    <3>1. report' = Pending \/ report' \in [kind : {"report"}, ok : BOOLEAN, terminated : SUBSET Suspects]
      <4>1. [kind |-> "report", ok |-> TRUE, terminated |-> {}]
              \in [kind : {"report"}, ok : BOOLEAN, terminated : SUBSET Suspects]
        OBVIOUS
      <4>2. CASE report' = report
        BY <2>2, <4>2
      <4>3. CASE report' = [kind |-> "report", ok |-> TRUE, terminated |-> {}]
        BY <4>1, <4>3
      <4> QED
        BY <2>1, <4>2, <4>3
    <3>2. first' \subseteq Suspects /\ targets' \subseteq first' /\ signalled' \subseteq targets'
          /\ refused' \subseteq targets' /\ probed' \in Nat
      BY <1>0, <2>1
    <3>3. pc' \in {"first", "second", "kill", "after", "done"}
      BY <2>1
    <3> QED
      BY <1>0, <2>1, <3>1, <3>2, <3>3 DEF TypeOK
  <2>4. WorldInv'
    BY <1>0, <2>1 DEF WorldInv, Alive, IsServer
  <2>5. TargetInv'
    BY <1>0, <1>1, <2>1 DEF TargetInv, Alive, IsServer, Orphan
  <2>6. OwnedServersSurvive' /\ VictimsWereListed'
    BY <1>0, <2>1 DEF OwnedServersSurvive, VictimsWereListed
  <2>7. ReportInv'
    BY <1>0, <2>1, <2>2 DEF ReportInv, ReportIsTrue, Pending
  <2> QED
    BY <2>3, <2>4, <2>5, <2>6, <2>7
<1>5. CASE Wait
  <2>1. /\ UNCHANGED <<first, targets, signalled, refused, report, probed>>
        /\ pc = "kill" /\ pc' = "after" /\ targets = signalled \union refused
    BY <1>5 DEF Wait, history
  <2>2. TypeOK'
    BY <1>0, <2>1 DEF TypeOK
  <2>3. WorldInv' /\ TargetInv' /\ OwnedServersSurvive' /\ VictimsWereListed' /\ ReportInv'
    BY <1>0, <2>1 DEF WorldInv, TargetInv, OwnedServersSurvive, VictimsWereListed,
                      ReportInv, ReportIsTrue, Alive, IsServer, Orphan
  <2> QED
    BY <2>2, <2>3
<1>6. CASE Verify
  <2> DEFINE ended == {t \in signalled : ~IsServer(t.pid)}
  <2>1. /\ UNCHANGED <<first, targets, signalled, refused, probed>> /\ pc = "after" /\ pc' = "done"
        /\ report' = [kind |-> "report", ok |-> refused = {} /\ ended = signalled,
                      terminated |-> ended]
    BY <1>6 DEF Verify, Return, history
  <2>2. ended \subseteq targets /\ \A t \in ended : t.born < clock /\ ~IsServer(t.pid)
    <3>1. \A t \in targets : t.born < probed /\ t.born \in Nat
      BY <1>0 DEF TargetInv, Suspects
    <3> QED
      BY <1>0, <3>1
  <2>3. targets = signalled \union refused
    BY <2>1 DEF ReportInv
  <2>4. (refused = {} /\ ended = signalled) => ended = targets
    BY <2>3
  <2> HIDE DEF ended
  <2>5. TypeOK'
    <3>1. report' \in [kind : {"report"}, ok : BOOLEAN, terminated : SUBSET Suspects]
      <4>1. (refused = {} /\ ended = signalled) \in BOOLEAN
        OBVIOUS
      <4>2. ended \in SUBSET Suspects
        BY <1>0, <2>2
      <4> QED
        BY <2>1, <4>1, <4>2
    <3> QED
      BY <1>0, <2>1, <3>1 DEF TypeOK
  <2>6. WorldInv' /\ TargetInv' /\ OwnedServersSurvive' /\ VictimsWereListed'
    BY <1>0, <2>1 DEF WorldInv, TargetInv, OwnedServersSurvive, VictimsWereListed,
                      Alive, IsServer, Orphan
  <2>7. ReportInv'
    BY <1>0, <2>1, <2>2, <2>4 DEF ReportInv, ReportIsTrue, IsServer
  <2> QED
    BY <2>5, <2>6, <2>7
<1> QED
  BY <1>2, <1>3, <1>4, <1>5, <1>6

\* The invariant of the machine and the call together.
LEMMA ReaperInvariant == Spec => []ReaperInv
<1>1. ReaperInv /\ [Next]_vars => ReaperInv'
  <2> SUFFICES ASSUME ReaperInv, [Next]_vars PROVE ReaperInv'
    OBVIOUS
  <2>1. CASE UNCHANGED vars
    BY <2>1 DEF vars, os, call, history, ReaperInv, TypeOK, WorldInv, TargetInv,
         OwnedServersSurvive, VictimsWereListed, ReportInv, ReportIsTrue, Alive, IsServer, Orphan
  <2>2. CASE Tick \/ (\E p \in Pids : Start(p) \/ Exit(p))
    BY <2>2, MachineKeeps
  <2>3. CASE \E t \in targets : Kill(t)
    BY <2>3, KillKeeps
  <2>4. CASE NoInventory \/ Probe \/ Reprobe \/ Wait \/ Verify
    BY <2>4, ProbesKeep
  <2> QED
    BY <2>1, <2>2, <2>3, <2>4 DEF Next, Reap, Done
<1> QED
  BY <1>1, ReaperInit, PTL DEF Spec

\* Every variable of the call and of the machine keeps its type.
THEOREM ReaperTypeOK == Spec => []TypeOK
  BY ReaperInvariant, PTL DEF ReaperInv

\* A server whose client lives is not killed, however PIDs are reused before the
\* second inventory and whoever exits at any time.
THEOREM OwnedServersAreSafe == Spec => []OwnedServersSurvive
  BY ReaperInvariant, PTL DEF ReaperInv

\* What is killed had been listed twice, is old enough and was asked for, unless
\* it took the PID after the second inventory.
THEOREM OnlyListedDie == Spec => []VictimsWereListed
  BY ReaperInvariant, PTL DEF ReaperInv

\* The report names as terminated only what has ended, and says ok only when every
\* target has; neither stops being true as PIDs are reused afterwards.
THEOREM ReportsAreTrue == Spec => []ReportIsTrue
  BY ReaperInvariant, PTL DEF ReaperInv, ReportInv
=============================================================================
