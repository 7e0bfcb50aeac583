------------------------- MODULE DeviceFlow_proofs -------------------------
(***************************************************************************)
(* The writing tools, for every number of calls, boards and hosts: the     *)
(* invariants that keep a write behind its gate.                           *)
(***************************************************************************)
EXTENDS DeviceFlow, TLAPS

\* A scan is started only while one is left to make.
TriesInv == \A c \in Calls : pc[c] \in {"start", "free", "scan"} => tries[c] <= Retries

\* A call that writes reaches its scan confirmed, and its script with the
\* device it expects; it has started no such script before.
Gated(c) == args[c].confirm /\ args[c].known /\ seen[c] = args[c].expect
Early == {"start", "free", "scan", "scanning", "sweepScan", "scanned", "launch"}

GateInv ==
  \A c \in Calls :
    /\ pc[c] \in Early \ {"start", "launch"} =>
         args[c].confirm /\ args[c].known /\ args[c].writes
    /\ pc[c] = "launch" /\ args[c].writes => Gated(c)
    /\ script[c] \in {"open", "writing"} /\ args[c].writes => Gated(c)
    /\ wrote[c] # None => Gated(c)
    /\ pc[c] \in Early => script[c] \notin {"open", "writing"} /\ wrote[c] = None

FootInv ==
  \A p \in Places : image[p].by # None => Place(image[p].by) = p /\ wrote[image[p].by] # None

\* What the last scan read is on the bench unless somebody exchanged it, and
\* is what the caller expects once the gate is passed.
BoardInv ==
  \A c \in Calls :
    /\ read[c] # None /\ c \notin swapped => board[Place(c)] = read[c]
    /\ args[c].writes /\ (pc[c] = "launch" \/ script[c] \in {"open", "writing"}) =>
         read[c] = args[c].expect
    /\ wrote[c] \notin {None, args[c].expect} => c \in swapped

\* A torn image belongs to a script that is at work or has failed, and a call
\* that succeeds has seen its script end clean.
WholeInv ==
  /\ \A p \in Places : image[p].by # None /\ ~image[p].whole =>
       script[image[p].by] \in {"writing", "failed"}
  /\ \A c \in Calls :
       /\ pc[c] \in {"sweepRun", "ran"} /\ log[c] = "clean" => script[c] = "clean"
       /\ pc[c] \in {"flashed", "viewing", "teardown"} => script[c] = "clean"
       /\ result[c] = "ok" =>
            pc[c] = "done" /\ (script[c] = "clean" \/ (args[c].tool = "cdt" /\ Remote(c)))

\* A script at work is awaited, or waits for the sweep, or escaped it.
AwaitInv ==
  \A c \in Calls : Live(c) =>
    \/ pc[c] \in {"scanning", "running"}
    \/ Remote(c) /\ (pc[c] \in {"sweepScan", "sweepRun"} \/ c \in lost)

\* A GUI that is up has a flow that needs it or left it, and such a flow stays
\* one until it kills the GUI.
GuiInv ==
  /\ GuiLeftOnlyByFailure
  /\ \A c \in Calls : pc[c] \in {"flashed", "viewing", "teardown"} => args[c].tool = "ila"
  /\ \A c \in Calls : result[c] # "none" => pc[c] = "done"

DeviceInv ==
  TypeOK /\ TriesInv /\ GateInv /\ FootInv /\ BoardInv /\ WholeInv /\ AwaitInv /\ GuiInv

\* TypeOK in three parts.
BenchTypes ==
  /\ board \in [Places -> Devices]
  /\ image \in [Places -> [by : Calls \union {None}, whole : BOOLEAN]]
  /\ held \in [Places -> BOOLEAN] /\ gui \in [Places -> BOOLEAN]
  /\ swaps \in 0..MaxSwaps
CallTypes ==
  /\ args \in [Calls -> Choices]
  /\ pc \in [Calls -> {"start", "free", "scan", "scanning", "sweepScan", "scanned", "launch",
                       "running", "sweepRun", "ran", "flashed", "viewing", "teardown", "done"}]
  /\ tries \in [Calls -> 0..(Retries + 1)]
  /\ result \in [Calls -> {"none", "refused", "error", "failed", "ok"}]
ScriptTypes ==
  /\ script \in [Calls -> {"none", "reading", "open", "writing", "clean", "failed"}]
  /\ read \in [Calls -> Devices \union {None}]
  /\ log \in [Calls -> {"none", "clean", "failed", "timeout"}]
  /\ seen \in [Calls -> Devices \union {None}]
  /\ wrote \in [Calls -> Devices \union {None}]
  /\ swapped \subseteq Calls /\ lost \subseteq Calls

-----------------------------------------------------------------------------
\* The parts make up TypeOK, before and after a step.
LEMMA TypeParts ==
  /\ TypeOK <=> BenchTypes /\ CallTypes /\ ScriptTypes
  /\ TypeOK' <=> BenchTypes' /\ CallTypes' /\ ScriptTypes'
BY DEF TypeOK, BenchTypes, CallTypes, ScriptTypes

\* The initial values have their types ...
LEMMA InitTypes == Init => TypeOK /\ TriesInv
BY DeviceAssumption DEF Init, TypeOK, TriesInv, Blank, Place

\* ... and every step keeps them, and counts the scans.
LEMMA NextTypes == TypeOK /\ TriesInv /\ [Next]_vars => TypeOK' /\ TriesInv'
<1> SUFFICES ASSUME TypeOK, TriesInv, [Next]_vars PROVE TypeOK' /\ TriesInv'
  OBVIOUS
<1>0. BenchTypes /\ CallTypes /\ ScriptTypes
  BY TypeParts
<1> USE <1>0, DeviceAssumption DEF BenchTypes, CallTypes, ScriptTypes, TriesInv
<1>1. ASSUME NEW p \in Places, Swap(p) PROVE TypeOK' /\ TriesInv'
  BY <1>1, TypeParts DEF Swap, Blank
<1>2. ASSUME NEW c \in Calls PROVE Place(c) \in Places /\ (Bare(c) => ~Remote(c))
  BY <1>2 DEF Place, Bare, Remote
<1>3. ASSUME NEW c \in Calls, Gate(c) PROVE TypeOK' /\ TriesInv'
  <2>1. BenchTypes'
    BY <1>3, <1>2 DEF Gate, Goto, Answer, bench, history
  <2>2. CallTypes'
    BY <1>3, <1>2 DEF Gate, Goto, Answer, bench, history
  <2>3. ScriptTypes'
    BY <1>3, <1>2 DEF Gate, Goto, Answer, bench, history
  <2>4. TriesInv'
    BY <1>3, <1>2 DEF Gate, Goto, Answer, bench, history
  <2> QED
    BY <2>1, <2>2, <2>3, <2>4, TypeParts
<1>4. ASSUME NEW c \in Calls, KillGui(c) PROVE TypeOK' /\ TriesInv'
  <2>1. BenchTypes'
    BY <1>4, <1>2 DEF KillGui, KillServers, Goto, Answer, bench
  <2>2. CallTypes'
    BY <1>4, <1>2 DEF KillGui, KillServers, Goto, Answer, bench
  <2>3. ScriptTypes'
    BY <1>4, <1>2 DEF KillGui, KillServers, Goto, Answer, bench
  <2>4. TriesInv'
    BY <1>4, <1>2 DEF KillGui, KillServers, Goto, Answer, bench
  <2> QED
    BY <2>1, <2>2, <2>3, <2>4, TypeParts
<1>5. ASSUME NEW c \in Calls, Scan(c) PROVE TypeOK' /\ TriesInv'
  <2>1. BenchTypes'
    BY <1>5, <1>2 DEF Scan, Launch, Goto
  <2>2. CallTypes'
    BY <1>5, <1>2 DEF Scan, Launch, Goto
  <2>3. ScriptTypes'
    BY <1>5, <1>2 DEF Scan, Launch, Goto
  <2>4. TriesInv'
    BY <1>5, <1>2 DEF Scan, Launch, Goto
  <2> QED
    BY <2>1, <2>2, <2>3, <2>4, TypeParts
<1>6. ASSUME NEW c \in Calls, Run(c) PROVE TypeOK' /\ TriesInv'
  <2>1. BenchTypes'
    BY <1>6, <1>2 DEF Run, Launch, Goto
  <2>2. CallTypes'
    BY <1>6, <1>2 DEF Run, Launch, Goto
  <2>3. ScriptTypes'
    BY <1>6, <1>2 DEF Run, Launch, Goto
  <2>4. TriesInv'
    BY <1>6, <1>2 DEF Run, Launch, Goto
  <2> QED
    BY <2>1, <2>2, <2>3, <2>4, TypeParts
<1>7. ASSUME NEW c \in Calls, Throw(c) PROVE TypeOK' /\ TriesInv'
  <2>1. BenchTypes'
    BY <1>7, <1>2 DEF Throw, KillServers, Goto, Answer, Remote
  <2>2. CallTypes'
    BY <1>7, <1>2 DEF Throw, KillServers, Goto, Answer, Remote
  <2>3. ScriptTypes'
    BY <1>7, <1>2 DEF Throw, KillServers, Goto, Answer, Remote
  <2>4. TriesInv'
    BY <1>7, <1>2 DEF Throw, KillServers, Goto, Answer, Remote
  <2> QED
    BY <2>1, <2>2, <2>3, <2>4, TypeParts
<1>8. ASSUME NEW c \in Calls, Collect(c) PROVE TypeOK' /\ TriesInv'
  <2>1. BenchTypes'
    BY <1>8, <1>2 DEF Collect, Goto, After, Live, Remote, bench, history
  <2>2. CallTypes'
    BY <1>8, <1>2 DEF Collect, Goto, After, Live, Remote, bench, history
  <2>3. ScriptTypes'
    BY <1>8, <1>2 DEF Collect, Goto, After, Live, Remote, bench, history
  <2>4. TriesInv'
    BY <1>8, <1>2 DEF Collect, Goto, After, Live, Remote, bench, history
  <2> QED
    BY <2>1, <2>2, <2>3, <2>4, TypeParts
<1>9. ASSUME NEW c \in Calls, Timeout(c) PROVE TypeOK' /\ TriesInv'
  <2>1. BenchTypes'
    BY <1>9, <1>2 DEF Timeout, Goto, After, bench, history
  <2>2. CallTypes'
    BY <1>9, <1>2 DEF Timeout, Goto, After, bench, history
  <2>3. ScriptTypes'
    BY <1>9, <1>2 DEF Timeout, Goto, After, bench, history
  <2>4. TriesInv'
    BY <1>9, <1>2 DEF Timeout, Goto, After, bench, history
  <2> QED
    BY <2>1, <2>2, <2>3, <2>4, TypeParts
<1>10. ASSUME NEW c \in Calls, Sweep(c) PROVE TypeOK' /\ TriesInv'
  <2>1. BenchTypes'
    BY <1>10, <1>2 DEF Sweep, KillServers, Goto
  <2>2. CallTypes'
    BY <1>10, <1>2 DEF Sweep, KillServers, Goto
  <2>3. ScriptTypes'
    BY <1>10, <1>2 DEF Sweep, KillServers, Goto
  <2>4. TriesInv'
    BY <1>10, <1>2 DEF Sweep, KillServers, Goto
  <2> QED
    BY <2>1, <2>2, <2>3, <2>4, TypeParts
<1>11. ASSUME NEW c \in Calls, JudgeScan(c) PROVE TypeOK' /\ TriesInv'
  <2>a. \E l \in {"scan", "launch", "done"} : pc' = [pc EXCEPT ![c] = l]
    BY <1>11 DEF JudgeScan, MayRetry, Goto, Answer, bench, history
  <2>b. result' = result \/ \E v \in {"failed", "ok"} : result' = [result EXCEPT ![c] = v]
    BY <1>11 DEF JudgeScan, MayRetry, Goto, Answer, bench, history
  <2>c. args' = args /\ tries' = tries
    BY <1>11 DEF JudgeScan, MayRetry, Goto, Answer, bench, history
  <2>f. pc' \in [Calls -> {"start", "free", "scan", "scanning", "sweepScan", "scanned", "launch",
                       "running", "sweepRun", "ran", "flashed", "viewing", "teardown", "done"}]
    BY <2>a
  <2>g. result' \in [Calls -> {"none", "refused", "error", "failed", "ok"}]
    BY <2>b
  <2>d. seen' = seen \/ seen' = [seen EXCEPT ![c] = args[c].expect]
    BY <1>11 DEF JudgeScan, MayRetry, Goto, Answer, bench, history
  <2>e. args[c].expect \in Devices /\ UNCHANGED <<script, read, log, wrote, swapped, lost>>
    BY <1>11 DEF JudgeScan, MayRetry, Goto, Answer, bench, history
  <2>1. BenchTypes'
    BY <1>11, <1>2 DEF JudgeScan, MayRetry, Goto, Answer, bench, history
  <2>2. CallTypes'
    BY <2>c, <2>f, <2>g
  <2>3. ScriptTypes'
    BY <2>d, <2>e
  <2>4. TriesInv'
    BY <1>11, <1>2 DEF JudgeScan, MayRetry, Goto, Answer, bench, history
  <2> QED
    BY <2>1, <2>2, <2>3, <2>4, TypeParts
<1>12. ASSUME NEW c \in Calls, JudgeRun(c) PROVE TypeOK' /\ TriesInv'
  <2>a. \E l \in {"flashed", "done"} : pc' = [pc EXCEPT ![c] = l]
    BY <1>12 DEF JudgeRun, Verdicts, Goto, Answer, bench, history
  <2>b. result' = result \/ \E v \in {"failed", "ok"} : result' = [result EXCEPT ![c] = v]
    BY <1>12 DEF JudgeRun, Verdicts, Goto, Answer, bench, history
  <2>c. args' = args /\ tries' = tries
    BY <1>12 DEF JudgeRun, Verdicts, Goto, Answer, bench, history
  <2>f. pc' \in [Calls -> {"start", "free", "scan", "scanning", "sweepScan", "scanned", "launch",
                       "running", "sweepRun", "ran", "flashed", "viewing", "teardown", "done"}]
    BY <2>a
  <2>g. result' \in [Calls -> {"none", "refused", "error", "failed", "ok"}]
    BY <2>b
  <2>1. BenchTypes'
    BY <1>12, <1>2 DEF JudgeRun, Verdicts, Goto, Answer, bench, history
  <2>2. CallTypes'
    BY <2>c, <2>f, <2>g
  <2>3. ScriptTypes'
    BY <1>12, <1>2 DEF JudgeRun, Verdicts, Goto, Answer, bench, history
  <2>4. TriesInv'
    BY <1>12, <1>2 DEF JudgeRun, Verdicts, Goto, Answer, bench, history
  <2> QED
    BY <2>1, <2>2, <2>3, <2>4, TypeParts
<1>13. ASSUME NEW c \in Calls, OpenGui(c) PROVE TypeOK' /\ TriesInv'
  <2>a. \E l \in {"viewing", "done"} : pc' = [pc EXCEPT ![c] = l]
    BY <1>13 DEF OpenGui, Goto, Answer, history
  <2>b. result' = result \/ \E v \in {"failed", "ok"} : result' = [result EXCEPT ![c] = v]
    BY <1>13 DEF OpenGui, Goto, Answer, history
  <2>c. args' = args /\ tries' = tries
    BY <1>13 DEF OpenGui, Goto, Answer, history
  <2>f. pc' \in [Calls -> {"start", "free", "scan", "scanning", "sweepScan", "scanned", "launch",
                       "running", "sweepRun", "ran", "flashed", "viewing", "teardown", "done"}]
    BY <2>a
  <2>g. result' \in [Calls -> {"none", "refused", "error", "failed", "ok"}]
    BY <2>b
  <2>1. BenchTypes'
    BY <1>13, <1>2 DEF OpenGui, Goto, Answer, history
  <2>2. CallTypes'
    BY <2>c, <2>f, <2>g
  <2>3. ScriptTypes'
    BY <1>13, <1>2 DEF OpenGui, Goto, Answer, history
  <2>4. TriesInv'
    BY <1>13, <1>2 DEF OpenGui, Goto, Answer, history
  <2> QED
    BY <2>1, <2>2, <2>3, <2>4, TypeParts
<1>14. ASSUME NEW c \in Calls, Capture(c) PROVE TypeOK' /\ TriesInv'
  <2>a. \E l \in {"teardown", "done"} : pc' = [pc EXCEPT ![c] = l]
    BY <1>14 DEF Capture, Goto, Answer, bench, history
  <2>b. result' = result \/ \E v \in {"failed", "ok"} : result' = [result EXCEPT ![c] = v]
    BY <1>14 DEF Capture, Goto, Answer, bench, history
  <2>c. args' = args /\ tries' = tries
    BY <1>14 DEF Capture, Goto, Answer, bench, history
  <2>f. pc' \in [Calls -> {"start", "free", "scan", "scanning", "sweepScan", "scanned", "launch",
                       "running", "sweepRun", "ran", "flashed", "viewing", "teardown", "done"}]
    BY <2>a
  <2>g. result' \in [Calls -> {"none", "refused", "error", "failed", "ok"}]
    BY <2>b
  <2>1. BenchTypes'
    BY <1>14, <1>2 DEF Capture, Goto, Answer, bench, history
  <2>2. CallTypes'
    BY <2>c, <2>f, <2>g
  <2>3. ScriptTypes'
    BY <1>14, <1>2 DEF Capture, Goto, Answer, bench, history
  <2>4. TriesInv'
    BY <1>14, <1>2 DEF Capture, Goto, Answer, bench, history
  <2> QED
    BY <2>1, <2>2, <2>3, <2>4, TypeParts
<1>15. ASSUME NEW c \in Calls, Read(c) PROVE TypeOK' /\ TriesInv'
  <2>1. BenchTypes'
    BY <1>15, <1>2 DEF Read, bench, history
  <2>2. CallTypes'
    BY <1>15, <1>2 DEF Read, bench, history
  <2>3. ScriptTypes'
    BY <1>15, <1>2 DEF Read, bench, history
  <2>4. TriesInv'
    BY <1>15, <1>2 DEF Read, bench, history
  <2> QED
    BY <2>1, <2>2, <2>3, <2>4, TypeParts
<1>16. ASSUME NEW c \in Calls, Touch(c) PROVE TypeOK' /\ TriesInv'
  <2>1. BenchTypes'
    BY <1>16, <1>2 DEF Touch
  <2>2. CallTypes'
    BY <1>16, <1>2 DEF Touch
  <2>3. ScriptTypes'
    BY <1>16, <1>2 DEF Touch
  <2>4. TriesInv'
    BY <1>16, <1>2 DEF Touch
  <2> QED
    BY <2>1, <2>2, <2>3, <2>4, TypeParts
<1>17. ASSUME NEW c \in Calls, Finish(c) PROVE TypeOK' /\ TriesInv'
  <2>a. image' = [image EXCEPT ![Place(c)] = [@ EXCEPT !.whole = TRUE]]
    BY <1>17 DEF Finish, history
  <2>d. image[Place(c)] \in [by : Calls \union {None}, whole : BOOLEAN]
    BY <1>2
  <2>b. [image[Place(c)] EXCEPT !.whole = TRUE] \in [by : Calls \union {None}, whole : BOOLEAN]
    BY <2>d
  <2>c. UNCHANGED <<board, held, gui, swaps>>
    BY <1>17 DEF Finish, history
  <2>1. BenchTypes'
    BY <2>a, <2>b, <2>c, <1>2
  <2>2. CallTypes'
    BY <1>17, <1>2 DEF Finish, history
  <2>3. ScriptTypes'
    BY <1>17, <1>2 DEF Finish, history
  <2>4. TriesInv'
    BY <1>17, <1>2 DEF Finish, history
  <2> QED
    BY <2>1, <2>2, <2>3, <2>4, TypeParts
<1>18. ASSUME NEW c \in Calls, EndRead(c) PROVE TypeOK' /\ TriesInv'
  <2>1. BenchTypes'
    BY <1>18, <1>2 DEF EndRead, bench, history
  <2>2. CallTypes'
    BY <1>18, <1>2 DEF EndRead, bench, history
  <2>3. ScriptTypes'
    BY <1>18, <1>2 DEF EndRead, bench, history
  <2>4. TriesInv'
    BY <1>18, <1>2 DEF EndRead, bench, history
  <2> QED
    BY <2>1, <2>2, <2>3, <2>4, TypeParts
<1>19. ASSUME NEW c \in Calls, Fail(c) PROVE TypeOK' /\ TriesInv'
  <2>1. BenchTypes'
    BY <1>19, <1>2 DEF Fail, bench, history
  <2>2. CallTypes'
    BY <1>19, <1>2 DEF Fail, bench, history
  <2>3. ScriptTypes'
    BY <1>19, <1>2 DEF Fail, bench, history
  <2>4. TriesInv'
    BY <1>19, <1>2 DEF Fail, bench, history
  <2> QED
    BY <2>1, <2>2, <2>3, <2>4, TypeParts
<1>20. CASE UNCHANGED vars
  BY <1>20, TypeParts DEF vars, bench, history
<1> QED
  BY <1>1, <1>3, <1>4, <1>5, <1>6, <1>7, <1>8, <1>9, <1>10, <1>11, <1>12, <1>13, <1>14, <1>15, <1>16, <1>17, <1>18, <1>19, <1>20 DEF Next, CallStep, ScriptStep, Rest

-----------------------------------------------------------------------------
\* GateInv holds initially ...
LEMMA InitGateInv == Init => GateInv
BY DeviceAssumption DEF Init, Blank, GateInv, Gated, Early

\* ... and every step keeps it.
LEMMA NextGateInv == TypeOK /\ GateInv /\ [Next]_vars => GateInv'
<1> SUFFICES ASSUME TypeOK, GateInv, [Next]_vars PROVE GateInv'
  OBVIOUS
<1>0. BenchTypes /\ CallTypes /\ ScriptTypes
  BY TypeParts
<1> USE <1>0, DeviceAssumption DEF BenchTypes, CallTypes, ScriptTypes, Place, Gated, Early, GateInv
<1>1. ASSUME NEW p \in Places, Swap(p) PROVE GateInv'
  BY <1>1 DEF Swap, Blank
<1>2. ASSUME NEW c \in Calls PROVE Place(c) \in Places /\ (Bare(c) => ~Remote(c))
  BY <1>2 DEF Bare, Remote
<1>3. ASSUME NEW c \in Calls, Gate(c) PROVE GateInv'
  BY <1>3, <1>2 DEF Gate, Goto, Answer, bench, history
<1>4. ASSUME NEW c \in Calls, KillGui(c) PROVE GateInv'
  BY <1>4, <1>2 DEF KillGui, KillServers, Goto, Answer, bench, Live
<1>5. ASSUME NEW c \in Calls, Scan(c) PROVE GateInv'
  BY <1>5, <1>2 DEF Scan, Launch, Goto
<1>6. ASSUME NEW c \in Calls, Run(c) PROVE GateInv'
  BY <1>6, <1>2 DEF Run, Launch, Goto
<1>7. ASSUME NEW c \in Calls, Throw(c) PROVE GateInv'
  BY <1>7, <1>2 DEF Throw, KillServers, Goto, Answer, Remote, Bare, Live
<1>8. ASSUME NEW c \in Calls, Collect(c) PROVE GateInv'
  BY <1>8, <1>2 DEF Collect, Goto, After, Live, Remote, bench, history, Remote
<1>9. ASSUME NEW c \in Calls, Timeout(c) PROVE GateInv'
  BY <1>9, <1>2 DEF Timeout, Goto, After, bench, history, Remote
<1>10. ASSUME NEW c \in Calls, Sweep(c) PROVE GateInv'
  BY <1>10, <1>2 DEF Sweep, KillServers, Goto, Live
<1>11. ASSUME NEW c \in Calls, JudgeScan(c) PROVE GateInv'
  BY <1>11, <1>2 DEF JudgeScan, Found, MayRetry, Goto, Answer, bench, history
<1>12. ASSUME NEW c \in Calls, JudgeRun(c) PROVE GateInv'
  BY <1>12, <1>2 DEF JudgeRun, Verdicts, Goto, Answer, bench, history
<1>13. ASSUME NEW c \in Calls, OpenGui(c) PROVE GateInv'
  BY <1>13, <1>2 DEF OpenGui, Goto, Answer, history
<1>14. ASSUME NEW c \in Calls, Capture(c) PROVE GateInv'
  BY <1>14, <1>2 DEF Capture, Goto, Answer, bench, history
<1>15. ASSUME NEW c \in Calls, Read(c) PROVE GateInv'
  BY <1>15, <1>2 DEF Read, bench, history
<1>16. ASSUME NEW c \in Calls, Touch(c) PROVE GateInv'
  BY <1>16, <1>2 DEF Touch
<1>17. ASSUME NEW c \in Calls, Finish(c) PROVE GateInv'
  BY <1>17, <1>2 DEF Finish, history
<1>18. ASSUME NEW c \in Calls, EndRead(c) PROVE GateInv'
  BY <1>18, <1>2 DEF EndRead, bench, history
<1>19. ASSUME NEW c \in Calls, Fail(c) PROVE GateInv'
  BY <1>19, <1>2 DEF Fail, bench, history
<1>20. CASE UNCHANGED vars
  BY <1>20 DEF vars, bench, history
<1> QED
  BY <1>1, <1>3, <1>4, <1>5, <1>6, <1>7, <1>8, <1>9, <1>10, <1>11, <1>12, <1>13, <1>14, <1>15, <1>16, <1>17, <1>18, <1>19, <1>20 DEF Next, CallStep, ScriptStep, Rest

-----------------------------------------------------------------------------
\* FootInv holds initially ...
LEMMA InitFootInv == Init => FootInv
BY DeviceAssumption DEF Init, Blank, FootInv, Gated, Early

\* ... and every step keeps it.
LEMMA NextFootInv == TypeOK /\ GateInv /\ FootInv /\ [Next]_vars => FootInv'
<1> SUFFICES ASSUME TypeOK, GateInv, FootInv, [Next]_vars PROVE FootInv'
  OBVIOUS
<1>0. BenchTypes /\ CallTypes /\ ScriptTypes
  BY TypeParts
<1> USE <1>0, DeviceAssumption DEF BenchTypes, CallTypes, ScriptTypes, Place, Gated, Early, GateInv, FootInv
<1>1. ASSUME NEW p \in Places, Swap(p) PROVE FootInv'
  BY <1>1 DEF Swap, Blank
<1>2. ASSUME NEW c \in Calls PROVE Place(c) \in Places /\ (Bare(c) => ~Remote(c))
  BY <1>2 DEF Bare, Remote
<1>3. ASSUME NEW c \in Calls, Gate(c) PROVE FootInv'
  BY <1>3, <1>2 DEF Gate, Goto, Answer, bench, history
<1>4. ASSUME NEW c \in Calls, KillGui(c) PROVE FootInv'
  BY <1>4, <1>2 DEF KillGui, KillServers, Goto, Answer, bench, Live
<1>5. ASSUME NEW c \in Calls, Scan(c) PROVE FootInv'
  BY <1>5, <1>2 DEF Scan, Launch, Goto
<1>6. ASSUME NEW c \in Calls, Run(c) PROVE FootInv'
  BY <1>6, <1>2 DEF Run, Launch, Goto
<1>7. ASSUME NEW c \in Calls, Throw(c) PROVE FootInv'
  BY <1>7, <1>2 DEF Throw, KillServers, Goto, Answer, Remote, Bare, Live
<1>8. ASSUME NEW c \in Calls, Collect(c) PROVE FootInv'
  BY <1>8, <1>2 DEF Collect, Goto, After, Live, Remote, bench, history, Remote
<1>9. ASSUME NEW c \in Calls, Timeout(c) PROVE FootInv'
  BY <1>9, <1>2 DEF Timeout, Goto, After, bench, history, Remote
<1>10. ASSUME NEW c \in Calls, Sweep(c) PROVE FootInv'
  BY <1>10, <1>2 DEF Sweep, KillServers, Goto, Live
<1>11. ASSUME NEW c \in Calls, JudgeScan(c) PROVE FootInv'
  BY <1>11, <1>2 DEF JudgeScan, Found, MayRetry, Goto, Answer, bench, history
<1>12. ASSUME NEW c \in Calls, JudgeRun(c) PROVE FootInv'
  BY <1>12, <1>2 DEF JudgeRun, Verdicts, Goto, Answer, bench, history
<1>13. ASSUME NEW c \in Calls, OpenGui(c) PROVE FootInv'
  BY <1>13, <1>2 DEF OpenGui, Goto, Answer, history
<1>14. ASSUME NEW c \in Calls, Capture(c) PROVE FootInv'
  BY <1>14, <1>2 DEF Capture, Goto, Answer, bench, history
<1>15. ASSUME NEW c \in Calls, Read(c) PROVE FootInv'
  BY <1>15, <1>2 DEF Read, bench, history
<1>16. ASSUME NEW c \in Calls, Touch(c) PROVE FootInv'
  BY <1>16, <1>2 DEF Touch
<1>17. ASSUME NEW c \in Calls, Finish(c) PROVE FootInv'
  BY <1>17, <1>2 DEF Finish, history
<1>18. ASSUME NEW c \in Calls, EndRead(c) PROVE FootInv'
  BY <1>18, <1>2 DEF EndRead, bench, history
<1>19. ASSUME NEW c \in Calls, Fail(c) PROVE FootInv'
  BY <1>19, <1>2 DEF Fail, bench, history
<1>20. CASE UNCHANGED vars
  BY <1>20 DEF vars, bench, history
<1> QED
  BY <1>1, <1>3, <1>4, <1>5, <1>6, <1>7, <1>8, <1>9, <1>10, <1>11, <1>12, <1>13, <1>14, <1>15, <1>16, <1>17, <1>18, <1>19, <1>20 DEF Next, CallStep, ScriptStep, Rest

-----------------------------------------------------------------------------
\* BoardInv holds initially ...
LEMMA InitBoardInv == Init => BoardInv
BY DeviceAssumption DEF Init, Blank, BoardInv, Gated, Early

\* ... and every step keeps it.
LEMMA NextBoardInv == TypeOK /\ GateInv /\ BoardInv /\ [Next]_vars => BoardInv'
<1> SUFFICES ASSUME TypeOK, GateInv, BoardInv, [Next]_vars PROVE BoardInv'
  OBVIOUS
<1>0. BenchTypes /\ CallTypes /\ ScriptTypes
  BY TypeParts
<1> USE <1>0, DeviceAssumption DEF BenchTypes, CallTypes, ScriptTypes, Place, Gated, Early, GateInv, BoardInv
<1>1. ASSUME NEW p \in Places, Swap(p) PROVE BoardInv'
  BY <1>1 DEF Swap, Blank
<1>2. ASSUME NEW c \in Calls PROVE Place(c) \in Places /\ (Bare(c) => ~Remote(c))
  BY <1>2 DEF Bare, Remote
<1>3. ASSUME NEW c \in Calls, Gate(c) PROVE BoardInv'
  BY <1>3, <1>2 DEF Gate, Goto, Answer, bench, history
<1>4. ASSUME NEW c \in Calls, KillGui(c) PROVE BoardInv'
  BY <1>4, <1>2 DEF KillGui, KillServers, Goto, Answer, bench, Live
<1>5. ASSUME NEW c \in Calls, Scan(c) PROVE BoardInv'
  BY <1>5, <1>2 DEF Scan, Launch, Goto
<1>6. ASSUME NEW c \in Calls, Run(c) PROVE BoardInv'
  BY <1>6, <1>2 DEF Run, Launch, Goto
<1>7. ASSUME NEW c \in Calls, Throw(c) PROVE BoardInv'
  BY <1>7, <1>2 DEF Throw, KillServers, Goto, Answer, Remote, Bare, Live
<1>8. ASSUME NEW c \in Calls, Collect(c) PROVE BoardInv'
  BY <1>8, <1>2 DEF Collect, Goto, After, Live, Remote, bench, history, Remote
<1>9. ASSUME NEW c \in Calls, Timeout(c) PROVE BoardInv'
  BY <1>9, <1>2 DEF Timeout, Goto, After, bench, history, Remote
<1>10. ASSUME NEW c \in Calls, Sweep(c) PROVE BoardInv'
  BY <1>10, <1>2 DEF Sweep, KillServers, Goto, Live
<1>11. ASSUME NEW c \in Calls, JudgeScan(c) PROVE BoardInv'
  <2>1. Found(c) \subseteq {read[c], None}
    BY DEF Found
  <2>2. args[c].expect \in Devices
    BY <1>2
  <2>3. pc'[c] = "launch" => read[c] = args[c].expect
    BY <1>11, <2>1, <2>2 DEF JudgeScan, Goto, Answer
  <2>4. \E l \in {"scan", "launch", "done"} : pc' = [pc EXCEPT ![c] = l]
    BY <1>11 DEF JudgeScan, Goto, Answer
  <2>5. UNCHANGED <<board, args, script, read, wrote, swapped>>
    BY <1>11 DEF JudgeScan, bench, history
  <2> QED
    BY <2>3, <2>4, <2>5
<1>12. ASSUME NEW c \in Calls, JudgeRun(c) PROVE BoardInv'
  BY <1>12, <1>2 DEF JudgeRun, Verdicts, Goto, Answer, bench, history
<1>13. ASSUME NEW c \in Calls, OpenGui(c) PROVE BoardInv'
  BY <1>13, <1>2 DEF OpenGui, Goto, Answer, history
<1>14. ASSUME NEW c \in Calls, Capture(c) PROVE BoardInv'
  BY <1>14, <1>2 DEF Capture, Goto, Answer, bench, history
<1>15. ASSUME NEW c \in Calls, Read(c) PROVE BoardInv'
  BY <1>15, <1>2 DEF Read, bench, history
<1>16. ASSUME NEW c \in Calls, Touch(c) PROVE BoardInv'
  BY <1>16, <1>2 DEF Touch
<1>17. ASSUME NEW c \in Calls, Finish(c) PROVE BoardInv'
  BY <1>17, <1>2 DEF Finish, history
<1>18. ASSUME NEW c \in Calls, EndRead(c) PROVE BoardInv'
  BY <1>18, <1>2 DEF EndRead, bench, history
<1>19. ASSUME NEW c \in Calls, Fail(c) PROVE BoardInv'
  BY <1>19, <1>2 DEF Fail, bench, history
<1>20. CASE UNCHANGED vars
  BY <1>20 DEF vars, bench, history
<1> QED
  BY <1>1, <1>3, <1>4, <1>5, <1>6, <1>7, <1>8, <1>9, <1>10, <1>11, <1>12, <1>13, <1>14, <1>15, <1>16, <1>17, <1>18, <1>19, <1>20 DEF Next, CallStep, ScriptStep, Rest

-----------------------------------------------------------------------------
\* WholeInv holds initially ...
LEMMA InitWholeInv == Init => WholeInv
BY DeviceAssumption DEF Init, Blank, WholeInv, Gated, Early, Remote

\* ... and every step keeps it.
LEMMA NextWholeInv == TypeOK /\ GateInv /\ FootInv /\ WholeInv /\ [Next]_vars => WholeInv'
<1> SUFFICES ASSUME TypeOK, GateInv, FootInv, WholeInv, [Next]_vars PROVE WholeInv'
  OBVIOUS
<1>0. BenchTypes /\ CallTypes /\ ScriptTypes
  BY TypeParts
<1> USE <1>0, DeviceAssumption DEF BenchTypes, CallTypes, ScriptTypes, Place, Gated, Early, Remote, GateInv, FootInv, WholeInv
<1>1. ASSUME NEW p \in Places, Swap(p) PROVE WholeInv'
  BY <1>1 DEF Swap, Blank
<1>2. ASSUME NEW c \in Calls PROVE Place(c) \in Places /\ (Bare(c) => ~Remote(c))
  BY <1>2 DEF Bare, Remote
<1>3. ASSUME NEW c \in Calls, Gate(c) PROVE WholeInv'
  BY <1>3, <1>2 DEF Gate, Goto, Answer, bench, history
<1>4. ASSUME NEW c \in Calls, KillGui(c) PROVE WholeInv'
  <2>1. UNCHANGED <<image, args, log>>
    BY <1>4 DEF KillGui
  <2>2. \/ pc[c] = "free" /\ pc' = [pc EXCEPT ![c] = "scan"] /\ result' = result
        \/ /\ pc[c] = "teardown" /\ pc' = [pc EXCEPT ![c] = "done"]
           /\ result' = [result EXCEPT ![c] = "ok"]
    BY <1>4 DEF KillGui, Goto, Answer
  <2>3. /\ script' \in [Calls -> {"none", "reading", "open", "writing", "clean", "failed"}]
        /\ \A d \in Calls : script'[d] = script[d] \/ (Live(d) /\ script'[d] = "failed")
    BY <1>4 DEF KillGui, KillServers
  <2>4. \A p \in Places : image'[p].by # None /\ ~image'[p].whole =>
          script'[image'[p].by] \in {"writing", "failed"}
    BY <2>1, <2>3 DEF Live
  <2>5. \A d \in Calls : script[d] = "clean" => script'[d] = "clean"
    BY <2>3 DEF Live
  <2>6. ASSUME NEW d \in Calls, result'[d] = "ok"
        PROVE pc'[d] = "done" /\ (script'[d] = "clean" \/ (args[d].tool = "cdt" /\ Remote(d)))
    BY <2>2, <2>5, <2>6
  <2>7. ASSUME NEW d \in Calls
        PROVE /\ pc'[d] \in {"sweepRun", "ran"} /\ log'[d] = "clean" => script'[d] = "clean"
              /\ pc'[d] \in {"flashed", "viewing", "teardown"} => script'[d] = "clean"
    BY <2>1, <2>2, <2>5, <2>7
  <2> QED
    BY <2>1, <2>4, <2>6, <2>7
<1>5. ASSUME NEW c \in Calls, Scan(c) PROVE WholeInv'
  <2>1. wrote[c] = None
    BY <1>5 DEF Scan
  <2>2. UNCHANGED <<image, args, log, result>>
    BY <1>5 DEF Scan, Launch
  <2>3. pc' = [pc EXCEPT ![c] = "scanning"] /\ pc[c] = "scan"
    BY <1>5 DEF Scan, Launch, Goto
  <2>4. \E s \in {"reading", "failed"} : script' = [script EXCEPT ![c] = s]
    BY <1>5 DEF Scan, Launch
  <2> QED
    BY <2>1, <2>2, <2>3, <2>4
<1>6. ASSUME NEW c \in Calls, Run(c) PROVE WholeInv'
  BY <1>6, <1>2 DEF Run, Launch, Goto
<1>7. ASSUME NEW c \in Calls, Throw(c) PROVE WholeInv'
  <2>1. UNCHANGED <<image, args, log>>
    BY <1>7 DEF Throw
  <2>2. pc' = [pc EXCEPT ![c] = "done"] /\ result' = [result EXCEPT ![c] = "error"]
    BY <1>7 DEF Throw, Goto, Answer
  <2>3. /\ script' \in [Calls -> {"none", "reading", "open", "writing", "clean", "failed"}]
        /\ \A d \in Calls : script'[d] = script[d] \/ (Live(d) /\ script'[d] = "failed")
    BY <1>7 DEF Throw, KillServers
  <2>4. \A p \in Places : image'[p].by # None /\ ~image'[p].whole =>
          script'[image'[p].by] \in {"writing", "failed"}
    BY <2>1, <2>3 DEF Live
  <2>5. \A d \in Calls : script[d] = "clean" => script'[d] = "clean"
    BY <2>3 DEF Live
  <2>6. ASSUME NEW d \in Calls, result'[d] = "ok"
        PROVE pc'[d] = "done" /\ (script'[d] = "clean" \/ (args[d].tool = "cdt" /\ Remote(d)))
    BY <2>2, <2>5, <2>6
  <2>7. ASSUME NEW d \in Calls
        PROVE /\ pc'[d] \in {"sweepRun", "ran"} /\ log'[d] = "clean" => script'[d] = "clean"
              /\ pc'[d] \in {"flashed", "viewing", "teardown"} => script'[d] = "clean"
    BY <2>1, <2>2, <2>5, <2>7
  <2> QED
    BY <2>1, <2>4, <2>6, <2>7
<1>8. ASSUME NEW c \in Calls, Collect(c) PROVE WholeInv'
  BY <1>8, <1>2 DEF Collect, Goto, After, Live, Remote, bench, history, Remote
<1>9. ASSUME NEW c \in Calls, Timeout(c) PROVE WholeInv'
  BY <1>9, <1>2 DEF Timeout, Goto, After, bench, history, Remote
<1>10. ASSUME NEW c \in Calls, Sweep(c) PROVE WholeInv'
  BY <1>10, <1>2 DEF Sweep, KillServers, Goto, Live
<1>11. ASSUME NEW c \in Calls, JudgeScan(c) PROVE WholeInv'
  BY <1>11, <1>2 DEF JudgeScan, Found, MayRetry, Goto, Answer, bench, history
<1>12. ASSUME NEW c \in Calls, JudgeRun(c) PROVE WholeInv'
  BY <1>12, <1>2 DEF JudgeRun, Verdicts, Goto, Answer, bench, history
<1>13. ASSUME NEW c \in Calls, OpenGui(c) PROVE WholeInv'
  BY <1>13, <1>2 DEF OpenGui, Goto, Answer, history
<1>14. ASSUME NEW c \in Calls, Capture(c) PROVE WholeInv'
  BY <1>14, <1>2 DEF Capture, Goto, Answer, bench, history
<1>15. ASSUME NEW c \in Calls, Read(c) PROVE WholeInv'
  BY <1>15, <1>2 DEF Read, bench, history
<1>16. ASSUME NEW c \in Calls, Touch(c) PROVE WholeInv'
  BY <1>16, <1>2 DEF Touch
<1>17. ASSUME NEW c \in Calls, Finish(c) PROVE WholeInv'
  BY <1>17, <1>2 DEF Finish, history
<1>18. ASSUME NEW c \in Calls, EndRead(c) PROVE WholeInv'
  BY <1>18, <1>2 DEF EndRead, bench, history
<1>19. ASSUME NEW c \in Calls, Fail(c) PROVE WholeInv'
  <2>1. UNCHANGED <<image, args, pc, log, result>>
    BY <1>19 DEF Fail, bench
  <2>2. script' = [script EXCEPT ![c] = "failed"] /\ script[c] # "clean"
    BY <1>19 DEF Fail, Live
  <2> QED
    BY <2>1, <2>2
<1>20. CASE UNCHANGED vars
  BY <1>20 DEF vars, bench, history
<1> QED
  BY <1>1, <1>3, <1>4, <1>5, <1>6, <1>7, <1>8, <1>9, <1>10, <1>11, <1>12, <1>13, <1>14, <1>15, <1>16, <1>17, <1>18, <1>19, <1>20 DEF Next, CallStep, ScriptStep, Rest

-----------------------------------------------------------------------------
\* AwaitInv holds initially ...
LEMMA InitAwaitInv == Init => AwaitInv
BY DeviceAssumption DEF Init, Blank, AwaitInv, Live, Remote, Bare

\* ... and every step keeps it.
LEMMA NextAwaitInv == TypeOK /\ AwaitInv /\ [Next]_vars => AwaitInv'
<1> SUFFICES ASSUME TypeOK, AwaitInv, [Next]_vars PROVE AwaitInv'
  OBVIOUS
<1>0. BenchTypes /\ CallTypes /\ ScriptTypes
  BY TypeParts
<1> USE <1>0, DeviceAssumption DEF BenchTypes, CallTypes, ScriptTypes, Place, Live, Remote, Bare, AwaitInv
<1>1. ASSUME NEW p \in Places, Swap(p) PROVE AwaitInv'
  BY <1>1 DEF Swap, Blank
<1>2. ASSUME NEW c \in Calls PROVE Place(c) \in Places /\ (Bare(c) => ~Remote(c))
  BY <1>2 DEF Bare, Remote
<1>3. ASSUME NEW c \in Calls, Gate(c) PROVE AwaitInv'
  BY <1>3, <1>2 DEF Gate, Goto, Answer, bench, history
<1>4. ASSUME NEW c \in Calls, KillGui(c) PROVE AwaitInv'
  BY <1>4, <1>2 DEF KillGui, KillServers, Goto, Answer, bench, Live
<1>5. ASSUME NEW c \in Calls, Scan(c) PROVE AwaitInv'
  BY <1>5, <1>2 DEF Scan, Launch, Goto
<1>6. ASSUME NEW c \in Calls, Run(c) PROVE AwaitInv'
  BY <1>6, <1>2 DEF Run, Launch, Goto
<1>7. ASSUME NEW c \in Calls, Throw(c) PROVE AwaitInv'
  BY <1>7, <1>2 DEF Throw, KillServers, Goto, Answer, Remote, Bare, Live
<1>8. ASSUME NEW c \in Calls, Collect(c) PROVE AwaitInv'
  BY <1>8, <1>2 DEF Collect, Goto, After, Live, Remote, bench, history, Remote
<1>9. ASSUME NEW c \in Calls, Timeout(c) PROVE AwaitInv'
  BY <1>9, <1>2 DEF Timeout, Goto, After, bench, history, Remote
<1>10. ASSUME NEW c \in Calls, Sweep(c) PROVE AwaitInv'
  BY <1>10, <1>2 DEF Sweep, KillServers, Goto, Live
<1>11. ASSUME NEW c \in Calls, JudgeScan(c) PROVE AwaitInv'
  BY <1>11, <1>2 DEF JudgeScan, Found, MayRetry, Goto, Answer, bench, history
<1>12. ASSUME NEW c \in Calls, JudgeRun(c) PROVE AwaitInv'
  BY <1>12, <1>2 DEF JudgeRun, Verdicts, Goto, Answer, bench, history
<1>13. ASSUME NEW c \in Calls, OpenGui(c) PROVE AwaitInv'
  BY <1>13, <1>2 DEF OpenGui, Goto, Answer, history
<1>14. ASSUME NEW c \in Calls, Capture(c) PROVE AwaitInv'
  BY <1>14, <1>2 DEF Capture, Goto, Answer, bench, history
<1>15. ASSUME NEW c \in Calls, Read(c) PROVE AwaitInv'
  BY <1>15, <1>2 DEF Read, bench, history
<1>16. ASSUME NEW c \in Calls, Touch(c) PROVE AwaitInv'
  BY <1>16, <1>2 DEF Touch
<1>17. ASSUME NEW c \in Calls, Finish(c) PROVE AwaitInv'
  BY <1>17, <1>2 DEF Finish, history
<1>18. ASSUME NEW c \in Calls, EndRead(c) PROVE AwaitInv'
  BY <1>18, <1>2 DEF EndRead, bench, history
<1>19. ASSUME NEW c \in Calls, Fail(c) PROVE AwaitInv'
  BY <1>19, <1>2 DEF Fail, bench, history
<1>20. CASE UNCHANGED vars
  BY <1>20 DEF vars, bench, history
<1> QED
  BY <1>1, <1>3, <1>4, <1>5, <1>6, <1>7, <1>8, <1>9, <1>10, <1>11, <1>12, <1>13, <1>14, <1>15, <1>16, <1>17, <1>18, <1>19, <1>20 DEF Next, CallStep, ScriptStep, Rest

-----------------------------------------------------------------------------
\* GuiInv holds initially ...
LEMMA InitGuiInv == Init => GuiInv
BY DeviceAssumption DEF Init, Blank, GuiInv, GuiLeftOnlyByFailure, AccountsForGui

\* ... and every step keeps it.
LEMMA NextGuiInv == TypeOK /\ GuiInv /\ [Next]_vars => GuiInv'
<1> SUFFICES ASSUME TypeOK, GuiInv, [Next]_vars PROVE GuiInv'
  OBVIOUS
<1>0. BenchTypes /\ CallTypes /\ ScriptTypes
  BY TypeParts
<1> USE <1>0, DeviceAssumption DEF BenchTypes, CallTypes, ScriptTypes, Place, GuiLeftOnlyByFailure, AccountsForGui, GuiInv
<1>1. ASSUME NEW p \in Places, Swap(p) PROVE GuiInv'
  BY <1>1 DEF Swap, Blank
<1>2. ASSUME NEW c \in Calls PROVE Place(c) \in Places /\ (Bare(c) => ~Remote(c))
  BY <1>2 DEF Bare, Remote
<1>3. ASSUME NEW c \in Calls, Gate(c) PROVE GuiInv'
  <2>1. args' = args /\ lost \subseteq lost' /\ gui' = gui
    BY <1>3, <1>2 DEF Gate, Goto, Answer, history, bench
  <2>2. \E l \in {"free", "scan", "launch", "done"} : pc' = [pc EXCEPT ![c] = l] /\ pc[c] # "done"
    BY <1>3 DEF Gate, Goto, Answer, history, bench
  <2>3. \/ result' = result
        \/ \E v \in {"ok", "failed", "refused", "error"} :
             pc' = [pc EXCEPT ![c] = "done"] /\ result' = [result EXCEPT ![c] = v]
    BY <1>3 DEF Gate, Goto, Answer, history, bench
  <2>4. pc[c] \notin {"viewing", "teardown"}
    BY <1>3 DEF Gate, Goto, Answer, history, bench
  <2>5. \A d \in Calls, p \in Places : AccountsForGui(d, p) => AccountsForGui(d, p)'
    BY <2>1, <2>2, <2>3, <2>4
  <2>6. pc'[c] \in {"flashed", "viewing", "teardown"} => pc[c] \in {"flashed", "viewing", "teardown"}
    BY <2>2, <1>3 DEF Gate, Goto, Answer, history, bench
  <2>7. GuiLeftOnlyByFailure'
    BY <2>1, <2>5
  <2>8. ASSUME NEW d \in Calls PROVE pc'[d] \in {"flashed", "viewing", "teardown"} => args'[d].tool = "ila"
    BY <2>1, <2>2, <2>6, <2>8
  <2>9. ASSUME NEW d \in Calls PROVE result'[d] # "none" => pc'[d] = "done"
    BY <2>2, <2>3, <2>9
  <2> QED
    BY <2>7, <2>8, <2>9
<1>4. ASSUME NEW c \in Calls, KillGui(c) PROVE GuiInv'
  <2>1. args' = args /\ lost \subseteq lost' /\ \A p \in Places : gui'[p] => gui[p] /\ (p # Place(c) \/ c \in lost')
    BY <1>4, <1>2 DEF KillGui, Goto, Answer, KillServers
  <2>2. \E l \in {"scan", "done"} : pc' = [pc EXCEPT ![c] = l] /\ pc[c] # "done"
    BY <1>4 DEF KillGui, Goto, Answer, KillServers
  <2>3. \/ result' = result
        \/ \E v \in {"ok", "failed", "refused", "error"} :
             pc' = [pc EXCEPT ![c] = "done"] /\ result' = [result EXCEPT ![c] = v]
    BY <1>4 DEF KillGui, Goto, Answer, KillServers
  <2>4. pc[c] \in {"free", "teardown"}
    BY <1>4 DEF KillGui, Goto, Answer, KillServers
  <2>5. \A d \in Calls, p \in Places : AccountsForGui(d, p) /\ (p # Place(c) \/ c \in lost') => AccountsForGui(d, p)'
    BY <2>1, <2>2, <2>3, <2>4
  <2>6. pc'[c] \in {"flashed", "viewing", "teardown"} => pc[c] \in {"flashed", "viewing", "teardown"}
    BY <2>2, <1>4 DEF KillGui, Goto, Answer, KillServers
  <2>7. GuiLeftOnlyByFailure'
    BY <2>1, <2>5
  <2>8. ASSUME NEW d \in Calls PROVE pc'[d] \in {"flashed", "viewing", "teardown"} => args'[d].tool = "ila"
    BY <2>1, <2>2, <2>6, <2>8
  <2>9. ASSUME NEW d \in Calls PROVE result'[d] # "none" => pc'[d] = "done"
    BY <2>2, <2>3, <2>9
  <2> QED
    BY <2>7, <2>8, <2>9
<1>5. ASSUME NEW c \in Calls, Scan(c) PROVE GuiInv'
  BY <1>5, <1>2 DEF Scan, Launch, Goto
<1>6. ASSUME NEW c \in Calls, Run(c) PROVE GuiInv'
  BY <1>6, <1>2 DEF Run, Launch, Goto
<1>7. ASSUME NEW c \in Calls, Throw(c) PROVE GuiInv'
  BY <1>7, <1>2 DEF Throw, KillServers, Goto, Answer, Remote, Bare, Live
<1>8. ASSUME NEW c \in Calls, Collect(c) PROVE GuiInv'
  <2>1. args' = args /\ lost \subseteq lost' /\ gui' = gui
    BY <1>8, <1>2 DEF Collect, Goto, After, history, bench, Remote
  <2>2. \E l \in {"sweepScan", "sweepRun", "scanned", "ran"} : pc' = [pc EXCEPT ![c] = l] /\ pc[c] # "done"
    BY <1>8 DEF Collect, Goto, After, history, bench, Remote
  <2>3. \/ result' = result
        \/ \E v \in {"ok", "failed", "refused", "error"} :
             pc' = [pc EXCEPT ![c] = "done"] /\ result' = [result EXCEPT ![c] = v]
    BY <1>8 DEF Collect, Goto, After, history, bench, Remote
  <2>4. pc[c] \notin {"viewing", "teardown"}
    BY <1>8 DEF Collect, Goto, After, history, bench, Remote
  <2>5. \A d \in Calls, p \in Places : AccountsForGui(d, p) => AccountsForGui(d, p)'
    BY <2>1, <2>2, <2>3, <2>4
  <2>6. pc'[c] \in {"flashed", "viewing", "teardown"} => pc[c] \in {"flashed", "viewing", "teardown"}
    BY <2>2, <1>8 DEF Collect, Goto, After, history, bench, Remote
  <2>7. GuiLeftOnlyByFailure'
    BY <2>1, <2>5
  <2>8. ASSUME NEW d \in Calls PROVE pc'[d] \in {"flashed", "viewing", "teardown"} => args'[d].tool = "ila"
    BY <2>1, <2>2, <2>6, <2>8
  <2>9. ASSUME NEW d \in Calls PROVE result'[d] # "none" => pc'[d] = "done"
    BY <2>2, <2>3, <2>9
  <2> QED
    BY <2>7, <2>8, <2>9
<1>9. ASSUME NEW c \in Calls, Timeout(c) PROVE GuiInv'
  BY <1>9, <1>2 DEF Timeout, Goto, After, bench, history, Remote
<1>10. ASSUME NEW c \in Calls, Sweep(c) PROVE GuiInv'
  BY <1>10, <1>2 DEF Sweep, KillServers, Goto, Live
<1>11. ASSUME NEW c \in Calls, JudgeScan(c) PROVE GuiInv'
  <2>1. args' = args /\ lost \subseteq lost' /\ gui' = gui
    BY <1>11, <1>2 DEF JudgeScan, Goto, Answer, history, bench
  <2>2. \E l \in {"scan", "launch", "done"} : pc' = [pc EXCEPT ![c] = l] /\ pc[c] # "done"
    BY <1>11 DEF JudgeScan, Goto, Answer, history, bench
  <2>3. \/ result' = result
        \/ \E v \in {"ok", "failed", "refused", "error"} :
             pc' = [pc EXCEPT ![c] = "done"] /\ result' = [result EXCEPT ![c] = v]
    BY <1>11 DEF JudgeScan, Goto, Answer, history, bench
  <2>4. pc[c] \notin {"viewing", "teardown"}
    BY <1>11 DEF JudgeScan, Goto, Answer, history, bench
  <2>5. \A d \in Calls, p \in Places : AccountsForGui(d, p) => AccountsForGui(d, p)'
    BY <2>1, <2>2, <2>3, <2>4
  <2>6. pc'[c] \in {"flashed", "viewing", "teardown"} => pc[c] \in {"flashed", "viewing", "teardown"}
    BY <2>2, <1>11 DEF JudgeScan, Goto, Answer, history, bench
  <2>7. GuiLeftOnlyByFailure'
    BY <2>1, <2>5
  <2>8. ASSUME NEW d \in Calls PROVE pc'[d] \in {"flashed", "viewing", "teardown"} => args'[d].tool = "ila"
    BY <2>1, <2>2, <2>6, <2>8
  <2>9. ASSUME NEW d \in Calls PROVE result'[d] # "none" => pc'[d] = "done"
    BY <2>2, <2>3, <2>9
  <2> QED
    BY <2>7, <2>8, <2>9
<1>12. ASSUME NEW c \in Calls, JudgeRun(c) PROVE GuiInv'
  <2>1. args' = args /\ lost \subseteq lost' /\ gui' = gui
    BY <1>12, <1>2 DEF JudgeRun, Verdicts, Goto, Answer, history, bench
  <2>2. \E l \in {"flashed", "done"} : pc' = [pc EXCEPT ![c] = l] /\ pc[c] # "done"
    BY <1>12 DEF JudgeRun, Verdicts, Goto, Answer, history, bench
  <2>3. \/ result' = result
        \/ \E v \in {"ok", "failed", "refused", "error"} :
             pc' = [pc EXCEPT ![c] = "done"] /\ result' = [result EXCEPT ![c] = v]
    BY <1>12 DEF JudgeRun, Verdicts, Goto, Answer, history, bench
  <2>4. pc[c] \notin {"viewing", "teardown"}
    BY <1>12 DEF JudgeRun, Verdicts, Goto, Answer, history, bench
  <2>5. \A d \in Calls, p \in Places : AccountsForGui(d, p) => AccountsForGui(d, p)'
    BY <2>1, <2>2, <2>3, <2>4
  <2>6. pc'[c] \in {"flashed", "viewing", "teardown"} => args[c].tool = "ila"
    BY <1>12 DEF JudgeRun, Verdicts, Goto, Answer, history, bench
  <2>7. GuiLeftOnlyByFailure'
    BY <2>1, <2>5
  <2>8. ASSUME NEW d \in Calls PROVE pc'[d] \in {"flashed", "viewing", "teardown"} => args'[d].tool = "ila"
    BY <2>1, <2>2, <2>6, <2>8
  <2>9. ASSUME NEW d \in Calls PROVE result'[d] # "none" => pc'[d] = "done"
    BY <2>2, <2>3, <2>9
  <2> QED
    BY <2>7, <2>8, <2>9
<1>13. ASSUME NEW c \in Calls, OpenGui(c) PROVE GuiInv'
  <2>1. args' = args /\ lost \subseteq lost' /\ \A p \in Places : gui'[p] => gui[p] \/ (p = Place(c) /\ pc'[c] = "viewing") \/ (p = Place(c) /\ result'[c] = "failed")
    BY <1>13, <1>2 DEF OpenGui, Goto, Answer, history
  <2>2. \E l \in {"viewing", "done"} : pc' = [pc EXCEPT ![c] = l] /\ pc[c] # "done"
    BY <1>13 DEF OpenGui, Goto, Answer, history
  <2>3. \/ result' = result
        \/ \E v \in {"ok", "failed", "refused", "error"} :
             pc' = [pc EXCEPT ![c] = "done"] /\ result' = [result EXCEPT ![c] = v]
    BY <1>13 DEF OpenGui, Goto, Answer, history
  <2>4. pc[c] \notin {"viewing", "teardown"}
    BY <1>13 DEF OpenGui, Goto, Answer, history
  <2>5. \A d \in Calls, p \in Places : AccountsForGui(d, p) => AccountsForGui(d, p)'
    BY <2>1, <2>2, <2>3, <2>4
  <2>6. pc'[c] \in {"flashed", "viewing", "teardown"} => pc[c] \in {"flashed", "viewing", "teardown"}
    BY <2>2, <1>13 DEF OpenGui, Goto, Answer, history
  <2>10. \A p \in Places : gui'[p] /\ ~gui[p] => AccountsForGui(c, p)'
    BY <2>1, <2>4, <1>13 DEF OpenGui, Goto
  <2>7. GuiLeftOnlyByFailure'
    <3>1. ASSUME NEW p \in Places, gui'[p] PROVE \E d \in Calls : AccountsForGui(d, p)'
      <4>1. CASE gui[p]
        <5>1. PICK d \in Calls : AccountsForGui(d, p)
          BY <4>1
        <5> HIDE DEF AccountsForGui
        <5> QED
          BY <5>1, <2>5
      <4>2. CASE ~gui[p]
        <5> HIDE DEF AccountsForGui
        <5> QED
          BY <4>2, <3>1, <2>10
      <4> QED
        BY <4>1, <4>2
    <3> HIDE DEF AccountsForGui
    <3> QED
      BY <3>1
  <2>8. ASSUME NEW d \in Calls PROVE pc'[d] \in {"flashed", "viewing", "teardown"} => args'[d].tool = "ila"
    BY <2>1, <2>2, <2>6, <2>8
  <2>9. ASSUME NEW d \in Calls PROVE result'[d] # "none" => pc'[d] = "done"
    BY <2>2, <2>3, <2>9
  <2> QED
    BY <2>7, <2>8, <2>9
<1>14. ASSUME NEW c \in Calls, Capture(c) PROVE GuiInv'
  <2>1. args' = args /\ lost \subseteq lost' /\ gui' = gui
    BY <1>14, <1>2 DEF Capture, Goto, Answer, history, bench
  <2>2. \E l \in {"teardown", "done"} : pc' = [pc EXCEPT ![c] = l] /\ pc[c] # "done"
    BY <1>14 DEF Capture, Goto, Answer, history, bench
  <2>3. \/ result' = result
        \/ \E v \in {"ok", "failed", "refused", "error"} :
             pc' = [pc EXCEPT ![c] = "done"] /\ result' = [result EXCEPT ![c] = v]
    BY <1>14 DEF Capture, Goto, Answer, history, bench
  <2>4. pc[c] = "viewing" /\ (pc'[c] = "teardown" \/ result'[c] = "failed")
    BY <1>14 DEF Capture, Goto, Answer, history, bench
  <2>5. \A d \in Calls, p \in Places : AccountsForGui(d, p) => AccountsForGui(d, p)'
    BY <2>1, <2>2, <2>3, <2>4
  <2>6. pc'[c] \in {"flashed", "viewing", "teardown"} => pc[c] \in {"flashed", "viewing", "teardown"}
    BY <2>2, <1>14 DEF Capture, Goto, Answer, history, bench
  <2>7. GuiLeftOnlyByFailure'
    BY <2>1, <2>5
  <2>8. ASSUME NEW d \in Calls PROVE pc'[d] \in {"flashed", "viewing", "teardown"} => args'[d].tool = "ila"
    BY <2>1, <2>2, <2>6, <2>8
  <2>9. ASSUME NEW d \in Calls PROVE result'[d] # "none" => pc'[d] = "done"
    BY <2>2, <2>3, <2>9
  <2> QED
    BY <2>7, <2>8, <2>9
<1>15. ASSUME NEW c \in Calls, Read(c) PROVE GuiInv'
  BY <1>15, <1>2 DEF Read, bench, history
<1>16. ASSUME NEW c \in Calls, Touch(c) PROVE GuiInv'
  BY <1>16, <1>2 DEF Touch
<1>17. ASSUME NEW c \in Calls, Finish(c) PROVE GuiInv'
  BY <1>17, <1>2 DEF Finish, history
<1>18. ASSUME NEW c \in Calls, EndRead(c) PROVE GuiInv'
  BY <1>18, <1>2 DEF EndRead, bench, history
<1>19. ASSUME NEW c \in Calls, Fail(c) PROVE GuiInv'
  BY <1>19, <1>2 DEF Fail, bench, history
<1>20. CASE UNCHANGED vars
  BY <1>20 DEF vars, bench, history
<1> QED
  BY <1>1, <1>3, <1>4, <1>5, <1>6, <1>7, <1>8, <1>9, <1>10, <1>11, <1>12, <1>13, <1>14, <1>15, <1>16, <1>17, <1>18, <1>19, <1>20 DEF Next, CallStep, ScriptStep, Rest

-----------------------------------------------------------------------------
(* The theorems. *)

\* The invariant all the theorems are read off.
LEMMA DeviceInvariant == Spec => []DeviceInv
<1>1. Init => DeviceInv
  BY InitTypes, InitGateInv, InitFootInv, InitBoardInv, InitWholeInv, InitAwaitInv, InitGuiInv
     DEF DeviceInv
<1>2. DeviceInv /\ [Next]_vars => DeviceInv'
  BY NextTypes, NextGateInv, NextFootInv, NextBoardInv, NextWholeInv, NextAwaitInv, NextGuiInv
     DEF DeviceInv
<1> QED
  BY <1>1, <1>2, PTL DEF Spec

\* The variables keep their types; a flash scans at most Retries + 1 times.
THEOREM DeviceTypeOK == Spec => []TypeOK
<1>1. DeviceInv => TypeOK
  BY DEF DeviceInv
<1> QED
  BY <1>1, DeviceInvariant, PTL

\* However many calls share a board, and whatever times out, fails or is
\* killed: only a confirmed call whose own scan read the expected device
\* writes, and only at its own place.
THEOREM EveryWriteIsGated == Spec => []WritesAreGated
<1>1. DeviceInv => WritesAreGated
  BY DEF DeviceInv, GateInv, FootInv, Gated, WritesAreGated
<1> QED
  BY <1>1, DeviceInvariant, PTL

\* Only an exchanged board is ever written although it is not the expected one.
THEOREM WrongDeviceNeedsSwap == Spec => []WrongDeviceOnlyBySwap
<1>1. DeviceInv => WrongDeviceOnlyBySwap
  BY DEF DeviceInv, BoardInv, WrongDeviceOnlyBySwap
<1> QED
  BY <1>1, DeviceInvariant, PTL

\* A call other than a remote fpga_cdt never answers ok over a torn image.
THEOREM OkIsWhole == Spec => []OkMeansWhole
<1>1. DeviceInv => OkMeansWhole
  <2> SUFFICES ASSUME DeviceInv, NEW c \in Calls, ~(args[c].tool = "cdt" /\ Remote(c)),
                      result[c] = "ok", NEW p \in Places, image[p].by = c
               PROVE image[p].whole
    BY DEF OkMeansWhole, OkImageIsWhole
  <2>1. script[c] = "clean"
    BY DEF DeviceInv, WholeInv
  <2>2. c # None
    BY DeviceAssumption
  <2> QED
    BY <2>1, <2>2 DEF DeviceInv, WholeInv
<1> QED
  BY <1>1, DeviceInvariant, PTL

\* No script is still at work for a call that has returned, except on a host
\* that was lost or refused the cleanup.
THEOREM ReturnEndsScripts == Spec => []NoScriptOutlivesCall
<1>1. DeviceInv => NoScriptOutlivesCall
  BY DEF DeviceInv, AwaitInv, NoScriptOutlivesCall
<1> QED
  BY <1>1, DeviceInvariant, PTL

\* A debugger GUI is up only during a flow, after a failed one, or when it
\* could not be killed.
THEOREM GuiIsAccountedFor == Spec => []GuiLeftOnlyByFailure
<1>1. DeviceInv => GuiLeftOnlyByFailure
  BY DEF DeviceInv, GuiInv
<1> QED
  BY <1>1, DeviceInvariant, PTL
=============================================================================
