------------------------- MODULE GuiSession_proofs -------------------------
(***************************************************************************)
(* The calls that drive the debugger's GUI, for every number of calls and  *)
(* every scenario: whose script the console has run, and for whom.         *)
(***************************************************************************)
EXTENDS GuiSession, SequenceTheorems, TLAPS

\* The parts of TypeOK's values that have no name.
ThreadState == [step : Steps \union {None}, at : {"idle", "stage", "drive", "judge", "done"},
                res : OutFile \union {None}]
Done == [step |-> None, at |-> "done", res |-> None]
Read(c) == <<c, "read">>
Script(c) == <<c, "script">>

\* A call has answered when its main thread is done; the steps of a thread are
\* those of its kind of call, and a click is beside the main thread.
ThreadInv ==
  \A c \in Calls :
    /\ ans[c] # None <=> th[Main(c)].at = "done"
    /\ th[Main(c)].at \in {"stage", "drive", "judge"} => th[Main(c)].step # None
    /\ th[Main(c)].step = "read" => sc.kind[c] = "write"
    /\ th[Main(c)].step = "fetch" => sc.kind[c] = "capture" /\ th[Main(c)].at = "stage"
    /\ th[Main(c)].step # "click" /\ th[Click(c)].step \in {None, "click"}
    /\ th[Click(c)].at \in {"stage", "drive", "judge"} => th[Click(c)].step = "click"

\* An executor that is open belongs to a call under way, or to one that was
\* closed too early.
LinkInv ==
  \A c \in Calls : ans[c] # None =>
    /\ th[Click(c)].at \in {"idle", "done"} \/ c \in late
    /\ conn[c] = "none" \/ c \in late

\* A call stages each of its scripts once, and the script that writes when the
\* driver of the one that reads has ended.
DriverInv ==
  \A c \in Calls :
    /\ th[Main(c)].at = "stage" /\ th[Main(c)].step = "read" => drv[Read(c)] = "none"
    /\ th[Main(c)].at = "stage" /\ th[Main(c)].step = "script" => drv[Script(c)] = "none"
    /\ th[Main(c)].step = "read" => drv[Script(c)] = "none"
    /\ th[Main(c)].step = "read" /\ th[Main(c)].at = "judge" /\ th[Main(c)].res # None => drv[Read(c)] = "gone"
    /\ th[Main(c)].step = "script" \/ drv[Script(c)] # "none" => drv[Read(c)] \in {"none", "gone"}

\* What the board must be before a script is staged.
Allowed(j) == j[2] = "script" /\ sc.kind[j[1]] = "write" => sc.board = "expected"

\* A script that has a driver was staged, and so allowed.
AllowedInv ==
  /\ \A c \in Calls : th[Main(c)].step = "script" => Allowed(Script(c))
  /\ \A j \in Jobs : drv[j] # "none" => Allowed(j)

\* A script gets to the console by its driver, its task and its helper in turn.
PlaceInv ==
  /\ gui.box # None => Console(gui.box)
  /\ \A j \in Jobs : runs[j] > 0 => Console(j)
  /\ \A j \in Jobs : Console(j) =>
       /\ drv[j] \in {"none", "register"} => helper[j] = "none" /\ task[<<"console">>] # j
       /\ helper[j] = "none" => gui.box # j /\ (\A i \in DOMAIN queue : queue[i] # j) /\ runs[j] = 0

\* A driver meets the task of another one only if the two overlapped; so the
\* helper of a call that met nobody is started once ...
TaskInv ==
  \A j, k \in Jobs : Console(j) /\ Console(k) /\ j # k /\ drv[k] = "run" /\ task[<<"console">>] = j =>
    j[1] \in together /\ k[1] \in together

\* ... and its script is in one place only: the input box, the queue, or done.
OnceInv ==
  \A j \in Jobs : Console(j) /\ j[1] \notin together =>
    /\ drv[j] = "run" => helper[j] = "none"
    /\ helper[j] = "started" => gui.box # j /\ (\A i \in DOMAIN queue : queue[i] # j) /\ runs[j] = 0
    /\ gui.box = j => (\A i \in DOMAIN queue : queue[i] # j) /\ runs[j] = 0
    /\ \A i \in DOMAIN queue : queue[i] = j =>
         runs[j] = 0 /\ \A h \in DOMAIN queue : queue[h] = j => h = i
    /\ runs[j] <= 1

\* A sentinel was left by a run that began after its helper typed.
SentinelInv ==
  \A j \in Jobs : sentinel[j] # None =>
    /\ runs[j] > 0 /\ Len(printed) > base[j]
    /\ sentinel[j] = 0 /\ sc.kind[j[1]] = "capture" => vcd[j] = "whole"

\* A helper that typed while the console was nobody's has it to itself.
AloneInv ==
  \A j \in Jobs : Console(j) /\ j \notin behind /\ helper[j] \in {"typed", "polling"} =>
    /\ \A k \in Jobs \ {j} : helper[k] \notin {"typed", "polling"}
    /\ helper[j] = "typed" => gui.box = j /\ queue = <<>> /\ Len(printed) = base[j]
    /\ gui.box \in {j, None}
    /\ \A i \in DOMAIN queue : queue[i] = j
    /\ \A i \in DOMAIN printed : i > base[j] => printed[i] = j

\* What a helper that saw its sentinel has said.
Honest(j, r) ==
  r.said = "sentinel" =>
    /\ runs[j] > 0 /\ r.rc \in {0, 1} /\ r.first \in Jobs
    /\ r.first = j \/ j \in behind
    /\ r.rc = 0 /\ sc.kind[j[1]] = "capture" => vcd[j] = "whole"

ReportInv ==
  /\ \A j \in Jobs : Console(j) /\ out[j] # None => Honest(j, out[j])
  /\ \A c \in Calls :
       /\ th[Main(c)].step = "read" /\ th[Main(c)].res # None => Honest(Read(c), th[Main(c)].res)
       /\ th[Main(c)].step \in {"script", "fetch"} /\ th[Main(c)].res # None => Honest(Script(c), th[Main(c)].res)

GuiInv ==
  /\ TypeOK /\ ThreadInv /\ LinkInv /\ DriverInv /\ AllowedInv /\ PlaceInv /\ TaskInv /\ OnceInv
  /\ SentinelInv /\ AloneInv /\ ReportInv /\ OkIsOwnWork
-----------------------------------------------------------------------------
\* Threads and jobs by their parts.
LEMMA ThreadParts ==
  /\ \A t \in Threads : t[1] \in Calls /\ (t = Main(t[1]) \/ t = Click(t[1]))
  /\ \A c \in Calls : Main(c) \in Threads /\ Click(c) \in Threads /\ Main(c)[1] = c /\ Click(c)[1] = c
  /\ \A c, d \in Calls : Main(c) # Click(d) /\ (Main(c) = Main(d) => c = d) /\ (Click(c) = Click(d) => c = d)
  /\ \A c \in Calls : Main(c)[2] = "main" /\ Click(c)[2] = "click"
BY DEF Threads, Main, Click

LEMMA JobParts ==
  /\ \A j \in Jobs : j[1] \in Calls /\ TaskName(j) \in TaskNames
  /\ \A j \in Jobs : Console(j) => (j = Read(j[1]) \/ j = Script(j[1])) /\ TaskName(j) = <<"console">>
  /\ \A c \in Calls : Read(c) \in Jobs /\ Script(c) \in Jobs /\ Console(Read(c)) /\ Console(Script(c))
  /\ \A c \in Calls : Read(c)[1] = c /\ Script(c)[1] = c
  /\ \A c, d \in Calls : Read(c) # Script(d) /\ (Read(c) = Read(d) => c = d) /\ (Script(c) = Script(d) => c = d)
<1> USE DEF Jobs, Steps, Console, Read, Script
<1>1. \A j \in Jobs : j[1] \in Calls /\ TaskName(j) \in TaskNames
  BY DEF TaskNames
<1>2. \A j \in Jobs : Console(j) => (j = Read(j[1]) \/ j = Script(j[1])) /\ TaskName(j) = <<"console">>
  BY DEF TaskName
<1>3. \A c \in Calls : Read(c) \in Jobs /\ Script(c) \in Jobs /\ Console(Read(c)) /\ Console(Script(c))
  OBVIOUS
<1>4. \A c \in Calls : Read(c)[1] = c /\ Script(c)[1] = c
  OBVIOUS
<1>5. \A c, d \in Calls : Read(c) # Script(d) /\ (Read(c) = Read(d) => c = d) /\ (Script(c) = Script(d) => c = d)
  OBVIOUS
<1> QED
  BY <1>1, <1>2, <1>3, <1>4, <1>5

\* The job of a thread: it is a console job for the main thread only.
LEMMA JobOfThread ==
  ASSUME TypeOK, ThreadInv, NEW t \in Threads, th[t].at \in {"stage", "drive", "judge"}, th[t].step \notin {None, "fetch"}
  PROVE  /\ JobOf(t) \in Jobs /\ JobOf(t)[1] = t[1] /\ JobOf(t)[2] = th[t].step
         /\ th[t].step = "read" => JobOf(t) = Read(t[1])
         /\ th[t].step = "script" => JobOf(t) = Script(t[1])
         /\ th[t].step \in {"read", "script"} => t = Main(t[1])
         /\ th[t].step \notin {"read", "script"} => \A c \in Calls : JobOf(t) # Read(c) /\ JobOf(t) # Script(c)
<1>1. th[t].step \in Steps \ {"fetch"} /\ t[1] \in Calls
  BY ThreadParts DEF TypeOK
<1>2. JobOf(t) \in Jobs /\ JobOf(t)[1] = t[1] /\ JobOf(t)[2] = th[t].step
  BY <1>1 DEF JobOf, Jobs
<1>3. th[t].step \in {"read", "script"} => t = Main(t[1])
  BY <1>1, ThreadParts DEF ThreadInv
<1>4. th[t].step \notin {"read", "script"} => \A c \in Calls : JobOf(t) # Read(c) /\ JobOf(t) # Script(c)
  BY DEF JobOf, Read, Script
<1> QED
  BY <1>2, <1>3, <1>4 DEF JobOf, Read, Script

-----------------------------------------------------------------------------
(* What the steps change *)

\* The client's steps after its jobs.
Judges(c) ==
  JudgeRead(c) \/ JudgeScript(c) \/ Fetch(c) \/ JudgeLaunch(c) \/ JudgeClick(c) \/ JudgeKeys(c) \/ JudgeTree(c)

LEMMA NextCases ==
  ASSUME [Next]_vars
  PROVE  \/ \E t \in Threads : Stage(t) \/ CutOff(t) \/ CommandTimeout(t)
         \/ \E c \in Calls : Judges(c) \/ Drop(c)
         \/ \E j \in Jobs : Register(j) \/ RunTask(j) \/ Await(j) \/ Helper(j)
         \/ StartExport \/ EndScript \/ UNCHANGED vars
<1>1. ASSUME NEW t \in Threads, Client(t)
      PROVE  Stage(t) \/ CutOff(t) \/ CommandTimeout(t) \/ \E c \in Calls : Judges(c)
  BY <1>1, ThreadParts DEF Client, Judges
<1> QED
  BY <1>1 DEF Next, Host, Rest

LEMMA ClientFrame ==
  /\ \A t \in Threads : Stage(t) \/ CutOff(t) \/ CommandTimeout(t) =>
       UNCHANGED <<sc, task, helper, sentinel, vcd, gui, queue, printed, base, runs, together, behind>>
  /\ \A c \in Calls : Judges(c) =>
       UNCHANGED <<sc, faults, drv, task, helper, out, sentinel, vcd, gui, queue, printed, base, runs, together, behind>>
<1>1. ASSUME NEW t \in Threads, Stage(t) \/ CutOff(t) \/ CommandTimeout(t)
      PROVE  UNCHANGED <<sc, task, helper, sentinel, vcd, gui, queue, printed, base, runs, together, behind>>
  BY <1>1 DEF Stage, CutOff, CommandTimeout, host, debugger
<1>2. ASSUME NEW c \in Calls, Judges(c)
      PROVE  UNCHANGED <<sc, faults, drv, task, helper, out, sentinel, vcd, gui, queue, printed, base, runs,
                         together, behind>>
  BY <1>2 DEF Judges, JudgeRead, JudgeScript, Fetch, JudgeLaunch, JudgeClick, JudgeKeys, JudgeTree, host, debugger
<1> QED
  BY <1>1, <1>2

LEMMA HostFrame ==
  /\ \A j \in Jobs : Register(j) \/ RunTask(j) \/ Await(j) =>
       UNCHANGED <<sc, conn, ans, out, sentinel, vcd, gui, queue, printed, base, runs, behind, late>>
  /\ \A j \in Jobs : Register(j) \/ RunTask(j) => UNCHANGED th
  /\ \A c \in Calls : Drop(c) =>
       UNCHANGED <<sc, th, ans, task, helper, out, sentinel, vcd, gui, queue, printed, base, runs, together, behind, late>>
BY DEF Register, RunTask, Await, Drop, client, debugger, history

LEMMA HelperFrame ==
  /\ \A j \in Jobs : Helper(j) =>
       UNCHANGED <<sc, th, conn, ans, faults, drv, task, vcd, printed, runs, together, late>>
  /\ StartExport \/ EndScript =>
       UNCHANGED <<sc, th, conn, ans, faults, drv, task, helper, out, gui, base, together, behind, late>>
  /\ UNCHANGED vars =>
       UNCHANGED <<sc, th, conn, ans, faults, drv, task, helper, out, sentinel, vcd, gui, queue, printed, base,
                   runs, together, behind, late>>
<1>1. ASSUME NEW j \in Jobs, Helper(j)
      PROVE  UNCHANGED <<sc, th, conn, ans, faults, drv, task, vcd, printed, runs, together, late>>
  BY <1>1 DEF Helper, Type, Enter, Look, Launch, ClickSearch, ClickReturns, SendKeys, DumpTree, client, debugger, history
<1>2. StartExport \/ EndScript =>
       UNCHANGED <<sc, th, conn, ans, faults, drv, task, helper, out, gui, base, together, behind, late>>
  BY DEF StartExport, EndScript, client, debugger, history
<1>3. UNCHANGED vars =>
       UNCHANGED <<sc, th, conn, ans, faults, drv, task, helper, out, sentinel, vcd, gui, queue, printed, base,
                   runs, together, behind, late>>
  BY DEF vars, client, host, debugger, history
<1> QED
  BY <1>1, <1>2, <1>3

\* A call returns.
LEMMA ReturnEffect ==
  ASSUME TypeOK, NEW c \in Calls, NEW a \in Answers, Return(c, a)
  PROVE  /\ th' \in [Threads -> ThreadState] /\ ans' \in [Calls -> Answers \union {None}]
         /\ conn' \in [Calls -> {"none", "open", "dead"}] /\ late' \subseteq Calls
         /\ th'[Main(c)] = Done /\ \A t \in Threads : t # Main(c) => th'[t] = th[t]
         /\ ans'[c] = a /\ \A d \in Calls : d # c => ans'[d] = ans[d]
         /\ conn'[c] = "none" /\ \A d \in Calls : d # c => conn'[d] = conn[d]
         /\ late \subseteq late' /\ (th[Click(c)].at \notin {"idle", "done"} => c \in late')
<1> USE ThreadParts DEF TypeOK, Return
<1>1. th' \in [Threads -> ThreadState] /\ th'[Main(c)] = Done /\ \A t \in Threads : t # Main(c) => th'[t] = th[t]
  BY DEF ThreadState, Done
<1>2. ans' \in [Calls -> Answers \union {None}] /\ ans'[c] = a /\ \A d \in Calls : d # c => ans'[d] = ans[d]
  OBVIOUS
<1>3. /\ conn' \in [Calls -> {"none", "open", "dead"}]
      /\ conn'[c] = "none" /\ \A d \in Calls : d # c => conn'[d] = conn[d]
  BY DEF Closed
<1>4. late \subseteq late' /\ late' \subseteq Calls /\ (th[Click(c)].at \notin {"idle", "done"} => c \in late')
  OBVIOUS
<1> QED
  BY <1>1, <1>2, <1>3, <1>4

\* One thread goes on.
Moved(t, x) == th' = [th EXCEPT ![t] = x] /\ UNCHANGED <<ans, late>>

LEMMA StageEffect ==
  ASSUME TypeOK, ThreadInv, NEW t \in Threads, Stage(t)
  PROVE  /\ th[t].at = "stage" /\ th[t].step \notin {None, "fetch"} /\ faults' \in 0..MaxFaults
         /\ \/ /\ Moved(t, [th[t] EXCEPT !.at = "drive"]) /\ conn' = Linked(t[1])
               /\ drv' = [drv EXCEPT ![JobOf(t)] = "register"] /\ out' = [out EXCEPT ![JobOf(t)] = None]
            \/ t = Main(t[1]) /\ Return(t[1], Error) /\ UNCHANGED <<drv, out>>
            \/ t = Click(t[1]) /\ Moved(t, [th[t] EXCEPT !.at = "done"]) /\ UNCHANGED <<conn, drv, out>>
<1>1. th[t].at = "stage" /\ th[t].step \notin {None, "fetch"}
  <2>1. th[t].at = "stage" /\ th[t].step # "fetch"
    BY DEF Stage
  <2> QED
    BY <2>1, GuiAssumption, ThreadParts DEF ThreadInv, Steps
<1>2. faults' \in 0..MaxFaults
  BY GuiAssumption DEF Stage, Fault, TypeOK
<1>3. \/ /\ th' = [th EXCEPT ![t].at = "drive"] /\ conn' = Linked(t[1])
         /\ drv' = [drv EXCEPT ![JobOf(t)] = "register"] /\ out' = [out EXCEPT ![JobOf(t)] = None]
         /\ UNCHANGED <<ans, late>>
      \/ Throw(t) /\ UNCHANGED <<drv, out>>
  BY DEF Stage
<1>4. Throw(t) => (t = Main(t[1]) /\ Return(t[1], Error))
                  \/ (t = Click(t[1]) /\ th' = [th EXCEPT ![t].at = "done"] /\ UNCHANGED <<conn, ans, late>>)
  BY ThreadParts DEF Throw
<1> QED
  BY <1>1, <1>2, <1>3, <1>4 DEF Moved

LEMMA WaitEffect ==
  ASSUME TypeOK, NEW t \in Threads, CutOff(t) \/ CommandTimeout(t)
  PROVE  /\ th[t].at = "drive" /\ UNCHANGED <<conn, faults, out>>
         /\ \/ Moved(t, [th[t] EXCEPT !.at = "judge", !.res = None])
               /\ (UNCHANGED drv \/ drv' = [drv EXCEPT ![JobOf(t)] = "gone"])
            \/ Moved(t, [th[t] EXCEPT !.at = "judge", !.res = out[JobOf(t)]])
               /\ drv' = [drv EXCEPT ![JobOf(t)] = "gone"]
<1>1. \A r : Got(t, r) => Moved(t, [th[t] EXCEPT !.at = "judge", !.res = r]) /\ UNCHANGED conn
  BY DEF Got, Moved, TypeOK
<1>2. CASE CutOff(t)
  BY <1>1, <1>2 DEF CutOff, host
<1>3. CASE CommandTimeout(t)
  BY <1>1, <1>3 DEF CommandTimeout
<1> QED
  BY <1>2, <1>3

LEMMA AnswerTypes ==
  ASSUME TypeOK, NEW c \in Calls
  PROVE  /\ Error \in Answers /\ [Error EXCEPT !.ok = TRUE] \in Answers
         /\ \A r \in OutFile \union {None} :
              [Error EXCEPT !.ok = Passed(r), !.run = Script(c), !.first = IF r = None THEN None ELSE r.first] \in Answers
         /\ \A ok, w, n \in BOOLEAN : [ok |-> ok, run |-> Script(c), first |-> None, whole |-> w, timely |-> n] \in Answers
<1>1. Error \in Answers /\ [Error EXCEPT !.ok = TRUE] \in Answers
  BY DEF Error, Answers
<1>2. \A r : Passed(r) \in BOOLEAN
  BY DEF Passed
<1>3. \A r \in OutFile : r.first \in Jobs \union {None}
  BY DEF OutFile
<1>4. ASSUME NEW r \in OutFile \union {None}
      PROVE  [Error EXCEPT !.ok = Passed(r), !.run = Script(c), !.first = IF r = None THEN None ELSE r.first] \in Answers
  BY <1>2, <1>3, JobParts DEF Error, Answers
<1>5. \A ok, w, n \in BOOLEAN : [ok |-> ok, run |-> Script(c), first |-> None, whole |-> w, timely |-> n] \in Answers
  BY JobParts DEF Answers
<1> QED
  BY <1>1, <1>4, <1>5

\* What a judged result leads to.
LEMMA JudgeEffect ==
  ASSUME TypeOK, ThreadInv, NEW c \in Calls, Judges(c)
  PROVE  \/ th[Main(c)].at \in {"stage", "judge"} /\ \E a \in Answers : Return(c, a)
         \/ /\ th[Main(c)].at = "judge" /\ th[Main(c)].step = "read" /\ Passed(th[Main(c)].res) /\ sc.board = "expected"
            /\ Moved(Main(c), Begin("script")) /\ UNCHANGED conn
         \/ /\ th[Main(c)].at = "judge" /\ th[Main(c)].step = "script" /\ sc.kind[c] = "capture"
            /\ Moved(Main(c), [th[Main(c)] EXCEPT !.step = "fetch", !.at = "stage"]) /\ UNCHANGED conn
         \/ /\ th[Main(c)].at = "judge" /\ th[Main(c)].step = "launch"
            /\ th' = [th EXCEPT ![Main(c)] = Begin("keys"), ![Click(c)] = Begin("click")]
            /\ UNCHANGED <<conn, ans, late>>
         \/ /\ th[Click(c)].at = "judge"
            /\ Moved(Click(c), [th[Click(c)] EXCEPT !.at = "done"]) /\ UNCHANGED conn
         \/ /\ th[Main(c)].at = "judge" /\ th[Main(c)].step = "keys"
            /\ Moved(Main(c), Begin("tree")) /\ UNCHANGED conn
<1>1. CASE JudgeRead(c)
  <2>1. \A id : id \in {sc.board, "none"} /\ id = "expected" => sc.board = "expected"
    OBVIOUS
  <2> QED
    BY <1>1, <2>1, AnswerTypes DEF JudgeRead, Judging, Proceed, Moved
<1>2. CASE JudgeScript(c)
  <2>1. th[Main(c)].res \in OutFile \union {None}
    BY ThreadParts DEF TypeOK
  <2>2. CASE sc.kind[c] = "capture"
    <3> DEFINE m == Main(c)
               x == [th[m] EXCEPT !.step = "fetch", !.at = "stage"]
    <3>1. th' = [th EXCEPT ![m].step = "fetch", ![m].at = "stage"] /\ UNCHANGED <<conn, ans, late>>
      BY <1>2, <2>2 DEF JudgeScript
    <3>2. th[m].at = "judge" /\ th[m].step = "script"
      BY <1>2 DEF JudgeScript, Judging
    <3>3. m \in Threads /\ th \in [Threads -> ThreadState]
      BY ThreadParts DEF TypeOK, ThreadState
    <3>4. th'[m] = x /\ (\A t \in Threads : t # m => th'[t] = th[t]) /\ th' = [t \in Threads |-> th'[t]]
      BY <3>1, <3>3 DEF ThreadState
    <3>5. th' = [th EXCEPT ![m] = x]
      BY <3>3, <3>4
    <3> QED
      BY <2>2, <3>1, <3>2, <3>5 DEF Moved
  <2>3. CASE sc.kind[c] # "capture"
    BY <1>2, <2>1, <2>3, AnswerTypes DEF JudgeScript, Judging, Script
  <2> QED
    BY <2>2, <2>3
<1>3. CASE Fetch(c)
  <2>1. th[Main(c)].at = "stage"
    BY <1>3 DEF Fetch
  <2>2. PICK a : Return(c, a) /\ (a = Error \/ \E ok \in BOOLEAN :
          a = [ok |-> ok, run |-> Script(c), first |-> None, whole |-> vcd[Script(c)] = "whole",
               timely |-> Passed(th[Main(c)].res)])
    BY <1>3 DEF Fetch, Script
  <2>3. (vcd[Script(c)] = "whole") \in BOOLEAN /\ Passed(th[Main(c)].res) \in BOOLEAN
    BY DEF Passed
  <2>4. a \in Answers
    <3>1. /\ Error \in Answers
          /\ \A ok, w, n \in BOOLEAN : [ok |-> ok, run |-> Script(c), first |-> None, whole |-> w, timely |-> n] \in Answers
      BY AnswerTypes
    <3> QED
      BY <2>2, <2>3, <3>1
  <2> QED
    BY <2>1, <2>2, <2>4
<1>4. CASE JudgeLaunch(c)
  BY <1>4, AnswerTypes DEF JudgeLaunch, Judging
<1>5. CASE JudgeClick(c)
  BY <1>5, ThreadParts DEF JudgeClick, Judging, Goto, Moved, TypeOK
<1>6. CASE JudgeKeys(c)
  BY <1>6 DEF JudgeKeys, Judging, Proceed, Moved
<1>7. CASE JudgeTree(c)
  BY <1>7, AnswerTypes DEF JudgeTree, Judging
<1> QED
  BY <1>1, <1>2, <1>3, <1>4, <1>5, <1>6, <1>7 DEF Judges

LEMMA AwaitEffect ==
  ASSUME TypeOK, NEW j \in Jobs, Await(j)
  PROVE  /\ drv[j] = "await" /\ drv' = [drv EXCEPT ![j] = "gone"] /\ task' = [task EXCEPT ![TaskName(j)] = None]
         /\ UNCHANGED <<faults, helper, together>>
         /\ th' \in [Threads -> ThreadState]
         /\ \A t \in Threads :
              \/ th'[t] = th[t]
              \/ th[t].at = "drive" /\ JobOf(t) = j /\ th'[t] = [th[t] EXCEPT !.at = "judge", !.res = out[j]]
<1>1. /\ drv[j] = "await" /\ drv' = [drv EXCEPT ![j] = "gone"] /\ task' = [task EXCEPT ![TaskName(j)] = None]
      /\ UNCHANGED <<faults, helper, together>>
  BY DEF Await, history
<1>2. /\ DOMAIN th' = Threads /\ th' = [t \in Threads |-> th'[t]]
      /\ \A t \in Threads :
           \/ th'[t] = th[t]
           \/ th[t].at = "drive" /\ JobOf(t) = j /\ th'[t] = [th[t] EXCEPT !.at = "judge", !.res = out[j]]
  BY DEF Await, Printed
<1>3. \A t \in Threads : [th[t] EXCEPT !.at = "judge", !.res = out[j]] \in ThreadState
  <2>1. \A s \in ThreadState, r \in OutFile \union {None} : [s EXCEPT !.at = "judge", !.res = r] \in ThreadState
    BY DEF ThreadState
  <2> QED
    BY <2>1 DEF TypeOK, ThreadState
<1>4. ASSUME NEW t \in Threads PROVE th'[t] \in ThreadState
  <2>1. th[t] \in ThreadState
    BY DEF TypeOK, ThreadState
  <2>2. [th[t] EXCEPT !.at = "judge", !.res = out[j]] \in ThreadState
    BY <1>3
  <2>3. th'[t] = th[t] \/ th'[t] = [th[t] EXCEPT !.at = "judge", !.res = out[j]]
    BY <1>2
  <2> QED
    BY <2>1, <2>2, <2>3
<1>5. th' \in [Threads -> ThreadState]
  BY <1>2, <1>4
<1> QED
  BY <1>1, <1>2, <1>5

-----------------------------------------------------------------------------
(* The invariant, part by part *)

\* Threads do their steps in turn, and the main thread ends with the answer.
LEMMA NextThreadInv == TypeOK /\ ThreadInv /\ [Next]_vars => ThreadInv'
<1> SUFFICES ASSUME TypeOK, ThreadInv, [Next]_vars PROVE ThreadInv'
  OBVIOUS
<1> USE GuiAssumption, ThreadParts DEF ThreadInv, Steps
<1>0. th \in [Threads -> ThreadState]
  BY DEF TypeOK, ThreadState
<1>1. ASSUME NEW t \in Threads, Stage(t) PROVE ThreadInv'
  <2>1. th[t].at = "stage" /\ th[t].step \notin {None, "fetch"} /\ UNCHANGED sc
    BY <1>1, StageEffect, ClientFrame
  <2>2. CASE Moved(t, [th[t] EXCEPT !.at = "drive"])
    BY <1>0, <2>1, <2>2 DEF Moved, ThreadState
  <2>3. ASSUME NEW c \in Calls, Return(c, Error) PROVE ThreadInv'
    <3>1. Error \in Answers
      BY AnswerTypes
    <3> QED
      BY <1>0, <2>1, <2>3, <3>1, ReturnEffect DEF Done
  <2>4. CASE t = Click(t[1]) /\ Moved(t, [th[t] EXCEPT !.at = "done"])
    BY <1>0, <2>1, <2>4 DEF Moved, ThreadState
  <2> QED
    BY <1>1, <2>2, <2>3, <2>4, StageEffect
<1>2. ASSUME NEW t \in Threads, CutOff(t) \/ CommandTimeout(t) PROVE ThreadInv'
  <2>1. th[t].at = "drive" /\ UNCHANGED sc
    BY <1>2, WaitEffect, ClientFrame
  <2>2. PICK r : Moved(t, [th[t] EXCEPT !.at = "judge", !.res = r])
    BY <1>2, WaitEffect
  <2> QED
    BY <1>0, <2>1, <2>2 DEF Moved, ThreadState
<1>3. ASSUME NEW c \in Calls, Judges(c) PROVE ThreadInv'
  <2>1. UNCHANGED sc
    BY <1>3, ClientFrame
  <2>2. ASSUME th[Main(c)].at \in {"stage", "judge"}, NEW a \in Answers, Return(c, a) PROVE ThreadInv'
    BY <1>0, <2>1, <2>2, ReturnEffect DEF Done
  <2>3. ASSUME th[Main(c)].at = "judge", NEW s \in {"script", "tree"}, Moved(Main(c), Begin(s)) PROVE ThreadInv'
    BY <1>0, <2>1, <2>3 DEF Moved, ThreadState, Begin
  <2>4. ASSUME th[Main(c)].at = "judge", sc.kind[c] = "capture",
               Moved(Main(c), [th[Main(c)] EXCEPT !.step = "fetch", !.at = "stage"])
        PROVE  ThreadInv'
    BY <1>0, <2>1, <2>4 DEF Moved, ThreadState
  <2>5. ASSUME th[Main(c)].at = "judge", th' = [th EXCEPT ![Main(c)] = Begin("keys"), ![Click(c)] = Begin("click")],
               UNCHANGED ans
        PROVE  ThreadInv'
    BY <1>0, <2>1, <2>5 DEF ThreadState, Begin
  <2>6. ASSUME Moved(Click(c), [th[Click(c)] EXCEPT !.at = "done"]) PROVE ThreadInv'
    BY <1>0, <2>1, <2>6 DEF Moved, ThreadState
  <2> QED
    BY <1>3, <2>2, <2>3, <2>4, <2>5, <2>6, JudgeEffect
<1>4. ASSUME NEW j \in Jobs, Await(j) PROVE ThreadInv'
  <2>1. UNCHANGED <<sc, ans>>
    BY <1>4, HostFrame
  <2>2. ASSUME NEW t \in Threads, th'[t] # th[t]
        PROVE  th[t].at = "drive" /\ th'[t].at = "judge" /\ th'[t].step = th[t].step
    <3>1. th[t] \in ThreadState
      BY <1>0
    <3>2. th[t].at = "drive" /\ th'[t] = [th[t] EXCEPT !.at = "judge", !.res = out[j]]
      <4>1. \A x \in Threads :
              \/ th'[x] = th[x]
              \/ th[x].at = "drive" /\ JobOf(x) = j /\ th'[x] = [th[x] EXCEPT !.at = "judge", !.res = out[j]]
        BY <1>4, AwaitEffect
      <4> QED
        BY <2>2, <4>1
    <3> QED
      BY <3>1, <3>2 DEF ThreadState
  <2> QED
    BY <2>1, <2>2
<1>5. CASE UNCHANGED <<sc, th, ans>>
  BY <1>5
<1> QED
  BY <1>1, <1>2, <1>3, <1>4, <1>5, NextCases, HostFrame, HelperFrame

\* No connection is left behind, but by a click that nobody waits for.
LEMMA NextLinkInv == TypeOK /\ ThreadInv /\ LinkInv /\ [Next]_vars => LinkInv'
<1> SUFFICES ASSUME TypeOK, ThreadInv, LinkInv, [Next]_vars PROVE LinkInv'
  OBVIOUS
<1> USE GuiAssumption, ThreadParts DEF LinkInv
<1>0. th \in [Threads -> ThreadState] /\ conn \in [Calls -> {"none", "open", "dead"}]
  BY DEF TypeOK, ThreadState
<1>1. ASSUME NEW t \in Threads, Stage(t) PROVE LinkInv'
  <2>1. th[t].at = "stage"
    BY <1>1, StageEffect
  <2>2. CASE Moved(t, [th[t] EXCEPT !.at = "drive"]) /\ conn' = Linked(t[1])
    <3>1. \A d \in Calls : ans[d] # None /\ d \notin late => conn'[d] = conn[d] /\ th'[Click(d)] = th[Click(d)]
      BY <1>0, <2>1, <2>2 DEF Moved, ThreadInv, Linked
    <3> QED
      BY <2>2, <3>1 DEF Moved
  <2>3. ASSUME NEW c \in Calls, Return(c, Error) PROVE LinkInv'
    <3>1. Error \in Answers
      BY AnswerTypes
    <3> QED
      BY <1>0, <2>3, <3>1, ReturnEffect
  <2>4. CASE t = Click(t[1]) /\ Moved(t, [th[t] EXCEPT !.at = "done"]) /\ UNCHANGED conn
    BY <1>0, <2>4 DEF Moved, ThreadState
  <2> QED
    BY <1>1, <2>2, <2>3, <2>4, StageEffect
<1>2. ASSUME NEW t \in Threads, CutOff(t) \/ CommandTimeout(t) PROVE LinkInv'
  <2>1. th[t].at = "drive" /\ UNCHANGED conn
    BY <1>2, WaitEffect
  <2>2. PICK r : Moved(t, [th[t] EXCEPT !.at = "judge", !.res = r])
    BY <1>2, WaitEffect
  <2> QED
    BY <1>0, <2>1, <2>2 DEF Moved, ThreadState
<1>3. ASSUME NEW c \in Calls, Judges(c) PROVE LinkInv'
  <2>1. ASSUME NEW a \in Answers, Return(c, a) PROVE LinkInv'
    BY <1>0, <2>1, ReturnEffect
  <2>2. ASSUME NEW x, Moved(Main(c), x), UNCHANGED conn PROVE LinkInv'
    BY <1>0, <2>2 DEF Moved
  <2>3. ASSUME th[Main(c)].at = "judge", th' = [th EXCEPT ![Main(c)] = Begin("keys"), ![Click(c)] = Begin("click")],
               UNCHANGED <<conn, ans, late>>
        PROVE  LinkInv'
    BY <1>0, <2>3 DEF ThreadInv
  <2>4. ASSUME Moved(Click(c), [th[Click(c)] EXCEPT !.at = "done"]), UNCHANGED conn PROVE LinkInv'
    BY <1>0, <2>4 DEF Moved, ThreadState
  <2> QED
    BY <1>3, <2>1, <2>2, <2>3, <2>4, JudgeEffect
<1>4. ASSUME NEW j \in Jobs, Await(j) PROVE LinkInv'
  <2>1. UNCHANGED <<conn, ans, late>>
    BY <1>4, HostFrame
  <2>2. \A t \in Threads : th'[t] = th[t] \/ th[t].at = "drive"
    BY <1>4, AwaitEffect
  <2> QED
    BY <2>1, <2>2
<1>5. ASSUME NEW c \in Calls, Drop(c) PROVE LinkInv'
  BY <1>0, <1>5 DEF Drop, history
<1>6. CASE UNCHANGED <<th, conn, ans, late>>
  BY <1>6
<1> QED
  BY <1>1, <1>2, <1>3, <1>4, <1>5, <1>6, NextCases, HostFrame, HelperFrame

-----------------------------------------------------------------------------
(* How the main thread of a call, and the driver of a script, get on *)

MainMoves(c) ==
  LET m == Main(c) IN
  \/ th'[m] = th[m]
  \/ th'[m] = Done
  \/ th[m].at = "stage" /\ th[m].step \notin {None, "fetch"} /\ th'[m] = [th[m] EXCEPT !.at = "drive"]
  \/ th[m].at = "drive" /\ th'[m] = [th[m] EXCEPT !.at = "judge", !.res = None]
  \/ th[m].at = "drive" /\ th'[m] = [th[m] EXCEPT !.at = "judge", !.res = out[JobOf(m)]] /\ drv'[JobOf(m)] = "gone"
  \/ /\ th[m].at = "judge" /\ th[m].step = "read" /\ Passed(th[m].res) /\ sc.board = "expected"
     /\ th'[m] = Begin("script")
  \/ /\ th[m].at = "judge" /\ th[m].step = "script" /\ sc.kind[c] = "capture"
     /\ th'[m] = [th[m] EXCEPT !.step = "fetch", !.at = "stage"]
  \/ th[m].at = "judge" /\ th'[m] \in {Begin("keys"), Begin("tree")}

LEMMA MainSteps ==
  ASSUME TypeOK, ThreadInv, [Next]_vars, NEW c \in Calls
  PROVE  MainMoves(c)
<1> USE ThreadParts
<1>0. th \in [Threads -> ThreadState] /\ drv \in [Jobs -> {"none", "register", "run", "await", "gone"}]
  BY DEF TypeOK, ThreadState
<1>1. ASSUME NEW t \in Threads, Stage(t) PROVE MainMoves(c)
  <2>1. th[t].at = "stage" /\ th[t].step \notin {None, "fetch"}
    BY <1>1, StageEffect
  <2>2. CASE Moved(t, [th[t] EXCEPT !.at = "drive"])
    BY <1>0, <2>1, <2>2 DEF Moved, MainMoves
  <2>3. ASSUME NEW d \in Calls, Return(d, Error) PROVE MainMoves(c)
    <3>1. Error \in Answers
      BY AnswerTypes
    <3>2. th'[Main(d)] = Done /\ \A x \in Threads : x # Main(d) => th'[x] = th[x]
      BY <2>3, <3>1, ReturnEffect
    <3> QED
      BY <3>2 DEF MainMoves
  <2>4. CASE t = Click(t[1]) /\ Moved(t, [th[t] EXCEPT !.at = "done"])
    BY <1>0, <2>4 DEF Moved, MainMoves
  <2> QED
    BY <1>1, <2>2, <2>3, <2>4, StageEffect
<1>2. ASSUME NEW t \in Threads, CutOff(t) \/ CommandTimeout(t) PROVE MainMoves(c)
  <2>1. th[t].at = "drive"
    BY <1>2, WaitEffect
  <2>2. CASE t # Main(c)
    <3>1. PICK x : Moved(t, x)
      BY <1>2, WaitEffect
    <3> QED
      BY <1>0, <2>2, <3>1 DEF Moved, MainMoves
  <2>3. CASE t = Main(c)
    <3>1. CASE Moved(t, [th[t] EXCEPT !.at = "judge", !.res = None])
      BY <1>0, <2>1, <2>3, <3>1 DEF Moved, MainMoves
    <3>2. CASE Moved(t, [th[t] EXCEPT !.at = "judge", !.res = out[JobOf(t)]]) /\ drv' = [drv EXCEPT ![JobOf(t)] = "gone"]
      <4>1. JobOf(t) \in Jobs
        BY <2>1, <2>3, JobOfThread DEF ThreadInv
      <4> QED
        BY <1>0, <2>1, <2>3, <3>2, <4>1 DEF Moved, MainMoves
    <3> QED
      BY <1>2, <3>1, <3>2, WaitEffect
  <2> QED
    BY <2>2, <2>3
<1>3. ASSUME NEW d \in Calls, Judges(d) PROVE MainMoves(c)
  <2>1. ASSUME NEW a \in Answers, Return(d, a) PROVE MainMoves(c)
    BY <2>1, ReturnEffect DEF MainMoves
  <2>2. CASE d = c
    <3> DEFINE m == Main(c)
    <3>1. ASSUME NEW x, Moved(m, x) PROVE th'[m] = x
      BY <1>0, <3>1 DEF Moved
    <3>2. CASE Moved(Click(c), [th[Click(c)] EXCEPT !.at = "done"])
      BY <1>0, <3>2 DEF Moved, MainMoves
    <3>3. CASE th[m].at = "judge" /\ th' = [th EXCEPT ![m] = Begin("keys"), ![Click(c)] = Begin("click")]
      BY <1>0, <3>3 DEF MainMoves
    <3>4. CASE /\ th[m].at = "judge" /\ th[m].step = "read" /\ Passed(th[m].res) /\ sc.board = "expected"
               /\ Moved(m, Begin("script"))
      BY <3>1, <3>4 DEF MainMoves
    <3>5. CASE /\ th[m].at = "judge" /\ th[m].step = "script" /\ sc.kind[c] = "capture"
               /\ Moved(m, [th[m] EXCEPT !.step = "fetch", !.at = "stage"])
      BY <3>1, <3>5 DEF MainMoves
    <3>6. CASE th[m].at = "judge" /\ Moved(m, Begin("tree"))
      BY <3>1, <3>6 DEF MainMoves
    <3> QED
      BY <1>3, <2>1, <2>2, <3>2, <3>3, <3>4, <3>5, <3>6, JudgeEffect
  <2>3. CASE d # c
    <3>1. ASSUME NEW x, Moved(Main(d), x) \/ Moved(Click(d), x) PROVE th'[Main(c)] = th[Main(c)]
      BY <1>0, <2>3, <3>1 DEF Moved
    <3>2. ASSUME NEW x, NEW y, th' = [th EXCEPT ![Main(d)] = x, ![Click(d)] = y] PROVE th'[Main(c)] = th[Main(c)]
      BY <1>0, <2>3, <3>2
    <3>3. \/ \E a \in Answers : Return(d, a)
          \/ Moved(Main(d), Begin("script")) \/ Moved(Main(d), Begin("tree"))
          \/ Moved(Main(d), [th[Main(d)] EXCEPT !.step = "fetch", !.at = "stage"])
          \/ Moved(Click(d), [th[Click(d)] EXCEPT !.at = "done"])
          \/ th' = [th EXCEPT ![Main(d)] = Begin("keys"), ![Click(d)] = Begin("click")]
      BY <1>3, JudgeEffect
    <3> QED
      BY <2>1, <3>1, <3>2, <3>3 DEF MainMoves
  <2> QED
    BY <2>2, <2>3
<1>4. ASSUME NEW j \in Jobs, Await(j) PROVE MainMoves(c)
  <2>1. \A x \in Threads :
          \/ th'[x] = th[x]
          \/ th[x].at = "drive" /\ JobOf(x) = j /\ th'[x] = [th[x] EXCEPT !.at = "judge", !.res = out[j]]
    BY <1>4, AwaitEffect
  <2>2. drv'[j] = "gone"
    <3>1. drv' = [drv EXCEPT ![j] = "gone"]
      BY <1>4, AwaitEffect
    <3> QED
      BY <1>0, <3>1
  <2>3. Main(c) \in Threads
    OBVIOUS
  <2> QED
    BY <2>1, <2>2, <2>3 DEF MainMoves
<1>5. CASE UNCHANGED th
  BY <1>5 DEF MainMoves
<1> QED
  BY <1>1, <1>2, <1>3, <1>4, <1>5, NextCases, HostFrame, HelperFrame

DriverMoves(c, s) ==
  LET m == Main(c)  j == <<c, s>> IN
  \/ drv'[j] = drv[j]
  \/ /\ th[m].at = "stage" /\ th[m].step = s /\ th'[m].at = "drive"
     /\ drv'[j] = "register"
  \/ drv[j] = "register" /\ Register(j) /\ drv'[j] = "run"
  \/ drv[j] = "run" /\ RunTask(j) /\ drv'[j] = "await"
  \/ (drv[j] # "none" \/ (th[m].at = "drive" /\ th[m].step = s)) /\ drv'[j] = "gone"

LEMMA DriverSteps ==
  ASSUME TypeOK, ThreadInv, [Next]_vars, NEW c \in Calls, NEW s \in {"read", "script"}
  PROVE  DriverMoves(c, s)
<1> USE ThreadParts
<1> DEFINE k == <<c, s>>
<1>0. /\ th \in [Threads -> ThreadState] /\ drv \in [Jobs -> {"none", "register", "run", "await", "gone"}]
      /\ k \in Jobs /\ Console(k) /\ k[1] = c /\ k[2] = s
  BY DEF TypeOK, ThreadState, Jobs, Steps, Console
<1>t. ASSUME NEW t \in Threads, th[t].at \in {"stage", "drive"}, th[t].step # "fetch"
      PROVE  JobOf(t) \in Jobs /\ (JobOf(t) = k => t = Main(c) /\ th[t].step = s)
  <2>1. th[t].step \notin {None, "fetch"}
    BY <1>t, GuiAssumption DEF ThreadInv, Steps
  <2>2. /\ JobOf(t) \in Jobs /\ JobOf(t)[1] = t[1] /\ JobOf(t)[2] = th[t].step
        /\ th[t].step \in {"read", "script"} => t = Main(t[1])
    BY <1>t, <2>1, JobOfThread
  <2> QED
    BY <1>0, <2>2
<1>1. ASSUME NEW t \in Threads, Stage(t) PROVE DriverMoves(c, s)
  <2>1. th[t].at = "stage" /\ th[t].step \notin {None, "fetch"}
    BY <1>1, StageEffect
  <2>2. JobOf(t) \in Jobs /\ (JobOf(t) = k => t = Main(c) /\ th[t].step = s)
    BY <1>t, <2>1
  <2>3. CASE Moved(t, [th[t] EXCEPT !.at = "drive"]) /\ drv' = [drv EXCEPT ![JobOf(t)] = "register"]
    <3>1. CASE JobOf(t) = k
      <4>1. th'[t].at = "drive"
        BY <1>0, <2>3 DEF Moved, ThreadState
      <4> QED
        BY <1>0, <2>1, <2>2, <2>3, <3>1, <4>1 DEF DriverMoves
    <3>2. CASE JobOf(t) # k
      BY <1>0, <2>3, <3>2 DEF DriverMoves
    <3> QED
      BY <3>1, <3>2
  <2>4. CASE UNCHANGED drv
    BY <2>4 DEF DriverMoves
  <2> QED
    BY <1>1, <2>3, <2>4, StageEffect
<1>2. ASSUME NEW t \in Threads, CutOff(t) \/ CommandTimeout(t) PROVE DriverMoves(c, s)
  <2>1. th[t].at = "drive" /\ (UNCHANGED drv \/ drv' = [drv EXCEPT ![JobOf(t)] = "gone"])
    BY <1>2, WaitEffect
  <2>2. th[t].step # "fetch"
    <3>1. t = Main(t[1]) \/ t = Click(t[1])
      OBVIOUS
    <3> QED
      BY <2>1, <3>1, GuiAssumption DEF ThreadInv, Steps
  <2> QED
    BY <1>0, <1>t, <2>1, <2>2 DEF DriverMoves
<1>3. ASSUME NEW j \in Jobs, Register(j) PROVE DriverMoves(c, s)
  <2>1. drv[j] = "register" /\ drv' = [drv EXCEPT ![j] = IF Console(j) THEN "run" ELSE "await"]
    BY <1>3 DEF Register
  <2>2. CASE j = k
    BY <1>0, <1>3, <2>1, <2>2 DEF DriverMoves
  <2>3. CASE j # k
    BY <1>0, <2>1, <2>3 DEF DriverMoves
  <2> QED
    BY <2>2, <2>3
<1>4. ASSUME NEW j \in Jobs, RunTask(j) PROVE DriverMoves(c, s)
  BY <1>0, <1>4 DEF RunTask, DriverMoves
<1>5. ASSUME NEW j \in Jobs, Await(j) PROVE DriverMoves(c, s)
  <2>1. drv[j] = "await" /\ drv' = [drv EXCEPT ![j] = "gone"]
    BY <1>5, AwaitEffect
  <2> QED
    BY <1>0, <2>1 DEF DriverMoves
<1>6. ASSUME NEW d \in Calls, Drop(d) PROVE DriverMoves(c, s)
  BY <1>0, <1>6 DEF Drop, DriverMoves
<1>7. CASE UNCHANGED drv
  BY <1>7 DEF DriverMoves
<1> QED
  BY <1>1, <1>2, <1>3, <1>4, <1>5, <1>6, <1>7, NextCases, ClientFrame, HelperFrame
-----------------------------------------------------------------------------
(* Scripts, from the call that stages them to the console *)

\* A call never has the drivers of both its scripts at once.
LEMMA NextDriverInv == TypeOK /\ ThreadInv /\ DriverInv /\ [Next]_vars => DriverInv'
<1> SUFFICES ASSUME TypeOK, ThreadInv, DriverInv, [Next]_vars, NEW c \in Calls
             PROVE
    /\ th'[Main(c)].at = "stage" /\ th'[Main(c)].step = "read" => drv'[Read(c)] = "none"
    /\ th'[Main(c)].at = "stage" /\ th'[Main(c)].step = "script" => drv'[Script(c)] = "none"
    /\ th'[Main(c)].step = "read" => drv'[Script(c)] = "none"
    /\ th'[Main(c)].step = "read" /\ th'[Main(c)].at = "judge" /\ th'[Main(c)].res # None => drv'[Read(c)] = "gone"
    /\ th'[Main(c)].step = "script" \/ drv'[Script(c)] # "none" => drv'[Read(c)] \in {"none", "gone"}
  BY DEF DriverInv
<1> DEFINE m == Main(c)
<1>1. th[m] \in ThreadState /\ m[1] = c
  BY ThreadParts DEF TypeOK, ThreadState
<1>2. \/ drv'[Read(c)] = drv[Read(c)]
      \/ th[m].at = "stage" /\ th[m].step = "read" /\ th'[m].at = "drive" /\ drv'[Read(c)] = "register"
      \/ drv[Read(c)] = "register" /\ drv'[Read(c)] = "run"
      \/ drv[Read(c)] = "run" /\ drv'[Read(c)] = "await"
      \/ (drv[Read(c)] # "none" \/ (th[m].at = "drive" /\ th[m].step = "read")) /\ drv'[Read(c)] = "gone"
  BY DriverSteps DEF DriverMoves, Read
<1>3. \/ drv'[Script(c)] = drv[Script(c)]
      \/ th[m].at = "stage" /\ th[m].step = "script" /\ th'[m].at = "drive" /\ drv'[Script(c)] = "register"
      \/ drv[Script(c)] = "register" /\ drv'[Script(c)] = "run"
      \/ drv[Script(c)] = "run" /\ drv'[Script(c)] = "await"
      \/ (drv[Script(c)] # "none" \/ (th[m].at = "drive" /\ th[m].step = "script")) /\ drv'[Script(c)] = "gone"
  BY DriverSteps DEF DriverMoves, Script
<1>4. /\ th[m].at = "stage" /\ th[m].step = "read" => drv[Read(c)] = "none"
      /\ th[m].at = "stage" /\ th[m].step = "script" => drv[Script(c)] = "none"
      /\ th[m].step = "read" => drv[Script(c)] = "none"
      /\ th[m].step = "read" /\ th[m].at = "judge" /\ th[m].res # None => drv[Read(c)] = "gone"
      /\ th[m].step = "script" \/ drv[Script(c)] # "none" => drv[Read(c)] \in {"none", "gone"}
  BY DEF DriverInv
<1>5. MainMoves(c)
  BY MainSteps
<1>6. CASE th'[m] = th[m]
  BY <1>2, <1>3, <1>4, <1>6
<1>7. CASE th'[m] = Done \/ th'[m] \in {Begin("keys"), Begin("tree")}
  <2>1. th'[m].step \notin {"read", "script"} /\ th'[m].at # "drive"
    BY <1>7, GuiAssumption DEF Done, Begin, Steps
  <2> QED
    BY <1>2, <1>3, <1>4, <2>1
<1>8. CASE th[m].at = "stage" /\ th'[m] = [th[m] EXCEPT !.at = "drive"]
  <2>1. th'[m].at = "drive" /\ th'[m].step = th[m].step
    BY <1>1, <1>8 DEF ThreadState
  <2> QED
    BY <1>2, <1>3, <1>4, <1>8, <2>1
<1>9. CASE th[m].at = "drive" /\ th'[m] = [th[m] EXCEPT !.at = "judge", !.res = None]
  <2>1. th'[m].at = "judge" /\ th'[m].step = th[m].step /\ th'[m].res = None
    BY <1>1, <1>9 DEF ThreadState
  <2> QED
    BY <1>2, <1>3, <1>4, <1>9, <2>1
<1>10. CASE th[m].at = "drive" /\ th'[m] = [th[m] EXCEPT !.at = "judge", !.res = out[JobOf(m)]] /\ drv'[JobOf(m)] = "gone"
  <2>1. th'[m].at = "judge" /\ th'[m].step = th[m].step
    BY <1>1, <1>10 DEF ThreadState
  <2>2. th[m].step = "read" => drv'[Read(c)] = "gone"
    BY <1>1, <1>10 DEF JobOf, Read
  <2> QED
    BY <1>2, <1>3, <1>4, <1>10, <2>1, <2>2
<1>11. CASE th[m].at = "judge" /\ th[m].step = "read" /\ Passed(th[m].res) /\ th'[m] = Begin("script")
  <2>1. th'[m].at = "stage" /\ th'[m].step = "script"
    BY <1>11 DEF Begin
  <2>2. th[m].res # None
    BY <1>11 DEF Passed
  <2> QED
    BY <1>2, <1>3, <1>4, <1>11, <2>1, <2>2
<1>12. CASE th[m].at = "judge" /\ th'[m] = [th[m] EXCEPT !.step = "fetch", !.at = "stage"]
  <2>1. th'[m].at = "stage" /\ th'[m].step = "fetch"
    BY <1>1, <1>12 DEF ThreadState
  <2> QED
    BY <1>2, <1>3, <1>4, <1>12, <2>1
<1> QED
  BY <1>5, <1>6, <1>7, <1>8, <1>9, <1>10, <1>11, <1>12 DEF MainMoves

\* A script that writes is staged only when the board has answered as expected.
LEMMA NextAllowedInv == TypeOK /\ ThreadInv /\ AllowedInv /\ [Next]_vars => AllowedInv'
<1> SUFFICES ASSUME TypeOK, ThreadInv, AllowedInv, [Next]_vars PROVE AllowedInv'
  OBVIOUS
<1>0. UNCHANGED sc
  BY NextCases, ClientFrame, HostFrame, HelperFrame
<1>1. ASSUME NEW c \in Calls, th'[Main(c)].step = "script" PROVE Allowed(Script(c))
  <2>1. th[Main(c)] \in ThreadState /\ "script" # None
    BY ThreadParts, GuiAssumption DEF TypeOK, ThreadState, Steps
  <2>2. th[Main(c)].step = "script" \/ sc.board = "expected"
    <3> DEFINE m == Main(c)
    <3>1. MainMoves(c)
      BY MainSteps
    <3>2. CASE th'[m] = th[m]
      BY <1>1, <3>2
    <3>3. CASE th'[m] = Done \/ th'[m] \in {Begin("keys"), Begin("tree")}
      BY <1>1, <2>1, <3>3 DEF Done, Begin
    <3>4. CASE th'[m] = [th[m] EXCEPT !.at = "drive"]
      BY <1>1, <2>1, <3>4 DEF ThreadState
    <3>5. ASSUME NEW r, th'[m] = [th[m] EXCEPT !.at = "judge", !.res = r] PROVE th[m].step = "script"
      BY <1>1, <2>1, <3>5 DEF ThreadState
    <3>6. CASE th'[m] = [th[m] EXCEPT !.step = "fetch", !.at = "stage"]
      BY <1>1, <2>1, <3>6 DEF ThreadState
    <3> QED
      BY <3>1, <3>2, <3>3, <3>4, <3>5, <3>6 DEF MainMoves
  <2> QED
    BY <2>2 DEF AllowedInv, Allowed
<1>2. ASSUME NEW j \in Jobs, drv'[j] # "none" PROVE Allowed(j)
  <2>1. CASE j[2] # "script"
    BY <2>1 DEF Allowed
  <2>2. CASE j[2] = "script"
    <3>1. j = Script(j[1]) /\ j[1] \in Calls
      BY <2>2 DEF Jobs, Script
    <3>2. DriverMoves(j[1], "script")
      BY <3>1, DriverSteps
    <3>3. drv[j] # "none" \/ th[Main(j[1])].step = "script"
      BY <1>2, <3>1, <3>2 DEF DriverMoves, Script
    <3> QED
      BY <3>1, <3>3 DEF AllowedInv
  <2> QED
    BY <2>1, <2>2
<1> QED
  BY <1>0, <1>1, <1>2 DEF AllowedInv, Allowed

\* What a step does to the console's task, and to the helper of a script.
LEMMA TaskSteps ==
  ASSUME TypeOK, [Next]_vars
  PROVE  /\ \/ task'[<<"console">>] = task[<<"console">>] \/ task'[<<"console">>] = None
            \/ \E k \in Jobs : Console(k) /\ Register(k) /\ drv'[k] = "run" /\ task'[<<"console">>] = k
         /\ \A j \in Jobs : Console(j) /\ helper'[j] # helper[j] =>
              \/ /\ helper[j] \in {"none", "ended"} /\ helper'[j] = "started" /\ task[<<"console">>] = j
                 /\ \E k \in Jobs : Console(k) /\ RunTask(k)
              \/ helper[j] \notin {"none", "ended"} /\ helper'[j] \notin {"none", "started"}
<1>n. \A j \in Jobs : ~Console(j) => TaskName(j) # <<"console">>
  BY DEF TaskName, Jobs
<1>t. /\ \A j \in Jobs : helper[j] \in {"none", "started", "typed", "polling", "clicking", "ended"}
      /\ task \in [TaskNames -> Jobs \union {None}] /\ helper \in [Jobs -> {"none", "started", "typed", "polling", "clicking", "ended"}]
      /\ \A x \in TaskNames : task[x] # None => TaskName(task[x]) = x
      /\ drv \in [Jobs -> {"none", "register", "run", "await", "gone"}]
  BY DEF TypeOK
<1>1. ASSUME NEW k \in Jobs, Register(k)
      PROVE  /\ \/ task'[<<"console">>] = task[<<"console">>] \/ task'[<<"console">>] = None
                \/ Console(k) /\ drv'[k] = "run" /\ task'[<<"console">>] = k
             /\ \A j \in Jobs : Console(j) => helper'[j] = helper[j]
  <2>1. PICK x \in {k, None} :
          /\ task' = [task EXCEPT ![TaskName(k)] = x]
          /\ IF Console(k) THEN UNCHANGED helper /\ drv' = [drv EXCEPT ![k] = "run"] ELSE helper' = Started(x)
    BY <1>1 DEF Register, Refused
  <2>2. task'[<<"console">>] = task[<<"console">>] \/ (Console(k) /\ task'[<<"console">>] = x)
    BY <1>n, <1>t, <2>1
  <2>3. \A j \in Jobs : Console(j) => helper'[j] = helper[j]
    BY <1>t, <2>1 DEF Started
  <2> QED
    BY <1>t, <2>1, <2>2, <2>3
<1>2. ASSUME NEW k \in Jobs, RunTask(k)
      PROVE  /\ UNCHANGED task
             /\ \A j \in Jobs : Console(j) /\ helper'[j] # helper[j] =>
                  helper[j] \in {"none", "ended"} /\ helper'[j] = "started" /\ task[<<"console">>] = j /\ Console(k)
  <2>1. UNCHANGED task /\ helper' = Started(task[TaskName(k)])
    BY <1>2 DEF RunTask
  <2>2. TaskName(k) \in TaskNames
    BY JobParts
  <2>3. ASSUME NEW j \in Jobs, Console(j), helper'[j] # helper[j]
        PROVE  task[TaskName(k)] = j /\ helper[j] \in {"none", "ended"} /\ helper'[j] = "started"
    BY <1>t, <2>1, <2>2, <2>3 DEF Started
  <2>4. ASSUME NEW j \in Jobs, Console(j), task[TaskName(k)] = j PROVE TaskName(k) = <<"console">>
    <3>1. j # None
      BY GuiAssumption
    <3> QED
      BY <1>t, <2>2, <2>4, <3>1, JobParts
  <2> QED
    BY <1>n, <2>1, <2>3, <2>4
<1>3. ASSUME NEW k \in Jobs, Await(k)
      PROVE  UNCHANGED helper /\ (task'[<<"console">>] = task[<<"console">>] \/ task'[<<"console">>] = None)
  <2>1. UNCHANGED helper /\ task' = [task EXCEPT ![TaskName(k)] = None]
    BY <1>3, AwaitEffect
  <2> QED
    BY <1>t, <2>1
<1>4. ASSUME NEW k \in Jobs, Helper(k)
      PROVE  /\ UNCHANGED task
             /\ \A j \in Jobs : helper'[j] # helper[j] =>
                  helper[j] \notin {"none", "ended"} /\ helper'[j] \notin {"none", "started"}
  <2>1. UNCHANGED task
    BY <1>4, HelperFrame
  <2>2. helper[k] \in {"started", "typed", "polling", "clicking"} /\
        \E x \in {"typed", "polling", "clicking", "ended"} : helper' = [helper EXCEPT ![k] = x]
    BY <1>4 DEF Helper, Type, Enter, Look, Launch, ClickSearch, ClickReturns, SendKeys, DumpTree, Ends
  <2> QED
    BY <1>t, <2>1, <2>2
<1>5. CASE UNCHANGED <<task, helper>>
  BY <1>5
<1> QED
  BY <1>1, <1>2, <1>3, <1>4, <1>5, NextCases, ClientFrame, HostFrame, HelperFrame

\* What a step does to the input box, the queue and the scripts that have run.
LEMMA ConsoleSteps ==
  ASSUME TypeOK, [Next]_vars
  PROVE  \/ gui'.box = gui.box /\ UNCHANGED <<queue, runs, printed>>
         \/ \E j \in Jobs : /\ Console(j) /\ helper[j] = "started" /\ helper' = [helper EXCEPT ![j] = "typed"]
                            /\ gui'.box = j /\ UNCHANGED <<queue, runs, printed, drv>>
         \/ /\ gui'.box = None /\ UNCHANGED <<runs, printed, drv>>
            /\ UNCHANGED queue \/ (gui.box # None /\ queue' = Append(queue, gui.box))
            /\ \E j \in Jobs : helper[j] = "typed" /\ helper' = [helper EXCEPT ![j] = "polling"]
         \/ /\ queue # <<>> /\ queue' = Tail(queue) /\ printed' = Append(printed, Head(queue))
            /\ runs' = [runs EXCEPT ![Head(queue)] = @ + 1] /\ UNCHANGED <<gui, helper, drv>>
<1>1. gui \in [up : BOOLEAN, cable : BOOLEAN, dialog : Calls \union {None}, box : Jobs \union {None}]
  BY DEF TypeOK
<1>2. ASSUME NEW j \in Jobs, Type(j)
      PROVE  \/ gui'.box = gui.box /\ UNCHANGED <<queue, runs, printed>>
             \/ /\ Console(j) /\ helper[j] = "started" /\ helper' = [helper EXCEPT ![j] = "typed"]
                /\ gui'.box = j /\ UNCHANGED <<queue, runs, printed, drv>>
  BY <1>1, <1>2 DEF Type
<1>3. ASSUME NEW j \in Jobs, Enter(j)
      PROVE  \/ gui'.box = gui.box /\ UNCHANGED <<queue, runs, printed>>
             \/ /\ gui'.box = None /\ UNCHANGED <<runs, printed, drv>>
                /\ UNCHANGED queue \/ (gui.box # None /\ queue' = Append(queue, gui.box))
                /\ helper[j] = "typed" /\ helper' = [helper EXCEPT ![j] = "polling"]
  BY <1>1, <1>3 DEF Enter, history
<1>4. ASSUME NEW j \in Jobs, Look(j) \/ Launch(j) \/ ClickSearch(j) \/ ClickReturns(j) \/ SendKeys(j) \/ DumpTree(j)
      PROVE  gui'.box = gui.box /\ UNCHANGED <<queue, runs, printed>>
  BY <1>1, <1>4 DEF Look, Launch, ClickSearch, ClickReturns, SendKeys, DumpTree, debugger, history
<1>5. CASE EndScript
  BY <1>5 DEF EndScript
<1>6. CASE UNCHANGED <<gui, queue, runs, printed>>
  BY <1>6
<1>7. StartExport => UNCHANGED <<gui, queue, runs, printed>>
  BY DEF StartExport, debugger, history
<1> QED
  BY <1>2, <1>3, <1>4, <1>5, <1>6, <1>7, NextCases, ClientFrame, HostFrame, HelperFrame DEF Helper

\* A script has a helper after its driver has registered it, and is at the
\* console after its helper has started.
LEMMA NextPlaceInv == TypeOK /\ ThreadInv /\ DriverInv /\ PlaceInv /\ [Next]_vars => PlaceInv'
<1> SUFFICES ASSUME TypeOK, ThreadInv, DriverInv, PlaceInv, [Next]_vars PROVE PlaceInv'
  OBVIOUS
<1> DEFINE Away(j) == gui.box # j /\ (\A i \in DOMAIN queue : queue[i] # j) /\ runs[j] = 0
<1>t. /\ queue \in Seq(Jobs) /\ (\A i \in DOMAIN queue : Console(queue[i])) /\ runs \in [Jobs -> Nat]
      /\ helper \in [Jobs -> {"none", "started", "typed", "polling", "clicking", "ended"}]
      /\ \A j \in Jobs : j # None
  BY GuiAssumption DEF TypeOK
<1>1. (gui'.box # None => Console(gui'.box)) /\ \A j \in Jobs : runs'[j] > 0 => Console(j)
  <2>1. \A j \in Jobs : runs[j] > 0 => Console(j)
    BY DEF PlaceInv
  <2>2. gui.box # None => Console(gui.box)
    BY DEF PlaceInv
  <2>3. queue # <<>> => Head(queue) \in Jobs /\ Console(Head(queue))
    BY <1>t
  <2>4. UNCHANGED runs \/ (queue # <<>> /\ runs' = [runs EXCEPT ![Head(queue)] = @ + 1])
    BY ConsoleSteps
  <2>5. gui'.box = gui.box \/ gui'.box = None \/ Console(gui'.box)
    BY ConsoleSteps
  <2>6. ASSUME NEW j \in Jobs, runs'[j] > 0 PROVE Console(j)
    BY <1>t, <2>1, <2>3, <2>4, <2>6
  <2> QED
    BY <2>2, <2>5, <2>6
<1>2. ASSUME NEW j \in Jobs, Console(j), drv'[j] \in {"none", "register"}
      PROVE  helper'[j] = "none" /\ task'[<<"console">>] # j
  <2>1. PICK s \in {"read", "script"} : j = <<j[1], s>> /\ j[1] \in Calls
    BY <1>2, JobParts DEF Read, Script
  <2>2. drv[j] \in {"none", "register"} \/ (th[Main(j[1])].at = "stage" /\ th[Main(j[1])].step = s)
    BY <1>2, <2>1, DriverSteps DEF DriverMoves
  <2>3. drv[j] \in {"none", "register"}
    BY <2>1, <2>2 DEF DriverInv, Read, Script
  <2> QED
    BY <1>2, <1>t, <2>3, TaskSteps DEF PlaceInv
<1>3. ASSUME NEW j \in Jobs, Console(j), helper'[j] = "none" PROVE Away(j)'
  <2>1. helper[j] = "none"
    BY <1>3, TaskSteps
  <2>2. Away(j)
    BY <1>3, <2>1 DEF PlaceInv
  <2>3. CASE gui'.box = gui.box /\ UNCHANGED <<queue, runs>>
    BY <2>2, <2>3
  <2>4. ASSUME NEW k \in Jobs, helper[k] = "started", gui'.box = k, UNCHANGED <<queue, runs>> PROVE Away(j)'
    BY <2>1, <2>2, <2>4
  <2>5. CASE gui'.box = None /\ UNCHANGED runs /\ (UNCHANGED queue \/ (gui.box # None /\ queue' = Append(queue, gui.box)))
    <3>1. gui.box \in Jobs \union {None}
      BY DEF TypeOK
    <3>2. ASSUME gui.box # None, queue' = Append(queue, gui.box), NEW i \in DOMAIN queue' PROVE queue'[i] # j
      <4>1. /\ DOMAIN queue' = 1..(Len(queue) + 1) /\ DOMAIN queue = 1..Len(queue) /\ Len(queue) \in Nat
            /\ queue'[Len(queue) + 1] = gui.box /\ \A h \in DOMAIN queue : queue'[h] = queue[h]
        BY <1>t, <3>1, <3>2
      <4> QED
        BY <2>2, <4>1
    <3> QED
      BY <1>t, <2>2, <2>5, <3>2
  <2>6. CASE queue # <<>> /\ queue' = Tail(queue) /\ runs' = [runs EXCEPT ![Head(queue)] = @ + 1] /\ UNCHANGED gui
    <3>1. \A i \in DOMAIN queue' : queue'[i] # j
      BY <1>t, <2>2, <2>6
    <3>2. Head(queue) # j
      BY <1>t, <2>2, <2>6
    <3> QED
      BY <1>t, <2>2, <2>6, <3>1, <3>2
  <2> QED
    BY <2>3, <2>4, <2>5, <2>6, ConsoleSteps
<1> QED
  <2>1. (gui.box # None => Console(gui.box))'
    BY <1>1 DEF Console
  <2> QED
    BY <1>1, <1>2, <1>3, <2>1 DEF PlaceInv

LEMMA RegisterEffect ==
  ASSUME TypeOK, NEW j \in Jobs, Console(j), Register(j)
  PROVE  /\ drv[j] = "register" /\ task'[<<"console">>] \in {j, None}
         /\ \A k \in Jobs : Console(k) /\ k[1] # j[1] /\ drv[k] = "run" => {j[1], k[1]} \subseteq together'
<1>1. TaskName(j) = <<"console">> /\ <<"console">> \in TaskNames /\ \A k \in Jobs : Console(k) => TaskName(k) = <<"console">>
  BY JobParts
<1>2. PICK x \in {j, None} : drv[j] = "register" /\ task' = [task EXCEPT ![<<"console">>] = x]
  BY <1>1 DEF Register, Refused
<1>3. LET others == {k \in Jobs : k[1] # j[1] /\ TaskName(k) = TaskName(j) /\ Alive(k)} IN
        together' = IF others = {} THEN together ELSE together \union {k[1] : k \in others \union {j}}
  BY DEF Register
<1> QED
  BY <1>1, <1>2, <1>3 DEF Alive, TypeOK

LEMMA TogetherGrows == ASSUME TypeOK, [Next]_vars PROVE together \subseteq together'
<1>1. ASSUME NEW j \in Jobs, Register(j) PROVE together \subseteq together'
  BY <1>1 DEF Register
<1>2. ASSUME NEW j \in Jobs, RunTask(j) \/ Await(j) PROVE together' = together
  BY <1>2 DEF RunTask, Await, history
<1> QED
  BY <1>1, <1>2, NextCases, ClientFrame, HostFrame, HelperFrame

\* A driver finds another one's task when it runs it only if the two overlapped.
LEMMA NextTaskInv == TypeOK /\ ThreadInv /\ DriverInv /\ TaskInv /\ [Next]_vars => TaskInv'
<1> SUFFICES ASSUME TypeOK, ThreadInv, DriverInv, TaskInv, [Next]_vars,
                    NEW j \in Jobs, NEW k \in Jobs, Console(j), Console(k), j # k,
                    drv'[k] = "run", task'[<<"console">>] = j
             PROVE  j[1] \in together' /\ k[1] \in together'
  BY DEF TaskInv, Console
<1>0. j # None
  BY GuiAssumption
<1>1. drv[k] = "run"
  <2>1. PICK s \in {"read", "script"} : k = <<k[1], s>> /\ k[1] \in Calls
    BY JobParts DEF Read, Script
  <2>2. drv[k] = "run" \/ Register(k)
    BY <2>1, DriverSteps DEF DriverMoves
  <2> QED
    BY <1>0, <2>2, RegisterEffect
<1>2. CASE task[<<"console">>] = j
  BY <1>1, <1>2, TogetherGrows DEF TaskInv
<1>3. CASE task[<<"console">>] # j
  <2>1. Register(j)
    BY <1>0, <1>3, TaskSteps
  <2>2. drv[j] = "register"
    BY <2>1, RegisterEffect
  <2>3. k[1] # j[1]
    BY <1>1, <2>2, JobParts DEF DriverInv
  <2> QED
    BY <1>1, <2>1, <2>3, RegisterEffect
<1> QED
  BY <1>2, <1>3

\* A script that nobody else's driver met is given to the console once.
LEMMA NextOnceInv ==
  TypeOK /\ ThreadInv /\ DriverInv /\ PlaceInv /\ TaskInv /\ OnceInv /\ [Next]_vars => OnceInv'
<1> SUFFICES ASSUME TypeOK, ThreadInv, DriverInv, PlaceInv, TaskInv, OnceInv, [Next]_vars,
                    NEW j \in Jobs, Console(j), j[1] \notin together'
             PROVE
    /\ drv'[j] = "run" => helper'[j] = "none"
    /\ helper'[j] = "started" => gui'.box # j /\ (\A i \in DOMAIN queue' : queue'[i] # j) /\ runs'[j] = 0
    /\ gui'.box = j => (\A i \in DOMAIN queue' : queue'[i] # j) /\ runs'[j] = 0
    /\ \A i \in DOMAIN queue' : queue'[i] = j =>
         runs'[j] = 0 /\ \A h \in DOMAIN queue' : queue'[h] = j => h = i
    /\ runs'[j] <= 1
  BY DEF OnceInv, Console
<1> DEFINE Queued == \E i \in DOMAIN queue : queue[i] = j
           Once == /\ helper[j] = "started" => gui.box # j /\ ~Queued /\ runs[j] = 0
                   /\ gui.box = j => ~Queued /\ runs[j] = 0
                   /\ Queued => runs[j] = 0
                   /\ \A i, h \in DOMAIN queue : queue[i] = j /\ queue[h] = j => h = i
                   /\ runs[j] <= 1
<1>t. /\ queue \in Seq(Jobs) /\ runs \in [Jobs -> Nat] /\ gui.box \in Jobs \union {None}
      /\ helper \in [Jobs -> {"none", "started", "typed", "polling", "clicking", "ended"}]
      /\ j # None
  BY GuiAssumption DEF TypeOK
<1>0. j[1] \notin together
  BY TogetherGrows
<1>1. Once /\ (drv[j] = "run" => helper[j] = "none")
  BY <1>0 DEF OnceInv
<1>2. \A k \in Jobs : Console(k) /\ drv[k] = "run" /\ task[<<"console">>] = j => k = j
  BY <1>0 DEF TaskInv
<1>3. ASSUME helper'[j] = "started", helper[j] # "started"
      PROVE  gui.box # j /\ ~Queued /\ runs[j] = 0 /\ RunTask(j)
  <2>1. task[<<"console">>] = j /\ \E k \in Jobs : Console(k) /\ RunTask(k)
    BY <1>3, TaskSteps
  <2>2. RunTask(j) /\ drv[j] = "run"
    BY <1>2, <2>1 DEF RunTask
  <2> QED
    BY <1>1, <2>2 DEF PlaceInv
<1>4. drv'[j] = "run" => helper'[j] = "none"
  <2>1. PICK s \in {"read", "script"} : j = <<j[1], s>> /\ j[1] \in Calls
    BY JobParts DEF Read, Script
  <2>2. ASSUME drv'[j] = "run" PROVE helper[j] = "none"
    <3>1. drv[j] = "run" \/ drv[j] = "register"
      <4>1. DriverMoves(j[1], s)
        BY <2>1, DriverSteps
      <4> QED
        BY <2>1, <2>2, <4>1 DEF DriverMoves
    <3> QED
      BY <1>1, <3>1 DEF PlaceInv
  <2>3. ASSUME drv'[j] = "run", helper'[j] # "none" PROVE FALSE
    <3>1. helper'[j] = "started" /\ helper[j] = "none"
      BY <2>2, <2>3, TaskSteps
    <3>2. RunTask(j)
      BY <1>3, <3>1
    <3>3. drv' = [drv EXCEPT ![j] = "await"] /\ drv \in [Jobs -> {"none", "register", "run", "await", "gone"}]
      BY <3>2 DEF RunTask, TypeOK
    <3> QED
      BY <2>3, <3>3
  <2> QED
    BY <2>3
<1>5. Once'
  <2>1. CASE gui'.box = gui.box /\ UNCHANGED <<queue, runs>>
    BY <1>1, <1>3, <2>1
  <2>2. ASSUME NEW k \in Jobs, helper[k] = "started", helper' = [helper EXCEPT ![k] = "typed"], gui'.box = k,
               UNCHANGED <<queue, runs>>
        PROVE  Once'
    BY <1>1, <1>t, <2>2
  <2>3. CASE /\ gui'.box = None /\ UNCHANGED runs
             /\ UNCHANGED queue \/ (gui.box # None /\ queue' = Append(queue, gui.box))
             /\ \E k \in Jobs : helper[k] = "typed" /\ helper' = [helper EXCEPT ![k] = "polling"]
    <3>1. helper'[j] = "started" => helper[j] = "started"
      BY <1>t, <2>3
    <3>2. CASE UNCHANGED queue
      BY <1>1, <1>t, <2>3, <3>1, <3>2
    <3>3. CASE gui.box # None /\ queue' = Append(queue, gui.box)
      <4>1. /\ DOMAIN queue' = 1..(Len(queue) + 1) /\ DOMAIN queue = 1..Len(queue) /\ Len(queue) \in Nat
            /\ queue'[Len(queue) + 1] = gui.box /\ \A i \in DOMAIN queue : queue'[i] = queue[i]
        BY <1>t, <3>3
      <4>2. CASE gui.box = j
        BY <1>1, <1>t, <2>3, <3>1, <4>1, <4>2
      <4>3. CASE gui.box # j
        <5>1. \A i \in DOMAIN queue' : queue'[i] = j => i \in DOMAIN queue /\ queue[i] = j
          BY <4>1, <4>3
        <5>2. Queued' => Queued
          BY <5>1
        <5>3. \A i, h \in DOMAIN queue' : queue'[i] = j /\ queue'[h] = j => h = i
          BY <1>1, <5>1
        <5>4. gui'.box # j /\ runs'[j] = runs[j]
          BY <1>t, <2>3
        <5> QED
          BY <1>1, <3>1, <5>2, <5>3, <5>4
      <4> QED
        BY <4>2, <4>3
    <3> QED
      BY <2>3, <3>2, <3>3
  <2>4. CASE /\ queue # <<>> /\ queue' = Tail(queue) /\ runs' = [runs EXCEPT ![Head(queue)] = @ + 1]
             /\ UNCHANGED <<gui, helper>>
    <3>1. /\ DOMAIN queue' = 1..(Len(queue) - 1) /\ DOMAIN queue = 1..Len(queue) /\ Len(queue) \in Nat \ {0}
          /\ Head(queue) = queue[1] /\ \A i \in DOMAIN queue' : queue'[i] = queue[i + 1] /\ i + 1 \in DOMAIN queue
      BY <1>t, <2>4
    <3>2. CASE Head(queue) = j
      <4>1. runs'[j] = 1 /\ helper'[j] # "started" /\ gui'.box # j
        BY <1>1, <1>t, <2>4, <3>1, <3>2
      <4>2. \A i \in DOMAIN queue' : queue'[i] # j
        BY <1>1, <3>1, <3>2
      <4> QED
        BY <4>1, <4>2
    <3>3. CASE Head(queue) # j
      <4>1. runs'[j] = runs[j]
        BY <1>t, <2>4, <3>3
      <4>2. Queued' => Queued
        BY <3>1
      <4>3. ASSUME NEW i \in DOMAIN queue', NEW h \in DOMAIN queue', queue'[i] = j, queue'[h] = j PROVE h = i
        <5>1. i + 1 = h + 1
          BY <1>1, <3>1, <4>3
        <5> QED
          BY <3>1, <5>1
      <4> QED
        BY <1>1, <2>4, <4>1, <4>2, <4>3
    <3> QED
      BY <3>2, <3>3
  <2> QED
    BY <2>1, <2>2, <2>3, <2>4, ConsoleSteps
<1> QED
  BY <1>4, <1>5
-----------------------------------------------------------------------------
(* Sentinels and transcripts *)

\* What a step does to the transcript's length at typing, sentinels and exports.
LEMMA TranscriptSteps ==
  ASSUME TypeOK, [Next]_vars
  PROVE  \/ UNCHANGED <<sentinel, base, vcd, runs, printed>>
         \/ \E j \in Jobs : /\ Console(j) /\ helper[j] = "started"
                            /\ base' = [base EXCEPT ![j] = Len(printed)] /\ sentinel' = [sentinel EXCEPT ![j] = None]
                            /\ UNCHANGED <<vcd, runs, printed>>
         \/ \E k \in Jobs : /\ vcd[k] = "none" /\ vcd' = [vcd EXCEPT ![k] = "part"]
                            /\ UNCHANGED <<sentinel, base, runs, printed>>
         \/ /\ queue # <<>> /\ EndScript /\ UNCHANGED base
<1>1. ASSUME NEW j \in Jobs, Type(j)
      PROVE  \/ UNCHANGED <<sentinel, base, vcd, runs, printed>>
             \/ /\ Console(j) /\ helper[j] = "started"
                /\ base' = [base EXCEPT ![j] = Len(printed)] /\ sentinel' = [sentinel EXCEPT ![j] = None]
                /\ UNCHANGED <<vcd, runs, printed>>
  BY <1>1 DEF Type
<1>2. ASSUME NEW j \in Jobs,
             Enter(j) \/ Look(j) \/ Launch(j) \/ ClickSearch(j) \/ ClickReturns(j) \/ SendKeys(j) \/ DumpTree(j)
      PROVE  UNCHANGED <<sentinel, base, vcd, runs, printed>>
  BY <1>2 DEF Enter, Look, Launch, ClickSearch, ClickReturns, SendKeys, DumpTree, debugger, history
<1>3. CASE StartExport
  <2>1. queue # <<>> /\ Head(queue) \in Jobs
    BY <1>3 DEF StartExport, TypeOK
  <2> QED
    BY <1>3, <2>1 DEF StartExport, debugger, history
<1>4. CASE EndScript
  BY <1>4 DEF EndScript
<1>5. CASE UNCHANGED <<sentinel, base, vcd, runs, printed>>
  BY <1>5
<1> QED
  BY <1>1, <1>2, <1>3, <1>4, <1>5, NextCases, ClientFrame, HostFrame, HelperFrame DEF Helper

LEMMA EndScriptEffect ==
  ASSUME TypeOK, EndScript
  PROVE  \E k \in Jobs, rc \in {0, 1} :
           /\ queue # <<>> /\ k = Head(queue) /\ Console(k) /\ queue' = Tail(queue)
           /\ sentinel' = [sentinel EXCEPT ![k] = rc]
           /\ rc = 0 /\ sc.kind[k[1]] = "capture" => vcd'[k] = "whole"
           /\ \A j \in Jobs : vcd'[j] = vcd[j] \/ (j = k /\ vcd'[j] = "whole")
           /\ vcd' \in [Jobs -> {"none", "part", "whole"}]
           /\ printed' = Append(printed, k) /\ runs' = [runs EXCEPT ![k] = @ + 1]
           /\ UNCHANGED <<sc, gui, base, helper, out, behind>>
<1>1. queue # <<>> /\ Head(queue) \in Jobs /\ Console(Head(queue))
  BY DEF EndScript, TypeOK
<1>2. vcd \in [Jobs -> {"none", "part", "whole"}]
  BY DEF TypeOK
<1> QED
  BY <1>1, <1>2 DEF EndScript

\* Exports that are whole stay so.
LEMMA NextSentinelInv == TypeOK /\ SentinelInv /\ [Next]_vars => SentinelInv'
<1>0. [Next]_vars => UNCHANGED sc
  BY NextCases, ClientFrame, HostFrame, HelperFrame
<1> SUFFICES ASSUME TypeOK, SentinelInv, [Next]_vars, NEW j \in Jobs, sentinel'[j] # None
             PROVE  /\ runs'[j] > 0 /\ Len(printed') > base'[j]
                    /\ sentinel'[j] = 0 /\ sc.kind[j[1]] = "capture" => vcd'[j] = "whole"
  BY <1>0 DEF SentinelInv
<1>t. /\ sentinel \in [Jobs -> {None, 0, 1}] /\ vcd \in [Jobs -> {"none", "part", "whole"}]
      /\ printed \in Seq(Jobs) /\ base \in [Jobs -> Nat] /\ runs \in [Jobs -> Nat]
      /\ \A k \in Jobs : base[k] <= Len(printed)
  BY DEF TypeOK
<1>1. sentinel[j] # None => /\ runs[j] > 0 /\ Len(printed) > base[j]
                            /\ sentinel[j] = 0 /\ sc.kind[j[1]] = "capture" => vcd[j] = "whole"
  BY DEF SentinelInv
<1>2. CASE UNCHANGED <<sentinel, base, vcd, runs, printed>>
  BY <1>1, <1>2
<1>3. ASSUME NEW k \in Jobs, base' = [base EXCEPT ![k] = Len(printed)], sentinel' = [sentinel EXCEPT ![k] = None],
             UNCHANGED <<vcd, runs, printed>>
      PROVE  /\ runs'[j] > 0 /\ Len(printed') > base'[j]
             /\ sentinel'[j] = 0 /\ sc.kind[j[1]] = "capture" => vcd'[j] = "whole"
  BY <1>1, <1>t, <1>3
<1>4. ASSUME NEW k \in Jobs, vcd[k] = "none", vcd' = [vcd EXCEPT ![k] = "part"], UNCHANGED <<sentinel, base, runs, printed>>
      PROVE  /\ runs'[j] > 0 /\ Len(printed') > base'[j]
             /\ sentinel'[j] = 0 /\ sc.kind[j[1]] = "capture" => vcd'[j] = "whole"
  BY <1>1, <1>t, <1>4
<1>5. CASE EndScript
  <2>1. PICK k \in Jobs, rc \in {0, 1} :
           /\ sentinel' = [sentinel EXCEPT ![k] = rc]
           /\ rc = 0 /\ sc.kind[k[1]] = "capture" => vcd'[k] = "whole"
           /\ \A x \in Jobs : vcd'[x] = vcd[x] \/ (x = k /\ vcd'[x] = "whole")
           /\ printed' = Append(printed, k) /\ runs' = [runs EXCEPT ![k] = @ + 1] /\ UNCHANGED base
    BY <1>5, EndScriptEffect
  <2>2. Len(printed') = Len(printed) + 1 /\ Len(printed) \in Nat
    BY <1>t, <2>1
  <2>3. runs'[j] > 0
    BY <1>1, <1>t, <2>1
  <2>4. Len(printed') > base'[j]
    BY <1>t, <2>1, <2>2
  <2> QED
    BY <1>1, <1>t, <2>1, <2>3, <2>4
<1> QED
  BY <1>2, <1>3, <1>4, <1>5, TranscriptSteps

\* A transcript is that of the one who has the console.
LEMMA NextAloneInv == TypeOK /\ AloneInv /\ [Next]_vars => AloneInv'
<1> SUFFICES ASSUME TypeOK, AloneInv, [Next]_vars, NEW j \in Jobs, Console(j), j \notin behind',
                    helper'[j] \in {"typed", "polling"}
             PROVE
    /\ \A k \in Jobs \ {j} : helper'[k] \notin {"typed", "polling"}
    /\ helper'[j] = "typed" => gui'.box = j /\ queue' = <<>> /\ Len(printed') = base'[j]
    /\ gui'.box \in {j, None}
    /\ \A i \in DOMAIN queue' : queue'[i] = j
    /\ \A i \in DOMAIN printed' : i > base'[j] => printed'[i] = j
  BY DEF AloneInv, Console
<1> DEFINE Alone ==
    /\ \A k \in Jobs \ {j} : helper[k] \notin {"typed", "polling"}
    /\ helper[j] = "typed" => gui.box = j /\ queue = <<>> /\ Len(printed) = base[j]
    /\ gui.box \in {j, None}
    /\ \A i \in DOMAIN queue : queue[i] = j
    /\ \A i \in DOMAIN printed : i > base[j] => printed[i] = j
<1> SUFFICES Alone'
  OBVIOUS
<1>t. /\ helper \in [Jobs -> {"none", "started", "typed", "polling", "clicking", "ended"}]
      /\ printed \in Seq(Jobs) /\ queue \in Seq(Jobs) /\ base \in [Jobs -> Nat]
      /\ gui \in [up : BOOLEAN, cable : BOOLEAN, dialog : Calls \union {None}, box : Jobs \union {None}]
  BY DEF TypeOK
<1>1. j \notin behind /\ helper[j] \in {"typed", "polling"} => Alone
  BY DEF AloneInv
<1>2. ASSUME NEW k \in Jobs, Type(k) PROVE Alone'
  <2>1. CASE ~gui.up \/ gui.dialog # None
    BY <1>1, <1>t, <1>2, <2>1 DEF Type, Ends
  <2>2. CASE gui.up /\ gui.dialog = None
    <3>1. /\ helper' = [helper EXCEPT ![k] = "typed"] /\ base' = [base EXCEPT ![k] = Len(printed)]
          /\ gui' = [gui EXCEPT !.box = k] /\ UNCHANGED <<queue, printed>>
          /\ behind' = IF queue = <<>> /\ Typing(k) = {} THEN behind ELSE behind \union {k} \union Typing(k)
      BY <1>2, <2>2 DEF Type
    <3>2. CASE k = j
      <4>1. queue = <<>> /\ Typing(j) = {}
        BY <3>1, <3>2
      <4>2. \A x \in Jobs \ {j} : helper'[x] \notin {"typed", "polling"}
        BY <1>t, <3>1, <3>2, <4>1 DEF Typing
      <4>3. gui'.box = j /\ base'[j] = Len(printed)
        BY <1>t, <3>1, <3>2
      <4> QED
        BY <1>t, <3>1, <4>1, <4>2, <4>3
    <3>3. CASE k # j
      <4>1. helper[j] \in {"typed", "polling"}
        BY <1>t, <3>1, <3>3
      <4>2. j \in behind'
        BY <3>1, <3>3, <4>1 DEF Typing
      <4> QED
        BY <4>2
    <3> QED
      BY <3>2, <3>3
  <2> QED
    BY <1>t, <2>1, <2>2
<1>3. ASSUME NEW k \in Jobs, Enter(k) PROVE Alone'
  <2>1. helper[k] = "typed" /\ helper' = [helper EXCEPT ![k] = "polling"] /\ UNCHANGED <<base, printed, behind>>
    BY <1>3 DEF Enter, history
  <2>2. helper[j] \in {"typed", "polling"}
    BY <1>t, <2>1
  <2>3. Alone
    BY <1>1, <2>1, <2>2
  <2>4. k = j
    BY <2>1, <2>3
  <2>5. CASE gui.dialog # None
    BY <1>3, <1>t, <2>1, <2>3, <2>4, <2>5 DEF Enter
  <2>6. CASE gui.dialog = None
    <3>1. gui'.box = None /\ queue' = IF gui.box = None THEN queue ELSE Append(queue, gui.box)
      BY <1>3, <1>t, <2>6 DEF Enter
    <3>2. \A i \in DOMAIN queue' : queue'[i] = j
      BY <1>t, <2>3, <3>1
    <3> QED
      BY <1>t, <2>1, <2>3, <2>4, <3>1, <3>2
  <2> QED
    BY <2>5, <2>6
<1>4. ASSUME NEW k \in Jobs, Look(k) \/ Launch(k) \/ ClickSearch(k) \/ ClickReturns(k) \/ SendKeys(k) \/ DumpTree(k)
      PROVE  Alone'
  <2>1. /\ UNCHANGED <<queue, printed, base, behind>> /\ gui'.box = gui.box
        /\ \E x \in {"clicking", "ended"} : helper' = [helper EXCEPT ![k] = x]
    BY <1>4, <1>t DEF Look, Launch, ClickSearch, ClickReturns, SendKeys, DumpTree, Ends, debugger, history
  <2> QED
    BY <1>1, <1>t, <2>1
<1>5. ASSUME NEW k \in Jobs, Register(k) \/ RunTask(k) PROVE Alone'
  <2>1. UNCHANGED <<queue, printed, base, behind, gui>>
    BY <1>5, HostFrame
  <2>2. UNCHANGED helper \/ \E x : helper' = Started(x)
    BY <1>5 DEF Register, RunTask
  <2>3. \A x \in Jobs : helper'[x] \in {"typed", "polling"} => helper'[x] = helper[x]
    BY <1>t, <2>2 DEF Started
  <2>4. \A x \in Jobs : helper[x] \in {"typed", "polling"} => helper'[x] = helper[x]
    BY <1>t, <2>2 DEF Started
  <2> QED
    BY <1>1, <2>1, <2>3, <2>4
<1>6. CASE EndScript
  <2>1. PICK k \in Jobs : /\ queue # <<>> /\ k = Head(queue) /\ queue' = Tail(queue) /\ printed' = Append(printed, k)
                          /\ UNCHANGED <<gui, base, helper, behind>>
    BY <1>6, EndScriptEffect
  <2>2. Alone
    BY <1>1, <2>1
  <2>3. k = j /\ helper[j] # "typed"
    BY <1>t, <2>1, <2>2
  <2>4. \A i \in DOMAIN queue' : queue'[i] = j
    BY <1>t, <2>1, <2>2
  <2>5. \A i \in DOMAIN printed' : i > base'[j] => printed'[i] = j
    BY <1>t, <2>1, <2>2, <2>3
  <2> QED
    BY <2>1, <2>2, <2>3, <2>4, <2>5
<1>7. ASSUME UNCHANGED <<gui, queue, printed, base, helper, behind>> PROVE Alone'
  BY <1>1, <1>7
<1>8. StartExport => UNCHANGED <<gui, queue, printed, base, helper, behind>>
  BY DEF StartExport, debugger, history
<1>9. \A k \in Jobs : Await(k) => UNCHANGED helper
  BY DEF Await
<1> QED
  BY <1>2, <1>3, <1>4, <1>5, <1>6, <1>7, <1>8, <1>9, NextCases, ClientFrame, HostFrame, HelperFrame DEF Helper
-----------------------------------------------------------------------------
(* What helpers report, and what calls answer *)

\* What has run stays so, and so does a waveform that is whole.
LEMMA HistoryGrows ==
  ASSUME TypeOK, [Next]_vars
  PROVE  /\ UNCHANGED sc /\ behind \subseteq behind'
         /\ \A j \in Jobs : runs[j] > 0 => runs'[j] > 0
         /\ \A j \in Jobs : vcd[j] = "whole" => vcd'[j] = "whole"
<1>0. UNCHANGED sc
  BY NextCases, ClientFrame, HostFrame, HelperFrame
<1>t. /\ vcd \in [Jobs -> {"none", "part", "whole"}] /\ runs \in [Jobs -> Nat]
  BY DEF TypeOK
<1>1. behind \subseteq behind'
  <2>1. ASSUME NEW k \in Jobs, Type(k) PROVE behind \subseteq behind'
    BY <2>1 DEF Type
  <2>2. ASSUME NEW k \in Jobs,
               Enter(k) \/ Look(k) \/ Launch(k) \/ ClickSearch(k) \/ ClickReturns(k) \/ SendKeys(k) \/ DumpTree(k)
        PROVE  behind' = behind
    BY <2>2 DEF Enter, Look, Launch, ClickSearch, ClickReturns, SendKeys, DumpTree, history
  <2> QED
    BY <2>1, <2>2, NextCases, ClientFrame, HostFrame, HelperFrame DEF Helper
<1>2. ASSUME NEW j \in Jobs
      PROVE  (runs[j] > 0 => runs'[j] > 0) /\ (vcd[j] = "whole" => vcd'[j] = "whole")
  <2>1. CASE EndScript
    <3>1. PICK k \in Jobs : /\ \A x \in Jobs : vcd'[x] = vcd[x] \/ (x = k /\ vcd'[x] = "whole")
                            /\ runs' = [runs EXCEPT ![k] = @ + 1]
      BY <2>1, EndScriptEffect
    <3> QED
      BY <1>t, <3>1
  <2>2. ASSUME NEW k \in Jobs, vcd[k] = "none", vcd' = [vcd EXCEPT ![k] = "part"], UNCHANGED runs
        PROVE  (runs[j] > 0 => runs'[j] > 0) /\ (vcd[j] = "whole" => vcd'[j] = "whole")
    BY <1>t, <2>2
  <2> QED
    BY <2>1, <2>2, TranscriptSteps
<1> QED
  BY <1>0, <1>1, <1>2

\* A step leaves a helper's report true.
LEMMA HonestStays ==
  ASSUME TypeOK, [Next]_vars, NEW j \in Jobs, NEW r, Honest(j, r)
  PROVE  Honest(j, r)'
BY HistoryGrows DEF Honest

\* What a step writes to the out file of a script's helper.
LEMMA OutSteps ==
  ASSUME TypeOK, SentinelInv, AloneInv, [Next]_vars, NEW j \in Jobs, Console(j), out'[j] # out[j]
  PROVE  out'[j] = None \/ (out'[j] # None /\ Honest(j, out[j])')
<1>t. out \in [Jobs -> OutFile \union {None}]
  BY DEF TypeOK
<1>1. ASSUME NEW t \in Threads, Stage(t) PROVE out'[j] = None
  <2>1. UNCHANGED out \/ out' = [out EXCEPT ![JobOf(t)] = None]
    BY <1>1 DEF Stage
  <2> QED
    BY <1>t, <2>1
<1>2. ASSUME NEW k \in Jobs, NEW o, out' = [out EXCEPT ![k] = o], k = j => o.said # "sentinel"
      PROVE  Honest(j, out[j])'
  BY <1>t, <1>2 DEF Honest
<1>3. ASSUME NEW k \in Jobs, Look(k) PROVE Honest(j, out[j])'
  <2>1. k = j
    BY <1>t, <1>3 DEF Look, Ends
  <2> DEFINE o == [said |-> IF sentinel[j] # None THEN "sentinel" ELSE "timeout", rc |-> sentinel[j],
                   first |-> IF Delta(j) = <<>> THEN None ELSE Head(Delta(j))]
  <2>2. out'[j] = o /\ helper[j] = "polling"
    BY <1>t, <1>3, <2>1 DEF Look, Ends
  <2>3. UNCHANGED <<sc, runs, behind, vcd>>
    BY <1>3 DEF Look, debugger, history
  <2>4. CASE sentinel[j] = None
    BY <2>2, <2>4 DEF Honest
  <2>5. CASE sentinel[j] # None
    <3>1. /\ runs[j] > 0 /\ Len(printed) > base[j]
          /\ sentinel[j] = 0 /\ sc.kind[j[1]] = "capture" => vcd[j] = "whole"
      BY <2>5 DEF SentinelInv
    <3>2. printed \in Seq(Jobs) /\ base[j] \in Nat /\ Len(printed) \in Nat /\ sentinel[j] \in {0, 1}
      BY <2>5 DEF TypeOK
    <3>3. Delta(j) # <<>> /\ Head(Delta(j)) = printed[base[j] + 1] /\ base[j] + 1 \in DOMAIN printed
      <4>1. /\ base[j] + 1 \in 1..Len(printed) /\ Len(printed) \in (base[j] + 1)..Len(printed)
            /\ base[j] + 1 \in DOMAIN printed
        BY <3>1, <3>2
      <4>2. Head(Delta(j)) = printed[base[j] + 1]
        BY <3>2, <4>1, HeadTailOfSubSeq DEF Delta
      <4>3. base[j] + 1 \in Int /\ Len(printed) \in Int /\ \A i \in (base[j] + 1)..Len(printed) : printed[i] \in Jobs
        BY <3>2, <4>1
      <4>4. Delta(j) # <<>>
        <5>1. Len(Delta(j)) = IF base[j] + 1 <= Len(printed) THEN Len(printed) - (base[j] + 1) + 1 ELSE 0
          BY <4>3, SubSeqProperties DEF Delta
        <5> QED
          BY <4>1, <4>3, <5>1
      <4> QED
        BY <4>1, <4>2, <4>4
    <3>4. Head(Delta(j)) \in Jobs
      BY <3>2, <3>3
    <3>5. Head(Delta(j)) = j \/ j \in behind
      BY <2>2, <3>2, <3>3 DEF AloneInv
    <3>6. o.said = "sentinel" /\ o.rc = sentinel[j] /\ o.first = Head(Delta(j))
      BY <2>5, <3>3
    <3>7. Honest(j, o)
      BY <3>1, <3>2, <3>4, <3>5, <3>6 DEF Honest
    <3> QED
      BY <2>2, <2>3, <3>7 DEF Honest
  <2> QED
    BY <2>4, <2>5
<1>4. ASSUME NEW k \in Jobs,
             Type(k) \/ Enter(k) \/ Launch(k) \/ ClickSearch(k) \/ ClickReturns(k) \/ SendKeys(k) \/ DumpTree(k)
      PROVE  Honest(j, out[j])'
  <2>1. UNCHANGED out \/ \E w \in {"fatal", "launched", "nowindow", "invoked", "sent", "nodialog", "cores", "nothing"} :
                           out' = [out EXCEPT ![k] = Says(w)]
    BY <1>4 DEF Type, Enter, Launch, ClickSearch, ClickReturns, SendKeys, DumpTree, Ends
  <2>2. \A w : Says(w).said = w
    BY DEF Says
  <2> QED
    BY <1>2, <2>1, <2>2
<1>5. \A t \in Threads : CutOff(t) \/ CommandTimeout(t) => UNCHANGED out
  BY WaitEffect
<1>6. ~(out' = out)
  OBVIOUS
<1> QED
  BY <1>1, <1>3, <1>4, <1>5, <1>6, NextCases, ClientFrame, HostFrame, HelperFrame DEF Helper

\* Out files, and what the client has of them, are true reports.
LEMMA NextReportInv ==
  TypeOK /\ ThreadInv /\ SentinelInv /\ AloneInv /\ ReportInv /\ [Next]_vars => ReportInv'
<1> SUFFICES ASSUME TypeOK, ThreadInv, SentinelInv, AloneInv, ReportInv, [Next]_vars PROVE ReportInv'
  OBVIOUS
<1>1. ASSUME NEW j \in Jobs, Console(j), out'[j] # None PROVE Honest(j, out[j])'
  <2>1. CASE out'[j] # out[j]
    BY <1>1, <2>1, OutSteps
  <2>2. CASE out'[j] = out[j]
    <3>1. PICK r : r = out[j]
      OBVIOUS
    <3>2. Honest(j, r)
      BY <1>1, <2>2, <3>1 DEF ReportInv
    <3>3. Honest(j, r)' /\ out'[j] = r
      BY <2>2, <3>1, <3>2, HonestStays
    <3> QED
      BY <3>3 DEF Honest
  <2> QED
    BY <2>1, <2>2
<1>2. ASSUME NEW c \in Calls, NEW k \in {Read(c), Script(c)}, th'[Main(c)].res # None,
             IF k = Read(c) THEN th'[Main(c)].step = "read" ELSE th'[Main(c)].step \in {"script", "fetch"}
      PROVE  Honest(k, th[Main(c)].res)'
  <2> DEFINE m == Main(c)
  <2>1. th[m] \in ThreadState /\ m[1] = c /\ k \in Jobs /\ Console(k)
    BY ThreadParts, JobParts DEF TypeOK, ThreadState
  <2>2. PICK r : r = th'[m].res
    OBVIOUS
  <2>k. /\ k = Read(c) /\ th[m].step = "read" /\ th[m].res # None => Honest(k, th[m].res)
        /\ k # Read(c) /\ th[m].step \in {"script", "fetch"} /\ th[m].res # None => Honest(k, th[m].res)
    BY DEF ReportInv
  <2>3. Honest(k, r)
    <3>1. MainMoves(c)
      BY MainSteps
    <3>2. CASE th'[m] = th[m]
      BY <1>2, <2>2, <2>k, <3>2
    <3>3. CASE th'[m] = Done \/ th'[m] \in {Begin("keys"), Begin("tree"), Begin("script")}
      BY <1>2, <3>3 DEF Done, Begin
    <3>4. CASE th'[m] = [th[m] EXCEPT !.at = "drive"]
      <4>1. th'[m].step = th[m].step /\ th'[m].res = th[m].res
        BY <2>1, <3>4 DEF ThreadState
      <4> QED
        BY <1>2, <2>2, <2>k, <4>1
    <3>5. CASE th'[m] = [th[m] EXCEPT !.at = "judge", !.res = None]
      BY <1>2, <2>1, <3>5 DEF ThreadState
    <3>6. CASE th[m].at = "drive" /\ th'[m] = [th[m] EXCEPT !.at = "judge", !.res = out[JobOf(m)]]
      <4>1. th'[m].step = th[m].step /\ th'[m].res = out[JobOf(m)]
        BY <2>1, <3>6 DEF ThreadState
      <4>2. th[m].step # "fetch"
        BY <3>6 DEF ThreadInv
      <4>3. JobOf(m) = k
        BY <1>2, <2>1, <4>1, <4>2 DEF JobOf, Read, Script
      <4> QED
        BY <1>2, <2>1, <2>2, <4>1, <4>3 DEF ReportInv
    <3>7. CASE th[m].step = "script" /\ th'[m] = [th[m] EXCEPT !.step = "fetch", !.at = "stage"]
      <4>1. th'[m].step = "fetch" /\ th'[m].res = th[m].res
        BY <2>1, <3>7 DEF ThreadState
      <4> QED
        BY <1>2, <2>2, <2>k, <3>7, <4>1
    <3> QED
      BY <3>1, <3>2, <3>3, <3>4, <3>5, <3>6, <3>7 DEF MainMoves
  <2>4. Honest(k, r)'
    BY <2>1, <2>3, HonestStays
  <2> QED
    BY <2>2, <2>4 DEF Honest
<1> QED
  BY <1>1, <1>2, JobParts DEF ReportInv, Console

\* A call that answers ok has judged a report of its own script.
LEMMA OkEffect ==
  ASSUME TypeOK, ThreadInv, ReportInv, [Next]_vars,
         NEW c \in Calls, ans'[c] # ans[c], ans'[c].ok, ans'[c].run # None
  PROVE  /\ ans'[c].run = Script(c) /\ UNCHANGED <<sc, runs, behind>>
         /\ IF sc.kind[c] = "capture" THEN ans'[c].whole \/ ~ans'[c].timely
            ELSE runs[Script(c)] > 0 /\ (ans'[c].first = Script(c) \/ Script(c) \in behind)
<1>t. ans \in [Calls -> Answers \union {None}] /\ Main(c) \in Threads
  BY ThreadParts DEF TypeOK
<1>e. ~Error.ok /\ [Error EXCEPT !.ok = TRUE].run = None
  BY DEF Error
<1>1. ASSUME NEW d \in Calls, NEW a, Return(d, a) PROVE d = c /\ ans'[c] = a
  BY <1>t, <1>1 DEF Return
<1>2. ASSUME NEW t \in Threads, Stage(t) PROVE FALSE
  <2>1. UNCHANGED ans \/ (t[1] \in Calls /\ Return(t[1], Error))
    BY <1>2, StageEffect, ThreadParts DEF Moved
  <2> QED
    BY <1>1, <1>e, <2>1
<1>3. ASSUME NEW t \in Threads, CutOff(t) \/ CommandTimeout(t) PROVE FALSE
  BY <1>3, WaitEffect DEF Moved
<1>4. ASSUME NEW d \in Calls, Judges(d) PROVE d = c /\ (JudgeScript(c) \/ Fetch(c))
  <2>1. UNCHANGED ans \/ Return(d, Error) \/ Return(d, [Error EXCEPT !.ok = TRUE]) \/ JudgeScript(d) \/ Fetch(d)
    BY <1>4 DEF Judges, JudgeRead, JudgeLaunch, JudgeClick, JudgeKeys, JudgeTree, Proceed, Goto
  <2>2. JudgeScript(d) \/ Fetch(d)
    BY <1>1, <1>e, <2>1
  <2>3. UNCHANGED ans \/ \E a : Return(d, a)
    BY <2>2 DEF JudgeScript, Fetch
  <2> QED
    BY <1>1, <2>2, <2>3
<1>5. JudgeScript(c) \/ Fetch(c)
  BY <1>2, <1>3, <1>4, NextCases, HostFrame, HelperFrame
<1>6. UNCHANGED <<sc, runs, behind>>
  BY <1>5, ClientFrame DEF Judges
<1>7. CASE JudgeScript(c)
  <2> DEFINE r == th[Main(c)].res
  <2>1. /\ sc.kind[c] # "capture" /\ th[Main(c)].step = "script"
        /\ ans'[c] = [Error EXCEPT !.ok = Passed(r), !.run = Script(c), !.first = IF r = None THEN None ELSE r.first]
    BY <1>1, <1>7 DEF JudgeScript, Judging, Script
  <2>2. /\ ans'[c].ok = Passed(r) /\ ans'[c].run = Script(c)
        /\ ans'[c].first = IF r = None THEN None ELSE r.first
    BY <2>1 DEF Error
  <2>3. r # None /\ r.said = "sentinel" /\ ans'[c].first = r.first
    BY <2>2 DEF Passed
  <2>4. Honest(Script(c), r)
    BY <2>1, <2>3 DEF ReportInv
  <2> QED
    BY <1>6, <2>1, <2>2, <2>3, <2>4 DEF Honest
<1>8. CASE Fetch(c)
  <2> DEFINE r == th[Main(c)].res
  <2>1. th[Main(c)].step = "fetch" /\ sc.kind[c] = "capture"
    BY <1>8 DEF Fetch, ThreadInv
  <2>2. /\ ans'[c].run = Script(c) /\ ans'[c].whole = (vcd[Script(c)] = "whole") /\ ans'[c].timely = Passed(r)
    <3>1. PICK a : Return(c, a) /\ (a = Error \/ \E ok \in BOOLEAN :
            a = [ok |-> ok, run |-> Script(c), first |-> None, whole |-> vcd[Script(c)] = "whole", timely |-> Passed(r)])
      BY <1>8 DEF Fetch, Script
    <3>2. ans'[c] = a /\ a # Error
      BY <1>1, <1>e, <3>1
    <3> QED
      BY <3>1, <3>2
  <2>3. Passed(r) => vcd[Script(c)] = "whole"
    <3>1. Script(c)[1] = c
      BY JobParts
    <3> QED
      BY <2>1, <3>1 DEF Passed, ReportInv, Honest
  <2> QED
    BY <1>6, <2>1, <2>2, <2>3
<1> QED
  BY <1>5, <1>7, <1>8

LEMMA NextOkIsOwnWork == TypeOK /\ ThreadInv /\ ReportInv /\ OkIsOwnWork /\ [Next]_vars => OkIsOwnWork'
<1> SUFFICES ASSUME TypeOK, ThreadInv, ReportInv, OkIsOwnWork, [Next]_vars,
                    NEW c \in Calls, ans'[c] # None, ans'[c].ok, ans'[c].run # None
             PROVE  IF sc.kind[c] = "capture" THEN ans'[c].whole \/ ~ans'[c].timely
                    ELSE runs'[ans'[c].run] > 0 /\ (ans'[c].first = ans'[c].run \/ ans'[c].run \in behind')
  BY HistoryGrows DEF OkIsOwnWork
<1>1. CASE ans'[c] # ans[c]
  BY <1>1, OkEffect
<1>2. CASE ans'[c] = ans[c]
  <2>1. IF sc.kind[c] = "capture" THEN ans[c].whole \/ ~ans[c].timely
        ELSE runs[ans[c].run] > 0 /\ (ans[c].first = ans[c].run \/ ans[c].run \in behind)
    BY <1>2 DEF OkIsOwnWork
  <2>2. ans[c].run \in Jobs
    BY <1>2 DEF TypeOK, Answers
  <2> QED
    BY <1>2, <2>1, <2>2, HistoryGrows
<1> QED
  BY <1>1, <1>2
-----------------------------------------------------------------------------
(* Types *)

LEMMA NextClientTypes ==
  ASSUME TypeOK, ThreadInv, [Next]_vars
  PROVE  /\ th' \in [Threads -> ThreadState] /\ conn' \in [Calls -> {"none", "open", "dead"}]
         /\ ans' \in [Calls -> Answers \union {None}] /\ late' \subseteq Calls
<1> USE ThreadParts
<1>t. /\ th \in [Threads -> ThreadState] /\ conn \in [Calls -> {"none", "open", "dead"}]
      /\ ans \in [Calls -> Answers \union {None}] /\ late \subseteq Calls
  BY DEF TypeOK, ThreadState
<1> DEFINE Types == /\ th \in [Threads -> ThreadState] /\ conn \in [Calls -> {"none", "open", "dead"}]
                    /\ ans \in [Calls -> Answers \union {None}] /\ late \subseteq Calls
<1>1. ASSUME NEW t \in Threads, NEW x \in ThreadState, Moved(t, x) PROVE th' \in [Threads -> ThreadState]
  BY <1>t, <1>1 DEF Moved
<1>2. \A s \in ThreadState : [s EXCEPT !.at = "drive"] \in ThreadState /\ [s EXCEPT !.at = "done"] \in ThreadState
  BY DEF ThreadState
<1>3. \A s \in ThreadState : \A r \in OutFile \union {None} : [s EXCEPT !.at = "judge", !.res = r] \in ThreadState
  BY DEF ThreadState
<1>4. \A s \in ThreadState : [s EXCEPT !.step = "fetch", !.at = "stage"] \in ThreadState
  BY DEF ThreadState, Steps
<1>5. \A s \in {"script", "keys", "tree", "click"} : Begin(s) \in ThreadState
  BY DEF ThreadState, Steps, Begin
<1>6. ASSUME NEW c \in Calls, NEW a \in Answers, Return(c, a) PROVE Types'
  BY <1>6, ReturnEffect
<1>7. ASSUME NEW t \in Threads, Stage(t) PROVE Types'
  <2>1. ASSUME NEW c \in Calls, Return(c, Error) PROVE Types'
    <3>1. Error \in Answers
      BY AnswerTypes
    <3> QED
      BY <1>6, <2>1, <3>1
  <2>2. CASE Moved(t, [th[t] EXCEPT !.at = "drive"]) /\ conn' = Linked(t[1])
    <3>1. th' \in [Threads -> ThreadState]
      BY <1>1, <1>2, <1>t, <2>2
    <3>2. conn' \in [Calls -> {"none", "open", "dead"}]
      BY <1>t, <2>2 DEF Linked
    <3> QED
      BY <1>t, <2>2, <3>1, <3>2 DEF Moved
  <2>3. CASE Moved(t, [th[t] EXCEPT !.at = "done"]) /\ UNCHANGED conn
    <3>1. th' \in [Threads -> ThreadState]
      BY <1>1, <1>2, <1>t, <2>3
    <3> QED
      BY <1>t, <2>3, <3>1 DEF Moved
  <2> QED
    BY <1>7, <2>1, <2>2, <2>3, StageEffect
<1>8. ASSUME NEW t \in Threads, CutOff(t) \/ CommandTimeout(t) PROVE Types'
  <2>1. UNCHANGED conn
    BY <1>8, WaitEffect
  <2>2. PICK r \in OutFile \union {None} : Moved(t, [th[t] EXCEPT !.at = "judge", !.res = r])
    <3>1. CASE Moved(t, [th[t] EXCEPT !.at = "judge", !.res = None])
      BY <3>1
    <3>2. CASE Moved(t, [th[t] EXCEPT !.at = "judge", !.res = out[JobOf(t)]])
      <4>1. th[t].at = "drive"
        BY <1>8, WaitEffect
      <4>2. th[t].step \notin {None, "fetch"}
        <5>1. t = Main(t[1]) \/ t = Click(t[1])
          OBVIOUS
        <5> QED
          BY <4>1, <5>1, GuiAssumption DEF ThreadInv, Steps
      <4>3. out[JobOf(t)] \in OutFile \union {None}
        BY <4>1, <4>2, JobOfThread DEF TypeOK
      <4> QED
        BY <3>2, <4>3
    <3> QED
      BY <1>8, <3>1, <3>2, WaitEffect
  <2>3. th' \in [Threads -> ThreadState]
    BY <1>1, <1>3, <1>t, <2>2
  <2> QED
    BY <1>t, <2>1, <2>2, <2>3 DEF Moved
<1>9. ASSUME NEW c \in Calls, Judges(c) PROVE Types'
  <2>1. CASE /\ \/ Moved(Main(c), Begin("script")) \/ Moved(Main(c), Begin("tree"))
                \/ Moved(Main(c), [th[Main(c)] EXCEPT !.step = "fetch", !.at = "stage"])
                \/ Moved(Click(c), [th[Click(c)] EXCEPT !.at = "done"])
             /\ UNCHANGED conn
    <3>1. th' \in [Threads -> ThreadState]
      BY <1>1, <1>2, <1>4, <1>5, <1>t, <2>1
    <3>2. UNCHANGED <<ans, late>>
      BY <2>1 DEF Moved
    <3> QED
      BY <1>t, <2>1, <3>1, <3>2
  <2>2. CASE th' = [th EXCEPT ![Main(c)] = Begin("keys"), ![Click(c)] = Begin("click")] /\ UNCHANGED <<conn, ans, late>>
    BY <1>5, <1>t, <2>2
  <2> QED
    BY <1>6, <1>9, <2>1, <2>2, JudgeEffect
<1>10. ASSUME NEW j \in Jobs, Await(j) PROVE Types'
  <2>1. th' \in [Threads -> ThreadState]
    BY <1>10, AwaitEffect
  <2>2. UNCHANGED <<conn, ans, late>>
    BY <1>10, HostFrame
  <2> QED
    BY <1>t, <2>1, <2>2
<1>11. ASSUME NEW c \in Calls, Drop(c) PROVE Types'
  BY <1>11, <1>t, HostFrame DEF Drop
<1>12. CASE UNCHANGED <<th, conn, ans, late>>
  BY <1>12, <1>t
<1> QED
  BY <1>7, <1>8, <1>9, <1>10, <1>11, <1>12, NextCases, HostFrame, HelperFrame

LEMMA NextHostTypes ==
  ASSUME TypeOK, ThreadInv, [Next]_vars
  PROVE  /\ sc' \in Scenarios /\ faults' \in 0..MaxFaults /\ together' \subseteq Calls
         /\ drv' \in [Jobs -> {"none", "register", "run", "await", "gone"}]
         /\ task' \in [TaskNames -> Jobs \union {None}]
         /\ \A n \in TaskNames : task'[n] # None => TaskName(task'[n]) = n
         /\ helper' \in [Jobs -> {"none", "started", "typed", "polling", "clicking", "ended"}]
<1>t. /\ sc \in Scenarios /\ faults \in 0..MaxFaults /\ together \subseteq Calls
      /\ drv \in [Jobs -> {"none", "register", "run", "await", "gone"}]
      /\ task \in [TaskNames -> Jobs \union {None}]
      /\ \A n \in TaskNames : task[n] # None => TaskName(task[n]) = n
      /\ helper \in [Jobs -> {"none", "started", "typed", "polling", "clicking", "ended"}]
      /\ sc.faults \in 0..MaxFaults /\ MaxFaults \in Nat
  BY GuiAssumption DEF TypeOK
<1> DEFINE Types == /\ faults \in 0..MaxFaults /\ together \subseteq Calls
                    /\ drv \in [Jobs -> {"none", "register", "run", "await", "gone"}]
                    /\ task \in [TaskNames -> Jobs \union {None}]
                    /\ \A n \in TaskNames : task[n] # None => TaskName(task[n]) = n
                    /\ helper \in [Jobs -> {"none", "started", "typed", "polling", "clicking", "ended"}]
<1>0. sc' \in Scenarios
  BY <1>t, HistoryGrows
<1>f. Fault => faults' \in 0..MaxFaults
  BY <1>t DEF Fault
<1>s. \A k \in Jobs \union {None} : Started(k) \in [Jobs -> {"none", "started", "typed", "polling", "clicking", "ended"}]
  BY <1>t DEF Started
<1>1. ASSUME NEW t \in Threads, Stage(t) \/ CutOff(t) \/ CommandTimeout(t) PROVE Types'
  <2>1. faults' \in 0..MaxFaults
    BY <1>1, <1>t, StageEffect, WaitEffect
  <2>2. UNCHANGED drv \/ drv' = [drv EXCEPT ![JobOf(t)] = "register"] \/ drv' = [drv EXCEPT ![JobOf(t)] = "gone"]
    BY <1>1, StageEffect, WaitEffect
  <2> QED
    BY <1>1, <1>t, <2>1, <2>2, ClientFrame
<1>2. ASSUME NEW c \in Calls, Judges(c) PROVE Types'
  BY <1>2, <1>t, ClientFrame
<1>3. ASSUME NEW j \in Jobs, Register(j) PROVE Types'
  <2>1. PICK x \in {j, None} :
          /\ UNCHANGED faults \/ Fault
          /\ task' = [task EXCEPT ![TaskName(j)] = x]
          /\ drv' = [drv EXCEPT ![j] = IF Console(j) THEN "run" ELSE "await"]
          /\ UNCHANGED helper \/ helper' = Started(x)
    BY <1>3 DEF Register, Refused
  <2>2. together' \subseteq Calls
    <3>1. together' \subseteq together \union {k[1] : k \in Jobs}
      BY <1>3 DEF Register
    <3> QED
      BY <1>t, <3>1, JobParts
  <2>3. TaskName(j) \in TaskNames
    BY JobParts
  <2>4. \A n \in TaskNames : task'[n] # None => TaskName(task'[n]) = n
    BY <1>t, <2>1, <2>3
  <2>5. faults' \in 0..MaxFaults
    BY <1>t, <1>f, <2>1
  <2>6. drv' \in [Jobs -> {"none", "register", "run", "await", "gone"}]
    BY <1>t, <2>1
  <2>7. task' \in [TaskNames -> Jobs \union {None}]
    BY <1>t, <2>1
  <2>8. helper' \in [Jobs -> {"none", "started", "typed", "polling", "clicking", "ended"}]
    BY <1>t, <1>s, <2>1
  <2> QED
    BY <2>2, <2>4, <2>5, <2>6, <2>7, <2>8
<1>4. ASSUME NEW j \in Jobs, RunTask(j) PROVE Types'
  <2>1. UNCHANGED <<faults, task, together>> /\ drv' = [drv EXCEPT ![j] = "await"] /\ helper' = Started(task[TaskName(j)])
    BY <1>4 DEF RunTask, history
  <2>2. task[TaskName(j)] \in Jobs \union {None}
    BY <1>t, JobParts
  <2> QED
    BY <1>t, <1>s, <2>1, <2>2
<1>5. ASSUME NEW j \in Jobs, Await(j) PROVE Types'
  <2>1. UNCHANGED <<faults, helper, together>> /\ drv' = [drv EXCEPT ![j] = "gone"] /\ task' = [task EXCEPT ![TaskName(j)] = None]
    BY <1>5, AwaitEffect
  <2> QED
    BY <1>t, <2>1
<1>6. ASSUME NEW c \in Calls, Drop(c) PROVE Types'
  <2>1. Fault /\ (UNCHANGED drv \/ drv' = [j \in Jobs |-> IF j[1] = c /\ drv[j] # "none" THEN "gone" ELSE drv[j]])
    BY <1>6 DEF Drop
  <2> QED
    BY <1>6, <1>t, <1>f, <2>1, HostFrame
<1>7. ASSUME NEW j \in Jobs, Helper(j) PROVE Types'
  <2>1. UNCHANGED <<faults, drv, task, together>>
    BY <1>7, HelperFrame
  <2>2. \E x \in {"typed", "polling", "clicking", "ended"} : helper' = [helper EXCEPT ![j] = x]
    BY <1>7 DEF Helper, Type, Enter, Look, Launch, ClickSearch, ClickReturns, SendKeys, DumpTree, Ends
  <2> QED
    BY <1>t, <2>1, <2>2
<1>8. CASE UNCHANGED <<faults, drv, task, helper, together>>
  BY <1>0, <1>8, <1>t
<1> QED
  BY <1>0, <1>1, <1>2, <1>3, <1>4, <1>5, <1>6, <1>7, <1>8, NextCases, HelperFrame

LEMMA NextFileTypes ==
  ASSUME TypeOK, ThreadInv, [Next]_vars
  PROVE  /\ out' \in [Jobs -> OutFile \union {None}] /\ sentinel' \in [Jobs -> {None, 0, 1}]
         /\ vcd' \in [Jobs -> {"none", "part", "whole"}] /\ behind' \subseteq Jobs
<1>t. /\ out \in [Jobs -> OutFile \union {None}] /\ sentinel \in [Jobs -> {None, 0, 1}]
      /\ vcd \in [Jobs -> {"none", "part", "whole"}] /\ behind \subseteq Jobs
  BY DEF TypeOK
<1>1. sentinel' \in [Jobs -> {None, 0, 1}] /\ vcd' \in [Jobs -> {"none", "part", "whole"}]
  <2>1. CASE EndScript
    <3>1. PICK k \in Jobs, rc \in {0, 1} :
            sentinel' = [sentinel EXCEPT ![k] = rc] /\ vcd' \in [Jobs -> {"none", "part", "whole"}]
      BY <2>1, EndScriptEffect
    <3> QED
      BY <1>t, <3>1
  <2>2. ASSUME NEW j \in Jobs, sentinel' = [sentinel EXCEPT ![j] = None], UNCHANGED vcd
        PROVE  sentinel' \in [Jobs -> {None, 0, 1}] /\ vcd' \in [Jobs -> {"none", "part", "whole"}]
    BY <1>t, <2>2
  <2>3. ASSUME NEW k \in Jobs, vcd' = [vcd EXCEPT ![k] = "part"], UNCHANGED sentinel
        PROVE  sentinel' \in [Jobs -> {None, 0, 1}] /\ vcd' \in [Jobs -> {"none", "part", "whole"}]
    BY <1>t, <2>3
  <2>4. CASE UNCHANGED <<sentinel, vcd>>
    BY <1>t, <2>4
  <2> QED
    BY <2>1, <2>2, <2>3, <2>4, TranscriptSteps
<1>2. \A w \in {"fatal", "launched", "nowindow", "invoked", "sent", "nodialog", "cores", "nothing"} : Says(w) \in OutFile
  BY DEF Says, OutFile
<1>3. ASSUME NEW j \in Jobs, NEW o \in OutFile \union {None}, out' = [out EXCEPT ![j] = o]
      PROVE  out' \in [Jobs -> OutFile \union {None}]
  BY <1>t, <1>3
<1>4. ASSUME NEW j \in Jobs, Look(j) PROVE out' \in [Jobs -> OutFile \union {None}]
  <2> DEFINE first == IF Delta(j) = <<>> THEN None ELSE Head(Delta(j))
  <2>1. out' = [out EXCEPT ![j] = [said |-> IF sentinel[j] # None THEN "sentinel" ELSE "timeout", rc |-> sentinel[j],
                                   first |-> first]]
    BY <1>4 DEF Look, Ends
  <2>2. first \in Jobs \union {None}
    <3>1. printed \in Seq(Jobs) /\ base[j] \in Nat /\ Len(printed) \in Nat
      BY DEF TypeOK
    <3>2. base[j] + 1 \in Int /\ Len(printed) \in Int /\ \A i \in (base[j] + 1)..Len(printed) : printed[i] \in Jobs
      BY <3>1
    <3>3. Delta(j) \in Seq(Jobs)
      BY <3>2, SubSeqProperties DEF Delta
    <3> QED
      BY <3>3
  <2>3. [said |-> IF sentinel[j] # None THEN "sentinel" ELSE "timeout", rc |-> sentinel[j], first |-> first] \in OutFile
    BY <1>t, <2>2 DEF OutFile
  <2> QED
    BY <1>3, <2>1, <2>3
<1>5. ASSUME NEW j \in Jobs,
             Type(j) \/ Enter(j) \/ Launch(j) \/ ClickSearch(j) \/ ClickReturns(j) \/ SendKeys(j) \/ DumpTree(j)
      PROVE  out' \in [Jobs -> OutFile \union {None}]
  <2>1. UNCHANGED out \/ \E w \in {"fatal", "launched", "nowindow", "invoked", "sent", "nodialog", "cores", "nothing"} :
                           out' = [out EXCEPT ![j] = Says(w)]
    BY <1>5 DEF Type, Enter, Launch, ClickSearch, ClickReturns, SendKeys, DumpTree, Ends
  <2> QED
    BY <1>2, <1>3, <1>t, <2>1
<1>6. ASSUME NEW t \in Threads, Stage(t) \/ CutOff(t) \/ CommandTimeout(t) PROVE out' \in [Jobs -> OutFile \union {None}]
  <2>1. UNCHANGED out \/ out' = [out EXCEPT ![JobOf(t)] = None]
    BY <1>6, StageEffect, WaitEffect
  <2> QED
    BY <1>t, <2>1
<1>7. ASSUME NEW j \in Jobs, Type(j) PROVE behind' \subseteq Jobs
  BY <1>t, <1>7 DEF Type, Typing
<1>8. ASSUME NEW j \in Jobs,
             Enter(j) \/ Look(j) \/ Launch(j) \/ ClickSearch(j) \/ ClickReturns(j) \/ SendKeys(j) \/ DumpTree(j)
      PROVE  UNCHANGED behind
  BY <1>8 DEF Enter, Look, Launch, ClickSearch, ClickReturns, SendKeys, DumpTree, history
<1>9. behind' \subseteq Jobs
  BY <1>7, <1>8, <1>t, NextCases, ClientFrame, HostFrame, HelperFrame DEF Helper
<1>10. out' \in [Jobs -> OutFile \union {None}]
  BY <1>4, <1>5, <1>6, <1>t, NextCases, ClientFrame, HostFrame, HelperFrame DEF Helper
<1> QED
  BY <1>1, <1>9, <1>10

LEMMA NextConsoleTypes ==
  ASSUME TypeOK, PlaceInv, [Next]_vars
  PROVE  /\ gui' \in [up : BOOLEAN, cable : BOOLEAN, dialog : Calls \union {None}, box : Jobs \union {None}]
         /\ gui'.cable \/ gui'.dialog # None => gui'.up
         /\ queue' \in Seq(Jobs) /\ printed' \in Seq(Jobs)
         /\ (\A i \in DOMAIN queue' : Console(queue'[i])) /\ (\A i \in DOMAIN printed' : Console(printed'[i]))
         /\ base' \in [Jobs -> Nat] /\ runs' \in [Jobs -> Nat]
         /\ \A j \in Jobs : base'[j] <= Len(printed') /\ runs'[j] <= Len(printed')
<1>t. /\ gui \in [up : BOOLEAN, cable : BOOLEAN, dialog : Calls \union {None}, box : Jobs \union {None}]
      /\ gui.cable \/ gui.dialog # None => gui.up
      /\ queue \in Seq(Jobs) /\ printed \in Seq(Jobs)
      /\ (\A i \in DOMAIN queue : Console(queue[i])) /\ (\A i \in DOMAIN printed : Console(printed[i]))
      /\ base \in [Jobs -> Nat] /\ runs \in [Jobs -> Nat]
      /\ \A j \in Jobs : base[j] <= Len(printed) /\ runs[j] <= Len(printed)
      /\ \A j \in Jobs : j[1] \in Calls
  BY JobParts DEF TypeOK
<1>1. /\ gui' \in [up : BOOLEAN, cable : BOOLEAN, dialog : Calls \union {None}, box : Jobs \union {None}]
      /\ gui'.cable \/ gui'.dialog # None => gui'.up
  <2>1. ASSUME NEW j \in Jobs, Helper(j)
        PROVE  \/ UNCHANGED gui
               \/ gui' = [gui EXCEPT !.box = j] \/ gui' = [gui EXCEPT !.box = None]
               \/ gui.dialog # None /\ gui' = [gui EXCEPT !.dialog = None, !.cable = TRUE]
               \/ gui' = [gui EXCEPT !.up = TRUE]
               \/ gui.up /\ gui' = [gui EXCEPT !.dialog = j[1]]
    BY <2>1 DEF Helper, Type, Enter, Look, Launch, ClickSearch, ClickReturns, SendKeys, DumpTree, debugger
  <2>2. ASSUME NEW j \in Jobs, Helper(j)
        PROVE  /\ gui' \in [up : BOOLEAN, cable : BOOLEAN, dialog : Calls \union {None}, box : Jobs \union {None}]
               /\ gui'.cable \/ gui'.dialog # None => gui'.up
    BY <1>t, <2>1, <2>2
  <2>3. CASE UNCHANGED gui
    BY <1>t, <2>3
  <2> QED
    BY <2>2, <2>3, NextCases, ClientFrame, HostFrame, HelperFrame
<1>2. /\ queue' \in Seq(Jobs) /\ printed' \in Seq(Jobs) /\ runs' \in [Jobs -> Nat]
      /\ (\A i \in DOMAIN queue' : Console(queue'[i])) /\ (\A i \in DOMAIN printed' : Console(printed'[i]))
      /\ \A j \in Jobs : runs'[j] <= Len(printed') /\ Len(printed) <= Len(printed')
  <2> DEFINE Types == /\ queue \in Seq(Jobs) /\ printed \in Seq(Jobs) /\ runs \in [Jobs -> Nat]
                      /\ (\A i \in DOMAIN queue : Console(queue[i])) /\ (\A i \in DOMAIN printed : Console(printed[i]))
                      /\ \A j \in Jobs : runs[j] <= Len(printed)
  <2>c. \A i \in Jobs : Console(i) <=> i[2] \in {"read", "script"}
    BY DEF Console
  <2>1. CASE UNCHANGED <<queue, runs, printed>>
    BY <1>t, <2>1
  <2>2. CASE UNCHANGED <<runs, printed>> /\ gui.box # None /\ queue' = Append(queue, gui.box)
    <3>1. gui.box \in Jobs /\ Console(gui.box)
      BY <1>t, <2>2 DEF PlaceInv
    <3>2. queue' \in Seq(Jobs) /\ \A i \in DOMAIN queue' : Console(queue'[i])
      BY <1>t, <2>2, <3>1
    <3> QED
      BY <1>t, <2>2, <3>2
  <2>3. CASE /\ queue # <<>> /\ queue' = Tail(queue) /\ printed' = Append(printed, Head(queue))
             /\ runs' = [runs EXCEPT ![Head(queue)] = @ + 1]
    <3>1. Head(queue) \in Jobs /\ Console(Head(queue))
      BY <1>t, <2>3
    <3>2. queue' \in Seq(Jobs) /\ \A i \in DOMAIN queue' : Console(queue'[i])
      <4>1. /\ queue' \in Seq(Jobs) /\ DOMAIN queue' = 1..(Len(queue) - 1) /\ DOMAIN queue = 1..Len(queue)
            /\ Len(queue) \in Nat /\ \A i \in DOMAIN queue' : queue'[i] = queue[i + 1]
        BY <1>t, <2>3
      <4>2. \A i \in DOMAIN queue' : i + 1 \in DOMAIN queue
        BY <4>1
      <4> QED
        BY <1>t, <4>1, <4>2
    <3>3. printed' \in Seq(Jobs) /\ Len(printed') = Len(printed) + 1 /\ Len(printed) \in Nat
      BY <1>t, <2>3, <3>1
    <3>4. ASSUME NEW i \in DOMAIN printed' PROVE Console(printed'[i])
      <4>1. /\ DOMAIN printed' = 1..(Len(printed) + 1) /\ DOMAIN printed = 1..Len(printed) /\ Len(printed) \in Nat
            /\ printed'[Len(printed) + 1] = Head(queue) /\ \A h \in DOMAIN printed : printed'[h] = printed[h]
        <5>1. printed \in Seq(Jobs) /\ printed' = Append(printed, Head(queue)) /\ Head(queue) \in Jobs
          BY <1>t, <2>3, <3>1
        <5> QED
          BY <5>1
      <4>2. i \in DOMAIN printed \/ i = Len(printed) + 1
        BY <4>1
      <4> QED
        BY <1>t, <3>1, <4>1, <4>2
    <3>5. runs' \in [Jobs -> Nat] /\ \A j \in Jobs : runs'[j] <= Len(printed')
      <4>1. runs \in [Jobs -> Nat] /\ runs' = [runs EXCEPT ![Head(queue)] = @ + 1] /\ \A j \in Jobs : runs[j] <= Len(printed)
        BY <1>t, <2>3
      <4>2. \A j \in Jobs : runs'[j] = runs[j] \/ runs'[j] = runs[j] + 1
        BY <4>1
      <4>3. runs' \in [Jobs -> Nat]
        BY <3>1, <4>1
      <4> QED
        BY <3>3, <4>1, <4>2, <4>3
    <3> QED
      BY <3>2, <3>3, <3>4, <3>5
  <2> QED
    BY <2>1, <2>2, <2>3, ConsoleSteps
<1>3. base' \in [Jobs -> Nat] /\ \A j \in Jobs : base'[j] <= Len(printed')
  <2>1. Len(printed) \in Nat /\ Len(printed') \in Nat
    BY <1>t, <1>2
  <2>2. \A j \in Jobs : Len(printed) <= Len(printed')
    BY <1>2
  <2>3. UNCHANGED base \/ \E j \in Jobs : base' = [base EXCEPT ![j] = Len(printed)]
    BY TranscriptSteps
  <2>4. base' \in [Jobs -> Nat]
    BY <1>t, <2>1, <2>3
  <2>5. ASSUME NEW j \in Jobs PROVE base'[j] <= Len(printed')
    <3>1. base'[j] = base[j] \/ base'[j] = Len(printed)
      BY <1>t, <2>3
    <3>2. base[j] \in Nat /\ base[j] <= Len(printed) /\ Len(printed) <= Len(printed')
      BY <1>t, <2>2
    <3> QED
      BY <2>1, <3>1, <3>2
  <2> QED
    BY <2>4, <2>5
<1> QED
  BY <1>1, <1>2, <1>3

LEMMA NextTypeOK == TypeOK /\ ThreadInv /\ PlaceInv /\ [Next]_vars => TypeOK'
<1> SUFFICES ASSUME TypeOK, ThreadInv, PlaceInv, [Next]_vars PROVE TypeOK'
  OBVIOUS
<1>1. (\A n \in TaskNames : task[n] # None => TaskName(task[n]) = n)'
  BY NextHostTypes DEF TaskName, Console
<1>2. ((\A i \in DOMAIN queue : Console(queue[i])) /\ (\A i \in DOMAIN printed : Console(printed[i])))'
  BY NextConsoleTypes DEF Console
<1> QED
  BY <1>1, <1>2, NextClientTypes, NextHostTypes, NextFileTypes, NextConsoleTypes DEF TypeOK, ThreadState
-----------------------------------------------------------------------------
(* The invariant holds *)

LEMMA GuiInit == Init => GuiInv
<1> SUFFICES ASSUME Init PROVE GuiInv
  OBVIOUS
<1>1. \A k \in Kinds \ {"none"} : FirstStep(k) \in {"read", "script", "launch"} /\ (FirstStep(k) = "read" => k = "write")
                                  /\ (FirstStep(k) = "script" => k # "write")
  BY DEF Kinds, FirstStep
<1>s. /\ sc \in Scenarios /\ sc.kind \in [Calls -> Kinds] /\ sc.up \in BOOLEAN /\ sc.cable \in BOOLEAN
      /\ sc.cable => sc.up
  BY GuiAssumption DEF Init
<1>2. \A t \in Threads : /\ th[t] \in ThreadState /\ th[t].res = None
                         /\ \/ th[t] = Idle
                            \/ /\ t[2] = "main" /\ th[t].at = "stage" /\ sc.kind[t[1]] # "none"
                               /\ th[t].step = FirstStep(sc.kind[t[1]])
  <2>1. ASSUME NEW t \in Threads, t[2] = "main", sc.kind[t[1]] # "none"
        PROVE  Begin(FirstStep(sc.kind[t[1]])) \in ThreadState
    <3>1. sc.kind[t[1]] \in Kinds \ {"none"}
      BY <1>s, <2>1, ThreadParts
    <3> QED
      BY <1>1, <3>1 DEF Begin, ThreadState, Steps
  <2>2. Idle \in ThreadState /\ Idle.res = None
    BY DEF Idle, ThreadState
  <2>3. \A x : Begin(x).at = "stage" /\ Begin(x).step = x /\ Begin(x).res = None
    BY DEF Begin
  <2> QED
    BY <2>1, <2>2, <2>3 DEF Init
<1>3. \A c \in Calls : /\ th[Click(c)] = Idle /\ th[Main(c)].at \in {"idle", "stage"} /\ th[Main(c)].res = None
                       /\ th[Main(c)].step \in {None, "read", "script", "launch"}
                       /\ th[Main(c)].at = "stage" => th[Main(c)].step # None
                       /\ th[Main(c)].step = "read" => sc.kind[c] = "write"
                       /\ th[Main(c)].step = "script" => sc.kind[c] # "write"
  <2> SUFFICES ASSUME NEW c \in Calls
               PROVE  /\ th[Click(c)] = Idle /\ th[Main(c)].at \in {"idle", "stage"} /\ th[Main(c)].res = None
                      /\ th[Main(c)].step \in {None, "read", "script", "launch"}
                      /\ th[Main(c)].at = "stage" => th[Main(c)].step # None
                      /\ th[Main(c)].step = "read" => sc.kind[c] = "write"
                      /\ th[Main(c)].step = "script" => sc.kind[c] # "write"
    OBVIOUS
  <2>1. Main(c) \in Threads /\ Click(c) \in Threads /\ Main(c)[1] = c /\ Click(c)[2] = "click"
    BY ThreadParts
  <2>2. th[Click(c)] = Idle
    BY <1>2, <2>1
  <2>3. Idle.at = "idle" /\ Idle.step = None /\ None \notin Steps
    BY GuiAssumption DEF Idle
  <2>4. sc.kind[c] \in Kinds
    BY <1>s
  <2> QED
    BY <1>1, <1>2, <2>1, <2>2, <2>3, <2>4 DEF Steps
<1>4. TypeOK
  <2>1. th \in [Threads -> ThreadState]
    BY <1>2 DEF Init
  <2>2. /\ gui \in [up : BOOLEAN, cable : BOOLEAN, dialog : Calls \union {None}, box : Jobs \union {None}]
        /\ gui.cable \/ gui.dialog # None => gui.up
    BY <1>s DEF Init
  <2>3. queue \in Seq(Jobs) /\ printed \in Seq(Jobs) /\ Len(printed) = 0 /\ DOMAIN queue = {} /\ DOMAIN printed = {}
    BY DEF Init
  <2>4. base \in [Jobs -> Nat] /\ runs \in [Jobs -> Nat] /\ \A j \in Jobs : base[j] <= Len(printed) /\ runs[j] <= Len(printed)
    BY <2>3 DEF Init
  <2>5. faults \in 0..MaxFaults
    BY GuiAssumption DEF Init
  <2> QED
    BY <1>s, <2>1, <2>2, <2>3, <2>4, <2>5 DEF Init, TypeOK, ThreadState
<1>5. ThreadInv
  <2>1. \A c \in Calls : ans[c] = None
    BY DEF Init
  <2>2. Idle.at = "idle" /\ Idle.step = None
    BY DEF Idle
  <2> QED
    BY <1>3, <2>1, <2>2, GuiAssumption DEF ThreadInv, Steps
<1>6. LinkInv /\ OkIsOwnWork
  BY DEF Init, LinkInv, OkIsOwnWork
<1>j. \A c \in Calls : Read(c) \in Jobs /\ Script(c) \in Jobs
  BY JobParts
<1>d. \A j \in Jobs : drv[j] = "none" /\ helper[j] = "none" /\ runs[j] = 0 /\ out[j] = None /\ sentinel[j] = None
  BY DEF Init
<1>7. DriverInv
  BY <1>3, <1>d, <1>j DEF DriverInv
<1>8. AllowedInv
  <2>1. \A c \in Calls : Script(c)[1] = c
    BY JobParts
  <2> QED
    BY <1>3, <1>d, <2>1 DEF AllowedInv, Allowed
<1>9. PlaceInv /\ TaskInv /\ OnceInv
  <2>1. task[<<"console">>] = None \/ Jobs = {}
    <3>1. ASSUME NEW j \in Jobs PROVE <<"console">> \in TaskNames
      <4>1. Read(j[1]) \in Jobs /\ TaskName(Read(j[1])) = <<"console">>
        BY JobParts
      <4> QED
        BY <4>1 DEF TaskNames
    <3> QED
      BY <3>1 DEF Init
  <2>2. gui.box = None /\ DOMAIN queue = {} /\ \A j \in Jobs : j # None
    BY GuiAssumption DEF Init
  <2>3. \A j \in Jobs : task[<<"console">>] # j
    BY <2>1, <2>2
  <2>4. PlaceInv
    BY <1>d, <2>2, <2>3 DEF PlaceInv
  <2> QED
    BY <1>d, <2>2, <2>3, <2>4 DEF TaskInv, OnceInv
<1>10. SentinelInv /\ AloneInv
  BY <1>d DEF SentinelInv, AloneInv
<1>11. ReportInv
  BY <1>3, <1>d DEF ReportInv
<1> QED
  BY <1>4, <1>5, <1>6, <1>7, <1>8, <1>9, <1>10, <1>11 DEF GuiInv

\* Every reachable state satisfies the invariant, for any calls and scenarios.
THEOREM GuiInvariant == Spec => []GuiInv
<1>1. GuiInv /\ [Next]_vars => GuiInv'
  BY NextTypeOK, NextThreadInv, NextLinkInv, NextDriverInv, NextAllowedInv, NextPlaceInv, NextTaskInv, NextOnceInv,
     NextSentinelInv, NextAloneInv, NextReportInv, NextOkIsOwnWork DEF GuiInv
<1> QED
  BY <1>1, GuiInit, PTL DEF Spec

\* The state of client, host and debugger keeps its types.
THEOREM GuiTypeOK == Spec => []TypeOK
<1>1. GuiInv => TypeOK
  BY DEF GuiInv
<1> QED
  BY <1>1, GuiInvariant, PTL

\* What a call that answers ok reports is its own script's work.
THEOREM OkCallsReportTheirOwnWork == Spec => []OkIsOwnWork
<1>1. GuiInv => OkIsOwnWork
  BY DEF GuiInv
<1> QED
  BY <1>1, GuiInvariant, PTL

\* A script that writes runs on the expected board only, and a script runs once
\* unless the drivers of two calls overlapped.
THEOREM ScriptsKeepTheirTurn == Spec => []ScriptsRunAsAllowed
<1>1. ASSUME GuiInv PROVE ScriptsRunAsAllowed
  <2>1. ASSUME NEW c \in Calls, sc.kind[c] = "write", runs[<<c, "script">>] > 0 PROVE sc.board = "expected"
    <3>1. Script(c) \in Jobs /\ Console(Script(c)) /\ runs[Script(c)] > 0
      BY <2>1, JobParts DEF Script
    <3>2. runs[Script(c)] # 0
      BY <3>1
    <3>3. helper[Script(c)] # "none"
      BY <1>1, <3>1, <3>2 DEF GuiInv, PlaceInv
    <3>4. drv[Script(c)] # "none"
      BY <1>1, <3>1, <3>3 DEF GuiInv, PlaceInv
    <3>5. Allowed(Script(c))
      BY <1>1, <3>1, <3>4 DEF GuiInv, AllowedInv
    <3> QED
      BY <2>1, <3>5 DEF Allowed, Script
  <2>2. ASSUME NEW j \in Jobs, runs[j] > 1 PROVE j[1] \in together
    <3>1. runs[j] \in Nat
      BY <1>1 DEF GuiInv, TypeOK
    <3>2. Console(j)
      BY <1>1, <2>2, <3>1 DEF GuiInv, PlaceInv
    <3>3. ~(runs[j] <= 1)
      BY <2>2, <3>1
    <3> QED
      BY <1>1, <3>2, <3>3 DEF GuiInv, OnceInv
  <2> QED
    BY <2>1, <2>2 DEF ScriptsRunAsAllowed
<1> QED
  BY <1>1, GuiInvariant, PTL

\* A call that is over has closed its connection, but for a click closed too early.
THEOREM CallsCloseTheirConnections == Spec => []NoConnectionOutlivesCall
<1>1. GuiInv => NoConnectionOutlivesCall
  BY DEF GuiInv, LinkInv, NoConnectionOutlivesCall
<1> QED
  BY <1>1, GuiInvariant, PTL
=============================================================================
