----------------------------- MODULE GuiSession -----------------------------
(***************************************************************************)
(* Calls that drive the Fabric Debugger's GUI: fpga_ila_console and        *)
(* fpga_ila_adc_read (console.mjs), fpga_ila_open and fpga_ila_capture     *)
(* (ila_capture.mjs, gui.mjs), over the executors (core/executor.mjs).     *)
(* Each GUI step of a call is a job: files are staged, a driver script     *)
(* registers a scheduled task and runs it, the task runs a helper in the   *)
(* desktop session, and the driver waits for the helper's out file.  The   *)
(* calls share the host, its console task name, the GUI and its Tcl        *)
(* console; each has an executor of its own.                               *)
(***************************************************************************)
EXTENDS Naturals, Sequences, FiniteSets

CONSTANTS
  Calls,       \* tool calls, each one made once
  Scenarios,   \* what the calls are, where the host is, the GUI and the board there
  MaxFaults,   \* bound: refused or lost connections, failed copies, refused tasks
  None

\* The calls that use the GUI; "none" is a call that is not made.
Kinds == {"tcl", "write", "capture", "open", "none"}
Steps == {"read", "script", "launch", "click", "keys", "tree", "fetch"}
Threads == Calls \X {"main", "click"}
Jobs == Calls \X (Steps \ {"fetch"})

\* What a helper may write, and what a call may answer.
OutFile == [said : {"sentinel", "timeout", "fatal", "launched", "nowindow", "invoked", "sent",
                    "nodialog", "cores", "nothing"},
            rc : {None, 0, 1}, first : Jobs \union {None}]
Answers == [ok : BOOLEAN, run : Jobs \union {None}, first : Jobs \union {None}, whole : BOOLEAN, timely : BOOLEAN]

ASSUME GuiAssumption ==
  /\ Scenarios \subseteq 
       [kind : [Calls -> Kinds], remote : BOOLEAN, up : BOOLEAN, cable : BOOLEAN,
        board : {"expected", "other"}, faults : 0..MaxFaults]
  /\ \A s \in Scenarios : s.cable => s.up
  /\ MaxFaults \in Nat
  /\ None \notin {0, 1} /\ None \notin Steps /\ None \notin Calls /\ None \notin Jobs
  /\ None \notin OutFile /\ None \notin Answers

VARIABLES
  sc,        \* the scenario
  th,        \* client: each thread's step, where it is in it, and its result
  conn,      \* client: each executor's connection
  ans,       \* client: the answer of each call
  faults,
  drv,       \* host: the driver script of each job
  task,      \* host: the scheduled tasks by name
  helper,    \* host: the helper of each job
  out,       \* host: each job's out file
  sentinel,  \* host: each job's sentinel file, the return code in it
  vcd,       \* host: each job's exported waveform
  gui,       \* the debugger: running, dialog, cable, console's input box
  queue,     \* the console: scripts it has been given and not finished
  printed,   \* the console: its transcript
  base,      \* the transcript's length when a helper typed
  \* history
  runs,      \* how often the console ran each script
  together,  \* calls whose console drivers overlapped
  behind,    \* jobs typed while the console or its box was another's
  late       \* calls closed while their click was under way

client == <<th, conn, ans>>
host == <<drv, task, helper, out, sentinel, vcd>>
debugger == <<gui, queue, printed, base>>
history == <<runs, together, behind, late>>
vars == <<sc, th, conn, ans, faults, drv, task, helper, out, sentinel, vcd,
          gui, queue, printed, base, runs, together, behind, late>>

Console(j) == j[2] \in {"read", "script"}
Main(c) == <<c, "main">>
Click(c) == <<c, "click">>
JobOf(t) == <<t[1], th[t].step>>
Idle == [step |-> None, at |-> "idle", res |-> None]

\* Console jobs share one task name (console.mjs:18), the others have their own.
TaskName(j) == IF Console(j) THEN <<"console">> ELSE j
TaskNames == {TaskName(j) : j \in Jobs}

\* A thread at the beginning of a step.
Begin(s) == [step |-> s, at |-> "stage", res |-> None]

FirstStep(k) == CASE k \in {"tcl", "capture"} -> "script" [] k = "write" -> "read" [] k = "open" -> "launch"

Init ==
  /\ sc \in Scenarios
  /\ th = [t \in Threads |-> IF t[2] = "main" /\ sc.kind[t[1]] # "none"
                          THEN Begin(FirstStep(sc.kind[t[1]])) ELSE Idle]
  /\ conn = [c \in Calls |-> "none"]
  /\ ans = [c \in Calls |-> None]
  /\ faults = 0
  /\ drv = [j \in Jobs |-> "none"]
  /\ task = [n \in TaskNames |-> None]
  /\ helper = [j \in Jobs |-> "none"]
  /\ out = [j \in Jobs |-> None]
  /\ sentinel = [j \in Jobs |-> None]
  /\ vcd = [j \in Jobs |-> "none"]
  /\ gui = [up |-> sc.up, cable |-> sc.cable, dialog |-> None, box |-> None]
  /\ queue = <<>> /\ printed = <<>>
  /\ base = [j \in Jobs |-> 0]
  /\ runs = [j \in Jobs |-> 0]
  /\ together = {} /\ behind = {} /\ late = {}
-----------------------------------------------------------------------------
(* The client: executors and threads *)

Fault == faults < sc.faults /\ faults' = faults + 1

\* Seeded fault: only a call that succeeds closes its executor.
ClosedOnSuccess(c, a) == IF a.ok /\ conn[c] \in {"open", "dead"} THEN "none" ELSE conn[c]

\* SshExecutor.close: the next operation would connect again.
Closed(c, a) == IF conn[c] \in {"open", "dead"} THEN "none" ELSE conn[c]

\* The handler answers and its finally closes the executor.
Return(c, a) ==
  /\ ans' = [ans EXCEPT ![c] = a]
  /\ th' = [th EXCEPT ![Main(c)] = [step |-> None, at |-> "done", res |-> None]]
  /\ conn' = [conn EXCEPT ![c] = Closed(c, a)]
  /\ late' = IF th[Click(c)].at \in {"idle", "done"} THEN late ELSE late \union {c}

Error == [ok |-> FALSE, run |-> None, first |-> None, whole |-> FALSE, timely |-> FALSE]

\* An operation throws: the call fails, while a click's error is swallowed.
Throw(t) ==
  IF t[2] = "main" THEN Return(t[1], Error)
  ELSE th' = [th EXCEPT ![t].at = "done"] /\ UNCHANGED <<conn, ans, late>>

Goto(t, a) == th' = [th EXCEPT ![t].at = a] /\ UNCHANGED <<conn, ans, late>>
Got(t, r) == th' = [th EXCEPT ![t].at = "judge", ![t].res = r] /\ UNCHANGED <<conn, ans, late>>

\* The connection of c serves an operation: _connect answers the one there is,
\* also a dead one, or makes one; the operation itself may fail too.  (A call's
\* two threads never connect at once, so an attempt is one step.)
Serves(c) == ~sc.remote \/ conn[c] # "dead"
Linked(c) == IF sc.remote THEN [conn EXCEPT ![c] = "open"] ELSE conn

\* runGuiHelper: a work directory and the files in it are made, which needs the
\* connection and may fail, and the driver is started.
Stage(t) ==
  /\ th[t].at = "stage" /\ th[t].step # "fetch"
  /\ LET c == t[1]  j == JobOf(t) IN
     \/ /\ Serves(c)
        /\ th' = [th EXCEPT ![t].at = "drive"]
        /\ conn' = Linked(c)
        /\ drv' = [drv EXCEPT ![j] = "register"]
        /\ out' = [out EXCEPT ![j] = None]
        /\ UNCHANGED <<ans, faults, late>>
     \/ /\ sc.remote
        /\ IF Serves(c) THEN Fault ELSE UNCHANGED faults
        /\ Throw(t)
        /\ UNCHANGED <<drv, out>>
  /\ UNCHANGED <<sc, task, helper, sentinel, vcd, debugger, runs, together, behind>>

\* The connection is lost, or was closed, under a running command: its stream
\* ends without a code, which exec takes for success with what was printed so far.
CutOff(t) ==
  /\ th[t].at = "drive" /\ sc.remote /\ conn[t[1]] # "open"
  /\ Got(t, None)
  /\ UNCHANGED <<sc, faults, host, debugger, runs, together, behind>>

\* Seeded fault: commands on a local host have no time limit.
CommandTimeoutRemote(t) ==
  /\ th[t].at = "drive" /\ sc.remote
  /\ Got(t, None)
  /\ UNCHANGED <<sc, faults, host, debugger, runs, together, behind>>

\* A command is over its time.  A remote driver is let go; a local one is
\* killed, its task stays, and its out file is read if it is there.
CommandTimeout(t) ==
  /\ th[t].at = "drive"
  /\ IF sc.remote THEN Got(t, None) /\ UNCHANGED drv
     ELSE Got(t, out[JobOf(t)]) /\ drv' = [drv EXCEPT ![JobOf(t)] = "gone"]
  /\ UNCHANGED <<sc, faults, task, helper, out, sentinel, vcd, debugger, runs, together, behind>>

Drop(c) ==
  /\ conn[c] = "open" /\ Fault
  /\ conn' = [conn EXCEPT ![c] = "dead"]
  /\ \/ UNCHANGED drv
     \/ drv' = [j \in Jobs |-> IF j[1] = c /\ drv[j] # "none" THEN "gone" ELSE drv[j]]
  /\ UNCHANGED <<sc, th, ans, task, helper, out, sentinel, vcd, debugger, history>>
-----------------------------------------------------------------------------
(* The host: drivers and scheduled tasks *)

Alive(j) == drv[j] \in {"register", "run", "await"}

\* Seeded fault: the task that is there is not deleted first.
RefusedKeeps(old) == old

\* The task table after a refused creation: the old task was deleted before.
Refused(old) == None

\* Whether the scheduler starts a helper: not while it is running.
Started(k) == IF k # None /\ helper[k] \in {"none", "ended"} THEN [helper EXCEPT ![k] = "started"] ELSE helper

\* The driver deletes the task of this name and creates it for its helper,
\* which the scheduler may refuse (no such user, not elevated).  Nobody else
\* meets a task with a name of its own, so that one is run in the same step.
Register(j) ==
  /\ drv[j] = "register"
  /\ \E created \in BOOLEAN :
       /\ IF created THEN UNCHANGED faults ELSE Fault
       /\ LET k == IF created THEN j ELSE Refused(task[TaskName(j)]) IN
            /\ task' = [task EXCEPT ![TaskName(j)] = k]
            /\ IF Console(j) THEN drv' = [drv EXCEPT ![j] = "run"] /\ UNCHANGED helper
               ELSE drv' = [drv EXCEPT ![j] = "await"] /\ helper' = Started(k)
  /\ LET others == {k \in Jobs : k[1] # j[1] /\ TaskName(k) = TaskName(j) /\ Alive(k)} IN
       together' = IF others = {} THEN together ELSE together \union {k[1] : k \in others \union {j}}
  /\ UNCHANGED <<sc, client, out, sentinel, vcd, debugger, runs, behind, late>>

\* schtasks /run: whatever the task of this name runs now.
RunTask(j) ==
  /\ drv[j] = "run"
  /\ drv' = [drv EXCEPT ![j] = "await"]
  /\ helper' = Started(task[TaskName(j)])
  /\ UNCHANGED <<sc, client, faults, task, out, sentinel, vcd, debugger, history>>

\* Seeded fault: the driver's words for a missing out file are taken for one.
PrintedSaysNothing(j) ==
  IF out[j] = None THEN [said |-> "S1_NO_OUT", rc |-> None, first |-> None] ELSE out[j]

\* What the client gets of a job: its out file, and nothing when it is not there.
Printed(j) == out[j]

\* The out file is there, or the driver's own deadline has passed: it deletes
\* the task and prints what it has to the client, if that still listens.
Await(j) ==
  /\ drv[j] = "await"
  /\ drv' = [drv EXCEPT ![j] = "gone"]
  /\ task' = [task EXCEPT ![TaskName(j)] = None]
  /\ LET listening == {t \in Threads : JobOf(t) = j /\ th[t].at = "drive" /\
                                       (~sc.remote \/ conn[t[1]] = "open")}
     IN th' = [t \in Threads |-> IF t \in listening THEN [th[t] EXCEPT !.at = "judge", !.res = Printed(j)]
                                 ELSE th[t]]
  /\ UNCHANGED <<sc, conn, ans, faults, helper, out, sentinel, vcd, debugger, history>>
-----------------------------------------------------------------------------
(* The desktop session: helpers *)

Says(what) == [said |-> what, rc |-> None, first |-> None]
Ends(j, o) == helper' = [helper EXCEPT ![j] = "ended"] /\ out' = [out EXCEPT ![j] = o]

\* Other console helpers that have typed and wait.
Typing(j) == {k \in Jobs : k # j /\ helper[k] \in {"typed", "polling"}}

\* driveConsole's helper notes the transcript's length, removes an old sentinel
\* and puts its `source` line into the console's input box ...
Type(j) ==
  /\ Console(j) /\ helper[j] = "started"
  /\ IF ~gui.up \/ gui.dialog # None
     THEN Ends(j, Says("fatal")) /\ UNCHANGED <<sentinel, gui, base, behind>>
     ELSE /\ helper' = [helper EXCEPT ![j] = "typed"]
          /\ base' = [base EXCEPT ![j] = Len(printed)]
          /\ sentinel' = [sentinel EXCEPT ![j] = None]
          /\ gui' = [gui EXCEPT !.box = j]
          /\ behind' = IF queue = <<>> /\ Typing(j) = {} THEN behind
                       ELSE behind \union {j} \union Typing(j)
          /\ UNCHANGED out
  /\ UNCHANGED <<sc, client, faults, drv, task, vcd, queue, printed, runs, together, late>>

\* ... and presses ENTER, which a modal dialog takes when there is one.
Enter(j) ==
  /\ helper[j] = "typed"
  /\ helper' = [helper EXCEPT ![j] = "polling"]
  /\ IF gui.dialog # None
     THEN gui' = [gui EXCEPT !.dialog = None, !.cable = TRUE] /\ UNCHANGED queue
     ELSE /\ gui' = [gui EXCEPT !.box = None]
          /\ queue' = IF gui.box = None THEN queue ELSE Append(queue, gui.box)
  /\ UNCHANGED <<sc, client, faults, drv, task, out, sentinel, vcd, printed, base, history>>

\* Seeded fault: the whole transcript is taken for what the call has printed.
DeltaWhole(j) == printed

\* What the transcript has gained since the helper typed.
Delta(j) == SubSeq(printed, base[j] + 1, Len(printed))

\* The helper sees the sentinel, or its deadline passes.
Look(j) ==
  /\ helper[j] = "polling"
  /\ Ends(j, [said |-> IF sentinel[j] # None THEN "sentinel" ELSE "timeout", rc |-> sentinel[j],
              first |-> IF Delta(j) = <<>> THEN None ELSE Head(Delta(j))])
  /\ UNCHANGED <<sc, client, faults, drv, task, sentinel, vcd, debugger, history>>

Launch(j) ==
  /\ j[2] = "launch" /\ helper[j] = "started"
  /\ \/ gui' = [gui EXCEPT !.up = TRUE] /\ Ends(j, Says("launched"))
     \/ ~gui.up /\ UNCHANGED gui /\ Ends(j, Says("nowindow"))
  /\ UNCHANGED <<sc, client, faults, drv, task, sentinel, vcd, queue, printed, base, history>>

\* "Search JTAG Chain": the click returns when the dialog it opens is closed.
ClickSearch(j) ==
  /\ j[2] = "click" /\ helper[j] = "started"
  /\ IF gui.up /\ gui.dialog = None /\ ~gui.cable
     THEN /\ gui' = [gui EXCEPT !.dialog = j[1]]
          /\ helper' = [helper EXCEPT ![j] = "clicking"] /\ UNCHANGED out
     ELSE Ends(j, Says("invoked")) /\ UNCHANGED gui
  /\ UNCHANGED <<sc, client, faults, drv, task, sentinel, vcd, queue, printed, base, history>>

ClickReturns(j) ==
  /\ helper[j] = "clicking" /\ gui.dialog # j[1]
  /\ Ends(j, Says("invoked"))
  /\ UNCHANGED <<sc, client, faults, drv, task, sentinel, vcd, debugger, history>>

\* ENTER to the "Open Cable" dialog, if it appears within its twelve seconds.
SendKeys(j) ==
  /\ j[2] = "keys" /\ helper[j] = "started"
  /\ IF gui.dialog # None
     THEN gui' = [gui EXCEPT !.dialog = None, !.cable = TRUE] /\ Ends(j, Says("sent"))
     ELSE UNCHANGED gui /\ Ends(j, Says("nodialog"))
  /\ UNCHANGED <<sc, client, faults, drv, task, sentinel, vcd, queue, printed, base, history>>

\* dumpDbgTree: the cores that a scan has found, if the tree shows them yet.
\* ilaOpen's six looks at the tree are one job.
DumpTree(j) ==
  /\ j[2] = "tree" /\ helper[j] = "started"
  /\ \E cores \in BOOLEAN : (cores => gui.cable) /\ Ends(j, Says(IF cores THEN "cores" ELSE "nothing"))
  /\ UNCHANGED <<sc, client, faults, drv, task, sentinel, vcd, debugger, history>>
-----------------------------------------------------------------------------
(* The console runs what it is given, one script after the other *)

\* The export of a waveform begins, once the trigger has fired ...
StartExport ==
  /\ queue # <<>>
  /\ LET k == Head(queue) IN
       /\ sc.kind[k[1]] = "capture" /\ vcd[k] = "none" /\ gui.cable
       /\ vcd' = [vcd EXCEPT ![k] = "part"]
  /\ UNCHANGED <<sc, client, faults, drv, task, helper, out, sentinel, debugger, history>>

\* ... and the script ends with its sentinel, a file in the work directory of
\* its own call.
EndScript ==
  /\ queue # <<>>
  /\ LET k == Head(queue) IN
       \E rc \in {0, 1} :
         /\ rc = 0 => gui.cable /\ (sc.kind[k[1]] = "capture" => vcd[k] = "part")
         /\ sentinel' = [sentinel EXCEPT ![k] = rc]
         /\ vcd' = IF rc = 0 /\ vcd[k] = "part" THEN [vcd EXCEPT ![k] = "whole"] ELSE vcd
         /\ printed' = Append(printed, k)
         /\ runs' = [runs EXCEPT ![k] = @ + 1]
  /\ queue' = Tail(queue)
  /\ UNCHANGED <<sc, client, faults, drv, task, helper, out, gui, base, together, behind, late>>
-----------------------------------------------------------------------------
(* The client judges what it got *)

Judging(t, s) == th[t].at = "judge" /\ th[t].step = s
Proceed(c, s) == th' = [th EXCEPT ![Main(c)] = Begin(s)] /\ UNCHANGED <<conn, ans, late>>

\* driveConsole's ok: the sentinel with return code 0.
Passed(r) == r # None /\ r.said = "sentinel" /\ r.rc = 0

\* fpga_ila_console reads the IDCODE before a script that writes: the first one
\* in the result or in what the console printed.
JudgeRead(c) ==
  /\ Judging(Main(c), "read")
  /\ LET r == th[Main(c)].res IN
     \/ /\ Passed(r)
        /\ \E id \in (IF r.first[2] = "read" THEN {sc.board} ELSE {sc.board, "none"}) :
             IF id = "expected" THEN Proceed(c, "script") ELSE Return(c, Error)
     \/ ~Passed(r) /\ Return(c, Error)
  /\ UNCHANGED <<sc, faults, host, debugger, runs, together, behind>>

JudgeScript(c) ==
  /\ Judging(Main(c), "script")
  /\ LET r == th[Main(c)].res IN
     IF sc.kind[c] = "capture"
     THEN /\ th' = [th EXCEPT ![Main(c)].step = "fetch", ![Main(c)].at = "stage"]
          /\ UNCHANGED <<conn, ans, late>>
     ELSE Return(c, [Error EXCEPT !.ok = Passed(r), !.run = <<c, "script">>,
                                  !.first = IF r = None THEN None ELSE r.first])
  /\ UNCHANGED <<sc, faults, host, debugger, runs, together, behind>>

\* ilaCapture pulls the waveform whatever the console answered; a file that is
\* not there is an error, one without samples not ok.
Fetch(c) ==
  /\ th[Main(c)].step = "fetch" /\ th[Main(c)].at = "stage"
  /\ LET j == <<c, "script">>  r == th[Main(c)].res IN
     \/ /\ ~Serves(c) \/ vcd[j] = "none"
        /\ Return(c, Error)
     \/ /\ Serves(c) /\ vcd[j] # "none"
        /\ \E ok \in BOOLEAN :
             /\ ok \/ vcd[j] = "part"
             /\ Return(c, [ok |-> ok, run |-> j, first |-> None,
                           whole |-> vcd[j] = "whole", timely |-> Passed(r)])
  /\ UNCHANGED <<sc, faults, host, debugger, runs, together, behind>>

\* ilaOpen gives up only when the launch said so; then the button is clicked
\* without waiting for it and keys are sent to the dialog.
JudgeLaunch(c) ==
  /\ Judging(Main(c), "launch")
  /\ LET r == th[Main(c)].res IN
     IF r # None /\ r.said = "nowindow" THEN Return(c, Error)
     ELSE /\ th' = [th EXCEPT ![Main(c)] = Begin("keys"), ![Click(c)] = Begin("click")]
          /\ UNCHANGED <<conn, ans, late>>
  /\ UNCHANGED <<sc, faults, host, debugger, runs, together, behind>>

JudgeClick(c) ==
  /\ Judging(Click(c), "click")
  /\ Goto(Click(c), "done")
  /\ UNCHANGED <<sc, faults, host, debugger, runs, together, behind>>

JudgeKeys(c) ==
  /\ Judging(Main(c), "keys") /\ th[Click(c)].at = "done"
  /\ Proceed(c, "tree")
  /\ UNCHANGED <<sc, faults, host, debugger, runs, together, behind>>

\* ilaOpen has got as far as it can: ok, with or without cores.
JudgeTree(c) ==
  /\ Judging(Main(c), "tree")
  /\ Return(c, [Error EXCEPT !.ok = TRUE])
  /\ UNCHANGED <<sc, faults, host, debugger, runs, together, behind>>
-----------------------------------------------------------------------------
Client(t) ==
  \/ Stage(t) \/ CutOff(t) \/ CommandTimeout(t)
  \/ \E c \in {t[1]} : JudgeRead(c) \/ JudgeScript(c) \/ Fetch(c) \/ JudgeLaunch(c)
                        \/ JudgeClick(c) \/ JudgeKeys(c) \/ JudgeTree(c)

Host(j) == Register(j) \/ RunTask(j) \/ Await(j)

Helper(j) ==
  Type(j) \/ Enter(j) \/ Look(j) \/ Launch(j) \/ ClickSearch(j) \/ ClickReturns(j) \/ SendKeys(j) \/ DumpTree(j)

Rest == (\A t \in Threads : th[t].at \in {"idle", "done"}) /\ UNCHANGED vars

Next ==
  \/ \E c \in Calls : Drop(c)
  \/ \E t \in Threads : Client(t)
  \/ \E j \in Jobs : Host(j) \/ Helper(j)
  \/ StartExport \/ EndScript \/ Rest

Spec == Init /\ [][Next]_vars

\* The client's code and its timers run, ssh2's readyTimeout and keepalive among
\* them.  Nothing is assumed of the host, the GUI or the console.
FairSpec == Spec /\ WF_vars(\E t \in Threads : Client(t))
-----------------------------------------------------------------------------
(* Properties *)

TypeOK ==
  /\ sc \in Scenarios
  /\ th \in [Threads -> [step : Steps \union {None},
                         at : {"idle", "stage", "drive", "judge", "done"},
                         res : OutFile \union {None}]]
  /\ conn \in [Calls -> {"none", "open", "dead"}]
  /\ ans \in [Calls -> Answers \union {None}]
  /\ faults \in 0..MaxFaults
  /\ drv \in [Jobs -> {"none", "register", "run", "await", "gone"}]
  /\ task \in [TaskNames -> Jobs \union {None}]
  /\ \A n \in TaskNames : task[n] # None => TaskName(task[n]) = n
  /\ helper \in [Jobs -> {"none", "started", "typed", "polling", "clicking", "ended"}]
  /\ out \in [Jobs -> OutFile \union {None}]
  /\ sentinel \in [Jobs -> {None, 0, 1}]
  /\ vcd \in [Jobs -> {"none", "part", "whole"}]
  /\ gui \in [up : BOOLEAN, cable : BOOLEAN, dialog : Calls \union {None}, box : Jobs \union {None}]
  /\ gui.cable \/ gui.dialog # None => gui.up
  /\ queue \in Seq(Jobs) /\ printed \in Seq(Jobs)
  /\ \A i \in DOMAIN queue : Console(queue[i])
  /\ \A i \in DOMAIN printed : Console(printed[i])
  /\ base \in [Jobs -> Nat] /\ runs \in [Jobs -> Nat]
  /\ \A j \in Jobs : base[j] <= Len(printed) /\ runs[j] <= Len(printed)
  /\ together \union late \subseteq Calls /\ behind \subseteq Jobs

\* A console or capture call that answers ok has had its own script run to the
\* end; what it parses as the script's output (an ADC value) was printed by that
\* script, unless the console was another's when it typed; and the waveform it
\* pulls is whole, unless the console had not answered in time.
OkIsOwnWork ==
  \A c \in Calls : ans[c] # None /\ ans[c].ok /\ ans[c].run # None =>
    LET j == ans[c].run IN
    IF sc.kind[c] = "capture" THEN ans[c].whole \/ ~ans[c].timely
    ELSE runs[j] > 0 /\ (ans[c].first = j \/ j \in behind)

\* A script that writes runs only after the expected IDCODE was read, and no
\* script is run a second time, unless the drivers of two calls overlapped on
\* the one task name: also a task that another call has left behind is not run.
ScriptsRunAsAllowed ==
  \A c \in Calls :
    /\ sc.kind[c] = "write" /\ runs[<<c, "script">>] > 0 => sc.board = "expected"
    /\ \A j \in Jobs : j[1] = c /\ runs[j] > 1 => c \in together

\* A call that is over holds no connection, unless it was closed while the click
\* it did not wait for was under way and connected again.
NoConnectionOutlivesCall ==
  \A c \in Calls : ans[c] # None /\ conn[c] # "none" => c \in late

\* Every call returns, whatever the host, the GUI and the console do.
EveryGuiCallReturns == <>(\A c \in Calls : sc.kind[c] # "none" => ans[c] # None)
=============================================================================
