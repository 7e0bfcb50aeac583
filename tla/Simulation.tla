----------------------------- MODULE Simulation -----------------------------
(***************************************************************************)
(* Calls of the simulation tools on one working directory: fpga_msim_sim,  *)
(* fpga_msim_compile and fpga_msim_do (toolchains/modelsim/index.mjs), here *)
(* or on a remote host, fpga_sim (toolchains/sim), and the tools that read *)
(* what these leave: fpga_assert, fpga_wave, fpga_msim_view, fpga_msim_exe. *)
(* ModelSim calls share the directory ._fpga_msim: its work library, its   *)
(* do files and sim.vcd; fpga_sim has files of its own beside it.  The     *)
(* sources are edited meanwhile.                                           *)
(***************************************************************************)
EXTENDS Waveform, FiniteSets

CONSTANTS
  Calls,      \* tool calls, each one made once
  Versions,   \* contents of everything the simulators read
  Listed,     \* Listed[v]: what of version v the source list names
  Result,     \* Result[v]: "broken" (a unit of it does not compile), "fails", "counts"
              \* (it fails, and only the counts of a UVM report say so) or "passes"
  Trace,      \* Trace[v]: what a simulation of v dumps
  Scenarios,  \* what is called, after[c] the calls whose answers c waits for, and
              \* how often the sources are edited and a connection fails
  None

Tools == {"sim", "compile", "do", "icarus", "assert", "wave", "view", "exe"}
Families == {"modelsim", "icarus"}

\* VCD files: those of the two simulators, and one that fpga_msim_sim is told the
\* path of; fpga_sim is not given paths here.
WaveFiles == {"modelsim", "icarus", "named"}

\* What may be asked: only ModelSim runs on a host, only simulations have a VCD of
\* their own, only fpga_msim_sim counts UVM reports, what is drawn has a VCD, and
\* assertions are for fpga_assert and fpga_msim_sim, which then dumps.
Assertions == [type : AssertionTypes, signal : Signals, value : Expected, time : Nat]
Asks ==
  {a \in [tool : Tools, remote : BOOLEAN, vcd : {"no", "own", "named"}, uvm : BOOLEAN,
          draw : {"no", "all", "filtered"}, assert : Assertions \union {None}] :
     /\ a.remote => a.tool \in {"sim", "compile", "do"}
     /\ a.vcd # "no" => a.tool = "sim" \/ (a.tool = "icarus" /\ a.vcd = "own")
     /\ a.uvm => a.tool = "sim"
     /\ a.draw # "no" => a.vcd # "no" \/ a.tool = "wave"
     /\ a.tool = "wave" => a.draw # "no"
     /\ a.tool = "assert" => a.assert # None
     /\ a.assert # None => a.tool = "assert" \/ (a.tool = "sim" /\ a.vcd # "no")}

Designs == [of : Versions, whole : BOOLEAN]
Dumps == [by : Calls, of : Versions, whole : BOOLEAN]
Views == [by : Calls, of : Versions, whole : BOOLEAN, blasted : BOOLEAN]
Pictures == [by : Calls, of : Versions, whole : BOOLEAN, blasted : BOOLEAN, filtered : BOOLEAN]
Answers == [ok : BOOLEAN, by : Calls \union {None}, wave : Views \union {None},
            picture : Pictures \union {None}, verdict : BOOLEAN \union {None}]

ASSUME SimulationAssumption ==
  /\ Result \in [Versions -> {"broken", "fails", "counts", "passes"}]
  /\ \A v \in Versions, s \in Signals : IsTrace(Trace[v][s])
  /\ \A v \in Versions : Len(Trace[v]["done"][1]) = 1
  /\ \A s \in Scenarios :
       /\ s.call \in [Calls -> Asks \union {None}] /\ s.after \in [Calls -> SUBSET Calls]
       /\ s.edits \in Nat /\ s.faults \in Nat
  /\ None \notin Calls /\ None \notin Versions /\ None \notin BOOLEAN
  /\ None \notin Asks /\ None \notin Designs /\ None \notin Dumps /\ None \notin Views
  /\ None \notin Pictures /\ None \notin Answers

VARIABLES
  call,     \* call[c] = [tool, remote, vcd, uvm, draw, assert]: what is asked of which
            \* tool, where, whether with a VCD, UVM counts and a picture, and an assertion
  after,
  src,      \* the version on disk
  edits,    \* how often it may still be edited
  faults,   \* how many connections, puts or pulls may still fail
  pc,
  key,      \* the cache key a call has computed
  lib,      \* lib[f]: what family f's compiled design is of, [of, whole]
  script,   \* script[f]: the call that last wrote the do file f
  wave,     \* wave[f]: the VCD file f, [by, of, whole]
  drawn,    \* drawn[f]: the picture beside the VCD file f
  mirror,   \* mirror[k]: the VCD pulled from the host for key k
  store,    \* store[k]: the call whose summary is kept under key k
  got,      \* the transcript a call has got
  read,     \* the version a call's compile, or its staging, has read
  loaded,   \* the version its simulator has loaded
  ran,      \* the call whose do file its simulator has run
  ans,
  \* history
  crowded,  \* calls that met another one in the files they share
  changed,  \* calls whose sources were edited between the hash and the reading
  killed,   \* calls whose compiler was killed
  cut       \* calls whose connection was lost, or that lack a file not put or pulled

files == <<lib, script, wave, drawn, mirror, store>>
work == <<read, loaded, ran>>
history == <<crowded, changed, killed, cut>>
vars == <<call, after, src, edits, faults, pc, key, files, got, work, ans, history>>

Made == {c \in Calls : call[c] # None}
Tool(c) == call[c].tool
Remote(c) == call[c].remote
Family(c) == IF Tool(c) = "icarus" THEN "icarus" ELSE "modelsim"
WaveFile(c) == IF call[c].vcd = "named" THEN "named" ELSE Family(c)

\* The do file of a call: run.do, msim_do.do, and their copies to be staged.
Scripts == {"sim", "do"} \X BOOLEAN
Script(c) == <<Tool(c), Remote(c)>>

\* The options of a call that are hashed: whether there is a VCD, not where.
Hashed(a) == [a EXCEPT !.vcd = IF @ = "no" THEN "no" ELSE "own"]

\* hashParts over the listed files and the options; files that those include,
\* that a file list names or that lie in a library directory are not hashed.
KeyOf(c) == [call |-> Hashed(call[c]), listed |-> Listed[src]]

Keys(s) == {[call |-> Hashed(k), listed |-> l] :
              k \in {s.call[c] : c \in Calls} \ {None}, l \in {Listed[v] : v \in Versions}}

Nothing == [sum |-> "none", fatal |-> FALSE, lines |-> FALSE, uvm |-> FALSE, code |-> 0, killed |-> FALSE]

Init ==
  /\ \E s \in Scenarios :
       /\ call = s.call /\ after = s.after /\ edits = s.edits /\ faults = s.faults
       /\ mirror = [k \in Keys(s) |-> None] /\ store = [k \in Keys(s) |-> None]
       /\ pc = [c \in Calls |-> IF s.call[c] = None THEN "done" ELSE "start"]
  /\ src \in Versions
  /\ key = [c \in Calls |-> None]
  /\ lib = [f \in Families |-> None]
  /\ wave = [f \in WaveFiles |-> None]
  /\ drawn = [f \in WaveFiles |-> None]
  /\ script = [f \in Scripts |-> None]
  /\ got = [c \in Calls |-> Nothing]
  /\ read = [c \in Calls |-> None] /\ loaded = [c \in Calls |-> None] /\ ran = [c \in Calls |-> None]
  /\ ans = [c \in Calls |-> None]
  /\ crowded = {} /\ changed = {} /\ killed = {} /\ cut = {}
-----------------------------------------------------------------------------
Goto(c, l) == pc' = [pc EXCEPT ![c] = l]
Reply(c, a) ==
  /\ Goto(c, "done") /\ ans' = [ans EXCEPT ![c] = a]
  /\ got' = [got EXCEPT ![c] = Nothing]
Got(c, t) == got' = [got EXCEPT ![c] = t]

Failed == [ok |-> FALSE, by |-> None, wave |-> None, picture |-> None, verdict |-> None]

\* A call begins when its client has the answers it waits for.
Begins(c) == pc[c] = "start" /\ \A d \in after[c] : pc[d] = "done"

\* A call meets those that are under way in the files it uses.
Meet(c) ==
  LET others == {d \in Made \ {c} : pc[d] \notin {"start", "done"} /\ Remote(d) = Remote(c)
                                    /\ Family(d) = Family(c)}
  IN crowded' = IF others = {} THEN crowded ELSE crowded \union others \union {c}

Edit ==
  /\ edits > 0 /\ edits' = edits - 1
  /\ src' \in Versions \ {src}
  /\ changed' = changed \union {c \in Made : pc[c] \notin {"start", "done"} /\ read[c] = None}
  /\ UNCHANGED <<call, after, faults, pc, key, files, got, work, ans, crowded, killed, cut>>

\* Paths, sources and tools are checked, and the commands of a do script.
Refuse(c) ==
  /\ Begins(c)
  /\ Reply(c, Failed)
  /\ UNCHANGED <<call, after, src, edits, faults, key, files, work, history>>

\* The VCD file that the summary under k names.
Dump(k) == IF k.call.remote THEN mirror[k] ELSE wave[WaveFile(store[k])]

\* A summary that passed is served when the VCD it names, if any, is there.
Kept(k) == store[k] # None /\ (ans[store[k]].wave # None => Dump(k) # None)

\* The file as a call names it, and the picture it draws of what it names.
Named(c, file) ==
  IF file = None \/ call[c].vcd = "no" THEN None
  ELSE [by |-> file.by, of |-> file.of, whole |-> file.whole, blasted |-> Family(c) = "modelsim"]

Painted(c, view) ==
  IF view = None \/ call[c].draw = "no" THEN None
  ELSE [by |-> view.by, of |-> view.of, whole |-> view.whole, blasted |-> view.blasted,
        filtered |-> call[c].draw = "filtered"]

\* The picture that the summary under k names, as it is by now.
Picture(k) ==
  IF k.call.remote THEN Painted(store[k], Named(store[k], mirror[k])) ELSE drawn[WaveFile(store[k])]

\* fpga_msim_sim and fpga_msim_compile: hash, look up, and on a miss remove the
\* library at once (local), or begin to stage (remote).
Start(c) ==
  /\ Begins(c) /\ Tool(c) \in {"sim", "compile"}
  /\ LET k == KeyOf(c) IN
       /\ key' = [key EXCEPT ![c] = k]
       /\ IF Kept(k)
          THEN /\ Reply(c, [ans[store[k]] EXCEPT !.by = store[k],
                              !.wave = IF @ = None THEN None ELSE Named(c, Dump(k)),
                              !.picture = IF @ = None THEN None ELSE Picture(k)])
               /\ UNCHANGED <<lib, crowded>>
          ELSE /\ IF Remote(c) THEN Goto(c, "stage") /\ UNCHANGED lib
                  ELSE Goto(c, "compile") /\ lib' = [lib EXCEPT !["modelsim"] = None]
               /\ Meet(c) /\ UNCHANGED <<got, ans>>
  /\ UNCHANGED <<call, after, src, edits, faults, script, wave, drawn, mirror, store, work, changed, killed, cut>>

\* fpga_sim begins to compile, fpga_msim_do to stage or to run.
StartPlain(c) ==
  /\ Begins(c) /\ Tool(c) \in {"icarus", "do"}
  /\ Goto(c, IF Tool(c) = "icarus" THEN "compile" ELSE IF Remote(c) THEN "stage" ELSE "load")
  /\ script' = IF Tool(c) = "do" /\ ~Remote(c) THEN [script EXCEPT ![Script(c)] = c] ELSE script
  /\ Meet(c)
  /\ UNCHANGED <<call, after, src, edits, faults, key, lib, wave, drawn, mirror, store, got, work, ans, changed, killed, cut>>
-----------------------------------------------------------------------------
(* Transcripts *)

Clean == [Nothing EXCEPT !.sum = "zero"]
Errors == [Nothing EXCEPT !.sum = "some", !.lines = TRUE, !.code = 1]
Killed == [Nothing EXCEPT !.code = 1, !.killed = TRUE]

\* A test bench that fails: $fatal, error messages, or UVM counts alone; vsim's
\* exit code is 0 all the same, and Icarus prints what it has to say.
Failing(f) ==
  IF f = "icarus" THEN {[Nothing EXCEPT !.lines = TRUE], [Nothing EXCEPT !.code = 1]}
  ELSE {[Clean EXCEPT !.fatal = TRUE], [Errors EXCEPT !.code = 0]}

Passing(f) == IF f = "icarus" THEN Nothing ELSE Clean

\* What a run of version v may print.
Outcomes(f, v) ==
  IF Result[v] = "fails" THEN Failing(f)
  ELSE IF Result[v] = "counts" THEN {[Clean EXCEPT !.uvm = TRUE]} ELSE {Passing(f)}

\* Icarus has no UVM to compile with.
Compiles(f, v) == Result[v] \in (IF f = "icarus" THEN {"fails", "passes"} ELSE {"fails", "counts", "passes"})

\* Seeded fault: the exit code is trusted.
VerdictByCode(c) == got[c].code = 0 /\ ~got[c].killed

\* judgeModelsimOk, with the UVM counts if they are asked for; fpga_sim's exit
\* code and failure words.
Verdict(c) ==
  LET t == got[c] IN
  IF Family(c) = "icarus" THEN t.code = 0 /\ ~t.lines
  ELSE /\ ~t.killed /\ ~t.fatal /\ ~(call[c].uvm /\ t.uvm)
       /\ CASE t.sum = "zero" -> TRUE [] t.sum = "some" -> FALSE
            [] t.sum = "none" -> ~t.lines /\ t.code = 0

\* compileSources counts errors, and does not look whether the tools ended.
Compiled(c) == IF Family(c) = "icarus" THEN got[c].code = 0 ELSE got[c].sum # "some"
-----------------------------------------------------------------------------
(* On this machine *)

\* vlib, vcom and vlog, or iverilog, one after the other.
Compile(c) ==
  /\ pc[c] = "compile"
  /\ read' = [read EXCEPT ![c] = src]
  /\ LET f == Family(c)  part == IF lib[f] = None THEN [of |-> src, whole |-> FALSE] ELSE lib[f] IN
     \/ /\ IF Compiles(f, src) THEN Got(c, Passing(f)) /\ lib' = [lib EXCEPT ![f] = [of |-> src, whole |-> TRUE]]
           ELSE Got(c, Errors) /\ lib' = [lib EXCEPT ![f] = part]
        /\ UNCHANGED killed
     \/ /\ Got(c, Killed) /\ lib' = [lib EXCEPT ![f] = part]
        /\ killed' = killed \union {c}
  /\ Goto(c, "compiled")
  /\ UNCHANGED <<call, after, src, edits, faults, key, script, wave, drawn, mirror, store, loaded, ran, ans,
                 crowded, changed, cut>>

Fresh(c, ok, file, verdict) ==
  [ok |-> ok, by |-> c, wave |-> file, picture |-> Painted(c, file), verdict |-> verdict]

\* Seeded fault: the key is computed again when the call has ended.
KeepUnder(c, ok) == store' = IF ok /\ Tool(c) \in {"sim", "compile"} THEN [store EXCEPT ![KeyOf(c)] = c] ELSE store

\* Seeded fault: calls that failed are kept too.
KeepAny(c, ok) == store' = IF Tool(c) \in {"sim", "compile"} THEN [store EXCEPT ![key[c]] = c] ELSE store

Keep(c, ok) == store' = IF ok /\ Tool(c) \in {"sim", "compile"} THEN [store EXCEPT ![key[c]] = c] ELSE store

\* The compile is judged; a simulation writes its do file and starts vsim.
JudgeCompile(c) ==
  /\ pc[c] = "compiled"
  /\ IF Compiled(c) /\ Tool(c) # "compile"
     THEN /\ Goto(c, "load")
          /\ script' = IF Tool(c) = "sim" THEN [script EXCEPT ![Script(c)] = c] ELSE script
          /\ UNCHANGED <<ans, got, store>>
     ELSE /\ Reply(c, Fresh(c, Compiled(c), None, None))
          /\ Keep(c, Compiled(c))
          /\ UNCHANGED script
  /\ UNCHANGED <<call, after, src, edits, faults, key, lib, wave, drawn, mirror, work, history>>

Whole(design) == design # None /\ design.whole

\* The simulator reads the do file and loads the design: it may not find one in
\* a library that is not whole.  The dump is opened anew.
Load(c) ==
  /\ pc[c] = "load"
  /\ LET f == Family(c)  d == IF f = "icarus" THEN c ELSE script[Script(c)] IN
     \/ /\ lib[f] # None /\ Compiles(f, lib[f].of)
        /\ loaded' = [loaded EXCEPT ![c] = lib[f].of]
        /\ ran' = [ran EXCEPT ![c] = d]
        /\ wave' = IF call[d].vcd = "no" THEN wave
                   ELSE [wave EXCEPT ![WaveFile(d)] = [by |-> c, of |-> lib[f].of, whole |-> FALSE]]
        /\ Goto(c, "run") /\ UNCHANGED got
     \/ /\ ~Whole(lib[f])
        /\ Got(c, Errors) /\ Goto(c, "judge")
        /\ UNCHANGED <<loaded, ran, wave>>
  /\ UNCHANGED <<call, after, src, edits, faults, key, lib, script, drawn, mirror, store, read, ans, history>>

\* It runs to its end, which completes its dump, or is killed.
Run(c) ==
  /\ pc[c] = "run"
  /\ \E t \in {Killed} \union Outcomes(Family(c), loaded[c]) :
       /\ Got(c, t)
       /\ wave' = [f \in DOMAIN wave |-> IF wave[f] # None /\ wave[f].by = c /\ ~t.killed
                                         THEN [wave[f] EXCEPT !.whole = TRUE] ELSE wave[f]]
  /\ Goto(c, "judge")
  /\ UNCHANGED <<call, after, src, edits, faults, key, lib, script, drawn, mirror, store, read, loaded, ran, ans, history>>

\* What an assertion says of a VCD file, or of none; one that is not whole may
\* say either.
Verdicts(a, file) ==
  IF a = None THEN {None} ELSE IF file = None THEN {FALSE}
  ELSE IF file.whole THEN {Evaluate(a, Trace[file.of], file.blasted)} ELSE BOOLEAN

\* Transcript, VCD and assertions are judged together; only a call that passed
\* is kept.
Settle(c, file) ==
  \E v \in Verdicts(call[c].assert, Named(c, file)) :
    LET ok == Verdict(c) /\ v # FALSE IN
    /\ Reply(c, Fresh(c, ok, Named(c, file), v))
    /\ Keep(c, ok)

Judge(c) ==
  /\ pc[c] = "judge" /\ ~Remote(c)
  /\ LET f == WaveFile(c)  picture == Painted(c, Named(c, wave[f])) IN
       /\ Settle(c, wave[f])
       /\ drawn' = IF picture = None THEN drawn ELSE [drawn EXCEPT ![f] = picture]
  /\ UNCHANGED <<call, after, src, edits, faults, key, lib, script, wave, mirror, work, history>>

\* A VCD file given to a tool that reads it.
Given(f) == [by |-> wave[f].by, of |-> wave[f].of, whole |-> wave[f].whole, blasted |-> f # "icarus"]

\* fpga_assert
Assert(c) ==
  /\ Begins(c) /\ Tool(c) = "assert"
  /\ \E f \in DOMAIN wave :
       /\ wave[f] # None
       /\ \E v \in Verdicts(call[c].assert, Given(f)) : Reply(c, Fresh(c, v, Given(f), v))
  /\ UNCHANGED <<call, after, src, edits, faults, key, files, work, history>>

\* fpga_wave draws beside the VCD; one that is still being written may be empty.
DrawWave(c) ==
  /\ Begins(c) /\ Tool(c) = "wave"
  /\ \E f \in DOMAIN wave :
       /\ wave[f] # None
       /\ \/ /\ drawn' = [drawn EXCEPT ![f] = Painted(c, Given(f))]
             /\ Reply(c, Fresh(c, TRUE, Given(f), None))
          \/ ~wave[f].whole /\ Reply(c, Failed) /\ UNCHANGED drawn
  /\ UNCHANGED <<call, after, src, edits, faults, key, lib, script, wave, mirror, store, work, history>>

\* fpga_msim_view converts the VCD, which may fail, and starts the viewer.
View(c) ==
  /\ Begins(c) /\ Tool(c) = "view"
  /\ \E f \in DOMAIN wave :
       /\ wave[f] # None
       /\ Reply(c, Fresh(c, TRUE, Given(f), None)) \/ Reply(c, Failed)
  /\ UNCHANGED <<call, after, src, edits, faults, key, files, work, history>>

\* fpga_msim_exe: a tool of the allowed ones, which look at libraries and files.
Exe(c) ==
  /\ Begins(c) /\ Tool(c) = "exe"
  /\ \E ok \in BOOLEAN : Reply(c, Fresh(c, ok, None, None))
  /\ UNCHANGED <<call, after, src, edits, faults, key, files, work, history>>
-----------------------------------------------------------------------------
(* On a host *)

Fault == faults > 0 /\ faults' = faults - 1

\* The sources are put into a directory of the call's own, and its do file is
\* written here; an operation that fails ends the call, but fpga_msim_do passes
\* over a file that it cannot put.
Stage(c) ==
  /\ pc[c] = "stage"
  /\ \/ /\ read' = [read EXCEPT ![c] = src]
        /\ script' = IF Tool(c) \in {"sim", "do"} THEN [script EXCEPT ![Script(c)] = c] ELSE script
        /\ \/ UNCHANGED <<faults, cut>>
           \/ Tool(c) = "do" /\ Fault /\ cut' = cut \union {c}
        /\ Goto(c, "put") /\ UNCHANGED <<got, ans>>
     \/ Fault /\ Reply(c, Failed) /\ UNCHANGED <<read, script, cut>>
  /\ UNCHANGED <<call, after, src, edits, key, lib, wave, drawn, mirror, store, loaded, ran, crowded, changed, killed>>

\* The do file is put there as it is by then.
PutScript(c) ==
  /\ pc[c] = "put"
  /\ ran' = IF Tool(c) \in {"sim", "do"} THEN [ran EXCEPT ![c] = script[Script(c)]] ELSE ran
  /\ Goto(c, "exec")
  /\ UNCHANGED <<call, after, src, edits, faults, key, files, got, read, loaded, ans, history>>

\* One chained command compiles and simulates.  A do script finds no library
\* there and compiles for itself, if it has all its files.  When it is killed or
\* the connection is lost, it may have come to simulate or not; a connection that
\* is lost ends the stream without a code, which counts as 0.
Exec(c) ==
  /\ pc[c] = "exec"
  /\ LET simulates == Tool(c) # "compile" /\ Compiles("modelsim", read[c])
         reached == [loaded EXCEPT ![c] = read[c]]
     IN
     \/ /\ Compiles("modelsim", read[c])
        /\ loaded' = IF simulates THEN reached ELSE loaded
        /\ \E t \in IF simulates THEN Outcomes("modelsim", read[c]) ELSE {Clean} : Got(c, t)
        /\ UNCHANGED <<faults, cut>>
     \/ /\ ~Compiles("modelsim", read[c]) \/ c \in cut
        /\ Got(c, Errors)
        /\ UNCHANGED <<loaded, faults, cut>>
     \/ /\ loaded' \in IF simulates THEN {loaded, reached} ELSE {loaded}
        /\ \/ Got(c, Killed) /\ UNCHANGED <<faults, cut>>
           \/ Fault /\ Got(c, Nothing) /\ cut' = cut \union {c}
  /\ Goto(c, "ended")
  /\ UNCHANGED <<call, after, src, edits, key, files, read, ran, ans, crowded, changed, killed>>

\* The mirror of the key is emptied; all but a simulation that dumps are judged.
EndRemote(c) ==
  /\ pc[c] = "ended"
  /\ mirror' = IF Tool(c) = "do" THEN mirror ELSE [mirror EXCEPT ![key[c]] = None]
  /\ IF Tool(c) = "sim" /\ call[c].vcd # "no"
     THEN Goto(c, "pull") /\ UNCHANGED <<got, ans, store>>
     ELSE Settle(c, None)
  /\ UNCHANGED <<call, after, src, edits, faults, key, lib, script, wave, drawn, work, history>>

\* The VCD, if there is one, is pulled into the mirror and judged; a pull that
\* fails is passed over.
Pull(c) ==
  /\ pc[c] = "pull"
  /\ LET there == loaded[c] # None /\ call[ran[c]].vcd # "no"
         file == [by |-> c, of |-> loaded[c], whole |-> c \notin cut /\ ~got[c].killed]
     IN
     \/ /\ there
        /\ mirror' = [mirror EXCEPT ![key[c]] = file]
        /\ Settle(c, file)
        /\ UNCHANGED <<faults, cut>>
     \/ /\ IF there THEN Fault /\ cut' = cut \union {c} ELSE UNCHANGED <<faults, cut>>
        /\ Settle(c, None)
        /\ UNCHANGED mirror
  /\ UNCHANGED <<call, after, src, edits, key, lib, script, wave, drawn, work, crowded, changed, killed>>
-----------------------------------------------------------------------------
Step(c) ==
  \/ Refuse(c) \/ Start(c) \/ StartPlain(c)
  \/ Assert(c) \/ DrawWave(c) \/ View(c) \/ Exe(c)
  \/ Compile(c) \/ JudgeCompile(c) \/ Load(c) \/ Run(c) \/ Judge(c)
  \/ Stage(c) \/ PutScript(c) \/ Exec(c) \/ EndRemote(c) \/ Pull(c)

Rest == (\A c \in Calls : pc[c] = "done") /\ UNCHANGED vars

Next == Edit \/ (\E c \in Made : Step(c)) \/ Rest

Spec == Init /\ [][Next]_vars
-----------------------------------------------------------------------------
(* Properties *)

Transcript == [sum : {"none", "zero", "some"}, fatal : BOOLEAN, lines : BOOLEAN, uvm : BOOLEAN,
               code : {0, 1}, killed : BOOLEAN]

TypeOK ==
  /\ \E s \in Scenarios : call = s.call /\ after = s.after /\ DOMAIN store = Keys(s)
  /\ src \in Versions /\ edits \in Nat /\ faults \in Nat
  /\ pc \in [Calls -> {"start", "compile", "compiled", "load", "run", "judge", "stage", "put", "exec",
                       "ended", "pull", "done"}]
  /\ key \in [Calls -> DOMAIN store \union {None}]
  /\ lib \in [Families -> Designs \union {None}]
  /\ wave \in [WaveFiles -> Dumps \union {None}] /\ drawn \in [WaveFiles -> Pictures \union {None}]
  /\ mirror \in [DOMAIN store -> Dumps \union {None}]
  /\ script \in [Scripts -> Calls \union {None}]
  /\ \A f \in Scripts : script[f] # None => script[f] \in Made /\ Script(script[f]) = f
  /\ store \in [DOMAIN store -> Calls \union {None}]
  /\ \A k \in DOMAIN store : store[k] # None => store[k] \in Made /\ ans[store[k]].ok
  /\ got \in [Calls -> Transcript]
  /\ read \in [Calls -> Versions \union {None}] /\ loaded \in [Calls -> Versions \union {None}]
  /\ ran \in [Calls -> Calls \union {None}]
  /\ ans \in [Calls -> Answers \union {None}]
  /\ crowded \union changed \union killed \union cut \subseteq Made

Answered(c) == ans[c] # None
FreshOk(c) == Answered(c) /\ ans[c].ok /\ ans[c].by = c

\* A bench that fails by its UVM counts alone passes for all but those who ask
\* for the counts.
Passes(c, v) == Result[v] = "passes" \/ (Result[v] = "counts" /\ ~call[c].uvm)

\* A simulation that answers ok by itself has run its own do file on a design
\* that it compiled itself and that passes, and the waveform it names is its
\* own and whole; a compile that answers ok has compiled.  The exceptions are
\* calls that met another one in the files they share, compilers that were
\* killed, lost connections, and UVM counts that nobody asked for.
PassedRunIsOwn ==
  \A c \in Calls : FreshOk(c) /\ c \notin crowded \union cut =>
    /\ Tool(c) \in {"sim", "icarus", "do"} =>
         /\ Passes(c, loaded[c])
         /\ Tool(c) # "do" => loaded[c] = read[c]
         /\ Tool(c) # "icarus" => ran[c] = c
         /\ call[c].vcd # "no" => ans[c].wave # None /\ ans[c].wave.by = c
                                  /\ ans[c].wave.of = loaded[c] /\ ans[c].wave.whole
    /\ Tool(c) = "compile" => Result[read[c]] # "broken" \/ c \in killed

\* A hit rests on a call with the same options, but for the path of its VCD,
\* that passed by itself on the same listed sources; unless the sources changed
\* under that call or it is one of the exceptions above, they are what it
\* simulated.  A waveform or a picture that the hit names is of them, or a later
\* simulation has replaced the file.
HitRestsOnPass ==
  \A c \in Calls : Answered(c) /\ ans[c].ok /\ ans[c].by # c =>
    LET b == ans[c].by
        Replaced(v) == \E q \in Made \ {b} : loaded[q] = v /\ (Remote(c) => Hashed(call[q]) = Hashed(call[c]))
    IN
    /\ FreshOk(b) /\ Hashed(call[b]) = Hashed(call[c]) /\ key[b].listed = key[c].listed
    /\ b \notin changed \union crowded \union cut \union killed =>
         /\ Listed[read[b]] = key[c].listed
         /\ Tool(c) = "sim" => Passes(c, read[b])
         /\ \A w \in {ans[c].wave, ans[c].picture} \ {None} : w.of = read[b] \/ Replaced(w.of)

\* The store as RunCache knows it: what a call has answered, and whose pass is
\* kept under a key; only ModelSim simulations and compiles have one.
AnswerOf(c) ==
  IF ans[c] = None THEN [kind |-> "open"]
  ELSE IF ~ans[c].ok THEN [kind |-> "failed"]
  ELSE [kind |-> "pass", by |-> ans[c].by, keys |-> IF Tool(c) \in {"sim", "compile"} THEN {key[c]} ELSE {}]

KeptAt(k) == IF store[k] = None THEN {} ELSE {store[k]}

Cache == INSTANCE RunCache WITH
  Calls <- Calls,
  answer <- [c \in Calls |-> AnswerOf(c)],
  kept <- [k \in DOMAIN store |-> KeptAt(k)]

\* Simulations implement the cache's contract (runstore.mjs:3-6): a lookup serves
\* the latest pass under its key or nothing.
ImplementsCache == Cache!CacheSpec

Drawn == [v \in Versions |-> [s \in Signals |-> [b \in BOOLEAN |-> [f \in BOOLEAN |->
  DrawsTrace(Trace[v], s, b, f)]]]]

\* What an assertion says of a whole waveform is true of the trace, if the value
\* it asks for is read as it is meant, and a picture shows the trace; but of a
\* bus that ModelSim has written bit by bit, an assertion and a picture with a
\* filter see the first bit.
WaveformsAreReadRight ==
  \A c \in Calls : Answered(c) =>
    LET w == ans[c].wave  p == ans[c].picture  a == call[c].assert IN
    /\ p # None /\ p.whole => \A s \in Signals : Drawn[p.of][s][p.blasted][p.filtered]
    /\ w # None /\ w.whole /\ ans[c].by = c /\ a # None /\ ReadAsMeant(a.value) =>
         ans[c].verdict = TrueOf(a, Seen(Trace[w.of][a.signal], w.blasted))
=============================================================================
