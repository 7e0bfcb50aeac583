------------------------- MODULE Simulation_proofs -------------------------
(***************************************************************************)
(* The simulation tools on one directory, for every number of calls and    *)
(* versions of the sources and every scenario: whose run a pass is, and    *)
(* what a cached pass rests on.                                            *)
(***************************************************************************)
EXTENDS Simulation, Waveform_proofs

\* The simulator that writes a VCD file.
FamilyOf(f) == IF f = "icarus" THEN "icarus" ELSE "modelsim"

Busy(c) == pc[c] \notin {"start", "done"}
Cached(c) == Tool(c) \in {"sim", "compile"}
Scripted(c) == Tool(c) \in {"sim", "do"}

\* A call answers once.  What it has read, loaded and run goes with how far it
\* is, and how far it can get with its tool and its place.
StageOf(c) ==
  /\ call[c] = None => pc[c] = "done" /\ ans[c] = None
  /\ pc[c] # "done" => ans[c] = None
  /\ pc[c] \in {"compile", "compiled", "load", "run", "judge"} =>
       ~Remote(c) /\ Tool(c) \in {"sim", "compile", "do", "icarus"}
  /\ pc[c] \in {"stage", "put", "exec", "ended", "pull"} => Remote(c)
  /\ pc[c] \in {"compile", "compiled"} => Tool(c) # "do"
  /\ pc[c] \in {"load", "run", "judge"} => Tool(c) # "compile"
  /\ pc[c] = "pull" => Tool(c) = "sim"
  /\ pc[c] \in {"start", "compile", "stage"} => read[c] = None
  /\ pc[c] \in {"compiled", "put", "exec", "ended", "pull"} => read[c] # None
  /\ pc[c] \in {"load", "run", "judge"} /\ Tool(c) # "do" => read[c] # None
  /\ pc[c] \in {"start", "compile", "compiled", "load", "stage", "put", "exec"} => loaded[c] = None
  /\ pc[c] = "run" => loaded[c] # None
  /\ call[c] # None /\ Tool(c) = "compile" => loaded[c] = None
  /\ pc[c] \in {"load", "put"} /\ Scripted(c) => script[Script(c)] # None
  /\ pc[c] \in {"exec", "ended", "pull"} /\ Scripted(c) => ran[c] # None

StageInv == \A c \in Calls : StageOf(c)

\* Calls under way in the same files have met.
AloneInv ==
  \A c, d \in Made :
    c # d /\ Busy(c) /\ Busy(d) /\ Remote(c) = Remote(d) /\ Family(c) = Family(d) => c \in crowded

\* The simulator of call c has run c's own script on the design c compiled.
OwnRun(c) ==
  /\ Tool(c) # "do" => loaded[c] = read[c]
  /\ Tool(c) # "icarus" => ran[c] = c

\* The VCD beside the sources is c's, of what c has loaded.
OwnDump(c) ==
  LET w == wave[WaveFile(c)] IN w # None /\ w.by = c /\ w.of = loaded[c]

\* A call that has met nobody finds in the shared files what it has put there.
LocalOf(c) ==
  LET f == Family(c) IN
  /\ pc[c] = "compile" /\ f = "modelsim" => lib[f] = None
  /\ pc[c] = "compiled" /\ Compiled(c) =>
       lib[f] # None /\ lib[f].of = read[c] /\ (Compiles(f, read[c]) \/ c \in killed)
  /\ pc[c] = "load" => /\ Tool(c) # "do" => lib[f] # None /\ lib[f].of = read[c]
                       /\ Tool(c) # "icarus" => script[Script(c)] = c
  /\ pc[c] = "run" =>
       /\ OwnRun(c) /\ Compiles(f, loaded[c])
       /\ call[c].vcd # "no" => OwnDump(c)
  /\ pc[c] = "judge" /\ Verdict(c) =>
       /\ OwnRun(c) /\ Passes(c, loaded[c])
       /\ call[c].vcd # "no" => OwnDump(c) /\ wave[WaveFile(c)].whole

LocalInv == \A c \in Made : ~Remote(c) /\ c \notin crowded => LocalOf(c)

RemoteOf(c) ==
  /\ pc[c] = "put" /\ Scripted(c) => script[Script(c)] = c
  /\ pc[c] \in {"exec", "ended", "pull"} /\ Scripted(c) => ran[c] = c
  /\ pc[c] \in {"ended", "pull"} /\ c \notin cut /\ Verdict(c) =>
       /\ Scripted(c) => loaded[c] = read[c] /\ Passes(c, loaded[c])
       /\ Compiles("modelsim", read[c])

RemoteInv == \A c \in Made : Remote(c) /\ c \notin crowded => RemoteOf(c)

\* A call has hashed what it will read, or the sources changed in between.
HashInv ==
  \A c \in Made : Cached(c) =>
    /\ Busy(c) => key[c] \in DOMAIN store /\ key[c].call = Hashed(call[c])
    /\ Busy(c) /\ read[c] = None /\ c \notin changed => Listed[src] = key[c].listed
    /\ read[c] # None /\ c \notin changed => Listed[read[c]] = key[c].listed

\* A summary is kept under its key by a call that passed by itself.
KeptBy(k, b) == Cached(b) /\ FreshOk(b) /\ key[b] = k /\ k.call = Hashed(call[b]) /\ read[b] # None

StoreInv == \A k \in DOMAIN store : store[k] # None => KeptBy(k, store[k])

\* An answer that is ok is a call's that was made.
AnswerInv == \A c \in Calls : Answered(c) /\ ans[c].ok => ans[c].by \in Made

\* A VCD, a picture or a pulled file is of what the call it comes from has loaded.
DumpInv ==
  /\ \A f \in WaveFiles :
       /\ wave[f] # None => wave[f].by \in Made /\ loaded[wave[f].by] = wave[f].of /\ FamilyOf(f) = Family(wave[f].by)
       /\ drawn[f] # None => drawn[f].by \in Made /\ loaded[drawn[f].by] = drawn[f].of
  /\ \A k \in DOMAIN store : mirror[k] # None =>
       mirror[k].by \in Made /\ loaded[mirror[k].by] = mirror[k].of /\ Hashed(call[mirror[k].by]) = k.call

\* What a call says of its assertion is what the file it names says.
JudgedOf(c) ==
  Tool(c) \in {"sim", "icarus", "assert"} /\ ans[c].wave # None /\ ans[c].wave.whole /\ call[c].assert # None =>
    /\ ans[c].verdict = Evaluate(call[c].assert, Trace[ans[c].wave.of], ans[c].wave.blasted)
    /\ ans[c].ok => ans[c].verdict = TRUE
    /\ Tool(c) # "assert" => ans[c].wave.blasted = (Family(c) = "modelsim")

JudgedInv == \A c \in Calls : Answered(c) /\ ans[c].by = c => JudgedOf(c)

\* An assertion that a simulation reports as passed holds of the sources that this
\* call, or the one its hit rests on, has compiled itself: it is true of their
\* trace, if the value it asks for is read as it is meant, and of a bus's first bit.
AssertionsHoldOfOwnRun ==
  \A c \in Calls : Answered(c) /\ ans[c].ok =>
    LET b == ans[c].by  a == call[c].assert IN
    b \notin crowded \union cut /\ Tool(c) = "sim" /\ a # None =>
      /\ Evaluate(a, Trace[read[b]], TRUE)
      /\ ReadAsMeant(a.value) => TrueOf(a, Seen(Trace[read[b]][a.signal], TRUE))

SimInv ==
  /\ TypeOK /\ StageInv /\ AloneInv /\ LocalInv /\ RemoteInv /\ HashInv /\ StoreInv /\ AnswerInv /\ DumpInv
  /\ PassedRunIsOwn /\ HitRestsOnPass /\ JudgedInv
-----------------------------------------------------------------------------
\* The calls that are made are of the kinds that may be asked for.
LEMMA CallTypes ==
  ASSUME TypeOK
  PROVE  /\ call \in [Calls -> Asks \union {None}] /\ after \in [Calls -> SUBSET Calls] /\ Made \subseteq Calls
         /\ \A c \in Made :
              /\ call[c] \in Asks /\ call[c] # None /\ Tool(c) \in Tools /\ Remote(c) \in BOOLEAN
              /\ Family(c) \in Families /\ Script(c) = <<Tool(c), Remote(c)>>
              /\ Scripted(c) => Script(c) \in Scripts
              /\ call[c].assert \in Assertions \union {None}
              /\ Remote(c) => Tool(c) \in {"sim", "compile", "do"}
              /\ call[c].vcd # "no" => Tool(c) \in {"sim", "icarus"}
              /\ Tool(c) = "assert" => call[c].assert # None
<1>1. PICK s \in Scenarios : call = s.call /\ after = s.after
  BY DEF TypeOK
<1>2. call \in [Calls -> Asks \union {None}] /\ after \in [Calls -> SUBSET Calls]
  BY <1>1, SimulationAssumption
<1>3. \A c \in Made : call[c] \in Asks /\ call[c] # None
  BY <1>2 DEF Made
<1>4. ASSUME NEW a \in Asks
      PROVE  a.tool \in Tools /\ a.remote \in BOOLEAN /\ a.assert \in Assertions \union {None}
  BY DEF Asks
<1>5. ASSUME NEW c \in Made
      PROVE  /\ Tool(c) \in Tools /\ Remote(c) \in BOOLEAN /\ call[c].assert \in Assertions \union {None}
             /\ Remote(c) => Tool(c) \in {"sim", "compile", "do"}
             /\ call[c].vcd # "no" => Tool(c) \in {"sim", "icarus"}
             /\ Tool(c) = "assert" => call[c].assert # None
  <2>1. call[c] \in Asks
    BY <1>3
  <2>2. call[c].tool \in Tools /\ call[c].remote \in BOOLEAN /\ call[c].assert \in Assertions \union {None}
    BY <2>1, <1>4, Zenon
  <2>3. /\ call[c].remote => call[c].tool \in {"sim", "compile", "do"}
        /\ call[c].vcd # "no" => call[c].tool \in {"sim", "icarus"}
        /\ call[c].tool = "assert" => call[c].assert # None
    BY <2>1 DEF Asks
  <2> QED
    BY <2>2, <2>3 DEF Tool, Remote
<1>6. ASSUME NEW c \in Made
      PROVE  /\ Family(c) \in Families /\ Script(c) = <<Tool(c), Remote(c)>>
             /\ Scripted(c) => Script(c) \in Scripts
  BY <1>5 DEF Family, Families, Script, Scripts, Scripted
<1> QED
  BY <1>2, <1>3, <1>5, <1>6 DEF Made

\* Only fpga_msim_sim is told a path, and counts UVM reports.
LEMMA AskTypes ==
  ASSUME TypeOK, NEW c \in Made
  PROVE  /\ call[c].vcd \in {"no", "own", "named"} /\ call[c].uvm \in BOOLEAN /\ call[c].draw \in {"no", "all", "filtered"}
         /\ call[c].vcd = "named" => Tool(c) = "sim"
         /\ call[c].uvm => Tool(c) = "sim"
<1>1. call[c] \in Asks
  BY CallTypes
<1> QED
  BY <1>1 DEF Asks, Tool

\* The VCD file of a call is its simulator's.
LEMMA WaveTypes ==
  ASSUME TypeOK, NEW c \in Made
  PROVE  WaveFile(c) \in WaveFiles /\ FamilyOf(WaveFile(c)) = Family(c)
<1>1. CASE call[c].vcd = "named"
  BY <1>1, AskTypes DEF WaveFile, WaveFiles, FamilyOf, Family
<1>2. CASE call[c].vcd # "named"
  BY <1>2 DEF WaveFile, WaveFiles, FamilyOf, Family
<1> QED
  BY <1>1, <1>2

\* Calls with one key were asked the same, but for the path of the VCD.
LEMMA HashedSame ==
  ASSUME NEW a \in Asks, NEW b \in Asks, Hashed(a) = Hashed(b)
  PROVE  /\ a.tool = b.tool /\ a.remote = b.remote /\ a.uvm = b.uvm /\ a.draw = b.draw /\ a.assert = b.assert
         /\ (a.vcd = "no") = (b.vcd = "no")
<1>1. ASSUME NEW x \in Asks
      PROVE  /\ Hashed(x).tool = x.tool /\ Hashed(x).remote = x.remote /\ Hashed(x).uvm = x.uvm
             /\ Hashed(x).draw = x.draw /\ Hashed(x).assert = x.assert
             /\ (Hashed(x).vcd = "no") = (x.vcd = "no")
  BY DEF Hashed, Asks
<1> QED
  BY <1>1

\* A key belongs to what was asked and to what is listed of some version.
LEMMA KeyTypes ==
  ASSUME TypeOK
  PROVE  \A c \in Made : KeyOf(c) \in DOMAIN store
<1>1. PICK s \in Scenarios : call = s.call /\ DOMAIN store = Keys(s)
  BY DEF TypeOK
<1>2. src \in Versions
  BY DEF TypeOK
<1>3. ASSUME NEW c \in Made PROVE KeyOf(c) \in DOMAIN store
  <2>1. call[c] \in {s.call[d] : d \in Calls} \ {None}
    BY <1>1, CallTypes DEF Made
  <2>2. Listed[src] \in {Listed[v] : v \in Versions}
    BY <1>2
  <2>3. ASSUME NEW A, NEW B, NEW k \in A, NEW l \in B
        PROVE  [call |-> Hashed(k), listed |-> l] \in {[call |-> Hashed(kk), listed |-> ll] : kk \in A, ll \in B}
    OBVIOUS
  <2>4. KeyOf(c) \in Keys(s)
    <3> DEFINE A == {s.call[d] : d \in Calls} \ {None}
               B == {Listed[v] : v \in Versions}
    <3>1. call[c] \in A /\ Listed[src] \in B
      BY <2>1, <2>2
    <3>2. Keys(s) = {[call |-> Hashed(kk), listed |-> ll] : kk \in A, ll \in B}
      BY DEF Keys
    <3> HIDE DEF A, B
    <3> QED
      BY <3>1, <3>2, <2>3 DEF KeyOf
  <2> QED
    BY <2>4, <1>1
<1> QED
  BY <1>3

\* What an assertion says, and so what a call answers about it.
LEMMA VerdictTypes ==
  ASSUME NEW a \in Assertions \union {None}, NEW file
  PROVE  Verdicts(a, file) \subseteq BOOLEAN \union {None} /\ (a # None => Verdicts(a, file) \subseteq BOOLEAN)
<1>1. CASE a = None
  BY <1>1 DEF Verdicts
<1>2. CASE a # None
  <2>1. a.type \in AssertionTypes
    BY <1>2 DEF Assertions
  <2>2. ASSUME NEW t, NEW b PROVE Evaluate(a, t, b) \in BOOLEAN
    BY <2>1 DEF Evaluate, AssertionTypes
  <2> QED
    BY <1>2, <2>2 DEF Verdicts
<1> QED
  BY <1>1, <1>2

\* What is drawn of a file, and what a call answers that names it.
LEMMA PaintedShape ==
  ASSUME NEW c, NEW view \in Views \union {None}
  PROVE  /\ Painted(c, view) \in Pictures \union {None}
         /\ Painted(c, view) # None => Painted(c, view).by = view.by /\ Painted(c, view).of = view.of /\ view # None
BY DEF Painted, Views, Pictures

LEMMA FreshShape ==
  ASSUME TypeOK, NEW c \in Made, NEW ok \in BOOLEAN, NEW file \in Views \union {None}, NEW v \in BOOLEAN \union {None}
  PROVE  Fresh(c, ok, file, v) \in Answers
BY PaintedShape, CallTypes DEF Fresh, Answers

\* The answer of a call that is judged, and what is kept of it.
LEMMA SettleEffect ==
  ASSUME TypeOK, NEW c \in Made, NEW file \in Dumps \union {None}, Settle(c, file)
  PROVE  \E v \in BOOLEAN \union {None} : \E ok \in BOOLEAN :
           /\ ok => Verdict(c)
           /\ Reply(c, Fresh(c, ok, Named(c, file), v)) /\ Keep(c, ok)
           /\ Fresh(c, ok, Named(c, file), v) \in Answers
           /\ Named(c, file) \in Views \union {None}
<1>1. Named(c, file) \in Views \union {None}
  BY SimulationAssumption DEF Named, Dumps, Views
<1>2. PICK v \in Verdicts(call[c].assert, Named(c, file)) :
        LET ok == Verdict(c) /\ v # FALSE IN
        Reply(c, Fresh(c, ok, Named(c, file), v)) /\ Keep(c, ok)
  BY DEF Settle
<1>3. v \in BOOLEAN \union {None}
  BY VerdictTypes, CallTypes
<1> DEFINE ok == Verdict(c) /\ v # FALSE
<1>4. ok \in BOOLEAN
  OBVIOUS
<1>5. Fresh(c, ok, Named(c, file), v) \in Answers
  BY <1>1, <1>3, <1>4, FreshShape
<1> QED
  BY <1>1, <1>2, <1>3, <1>4, <1>5

LEMMA SettleDone ==
  ASSUME NEW c, NEW file, Settle(c, file), DOMAIN pc = Calls, c \in Calls
  PROVE  pc'[c] = "done"
BY DEF Settle, Reply, Goto

\* What is kept of every call.
LEMMA Domains ==
  ASSUME TypeOK
  PROVE  /\ DOMAIN pc = Calls /\ DOMAIN key = Calls /\ DOMAIN got = Calls /\ DOMAIN read = Calls
         /\ DOMAIN loaded = Calls /\ DOMAIN ran = Calls /\ DOMAIN ans = Calls
         /\ DOMAIN lib = Families /\ DOMAIN wave = WaveFiles /\ DOMAIN drawn = WaveFiles
         /\ DOMAIN script = Scripts /\ DOMAIN mirror = DOMAIN store
BY DEF TypeOK

\* The files that a judge looks at are VCDs, or none.
LEMMA FileTypes ==
  ASSUME TypeOK
  PROVE  /\ \A f \in WaveFiles : wave[f] \in Dumps \union {None} /\ drawn[f] \in Pictures \union {None}
         /\ \A f \in Families : lib[f] \in Designs \union {None}
         /\ \A k \in DOMAIN store : mirror[k] \in Dumps \union {None}
BY DEF TypeOK

\* A step of a call changes nothing that is another call's own.
OthersStay(c) ==
  /\ call' = call /\ after' = after /\ src' = src /\ edits' = edits
  /\ DOMAIN store' = DOMAIN store
  /\ \A d \in Calls \ {c} :
       /\ pc'[d] = pc[d] /\ key'[d] = key[d] /\ got'[d] = got[d] /\ ans'[d] = ans[d]
       /\ read'[d] = read[d] /\ loaded'[d] = loaded[d] /\ ran'[d] = ran[d]
  /\ pc[c] # "done"

LEMMA StepFrame ==
  ASSUME TypeOK, NEW c \in Made, Step(c)
  PROVE  OthersStay(c)
<1> USE Domains, CallTypes DEF OthersStay, Goto, Reply, Got, files, work, history
<1>0. ASSUME NEW file, Settle(c, file) PROVE DOMAIN store' = DOMAIN store /\ \A d \in Calls \ {c} : pc'[d] = pc[d] /\ got'[d] = got[d] /\ ans'[d] = ans[d]
  BY <1>0 DEF Settle, Keep
<1>1. CASE Refuse(c)
  BY <1>1 DEF Refuse, Begins
<1>2. CASE Start(c)
  BY <1>2 DEF Start, Begins
<1>3. CASE StartPlain(c)
  BY <1>3 DEF StartPlain, Begins
<1>4. CASE Assert(c)
  BY <1>4 DEF Assert, Begins
<1>5. CASE DrawWave(c)
  BY <1>5 DEF DrawWave, Begins
<1>6. CASE View(c)
  BY <1>6 DEF View, Begins
<1>7. CASE Exe(c)
  BY <1>7 DEF Exe, Begins
<1>8. CASE Compile(c)
  BY <1>8 DEF Compile
<1>9. CASE JudgeCompile(c)
  BY <1>9, <1>0 DEF JudgeCompile, Keep
<1>10. CASE Load(c)
  BY <1>10 DEF Load
<1>11. CASE Run(c)
  BY <1>11 DEF Run
<1>12. CASE Judge(c)
  BY <1>12, <1>0 DEF Judge
<1>13. CASE Stage(c)
  BY <1>13 DEF Stage, Fault
<1>14. CASE PutScript(c)
  BY <1>14 DEF PutScript
<1>15. CASE Exec(c)
  BY <1>15 DEF Exec, Fault
<1>16. CASE EndRemote(c)
  BY <1>16, <1>0 DEF EndRemote
<1>17. CASE Pull(c)
  BY <1>17, <1>0 DEF Pull, Fault
<1> QED
  BY <1>1, <1>2, <1>3, <1>4, <1>5, <1>6, <1>7, <1>8, <1>9, <1>10, <1>11, <1>12, <1>13, <1>14, <1>15, <1>16, <1>17 DEF Step

\* Histories grow; what a call has read and loaded it keeps, and a call that is
\* done changes nothing of its own.
Stays ==
  /\ call' = call /\ after' = after
  /\ crowded \subseteq crowded' /\ changed \subseteq changed' /\ killed \subseteq killed' /\ cut \subseteq cut'
  /\ \A d \in Calls :
       /\ read[d] # None => read'[d] = read[d]
       /\ loaded[d] # None => loaded'[d] = loaded[d]
       /\ pc[d] = "done" =>
            /\ pc'[d] = pc[d] /\ key'[d] = key[d] /\ ans'[d] = ans[d]
            /\ read'[d] = read[d] /\ loaded'[d] = loaded[d] /\ ran'[d] = ran[d]

LEMMA NextStays ==
  ASSUME TypeOK, StageInv, [Next]_vars
  PROVE  Stays
<1>1. ASSUME NEW c \in Made, Step(c) PROVE Stays
  <2> USE <1>1 DEF Goto, Reply, Got, files, work, history
  <2>0. OthersStay(c) /\ c \in Calls
    BY StepFrame, CallTypes
  <2>1. crowded \subseteq crowded' /\ changed \subseteq changed' /\ killed \subseteq killed' /\ cut \subseteq cut'
    <3>1. CASE Refuse(c)
      BY <3>1 DEF Refuse, Begins
    <3>2. CASE Start(c)
      BY <3>2 DEF Start, Begins, Meet
    <3>3. CASE StartPlain(c)
      BY <3>3 DEF StartPlain, Begins, Meet
    <3>4. CASE Assert(c)
      BY <3>4 DEF Assert, Begins
    <3>5. CASE DrawWave(c)
      BY <3>5 DEF DrawWave, Begins
    <3>6. CASE View(c)
      BY <3>6 DEF View, Begins
    <3>7. CASE Exe(c)
      BY <3>7 DEF Exe, Begins
    <3>8. CASE Compile(c)
      BY <3>8 DEF Compile
    <3>9. CASE JudgeCompile(c)
      BY <3>9 DEF JudgeCompile
    <3>10. CASE Load(c)
      BY <3>10 DEF Load
    <3>11. CASE Run(c)
      BY <3>11 DEF Run
    <3>12. CASE Judge(c)
      BY <3>12 DEF Judge
    <3>13. CASE Stage(c)
      BY <3>13 DEF Stage, Fault
    <3>14. CASE PutScript(c)
      BY <3>14 DEF PutScript
    <3>15. CASE Exec(c)
      BY <3>15 DEF Exec, Fault
    <3>16. CASE EndRemote(c)
      BY <3>16 DEF EndRemote
    <3>17. CASE Pull(c)
      BY <3>17 DEF Pull, Fault
    <3> QED
      BY <3>1, <3>2, <3>3, <3>4, <3>5, <3>6, <3>7, <3>8, <3>9, <3>10, <3>11, <3>12, <3>13, <3>14, <3>15, <3>16, <3>17 DEF Step
  <2>2. (read[c] # None => read'[c] = read[c]) /\ (loaded[c] # None => loaded'[c] = loaded[c])
    <3>0. /\ pc[c] \in {"compile", "stage"} => read[c] = None
          /\ pc[c] \in {"load", "exec"} => loaded[c] = None
      BY <2>0 DEF StageInv, StageOf
    <3>1. CASE Refuse(c)
      BY <3>1, <3>0 DEF Refuse, Begins
    <3>2. CASE Start(c)
      BY <3>2, <3>0 DEF Start, Begins, Meet
    <3>3. CASE StartPlain(c)
      BY <3>3, <3>0 DEF StartPlain, Begins, Meet
    <3>4. CASE Assert(c)
      BY <3>4, <3>0 DEF Assert, Begins
    <3>5. CASE DrawWave(c)
      BY <3>5, <3>0 DEF DrawWave, Begins
    <3>6. CASE View(c)
      BY <3>6, <3>0 DEF View, Begins
    <3>7. CASE Exe(c)
      BY <3>7, <3>0 DEF Exe, Begins
    <3>8. CASE Compile(c)
      BY <3>8, <3>0 DEF Compile
    <3>9. CASE JudgeCompile(c)
      BY <3>9, <3>0 DEF JudgeCompile
    <3>10. CASE Load(c)
      BY <3>10, <3>0 DEF Load
    <3>11. CASE Run(c)
      BY <3>11, <3>0 DEF Run
    <3>12. CASE Judge(c)
      BY <3>12, <3>0 DEF Judge
    <3>13. CASE Stage(c)
      BY <3>13, <3>0 DEF Stage, Fault
    <3>14. CASE PutScript(c)
      BY <3>14, <3>0 DEF PutScript
    <3>15. CASE Exec(c)
      BY <3>15, <3>0 DEF Exec, Fault
    <3>16. CASE EndRemote(c)
      BY <3>16, <3>0 DEF EndRemote
    <3>17. CASE Pull(c)
      BY <3>17, <3>0 DEF Pull, Fault
    <3> QED
      BY <3>1, <3>2, <3>3, <3>4, <3>5, <3>6, <3>7, <3>8, <3>9, <3>10, <3>11, <3>12, <3>13, <3>14, <3>15, <3>16, <3>17 DEF Step
  <2> QED
    BY <2>0, <2>1, <2>2 DEF Stays, OthersStay
<1>2. CASE Edit
  BY <1>2 DEF Edit, Stays, files, work, history
<1>3. CASE UNCHANGED vars
  BY <1>3 DEF Stays, vars, files, work, history
<1> QED
  BY <1>1, <1>2, <1>3 DEF Next, Rest

\* Who may change the shared files: a call that goes on, in the files it uses.
SharedFrame(c) ==
  /\ \A f \in Families : lib'[f] # lib[f] => f = Family(c) /\ ~Remote(c) /\ pc'[c] \notin {"start", "done"}
  /\ \A f \in WaveFiles : wave'[f] # wave[f] =>
       FamilyOf(f) = Family(c) /\ ~Remote(c) /\ pc'[c] \notin {"start", "done"}
  /\ \A f \in Scripts : script'[f] # script[f] =>
       f = Script(c) /\ script'[f] = c /\ Scripted(c) /\ pc'[c] \notin {"start", "done"}

\* A simulator runs a do file of a tool of its family.
LEMMA ScriptFamily ==
  ASSUME TypeOK, StageInv, NEW c \in Made, pc[c] = "load",
         NEW d, d = IF Family(c) = "icarus" THEN c ELSE script[Script(c)]
  PROVE  d \in Made /\ WaveFile(d) \in WaveFiles /\ FamilyOf(WaveFile(d)) = Family(c)
<1>1. CASE Family(c) = "icarus"
  BY <1>1, WaveTypes
<1>2. CASE Family(c) # "icarus"
  <2>1. Tool(c) \in {"sim", "do"}
    BY <1>2, CallTypes DEF StageInv, StageOf, Family
  <2>2. Script(c) \in Scripts /\ script[Script(c)] # None
    <3>1. StageOf(c) /\ Scripted(c)
      BY <2>1, CallTypes DEF StageInv, Scripted
    <3> QED
      BY <3>1, CallTypes DEF StageOf
  <2>3. d \in Made /\ Script(d) = Script(c)
    BY <1>2, <2>2 DEF TypeOK
  <2>4. Tool(d) = Tool(c)
    BY <2>3 DEF Script
  <2>5. Family(d) = Family(c)
    BY <2>4 DEF Family
  <2> QED
    BY <2>3, <2>5, WaveTypes
<1> QED
  BY <1>1, <1>2

LEMMA StepShared ==
  ASSUME TypeOK, StageInv, DumpInv, NEW c \in Made, Step(c)
  PROVE  SharedFrame(c)
<1> USE Domains, CallTypes DEF Goto, Reply, Got, files, work, history, SharedFrame
<1>0. pc[c] \in {"compile", "compiled", "load", "run", "judge"} =>
        ~Remote(c) /\ Tool(c) \in {"sim", "compile", "do", "icarus"}
  BY DEF StageInv, StageOf
<1>00. \A f \in WaveFiles : wave[f] # None => FamilyOf(f) = Family(wave[f].by)
  BY DEF DumpInv
<1>1. CASE Refuse(c)
  BY <1>1, <1>0 DEF Refuse, Begins
<1>2. CASE Start(c)
  BY <1>2, <1>0 DEF Start, Begins, Meet, Family
<1>3. CASE StartPlain(c)
  BY <1>3, <1>0 DEF StartPlain, Begins, Meet, Family, Scripted
<1>4. CASE Assert(c)
  BY <1>4, <1>0 DEF Assert, Begins
<1>5. CASE DrawWave(c)
  BY <1>5, <1>0 DEF DrawWave, Begins
<1>6. CASE View(c)
  BY <1>6, <1>0 DEF View, Begins
<1>7. CASE Exe(c)
  BY <1>7, <1>0 DEF Exe, Begins
<1>8. CASE Compile(c)
  BY <1>8, <1>0 DEF Compile
<1>9. CASE JudgeCompile(c)
  BY <1>9, <1>0 DEF JudgeCompile, Scripted
<1>10. CASE Load(c)
  <2> DEFINE d == IF Family(c) = "icarus" THEN c ELSE script[Script(c)]
             w == [by |-> c, of |-> lib[Family(c)].of, whole |-> FALSE]
  <2>1. \/ UNCHANGED wave
        \/ wave' = [wave EXCEPT ![WaveFile(d)] = w] /\ pc'[c] = "run"
    BY <1>10 DEF Load
  <2>2. FamilyOf(WaveFile(d)) = Family(c)
    BY <1>10, ScriptFamily DEF Load
  <2>3. UNCHANGED <<lib, script>> /\ ~Remote(c)
    BY <1>10, <1>0 DEF Load
  <2> HIDE DEF d, w
  <2> QED
    BY <2>1, <2>2, <2>3
<1>11. CASE Run(c)
  BY <1>11, <1>0, <1>00 DEF Run
<1>12. CASE Judge(c)
  BY <1>12, <1>0 DEF Judge
<1>13. CASE Stage(c)
  BY <1>13, <1>0 DEF Stage, Fault, Scripted
<1>14. CASE PutScript(c)
  BY <1>14, <1>0 DEF PutScript
<1>15. CASE Exec(c)
  BY <1>15, <1>0 DEF Exec, Fault
<1>16. CASE EndRemote(c)
  BY <1>16, <1>0 DEF EndRemote
<1>17. CASE Pull(c)
  BY <1>17, <1>0 DEF Pull, Fault
<1> QED
  BY <1>1, <1>2, <1>3, <1>4, <1>5, <1>6, <1>7, <1>8, <1>9, <1>10, <1>11, <1>12, <1>13, <1>14, <1>15, <1>16, <1>17 DEF Step

LEMMA NextStageInv == TypeOK /\ StageInv /\ DumpInv /\ [Next]_vars => StageInv'
<1> SUFFICES ASSUME TypeOK, StageInv, DumpInv, [Next]_vars
             PROVE  StageInv'
  OBVIOUS
<1>1. ASSUME NEW c \in Made, Step(c) PROVE StageInv'
  <2> SUFFICES ASSUME NEW d \in Calls PROVE StageOf(d)'
    BY DEF StageInv
  <2>0. OthersStay(c) /\ SharedFrame(c) /\ c \in Calls /\ StageOf(c) /\ StageOf(d) /\ None \notin Calls
    BY <1>1, StepFrame, StepShared, CallTypes, SimulationAssumption DEF StageInv
  <2>1. CASE d # c
    <3>1. d \in Made /\ Scripted(d) /\ script[Script(d)] # None => script'[Script(d)] # None
      BY <2>0, CallTypes DEF SharedFrame
    <3>2. call[d] # None <=> d \in Made
      BY DEF Made
    <3> QED
      BY <2>0, <2>1, <3>1, <3>2 DEF OthersStay, StageOf, Tool, Remote, Scripted, Script
  <2>2. CASE d = c
    <3>0. pc'[c] = "done" /\ loaded'[c] = loaded[c] => StageOf(c)'
      BY <2>0, CallTypes DEF StageOf, OthersStay, Tool
    <3>00. src \in Versions /\ None \notin Versions /\ \A f \in Families : lib[f] # None => lib[f].of \in Versions
      BY SimulationAssumption, FileTypes DEF TypeOK, Designs
    <3> USE <2>0, <2>2, Domains, CallTypes DEF StageOf, OthersStay, Goto, Reply, Got, files, work, history
    <3>1. CASE Refuse(c)
      BY <3>1 DEF Refuse, Begins, Tool, Remote
    <3>2. CASE Start(c)
      BY <3>2, <3>00 DEF Start, Begins, Tool, Remote, Scripted, Script
    <3>3. CASE StartPlain(c)
      <4>1. /\ pc[c] = "start" /\ Tool(c) \in {"icarus", "do"} /\ UNCHANGED <<call, ans, read, loaded, ran>>
            /\ pc'[c] = IF Tool(c) = "icarus" THEN "compile" ELSE IF Remote(c) THEN "stage" ELSE "load"
        BY <3>3 DEF StartPlain, Begins
      <4>2. pc'[c] = "load" => script'[Script(c)] # None
        BY <3>3, <4>1 DEF StartPlain, Scripted
      <4> QED
        BY <4>1, <4>2 DEF Tool, Remote, Scripted, Script
    <3>4. CASE Assert(c)
      BY <3>4 DEF Assert, Begins, Tool, Remote
    <3>5. CASE DrawWave(c)
      BY <3>5 DEF DrawWave, Begins, Tool, Remote
    <3>6. CASE View(c)
      BY <3>6 DEF View, Begins, Tool, Remote
    <3>7. CASE Exe(c)
      BY <3>7 DEF Exe, Begins, Tool, Remote
    <3>8. CASE Compile(c)
      BY <3>8, <3>00 DEF Compile, Tool, Remote, Script
    <3>9. CASE JudgeCompile(c)
      BY <3>9, <3>00 DEF JudgeCompile, Tool, Remote, Scripted, Compiled, Script
    <3>10. CASE Load(c)
      BY <3>10, <3>00 DEF Load, Tool, Remote, Scripted, Family, Script
    <3>11. CASE Run(c)
      BY <3>11, <3>00 DEF Run, Tool, Remote, Script
    <3>12. CASE Judge(c)
      BY <3>12, <3>0, SettleDone DEF Judge, Tool, Remote
    <3>13. CASE Stage(c)
      <4>1. CASE Reply(c, Failed)
        BY <3>13, <4>1, <3>0 DEF Stage
      <4>2. CASE read' = [read EXCEPT ![c] = src] /\ Goto(c, "put")
        <5>1. /\ pc[c] = "stage" /\ UNCHANGED <<call, ans, loaded, ran>> /\ pc'[c] = "put" /\ read'[c] # None
          BY <3>13, <4>2, <3>00 DEF Stage, Begins
        <5>2. Scripted(c) => script'[Script(c)] # None
          BY <3>13, <4>2 DEF Stage, Scripted
        <5> QED
          BY <5>1, <5>2 DEF Tool, Remote, Scripted, Script
      <4> QED
        BY <3>13, <4>1, <4>2 DEF Stage
    <3>14. CASE PutScript(c)
      BY <3>14, <3>00 DEF PutScript, Tool, Remote, Scripted, Script
    <3>15. CASE Exec(c)
      BY <3>15, <3>00 DEF Exec, Fault, Tool, Remote, Scripted, Script
    <3>16. CASE EndRemote(c)
      <4>1. pc'[c] \in {"pull", "done"} /\ UNCHANGED <<read, loaded, ran, call>> /\ (pc'[c] = "pull" => Tool(c) = "sim" /\ UNCHANGED ans)
        BY <3>16, SettleDone DEF EndRemote, Tool, Remote
      <4>2. pc[c] = "ended"
        BY <3>16 DEF EndRemote
      <4> QED
        BY <3>0, <4>1, <4>2 DEF Tool, Remote, Scripted
    <3>17. CASE Pull(c)
      BY <3>17, <3>0, SettleDone DEF Pull, Fault, Tool, Remote
    <3> QED
      BY <1>1, <3>1, <3>2, <3>3, <3>4, <3>5, <3>6, <3>7, <3>8, <3>9, <3>10, <3>11, <3>12, <3>13, <3>14, <3>15, <3>16, <3>17 DEF Step
  <2> QED
    BY <2>1, <2>2
<1>2. CASE Edit \/ UNCHANGED vars
  BY <1>2 DEF Edit, StageInv, StageOf, Tool, Remote, Script, Scripted, vars, files, work, history
<1> QED
  BY <1>1, <1>2 DEF Next, Rest

LEMMA NextAloneInv == TypeOK /\ StageInv /\ AloneInv /\ [Next]_vars => AloneInv'
<1> SUFFICES ASSUME TypeOK, StageInv, AloneInv, [Next]_vars
             PROVE  AloneInv'
  OBVIOUS
<1>1. ASSUME NEW c \in Made, Step(c) PROVE AloneInv'
  <2>0. OthersStay(c) /\ Stays /\ c \in Calls /\ Made' = Made
    BY <1>1, StepFrame, NextStays, CallTypes DEF Made, OthersStay
  <2>1. ASSUME NEW d \in Made, NEW e \in Made, d # e, Busy(d)', Busy(e)', Remote(d) = Remote(e), Family(d) = Family(e)
        PROVE  d \in crowded'
    <3>1. CASE Busy(d) /\ Busy(e)
      BY <2>0, <2>1, <3>1 DEF AloneInv, Stays
    <3>2. CASE ~Busy(d) \/ ~Busy(e)
      <4>1. pc[c] = "start" /\ (d = c \/ e = c) /\ ~Busy(c) /\ Busy(c)'
        BY <2>0, <2>1, <3>2, CallTypes DEF Busy, OthersStay
      <4>2. Meet(c)
        <5> USE <4>1, Domains, CallTypes, <2>0 DEF Busy, Reply, Goto
        <5>1. CASE Refuse(c)
          BY <5>1 DEF Refuse
        <5>2. CASE Start(c)
          BY <5>2 DEF Start
        <5>3. CASE StartPlain(c)
          BY <5>3 DEF StartPlain
        <5>4. CASE Assert(c)
          BY <5>4 DEF Assert
        <5>5. CASE DrawWave(c)
          BY <5>5 DEF DrawWave
        <5>6. CASE View(c)
          BY <5>6 DEF View
        <5>7. CASE Exe(c)
          BY <5>7 DEF Exe
        <5>8. CASE Compile(c)
          BY <5>8 DEF Compile
        <5>9. CASE JudgeCompile(c)
          BY <5>9 DEF JudgeCompile
        <5>10. CASE Load(c)
          BY <5>10 DEF Load
        <5>11. CASE Run(c)
          BY <5>11 DEF Run
        <5>12. CASE Judge(c)
          BY <5>12 DEF Judge
        <5>13. CASE Stage(c)
          BY <5>13 DEF Stage
        <5>14. CASE PutScript(c)
          BY <5>14 DEF PutScript
        <5>15. CASE Exec(c)
          BY <5>15 DEF Exec
        <5>16. CASE EndRemote(c)
          BY <5>16 DEF EndRemote
        <5>17. CASE Pull(c)
          BY <5>17 DEF Pull
        <5> QED
          BY <1>1, <5>1, <5>2, <5>3, <5>4, <5>5, <5>6, <5>7, <5>8, <5>9, <5>10, <5>11, <5>12, <5>13, <5>14, <5>15, <5>16, <5>17 DEF Step
      <4>3. PICK q \in {d, e} \ {c} : Busy(q)
        BY <2>0, <2>1, <4>1, CallTypes DEF Busy, OthersStay
      <4>4. q \in {p \in Made \ {c} : pc[p] \notin {"start", "done"} /\ Remote(p) = Remote(c) /\ Family(p) = Family(c)}
        BY <2>1, <4>1, <4>3 DEF Busy
      <4>5. {c, q} \subseteq crowded'
        BY <4>2, <4>4 DEF Meet
      <4> QED
        BY <4>1, <4>3, <4>5, <2>1
    <3> QED
      BY <3>1, <3>2
  <2>2. \A d \in Made : Remote(d)' = Remote(d) /\ Family(d)' = Family(d)
    BY <2>0 DEF Stays, Remote, Family, Tool
  <2> QED
    BY <2>0, <2>1, <2>2 DEF AloneInv
<1>2. CASE Edit \/ UNCHANGED vars
  BY <1>2 DEF Edit, AloneInv, Busy, Made, Tool, Remote, Family, vars, files, work, history
<1> QED
  BY <1>1, <1>2 DEF Next, Rest

\* What a call that has met nobody finds is not touched by others.
LEMMA OthersFiles ==
  ASSUME TypeOK, StageInv, DumpInv, AloneInv', NEW c \in Made, Step(c), NEW d \in Made \ {c}, Busy(d), d \notin crowded'
  PROVE  /\ ~Remote(d) => lib'[Family(d)] = lib[Family(d)] /\ wave'[WaveFile(d)] = wave[WaveFile(d)]
         /\ Scripted(d) => script'[Script(d)] = script[Script(d)]
<1>0. OthersStay(c) /\ SharedFrame(c) /\ c \in Calls /\ d \in Calls
  BY StepFrame, StepShared, CallTypes
<1>1. pc'[c] \notin {"start", "done"} => ~(Remote(c) = Remote(d) /\ Family(c) = Family(d))
  <2>1. Busy(d)' /\ Made' = Made /\ (pc'[c] \notin {"start", "done"} => Busy(c)')
    BY <1>0 DEF OthersStay, Busy, Made
  <2>2. /\ Remote(c)' = Remote(c) /\ Remote(d)' = Remote(d)
        /\ Family(c)' = Family(c) /\ Family(d)' = Family(d)
    BY <1>0 DEF OthersStay, Remote, Family, Tool
  <2> QED
    BY <2>1, <2>2 DEF AloneInv
<1>2. Remote(c) \in BOOLEAN /\ Remote(d) \in BOOLEAN /\ Family(d) \in Families
  BY CallTypes
<1>3. ~Remote(d) => lib'[Family(d)] = lib[Family(d)] /\ wave'[WaveFile(d)] = wave[WaveFile(d)]
  BY <1>0, <1>1, <1>2, WaveTypes DEF SharedFrame
<1>4. Scripted(d) => script'[Script(d)] = script[Script(d)]
  BY <1>0, <1>1, CallTypes DEF SharedFrame, Family
<1> QED
  BY <1>3, <1>4

\* What holds of the stage of a call that has met nobody goes on to hold when
\* another one steps.
LEMMA OthersLocal ==
  ASSUME TypeOK, StageInv, DumpInv, AloneInv', NEW c \in Made, Step(c), NEW d \in Made \ {c}, d \notin crowded',
         ~Remote(d) => LocalOf(d), Remote(d) => RemoteOf(d)
  PROVE  (~Remote(d) => LocalOf(d)') /\ (Remote(d) => RemoteOf(d)')
<1>0. OthersStay(c) /\ Stays /\ c \in Calls /\ d \in Calls
  BY StepFrame, NextStays, CallTypes DEF Next
<1>1. CASE ~Busy(d)
  BY <1>0, <1>1 DEF Busy, OthersStay, LocalOf, RemoteOf
<1>2. CASE Busy(d)
  <2>1. /\ ~Remote(d) => lib'[Family(d)] = lib[Family(d)] /\ wave'[WaveFile(d)] = wave[WaveFile(d)]
        /\ Scripted(d) => script'[Script(d)] = script[Script(d)]
    BY <1>2, OthersFiles
  <2>2. /\ Tool(d)' = Tool(d) /\ Remote(d)' = Remote(d) /\ Family(d)' = Family(d) /\ Script(d)' = Script(d)
        /\ WaveFile(d)' = WaveFile(d) /\ \A v : Passes(d, v)' = Passes(d, v)
        /\ Scripted(d)' = Scripted(d) /\ Compiled(d)' = Compiled(d) /\ Verdict(d)' = Verdict(d) /\ OwnRun(d)' = OwnRun(d)
    BY <1>0 DEF OthersStay, Tool, Remote, Family, Script, Scripted, Compiled, Verdict, OwnRun, WaveFile, Passes
  <2>3. pc[d] = "load" /\ Tool(d) # "icarus" => Scripted(d)
    BY <1>0 DEF StageInv, StageOf, Scripted
  <2>4. ~Remote(d) => LocalOf(d)'
    <3>1. ASSUME ~Remote(d) PROVE LocalOf(d)'
      <4>1. /\ lib'[Family(d)] = lib[Family(d)] /\ wave'[WaveFile(d)] = wave[WaveFile(d)]
            /\ pc'[d] = pc[d] /\ read'[d] = read[d] /\ loaded'[d] = loaded[d] /\ call'[d] = call[d]
            /\ (d \in killed => d \in killed') /\ LocalOf(d)
        BY <3>1, <1>0, <2>1 DEF OthersStay, Stays
      <4>2. (pc[d] = "load" /\ Tool(d) # "icarus" => script'[Script(d)] = script[Script(d)])
        BY <2>1, <2>3
      <4> QED
        BY <4>1, <4>2, <2>2 DEF LocalOf, OwnDump
    <3> QED
      BY <3>1
  <2>5. Remote(d) => RemoteOf(d)'
    BY <1>0, <2>1, <2>2 DEF OthersStay, Stays, RemoteOf
  <2> QED
    BY <2>4, <2>5
<1> QED
  BY <1>1, <1>2

\* A transcript that passes, and a run of which version it can be: no transcript
\* of a run that is killed or fails passes, but of one whose UVM counts alone fail
\* it passes for those who do not ask for them.
TranscriptPasses(c, t) ==
  IF Family(c) = "icarus" THEN t.code = 0 /\ ~t.lines
  ELSE /\ ~t.killed /\ ~t.fatal /\ ~(call[c].uvm /\ t.uvm)
       /\ CASE t.sum = "zero" -> TRUE [] t.sum = "some" -> FALSE
            [] t.sum = "none" -> ~t.lines /\ t.code = 0

LEMMA OutcomesJudged ==
  ASSUME TypeOK, NEW c \in Made, NEW v \in Versions, Compiles(Family(c), v),
         NEW t \in {Killed} \union Outcomes(Family(c), v), TranscriptPasses(c, t)
  PROVE  ~t.killed /\ Passes(c, v)
<1>1. Result[v] \in {"fails", "counts", "passes"} /\ (Family(c) = "icarus" => Result[v] # "counts")
  BY DEF Compiles
<1>2. t # Killed
  <2>1. Killed.code = 1 /\ Killed.killed
    BY DEF Killed, Nothing
  <2>2. CASE Family(c) = "icarus"
    <3>1. t.code = 0
      BY <2>2 DEF TranscriptPasses
    <3> QED
      BY <2>1, <3>1
  <2>3. CASE Family(c) # "icarus"
    <3>1. ~t.killed
      BY <2>3 DEF TranscriptPasses
    <3> QED
      BY <2>1, <3>1
  <2> QED
    BY <2>2, <2>3
<1>3. CASE Result[v] = "fails"
  <2>1. t \in Failing(Family(c))
    BY <1>2, <1>3 DEF Outcomes
  <2>2. CASE Family(c) = "icarus"
    BY <2>1, <2>2 DEF TranscriptPasses, Failing, Nothing
  <2>3. CASE Family(c) # "icarus"
    <3>1. t.fatal \/ t.sum = "some"
      BY <2>1, <2>3 DEF Failing, Errors, Clean, Nothing
    <3> QED
      BY <2>3, <3>1 DEF TranscriptPasses
  <2> QED
    BY <2>2, <2>3
<1>4. CASE Result[v] = "counts"
  <2>1. t = [Clean EXCEPT !.uvm = TRUE]
    BY <1>2, <1>4 DEF Outcomes
  <2>2. t.uvm /\ ~t.killed
    BY <2>1 DEF Clean, Nothing
  <2> QED
    BY <1>1, <1>4, <2>2 DEF TranscriptPasses, Passes
<1>5. CASE Result[v] = "passes"
  <2>1. t = Passing(Family(c))
    BY <1>2, <1>5 DEF Outcomes
  <2>2. ~t.killed
    BY <2>1 DEF Passing, Clean, Nothing
  <2> QED
    BY <1>5, <2>2 DEF Passes
<1> QED
  BY <1>1, <1>3, <1>4, <1>5

LEMMA OwnLocal ==
  ASSUME TypeOK, StageInv, DumpInv, NEW c \in Made, Step(c), ~Remote(c), c \notin crowded, LocalOf(c)
  PROVE  LocalOf(c)'
<1>0. OthersStay(c) /\ c \in Calls /\ StageOf(c) /\ Family(c) \in Families /\ src \in Versions /\ None \notin Calls
  BY StepFrame, CallTypes, SimulationAssumption DEF StageInv, TypeOK
<1>1. /\ Tool(c)' = Tool(c) /\ Family(c)' = Family(c) /\ Script(c)' = Script(c) /\ call'[c] = call[c]
      /\ WaveFile(c)' = WaveFile(c)
  BY <1>0 DEF OthersStay, Tool, Remote, Family, Script, WaveFile
<1>2. pc'[c] = "done" => LocalOf(c)'
  BY DEF LocalOf
<1>3. None \notin Designs /\ None \notin Dumps
  BY SimulationAssumption
<1> USE <1>0, <1>1, Domains
<1>4. CASE Start(c)
  <2>1. pc'[c] # "done" => pc'[c] = "compile" /\ lib' = [lib EXCEPT !["modelsim"] = None]
    BY <1>4 DEF Start, Reply, Goto, Remote
  <2> QED
    BY <2>1, <1>2 DEF LocalOf, Families
<1>5. CASE StartPlain(c)
  <2>1. \/ pc'[c] = "compile" /\ Tool(c) = "icarus"
        \/ pc'[c] = "load" /\ Tool(c) = "do" /\ script' = [script EXCEPT ![Script(c)] = c]
    BY <1>5 DEF StartPlain, Goto, Remote
  <2>2. Tool(c) = "do" => Script(c) \in Scripts
    BY CallTypes DEF Scripted
  <2> QED
    BY <2>1, <2>2 DEF LocalOf, Family
<1>6. CASE Compile(c)
  <2> DEFINE f == Family(c)  part == IF lib[f] = None THEN [of |-> src, whole |-> FALSE] ELSE lib[f]
  <2>1. pc[c] = "compile" /\ pc'[c] = "compiled" /\ read'[c] = src
    BY <1>6 DEF Compile, Goto
  <2>2. \/ got'[c] = Errors
        \/ Compiles(f, src) /\ lib'[f] = [of |-> src, whole |-> TRUE]
        \/ got'[c] = Killed /\ lib'[f] = part /\ c \in killed'
    BY <1>6 DEF Compile, Got
  <2>3. CASE got'[c] = Errors
    BY <2>1, <2>3 DEF LocalOf, Compiled, Errors, Nothing
  <2>4. CASE Compiles(f, src) /\ lib'[f] = [of |-> src, whole |-> TRUE]
    <3>1. lib'[f] \in Designs
      BY <2>4 DEF Designs
    <3>2. lib'[f] # None
      BY ONLY <3>1, <1>3
    <3>3. lib'[f].of = src
      BY ONLY <2>4
    <3> QED
      BY <2>1, <2>4, <3>2, <3>3 DEF LocalOf
  <2>5. CASE got'[c] = Killed /\ lib'[f] = part /\ c \in killed'
    <3>1. CASE f = "icarus"
      BY <2>1, <2>5, <3>1 DEF LocalOf, Compiled, Killed, Nothing
    <3>2. CASE f = "modelsim"
      <4>1. lib'[f] = [of |-> src, whole |-> FALSE]
        BY <2>1, <2>5, <3>2 DEF LocalOf
      <4>2. lib'[f] \in Designs
        BY <4>1 DEF Designs
      <4>3. lib'[f] # None
        BY ONLY <4>2, <1>3
      <4>4. lib'[f].of = src
        BY ONLY <4>1
      <4> QED
        BY <2>1, <2>5, <4>3, <4>4 DEF LocalOf
    <3> QED
      BY <3>1, <3>2 DEF Families
  <2> QED
    BY <2>2, <2>3, <2>4, <2>5
<1>7. CASE JudgeCompile(c)
  <2>1. pc[c] = "compiled" /\ UNCHANGED <<lib, read>>
    BY <1>7 DEF JudgeCompile, work
  <2>2. CASE Compiled(c) /\ Tool(c) # "compile"
    <3>1. pc'[c] = "load" /\ (Tool(c) = "sim" => script' = [script EXCEPT ![Script(c)] = c])
      BY <1>7, <2>2 DEF JudgeCompile, Goto
    <3>2. Tool(c) # "icarus" => Tool(c) = "sim" /\ Script(c) \in Scripts
      BY <2>1, <2>2, CallTypes DEF StageOf, Scripted
    <3> QED
      BY <2>1, <2>2, <3>1, <3>2 DEF LocalOf
  <2>3. CASE ~(Compiled(c) /\ Tool(c) # "compile")
    BY <1>7, <2>3, <1>2 DEF JudgeCompile, Reply, Goto
  <2> QED
    BY <2>2, <2>3
<1>8. CASE Load(c)
  <2> DEFINE f == Family(c)  d == IF f = "icarus" THEN c ELSE script[Script(c)]
  <2>1. pc[c] = "load" /\ d = c /\ UNCHANGED read
    BY <1>8 DEF Load, LocalOf, Family
  <2>2. CASE got' = [got EXCEPT ![c] = Errors] /\ pc'[c] = "judge"
    <3>1. ~Verdict(c)'
      BY <2>2 DEF Verdict, Errors, Nothing
    <3> QED
      BY <2>2, <3>1 DEF LocalOf
  <2>3. CASE /\ lib[f] # None /\ Compiles(f, lib[f].of) /\ pc'[c] = "run"
             /\ loaded' = [loaded EXCEPT ![c] = lib[f].of] /\ ran' = [ran EXCEPT ![c] = d]
             /\ wave' = IF call[d].vcd = "no" THEN wave
                        ELSE [wave EXCEPT ![WaveFile(d)] = [by |-> c, of |-> lib[f].of, whole |-> FALSE]]
    <3>1. [by |-> c, of |-> lib[f].of, whole |-> FALSE] \in Dumps
      BY <2>3, FileTypes DEF Dumps, Designs
    <3>2. [by |-> c, of |-> lib[f].of, whole |-> FALSE] # None
      BY <3>1, <1>3
    <3>3. WaveFile(c) \in WaveFiles
      BY WaveTypes
    <3>4. call[c].vcd # "no" => OwnDump(c)'
      BY <2>1, <2>3, <3>2, <3>3 DEF OwnDump
    <3> QED
      BY <2>1, <2>3, <3>4 DEF LocalOf, OwnRun
  <2> QED
    BY <1>8, <2>2, <2>3 DEF Load, Goto, Got
<1>9. CASE Run(c)
  <2>1. pc[c] = "run" /\ pc'[c] = "judge" /\ UNCHANGED <<read, loaded, ran>>
    BY <1>9 DEF Run, Goto
  <2>2. PICK t \in {Killed} \union Outcomes(Family(c), loaded[c]) :
          /\ got'[c] = t
          /\ wave' = [f \in DOMAIN wave |-> IF wave[f] # None /\ wave[f].by = c /\ ~t.killed
                                            THEN [wave[f] EXCEPT !.whole = TRUE] ELSE wave[f]]
    BY <1>9 DEF Run, Got
  <2>3. CASE ~Verdict(c)'
    BY <2>1, <2>3 DEF LocalOf
  <2>4. CASE Verdict(c)'
    <3>0. WaveFile(c) \in WaveFiles /\ loaded[c] \in Versions /\ Compiles(Family(c), loaded[c])
      BY <2>1, WaveTypes DEF StageOf, TypeOK, LocalOf
    <3>1. ~t.killed /\ Passes(c, loaded[c])
      <4>1. Verdict(c)' = TranscriptPasses(c, t)
        BY <2>2 DEF Verdict, TranscriptPasses
      <4> QED
        BY <2>2, <2>4, <4>1, <3>0, OutcomesJudged
    <3>2. Passes(c, loaded[c])'
      BY <2>1, <3>1 DEF Passes
    <3>3. call[c].vcd # "no" => OwnDump(c)' /\ wave'[WaveFile(c)].whole
      <4>1. ASSUME call[c].vcd # "no"
            PROVE  wave[WaveFile(c)] # None /\ wave[WaveFile(c)].by = c /\ wave[WaveFile(c)].of = loaded[c]
        BY <2>1, <4>1 DEF LocalOf, OwnDump
      <4>2. ASSUME call[c].vcd # "no"
            PROVE  wave'[WaveFile(c)] # None /\ wave'[WaveFile(c)] = [wave[WaveFile(c)] EXCEPT !.whole = TRUE]
        <5>1. wave'[WaveFile(c)] = [wave[WaveFile(c)] EXCEPT !.whole = TRUE]
          BY <2>2, <3>0, <3>1, <4>1, <4>2
        <5>2. wave[WaveFile(c)] \in Dumps
          BY <3>0, <4>1, <4>2, FileTypes
        <5>3. [wave[WaveFile(c)] EXCEPT !.whole = TRUE] \in Dumps
          BY <5>2 DEF Dumps
        <5> QED
          BY ONLY <5>1, <5>3, <1>3
      <4>3. ASSUME call[c].vcd # "no"
            PROVE  wave'[WaveFile(c)].by = c /\ wave'[WaveFile(c)].of = loaded[c] /\ wave'[WaveFile(c)].whole
        <5>1. wave[WaveFile(c)] \in Dumps
          BY <3>0, <4>1, <4>3, FileTypes
        <5> QED
          BY <4>1, <4>2, <4>3, <5>1 DEF Dumps
      <4> QED
        BY <2>1, <4>2, <4>3 DEF OwnDump
    <3>4. OwnRun(c)'
      BY <2>1 DEF LocalOf, OwnRun
    <3> QED
      BY <2>1, <3>2, <3>3, <3>4 DEF LocalOf
  <2> QED
    BY <2>2, <2>3, <2>4
<1>10. CASE Refuse(c)
  BY <1>10, <1>2 DEF Refuse, Reply, Goto
<1>11. CASE Assert(c)
  BY <1>11, <1>2 DEF Assert, Reply, Goto
<1>12. CASE DrawWave(c)
  BY <1>12, <1>2 DEF DrawWave, Reply, Goto
<1>13. CASE View(c)
  BY <1>13, <1>2 DEF View, Reply, Goto
<1>14. CASE Exe(c)
  BY <1>14, <1>2 DEF Exe, Reply, Goto
<1>15. CASE Judge(c)
  BY <1>15, <1>2, SettleDone DEF Judge
<1>16. pc[c] \notin {"stage", "put", "exec", "ended", "pull"}
  BY DEF StageOf
<1> QED
  BY <1>4, <1>5, <1>6, <1>7, <1>8, <1>9, <1>10, <1>11, <1>12, <1>13, <1>14, <1>15, <1>16 DEF Step, Stage, PutScript, Exec, EndRemote, Pull

LEMMA OwnRemote ==
  ASSUME TypeOK, StageInv, NEW c \in Made, Step(c), Remote(c), c \notin crowded, RemoteOf(c)
  PROVE  RemoteOf(c)'
<1>0. OthersStay(c) /\ c \in Calls /\ StageOf(c) /\ Family(c) \in Families /\ src \in Versions /\ None \notin Calls
  BY StepFrame, CallTypes, SimulationAssumption DEF StageInv, TypeOK
<1>1. /\ Tool(c)' = Tool(c) /\ Family(c)' = Family(c) /\ Script(c)' = Script(c) /\ Scripted(c)' = Scripted(c)
      /\ Tool(c) \in {"sim", "compile", "do"} /\ Family(c) = "modelsim" /\ call'[c] = call[c]
  BY <1>0, CallTypes DEF OthersStay, Tool, Remote, Family, Script, Scripted
<1>2. pc'[c] \in {"done", "stage"} => RemoteOf(c)'
  BY DEF RemoteOf
<1> USE <1>0, <1>1, Domains
<1>3. CASE Start(c)
  BY <1>3, <1>2 DEF Start, Reply, Goto
<1>4. CASE StartPlain(c)
  BY <1>4, <1>2 DEF StartPlain, Goto
<1>5. CASE Stage(c)
  <2>1. pc'[c] = "done" \/ (pc'[c] = "put" /\ (Scripted(c) => script'[Script(c)] = c))
    BY <1>5, CallTypes DEF Stage, Reply, Goto, Scripted
  <2> QED
    BY <2>1, <1>2 DEF RemoteOf
<1>6. CASE PutScript(c)
  <2>1. pc[c] = "put" /\ pc'[c] = "exec" /\ (Scripted(c) => ran'[c] = script[Script(c)])
    BY <1>6 DEF PutScript, Goto, Scripted
  <2> QED
    BY <2>1 DEF RemoteOf
<1>7. CASE Exec(c)
  <2>1. pc[c] = "exec" /\ pc'[c] = "ended" /\ UNCHANGED <<ran, read>>
    BY <1>7 DEF Exec, Goto
  <2>2. read[c] \in Versions
    BY <2>1 DEF StageOf, TypeOK
  <2>3. CASE got'[c] = Killed \/ c \in cut'
    <3>1. got'[c] = Killed => ~Verdict(c)'
      BY DEF Verdict, Killed, Nothing
    <3> QED
      BY <2>1, <2>3, <3>1 DEF RemoteOf
  <2>4. CASE got'[c] = Errors
    <3>1. ~Verdict(c)'
      BY <2>4 DEF Verdict, Errors, Nothing
    <3> QED
      BY <2>1, <3>1 DEF RemoteOf
  <2>5. CASE /\ Compiles("modelsim", read[c])
             /\ loaded' = IF Tool(c) # "compile" THEN [loaded EXCEPT ![c] = read[c]] ELSE loaded
             /\ got'[c] \in IF Tool(c) # "compile" THEN Outcomes("modelsim", read[c]) ELSE {Clean}
    <3>1. Verdict(c)' = TranscriptPasses(c, got'[c])
      BY DEF Verdict, TranscriptPasses
    <3>2. Tool(c) # "compile" /\ Verdict(c)' => Passes(c, read[c])
      BY <2>2, <2>5, <3>1, OutcomesJudged
    <3>3. Passes(c, read[c])' = Passes(c, read[c])
      BY <2>1 DEF Passes
    <3> QED
      BY <2>1, <2>2, <2>5, <3>2, <3>3 DEF RemoteOf, Scripted, Compiles
  <2>6. \/ got'[c] = Errors \/ got'[c] = Killed \/ c \in cut'
        \/ /\ Compiles("modelsim", read[c])
           /\ loaded' = IF Tool(c) # "compile" THEN [loaded EXCEPT ![c] = read[c]] ELSE loaded
           /\ got'[c] \in IF Tool(c) # "compile" THEN Outcomes("modelsim", read[c]) ELSE {Clean}
    BY <1>7 DEF Exec, Got
  <2> QED
    BY <2>3, <2>4, <2>5, <2>6
<1>8. CASE EndRemote(c)
  <2>1. pc'[c] = "done" \/ (pc[c] = "ended" /\ pc'[c] = "pull" /\ UNCHANGED <<got, read, loaded, ran, cut>>)
    BY <1>8, SettleDone DEF EndRemote, Goto, work, history
  <2>2. got' = got => Verdict(c)' = Verdict(c)
    BY DEF Verdict
  <2>3. loaded' = loaded => Passes(c, loaded[c])' = Passes(c, loaded[c])
    BY DEF Passes
  <2> QED
    BY <2>1, <2>2, <2>3, <1>2 DEF RemoteOf
<1>9. CASE Pull(c)
  BY <1>9, <1>2, SettleDone DEF Pull
<1>10. CASE Refuse(c)
  BY <1>10, <1>2 DEF Refuse, Reply, Goto
<1>11. CASE Assert(c)
  BY <1>11, <1>2 DEF Assert, Reply, Goto
<1>12. CASE DrawWave(c)
  BY <1>12, <1>2 DEF DrawWave, Reply, Goto
<1>13. CASE View(c)
  BY <1>13, <1>2 DEF View, Reply, Goto
<1>14. CASE Exe(c)
  BY <1>14, <1>2 DEF Exe, Reply, Goto
<1>15. pc[c] \notin {"compile", "compiled", "load", "run", "judge"}
  BY DEF StageOf
<1> QED
  BY <1>3, <1>4, <1>5, <1>6, <1>7, <1>8, <1>9, <1>10, <1>11, <1>12, <1>13, <1>14, <1>15 DEF Step, Compile, JudgeCompile, Load, Run, Judge

LEMMA NextLocalInv ==
  TypeOK /\ StageInv /\ DumpInv /\ AloneInv' /\ LocalInv /\ RemoteInv /\ [Next]_vars => LocalInv' /\ RemoteInv'
<1> SUFFICES ASSUME TypeOK, StageInv, DumpInv, AloneInv', LocalInv, RemoteInv, [Next]_vars
             PROVE  LocalInv' /\ RemoteInv'
  OBVIOUS
<1>1. ASSUME NEW c \in Made, Step(c) PROVE LocalInv' /\ RemoteInv'
  <2>0. Stays /\ Made' = Made /\ \A d \in Made : Remote(d)' = Remote(d)
    BY NextStays DEF Stays, Made, Remote
  <2>1. ASSUME NEW d \in Made, d \notin crowded'
        PROVE  (~Remote(d) => LocalOf(d)') /\ (Remote(d) => RemoteOf(d)')
    <3>1. /\ d \notin crowded /\ (~Remote(d) => LocalOf(d)) /\ (Remote(d) => RemoteOf(d))
      BY <2>0, <2>1 DEF Stays, LocalInv, RemoteInv
    <3>2. CASE d = c
      BY <1>1, <3>1, <3>2, OwnLocal, OwnRemote
    <3>3. CASE d # c
      BY <1>1, <2>1, <3>1, <3>3, OthersLocal
    <3> QED
      BY <3>2, <3>3
  <2> QED
    BY <2>0, <2>1 DEF LocalInv, RemoteInv
<1>2. CASE Edit \/ UNCHANGED vars
  <2>1. /\ Made' = Made
        /\ \A d \in Made : /\ Remote(d)' = Remote(d) /\ (d \notin crowded' => d \notin crowded)
                           /\ LocalOf(d)' = LocalOf(d) /\ RemoteOf(d)' = RemoteOf(d)
    <3>1. UNCHANGED <<call, pc, lib, wave, script, got, read, loaded, ran, killed, cut, crowded>>
      BY <1>2 DEF Edit, vars, files, work, history
    <3>2. Made' = Made /\ \A d \in Made : Remote(d)' = Remote(d)
      BY <3>1 DEF Made, Remote
    <3>3. ASSUME NEW d \in Made PROVE LocalOf(d)' = LocalOf(d) /\ RemoteOf(d)' = RemoteOf(d)
      BY <3>1 DEF Tool, Family, WaveFile, Remote, Script, Scripted, LocalOf, RemoteOf, OwnRun, OwnDump, Compiled, Verdict, Passes
    <3> QED
      BY <3>1, <3>2, <3>3
  <2> QED
    BY <2>1 DEF LocalInv, RemoteInv
<1> QED
  BY <1>1, <1>2 DEF Next, Rest

\* One call's part of HashInv.
HashOf(c) ==
  /\ Busy(c) => key[c] \in DOMAIN store /\ key[c].call = Hashed(call[c])
  /\ Busy(c) /\ read[c] = None /\ c \notin changed => Listed[src] = key[c].listed
  /\ read[c] # None /\ c \notin changed => Listed[read[c]] = key[c].listed

\* Only a call that starts computes a key, and only Compile and Stage read.
LEMMA HashSteps ==
  ASSUME TypeOK, StageInv, NEW c \in Made, Step(c)
  PROVE  \/ ~Busy(c)' /\ read' = read /\ (read[c] # None => key' = key)
         \/ /\ pc[c] = "start" /\ Busy(c)' /\ read' = read /\ read[c] = None
            /\ (Cached(c) => key'[c] = KeyOf(c))
         \/ /\ Busy(c) /\ Busy(c)' /\ key' = key
            /\ (read' = read \/ (read[c] = None /\ read' = [read EXCEPT ![c] = src]))
<1>0. OthersStay(c) /\ StageOf(c) /\ c \in Calls
  BY StepFrame, CallTypes DEF StageInv
<1> USE <1>0, Domains DEF Busy, Goto, Reply, work
<1>1. CASE Refuse(c)
  BY <1>1 DEF Refuse, Begins, StageOf
<1>2. CASE Start(c)
  BY <1>2 DEF Start, Begins, StageOf
<1>3. CASE StartPlain(c)
  BY <1>3 DEF StartPlain, Begins, StageOf, Cached
<1>4. CASE Assert(c)
  BY <1>4 DEF Assert, Begins, StageOf
<1>5. CASE DrawWave(c)
  BY <1>5 DEF DrawWave, Begins, StageOf
<1>6. CASE View(c)
  BY <1>6 DEF View, Begins, StageOf
<1>7. CASE Exe(c)
  BY <1>7 DEF Exe, Begins, StageOf
<1>8. CASE Compile(c)
  BY <1>8 DEF Compile, StageOf
<1>9. CASE JudgeCompile(c)
  BY <1>9 DEF JudgeCompile
<1>10. CASE Load(c)
  BY <1>10 DEF Load
<1>11. CASE Run(c)
  BY <1>11 DEF Run
<1>12. CASE Judge(c)
  BY <1>12, SettleDone DEF Judge
<1>13. CASE Stage(c)
  BY <1>13 DEF Stage, StageOf
<1>14. CASE PutScript(c)
  BY <1>14 DEF PutScript
<1>15. CASE Exec(c)
  BY <1>15 DEF Exec
<1>16. CASE EndRemote(c)
  BY <1>16, SettleDone DEF EndRemote
<1>17. CASE Pull(c)
  BY <1>17, SettleDone DEF Pull
<1> QED
  BY <1>1, <1>2, <1>3, <1>4, <1>5, <1>6, <1>7, <1>8, <1>9, <1>10, <1>11, <1>12, <1>13, <1>14, <1>15, <1>16, <1>17 DEF Step

LEMMA NextHashInv == TypeOK /\ StageInv /\ HashInv /\ [Next]_vars => HashInv'
<1> SUFFICES ASSUME TypeOK, StageInv, HashInv, [Next]_vars
             PROVE  HashInv'
  OBVIOUS
<1>0. \A c \in Made : Cached(c) => HashOf(c)
  BY DEF HashInv, HashOf
<1>1. ASSUME NEW c \in Made, Step(c) PROVE HashInv'
  <2>0. OthersStay(c) /\ Stays /\ Made' = Made /\ c \in Calls /\ Made \subseteq Calls
    BY <1>1, StepFrame, NextStays, CallTypes DEF Made, OthersStay
  <2>1. \A d \in Made : Cached(d)' = Cached(d) /\ (d \notin changed' => d \notin changed)
    BY <2>0 DEF Stays, Cached, Tool
  <2>2. ASSUME NEW d \in Made, Cached(d) PROVE HashOf(d)'
    <3>1. HashOf(d)
      BY <1>0, <2>2
    <3>2. CASE d # c
      BY <2>0, <2>1, <3>1, <3>2 DEF OthersStay, HashOf, Busy
    <3>3. CASE d = c
      <4> USE <2>0, <2>1, <2>2, <3>1, <3>3, Domains DEF OthersStay
      <4>1. CASE ~Busy(c)' /\ read' = read /\ (read[c] # None => key' = key)
        BY <4>1 DEF HashOf
      <4>2. CASE pc[c] = "start" /\ Busy(c)' /\ read' = read /\ read[c] = None /\ (Cached(c) => key'[c] = KeyOf(c))
        <5>1. key'[c] \in DOMAIN store
          BY <4>2, KeyTypes
        <5>2. key'[c].call = Hashed(call[c]) /\ key'[c].listed = Listed[src]
          BY <4>2 DEF KeyOf
        <5> QED
          BY <4>2, <5>1, <5>2 DEF HashOf
      <4>3. CASE /\ Busy(c) /\ Busy(c)' /\ key' = key
                 /\ (read' = read \/ (read[c] = None /\ read' = [read EXCEPT ![c] = src]))
        BY <4>3 DEF HashOf
      <4> QED
        BY <1>1, <4>1, <4>2, <4>3, HashSteps
    <3> QED
      BY <3>2, <3>3
  <2> QED
    BY <2>0, <2>1, <2>2 DEF HashInv, HashOf
<1>2. CASE Edit
  <2>1. /\ UNCHANGED <<call, pc, key, read, store>>
        /\ changed' = changed \union {c \in Made : pc[c] \notin {"start", "done"} /\ read[c] = None}
    BY <1>2 DEF Edit, files, work
  <2> QED
    BY <2>1 DEF HashInv, Made, Cached, Busy, Tool
<1>3. CASE UNCHANGED vars
  BY <1>3 DEF HashInv, Made, Cached, Busy, Tool, vars, files, work, history
<1> QED
  BY <1>1, <1>2, <1>3 DEF Next, Rest

\* What a step puts into the store: the call itself, when it passes.
LEMMA StoreSteps ==
  ASSUME TypeOK, StageInv, HashInv, NEW c \in Made, Step(c), NEW k \in DOMAIN store, store'[k] # store[k]
  PROVE  /\ Cached(c) /\ FreshOk(c)' /\ key'[c] = k /\ k.call = Hashed(call[c]) /\ read'[c] # None /\ store'[k] = c
<1>0. OthersStay(c) /\ StageOf(c) /\ c \in Calls /\ DOMAIN ans = Calls /\ None \notin Answers /\ None \notin Calls
  BY StepFrame, CallTypes, Domains, SimulationAssumption DEF StageInv
<1>1. ASSUME NEW ok \in BOOLEAN, NEW file \in Views \union {None}, NEW v \in BOOLEAN \union {None}, Busy(c), read[c] # None,
             Reply(c, Fresh(c, ok, file, v)), Keep(c, ok), UNCHANGED <<key, read>>
      PROVE  Cached(c) /\ FreshOk(c)' /\ key'[c] = k /\ k.call = Hashed(call[c]) /\ read'[c] # None /\ store'[k] = c
  <2>1. Cached(c) /\ ok /\ key[c] = k /\ store'[k] = c
    BY <1>1 DEF Keep, Cached
  <2>2. Fresh(c, ok, file, v) \in Answers
    BY FreshShape
  <2>3. ans'[c] = Fresh(c, ok, file, v)
    BY <1>0, <1>1 DEF Reply
  <2>4. FreshOk(c)'
    <3>1. ans'[c] # None
      BY <2>2, <2>3, <1>0
    <3>2. ans'[c].by = c
      BY <2>3 DEF Fresh
    <3>3. ans'[c].ok = ok
      BY <2>3 DEF Fresh
    <3>4. ans'[c].ok
      BY ONLY <3>3, <2>1, Zenon
    <3> QED
      BY <3>1, <3>2, <3>4 DEF FreshOk, Answered
  <2> QED
    BY <2>1, <2>4, <1>1 DEF HashInv
<1>2. CASE JudgeCompile(c)
  <2>1. /\ Reply(c, Fresh(c, Compiled(c), None, None)) /\ Keep(c, Compiled(c)) /\ UNCHANGED <<key, read>>
        /\ Busy(c) /\ read[c] # None
    BY <1>2, <1>0 DEF JudgeCompile, work, StageOf, Busy
  <2>2. Compiled(c) \in BOOLEAN
    BY DEF Compiled
  <2> QED
    BY <1>1, <2>1, <2>2
<1>3. ASSUME NEW file \in Dumps \union {None}, Settle(c, file), Busy(c), read[c] # None \/ Tool(c) \in {"do", "icarus"}, UNCHANGED <<key, read>>
      PROVE  Cached(c) /\ FreshOk(c)' /\ key'[c] = k /\ k.call = Hashed(call[c]) /\ read'[c] # None /\ store'[k] = c
  <2>1. PICK v \in BOOLEAN \union {None} : \E ok \in BOOLEAN :
           /\ Reply(c, Fresh(c, ok, Named(c, file), v)) /\ Keep(c, ok) /\ Named(c, file) \in Views \union {None}
    BY <1>3, SettleEffect
  <2>2. PICK ok \in BOOLEAN :
           /\ Reply(c, Fresh(c, ok, Named(c, file), v)) /\ Keep(c, ok) /\ Named(c, file) \in Views \union {None}
    BY <2>1
  <2>3. read[c] # None
    BY <2>2, <1>3 DEF Keep
  <2> QED
    BY <1>1, <1>3, <2>2, <2>3
<1>4. CASE Judge(c)
  <2>1. Settle(c, wave[WaveFile(c)]) /\ UNCHANGED <<key, read>> /\ pc[c] = "judge"
    BY <1>4 DEF Judge, work
  <2>2. wave[WaveFile(c)] \in Dumps \union {None}
    BY WaveTypes, FileTypes
  <2> QED
    BY <1>0, <1>3, <2>1, <2>2 DEF Busy, StageOf
<1>5. CASE EndRemote(c)
  <2>1. Settle(c, None) /\ UNCHANGED <<key, read>> /\ pc[c] = "ended"
    BY <1>5 DEF EndRemote, work
  <2> QED
    BY <1>0, <1>3, <2>1 DEF Busy, StageOf
<1>6. CASE Pull(c)
  <2> DEFINE file == [by |-> c, of |-> loaded[c], whole |-> c \notin cut /\ ~got[c].killed]
  <2>1. UNCHANGED <<key, read>> /\ pc[c] = "pull"
    BY <1>6 DEF Pull, work
  <2>2. CASE loaded[c] # None /\ Settle(c, file)
    <3>1. file \in Dumps
      BY <1>0, <2>2 DEF Dumps, TypeOK
    <3> HIDE DEF file
    <3> QED
      BY <1>0, <1>3, <2>1, <2>2, <3>1 DEF Busy, StageOf
  <2>3. CASE Settle(c, None)
    BY <1>0, <1>3, <2>1, <2>3 DEF Busy, StageOf
  <2> QED
    BY <1>6, <2>2, <2>3 DEF Pull
<1> QED
  BY <1>2, <1>4, <1>5, <1>6 DEF Step, Refuse, Start, StartPlain, Assert, DrawWave, View, Exe, Compile, Load, Run, Stage, PutScript, Exec,
                                files

LEMMA NextStoreInv == TypeOK /\ StageInv /\ HashInv /\ StoreInv /\ [Next]_vars => StoreInv'
<1> SUFFICES ASSUME TypeOK, StageInv, HashInv, StoreInv, [Next]_vars
             PROVE  StoreInv'
  OBVIOUS
<1>0. Stays /\ \A d \in Calls : Cached(d)' = Cached(d)
  BY NextStays DEF Stays, Cached, Tool
<1>1. ASSUME NEW k \in DOMAIN store, NEW b \in Calls, store[k] = b
      PROVE  KeptBy(k, b)'
  <2>1. KeptBy(k, b)
    BY <1>1, SimulationAssumption DEF StoreInv
  <2>2. pc[b] = "done"
    BY <2>1 DEF KeptBy, FreshOk, Answered, StageInv, StageOf
  <2> QED
    BY <1>0, <2>1, <2>2 DEF Stays, KeptBy, FreshOk, Answered
<1>2. ASSUME NEW c \in Made, Step(c) PROVE StoreInv'
  <2>0. DOMAIN store' = DOMAIN store /\ call' = call /\ c \in Calls
    BY <1>2, StepFrame, CallTypes DEF OthersStay
  <2>1. ASSUME NEW k \in DOMAIN store, store'[k] # None
        PROVE  KeptBy(k, store[k])' 
    <3>1. CASE store'[k] = store[k]
      <4>1. PICK b \in Calls : store[k] = b
        BY <2>1, <3>1 DEF TypeOK
      <4>2. KeptBy(k, b)'
        BY <1>1, <4>1
      <4> QED
        BY <3>1, <4>1, <4>2 DEF KeptBy, FreshOk, Answered, Cached, Tool
    <3>2. CASE store'[k] # store[k]
      <4>1. Cached(c) /\ FreshOk(c)' /\ key'[c] = k /\ k.call = Hashed(call[c]) /\ read'[c] # None /\ store'[k] = c
        BY <1>2, <3>2, StoreSteps
      <4> QED
        BY <4>1, <2>0, <1>0 DEF KeptBy, FreshOk, Answered, Cached, Tool
    <3> QED
      BY <3>1, <3>2
  <2> QED
    BY <2>0, <2>1 DEF StoreInv
<1>3. CASE Edit \/ UNCHANGED vars
  <2>1. UNCHANGED <<store, call, ans, key, read>>
    BY <1>3 DEF Edit, vars, files, work
  <2> QED
    BY <2>1 DEF StoreInv, KeptBy, FreshOk, Answered, Cached, Tool
<1> QED
  BY <1>2, <1>3 DEF Next, Rest

\* Where a VCD, a picture or a pulled file comes from.
DrawnOf(picture, file) ==
  picture # None => file # None /\ picture.by = file.by /\ picture.of = file.of

LEMMA NamedDrawn ==
  ASSUME NEW c, NEW file \in Dumps \union {None}
  PROVE  /\ Named(c, file) \in Views \union {None}
         /\ DrawnOf(Painted(c, Named(c, file)), file)
<1>1. Named(c, file) \in Views \union {None} /\ (Named(c, file) # None => file # None /\ Named(c, file).by = file.by /\ Named(c, file).of = file.of)
  BY DEF Named, Dumps, Views
<1> QED
  BY <1>1, PaintedShape DEF DrawnOf

LEMMA GivenDrawn ==
  ASSUME TypeOK, NEW c, NEW f \in WaveFiles, wave[f] # None
  PROVE  Given(f) \in Views /\ DrawnOf(Painted(c, Given(f)), wave[f])
<1>1. Given(f) \in Views /\ Given(f).by = wave[f].by /\ Given(f).of = wave[f].of
  BY FileTypes DEF Given, Dumps, Views
<1> QED
  BY <1>1, PaintedShape DEF DrawnOf

LEMMA DumpSteps ==
  ASSUME TypeOK, StageInv, HashInv, NEW c \in Made, Step(c)
  PROVE  /\ \A f \in WaveFiles :
              /\ \/ wave'[f] = wave[f]
                 \/ wave[f] # None /\ wave'[f] = [wave[f] EXCEPT !.whole = TRUE]
                 \/ wave'[f].by = c /\ wave'[f].of = loaded'[c] /\ FamilyOf(f) = Family(c)
              /\ drawn'[f] = drawn[f] \/ DrawnOf(drawn'[f], wave[f])
         /\ \A k \in DOMAIN store :
              \/ mirror'[k] = mirror[k] \/ mirror'[k] = None
              \/ mirror'[k].by = c /\ mirror'[k].of = loaded'[c] /\ k.call = Hashed(call[c])
<1>0. OthersStay(c) /\ StageOf(c) /\ c \in Calls /\ Family(c) \in Families
  BY StepFrame, CallTypes DEF StageInv
<1> USE <1>0, Domains DEF files, work
<1>1. CASE Refuse(c)
  BY <1>1 DEF Refuse
<1>2. CASE Start(c)
  BY <1>2 DEF Start
<1>3. CASE StartPlain(c)
  BY <1>3 DEF StartPlain
<1>4. CASE Assert(c)
  BY <1>4 DEF Assert
<1>5. CASE DrawWave(c)
  <2>1. PICK f \in WaveFiles : wave[f] # None /\ (UNCHANGED drawn \/ drawn' = [drawn EXCEPT ![f] = Painted(c, Given(f))])
    BY <1>5 DEF DrawWave
  <2>2. DrawnOf(Painted(c, Given(f)), wave[f])
    BY <2>1, GivenDrawn
  <2>3. UNCHANGED <<wave, mirror>>
    BY <1>5 DEF DrawWave
  <2>4. \A g \in WaveFiles : drawn'[g] = drawn[g] \/ DrawnOf(drawn'[g], wave[g])
    BY <2>1, <2>2
  <2> QED
    BY <2>3, <2>4
<1>6. CASE View(c)
  BY <1>6 DEF View
<1>7. CASE Exe(c)
  BY <1>7 DEF Exe
<1>8. CASE Compile(c)
  BY <1>8 DEF Compile
<1>9. CASE JudgeCompile(c)
  BY <1>9 DEF JudgeCompile
<1>10. CASE Load(c)
  <2> DEFINE d == IF Family(c) = "icarus" THEN c ELSE script[Script(c)]
             w == [by |-> c, of |-> lib[Family(c)].of, whole |-> FALSE]
  <2>1. \/ UNCHANGED wave
        \/ wave' = [wave EXCEPT ![WaveFile(d)] = w] /\ loaded'[c] = lib[Family(c)].of
    BY <1>10 DEF Load
  <2>2. FamilyOf(WaveFile(d)) = Family(c)
    BY <1>10, ScriptFamily DEF Load
  <2>3. UNCHANGED <<drawn, mirror>> /\ w.by = c /\ w.of = lib[Family(c)].of
    BY <1>10 DEF Load
  <2> HIDE DEF d, w
  <2>4. \A f \in WaveFiles : wave'[f] = wave[f] \/ (wave'[f].by = c /\ wave'[f].of = loaded'[c] /\ FamilyOf(f) = Family(c))
    BY <2>1, <2>2, <2>3
  <2> QED
    BY <2>3, <2>4
<1>11. CASE Run(c)
  BY <1>11 DEF Run
<1>12. CASE Judge(c)
  <2> DEFINE f == WaveFile(c)
  <2>1. UNCHANGED <<wave, mirror>> /\ (UNCHANGED drawn \/ drawn' = [drawn EXCEPT ![f] = Painted(c, Named(c, wave[f]))])
    BY <1>12 DEF Judge
  <2>2. DrawnOf(Painted(c, Named(c, wave[f])), wave[f])
    BY NamedDrawn, WaveTypes, FileTypes
  <2>3. \A g \in WaveFiles : drawn'[g] = drawn[g] \/ DrawnOf(drawn'[g], wave[g])
    BY <2>1, <2>2
  <2> QED
    BY <2>1, <2>3
<1>13. CASE Stage(c)
  BY <1>13 DEF Stage
<1>14. CASE PutScript(c)
  BY <1>14 DEF PutScript
<1>15. CASE Exec(c)
  BY <1>15 DEF Exec
<1>16. CASE EndRemote(c)
  BY <1>16 DEF EndRemote
<1>17. CASE Pull(c)
  <2>1. key[c].call = Hashed(call[c])
    BY <1>17 DEF Pull, HashInv, StageOf, Busy, Cached
  <2>2. UNCHANGED <<wave, drawn, loaded>>
    BY <1>17 DEF Pull
  <2>3. \/ mirror' = [mirror EXCEPT ![key[c]] = [by |-> c, of |-> loaded[c], whole |-> c \notin cut /\ ~got[c].killed]]
        \/ UNCHANGED mirror
    BY <1>17 DEF Pull
  <2>4. ASSUME NEW k \in DOMAIN store
        PROVE  \/ mirror'[k] = mirror[k]
               \/ mirror'[k].by = c /\ mirror'[k].of = loaded'[c] /\ k.call = Hashed(call[c])
    BY <2>1, <2>2, <2>3
  <2> QED
    BY <2>2, <2>4
<1> QED
  BY <1>1, <1>2, <1>3, <1>4, <1>5, <1>6, <1>7, <1>8, <1>9, <1>10, <1>11, <1>12, <1>13, <1>14, <1>15, <1>16, <1>17 DEF Step

LEMMA NextDumpInv == TypeOK /\ StageInv /\ HashInv /\ DumpInv /\ [Next]_vars => DumpInv'
<1> SUFFICES ASSUME TypeOK, StageInv, HashInv, DumpInv, [Next]_vars
             PROVE  DumpInv'
  OBVIOUS
<1>0. Stays /\ None \notin Versions /\ None \notin Dumps
  BY NextStays, SimulationAssumption
<1>1. ASSUME NEW w \in Dumps, w.by \in Made, loaded[w.by] = w.of
      PROVE  loaded'[w.by] = w.of
  BY <1>0, <1>1, CallTypes DEF Stays, Dumps
<1>2. ASSUME NEW c \in Made, Step(c) PROVE DumpInv'
  <2>0. /\ OthersStay(c) /\ c \in Calls /\ Made' = Made
        /\ \A d \in Made : Family(d)' = Family(d)
    BY <1>2, StepFrame, CallTypes DEF OthersStay, Made, Family, Tool
  <2>1. ASSUME NEW f \in WaveFiles, wave'[f] # None
        PROVE  wave'[f].by \in Made /\ loaded'[wave'[f].by] = wave'[f].of /\ FamilyOf(f) = Family(wave'[f].by)
    <3>1. CASE wave'[f] = wave[f]
      BY <1>1, <2>1, <3>1, FileTypes DEF DumpInv
    <3>2. CASE wave[f] # None /\ wave'[f] = [wave[f] EXCEPT !.whole = TRUE]
      <4>1. wave[f] \in Dumps
        BY <3>2, FileTypes
      <4>2. wave'[f].by = wave[f].by /\ wave'[f].of = wave[f].of
        BY <3>2, <4>1 DEF Dumps
      <4> QED
        BY <1>1, <3>2, <4>1, <4>2 DEF DumpInv
    <3>3. CASE wave'[f].by = c /\ wave'[f].of = loaded'[c] /\ FamilyOf(f) = Family(c)
      BY <3>3
    <3> QED
      BY <1>2, <3>1, <3>2, <3>3, DumpSteps
  <2>2. ASSUME NEW f \in WaveFiles, drawn'[f] # None
        PROVE  drawn'[f].by \in Made /\ loaded'[drawn'[f].by] = drawn'[f].of
    <3>1. CASE drawn'[f] = drawn[f]
      <4>1. drawn[f] \in Pictures /\ drawn[f].by \in Made /\ loaded[drawn[f].by] = drawn[f].of
        BY <2>2, <3>1, FileTypes DEF DumpInv
      <4>2. drawn[f].of \in Versions /\ drawn[f].by \in Calls
        BY <4>1 DEF Pictures
      <4> QED
        BY <1>0, <3>1, <4>1, <4>2 DEF Stays
    <3>2. CASE DrawnOf(drawn'[f], wave[f])
      BY <1>1, <2>2, <3>2, FileTypes DEF DumpInv, DrawnOf
    <3> QED
      BY <1>2, <3>1, <3>2, DumpSteps
  <2>3. ASSUME NEW k \in DOMAIN store, mirror'[k] # None
        PROVE  mirror'[k].by \in Made /\ loaded'[mirror'[k].by] = mirror'[k].of /\ Hashed(call[mirror'[k].by]) = k.call
    <3>1. CASE mirror'[k] = mirror[k]
      BY <1>1, <2>3, <3>1, FileTypes DEF DumpInv
    <3>2. CASE mirror'[k].by = c /\ mirror'[k].of = loaded'[c] /\ k.call = Hashed(call[c])
      BY <3>2
    <3> QED
      BY <1>2, <2>3, <3>1, <3>2, DumpSteps
  <2>4. ASSUME NEW f \in WaveFiles, wave'[f] # None
        PROVE  Family(wave[f].by)' = FamilyOf(f)
    <3>1. PICK q \in Made : q = wave'[f].by /\ FamilyOf(f) = Family(q)
      BY <2>1, <2>4
    <3> QED
      BY <3>1, <2>0 DEF Family, Tool, OthersStay
  <2> QED
    BY <2>0, <2>1, <2>2, <2>3, <2>4 DEF DumpInv, OthersStay
<1>3. CASE Edit \/ UNCHANGED vars
  <2>1. UNCHANGED <<wave, drawn, mirror, store, loaded, call>>
    BY <1>3 DEF Edit, vars, files, work
  <2> QED
    BY <2>1 DEF DumpInv, Made, Family, Tool
<1> QED
  BY <1>2, <1>3 DEF Next, Rest

\* One call's part of PassedRunIsOwn.
PassedOwn(c) ==
  /\ Tool(c) \in {"sim", "icarus", "do"} =>
       /\ Passes(c, loaded[c])
       /\ OwnRun(c)
       /\ call[c].vcd # "no" => ans[c].wave # None /\ ans[c].wave.by = c
                         /\ ans[c].wave.of = loaded[c] /\ ans[c].wave.whole
  /\ Tool(c) = "compile" => Result[read[c]] # "broken" \/ c \in killed

LEMMA PassedParts ==
  PassedRunIsOwn <=> \A c \in Calls : FreshOk(c) /\ c \notin crowded \union cut => PassedOwn(c)
BY DEF PassedRunIsOwn, PassedOwn, OwnRun

\* What is judged ok had a good verdict, and names the file that was judged.
LEMMA SettleOk ==
  ASSUME TypeOK, NEW c \in Made, NEW file \in Dumps \union {None}, Settle(c, file), FreshOk(c)'
  PROVE  /\ Verdict(c)
         /\ file # None /\ call[c].vcd # "no" =>
              /\ ans'[c].wave # None /\ ans'[c].wave.by = file.by /\ ans'[c].wave.of = file.of
              /\ ans'[c].wave.whole = file.whole
<1>1. PICK v \in BOOLEAN \union {None} : \E ok \in BOOLEAN :
         /\ ok => Verdict(c)
         /\ Reply(c, Fresh(c, ok, Named(c, file), v))
         /\ Named(c, file) \in Views \union {None}
  BY SettleEffect
<1>2. PICK ok \in BOOLEAN :
         /\ ok => Verdict(c)
         /\ Reply(c, Fresh(c, ok, Named(c, file), v))
         /\ Named(c, file) \in Views \union {None}
  BY <1>1
<1>3. ans'[c] = Fresh(c, ok, Named(c, file), v)
  BY <1>2, Domains, CallTypes DEF Reply
<1>4. ans'[c].ok
  BY DEF FreshOk
<1>5. ans'[c].ok = ok /\ ans'[c].wave = Named(c, file)
  BY ONLY <1>3 DEF Fresh
<1>6. Verdict(c)
  BY <1>2, <1>4, <1>5, Zenon
<1>7. ASSUME file # None, call[c].vcd # "no"
      PROVE  /\ ans'[c].wave # None /\ ans'[c].wave.by = file.by /\ ans'[c].wave.of = file.of
             /\ ans'[c].wave.whole = file.whole
  <2>1. Named(c, file) = [by |-> file.by, of |-> file.of, whole |-> file.whole, blasted |-> Family(c) = "modelsim"]
    BY <1>7 DEF Named
  <2>2. Named(c, file) \in Views
    BY <1>7, <2>1 DEF Views, Dumps
  <2>3. Named(c, file) # None
    BY ONLY <2>2, SimulationAssumption
  <2> QED
    BY <1>5, <2>1, <2>3
<1> QED
  BY <1>6, <1>7

\* The files that a summary names.
LEMMA KeptFiles ==
  ASSUME TypeOK, NEW k \in DOMAIN store, store[k] \in Made
  PROVE  Dump(k) \in Dumps \union {None} /\ Picture(k) \in Pictures \union {None}
<1>1. mirror[k] \in Dumps \union {None} /\ wave[WaveFile(store[k])] \in Dumps \union {None}
      /\ drawn[WaveFile(store[k])] \in Pictures \union {None}
  BY FileTypes, WaveTypes
<1>2. Painted(store[k], Named(store[k], mirror[k])) \in Pictures \union {None}
  BY <1>1, NamedDrawn, PaintedShape
<1> QED
  BY <1>1, <1>2 DEF Dump, Picture

\* What a hit answers: the summary that is kept, with the files of now.
LEMMA HitEffect ==
  ASSUME TypeOK, StoreInv, NEW c \in Made, Start(c), Kept(KeyOf(c)),
         NEW k, k = KeyOf(c), NEW b, b = store[k]
  PROVE  /\ k \in DOMAIN store /\ b \in Made /\ KeptBy(k, b) /\ key'[c] = k /\ ans[b] \in Answers
         /\ ans'[c].ok = ans[b].ok /\ ans'[c].by = b
         /\ ans'[c].wave = IF ans[b].wave = None THEN None ELSE Named(c, Dump(k))
         /\ ans'[c].picture = IF ans[b].picture = None THEN None ELSE Picture(k)
         /\ ans'[c] \in Answers
<1>1. k \in DOMAIN store /\ b # None
  BY KeyTypes DEF Kept
<1>2. b \in Made /\ KeptBy(k, b)
  BY <1>1 DEF StoreInv, TypeOK
<1>3. ans[b] \in Answers
  BY <1>2, CallTypes DEF KeptBy, FreshOk, Answered, TypeOK
<1>4. key'[c] = k
  BY CallTypes, Domains DEF Start
<1> DEFINE wv == IF ans[b].wave = None THEN None ELSE Named(c, Dump(k))
           pic == IF ans[b].picture = None THEN None ELSE Picture(k)
<1>5. ans'[c] = [ans[b] EXCEPT !.by = b, !.wave = wv, !.picture = pic]
  <2>1. Reply(c, [ans[b] EXCEPT !.by = b, !.wave = IF @ = None THEN None ELSE Named(c, Dump(k)),
                                !.picture = IF @ = None THEN None ELSE Picture(k)])
    BY DEF Start
  <2>2. ans'[c] = [ans[b] EXCEPT !.by = b, !.wave = IF @ = None THEN None ELSE Named(c, Dump(k)),
                                 !.picture = IF @ = None THEN None ELSE Picture(k)]
    BY <2>1, CallTypes, Domains DEF Reply
  <2>3. [ans[b] EXCEPT !.by = b, !.wave = IF @ = None THEN None ELSE Named(c, Dump(k)),
                       !.picture = IF @ = None THEN None ELSE Picture(k)]
          = [ans[b] EXCEPT !.by = b, !.wave = wv, !.picture = pic]
    BY <1>3 DEF Answers
  <2> QED
    BY <2>2, <2>3
<1>6. /\ wv \in Views \union {None} /\ pic \in Pictures \union {None}
  <2>1. Dump(k) \in Dumps \union {None} /\ Picture(k) \in Pictures \union {None}
    BY <1>1, <1>2, KeptFiles
  <2>2. Named(c, Dump(k)) \in Views \union {None}
    BY <2>1, NamedDrawn
  <2> QED
    BY <2>1, <2>2
<1> HIDE DEF wv, pic
<1>7. ASSUME NEW a \in Answers, NEW x, x = [a EXCEPT !.by = b, !.wave = wv, !.picture = pic]
      PROVE  x.ok = a.ok /\ x.by = b /\ x.wave = wv /\ x.picture = pic /\ x \in Answers
  <2>1. b \in Calls
    BY <1>2, CallTypes
  <2> QED
    BY <1>6, <1>7, <2>1 DEF Answers
<1>8. /\ ans'[c].ok = ans[b].ok /\ ans'[c].by = b /\ ans'[c].wave = wv /\ ans'[c].picture = pic
      /\ ans'[c] \in Answers
  BY ONLY <1>3, <1>5, <1>7
<1> QED
  BY <1>1, <1>2, <1>3, <1>4, <1>8 DEF wv, pic

LEMMA OwnPassed ==
  ASSUME TypeOK, StageInv, StoreInv, LocalInv, RemoteInv, NEW c \in Made, Step(c),
         c \notin crowded', c \notin cut', FreshOk(c)'
  PROVE  PassedOwn(c)'
<1>0. /\ OthersStay(c) /\ StageOf(c) /\ c \in Calls /\ Stays /\ c \notin crowded /\ c \notin cut
      /\ (~Remote(c) => LocalOf(c)) /\ (Remote(c) => RemoteOf(c)) /\ None \notin Versions /\ None \notin Calls
  <2>1. Stays
    BY NextStays DEF Next
  <2> QED
    BY <2>1, StepFrame, CallTypes, SimulationAssumption DEF StageInv, LocalInv, RemoteInv, Stays
<1>1. Tool(c)' = Tool(c) /\ call'[c] = call[c]
  BY <1>0 DEF OthersStay, Tool
<1>2. ans'[c] # ans[c]
  BY <1>0 DEF OthersStay, StageOf, FreshOk, Answered
<1>3. ans'[c].ok /\ ans'[c].by = c
  BY DEF FreshOk
<1>4. ans'[c] # Failed
  BY <1>3 DEF Failed
<1> USE Domains, <1>0
<1>5. CASE Start(c)
  <2> DEFINE k == KeyOf(c)
  <2>0. Kept(k)
    BY <1>2, <1>5 DEF Start
  <2>1. Kept(k) /\ ans'[c].by = store[k]
    BY <2>0, <1>5, HitEffect
  <2>2. store[k] # c
    <3>1. store[k] # None /\ k \in DOMAIN store
      BY <2>1, KeyTypes DEF Kept
    <3>2. Answered(store[k])
      BY <3>1 DEF StoreInv, KeptBy, FreshOk
    <3> QED
      BY <1>5, <3>2 DEF Start, Begins, StageOf, Answered
  <2> QED
    BY <1>3, <2>1, <2>2
<1>6. CASE JudgeCompile(c)
  <2>1. /\ ans'[c] = Fresh(c, Compiled(c), None, None) /\ ~(Compiled(c) /\ Tool(c) # "compile")
        /\ pc[c] = "compiled" /\ UNCHANGED <<read, killed>>
    BY <1>2, <1>6 DEF JudgeCompile, Reply, work, history
  <2>2. ans'[c].ok = Compiled(c)
    BY ONLY <2>1 DEF Fresh
  <2>3. Compiled(c)
    BY <1>3, <2>2, Zenon
  <2>4. Tool(c) = "compile" /\ ~Remote(c)
    BY <2>1, <2>3 DEF StageOf
  <2> QED
    BY <1>1, <2>1, <2>3, <2>4 DEF LocalOf, PassedOwn, Compiles
<1>7. CASE Judge(c)
  <2> DEFINE file == wave[WaveFile(c)]
  <2>1. Settle(c, file) /\ pc[c] = "judge" /\ ~Remote(c) /\ UNCHANGED <<read, loaded, ran>>
    BY <1>7 DEF Judge, work
  <2>2. file \in Dumps \union {None}
    BY WaveTypes, FileTypes
  <2>3. /\ Verdict(c)
        /\ file # None /\ call[c].vcd # "no" =>
              /\ ans'[c].wave # None /\ ans'[c].wave.by = file.by /\ ans'[c].wave.of = file.of
              /\ ans'[c].wave.whole = file.whole
    BY <2>1, <2>2, SettleOk
  <2>4. OwnRun(c) /\ Passes(c, loaded[c]) /\ (call[c].vcd # "no" => OwnDump(c) /\ file.whole) /\ Tool(c) # "compile"
    BY <2>1, <2>3 DEF LocalOf, StageOf
  <2>5. OwnRun(c)'
    BY <1>1, <2>1, <2>4 DEF OwnRun
  <2>6. ASSUME call[c].vcd # "no"
        PROVE  ans'[c].wave # None /\ ans'[c].wave.by = c /\ ans'[c].wave.of = loaded[c] /\ ans'[c].wave.whole
    BY <2>3, <2>4, <2>6 DEF OwnDump
  <2> QED
    BY <1>1, <2>1, <2>4, <2>5, <2>6 DEF PassedOwn, Passes
<1>8. CASE EndRemote(c)
  <2>1. Settle(c, None) /\ pc[c] = "ended" /\ Remote(c) /\ UNCHANGED <<read, loaded, ran>> /\ ~(Tool(c) = "sim" /\ call[c].vcd # "no")
    BY <1>2, <1>8 DEF EndRemote, work, StageOf
  <2>2. Verdict(c)
    BY <2>1, SettleOk
  <2>3. Result[read[c]] # "broken" /\ (Scripted(c) => loaded[c] = read[c] /\ Passes(c, loaded[c]) /\ ran[c] = c)
    BY <2>1, <2>2 DEF RemoteOf, Compiles
  <2>4. Tool(c) \in {"sim", "compile", "do"} /\ call[c].vcd = "no"
    BY <2>1, CallTypes
  <2> QED
    BY <1>1, <2>1, <2>3, <2>4 DEF PassedOwn, OwnRun, Scripted, Passes
<1>9. CASE Pull(c)
  <2> DEFINE there == loaded[c] # None /\ call[ran[c]].vcd # "no"
             file == [by |-> c, of |-> loaded[c], whole |-> c \notin cut /\ ~got[c].killed]
  <2>1. pc[c] = "pull" /\ Remote(c) /\ UNCHANGED <<read, loaded, ran>> /\ Tool(c) = "sim"
    BY <1>9 DEF Pull, work, StageOf
  <2>2. (there /\ Settle(c, file)) \/ (Settle(c, None) /\ (there => c \in cut'))
    BY <1>9 DEF Pull
  <2>3. CASE there /\ Settle(c, file)
    <3>1. file \in Dumps
      BY <2>3 DEF Dumps, TypeOK
    <3>2. file # None
      BY ONLY <3>1, SimulationAssumption
    <3>3. file.by = c /\ file.of = loaded[c] /\ file.whole = (c \notin cut /\ ~got[c].killed)
      OBVIOUS
    <3> HIDE DEF file
    <3>4. /\ Verdict(c)
          /\ call[c].vcd # "no" =>
              /\ ans'[c].wave # None /\ ans'[c].wave.by = file.by /\ ans'[c].wave.of = file.of
              /\ ans'[c].wave.whole = file.whole
      BY <2>3, <3>1, <3>2, SettleOk
    <3>5. Scripted(c) /\ loaded[c] = read[c] /\ Passes(c, loaded[c]) /\ ran[c] = c
      BY <2>1, <3>4 DEF RemoteOf, Scripted
    <3>6. ~got[c].killed
      BY <2>1, <3>4 DEF Verdict, Family
    <3>7. c \notin cut /\ ~got[c].killed
      BY <3>6
    <3>8. file.whole
      BY ONLY <3>3, <3>7, Zenon
    <3>9. call[c].vcd # "no" => ans'[c].wave.whole
      BY ONLY <3>4, <3>8, Zenon
    <3> QED
      BY <1>1, <2>1, <3>3, <3>4, <3>5, <3>9 DEF PassedOwn, OwnRun, Passes
  <2>4. CASE Settle(c, None) /\ ~there
    <3>1. Verdict(c)
      BY <2>4, SettleOk
    <3>2. Scripted(c) /\ loaded[c] = read[c] /\ Passes(c, loaded[c]) /\ ran[c] = c /\ read[c] # None
      BY <2>1, <3>1 DEF RemoteOf, Scripted, StageOf
    <3>3. call[c].vcd = "no"
      BY <2>4, <3>2
    <3> QED
      BY <1>1, <2>1, <3>2, <3>3 DEF PassedOwn, OwnRun, Passes
  <2> QED
    BY <2>2, <2>3, <2>4
<1>10. CASE Refuse(c)
  BY <1>2, <1>4, <1>10 DEF Refuse, Reply
<1>11. CASE Assert(c) \/ DrawWave(c) \/ View(c) \/ Exe(c)
  BY <1>1, <1>11 DEF Assert, DrawWave, View, Exe, PassedOwn
<1>12. CASE StartPlain(c) \/ Compile(c) \/ Load(c) \/ Run(c) \/ PutScript(c) \/ Exec(c)
  BY <1>2, <1>12 DEF StartPlain, Compile, Load, Run, PutScript, Exec
<1>13. CASE Stage(c)
  BY <1>2, <1>4, <1>13 DEF Stage, Reply
<1> QED
  BY <1>5, <1>6, <1>7, <1>8, <1>9, <1>10, <1>11, <1>12, <1>13 DEF Step

LEMMA NextPassed ==
  TypeOK /\ StageInv /\ StoreInv /\ LocalInv /\ RemoteInv /\ PassedRunIsOwn /\ [Next]_vars => PassedRunIsOwn'
<1> SUFFICES ASSUME TypeOK, StageInv, StoreInv, LocalInv, RemoteInv, PassedRunIsOwn, [Next]_vars
             PROVE  PassedRunIsOwn'
  OBVIOUS
<1>1. Stays
  BY NextStays
<1>2. ASSUME NEW d \in Calls, FreshOk(d), d \notin crowded' \union cut', pc[d] = "done"
      PROVE  PassedOwn(d)'
  <2>1. PassedOwn(d)
    BY <1>1, <1>2, PassedParts DEF Stays
  <2> QED
    BY <1>1, <1>2, <2>1 DEF Stays, PassedOwn, OwnRun, Passes, Tool
<1>3. ASSUME NEW d \in Calls, FreshOk(d)', d \notin crowded' \union cut'
      PROVE  PassedOwn(d)'
  <2>1. CASE pc[d] = "done"
    <3>1. FreshOk(d)
      BY <1>1, <1>3, <2>1 DEF Stays, FreshOk, Answered
    <3> QED
      BY <1>2, <1>3, <2>1, <3>1
  <2>2. CASE pc[d] # "done"
    <3>1. ans'[d] # ans[d]
      BY <1>3, <2>2 DEF StageInv, StageOf, FreshOk, Answered
    <3>2. PICK c \in Made : Step(c)
      BY <3>1 DEF Next, Rest, Edit, vars
    <3>3. d = c
      BY <3>1, <3>2, StepFrame DEF OthersStay
    <3> QED
      BY <1>3, <3>2, <3>3, OwnPassed
  <2> QED
    BY <2>1, <2>2
<1>4. PassedRunIsOwn' <=> \A c \in Calls : FreshOk(c)' /\ c \notin crowded' \union cut' => PassedOwn(c)'
  BY DEF PassedRunIsOwn, PassedOwn, OwnRun, Passes
<1> QED
  BY <1>3, <1>4

\* One hit's part of HitRestsOnPass: c has been answered what b answered.
Replaced(c, b, v) == \E q \in Made \ {b} : loaded[q] = v /\ (Remote(c) => Hashed(call[q]) = Hashed(call[c]))
HitOf(c, b) ==
  /\ FreshOk(b) /\ Hashed(call[b]) = Hashed(call[c]) /\ key[b].listed = key[c].listed
  /\ b \notin changed \union crowded \union cut \union killed =>
       /\ Listed[read[b]] = key[c].listed
       /\ Tool(c) = "sim" => Passes(c, read[b])
       /\ \A w \in {ans[c].wave, ans[c].picture} \ {None} : w.of = read[b] \/ Replaced(c, b, w.of)

\* An answer that is ok is the call's own, or a hit.
LEMMA StepAnswer ==
  ASSUME TypeOK, NEW c \in Made, Step(c), ans'[c] # ans[c], ans'[c].ok
  PROVE  ans'[c].by = c \/ (Start(c) /\ Kept(KeyOf(c)))
<1>0. DOMAIN ans = Calls /\ c \in Calls /\ ans'[c] # Failed
  BY Domains, CallTypes DEF Failed
<1>1. ASSUME NEW ok, NEW file, NEW v, Reply(c, Fresh(c, ok, file, v)) PROVE ans'[c].by = c
  BY <1>0, <1>1 DEF Reply, Fresh
<1>2. ASSUME NEW file, Settle(c, file) PROVE ans'[c].by = c
  <2>1. PICK v \in Verdicts(call[c].assert, Named(c, file)) :
          Reply(c, Fresh(c, Verdict(c) /\ v # FALSE, Named(c, file), v))
    BY <1>2 DEF Settle
  <2> QED
    BY <2>1, <1>1
<1>3. CASE Start(c)
  BY <1>3 DEF Start
<1>4. CASE Refuse(c) \/ Stage(c)
  BY <1>0, <1>4 DEF Refuse, Stage, Reply
<1>5. CASE StartPlain(c) \/ Compile(c) \/ Load(c) \/ Run(c) \/ PutScript(c) \/ Exec(c)
  BY <1>5 DEF StartPlain, Compile, Load, Run, PutScript, Exec
<1>6. CASE Assert(c) \/ DrawWave(c) \/ View(c) \/ Exe(c)
  <2>1. Reply(c, Failed) \/ \E ok, file, v : Reply(c, Fresh(c, ok, file, v))
    <3>1. CASE Assert(c)
      BY <3>1 DEF Assert
    <3>2. CASE DrawWave(c)
      BY <3>2 DEF DrawWave
    <3>3. CASE View(c)
      BY <3>3 DEF View
    <3>4. CASE Exe(c)
      BY <3>4 DEF Exe
    <3> QED
      BY <1>6, <3>1, <3>2, <3>3, <3>4
  <2> QED
    BY <1>0, <1>1, <2>1 DEF Reply
<1>7. CASE JudgeCompile(c)
  <2>1. Reply(c, Fresh(c, Compiled(c), None, None))
    BY <1>7 DEF JudgeCompile
  <2> QED
    BY <2>1, <1>1
<1>8. CASE Judge(c) \/ EndRemote(c) \/ Pull(c)
  BY <1>2, <1>8 DEF Judge, EndRemote, Pull
<1> QED
  BY <1>3, <1>4, <1>5, <1>6, <1>7, <1>8 DEF Step

\* A file that a hit names is of what the call it comes from has loaded.
LEMMA HitFiles ==
  ASSUME TypeOK, DumpInv, NEW c \in Made, NEW k \in DOMAIN store, NEW b \in Made, b = store[k], k.call = Hashed(call[c]),
         k.call.remote = Remote(c), NEW w, w # None, w = Named(c, Dump(k)) \/ w = Picture(k)
  PROVE  \E file \in Dumps \union Pictures :
           /\ w.of = file.of /\ file.by \in Made /\ loaded[file.by] = file.of
           /\ Remote(c) => Hashed(call[file.by]) = Hashed(call[c])
<1>1. mirror[k] # None => /\ mirror[k] \in Dumps /\ mirror[k].by \in Made /\ loaded[mirror[k].by] = mirror[k].of
                          /\ Hashed(call[mirror[k].by]) = Hashed(call[c])
  BY FileTypes DEF DumpInv
<1> DEFINE f == WaveFile(b)
<1>2. /\ wave[f] # None => wave[f] \in Dumps /\ wave[f].by \in Made /\ loaded[wave[f].by] = wave[f].of
      /\ drawn[f] # None => drawn[f] \in Pictures /\ drawn[f].by \in Made /\ loaded[drawn[f].by] = drawn[f].of
  BY WaveTypes, FileTypes DEF DumpInv
<1>3. \A file : Named(c, file) # None => file # None /\ Named(c, file).of = file.of
  BY DEF Named
<1>4. CASE Remote(c)
  <2>1. Dump(k) = mirror[k] /\ Picture(k) = Painted(b, Named(b, mirror[k]))
    BY <1>4 DEF Dump, Picture
  <2>2. DrawnOf(Picture(k), mirror[k])
    BY <2>1, FileTypes, NamedDrawn
  <2>3. mirror[k] # None /\ w.of = mirror[k].of
    BY <1>3, <2>1, <2>2 DEF DrawnOf
  <2> QED
    BY <1>1, <2>3
<1>5. CASE ~Remote(c)
  <2>1. Dump(k) = wave[f] /\ Picture(k) = drawn[f]
    BY <1>5 DEF Dump, Picture
  <2>2. CASE w = Named(c, wave[f])
    BY <1>2, <1>3, <1>5, <2>2
  <2>3. CASE w = drawn[f]
    BY <1>2, <1>5, <2>3
  <2> QED
    BY <2>1, <2>2, <2>3
<1> QED
  BY <1>4, <1>5

\* A hit is answered what its base rests on, and the files of now.
LEMMA NewHit ==
  ASSUME TypeOK, StageInv, HashInv, StoreInv, DumpInv, PassedRunIsOwn,
         NEW c \in Made, Start(c), Kept(KeyOf(c)), NEW b, b = store[KeyOf(c)]
  PROVE  ans'[c].by = b /\ HitOf(c, b)'
<1> DEFINE k == KeyOf(c)
<1>1. /\ k \in DOMAIN store /\ b \in Made /\ KeptBy(k, b) /\ key'[c] = k /\ ans[b] \in Answers
      /\ ans'[c].by = b /\ ans'[c] \in Answers
      /\ ans'[c].wave = IF ans[b].wave = None THEN None ELSE Named(c, Dump(k))
      /\ ans'[c].picture = IF ans[b].picture = None THEN None ELSE Picture(k)
  BY HitEffect
<1>2. c \in Calls /\ b \in Calls /\ b # c /\ OthersStay(c) /\ Stays /\ Made' = Made
  <2>1. c \in Calls /\ b \in Calls
    BY <1>1, CallTypes
  <2>2. b # c
    BY <1>1, <2>1 DEF StageInv, StageOf, KeptBy, FreshOk, Answered, Start, Begins
  <2>3. Step(c)
    BY DEF Step
  <2>4. OthersStay(c) /\ Stays
    BY <2>1, <2>3, StepFrame, NextStays DEF Next
  <2> QED
    BY <2>1, <2>2, <2>4 DEF OthersStay, Made
<1>3. k.call = Hashed(call[c]) /\ UNCHANGED <<loaded, read, call>> /\ Tool(c) \in {"sim", "compile"}
  BY DEF KeyOf, Start, work
<1>30. /\ Hashed(call[b]) = Hashed(call[c]) /\ Tool(b) = Tool(c) /\ Remote(b) = Remote(c) /\ k.call.remote = Remote(c)
       /\ \A v : Passes(b, v) = Passes(c, v)
  <2>1. Hashed(call[b]) = Hashed(call[c]) /\ call[b] \in Asks /\ call[c] \in Asks
    BY <1>1, <1>3, CallTypes DEF KeptBy
  <2>2. call[b].tool = call[c].tool /\ call[b].remote = call[c].remote /\ call[b].uvm = call[c].uvm
    BY <2>1, HashedSame
  <2>3. Hashed(call[c]).remote = call[c].remote
    BY <2>1 DEF Hashed, Asks
  <2> QED
    BY <1>3, <2>1, <2>2, <2>3 DEF Tool, Remote, Passes
<1>4. FreshOk(b)' /\ Hashed(call'[b]) = Hashed(call'[c]) /\ key'[b].listed = key'[c].listed
  <2>1. FreshOk(b) /\ key[b] = k /\ ans'[b] = ans[b] /\ key'[b] = key[b]
    BY <1>1, <1>2 DEF KeptBy, OthersStay
  <2> QED
    BY <1>1, <1>3, <1>30, <2>1 DEF FreshOk, Answered
<1>5. ASSUME b \notin (changed \union crowded \union cut \union killed)'
      PROVE  /\ Listed[read[b]] = key'[c].listed
             /\ Tool(c) = "sim" => Passes(c, read[b]) /\ loaded[b] = read[b]
  <2>1. b \notin changed \union crowded \union cut \union killed
    BY <1>2, <1>5 DEF Stays
  <2>2. Listed[read[b]] = key[b].listed /\ key[b] = k
    BY <1>1, <2>1 DEF HashInv, KeptBy
  <2>3. ASSUME Tool(c) = "sim" PROVE Passes(c, loaded[b]) /\ loaded[b] = read[b]
    <3>1. PassedOwn(b)
      BY <1>1, <1>2, <2>1, PassedParts DEF KeptBy
    <3> QED
      BY <2>3, <1>30, <3>1 DEF PassedOwn, OwnRun
  <2> QED
    BY <1>1, <2>2, <2>3
<1>6. ASSUME NEW w \in {ans'[c].wave, ans'[c].picture}, w # None
      PROVE  w.of \in Versions /\ \E q \in Made : loaded[q] = w.of /\ (Remote(c) => Hashed(call[q]) = Hashed(call[c]))
  <2>1. PICK file \in Dumps \union Pictures :
          /\ w.of = file.of /\ file.by \in Made /\ loaded[file.by] = file.of
          /\ Remote(c) => Hashed(call[file.by]) = Hashed(call[c])
    BY <1>1, <1>3, <1>30, <1>6, HitFiles
  <2> QED
    BY <2>1 DEF Dumps, Pictures
<1>7. ASSUME b \notin (changed \union crowded \union cut \union killed)', NEW w \in {ans'[c].wave, ans'[c].picture}, w # None
      PROVE  w.of = read[b] \/ Replaced(c, b, w.of)'
  <2>1. PICK q \in Made : loaded[q] = w.of /\ (Remote(c) => Hashed(call[q]) = Hashed(call[c]))
    BY <1>6, <1>7
  <2>2. CASE q = b
    <3>1. Tool(b) # "compile"
      BY <1>1, <1>2, <1>6, <1>7, <2>1, <2>2, SimulationAssumption DEF StageInv, StageOf, Made
    <3> QED
      BY <1>3, <1>30, <1>5, <1>7, <2>1, <2>2, <3>1
  <2>3. CASE q # b
    <3>1. q \in Made' \ {b} /\ loaded'[q] = w.of /\ (Remote(c)' => Hashed(call'[q]) = Hashed(call'[c]))
      BY <1>2, <1>3, <2>1, <2>3 DEF Remote
    <3> QED
      BY <3>1 DEF Replaced
  <2> QED
    BY <2>2, <2>3
<1>8. \A v : Passes(c, v)' = Passes(c, v)
  BY <1>3 DEF Passes
<1> QED
  BY <1>1, <1>3, <1>4, <1>5, <1>7, <1>8 DEF HitOf, Tool

LEMMA NextAnswerInv == TypeOK /\ StageInv /\ StoreInv /\ AnswerInv /\ [Next]_vars => AnswerInv'
<1> SUFFICES ASSUME TypeOK, StageInv, StoreInv, AnswerInv, [Next]_vars
             PROVE  AnswerInv'
  OBVIOUS
<1>0. Made' = Made
  BY NextStays DEF Stays, Made
<1> SUFFICES ASSUME NEW d \in Calls, Answered(d)', ans'[d].ok
             PROVE  ans'[d].by \in Made
  BY <1>0 DEF AnswerInv
<1>1. CASE ans'[d] = ans[d]
  BY <1>1 DEF AnswerInv, Answered
<1>2. CASE ans'[d] # ans[d]
  <2>1. PICK c \in Made : Step(c)
    BY <1>2 DEF Next, Rest, Edit, vars
  <2>2. d = c
    BY <1>2, <2>1, StepFrame, CallTypes DEF OthersStay
  <2>3. ans'[c].by = c \/ (Start(c) /\ Kept(KeyOf(c)))
    BY <1>2, <2>1, <2>2, StepAnswer
  <2> QED
    BY <2>2, <2>3, HitEffect
<1> QED
  BY <1>1, <1>2

LEMMA HitParts ==
  HitRestsOnPass <=> \A c \in Calls : Answered(c) /\ ans[c].ok /\ ans[c].by # c => HitOf(c, ans[c].by)
BY DEF HitRestsOnPass, HitOf, Replaced

LEMMA NextHit ==
  TypeOK /\ StageInv /\ HashInv /\ StoreInv /\ AnswerInv /\ DumpInv /\ PassedRunIsOwn /\ HitRestsOnPass /\ [Next]_vars
    => HitRestsOnPass'
<1> SUFFICES ASSUME TypeOK, StageInv, HashInv, StoreInv, AnswerInv, DumpInv, PassedRunIsOwn, HitRestsOnPass, [Next]_vars
             PROVE  HitRestsOnPass'
  OBVIOUS
<1>1. Stays
  BY NextStays
<1>2. ASSUME NEW d \in Calls, Answered(d), ans[d].ok, ans[d].by # d
      PROVE  HitOf(d, ans[d].by)' /\ ans'[d] = ans[d]
  <2> DEFINE b == ans[d].by
  <2>1. HitOf(d, b)
    BY <1>2, HitParts
  <2>2. /\ ans[d] \in Answers /\ b \in Calls /\ pc[d] = "done" /\ pc[b] = "done" /\ ans'[d] = ans[d]
    <3>1. ans[d] \in Answers
      BY <1>2 DEF TypeOK, Answered
    <3>2. b \in Calls /\ FreshOk(b)
      BY <1>2, <2>1, CallTypes DEF HitOf, AnswerInv
    <3> QED
      BY <1>1, <1>2, <3>1, <3>2 DEF StageInv, StageOf, FreshOk, Answered, Stays
  <2>3. /\ ans'[b] = ans[b] /\ key'[b] = key[b] /\ read'[b] = read[b] /\ key'[d] = key[d] /\ call' = call
        /\ Made' = Made
    BY <1>1, <2>2 DEF Stays, Made
  <2>4. ASSUME NEW v \in Versions, Replaced(d, b, v) PROVE Replaced(d, b, v)'
    <3>1. PICK q \in Made \ {b} : loaded[q] = v /\ (Remote(d) => Hashed(call[q]) = Hashed(call[d]))
      BY <2>4 DEF Replaced
    <3>2. loaded'[q] = v
      BY <1>1, <2>4, <3>1, CallTypes, SimulationAssumption DEF Stays
    <3>3. b' = b
      BY <2>2
    <3> QED
      BY <2>3, <3>1, <3>2, <3>3 DEF Replaced, Remote
  <2>5. \A w \in {ans[d].wave, ans[d].picture} \ {None} : w.of \in Versions
    BY <2>2 DEF Answers, Views, Pictures
  <2>6. b \notin (changed \union crowded \union cut \union killed)' => b \notin changed \union crowded \union cut \union killed
    BY <1>1 DEF Stays
  <2>7. FreshOk(b)' /\ Tool(d)' = Tool(d) /\ b' = b
    BY <2>1, <2>2, <2>3 DEF HitOf, FreshOk, Answered, Tool
  <2>8. Hashed(call'[b]) = Hashed(call'[d]) /\ key'[b].listed = key'[d].listed
    BY <2>1, <2>3 DEF HitOf
  <2>9. ASSUME b \notin (changed \union crowded \union cut \union killed)'
        PROVE  /\ Listed[read'[b]] = key'[d].listed
               /\ Tool(d) = "sim" => Passes(d, read[b])'
               /\ \A w \in {ans'[d].wave, ans'[d].picture} \ {None} : w.of = read'[b] \/ Replaced(d, b, w.of)'
    <3>1. /\ Listed[read[b]] = key[d].listed
          /\ Tool(d) = "sim" => Passes(d, read[b])
          /\ \A w \in {ans[d].wave, ans[d].picture} \ {None} : w.of = read[b] \/ Replaced(d, b, w.of)
      BY <2>1, <2>6, <2>9 DEF HitOf
    <3>2. ASSUME NEW w \in {ans'[d].wave, ans'[d].picture} \ {None}
          PROVE  w.of = read'[b] \/ Replaced(d, b, w.of)'
      <4>1. w \in {ans[d].wave, ans[d].picture} \ {None}
        BY <2>2
      <4>2. w.of \in Versions
        BY <4>1, <2>5
      <4>3. w.of = read[b] \/ Replaced(d, b, w.of)
        BY <4>1, <3>1
      <4> QED
        BY <2>3, <2>4, <4>2, <4>3
    <3>3. b' = b /\ \A v : Passes(d, v)' = Passes(d, v)
      BY <2>3, <2>7 DEF Passes
    <3> QED
      BY <2>3, <3>1, <3>2, <3>3
  <2> QED
    BY <2>2, <2>7, <2>8, <2>9 DEF HitOf
<1>3. ASSUME NEW d \in Calls, Answered(d)', ans'[d].ok, ans'[d].by # d
      PROVE  HitOf(d, ans[d].by)'
  <2>1. CASE ans'[d] = ans[d]
    BY <1>2, <1>3, <2>1 DEF Answered
  <2>2. CASE ans'[d] # ans[d]
    <3>1. PICK c \in Made : Step(c)
      BY <2>2 DEF Next, Rest, Edit, vars
    <3>2. d = c
      BY <2>2, <3>1, StepFrame, CallTypes DEF OthersStay
    <3>3. Start(c) /\ Kept(KeyOf(c))
      BY <1>3, <2>2, <3>1, <3>2, StepAnswer
    <3> DEFINE b == store[KeyOf(c)]
    <3>4. ans'[c].by = b /\ \A x : x = b => HitOf(c, x)'
      BY <3>3, NewHit
    <3> QED
      BY <3>2, <3>4
  <2> QED
    BY <2>1, <2>2
<1>4. HitRestsOnPass' <=> \A c \in Calls : Answered(c)' /\ ans'[c].ok /\ ans'[c].by # c => HitOf(c, ans[c].by)'
  BY DEF HitRestsOnPass, HitOf, Replaced, Passes
<1> QED
  BY <1>3, <1>4

-----------------------------------------------------------------------------
\* The types of what belongs to the calls, and of the files.
CallShapes ==
  /\ pc \in [Calls -> {"start", "compile", "compiled", "load", "run", "judge", "stage", "put", "exec",
                       "ended", "pull", "done"}]
  /\ got \in [Calls -> Transcript] /\ ans \in [Calls -> Answers \union {None}]
RunShapes ==
  /\ read \in [Calls -> Versions \union {None}] /\ loaded \in [Calls -> Versions \union {None}]
  /\ ran \in [Calls -> Calls \union {None}]
FileShapes ==
  /\ lib \in [Families -> Designs \union {None}]
  /\ wave \in [WaveFiles -> Dumps \union {None}] /\ drawn \in [WaveFiles -> Pictures \union {None}]
  /\ mirror \in [DOMAIN store -> Dumps \union {None}]
  /\ script \in [Scripts -> Calls \union {None}]
OtherShapes ==
  /\ faults \in Nat /\ key \in [Calls -> DOMAIN store \union {None}]
  /\ crowded \union changed \union killed \union cut \subseteq Made

LEMMA Transcripts ==
  /\ Nothing \in Transcript /\ Clean \in Transcript /\ Errors \in Transcript /\ Killed \in Transcript
  /\ \A f : Passing(f) \in Transcript
  /\ \A f, v : Outcomes(f, v) \subseteq Transcript
<1>1. /\ Nothing \in Transcript /\ Clean \in Transcript /\ Errors \in Transcript /\ Killed \in Transcript
  BY DEF Nothing, Clean, Errors, Killed, Transcript
<1>2. /\ [Nothing EXCEPT !.lines = TRUE] \in Transcript /\ [Nothing EXCEPT !.code = 1] \in Transcript
      /\ [Clean EXCEPT !.fatal = TRUE] \in Transcript /\ [Errors EXCEPT !.code = 0] \in Transcript
      /\ [Clean EXCEPT !.uvm = TRUE] \in Transcript
  BY DEF Nothing, Clean, Errors, Transcript
<1>3. \A f : Failing(f) \subseteq Transcript /\ Passing(f) \in Transcript
  BY <1>1, <1>2 DEF Failing, Passing
<1> QED
  BY <1>1, <1>2, <1>3 DEF Outcomes

LEMMA ReplyShapes ==
  ASSUME CallShapes, NEW c \in Calls, NEW a \in Answers, Reply(c, a)
  PROVE  CallShapes'
BY Transcripts DEF CallShapes, Reply, Goto

LEMMA FailedShape == Failed \in Answers
BY DEF Failed, Answers

LEMMA SettleShapes ==
  ASSUME TypeOK, CallShapes, NEW c \in Made, NEW file \in Dumps \union {None}, Settle(c, file)
  PROVE  CallShapes'
<1>1. PICK v \in BOOLEAN \union {None}, ok \in BOOLEAN :
         Reply(c, Fresh(c, ok, Named(c, file), v)) /\ Fresh(c, ok, Named(c, file), v) \in Answers
  BY SettleEffect
<1> QED
  BY <1>1, CallTypes, ReplyShapes

LEMMA NextCallShapes ==
  ASSUME TypeOK, StageInv, StoreInv, NEW c \in Made, Step(c)
  PROVE  CallShapes'
<1>0. CallShapes /\ c \in Calls /\ Family(c) \in Families
  BY CallTypes DEF CallShapes, TypeOK
<1> USE <1>0
<1>1. CASE Refuse(c)
  BY <1>1, FailedShape, ReplyShapes DEF Refuse
<1>2. CASE Start(c)
  <2>1. CASE Kept(KeyOf(c))
    <3>1. ans'[c] \in Answers
      BY <1>2, <2>1, HitEffect
    <3>2. PICK a : Reply(c, a)
      BY <1>2, <2>1 DEF Start
    <3>3. a = ans'[c]
      BY <3>2, Domains DEF Reply
    <3> QED
      BY <3>1, <3>2, <3>3, ReplyShapes
  <2>2. CASE ~Kept(KeyOf(c))
    BY <1>2, <2>2 DEF Start, Goto, CallShapes
  <2> QED
    BY <2>1, <2>2
<1>3. CASE StartPlain(c)
  BY <1>3 DEF StartPlain, Goto, CallShapes
<1>4. CASE Assert(c)
  <2>1. PICK f \in WaveFiles : wave[f] # None /\ \E v \in Verdicts(call[c].assert, Given(f)) : Reply(c, Fresh(c, v, Given(f), v))
    BY <1>4, Domains DEF Assert
  <2>2. PICK v \in BOOLEAN : Reply(c, Fresh(c, v, Given(f), v))
    BY <1>4, <2>1, VerdictTypes, CallTypes DEF Assert
  <2> QED
    BY <2>1, <2>2, GivenDrawn, FreshShape, ReplyShapes
<1>5. CASE DrawWave(c)
  <2>1. PICK f \in WaveFiles : wave[f] # None /\ (Reply(c, Fresh(c, TRUE, Given(f), None)) \/ Reply(c, Failed))
    BY <1>5, Domains DEF DrawWave
  <2> QED
    BY <2>1, GivenDrawn, FreshShape, FailedShape, ReplyShapes
<1>6. CASE View(c)
  <2>1. PICK f \in WaveFiles : wave[f] # None /\ (Reply(c, Fresh(c, TRUE, Given(f), None)) \/ Reply(c, Failed))
    BY <1>6, Domains DEF View
  <2> QED
    BY <2>1, GivenDrawn, FreshShape, FailedShape, ReplyShapes
<1>7. CASE Exe(c)
  BY <1>7, FreshShape, ReplyShapes DEF Exe
<1>8. CASE Compile(c)
  BY <1>8, Transcripts DEF Compile, Goto, Got, CallShapes
<1>9. CASE JudgeCompile(c)
  <2>1. CASE Compiled(c) /\ Tool(c) # "compile"
    BY <1>9, <2>1 DEF JudgeCompile, Goto, CallShapes
  <2>2. CASE ~(Compiled(c) /\ Tool(c) # "compile")
    <3>1. Reply(c, Fresh(c, Compiled(c), None, None))
      BY <1>9, <2>2 DEF JudgeCompile
    <3>2. Compiled(c) \in BOOLEAN
      BY DEF Compiled
    <3> QED
      BY <3>1, <3>2, FreshShape, ReplyShapes
  <2> QED
    BY <2>1, <2>2
<1>10. CASE Load(c)
  BY <1>10, Transcripts DEF Load, Goto, Got, CallShapes
<1>11. CASE Run(c)
  <2>1. PICK t \in Transcript : Got(c, t)
    BY <1>11, Transcripts DEF Run
  <2> QED
    BY <1>11, <2>1 DEF Run, Goto, Got, CallShapes
<1>12. CASE Judge(c)
  BY <1>12, FileTypes, WaveTypes, SettleShapes DEF Judge
<1>13. CASE Stage(c)
  <2>1. (Goto(c, "put") /\ UNCHANGED <<got, ans>>) \/ Reply(c, Failed)
    BY <1>13 DEF Stage
  <2> QED
    BY <2>1, FailedShape, ReplyShapes DEF Goto, CallShapes
<1>14. CASE PutScript(c)
  BY <1>14 DEF PutScript, Goto, CallShapes
<1>15. CASE Exec(c)
  <2>1. PICK t \in Transcript : Got(c, t)
    BY <1>15, Transcripts DEF Exec
  <2> QED
    BY <1>15, <2>1 DEF Exec, Goto, Got, CallShapes
<1>16. CASE EndRemote(c)
  <2>1. (Goto(c, "pull") /\ UNCHANGED <<got, ans>>) \/ Settle(c, None)
    BY <1>16 DEF EndRemote
  <2> QED
    BY <2>1, SettleShapes DEF Goto, CallShapes
<1>17. CASE Pull(c)
  <2> DEFINE file == [by |-> c, of |-> loaded[c], whole |-> c \notin cut /\ ~got[c].killed]
  <2>1. (loaded[c] # None /\ Settle(c, file)) \/ Settle(c, None)
    BY <1>17 DEF Pull
  <2>2. loaded[c] # None => file \in Dumps
    BY DEF Dumps, TypeOK
  <2> HIDE DEF file
  <2> QED
    BY <2>1, <2>2, SettleShapes
<1> QED
  BY <1>1, <1>2, <1>3, <1>4, <1>5, <1>6, <1>7, <1>8, <1>9, <1>10, <1>11, <1>12, <1>13, <1>14, <1>15, <1>16, <1>17 DEF Step

LEMMA NextRunShapes ==
  ASSUME TypeOK, StageInv, NEW c \in Made, Step(c)
  PROVE  RunShapes'
<1>0. RunShapes /\ c \in Calls /\ src \in Versions /\ Family(c) \in Families
  BY CallTypes DEF RunShapes, TypeOK
<1> USE <1>0 DEF RunShapes, work
<1>1. CASE Refuse(c)
  BY <1>1 DEF Refuse
<1>2. CASE Start(c)
  BY <1>2 DEF Start
<1>3. CASE StartPlain(c)
  BY <1>3 DEF StartPlain
<1>4. CASE Assert(c)
  BY <1>4 DEF Assert
<1>5. CASE DrawWave(c)
  BY <1>5 DEF DrawWave
<1>6. CASE View(c)
  BY <1>6 DEF View
<1>7. CASE Exe(c)
  BY <1>7 DEF Exe
<1>8. CASE Compile(c)
  BY <1>8 DEF Compile
<1>9. CASE JudgeCompile(c)
  BY <1>9 DEF JudgeCompile
<1>10. CASE Load(c)
  <2> DEFINE d == IF Family(c) = "icarus" THEN c ELSE script[Script(c)]
  <2>1. \/ /\ lib[Family(c)] # None /\ loaded' = [loaded EXCEPT ![c] = lib[Family(c)].of]
           /\ ran' = [ran EXCEPT ![c] = d]
        \/ UNCHANGED <<loaded, ran>>
    BY <1>10 DEF Load
  <2>2. lib[Family(c)] # None => lib[Family(c)].of \in Versions
    BY FileTypes DEF Designs
  <2>3. pc[c] = "load" /\ UNCHANGED read
    BY <1>10 DEF Load
  <2>4. d \in Calls \union {None}
    BY <2>3, CallTypes DEF TypeOK, StageInv, StageOf, Scripted, Family
  <2> QED
    BY <2>1, <2>2, <2>3, <2>4
<1>11. CASE Run(c)
  BY <1>11 DEF Run
<1>12. CASE Judge(c)
  BY <1>12 DEF Judge
<1>13. CASE Stage(c)
  BY <1>13 DEF Stage
<1>14. CASE PutScript(c)
  <2>1. Tool(c) \in {"sim", "do"} => script[Script(c)] \in Calls \union {None}
    BY CallTypes DEF TypeOK, Scripted
  <2> QED
    BY <1>14, <2>1 DEF PutScript
<1>15. CASE Exec(c)
  <2>1. read[c] \in Versions
    BY <1>15 DEF Exec, StageInv, StageOf
  <2> QED
    BY <1>15, <2>1 DEF Exec
<1>16. CASE EndRemote(c)
  BY <1>16 DEF EndRemote
<1>17. CASE Pull(c)
  BY <1>17 DEF Pull
<1> QED
  BY <1>1, <1>2, <1>3, <1>4, <1>5, <1>6, <1>7, <1>8, <1>9, <1>10, <1>11, <1>12, <1>13, <1>14, <1>15, <1>16, <1>17 DEF Step

LEMMA NextFileShapes ==
  ASSUME TypeOK, StageInv, NEW c \in Made, Step(c)
  PROVE  FileShapes'
<1>0. /\ FileShapes /\ c \in Calls /\ src \in Versions /\ Family(c) \in Families /\ DOMAIN store' = DOMAIN store
      /\ (Scripted(c) => Script(c) \in Scripts)
  BY CallTypes, StepFrame DEF FileShapes, TypeOK, OthersStay
<1> USE <1>0 DEF FileShapes, files
<1>1. CASE Refuse(c)
  BY <1>1 DEF Refuse
<1>2. CASE Start(c)
  BY <1>2 DEF Start
<1>3. CASE StartPlain(c)
  BY <1>3 DEF StartPlain, Scripted
<1>4. CASE Assert(c)
  BY <1>4 DEF Assert
<1>5. CASE DrawWave(c)
  <2>1. PICK f \in WaveFiles : wave[f] # None /\ (drawn' = [drawn EXCEPT ![f] = Painted(c, Given(f))] \/ UNCHANGED drawn)
    BY <1>5, Domains DEF DrawWave
  <2>2. Painted(c, Given(f)) \in Pictures \union {None}
    BY <2>1, GivenDrawn, PaintedShape
  <2>3. drawn' \in [WaveFiles -> Pictures \union {None}]
    BY <2>1, <2>2
  <2> QED
    BY <1>5, <2>3 DEF DrawWave
<1>6. CASE View(c)
  BY <1>6 DEF View
<1>7. CASE Exe(c)
  BY <1>7 DEF Exe
<1>8. CASE Compile(c)
  <2> DEFINE part == IF lib[Family(c)] = None THEN [of |-> src, whole |-> FALSE] ELSE lib[Family(c)]
             full == [of |-> src, whole |-> TRUE]
  <2>1. lib' = [lib EXCEPT ![Family(c)] = part] \/ lib' = [lib EXCEPT ![Family(c)] = full]
    BY <1>8 DEF Compile
  <2>2. part \in Designs \union {None} /\ full \in Designs \union {None}
    BY FileTypes DEF Designs
  <2> HIDE DEF part, full
  <2>3. lib' \in [Families -> Designs \union {None}]
    BY <2>1, <2>2
  <2> QED
    BY <1>8, <2>3 DEF Compile
<1>9. CASE JudgeCompile(c)
  BY <1>9 DEF JudgeCompile, Scripted
<1>10. CASE Load(c)
  <2> DEFINE d == IF Family(c) = "icarus" THEN c ELSE script[Script(c)]
             w == [by |-> c, of |-> lib[Family(c)].of, whole |-> FALSE]
  <2>1. (lib[Family(c)] # None /\ wave' = [wave EXCEPT ![WaveFile(d)] = w]) \/ UNCHANGED wave
    BY <1>10 DEF Load
  <2>2. lib[Family(c)] # None => w \in Dumps
    BY FileTypes DEF Dumps, Designs
  <2> HIDE DEF d, w
  <2>3. wave' \in [WaveFiles -> Dumps \union {None}]
    BY <2>1, <2>2
  <2> QED
    BY <1>10, <2>3 DEF Load
<1>11. CASE Run(c)
  <2>1. PICK t : wave' = [f \in DOMAIN wave |-> IF wave[f] # None /\ wave[f].by = c /\ ~t.killed
                                                THEN [wave[f] EXCEPT !.whole = TRUE] ELSE wave[f]]
    BY <1>11 DEF Run
  <2>2. ASSUME NEW w \in Dumps PROVE [w EXCEPT !.whole = TRUE] \in Dumps
    BY DEF Dumps
  <2>3. wave' \in [WaveFiles -> Dumps \union {None}]
    BY <2>1, <2>2, Domains, FileTypes
  <2> QED
    BY <1>11, <2>3 DEF Run
<1>12. CASE Judge(c)
  <2> DEFINE f == WaveFile(c)
             picture == Painted(c, Named(c, wave[f]))
  <2>1. f \in WaveFiles /\ wave[f] \in Dumps \union {None}
    BY WaveTypes, FileTypes
  <2>2. picture \in Pictures \union {None}
    BY <2>1, NamedDrawn, PaintedShape
  <2>3. drawn' = [drawn EXCEPT ![f] = picture] \/ UNCHANGED drawn
    BY <1>12 DEF Judge
  <2> HIDE DEF f, picture
  <2>4. drawn' \in [WaveFiles -> Pictures \union {None}]
    BY <2>1, <2>2, <2>3
  <2> QED
    BY <1>12, <2>4 DEF Judge
<1>13. CASE Stage(c)
  BY <1>13 DEF Stage, Scripted
<1>14. CASE PutScript(c)
  BY <1>14 DEF PutScript
<1>15. CASE Exec(c)
  BY <1>15 DEF Exec
<1>16. CASE EndRemote(c)
  BY <1>16 DEF EndRemote
<1>17. CASE Pull(c)
  <2> DEFINE file == [by |-> c, of |-> loaded[c], whole |-> c \notin cut /\ ~got[c].killed]
  <2>1. (loaded[c] # None /\ mirror' = [mirror EXCEPT ![key[c]] = file]) \/ UNCHANGED mirror
    BY <1>17 DEF Pull
  <2>2. loaded[c] # None => file \in Dumps
    BY DEF Dumps, TypeOK
  <2> HIDE DEF file
  <2>3. mirror' \in [DOMAIN store -> Dumps \union {None}]
    BY <2>1, <2>2
  <2> QED
    BY <1>17, <2>3 DEF Pull
<1> QED
  BY <1>1, <1>2, <1>3, <1>4, <1>5, <1>6, <1>7, <1>8, <1>9, <1>10, <1>11, <1>12, <1>13, <1>14, <1>15, <1>16, <1>17 DEF Step

LEMMA NextOtherShapes ==
  ASSUME TypeOK, NEW c \in Made, Step(c)
  PROVE  OtherShapes'
<1>0. OtherShapes /\ c \in Calls /\ DOMAIN store' = DOMAIN store /\ Made' = Made /\ KeyOf(c) \in DOMAIN store
  BY CallTypes, KeyTypes, StepFrame DEF OtherShapes, TypeOK, OthersStay, Made
<1> USE <1>0 DEF OtherShapes, history, Fault, Meet
<1>1. CASE Refuse(c)
  BY <1>1 DEF Refuse
<1>2. CASE Start(c)
  BY <1>2 DEF Start
<1>3. CASE StartPlain(c)
  BY <1>3 DEF StartPlain
<1>4. CASE Assert(c)
  BY <1>4 DEF Assert
<1>5. CASE DrawWave(c)
  BY <1>5 DEF DrawWave
<1>6. CASE View(c)
  BY <1>6 DEF View
<1>7. CASE Exe(c)
  BY <1>7 DEF Exe
<1>8. CASE Compile(c)
  BY <1>8 DEF Compile
<1>9. CASE JudgeCompile(c)
  BY <1>9 DEF JudgeCompile
<1>10. CASE Load(c)
  BY <1>10 DEF Load
<1>11. CASE Run(c)
  BY <1>11 DEF Run
<1>12. CASE Judge(c)
  BY <1>12 DEF Judge
<1>13. CASE Stage(c)
  BY <1>13 DEF Stage
<1>14. CASE PutScript(c)
  BY <1>14 DEF PutScript
<1>15. CASE Exec(c)
  BY <1>15 DEF Exec
<1>16. CASE EndRemote(c)
  BY <1>16 DEF EndRemote
<1>17. CASE Pull(c)
  BY <1>17 DEF Pull
<1> QED
  BY <1>1, <1>2, <1>3, <1>4, <1>5, <1>6, <1>7, <1>8, <1>9, <1>10, <1>11, <1>12, <1>13, <1>14, <1>15, <1>16, <1>17 DEF Step

LEMMA NextStoreType ==
  ASSUME TypeOK, StageInv, HashInv, StoreInv, StoreInv', NEW c \in Made, Step(c)
  PROVE  /\ store' \in [DOMAIN store -> Calls \union {None}]
         /\ \A k \in DOMAIN store : store'[k] # None => store'[k] \in Made /\ ans'[store'[k]].ok
<1>0. OthersStay(c) /\ c \in Calls
  BY StepFrame, CallTypes
<1>1. \A k \in DOMAIN store : store'[k] = store[k] \/ store'[k] = c
  BY StoreSteps
<1>2. store' = [k \in DOMAIN store |-> store'[k]]
  <2>1. ASSUME NEW ok, Keep(c, ok) PROVE store' = [k \in DOMAIN store |-> store'[k]]
    BY <2>1 DEF Keep, TypeOK
  <2>2. ASSUME NEW file, Settle(c, file) PROVE store' = [k \in DOMAIN store |-> store'[k]]
    BY <2>1, <2>2 DEF Settle
  <2>3. CASE UNCHANGED store
    BY <2>3 DEF TypeOK
  <2>4. CASE JudgeCompile(c)
    BY <2>1, <2>3, <2>4 DEF JudgeCompile
  <2>5. CASE Judge(c) \/ EndRemote(c) \/ Pull(c)
    BY <2>2, <2>3, <2>5 DEF Judge, EndRemote, Pull
  <2>6. CASE Refuse(c) \/ Start(c) \/ StartPlain(c) \/ Assert(c) \/ DrawWave(c) \/ View(c) \/ Exe(c) \/ Compile(c)
    BY <2>3, <2>6 DEF Refuse, Start, StartPlain, Assert, DrawWave, View, Exe, Compile, files
  <2>7. CASE Load(c) \/ Run(c) \/ Stage(c) \/ PutScript(c) \/ Exec(c)
    BY <2>3, <2>7 DEF Load, Run, Stage, PutScript, Exec, files
  <2> QED
    BY <2>4, <2>5, <2>6, <2>7 DEF Step
<1>3. \A k \in DOMAIN store : store'[k] \in Calls \union {None} /\ (store'[k] # None => store'[k] \in Made)
  BY <1>0, <1>1 DEF TypeOK
<1>4. ASSUME NEW k \in DOMAIN store, store'[k] # None PROVE ans'[store'[k]].ok
  BY <1>0, <1>4 DEF StoreInv, KeptBy, FreshOk, OthersStay
<1> QED
  BY <1>2, <1>3, <1>4

LEMMA NextTypeOK == TypeOK /\ StageInv /\ HashInv /\ StoreInv /\ StoreInv' /\ DumpInv /\ [Next]_vars => TypeOK'
<1> SUFFICES ASSUME TypeOK, StageInv, HashInv, StoreInv, StoreInv', DumpInv, [Next]_vars
             PROVE  TypeOK'
  OBVIOUS
<1>1. ASSUME NEW c \in Made, Step(c) PROVE TypeOK'
  <2>0. OthersStay(c) /\ SharedFrame(c) /\ Made' = Made /\ DOMAIN store' = DOMAIN store
    BY <1>1, StepFrame, StepShared DEF OthersStay, Made
  <2>1. CallShapes' /\ RunShapes' /\ FileShapes' /\ OtherShapes'
    BY <1>1, NextCallShapes, NextRunShapes, NextFileShapes, NextOtherShapes
  <2>2. /\ store' \in [DOMAIN store -> Calls \union {None}]
        /\ \A k \in DOMAIN store : store'[k] # None => store'[k] \in Made /\ ans'[store'[k]].ok
    BY <1>1, NextStoreType
  <2>3. \E s \in Scenarios : call' = s.call /\ after' = s.after /\ DOMAIN store' = Keys(s)
    BY <2>0 DEF TypeOK, OthersStay
  <2>4. src' \in Versions /\ edits' \in Nat
    BY <2>0 DEF TypeOK, OthersStay
  <2>5. ASSUME NEW f \in Scripts, script'[f] # None
        PROVE  script'[f] \in Made /\ Script(script[f])' = f
    <3>1. \A d : Script(d)' = Script(d)
      BY <2>0 DEF OthersStay, Script, Tool, Remote
    <3>2. CASE script'[f] = script[f]
      <4>1. script[f] \in Made /\ Script(script[f]) = f
        BY <2>5, <3>2 DEF TypeOK
      <4> QED
        BY <2>0, <3>2, <4>1 DEF OthersStay, Script, Tool, Remote
    <3>3. CASE script'[f] # script[f]
      <4>1. f = Script(c) /\ script'[f] = c
        BY <2>0, <3>3 DEF SharedFrame
      <4> QED
        BY <2>0, <4>1 DEF OthersStay, Script, Tool, Remote
    <3> QED
      BY <3>2, <3>3
  <2> QED
    BY <2>0, <2>1, <2>2, <2>3, <2>4, <2>5 DEF TypeOK, CallShapes, RunShapes, FileShapes, OtherShapes
<1>2. CASE Edit
  <2>1. /\ src' \in Versions /\ edits' \in Nat
        /\ changed' \subseteq changed \union Made
    BY <1>2 DEF Edit, TypeOK
  <2>2. UNCHANGED <<call, after, faults, pc, key, lib, script, wave, drawn, mirror, store, got, read, loaded, ran, ans, crowded, killed, cut>>
    BY <1>2 DEF Edit, files, work
  <2> QED
    BY <2>1, <2>2 DEF TypeOK, Made, Script, Tool, Remote
<1>3. CASE UNCHANGED vars
  BY <1>3 DEF vars, files, work, history, TypeOK, Made, Script, Tool, Remote
<1> QED
  BY <1>1, <1>2, <1>3 DEF Next, Rest

\* What is judged of a file is what the assertion says of it.
LEMMA VerdictOfWhole ==
  ASSUME NEW a, a # None, NEW file, file # None, file.whole = TRUE, NEW v \in Verdicts(a, file)
  PROVE  v = Evaluate(a, Trace[file.of], file.blasted)
BY DEF Verdicts

LEMMA SettleJudged ==
  ASSUME TypeOK, NEW c \in Made, NEW file \in Dumps \union {None}, Settle(c, file), call' = call
  PROVE  JudgedOf(c)'
<1>1. Tool(c)' = Tool(c) /\ Family(c)' = Family(c)
  BY DEF Tool, Family
<1>2. PICK v \in Verdicts(call[c].assert, Named(c, file)) :
        Reply(c, Fresh(c, Verdict(c) /\ v # FALSE, Named(c, file), v))
  BY DEF Settle
<1> DEFINE a == call[c].assert
           w == Named(c, file)
           ok == Verdict(c) /\ v # FALSE
<1>3. ans'[c] = Fresh(c, ok, w, v)
  BY <1>2, Domains, CallTypes DEF Reply
<1>4. ans'[c].ok = ok /\ ans'[c].wave = w /\ ans'[c].verdict = v
  BY ONLY <1>3 DEF Fresh
<1>5. ASSUME w # None, w.whole, a # None
      PROVE  /\ v = Evaluate(a, Trace[w.of], w.blasted)
             /\ ok => v = TRUE
             /\ w.blasted = (Family(c) = "modelsim")
  <2>1. file # None /\ call[c].vcd # "no"
    BY <1>5 DEF Named
  <2>2. w = [by |-> file.by, of |-> file.of, whole |-> file.whole, blasted |-> Family(c) = "modelsim"]
    BY <2>1 DEF Named
  <2>3. w.whole = file.whole /\ file.whole \in BOOLEAN /\ w.blasted = (Family(c) = "modelsim")
    BY <2>1, <2>2 DEF Dumps
  <2>4. v = Evaluate(a, Trace[w.of], w.blasted)
    <3>1. w.whole = TRUE
      BY <1>5, <2>3
    <3> HIDE DEF a, w
    <3>2. v \in Verdicts(a, w)
      BY <1>2 DEF a, w
    <3> QED
      BY <1>5, <3>1, <3>2, VerdictOfWhole
  <2>5. v \in BOOLEAN
    BY <1>5, VerdictTypes, CallTypes
  <2> HIDE DEF a, w
  <2> QED
    BY <2>3, <2>4, <2>5
<1> HIDE DEF a, w, ok
<1>6. call'[c].assert = a
  BY DEF a
<1> QED
  BY <1>1, <1>4, <1>5, <1>6 DEF JudgedOf

LEMMA StepJudged ==
  ASSUME TypeOK, StoreInv, StageInv, NEW c \in Made, Step(c), ans'[c] # ans[c], ans'[c].by = c
  PROVE  JudgedOf(c)'
<1>0. OthersStay(c) /\ c \in Calls /\ StageOf(c) /\ call' = call /\ Tool(c)' = Tool(c) /\ None \notin Calls
  BY StepFrame, CallTypes, SimulationAssumption DEF OthersStay, Tool, StageInv
<1> USE <1>0, Domains
<1>1. CASE Start(c)
  <2>1. Kept(KeyOf(c))
    BY <1>1 DEF Start
  <2>2. PICK b : b = store[KeyOf(c)] /\ KeptBy(KeyOf(c), b) /\ ans'[c].by = b
    BY <1>1, <2>1, HitEffect
  <2> QED
    BY <1>1, <2>2 DEF KeptBy, FreshOk, Answered, Start, Begins, StageOf
<1>2. CASE Assert(c)
  <2>1. PICK f \in WaveFiles : wave[f] # None /\ \E v \in Verdicts(call[c].assert, Given(f)) : Reply(c, Fresh(c, v, Given(f), v))
    BY <1>2 DEF Assert
  <2> DEFINE a == call[c].assert
             w == Given(f)
  <2>2. PICK v \in Verdicts(a, w) : Reply(c, Fresh(c, v, w, v))
    BY <2>1
  <2>3. Tool(c) = "assert" /\ a # None /\ a \in Assertions \union {None} /\ call'[c].assert = a
    BY <1>2, CallTypes DEF Assert
  <2>4. w \in Views /\ w # None
    <3>1. Given(f) \in Views
      BY <2>1, GivenDrawn
    <3> QED
      BY ONLY <3>1, SimulationAssumption
  <2>5. w.whole \in BOOLEAN
    BY <2>4 DEF Views
  <2> HIDE DEF a, w
  <2>6. ans'[c] = Fresh(c, v, w, v)
    BY <2>2 DEF Reply
  <2>7. ans'[c].ok = v /\ ans'[c].wave = w /\ ans'[c].verdict = v
    BY ONLY <2>6 DEF Fresh
  <2>8. v \in BOOLEAN
    BY <2>3, VerdictTypes
  <2>9. w.whole => v = Evaluate(a, Trace[w.of], w.blasted)
    BY <2>3, <2>4, <2>5, VerdictOfWhole
  <2> QED
    BY <2>3, <2>7, <2>8, <2>9 DEF JudgedOf
<1>3. CASE DrawWave(c) \/ View(c) \/ Exe(c)
  BY <1>3 DEF DrawWave, View, Exe, JudgedOf
<1>4. CASE Refuse(c) \/ Stage(c)
  <2>1. ans'[c] = Failed
    BY <1>4 DEF Refuse, Stage, Reply
  <2> QED
    BY <2>1 DEF Failed
<1>5. CASE StartPlain(c) \/ Compile(c) \/ Load(c) \/ Run(c) \/ PutScript(c) \/ Exec(c)
  BY <1>5 DEF StartPlain, Compile, Load, Run, PutScript, Exec
<1>6. CASE JudgeCompile(c)
  <2>1. ans'[c] = Fresh(c, Compiled(c), None, None)
    BY <1>6 DEF JudgeCompile, Reply
  <2>2. ans'[c].wave = None
    BY ONLY <2>1 DEF Fresh
  <2> QED
    BY <2>2 DEF JudgedOf
<1>7. CASE Judge(c)
  BY <1>7, FileTypes, WaveTypes, SettleJudged DEF Judge
<1>8. CASE EndRemote(c)
  BY <1>8, SettleJudged DEF EndRemote
<1>9. CASE Pull(c)
  <2> DEFINE file == [by |-> c, of |-> loaded[c], whole |-> c \notin cut /\ ~got[c].killed]
  <2>1. (loaded[c] # None /\ Settle(c, file)) \/ Settle(c, None)
    BY <1>9 DEF Pull
  <2>2. loaded[c] # None => file \in Dumps
    BY DEF Dumps, TypeOK
  <2> HIDE DEF file
  <2> QED
    BY <2>1, <2>2, SettleJudged
<1> QED
  BY <1>1, <1>2, <1>3, <1>4, <1>5, <1>6, <1>7, <1>8, <1>9 DEF Step

LEMMA NextJudgedInv == TypeOK /\ StageInv /\ StoreInv /\ JudgedInv /\ [Next]_vars => JudgedInv'
<1> SUFFICES ASSUME TypeOK, StageInv, StoreInv, JudgedInv, [Next]_vars
             PROVE  JudgedInv'
  OBVIOUS
<1>0. Stays
  BY NextStays
<1> SUFFICES ASSUME NEW d \in Calls, Answered(d)', ans'[d].by = d
             PROVE  JudgedOf(d)'
  BY DEF JudgedInv
<1>1. CASE ans'[d] = ans[d]
  BY <1>0, <1>1 DEF JudgedInv, JudgedOf, Answered, Stays, Tool, Family
<1>2. CASE ans'[d] # ans[d]
  <2>1. PICK c \in Made : Step(c)
    BY <1>2 DEF Next, Rest, Edit, vars
  <2>2. d = c
    BY <1>2, <2>1, StepFrame, CallTypes DEF OthersStay
  <2> QED
    BY <1>2, <2>1, <2>2, StepJudged
<1> QED
  BY <1>1, <1>2

\* The traces of the versions, and what may be asked about them.
LEMMA TracesAndAssertions ==
  ASSUME NEW v \in Versions
  PROVE  /\ \A s \in Signals : IsTrace(Trace[v][s])
         /\ \A a \in Assertions :
              a.type \in AssertionTypes /\ a.time \in Nat /\ IsTrace(Trace[v][a.signal])
<1>1. \A a \in Assertions : a.type \in AssertionTypes /\ a.time \in Nat /\ a.signal \in Signals
  BY DEF Assertions
<1> QED
  BY <1>1, SimulationAssumption

\* Assertions are asked of fpga_assert and fpga_msim_sim, which dumps for them.
LEMMA WhoAsserts ==
  ASSUME TypeOK, NEW c \in Calls, call[c] # None, call[c].assert # None
  PROVE  call[c].assert \in Assertions /\ (Tool(c) = "assert" \/ (Tool(c) = "sim" /\ call[c].vcd # "no"))
<1>1. call[c] \in Asks
  BY CallTypes
<1> QED
  BY <1>1 DEF Asks, Tool

LEMMA PassedAssertionsHold == SimInv => AssertionsHoldOfOwnRun
<1> SUFFICES ASSUME SimInv, NEW c \in Calls, Answered(c), ans[c].ok, NEW b, b = ans[c].by, NEW a, a = call[c].assert,
                    b \notin crowded \union cut, Tool(c) = "sim", a # None
             PROVE  /\ Evaluate(a, Trace[read[b]], TRUE)
                    /\ ReadAsMeant(a.value) => TrueOf(a, Seen(Trace[read[b]][a.signal], TRUE))
  BY DEF AssertionsHoldOfOwnRun
<1>0. call[c] # None
  <2>1. StageOf(c)
    BY DEF SimInv, StageInv
  <2> QED
    BY <2>1 DEF StageOf, Answered
<1>1. b \in Calls /\ FreshOk(b) /\ call[b] # None /\ Hashed(call[b]) = Hashed(call[c])
  <2>1. b \in Calls
    BY CallTypes DEF SimInv, AnswerInv
  <2>2. CASE b = c
    BY <1>0, <2>1, <2>2 DEF FreshOk
  <2>3. CASE b # c
    <3>1. HitOf(c, b)
      BY <2>3, HitParts DEF SimInv
    <3>2. StageOf(b)
      BY <2>1 DEF SimInv, StageInv
    <3> QED
      BY <2>1, <3>1, <3>2 DEF HitOf, StageOf, FreshOk, Answered
  <2> QED
    BY <2>2, <2>3
<1>2. Tool(b) = "sim" /\ Family(b) = "modelsim" /\ call[b].assert = a
  <2>1. call[b] \in Asks /\ call[c] \in Asks
    BY <1>0, <1>1, CallTypes DEF SimInv
  <2> QED
    BY <1>1, <2>1, HashedSame DEF Tool, Family
<1>3. PassedOwn(b)
  BY <1>1, PassedParts DEF SimInv
<1>5. call[b].vcd # "no" /\ a \in Assertions
  BY <1>1, <1>2, WhoAsserts DEF SimInv
<1>6. loaded[b] = read[b] /\ ans[b].wave # None /\ ans[b].wave.of = read[b] /\ ans[b].wave.whole
  BY <1>1, <1>2, <1>3, <1>5 DEF PassedOwn, OwnRun
<1>7. JudgedOf(b)
  BY <1>1 DEF SimInv, JudgedInv, FreshOk
<1>8. ans[b].wave.blasted = TRUE /\ ans[b].verdict = Evaluate(a, Trace[read[b]], TRUE) /\ ans[b].verdict = TRUE
  <2>1. ans[b].wave.blasted = (Family(b) = "modelsim")
    BY <1>1, <1>2, <1>6, <1>7 DEF JudgedOf
  <2>2. ans[b].wave.blasted = TRUE
    BY <1>2, <2>1
  <2> QED
    BY <1>1, <1>2, <1>6, <1>7, <2>2 DEF JudgedOf, FreshOk
<1>9. read[b] \in Versions
  <2>1. ans[b] \in Answers \union {None} /\ ans[b] # None
    BY <1>1 DEF SimInv, TypeOK, FreshOk, Answered
  <2>2. ans[b].wave \in Views
    BY <1>6, <2>1 DEF Answers
  <2> QED
    BY <1>6, <2>2 DEF Views
<1>10. ASSUME ReadAsMeant(a.value)
       PROVE  TrueOf(a, Seen(Trace[read[b]][a.signal], TRUE))
  <2>1. Evaluate(a, Trace[read[b]], TRUE) = TrueOf(a, Seen(Trace[read[b]][a.signal], TRUE))
    BY <1>5, <1>9, <1>10, TracesAndAssertions, AssertionsReadTraces
  <2> QED
    BY <1>8, <2>1
<1> QED
  BY <1>8, <1>10

LEMMA ReadRight == SimInv => WaveformsAreReadRight
<1> SUFFICES ASSUME SimInv, NEW c \in Calls, Answered(c)
             PROVE  LET w == ans[c].wave  p == ans[c].picture  a == call[c].assert IN
                    /\ p # None /\ p.whole => \A s \in Signals : Drawn[p.of][s][p.blasted][p.filtered]
                    /\ w # None /\ w.whole /\ ans[c].by = c /\ a # None /\ ReadAsMeant(a.value) =>
                         ans[c].verdict = TrueOf(a, Seen(Trace[w.of][a.signal], w.blasted))
  BY Zenon DEF WaveformsAreReadRight
<1> DEFINE w == ans[c].wave
           p == ans[c].picture
           a == call[c].assert
<1>1. w \in Views \union {None} /\ p \in Pictures \union {None}
  <2>1. ans[c] \in Answers \union {None} /\ ans[c] # None
    BY DEF SimInv, TypeOK, Answered
  <2> QED
    BY <2>1 DEF Answers
<1>2. ASSUME p # None, NEW s \in Signals
      PROVE  Drawn[p.of][s][p.blasted][p.filtered]
  <2>1. p.of \in Versions /\ p.blasted \in BOOLEAN /\ p.filtered \in BOOLEAN
    BY <1>1, <1>2 DEF Pictures
  <2>2. DrawsTrace(Trace[p.of], s, p.blasted, p.filtered)
    BY <2>1, TracesAndAssertions, PicturesShowTraces
  <2> QED
    BY <2>1, <2>2 DEF Drawn
<1>3. ASSUME w # None, w.whole, ans[c].by = c, a # None, ReadAsMeant(a.value)
      PROVE  ans[c].verdict = TrueOf(a, Seen(Trace[w.of][a.signal], w.blasted))
  <2>0. w.of \in Versions /\ w.blasted \in BOOLEAN
    BY <1>1, <1>3 DEF Views
  <2>1. call[c] # None
    <3>1. StageOf(c)
      BY DEF SimInv, StageInv
    <3> QED
      BY <3>1 DEF StageOf, Answered
  <2>2. a \in Assertions /\ Tool(c) \in {"sim", "assert"}
    BY <1>3, <2>1, WhoAsserts DEF SimInv
  <2>3. JudgedOf(c)
    BY <1>3 DEF SimInv, JudgedInv
  <2>4. ans[c].verdict = Evaluate(a, Trace[w.of], w.blasted)
    BY <1>3, <2>2, <2>3 DEF JudgedOf
  <2>5. Evaluate(a, Trace[w.of], w.blasted) = TrueOf(a, Seen(Trace[w.of][a.signal], w.blasted))
    <3> HIDE DEF w, a
    <3>1. a.type \in AssertionTypes /\ a.time \in Nat /\ IsTrace(Trace[w.of][a.signal])
      BY <2>0, <2>2, TracesAndAssertions
    <3> QED
      BY <1>3, <2>0, <3>1, AssertionsReadTraces
  <2> QED
    BY <2>4, <2>5
<1> QED
  BY <1>2, <1>3, Zenon

LEMMA InitSim == Init => SimInv
<1> SUFFICES ASSUME Init PROVE SimInv
  OBVIOUS
<1>0. PICK s \in Scenarios :
        /\ call = s.call /\ after = s.after /\ edits = s.edits /\ faults = s.faults
        /\ mirror = [k \in Keys(s) |-> None] /\ store = [k \in Keys(s) |-> None]
        /\ pc = [c \in Calls |-> IF s.call[c] = None THEN "done" ELSE "start"]
  BY DEF Init
<1>1. /\ src \in Versions
      /\ key = [c \in Calls |-> None] /\ ans = [c \in Calls |-> None] /\ got = [c \in Calls |-> Nothing]
      /\ read = [c \in Calls |-> None] /\ loaded = [c \in Calls |-> None] /\ ran = [c \in Calls |-> None]
      /\ lib = [f \in Families |-> None] /\ wave = [f \in WaveFiles |-> None] /\ drawn = [f \in WaveFiles |-> None]
      /\ script = [f \in Scripts |-> None]
      /\ crowded = {} /\ changed = {} /\ killed = {} /\ cut = {}
  BY DEF Init
<1>2. TypeOK
  <2>1. \E t \in Scenarios : call = t.call /\ after = t.after /\ DOMAIN store = Keys(t)
    BY <1>0
  <2>2. edits \in Nat /\ faults \in Nat
    BY <1>0, SimulationAssumption
  <2>3. got \in [Calls -> Transcript]
    BY <1>1, Transcripts
  <2> QED
    BY <1>0, <1>1, <2>1, <2>2, <2>3 DEF TypeOK
<1>3. \A c \in Calls : pc[c] \in {"start", "done"} /\ (call[c] = None => pc[c] = "done")
  BY <1>0
<1>4. StageInv
  BY <1>1, <1>3 DEF StageInv, StageOf
<1>5. AloneInv /\ LocalInv /\ RemoteInv
  BY <1>3, CallTypes, <1>2 DEF AloneInv, LocalInv, RemoteInv, LocalOf, RemoteOf, Busy
<1>6. HashInv
  BY <1>1, <1>2, <1>3, CallTypes DEF HashInv, Busy
<1>7. StoreInv /\ AnswerInv /\ DumpInv
  BY <1>0, <1>1 DEF StoreInv, AnswerInv, DumpInv, Answered
<1>8. PassedRunIsOwn /\ HitRestsOnPass /\ JudgedInv
  BY <1>1 DEF PassedRunIsOwn, HitRestsOnPass, JudgedInv, FreshOk, Answered
<1> QED
  BY <1>2, <1>4, <1>5, <1>6, <1>7, <1>8 DEF SimInv

LEMMA NextSim == SimInv /\ [Next]_vars => SimInv'
<1> SUFFICES ASSUME SimInv, [Next]_vars PROVE SimInv'
  OBVIOUS
<1> USE DEF SimInv
<1>1. StageInv'
  BY NextStageInv
<1>2. AloneInv'
  BY NextAloneInv
<1>3. LocalInv' /\ RemoteInv'
  BY <1>2, NextLocalInv
<1>4. HashInv'
  BY NextHashInv
<1>5. StoreInv'
  BY NextStoreInv
<1>6. AnswerInv' /\ DumpInv'
  BY NextAnswerInv, NextDumpInv
<1>7. TypeOK'
  BY <1>5, NextTypeOK
<1>8. PassedRunIsOwn' /\ HitRestsOnPass' /\ JudgedInv'
  BY NextPassed, NextHit, NextJudgedInv
<1> QED
  BY <1>1, <1>2, <1>3, <1>4, <1>5, <1>6, <1>7, <1>8
-----------------------------------------------------------------------------
\* What a call has read, loaded and run, and what its key, the files and the
\* summaries are of, go together whenever the calls take their steps.
THEOREM SimulationInvariant == Spec => []SimInv
<1>1. Init => SimInv
  BY InitSim
<1>2. SimInv /\ [Next]_vars => SimInv'
  BY NextSim
<1> QED
  BY <1>1, <1>2, PTL DEF Spec

\* The state has its types; only calls that passed are kept, and a do file is
\* written only by the calls of its tool and place.
THEOREM SimulationTypeOK == Spec => []TypeOK
<1>1. SimInv => TypeOK
  BY DEF SimInv
<1> QED
  BY <1>1, SimulationInvariant, PTL

\* A simulation that answers ok by itself has run its own do file on the design
\* it compiled itself, which passes, and names its own whole waveform; but for
\* calls that met another one in the files they share, killed compilers, lost
\* connections and UVM counts that nobody asked for.
THEOREM PassesAreOwnRuns == Spec => []PassedRunIsOwn
<1>1. SimInv => PassedRunIsOwn
  BY DEF SimInv
<1> QED
  BY <1>1, SimulationInvariant, PTL

\* A hit rests on a call with the same options, but for the path of its VCD, that
\* passed by itself on the same listed sources, and the waveform and the picture
\* it names are of what that call simulated or of a later simulation that replaced
\* the file.
THEOREM HitsRestOnPasses == Spec => []HitRestsOnPass
<1>1. SimInv => HitRestsOnPass
  BY DEF SimInv
<1> QED
  BY <1>1, SimulationInvariant, PTL

\* An assertion reported as passed, by a simulation or from the cache, is true of
\* what its sources do when they are simulated, if its value is read as it is
\* meant: of the sources that the call itself compiled, or the call whose summary
\* it was given; of a bus it speaks of the first bit.
THEOREM PassedAssertionsAreTrue == Spec => []AssertionsHoldOfOwnRun
<1> QED
  BY PassedAssertionsHold, SimulationInvariant, PTL

\* What an assertion says of a whole waveform is true of the simulation it comes
\* from, if the value it asks for is read as it is meant, and what is drawn of one
\* is what that simulation did, from both families of simulators; of a bus that
\* ModelSim wrote bit by bit, an assertion and a filtered picture tell the first bit.
THEOREM WaveformsReadRight == Spec => []WaveformsAreReadRight
<1> QED
  BY ReadRight, SimulationInvariant, PTL
-----------------------------------------------------------------------------
(* The run store as a cache: what a step does to what a caller sees. *)

\* A function of which one value changes.
LEMMA OneValue ==
  ASSUME NEW S, NEW f, NEW g, f = [y \in S |-> f[y]], g = [y \in S |-> g[y]],
         NEW x \in S, \A y \in S \ {x} : g[y] = f[y]
  PROVE  g = [f EXCEPT ![x] = g[x]]
OBVIOUS

SameAnswers(S) == \A c \in S : AnswerOf(c)' = AnswerOf(c)

\* One call answers.
LEMMA OneAnswer ==
  ASSUME NEW c \in Calls, NEW a, SameAnswers(Calls \ {c}), AnswerOf(c) = Cache!Open, AnswerOf(c)' = a
  PROVE  Cache!Answer(c, a)
<1> DEFINE f == [d \in Calls |-> AnswerOf(d)]
           g == [d \in Calls |-> AnswerOf(d)']
<1>1. f = [y \in Calls |-> f[y]] /\ g = [y \in Calls |-> g[y]] /\ g[c] = a /\ f[c] = Cache!Open
  OBVIOUS
<1>2. \A y \in Calls \ {c} : g[y] = f[y]
  BY DEF SameAnswers
<1> HIDE DEF f, g
<1>3. g = [f EXCEPT ![c] = a]
  BY <1>1, <1>2, OneValue
<1> QED
  BY <1>1, <1>3 DEF Cache!Answer, f, g

LEMMA OthersSame ==
  ASSUME NEW c \in Made, OthersStay(c)
  PROVE  SameAnswers(Calls \ {c})
BY DEF OthersStay, SameAnswers, AnswerOf, Tool

\* What is kept stays where the store does.
LEMMA SameStore == UNCHANGED store => UNCHANGED [k \in DOMAIN store |-> KeptAt(k)]
BY DEF KeptAt

\* A simulation or a compile that passes by itself is kept under its key.
NewPass(c) == key'[c] = key[c] /\ key[c] \in DOMAIN store /\ store'[key[c]] = c

LEMMA PassIsKept ==
  ASSUME TypeOK, StageInv, HashInv, StoreInv, NEW c \in Made, Step(c), Cached(c), ~Answered(c), FreshOk(c)'
  PROVE  NewPass(c)
<1>0. OthersStay(c) /\ StageOf(c) /\ c \in Calls /\ DOMAIN ans = Calls /\ None \notin Answers /\ None \notin Calls
  BY StepFrame, CallTypes, Domains, SimulationAssumption DEF StageInv
<1>1. ans'[c].ok /\ ans'[c] # Failed /\ ans'[c] # ans[c]
  BY DEF FreshOk, Answered, Failed
<1>2. ASSUME NEW ok \in BOOLEAN, NEW file, NEW v, Busy(c), Reply(c, Fresh(c, ok, file, v)), Keep(c, ok), UNCHANGED key
      PROVE  NewPass(c)
  <2>1. key[c] \in DOMAIN store
    BY <1>2 DEF HashInv
  <2>2. ans'[c] = Fresh(c, ok, file, v)
    BY <1>0, <1>2 DEF Reply
  <2>3. ok
    BY <1>1, <2>2 DEF Fresh
  <2>4. store' = [store EXCEPT ![key[c]] = c]
    BY <1>2, <2>3 DEF Keep, Cached
  <2> QED
    BY <1>2, <2>1, <2>4 DEF NewPass
<1>3. ASSUME NEW file \in Dumps \union {None}, Settle(c, file), Busy(c), UNCHANGED key
      PROVE  NewPass(c)
  <2>1. PICK v \in BOOLEAN \union {None} : \E ok \in BOOLEAN : Reply(c, Fresh(c, ok, Named(c, file), v)) /\ Keep(c, ok)
    BY <1>3, SettleEffect
  <2> QED
    BY <2>1, <1>2, <1>3
<1>4. CASE JudgeCompile(c)
  <2>1. Reply(c, Fresh(c, Compiled(c), None, None)) /\ Keep(c, Compiled(c)) /\ UNCHANGED key /\ Busy(c)
    BY <1>4, <1>1 DEF JudgeCompile, Busy
  <2>2. Compiled(c) \in BOOLEAN
    BY DEF Compiled
  <2> QED
    BY <1>2, <2>1, <2>2
<1>5. CASE Judge(c)
  <2>1. wave[WaveFile(c)] \in Dumps \union {None}
    BY WaveTypes, FileTypes
  <2> QED
    BY <1>3, <1>5, <2>1 DEF Judge, Busy
<1>6. CASE EndRemote(c)
  BY <1>1, <1>3, <1>6 DEF EndRemote, Busy
<1>7. CASE Pull(c)
  <2> DEFINE file == [by |-> c, of |-> loaded[c], whole |-> c \notin cut /\ ~got[c].killed]
  <2>1. UNCHANGED key /\ Busy(c)
    BY <1>7 DEF Pull, Busy
  <2>2. CASE loaded[c] # None /\ Settle(c, file)
    <3>1. file \in Dumps
      BY <1>0, <2>2 DEF Dumps, TypeOK
    <3> HIDE DEF file
    <3> QED
      BY <1>3, <2>1, <2>2, <3>1
  <2>3. CASE Settle(c, None)
    BY <1>3, <2>1, <2>3
  <2> QED
    BY <1>7, <2>2, <2>3 DEF Pull
<1>8. CASE Start(c)
  <2>1. Kept(KeyOf(c))
    BY <1>1, <1>8 DEF Start
  <2> DEFINE b == store[KeyOf(c)]
  <2>2. KeptBy(KeyOf(c), b) /\ ans'[c].by = b
    BY <1>8, <2>1, HitEffect
  <2>3. b = c
    BY <2>2 DEF FreshOk
  <2> QED
    BY <2>2, <2>3 DEF KeptBy, FreshOk
<1>9. CASE Refuse(c) \/ Stage(c)
  BY <1>0, <1>1, <1>9 DEF Refuse, Stage, Reply
<1>10. CASE StartPlain(c) \/ Compile(c) \/ Load(c) \/ Run(c) \/ PutScript(c) \/ Exec(c)
  BY <1>1, <1>10 DEF StartPlain, Compile, Load, Run, PutScript, Exec
<1>11. CASE Assert(c) \/ DrawWave(c) \/ View(c) \/ Exe(c)
  BY <1>11 DEF Assert, DrawWave, View, Exe, Cached
<1> QED
  BY <1>4, <1>5, <1>6, <1>7, <1>8, <1>9, <1>10, <1>11 DEF Step

\* A hit serves the pass that is kept under its key.
LEMMA HitServes ==
  ASSUME TypeOK, StageInv, StoreInv, NEW c \in Made, Start(c), Kept(KeyOf(c))
  PROVE  Cache!Serve
<1> DEFINE k == KeyOf(c)
           b == store[k]
<1>1. /\ k \in DOMAIN store /\ b \in Made /\ KeptBy(k, b) /\ key'[c] = k
      /\ ans'[c].ok = ans[b].ok /\ ans'[c].by = b /\ ans'[c] \in Answers
  BY HitEffect
<1>2. OthersStay(c) /\ c \in Calls /\ ans[c] = None /\ UNCHANGED store /\ call' = call /\ Tool(c) \in {"sim", "compile"}
  <2>1. Step(c)
    BY DEF Step
  <2>2. UNCHANGED store /\ call' = call /\ Tool(c) \in {"sim", "compile"} /\ pc[c] = "start"
    BY DEF Start, Begins
  <2> QED
    BY <2>1, <2>2, StepFrame, CallTypes DEF StageInv, StageOf
<1>3. b # None /\ None \notin Answers
  BY SimulationAssumption DEF Kept
<1> HIDE DEF k, b
<1>4. AnswerOf(c)' = Cache!Pass(b, {k})
  <2>1. ans'[c] # None /\ ans'[c].ok /\ ans'[c].by = b /\ key'[c] = k
    BY <1>1, <1>3 DEF KeptBy, FreshOk
  <2>2. Tool(c)' \in {"sim", "compile"}
    BY <1>2 DEF Tool
  <2> QED
    BY <2>1, <2>2 DEF AnswerOf, Cache!Pass
<1>5. AnswerOf(c) = Cache!Open
  BY <1>2 DEF AnswerOf, Cache!Open
<1>6. Cache!Answer(c, Cache!Pass(b, {k}))
  BY <1>2, <1>4, <1>5, OthersSame, OneAnswer
<1>7. UNCHANGED [l \in DOMAIN store |-> KeptAt(l)]
  BY <1>2, SameStore
<1>8. KeptAt(k) = {b}
  BY <1>3 DEF KeptAt, k, b
<1>9. k \in DOMAIN [l \in DOMAIN store |-> KeptAt(l)] /\ b \in [l \in DOMAIN store |-> KeptAt(l)][k]
  BY <1>1, <1>8
<1> QED
  BY <1>2, <1>6, <1>7, <1>9 DEF Cache!Serve

\* A call that passes by itself: what is kept changes under its key only.
LEMMA PassWorks ==
  ASSUME TypeOK, TypeOK', StageInv, HashInv, StoreInv, NEW c \in Made, Step(c), ~Answered(c), FreshOk(c)'
  PROVE  Cache!Work
<1>0. OthersStay(c) /\ c \in Calls /\ DOMAIN store' = DOMAIN store /\ None \notin Calls
  BY StepFrame, CallTypes, SimulationAssumption DEF OthersStay
<1>1. AnswerOf(c) = Cache!Open
  BY DEF Answered, AnswerOf, Cache!Open
<1>2. CASE Cached(c)
  <2>1. PICK k \in DOMAIN store : k = key[c] /\ key'[c] = k /\ store'[k] = c
    BY <1>2, PassIsKept DEF NewPass
  <2>2. \A l \in DOMAIN store \ {k} : store'[l] = store[l]
    BY <2>1, StoreSteps
  <2>3. AnswerOf(c)' = Cache!Pass(c, {k})
    <3>1. Tool(c)' \in {"sim", "compile"}
      BY <1>0, <1>2 DEF Tool, Cached, OthersStay
    <3> QED
      BY <2>1, <3>1 DEF FreshOk, Answered, AnswerOf, Cache!Pass
  <2>4. Cache!Answer(c, Cache!Pass(c, {k}))
    BY <1>0, <1>1, <2>3, OthersSame, OneAnswer
  <2>5. KeptAt(k)' = {c} /\ \A l \in DOMAIN store \ {k} : KeptAt(l)' = KeptAt(l)
    BY <1>0, <2>1, <2>2 DEF KeptAt
  <2>6. [l \in DOMAIN store |-> KeptAt(l)]'
          = [l \in DOMAIN [m \in DOMAIN store |-> KeptAt(m)] |->
               IF l \in {k} THEN {c} ELSE [m \in DOMAIN store |-> KeptAt(m)][l]]
    BY <1>0, <2>5
  <2>7. {k} \in {{}} \union {{l} : l \in DOMAIN [m \in DOMAIN store |-> KeptAt(m)]}
    OBVIOUS
  <2> QED
    BY <1>0, <2>4, <2>6, <2>7 DEF Cache!Work
<1>3. CASE ~Cached(c)
  <2>1. UNCHANGED store
    <3>1. \A k \in DOMAIN store : store'[k] = store[k]
      BY <1>3, StoreSteps
    <3>2. store = [k \in DOMAIN store |-> store[k]] /\ store' = [k \in DOMAIN store' |-> store'[k]]
      BY DEF TypeOK
    <3> QED
      BY <1>0, <3>1, <3>2
  <2>2. AnswerOf(c)' = Cache!Pass(c, {})
    <3>1. Tool(c)' \notin {"sim", "compile"}
      BY <1>0, <1>3 DEF Tool, Cached, OthersStay
    <3> QED
      BY <3>1 DEF FreshOk, Answered, AnswerOf, Cache!Pass
  <2>3. Cache!Answer(c, Cache!Pass(c, {}))
    BY <1>0, <1>1, <2>2, OthersSame, OneAnswer
  <2>4. [l \in DOMAIN store |-> KeptAt(l)]'
          = [l \in DOMAIN [m \in DOMAIN store |-> KeptAt(m)] |->
               IF l \in {} THEN {c} ELSE [m \in DOMAIN store |-> KeptAt(m)][l]]
    BY <2>1 DEF KeptAt
  <2> QED
    BY <1>0, <2>3, <2>4 DEF Cache!Work
<1> QED
  BY <1>2, <1>3

LEMMA StepCache ==
  ASSUME SimInv, SimInv', NEW c \in Made, Step(c)
  PROVE  [Cache!CacheNext]_(Cache!cacheVars)
<1> USE DEF SimInv
<1>0. OthersStay(c) /\ c \in Calls /\ DOMAIN store' = DOMAIN store /\ ~Answered(c)
  BY StepFrame, CallTypes DEF OthersStay, StageInv, StageOf, Answered
<1>1. CASE Answered(c)' /\ ans'[c].ok
  <2>1. ans'[c] # ans[c]
    BY <1>0, <1>1 DEF Answered
  <2>2. CASE ans'[c].by = c
    BY <1>0, <1>1, <2>2, PassWorks DEF FreshOk, Cache!CacheNext
  <2>3. CASE Start(c) /\ Kept(KeyOf(c))
    BY <2>3, HitServes DEF Cache!CacheNext
  <2> QED
    BY <1>1, <2>1, <2>2, <2>3, StepAnswer
<1>2. CASE ~(Answered(c)' /\ ans'[c].ok)
  <2>1. UNCHANGED store
    <3>1. \A k \in DOMAIN store : store'[k] = store[k]
      BY <1>2, StoreSteps DEF FreshOk
    <3>2. store = [k \in DOMAIN store |-> store[k]] /\ store' = [k \in DOMAIN store' |-> store'[k]]
      BY DEF TypeOK
    <3> QED
      BY <1>0, <3>1, <3>2
  <2>2. UNCHANGED [k \in DOMAIN store |-> KeptAt(k)]
    BY <2>1, SameStore
  <2>3. CASE ~Answered(c)'
    <3>1. AnswerOf(c)' = AnswerOf(c)
      BY <1>0, <2>3 DEF AnswerOf, Answered
    <3>2. UNCHANGED [d \in Calls |-> AnswerOf(d)]
      BY <1>0, <3>1, OthersSame DEF SameAnswers
    <3> QED
      BY <2>2, <3>2 DEF Cache!cacheVars
  <2>4. CASE Answered(c)'
    <3>1. AnswerOf(c) = Cache!Open /\ AnswerOf(c)' = Cache!Failed
      BY <1>0, <1>2, <2>4 DEF AnswerOf, Answered, Cache!Open, Cache!Failed
    <3>2. Cache!Answer(c, Cache!Failed)
      BY <1>0, <3>1, OthersSame, OneAnswer
    <3> QED
      BY <1>0, <2>2, <3>2 DEF Cache!Fail, Cache!CacheNext
  <2> QED
    BY <2>3, <2>4
<1> QED
  BY <1>1, <1>2

LEMMA NextCache == SimInv /\ [Next]_vars => [Cache!CacheNext]_(Cache!cacheVars)
<1> SUFFICES ASSUME SimInv, [Next]_vars
             PROVE  [Cache!CacheNext]_(Cache!cacheVars)
  OBVIOUS
<1>1. ASSUME NEW c \in Made, Step(c) PROVE [Cache!CacheNext]_(Cache!cacheVars)
  BY <1>1, NextSim, StepCache
<1>2. CASE Edit \/ UNCHANGED vars
  <2>1. UNCHANGED <<call, ans, key, store>>
    BY <1>2 DEF Edit, vars, files
  <2>2. UNCHANGED [d \in Calls |-> AnswerOf(d)]
    BY <2>1 DEF AnswerOf, Tool
  <2> QED
    BY <2>1, <2>2, SameStore DEF Cache!cacheVars
<1> QED
  BY <1>1, <1>2 DEF Next, Rest

LEMMA InitCache == Init => Cache!CacheInit
<1> SUFFICES ASSUME Init PROVE Cache!CacheInit
  OBVIOUS
<1>1. \A c \in Calls : AnswerOf(c) = Cache!Open
  BY DEF Init, AnswerOf, Cache!Open
<1>2. \A k \in DOMAIN store : KeptAt(k) = {}
  BY DEF Init, KeptAt
<1>3. [c \in Calls |-> AnswerOf(c)] = [c \in Calls |-> Cache!Open]
  BY <1>1
<1>4. [k \in DOMAIN store |-> KeptAt(k)] = [k \in DOMAIN [l \in DOMAIN store |-> KeptAt(l)] |-> {}]
  BY <1>2
<1> QED
  BY <1>3, <1>4 DEF Cache!CacheInit

\* Simulations and compiles implement the contract of the run cache
\* (ImplementsCache): for every number of calls and versions and every scenario,
\* a call that is answered from the store is answered with the latest pass under
\* its key.
THEOREM SimulationsImplementCache == Spec => ImplementsCache
BY SimulationInvariant, InitCache, NextCache, PTL DEF Spec, ImplementsCache, Cache!CacheSpec
=============================================================================
