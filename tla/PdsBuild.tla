------------------------------ MODULE PdsBuild ------------------------------
(***************************************************************************)
(* pdsRun (toolchains/pango-pds/index.mjs) and the run store it caches in  *)
(* (core/runstore.mjs): headless builds of one PDS project, by one or more *)
(* server processes, while the project's sources are being edited.         *)
(*                                                                         *)
(* A run is a call of pdsRun.  It works in a place: Local, the project     *)
(* directory itself, or a remote host, whose build happens in a private    *)
(* remote directory and is then pulled into the local mirror of that host. *)
(* Contents are abstract: Versions are contents of the project's inputs,   *)
(* and an artifact is identified by the version it was built from.         *)
(***************************************************************************)
EXTENDS Integers, FiniteSets

CONSTANTS
  Runs,       (* the calls of pdsRun                                     *)
  Versions,   (* contents of the inputs                                  *)
  Met,        (* the versions whose build meets timing                   *)
  Local,      (* the project directory                                   *)
  Hosts,      (* the remote hosts                                        *)
  Releases,   (* the releases of PDS: each writes its outputs into       *)
              (* directories of its own (BUILD_DIRS)                     *)
  Scenarios,  (* what callers pass: args[r] = [host, pds, target, backup, *)
              (* cache] or None for a run nobody asks for; edits and      *)
              (* crashes are bounds: edits of the inputs, servers that die *)
  None        (* no artifact                                             *)

Targets == {"compile", "gen_bit_stream"}
Places == {Local} \union Hosts
Content == Versions \union {None}
Keys == [ver : Versions, target : Targets, pds : Releases, host : Places]

ASSUME BuildAssumption ==
  /\ None \notin Versions
  /\ Local \notin Hosts
  /\ Met \subseteq Versions
  /\ Scenarios \subseteq
       [args : [Runs -> [host : Places, pds : Releases, target : Targets, backup : BOOLEAN,
                         cache : BOOLEAN] \union {None}],
        edits : Nat, crashes : Nat]

VARIABLES
  src,        (* the inputs as they are on disk                          *)
  edits,      (* how often they may still be edited                      *)
  out,        (* out[p][v]: what release v has live in p, [sbit, rtr]    *)
  store,      (* store[k]: the summary.json of key k                     *)
  args,       (* args[r]                                                 *)
  pc,         (* where run r is                                          *)
  key,        (* the cache key r computed                                *)
  log,        (* how r's pds_shell ended                                 *)
  pulled,     (* what r's remote build left in its remote directory      *)
  result,     (* what r returned                                         *)
  dead,       (* runs whose server process died                          *)
  crashes,    (* how many more may die                                   *)
  snap,       (* history: the version r's pds_shell compiled             *)
  edited,     (* history: runs whose inputs changed after the hash       *)
  rivals      (* history: rivals[r], runs that used r's place meanwhile  *)

disk == <<src, edits, out, store>>
history == <<snap, edited, rivals>>
vars == <<disk, args, pc, key, log, pulled, result, dead, crashes, history>>

Absent == [kind |-> "absent"]
Torn == [kind |-> "torn"]
NoResult == [kind |-> "none"]
Error == [kind |-> "error"]
NoArtifacts == [sbit |-> None, rtr |-> None]
NoFiles == [v \in Releases |-> NoArtifacts]
NoKey == [ver |-> None]

Place(r) == args[r].host
Own(r) == out[Place(r)][args[r].pds]
WantsBitstream(r) == args[r].target = "gen_bit_stream"

\* hashParts over the hashed inputs, the project's semantics, target, release
\* and host.
KeyOf(r) == [ver |-> src, target |-> args[r].target, pds |-> args[r].pds, host |-> args[r].host]

\* r's pds_shell, or the pull of its outputs, is at work in r's place.
Using(r) == pc[r] \in {"spawned", "compiling", "exited", "pulling", "pulledIn"}
            /\ (Place(r) # Local => pc[r] \in {"pulling", "pulledIn"})

MeetRivals(r) ==
  LET met == {q \in Runs \ {r} : Using(q) /\ Place(q) = Place(r)}
  IN  rivals' = [q \in Runs |-> IF q = r THEN rivals[r] \union met
                                ELSE IF q \in met THEN rivals[q] \union {r}
                                ELSE rivals[q]]

Goto(r, l) == pc' = [pc EXCEPT ![r] = l]
Answer(r, res) == Goto(r, "done") /\ result' = [result EXCEPT ![r] = res]
-----------------------------------------------------------------------------
Init ==
  /\ src \in Versions
  /\ \E s \in Scenarios : args = s.args /\ edits = s.edits /\ crashes = s.crashes
  /\ out = [p \in Places |-> NoFiles]
  /\ store = [k \in Keys |-> Absent]
  /\ pc = [r \in Runs |-> IF args[r] = None THEN "done" ELSE "start"]
  /\ key = [r \in Runs |-> NoKey]
  /\ log = [r \in Runs |-> "none"]
  /\ pulled = [r \in Runs |-> NoArtifacts]
  /\ result = [r \in Runs |-> NoResult]
  /\ dead = {}
  /\ snap = [r \in Runs |-> None]
  /\ edited = {}
  /\ rivals = [r \in Runs |-> {}]

\* The user, or another tool, changes the sources or constraints.
Edit ==
  /\ edits > 0
  /\ edits' = edits - 1
  /\ src' \in Versions \ {src}
  /\ edited' = edited \union {r \in Runs : pc[r] \notin {"start", "done"} /\ snap[r] = None}
  /\ UNCHANGED <<out, store, args, pc, key, log, pulled, result, dead, crashes, snap, rivals>>

\* The path, install and license checks that end a call before it does
\* anything.
Refuse(r) ==
  /\ pc[r] = "start"
  /\ Answer(r, Error)
  /\ UNCHANGED <<disk, args, key, log, pulled, dead, crashes, history>>

\* Seeded fault: the lookup forgets to ask whether the stored build passed.
CachedAnyVerdict(k) ==
  /\ store[k].kind = "summary"
  /\ store[k].named => out[k.host][k.pds].sbit # None

\* The summary.json of a key: a file cut short by a crash does not parse and
\* counts as missing (loadRunJson).
Cached(k) ==
  /\ store[k].kind = "summary"
  /\ store[k].ok
  /\ store[k].named => out[k.host][k.pds].sbit # None

\* Hash the inputs and look the key up; a hit answers with the stored summary.
Lookup(r) ==
  /\ pc[r] = "start"
  /\ key' = [key EXCEPT ![r] = KeyOf(r)]
  /\ LET k == KeyOf(r) IN
     IF args[r].cache /\ Cached(k)
     THEN Answer(r, [kind |-> "hit", ok |-> TRUE, named |-> store[k].named,
                     by |-> store[k].by, served |-> out[k.host][k.pds].sbit])
     ELSE Goto(r, "launch") /\ UNCHANGED result
  /\ UNCHANGED <<disk, args, log, pulled, dead, crashes, history>>

\* Seeded fault: only the directories of the run's own release are moved aside.
LaunchMovesOwnAside(r) ==
  /\ pc[r] = "launch" /\ Place(r) = Local
  /\ out' = IF args[r].backup THEN [out EXCEPT ![Local][args[r].pds] = NoArtifacts] ELSE out
  /\ Goto(r, "spawned")
  /\ MeetRivals(r)
  /\ UNCHANGED <<src, edits, store, args, key, log, pulled, result, dead, crashes, snap, edited>>

\* Local: move the old build directories aside, start pds_shell.
LaunchLocal(r) ==
  /\ pc[r] = "launch" /\ Place(r) = Local
  /\ out' = IF args[r].backup THEN [out EXCEPT ![Local] = NoFiles] ELSE out
  /\ Goto(r, "spawned")
  /\ MeetRivals(r)
  /\ UNCHANGED <<src, edits, store, args, key, log, pulled, result, dead, crashes, snap, edited>>

Without(files, lost) ==
  [v \in Releases |->
     [f \in {"sbit", "rtr"} |-> IF <<v, f>> \in lost THEN None ELSE files[v][f]]]

\* A rename fails: the directories renamed before it stay moved.
MoveAsideFails(r) ==
  /\ pc[r] = "launch" /\ Place(r) = Local /\ args[r].backup
  /\ \E lost \in SUBSET {w \in Releases \X {"sbit", "rtr"} : out[Local][w[1]][w[2]] # None} :
       out' = [out EXCEPT ![Local] = Without(@, lost)]
  /\ Answer(r, Error)
  /\ MeetRivals(r)
  /\ UNCHANGED <<src, edits, store, args, key, log, pulled, dead, crashes, snap, edited>>

\* Remote: make a directory there, push the inputs as they are now, and start
\* pds_shell; any failure closes the connection and answers an error.
LaunchRemote(r) ==
  /\ pc[r] = "launch" /\ Place(r) # Local
  /\ \/ Goto(r, "compiling") /\ snap' = [snap EXCEPT ![r] = src] /\ UNCHANGED result
     \/ Answer(r, Error) /\ UNCHANGED snap
  /\ UNCHANGED <<disk, args, key, log, pulled, dead, crashes, edited, rivals>>

\* pds_shell reads the project's inputs, some time after it was started.
Compile(r) ==
  /\ pc[r] = "spawned"
  /\ snap' = [snap EXCEPT ![r] = src]
  /\ Goto(r, "compiling")
  /\ UNCHANGED <<disk, args, key, log, pulled, result, dead, crashes, edited, rivals>>

\* What a pds_shell that ends so can leave behind: a clean run writes its
\* artifacts; one that fails or is killed at its timeout may have written some.
Left(r, before, how) ==
  LET new == [sbit |-> snap[r], rtr |-> snap[r]]
  IN  IF ~WantsBitstream(r) THEN {before}
      ELSE IF how = "clean" THEN {new}
      ELSE {before, [before EXCEPT !.rtr = snap[r]], new}

\* pds_shell exits.  It goes on even when the server that started it is gone.
Exit(r) ==
  /\ pc[r] = "compiling"
  /\ \E how \in {"clean", "failed"} :
       /\ log' = [log EXCEPT ![r] = how]
       /\ IF Place(r) = Local
          THEN /\ \E a \in Left(r, Own(r), how) :
                    out' = [out EXCEPT ![Local][args[r].pds] = a]
               /\ UNCHANGED pulled
          ELSE /\ \E a \in Left(r, NoArtifacts, how) : pulled' = [pulled EXCEPT ![r] = a]
               /\ UNCHANGED out
  /\ Goto(r, "exited")
  /\ UNCHANGED <<src, edits, store, args, key, result, dead, crashes, history>>

\* Seeded fault: the pull waits for a bitstream to appear.
PullAwaitsBitstream(r) ==
  /\ pc[r] = "pulling" /\ r \notin dead
  /\ pulled[r].sbit # None
  /\ out' = [out EXCEPT ![Place(r)][args[r].pds] = pulled[r]]
  /\ Goto(r, "pulledIn")
  /\ UNCHANGED <<src, edits, store, args, key, log, pulled, result, dead, crashes, history>>

\* Remove the mirror of the host ...
ClearMirror(r) ==
  /\ pc[r] = "exited" /\ Place(r) # Local /\ r \notin dead
  /\ out' = [out EXCEPT ![Place(r)] = NoFiles]
  /\ Goto(r, "pulling")
  /\ MeetRivals(r)
  /\ UNCHANGED <<src, edits, store, args, key, log, pulled, result, dead, crashes, snap, edited>>

\* ... and pull the remote directory into it, file by file: what another run
\* of this host left there and this one did not write stays.
Pull(r) ==
  /\ pc[r] = "pulling" /\ r \notin dead
  /\ \/ /\ out' = [out EXCEPT ![Place(r)][args[r].pds] =
                     [f \in {"sbit", "rtr"} |-> IF pulled[r][f] # None THEN pulled[r][f]
                                                ELSE @[f]]]
        /\ Goto(r, "pulledIn")
        /\ UNCHANGED result
     \/ Answer(r, Error) /\ UNCHANGED out
  /\ UNCHANGED <<src, edits, store, args, key, log, pulled, dead, crashes, history>>

\* The timing reports that collectPdsReports finds: those of every release whose
\* directories are still there, but no file under .pango-mcp, where the mirrors
\* are.  The first one it meets counts, whichever that is.
LiveReports(r) ==
  IF Place(r) = Local THEN {out[Local][v].rtr : v \in Releases} \ {None} ELSE {}
FoundReports(r) == IF LiveReports(r) = {} THEN {None} ELSE LiveReports(r)

\* Seeded faults: a verdict that leaves the timing report out, one that asks
\* every target for it, and one that ends in the path rather than a Boolean.
VerdictIgnoresTiming(r, report) ==
  log[r] = "clean" /\ (WantsBitstream(r) => Own(r).sbit # None)
VerdictTimesEveryTarget(r, report) ==
  /\ log[r] = "clean"
  /\ report \in Met
  /\ WantsBitstream(r) => Own(r).sbit # None
VerdictIsPath(r, report) == IF log[r] = "clean" THEN Own(r).sbit ELSE FALSE

\* evaluatePdsRunSuccess
Verdict(r, report) ==
  /\ log[r] = "clean"
  /\ WantsBitstream(r) => report \in Met /\ Own(r).sbit # None

\* The summary names a bitstream when the log does.
Names(r) == WantsBitstream(r) /\ log[r] = "clean"

\* Parse log and reports, settle the verdict, and open summary.json for
\* writing, which truncates it.
Analyse(r) ==
  /\ pc[r] \in {"exited", "pulledIn"}
  /\ pc[r] = "exited" => Place(r) = Local
  /\ r \notin dead
  /\ \E report \in FoundReports(r) :
       result' = [result EXCEPT ![r] =
         [kind |-> "built", ok |-> Verdict(r, report), named |-> Names(r), by |-> r,
          served |-> Own(r).sbit]]
  /\ store' = [store EXCEPT ![key[r]] = Torn]
  /\ Goto(r, "writing")
  /\ UNCHANGED <<src, edits, out, args, key, log, pulled, dead, crashes, history>>

\* Seeded fault: the inputs are hashed again when the summary is written.
PublishRehashed(r) ==
  /\ pc[r] = "writing" /\ r \notin dead
  /\ store' = [store EXCEPT ![KeyOf(r)] =
       [kind |-> "summary", ok |-> result[r].ok, named |-> result[r].named,
        by |-> r, of |-> result[r].served]]
  /\ Goto(r, "done")
  /\ UNCHANGED <<src, edits, out, args, key, log, pulled, result, dead, crashes, history>>

\* The summary is complete; the call returns.
Publish(r) ==
  /\ pc[r] = "writing" /\ r \notin dead
  /\ store' = [store EXCEPT ![key[r]] =
       [kind |-> "summary", ok |-> result[r].ok, named |-> result[r].named,
        by |-> r, of |-> result[r].served]]
  /\ Goto(r, "done")
  /\ UNCHANGED <<src, edits, out, args, key, log, pulled, result, dead, crashes, history>>

\* The server process of r dies.
Crash(r) ==
  /\ pc[r] \notin {"start", "done"} /\ r \notin dead
  /\ crashes > 0
  /\ crashes' = crashes - 1
  /\ dead' = dead \union {r}
  /\ UNCHANGED <<disk, args, pc, key, log, pulled, result, history>>

Step(r) ==
  \/ Lookup(r) \/ Refuse(r)
  \/ r \notin dead /\ (LaunchLocal(r) \/ MoveAsideFails(r) \/ LaunchRemote(r))
  \/ Compile(r) \/ Exit(r)
  \/ ClearMirror(r) \/ Pull(r)
  \/ Analyse(r) \/ Publish(r)

Stopped(r) == pc[r] = "done" \/ (r \in dead /\ pc[r] \notin {"spawned", "compiling"})

Idle == (\A r \in Runs : Stopped(r)) /\ UNCHANGED vars

Next == Edit \/ (\E r \in Runs : Step(r) \/ Crash(r)) \/ Idle

Spec == Init /\ [][Next]_vars

\* The event loop of a live server runs what is ready, pds_shell is killed at
\* timeoutSec when it does not end, and each SSH transfer ends or fails.  A run
\* takes a bounded number of steps, so that some run steps is all it needs.
FairSpec == Spec /\ WF_vars(\E r \in Runs : Step(r))
-----------------------------------------------------------------------------
(* Properties *)

Artifacts == [sbit : Content, rtr : Content]

TypeOK ==
  /\ src \in Versions /\ edits \in Nat /\ crashes \in Nat
  /\ out \in [Places -> [Releases -> Artifacts]]
  /\ \A k \in Keys : store[k] \in {Absent, Torn} \union
       [kind : {"summary"}, ok : BOOLEAN, named : BOOLEAN, by : Runs, of : Content]
  /\ \E s \in Scenarios : args = s.args
  /\ pc \in [Runs -> {"start", "launch", "spawned", "compiling", "exited", "pulling",
                      "pulledIn", "writing", "done"}]
  /\ key \in [Runs -> Keys \union {NoKey}]
  /\ log \in [Runs -> {"none", "clean", "failed"}]
  /\ pulled \in [Runs -> Artifacts]
  /\ \A r \in Runs : result[r] \in {NoResult, Error} \union
       [kind : {"built", "hit"}, ok : BOOLEAN, named : BOOLEAN, by : Runs, served : Content]
  /\ dead \subseteq Runs
  /\ snap \in [Runs -> Content]
  /\ edited \subseteq Runs
  /\ rivals \in [Runs -> SUBSET Runs]

Built(r) == result[r].kind = "built"
Hit(r) == result[r].kind = "hit"

\* A cache hit rests on a build that finished and passed, for the same target and
\* release on the same host and for the same inputs, and the bitstream it names exists
\* (index.mjs:648-651): a crash while the summary is written, a failed build
\* or another target never produces a hit.
HitIsBacked ==
  \A r \in Runs : Hit(r) =>
    LET b == result[r].by
    IN  /\ pc[b] = "done" /\ Built(b) /\ result[b].ok /\ log[b] = "clean"
        /\ args[b].target = args[r].target /\ args[b].pds = args[r].pds /\ Place(b) = Place(r)
        /\ key[b].ver = key[r].ver
        /\ result[r].named => result[r].served # None

\* Nothing but r's own release has left a report in its place: r has moved the
\* old build directories aside, or no other release has compiled there.
OneRelease(r) ==
  \/ args[r].backup
  \/ \A q \in Runs : snap[q] # None /\ Place(q) = Place(r) => args[q].pds = args[r].pds

\* A build that is reported as passed ended clean.  Unless another run used the
\* same place meanwhile, a bitstream it reports is of the version pds_shell
\* compiled; and that version meets timing, unless the run was told to keep the
\* old build directories (backupOldBuildDirs:false) where another release has
\* built, whose report may be found first: an old report of its own release, or
\* one that was moved aside, never decides the verdict.
VerdictSound ==
  \A r \in Runs : Built(r) /\ result[r].ok =>
    /\ log[r] = "clean"
    /\ WantsBitstream(r) /\ rivals[r] = {} =>
         result[r].served = snap[r] /\ (OneRelease(r) => snap[r] \in Met)

\* What the store holds under a key was concluded by a run that computed that
\* key; when it says a bitstream passed, no other run shared the place and no
\* input changed between the hash and the compile, that bitstream was built
\* from exactly the inputs the key stands for, and they meet timing unless the
\* report of another release was left beside it.
StoreDescribesKey ==
  \A k \in Keys : store[k].kind = "summary" =>
    LET b == store[k].by
    IN  /\ key[b] = k /\ Built(b) /\ store[k].ok = result[b].ok
        /\ store[k].ok /\ k.target = "gen_bit_stream" /\ rivals[b] = {} /\ b \notin edited =>
             store[k].of = k.ver /\ (OneRelease(b) => k.ver \in Met)

\* The bitstream that a hit names is there; one of other inputs has one of two
\* causes: the inputs changed between the hash and the compile of the build it
\* rests on, or another run of that place and release has written the file.
StaleHitHasCause ==
  \A r \in Runs : Hit(r) /\ result[r].named =>
    /\ result[r].served # None
    /\ result[r].served # key[r].ver =>
         LET b == result[r].by
         IN  b \in edited \/ \E q \in Runs \ {b} :
               snap[q] = result[r].served /\ Place(q) = Place(r) /\ args[q].pds = args[r].pds

\* A clean build of inputs that meet timing, undisturbed in its place and with
\* no report there but its own release's.
DuePass(r) ==
  /\ Built(r) /\ log[r] = "clean" /\ rivals[r] = {} /\ OneRelease(r)
  /\ WantsBitstream(r) => snap[r] \in Met

\* A local build that deserves to pass does.
LocalVerdictComplete ==
  \A r \in Runs : DuePass(r) /\ Place(r) = Local => result[r].ok

\* The same for every place: index.mjs:601-604 says one analysis path serves
\* local and remote builds, with no device-specific result logic.
VerdictComplete == \A r \in Runs : DuePass(r) => result[r].ok

\* Builds one after the other, no edit inside one: a hit serves a bitstream of
\* the inputs it was asked about (runstore.mjs:3-6: when the inputs are
\* unchanged the tool returns the cached summary instead of re-running).
HitServesItsInputs ==
  (\A q \in Runs : rivals[q] = {} /\ q \notin edited) =>
    \A r \in Runs : Hit(r) /\ result[r].named => result[r].served = key[r].ver

\* The store as RunCache knows it: what a run that has returned answered, and
\* whose pass the summary under a key tells of.
AnswerOf(r) ==
  IF pc[r] # "done" \/ result[r].kind = "none" THEN [kind |-> "open"]
  ELSE IF result[r].kind = "error" \/ ~result[r].ok THEN [kind |-> "failed"]
  ELSE [kind |-> "pass", by |-> result[r].by, keys |-> {key[r]}]

KeptAt(k) == IF store[k].kind = "summary" /\ store[k].ok THEN {store[k].by} ELSE {}

Cache == INSTANCE RunCache WITH
  Calls <- Runs,
  answer <- [r \in Runs |-> AnswerOf(r)],
  kept <- [k \in Keys |-> KeptAt(k)]

\* Builds implement the cache's contract (runstore.mjs:3-6): a lookup serves the
\* latest pass under its key or nothing, through failures and torn summaries.
ImplementsCache == Cache!CacheSpec

\* Every call returns, unless its server dies.
EveryRunReturns ==
  <>(\A r \in Runs : pc[r] = "done" \/ r \in dead)
=============================================================================
