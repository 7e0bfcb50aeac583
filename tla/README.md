# pango-mcp in TLA+

pango-mcp is an MCP server, one Node process per client, that builds FPGA designs with Pango
Design Suite, writes them to boards, captures waveforms, simulates, and keeps what was verified in
a knowledge vault. These modules specify the parts of it where steps of several actors meet: builds
that share a directory and a cache, calls that share a board, its cable or the debugger's window, servers
that share a machine or a vault. TLC checks them on small instances; TLAPS proves the safety properties for every value
of the constants. Paths below are relative to the repository, and `pango-pds/` stands for
`src/toolchains/pango-pds/`.

## 1. The system

| Component | State it keeps | Operations | Meets others through |
|---|---|---|---|
| Headless build `pdsRun` (`pango-pds/index.mjs`, `reports.mjs`, `core/runstore.mjs`) | project directory, mirror per host, `.pango-mcp/runs/<key>/` | `fpga_pds_run`, `fpga_pds_compile`, each batch variant | project directory, run store, SSH |
| Batch pool (`pango-pds/batch.mjs`) | cursor, envelopes | `fpga_pds_batch` | calls `pdsRun` for each variant |
| Device tools (`pango-pds/index.mjs`, `jtag.mjs`, `device-gate.mjs`) | the board, its cable, the resident `cdt_js` | `fpga_flash_sram`, `fpga_flash_spi`, `fpga_cdt`, `fpga_ila_flow`, scans | one cable per place; `taskkill` by image name |
| Bare JTAG (`pango-pds/jtag/*.py`, `jtag-cli.mjs`) | FTDI handle, SVF cache beside the bitstream | `fpga_jtag_scan/flash/capture/poll/gen_svf` | the same cable, without `cdt_js` |
| GUI and console (`gui.mjs`, `ila_capture.mjs`, `console.mjs`) | a debugger window, a scheduled task | ILA open/capture/export, Tcl console | the cable; a fixed task name |
| Executors (`core/executor.mjs`, `core/exec.mjs`) | one SSH connection, one SFTP channel | run, stage, pull, GUI helper, close | everything remote |
| Lifecycle (`core/lifecycle.mjs`, `core/server-instances.mjs`) | the machine's processes | stdio shutdown, `fpga_server_cleanup` | other servers, by PID |
| Vault and trace (`core/vault*.mjs`, `core/trace.mjs`) | Markdown entries, JSON lines | capture, recall, search, impact scan | files that several servers write |
| Simulation (`toolchains/modelsim/`, `toolchains/sim/`, `core/vcd.mjs`, `core/assert.mjs`, `core/waveform.mjs`) | `._fpga_msim/` with library, do files and `sim.vcd`; files of `fpga_sim`; run store; mirror per key | `fpga_msim_*`, `fpga_sim`, `fpga_assert`, `fpga_wave` | calls share the directory |
| Retrieval, parsers of reports, netlists, configuration | none, or caches | sequential | files |

What makes each one correct, and hard:

* **Builds.** A verdict is about this build's artifacts, not about what lies on disk; a cache hit
  rests on a build that passed, for these inputs. Hard: minutes pass between hashing, compiling and
  judging; two servers may build one project; a server may die; releases of PDS write different
  directories, all of which are searched for reports; remote outputs travel through a shared mirror.
* **Batch.** Each variant is built once, failures stay with their variant, concurrent builds never
  share a tree, the pool is bounded. Hard: a cursor shared across awaits, and path arithmetic.
* **Devices.** Nothing is written without confirmation and a scan of the expected device; ok means the
  image is whole; nothing goes on writing behind the caller's back. Hard: scan and write are apart,
  SSH timeouts leave scripts running, each call's cleanup hits other calls' servers, boards change.
* **Cleanup.** A server that has a living client is never killed. Hard: PIDs are reused between
  probe, probe, kill and probe.
* **Executors.** One connection per call, always closed. A connection that was lost or could not be made is
  not made again: that failure ends with the call (`_conn` and a rejected `_connecting` are never cleared).
* **GUI.** An ok is about the call's own script, a script that writes runs only on the expected board,
  every call returns. Hard: one task name for all console calls, one input box, modal dialogs, a click
  that is not awaited, connections that end under a command.
* **Vault.** Evidence is not lost; a recalled or promoted entry is not rewritten; a recall finds who used
  an entry. Hard: whole-file read-modify-write by several servers and an editor, appends that are cut.
* **Simulation.** A pass is the call's own simulation of its own sources; a hit rests on one; what is read
  out of a waveform is what was simulated. Hard: fixed file names in one directory, a hash of the listed
  files only, transcripts instead of exit codes, buses that ModelSim writes bit by bit.

## 2. The modules

| Module | Models | Proofs |
|---|---|---|
| `BatchContract` | what a batch promises, without workers | |
| `PdsBatch` | `validatePdsBatchVariants`, `executePdsBatch` | `PdsBatch_proofs` |
| `RunCache` | what the run store promises its tools, without runs or files | |
| `PdsBuild` | `pdsRun`, run store, verdict | `PdsBuild_proofs` |
| `DeviceFlow` | the tools that write a device | `DeviceFlow_proofs` |
| `OrphanReaper` | `reapOrphanedServerInstances`, the inventory | `OrphanReaper_proofs` |
| `KnowledgeVault` | the vault store and tool, and the trace files | `KnowledgeVault_proofs` |
| `GuiSession` | console, ILA open and capture, over the executors | `GuiSession_proofs` |
| `Waveform` | what is read out of a VCD (no state) | `Waveform_proofs` |
| `Simulation` | the ModelSim tools, `fpga_sim`, and the readers of their VCDs; EXTENDS `Waveform` | `Simulation_proofs` |
| `MC*` | their instances for TLC | |

Each module that is checked holds, beside its definitions, a few named `Seeded fault`: variants of a
definition with one plausible mistake. They belong to no specification; substituting one for the
definition it stands before must make TLC report the property `PROJECT.json` pairs it with, which
shows that the property depends on that piece of the code.

### PdsBatch

An `async` worker runs without interruption between awaits, so the unit of interleaving is the stretch
from one await to the next. `StartWorkers` is the synchronous `Array.from` in which worker w takes
slot w; `Settle(w)` is everything that follows the end of a build (store the envelope, or the one the
`catch` makes, read and advance the cursor, start the next build or return); `Return` is what follows
`Promise.all`. `Valid` is the validation: `dir` is the canonical directory as a sequence of path
components, and `ContainsPath` keeps what `path.relative` and `startsWith("..")` make of it, including
directories whose name begins with two dots (`DotNames`). Whether a variant is well formed and keeps
its outputs local are Booleans of the request. The cursor counts from 1. `runs` and `outcome` are
history.

### PdsBuild

`pc` follows `pdsRun`: `start`, (hit: `done`), `launch`, `spawned`, `compiling`, `exited`, for a remote
run `pulling` and `pulledIn`, `writing`, `done`. Contents are abstract: a version stands for the
hashed inputs, an artifact is named by the version it was built from, and a report says of a version
whether it meets timing (`Met`). A local run works in the project directory and a remote one in a
private directory, so only its pull touches a shared place, the mirror of its host. `Exit` may leave
any prefix of its artifacts when `pds_shell` fails or is killed. `Analyse` judges, and opens
`summary.json`, which truncates it; `Publish` completes it; a crash between the two leaves a torn
file. `out` has the bitstream and the report of each release of PDS apart, since releases write different
directories (`BUILD_DIRS`), which `backupOldBuildDirs` moves aside together, one rename after the other.
`LiveReports` is the file filter of `collectPdsReports`, and of the reports it lets through any may be the
first one met (`FoundReports`). A host that lacks the release asked for uses another one's shell, and the key
keeps the release asked for (`index.mjs:614-617`); in the model a host has all of them. Targets are two: one that promises a
bitstream (and so a timing report) and one that does not; `report_timing`, which promises only the
report, is not told apart. A scenario says what each run is asked (None for a run that is not made), and
how many edits and deaths may still come; both count down. `pds_shell` and the user's edits are external. `snap`, `edited` and
`rivals` are history: what was compiled, whose inputs changed between hash and compile, and who used
the same place meanwhile.

### RunCache

The contract of `core/runstore.mjs` that `pdsRun` and the ModelSim tools share. `answer[c]` is open, failed or
a pass, with the call it is of and its key, if its tool has a cache; `kept[k]` is the call whose pass can be
read under a key. A call answers once (`Fail`, `Work`, `Serve`), what is kept is the last pass
under the key, and it may be lost (`Forget`: a summary that is torn or did not pass writes over it). A
mirror that is overwritten, a file that changes under a path, an edit: none of it is in the contract, and
whatever they do to a run, they do not change what the store serves. `PdsBuild` and `Simulation` map
their stores and answers to it in `AnswerOf` and `KeptAt` (`ImplementsCache`): in `PdsBuild`, `Analyse` forgets,
`Publish` works or fails and a hit serves; in `Simulation` the step that answers also keeps.

### DeviceFlow

One module for the tools that write, because they meet on the cable. A call goes through `Gate`,
for the ILA flow `KillGui`, then `Scan`, `Collect` or `Timeout`, for a remote call `Sweep` (the
`finally` of `runCdtRemote`), `JudgeScan`, `Run`, again `Collect`/`Timeout`/`Sweep`, `JudgeRun`, and
for the ILA flow `OpenGui`, `Capture`, `KillGui`. The script a call has started is an actor of its own
(`ScriptStep`): at a remote host it runs on after an SSH timeout. `Touch` is its first effect on the
configuration memory, `Finish` the `done bit`, verify or `FLASH OK` that the tools look for. `image`
says whose design the memory holds and whether all of it arrived. `Throw` stands for the exceptions:
missing executables, a `cdt_js` that does not answer, a lost host. `KillServers` is `taskkill` by
image name, which fails the scripts of every call at that place. The device, the cable, `cdt_js` and
the person who exchanges boards are external; what the model assumes of them is that a `cdt_*` script
which fails prints an `E:` line or exits non-zero, as every ok test of the tools does, and that an
IDCODE without its revision tells devices apart. Whether a script writes (`detectMutatingCdt`) and
whether an expected IDCODE is known are Booleans of the call.

### OrphanReaper

The machine (`Tick`, `Start`, `Exit`) and one call of the cleanup (`Probe`, `Reprobe`, `Kill`, `Wait`,
`Verify`, or `NoInventory` at any of the three probes). The inventory sees PIDs, parent PIDs and
creation times. `from`, the creation time of the process that really started a server, is what it
cannot see, and defines `Orphan`; `Ownership` is the classification the code makes without it, with
the tolerance `Slack` for a parent that looks younger than its child. Every start has a creation time
of its own. A kill goes by PID, to whoever has it then, and its effect may come later.

### KnowledgeVault

An entry is its curated part (`dec`: tier, status, recall state, whether it validates), its evidence, and
whether its body is whole; scores, wording and the quality check are left out. Inside one server
everything from the read of an entry to its write is synchronous, but several servers and an editor work
on the same files, so a capture is `ReadEntry`, `OpenEntry` (`writeFileSync` truncates), `WriteEntry`, and
a reader may meet the file in between (`Reads`). A search or a validation reads the directory and then
each entry (`ReadListed`); `Get` and `Recall` read one. `Log` is the append to a trace file, one per
session or one shared by all (`Modes`): it may fail or be cut, which nobody reports, and the row
after a cut line is lost with it. `Crash` leaves an entry torn, `Restart` opens a new session, `Load`, `Save` and
`Discard` are the curator's. A mode also says whether a scan takes the configured trace file: `Collected` is
`collectTraceFiles`, which passes over a file that is not named `*.jsonl` or lies too deep, without a word.
`stale` and `raced` are the history that says whose copy was overtaken and
which entries were therefore written over; `told` and `lost` say which uses were announced as traced and
which never reached the file whole; `hidden`, in a listing, which entries stood recalled when it read them.

### GuiSession

A step of a call on the desktop is a job: `Stage` makes its work directory and starts a driver script;
the driver deletes and creates a scheduled task (`Register`), runs the task of that name (`RunTask`) and
waits for the out file (`Await`); the helper the task starts acts on the GUI (`Type`, `Enter`, `Look`,
`ClickSearch`, `SendKeys`, ...). Every console job uses the one name `<<"console">>`; the others have
names of their own, and register and run in one step. The debugger has one input box, at most one
dialog, and a console that runs the scripts it was given in order (`StartExport`, `EndScript`) and prints
a transcript. The driver prints the out file in its last moments, so a connection is lost before it has printed
or after, not halfway through; and a capture script that the task runs twice exports its waveform once. (The
code would take the half of a print for the answer, `console.mjs:108`, and export again.) `ilaOpen` does not await its click, hence two threads per call. `conn` is the executor's
connection: `CutOff` is a command whose stream ends without an exit code, which `exec` takes for code 0;
`CommandTimeout` lets a remote driver go and kills a local one, whose task stays. The debugger, the
scheduler and the board are external. `together` (drivers that overlapped), `behind` (typed while
console or box was another's) and `late` (closed under a click) are history.

### Waveform and Simulation

`Waveform` has the files as the simulators write them (Icarus a vector without redundant leading bits,
ModelSim each bit as a variable of its own) and the functions that read them: `ValueAt`, `LogicEqual`,
`Evaluate` for the three VCD assertions, `Combined`, `Track` and `Segments` for the drawing. A trace gives
the value of one scalar and one bus at each time; it may be of any length, and the bus of any width.
`Spare` are the leading bits that extension gives back. A value that is asked for is kept with the way it is
written (`Forms`): as bits, as a number, as a decimal text of 0s and 1s, as such a text after `0x`, or in any other way;
`LogicEqual` reads it as the code does, `Meant` is the number a user means by it, and `ReadAsMeant` says
where the two agree. (A decimal text with other digits is read as the number it is; fractions, which `BigInt`
refuses, are left out.) `Track` with a
filter by names takes the first variable that fits. `TrueOf` says of a trace what an
assertion asks of its file, and `DrawsTrace` that the segments drawn show it; `Seen` is the part of a bus that
they see.

`Simulation` has the calls on one directory. A local `fpga_msim_sim` removes the library, compiles,
writes its do file, loads and runs, and judges transcript, VCD and assertions (`Start`, `Compile`,
`JudgeCompile`, `Load`, `Run`, `Judge`); a remote one stages into a directory of its own, puts its do file
there, executes one chained command and pulls the VCD into the mirror of its key (`Stage` to `Pull`).
`fpga_sim` has files of its own (`Family`), `fpga_msim_do` writes no library, `Assert`, `DrawWave`, `View`
read the VCD that is there, `Exe` runs one tool. Only `fpga_assert`, and a `fpga_msim_sim` that dumps, are
given an assertion (`Asks`). The cache key holds the options, of which the VCD's path is reduced to whether
there is one (`Hashed`), and `Listed[src]`, the
files named in the source list: what these include is not hashed, and `MCSimulation` has two versions
that differ only there. A transcript is what the verdict looks at: the `Errors:` summary, fatal lines,
error lines, UVM counts, the exit code; the counts are read only by an `fpga_msim_sim` that asks for them,
and a version whose `Result` is `"counts"` fails by them alone. `WaveFiles` are the VCDs of the two simulators and one more
path that `fpga_msim_sim` may be given; a picture lies beside its VCD. `fpga_msim_do` passes over a file it cannot put on the
host. Left out: `cache: false`, `waveOpen`, VCD paths for `fpga_sim`, a library name of the
caller's (others than the default only separate calls), coverage, hints, GUI mode. `crowded`, `changed`,
`killed` and `cut` are the history that names the exceptions in the properties.

## 3. What the runs check

| Run | Instance | Shows |
|---|---|---|
| `batch` | batches of 0 to 5 variants (maxima 4 and 2), disjoint and overlapping ones, one or two workers asked | all batch properties, and that the pool implements `BatchContract` |
| `batch_dots` | two variants, one in `..b` below the other | **violated** `DisjointBuilds` |
| `build` | three local default calls, two versions, two edits; or two calls of any kind, local and one host, one edit, one crash; or a build by one release after one by another | what the store says of a key, that it implements `RunCache`, hits and the causes of stale ones, verdicts, completeness of local ones, termination |
| `build_stale_hit` | three builds one after the other | **violated** `HitServesItsInputs` |
| `build_remote_verdict` | one remote build | **violated** `VerdictComplete` |
| `device` | two calls on one board in six pairs, one retry, one exchange of boards | gate, wrong device, whole image, no script left, GUI accounted for, termination |
| `device_bare_replay` | one bare flash, one exchange | **violated** `ReplayStopsAtIdcode` |
| `device_remote_cdt` | one remote `fpga_cdt` | **violated** `RemoteCdtOkMeansWhole` |
| `reaper` | the server, its client, two more PIDs, six ticks, three kinds of call | who is killed, what is reported, termination |
| `vault` | two servers and a curator, one entry, three calls, one edit, one death or failed append, three trace modes | what entries keep, who is left alone, that recalls are obeyed and find the uses |
| `gui` | one remote call, or two local ones, in seven scenarios, one refused task or lost connection | whose work an ok is, when scripts run, connections, termination |
| `msim` | three calls of eight tools in twenty scenarios, five versions of the sources, up to two edits, one failed connection or pull | whose work a pass is, what hits rest on, what is read out of waveforms |

Every bound is a constant of its module. They are enough for what the properties tell apart: a
variant beyond the first two waits for the cursor as the third does; a stale hit needs a build, another
that overwrites it and a lookup; a rival is one other call; a wrong write needs one exchange; PID
reuse needs a process that dies and one that comes, twice, for parent and server. In `device` the pairs
replace all pairs of calls: each tool is met by one that disturbs it (a GUI flow that kills its
server, a bare replay that takes its cable), and calls at different places share no variable.
In `build` another release is a second one, asked for by the first of two calls, as one report that is not the
build's own is enough; two calls of different kinds are made by the two runs in one order only, as the runs are alike.
The three edited calls are alike too, so `Turn` fixes the order in which the first two begin; it
also lets the third begin only after both have stopped, which keeps the instance small: three builds at
once are not explored, two at once are. In `vault` a second entry would share nothing with the first
but the directory listing. In `gui` two calls meet on the local host, where only the shared names and the
GUI join them, and a remote one meets faults alone: each call has a connection of its own. In `msim` the
scenarios replace all triples of calls: repeated, asserted, concurrent, shown and remote ones.

### Disagreements between code and documents

The five violated runs each check one sentence of the repository; `PROJECT.json` quotes it and names
the line.

1. A variant directory named `..b` is not recognised as lying inside its parent, so two builds share a tree.
2. A cache hit checks that the bitstream's path exists. Build, edit, build, undo, build: the third call
   returns the first summary, and the path in it holds the second bitstream.
3. Reports of a remote build are pulled to a directory whose files count as history, so a remote
   bitstream build is never ok.
4. The IDCODE check inside an SVF does not stop the replay; it only fails the final report.
5. A remote `fpga_cdt` that times out may answer ok.

The properties that hold are worded around these: `StaleHitHasCause`, `StoreDescribesKey` and `ImplementsCache` say what
remains true of the cache, `LocalVerdictComplete` that local verdicts are complete, `OkMeansWhole`
leaves out remote `fpga_cdt`, and `WrongDeviceOnlyBySwap` that a wrong device needs the exchange.

Other properties name, as exceptions, what the code lets happen and no document denies:

* `PassedRunIsOwn`, `HitRestsOnPass`: calls that share a directory share its files; a compile whose
  compiler was killed prints no error and passes; a remote command cut off by a lost connection counts as
  code 0, and such a pass is cached; files that are included but not listed do not change the key; a bench
  that fails by its UVM counts alone passes for all but an `fpga_msim_sim` with `uvm:true`. Two calls that differ in the
  VCD's path have one key, so a hit may name the other path's file: `HitRestsOnPass` speaks of the file it names.
* `VerdictSound`, `StoreDescribesKey`, `LocalVerdictComplete`: a build that was told to keep the old build directories
  (`backupOldBuildDirs:false`) where another release has built may be judged by the other one's report
  (`OneRelease`). Run `build` has that build; one that moves the directories aside is never so judged.
* `RecallFindsUses`: uses traced into a file that scans pass over (`Collected` is empty) are told and never found.
* `WaveformsAreReadRight`: of a bus that ModelSim wrote bit by bit, an assertion, and a picture with a filter by
  names, see the first bit only; the property says so, rather than leave these out. It speaks of values that are
  read as they are meant: one with unknown bits is compared as a text, from which the simulator has left out
  spare bits, a decimal text of 0s and 1s is read in base 2, and `8'hff`, `FF`, `true` or `0x..` equal no value of a
  signal that is known, so that `vcd_never_eq` passes whatever the signal does.
* `OkIsOwnWork`: the transcript's new part begins with another call's text when the console was busy; a
  capture pulls its waveform also when the console had timed out.
* `ScriptsRunAsAllowed`: one task name, so a script may run twice when drivers overlap.
* `NoConnectionOutlivesCall`: a click that is not awaited may connect again after `close`.
* `EntryKeepsWhatItWasGiven`, `ServersLeaveCuratedAlone`, `RecallIsObeyed`: entries are written back
  whole, so an overlapping write takes back what was stored in between, a recall included.

### Fairness

* `PdsBatch`: each worker's settling, because `pdsRun` is bounded by `timeoutSec`, and the event loop
  runs what is ready.
* `PdsBuild`: that some run steps while one can, for the same reason; each step moves its run forward, so
  this is enough for all. A run whose server has died is excused.
* `DeviceFlow`: each call's steps, because every await has a timeout. Nothing is assumed of scripts: a
  hanging one is dealt with by `Timeout`. Weak fairness of the whole call is enough because each
  step of a call moves its `pc` forward or spends a retry.
* `OrphanReaper`: the call's steps; inventories are limited to five seconds and there is one timer.
  Nothing is assumed of the machine.
* `GuiSession`: that some client thread steps while one can: every command has a time limit, and local
  timers run. Nothing is assumed of the host, the scheduler, the GUI or the console.
* `KnowledgeVault` and `Simulation` state none; their properties are safety properties.

Deadlock is checked everywhere: the states in which a system may stop have a stuttering action of
their own (`Finished`, `Idle`, `Rest`, `Done`), in `KnowledgeVault` when every server is idle.

## 4. What is proved

For any number of variants, calls, places, devices, PIDs and any bounds:

* `PdsBatch_proofs`: type correctness, `EachVariantOnce`, `AnswerIsHonest`, `WithinAskedParallel`,
  `DisjointBuilds` (under the stated assumption that no directory name begins with two dots, which is
  what makes it true), and the refinement of `BatchContract`. The invariant ties cursor, `task`,
  `runs` and `envelope` together: slots before the cursor have been started once and are either in
  one worker's hands or have an outcome; slots from the cursor on are untouched. `EachVariantOnce`
  alone is not inductive: it does not say why the slot under the cursor is nobody's.
* `DeviceFlow_proofs`: type correctness and all five safety properties. The invariant adds to them
  what each stage of a call guarantees: `GateInv` (past the gate a writing call is confirmed and its
  device known; at its launch, and while its script is open or writing, it has also seen the device it
  expects; before that nothing is open or written), `FootInv` (whoever's image is in a place's memory
  called at that place and really wrote), `BoardInv` (what the last scan read is still on the bench
  unless the board was exchanged), `WholeInv` (a torn image belongs to a script that is writing or has
  failed; a call that is ok saw its script end clean, a remote `fpga_cdt` apart), `AwaitInv` (a live
  script is awaited, or waits for the sweep, or escaped it), `GuiInv` (a GUI that is up belongs to a
  flow that needs it or left it), and `TriesInv` (retries).
* `OrphanReaper_proofs`: type correctness, `OwnedServersSurvive`, `VictimsWereListed`,
  `ReportIsTrue`. The argument: processes are ordered by age (`WorldInv`), a process that takes an
  orphan's parent's PID is younger than the orphan, so an orphan stays one; therefore a target that
  still runs is the orphan the second inventory saw, or took its PID since (`TargetInv`). The
  classification errs on one side only (`ClassifiedOrphansAreOrphans`), for any `Slack`.

* `PdsBuild_proofs`: type correctness, `HitIsBacked`, `VerdictSound`, `LocalVerdictComplete`,
  `StaleHitHasCause`, `StoreDescribesKey`. `KeyInv` says what a run under way has asked the store for,
  `SnapInv` that it compiles what it hashed unless the inputs were edited in between, `OriginInv` that an
  artifact was compiled by some run of its place, `PlaceInv` that two runs in one place are each other's
  rivals, so that what a run without rivals wrote is still there when it is judged, `ResultInv` what
  a verdict follows from, and `StoreInv` that a summary is the finished result of a run with that very
  key. The last part is what makes a hit's soundness inductive: the hit looks at the store only, long
  after the inputs and the artifacts it was made of are gone. `HitIsBacked`
  (a hit rests on a run of the same inputs, target and host that ended clean) is proved only; run `build`
  checks the refinement of `RunCache` in its place. That refinement, `BuildsImplementCache`, has one lemma
  per kind of step (`HitServes`, `AnalyseForgets`, `PublishKeeps`, and `Unkept` for all that leave the store
  alone). In `VerdictSound` the report that is found is any of those in the
  place; that a build which moved the old directories aside finds none but its own rests on `PlaceInv` and on what
  `LaunchLocal` does to every release's directories. `RemoteBitstreamsFail` goes beyond the third disagreement above: not in one run but in every one, a remote bitstream build does not pass.
* `KnowledgeVault_proofs`: type correctness, `EntryKeepsWhatItWasGiven`, `RecallIsObeyed`,
  `RecallFindsUses`, and the action property `ServersLeaveCuratedAlone`. The files are rewritten whole, so
  everything turns on whose copy is stale: while one actor writes an entry all other copies of it are
  stale (`StaleInv`), a server about to write from a copy that is not has seen the file as it is
  (`FreshInv`), and an entry, or a copy, that nobody wrote from a stale one has all its evidence and
  the curator's last word (`EntryInv`). `SearchInv` follows a listing from its first entry to its answer,
  `TraceInv` says that a use that was told and not lost is in some file.
* `GuiSession_proofs`: type correctness, `OkIsOwnWork`, `ScriptsRunAsAllowed`,
  `NoConnectionOutlivesCall`. A script gets to the console by its driver, its task and its helper,
  each only after the one before (`PlaceInv`), so what was checked when it was staged still protects it
  when it runs (`AllowedInv`); a call never has the drivers of two of its scripts at once (`DriverInv`),
  so with one task name another's task is met only by calls that overlap (`TaskInv`), and every other script
  is in one place at a time: box, queue or run (`OnceInv`). A helper that typed while the console was
  nobody's has it to itself until it has seen its sentinel (`AloneInv`, `SentinelInv`), hence what it
  reports is its own (`ReportInv`). `LinkInv` ties the connection to the call's two threads.
* `Simulation_proofs`: type correctness, `PassedRunIsOwn`, `HitRestsOnPass`. `StageInv` says what a call
  has read, loaded and run by each stage; two calls under way in the same files have met (`AloneInv`),
  so one that has met nobody finds there what it put there: its library, its do file, its dump
  (`LocalInv`), and on a host its do file in the copy that is sent (`RemoteInv`). `HashInv` ties the key
  to what is read after it, `StoreInv` a kept summary to the call that passed, `DumpInv` every VCD,
  picture and pulled file to what its maker's simulator had loaded. From the last two, the waveform that a
  hit names is of the sources its base simulated, or a later simulation's. `PassedAssertionsAreTrue`
  draws the conclusion for a user: an assertion that is reported as passed, fresh or from the cache,
  holds of the sources which the call, or the one its hit rests on, compiled itself: of the file their
  simulation writes, and of their trace if it asks the scalar for a value that is read as it is meant; for calls that met
  others in their files, and lost connections, nothing is said. `WaveformsReadRight` proves
  `WaveformsAreReadRight` from the theorems about waveforms, `JudgedInv` (a verdict is what `Evaluate` says
  of the file the answer names) and the types. `SimulationsImplementCache` is the refinement of `RunCache`:
  the step that answers ok keeps its own pass under its own key and changes no other (`PassIsKept`). It is
  a theorem only: no run checks it.
* `Waveform_proofs`: what is read out of a file, for traces of any length and width.
  `PicturesAgreeWithAssertions`: for every list of changes in order, the drawn segments begin at 0, end at the
  end and leave no gap, and each shows the value that an assertion about any time in it reads.
  `AssertionsReadTraces`: evaluated on the file of a trace, each of the three assertions is true exactly if it
  is true of the trace, for every value that is read as it is meant, and of the bus's first bit where it was
  written bit by bit. `PicturesShowTraces`: what is drawn of the file, as a vector or of bits
  put together again, shows the trace at every time, and with a filter the first of its bits. They rest on `ShortenedTellsValues` and
  `LogicEqualTellsValues`: leaving out spare bits, and counting the rest, confuses no two values of one width.
  These are facts about recursive functions of a trace or a value. The library's induction theorems cannot be
  instantiated here, so the module proves induction in a form with a set in place of the predicate
  (`Induction`, by the least counterexample) and, from it, that a function that recursion defines step by step
  exists and is the only one (`Recursion`, `OneRecursion`); `ChangesTell` then says what the list of changes
  holds at every time.

None of the properties is inductive alone, and each invariant was checked by TLC on the module's
instance before it was proved. The proofs changed the models in some places: `StaleHitHasCause` now
names the run that wrote what a stale hit serves; a listing of the vault records at each read what
stood recalled (`hidden`), so that `RecallIsObeyed` speaks of that moment; and `Simulation` says which
records are asked, answered and dumped (`Asks`, `Answers`, `Dumps`), with `SimulationAssumption`, which also
says what a trace is; and `Waveform` defines `Changes` and `Number` as recursive functions, about which one can
prove something, where it had a filter and a fold.

Assumptions are the modules' named `ASSUME`s, which TLC evaluates in the runs. `OwnedServersSurvive`
states the residue that the code cannot close: between the second inventory and `process.kill` a PID
may still change hands.

Only model-checked:

* all liveness (`AdmittedBatchAnswers`, `EveryRunReturns`, `EveryCallReturns`, `CallReturns`,
  `EveryGuiCallReturns`), which the prover does not cover, as it does not cover `ENABLED`;
* the five violated properties, which are false: TLC has their counterexamples.

## 5. What is not modelled, and the plan

Not modelled, and why:

* texts: parsers of reports, logs, coverage and diagnostics, netlist rewriting, ILA insertion, CDT script
  validation beyond its verdict. They are sequential functions of their input, whose data a model would
  have to repeat;
* environment: installations, licenses, capabilities, configuration, host profiles;
* embeddings and retrieval, knowledge data and its generators: lookups and offline scripts;
* the MPSSE bit streams, FLA framing and the SVF cache of the bare player: only its replay as the tools
  see it is in `DeviceFlow`;
* the stdio shutdown (`core/lifecycle.mjs`): a server's end is an action of the machine in `OrphanReaper`
  and a `Crash` elsewhere, but not the order of its steps.

`PROJECT.json` lists every component with its status, and under `hazards` every place where something
can go wrong that a test would hardly reach, with the property that covers it or the reason why none
does.

Next, in this order:

1. The stdio shutdown (`core/lifecycle.mjs`) composed with `OrphanReaper`.
2. The SVF cache of the bare player, which trusts modification times.
3. `validateCdtCommands` and `detectMutatingCdt` as pure operators, in place of the Booleans of `DeviceFlow`.
