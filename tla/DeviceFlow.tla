----------------------------- MODULE DeviceFlow -----------------------------
(***************************************************************************)
(* The tools that write an FPGA: fpga_flash_sram and fpga_flash_spi (one   *)
(* control flow, "flash"), fpga_cdt, fpga_jtag_flash ("jtag") and          *)
(* fpga_ila_flow ("ila"), in toolchains/pango-pds/index.mjs, jtag.mjs and  *)
(* jtag/svf_player.py.  Calls run concurrently against the boards of       *)
(* Places, each with one USB cable.  A call works through scripts (cdt_cfg *)
(* clients of a resident cdt_js, or the Python CLI) that run by themselves *)
(* while the call awaits them.  The device, its cable and cdt_js are       *)
(* external: they do what the code expects of them, or fail.               *)
(***************************************************************************)
EXTENDS Integers, FiniteSets

CONSTANTS
  Calls,      (* tool calls                                              *)
  Devices,    (* device types, what an IDCODE without its revision tells *)
  Local,      (* the place of this machine's cable                       *)
  Hosts,      (* the remote places                                       *)
  Choices,    (* what callers ask:
                 [tool, place, confirm, known, expect, writes]           *)
  Retries,    (* DEFAULT_FLASH_SCAN_RETRIES                              *)
  MaxSwaps,   (* bound: boards exchanged by hand                         *)
  None        (* no device, no call                                      *)

Tools == {"flash", "cdt", "jtag", "ila"}
Places == {Local} \union Hosts

ASSUME DeviceAssumption ==
  /\ None \notin Calls /\ None \notin Devices
  /\ Retries \in Nat /\ MaxSwaps \in Nat
  /\ Choices \subseteq [tool : Tools, place : Places, confirm : BOOLEAN,
                        known : BOOLEAN, expect : Devices, writes : BOOLEAN]
  /\ \A a \in Choices : a.tool = "jtag" => a.place = Local

VARIABLES
  board,      (* board[p]: the device on the bench                       *)
  image,      (* image[p]: [by, whole], whose design its memory holds    *)
  held,       (* held[p]: cdt_js holds the FTDI device open              *)
  gui,        (* gui[p]: a debugger GUI has the cable                    *)
  args,       (* args[c]                                                 *)
  pc,         (* where call c is                                         *)
  tries,      (* scans c has made                                        *)
  script,     (* script[c]: the script c started last                    *)
  read,       (* read[c]: the IDCODE c's scan printed                    *)
  log,        (* log[c]: how the script ended, as c sees it              *)
  seen,       (* seen[c]: the device c's gate accepted                   *)
  result,     (* result[c]                                               *)
  swaps,      (* boards exchanged so far                                 *)
  wrote,      (* history: the device c's script first wrote to           *)
  swapped,    (* history: calls whose board changed since their scan     *)
  lost        (* history: calls whose cleanup failed, or whose host did  *)

bench == <<board, image, held, gui>>
history == <<wrote, swapped, lost>>
vars == <<bench, args, pc, tries, script, read, log, seen, result, swaps, history>>

Place(c) == args[c].place
Remote(c) == Place(c) # Local
Bare(c) == args[c].tool = "jtag"
Live(c) == script[c] \in {"reading", "open", "writing"}
Blank == [by |-> None, whole |-> TRUE]

Goto(c, l) == pc' = [pc EXCEPT ![c] = l]
Answer(c, res) == Goto(c, "done") /\ result' = [result EXCEPT ![c] = res]

\* Whether a script c starts now can open the cable.
CableFree(c) ==
  /\ \A d \in Calls : ~(Live(d) /\ Place(d) = Place(c) /\ (Bare(d) \/ Bare(c)))
  /\ ~gui[Place(c)]
  /\ Bare(c) => ~held[Place(c)]

\* taskkill of cdt_js at p: every client script there fails.
KillServers(p) ==
  /\ held' = [held EXCEPT ![p] = FALSE]
  /\ script' = [d \in Calls |-> IF Live(d) /\ Place(d) = p /\ ~Bare(d)
                                THEN "failed" ELSE script[d]]
-----------------------------------------------------------------------------
Init ==
  /\ board \in [Places -> Devices]
  /\ image = [p \in Places |-> Blank]
  /\ held = [p \in Places |-> FALSE]
  /\ gui = [p \in Places |-> FALSE]
  /\ args \in [Calls -> Choices]
  /\ pc = [c \in Calls |-> "start"]
  /\ tries = [c \in Calls |-> 0]
  /\ script = [c \in Calls |-> "none"]
  /\ read = [c \in Calls |-> None]
  /\ log = [c \in Calls |-> "none"]
  /\ seen = [c \in Calls |-> None]
  /\ result = [c \in Calls |-> "none"]
  /\ swaps = 0
  /\ wrote = [c \in Calls |-> None]
  /\ swapped = {}
  /\ lost = {}

\* While a call is under way at p, somebody puts a board of another type,
\* unconfigured, on the bench there.
Swap(p) ==
  /\ swaps < MaxSwaps
  /\ swaps' = swaps + 1
  /\ \E c \in Calls : Place(c) = p /\ pc[c] \notin {"start", "done"}
  /\ \E d \in Devices \ {board[p]} : board' = [board EXCEPT ![p] = d]
  /\ image' = [image EXCEPT ![p] = Blank]
  /\ swapped' = swapped \union {c \in Calls : Place(c) = p /\ read[c] # None}
  /\ UNCHANGED <<held, gui, args, pc, tries, script, read, log, seen, result, wrote, lost>>
-----------------------------------------------------------------------------
(* Scripts *)

\* A scan script prints the IDCODE it reads.
Read(c) ==
  /\ script[c] = "reading" /\ read[c] = None
  /\ read' = [read EXCEPT ![c] = board[Place(c)]]
  /\ UNCHANGED <<bench, args, pc, tries, script, log, seen, result, swaps, history>>

\* cfg_program or cfg_jtag_flash_erase begins; the SVF replay starts to shift
\* the configuration, whatever its IDCODE check before it has read.
Touch(c) ==
  /\ script[c] = "open" /\ args[c].writes
  /\ script' = [script EXCEPT ![c] = "writing"]
  /\ image' = [image EXCEPT ![Place(c)] = [by |-> c, whole |-> FALSE]]
  /\ wrote' = [wrote EXCEPT ![c] = board[Place(c)]]
  /\ UNCHANGED <<board, held, gui, args, pc, tries, read, log, seen, result, swaps,
                 swapped, lost>>

\* The device shows done, or verifies.  SvfPlayer.run notes a failed IDCODE
\* check and plays on; cmd_flash calls the replay failed at its end.
Finish(c) ==
  /\ script[c] = "writing"
  /\ image[Place(c)].by = c
  /\ Bare(c) => wrote[c] = args[c].expect
  /\ script' = [script EXCEPT ![c] = "clean"]
  /\ image' = [image EXCEPT ![Place(c)].whole = TRUE]
  /\ UNCHANGED <<board, held, gui, args, pc, tries, read, log, seen, result, swaps, history>>

\* A scan, or a script without a writing command, ends well.
EndRead(c) ==
  /\ \/ script[c] = "reading" /\ read[c] # None
     \/ script[c] = "open" /\ ~args[c].writes
  /\ script' = [script EXCEPT ![c] = "clean"]
  /\ UNCHANGED <<bench, args, pc, tries, read, log, seen, result, swaps, history>>

Fail(c) ==
  /\ Live(c)
  /\ script' = [script EXCEPT ![c] = "failed"]
  /\ UNCHANGED <<bench, args, pc, tries, read, log, seen, result, swaps, history>>

ScriptStep(c) == Read(c) \/ Touch(c) \/ Finish(c) \/ EndRead(c) \/ Fail(c)
-----------------------------------------------------------------------------
(* Calls *)

\* Seeded fault: fpga_cdt's writing scripts are not told from reading ones.
GateForgetsCdt(c) ==
  /\ pc[c] = "start"
  /\ IF args[c].tool = "cdt" THEN Goto(c, "launch") /\ UNCHANGED result
     ELSE IF args[c].confirm /\ args[c].known
          THEN Goto(c, IF args[c].tool = "ila" THEN "free" ELSE "scan") /\ UNCHANGED result
          ELSE Answer(c, "refused")
  /\ UNCHANGED <<bench, args, tries, script, read, log, seen, swaps, history>>

\* The checks before any device access: confirm:true and an expectIdcode the
\* tool knows, for everything that writes (detectMutatingCdt for fpga_cdt).
Gate(c) ==
  /\ pc[c] = "start"
  /\ \/ args[c].writes /\ ~args[c].confirm /\ Answer(c, "refused")
     \/ args[c].writes /\ ~args[c].known /\ Answer(c, "error")
     \/ /\ args[c].writes => args[c].confirm /\ args[c].known
        /\ Goto(c, IF ~args[c].writes THEN "launch"
                   ELSE IF args[c].tool = "ila" THEN "free" ELSE "scan")
        /\ UNCHANGED result
  /\ UNCHANGED <<bench, args, tries, script, read, log, seen, swaps, history>>

\* Seeded fault: the teardown after the export is left out.
KillGuiOnlyBefore(c) ==
  /\ pc[c] \in {"free", "teardown"}
  /\ IF pc[c] = "free"
     THEN /\ KillServers(Place(c)) /\ gui' = [gui EXCEPT ![Place(c)] = FALSE]
          /\ Goto(c, "scan") /\ UNCHANGED result
     ELSE Answer(c, "ok") /\ UNCHANGED <<held, gui, script>>
  /\ UNCHANGED <<board, image, args, tries, read, log, seen, swaps, history>>

\* killGui kills cdt_dbg and cdt_js, before the flash and after the export; its
\* failure goes unnoticed.
KillGui(c) ==
  /\ pc[c] \in {"free", "teardown"}
  /\ \/ /\ KillServers(Place(c)) /\ gui' = [gui EXCEPT ![Place(c)] = FALSE]
        /\ UNCHANGED lost
     \/ lost' = lost \union {c} /\ UNCHANGED <<held, gui, script>>
  /\ IF pc[c] = "free" THEN Goto(c, "scan") /\ UNCHANGED result ELSE Answer(c, "ok")
  /\ UNCHANGED <<board, image, args, tries, read, log, seen, swaps, wrote, swapped>>

\* Start a script; cdt_js is started when it does not answer.
Launch(c, kind, next) ==
  /\ IF CableFree(c)
     THEN /\ script' = [script EXCEPT ![c] = kind]
          /\ held' = IF Bare(c) THEN held ELSE [held EXCEPT ![Place(c)] = TRUE]
     ELSE script' = [script EXCEPT ![c] = "failed"] /\ UNCHANGED held
  /\ Goto(c, next)
  /\ UNCHANGED <<board, image, gui, args, log, seen, result, swaps, wrote, lost>>

Scan(c) ==
  /\ pc[c] = "scan"
  /\ Launch(c, "reading", "scanning")
  /\ tries' = [tries EXCEPT ![c] = @ + 1]
  /\ read' = [read EXCEPT ![c] = None]
  /\ swapped' = swapped \ {c}

Run(c) ==
  /\ pc[c] = "launch"
  /\ Launch(c, "open", "running")
  /\ UNCHANGED <<tries, read, swapped>>

\* A missing tool, a cdt_js that does not come up, a host that does not
\* answer or a transfer that fails: the call answers an error.  A script that
\* runs on a lost host is not stopped; a staging that fails still reaches the
\* finally of runCdtRemote.
Throw(c) ==
  /\ \/ pc[c] \in {"scan", "launch"} /\ ~Bare(c)
     \/ pc[c] \in {"free", "scanning", "running"} /\ Remote(c)
  /\ Answer(c, "error")
  /\ \/ Remote(c) /\ pc[c] # "free" /\ KillServers(Place(c)) /\ UNCHANGED lost
     \/ /\ lost' = IF Remote(c) THEN lost \union {c} ELSE lost
        /\ UNCHANGED <<held, script>>
  /\ UNCHANGED <<board, image, gui, args, tries, read, log, seen, swaps, wrote, swapped>>

After(l, c) ==
  CASE l = "scanning" -> IF Remote(c) THEN "sweepScan" ELSE "scanned"
    [] l = "running" -> IF Remote(c) THEN "sweepRun" ELSE "ran"

\* The awaited script has ended.
Collect(c) ==
  /\ pc[c] \in {"scanning", "running"}
  /\ ~Live(c)
  /\ log' = [log EXCEPT ![c] = script[c]]
  /\ Goto(c, After(pc[c], c))
  /\ UNCHANGED <<bench, args, tries, script, read, seen, result, swaps, history>>

\* Seeded faults: a local child is not killed at its timeout; there is no
\* timeout for a script that hangs in open_cable.
TimeoutLeavesChild(c) ==
  /\ pc[c] \in {"scanning", "running"}
  /\ Live(c)
  /\ log' = [log EXCEPT ![c] = "timeout"]
  /\ Goto(c, After(pc[c], c))
  /\ UNCHANGED <<bench, args, tries, script, read, seen, result, swaps, history>>
TimeoutOnlyRemote(c) ==
  /\ pc[c] \in {"scanning", "running"}
  /\ Live(c) /\ Remote(c)
  /\ log' = [log EXCEPT ![c] = "timeout"]
  /\ Goto(c, After(pc[c], c))
  /\ UNCHANGED <<bench, args, tries, script, read, seen, result, swaps, history>>

\* timeoutSec is over: execFile kills a local child, an SSH command is let go.
Timeout(c) ==
  /\ pc[c] \in {"scanning", "running"}
  /\ Live(c)
  /\ log' = [log EXCEPT ![c] = "timeout"]
  /\ script' = IF Remote(c) THEN script ELSE [script EXCEPT ![c] = "failed"]
  /\ Goto(c, After(pc[c], c))
  /\ UNCHANGED <<bench, args, tries, read, seen, result, swaps, history>>

\* The finally of runCdtRemote kills every cdt_js of the host, if it can.
Sweep(c) ==
  /\ pc[c] \in {"sweepScan", "sweepRun"}
  /\ \/ KillServers(Place(c)) /\ UNCHANGED lost
     \/ lost' = lost \union {c} /\ UNCHANGED <<held, script>>
  /\ Goto(c, IF pc[c] = "sweepScan" THEN "scanned" ELSE "ran")
  /\ UNCHANGED <<board, image, gui, args, tries, read, log, seen, result, swaps, wrote, swapped>>

\* The devices the tool finds in the scan's output: the bare path wants a scan
\* that passed, the others take what was printed, and the output of a remote
\* scan that timed out may not be there.
Found(c) ==
  IF Bare(c) /\ log[c] # "clean" THEN {None}
  ELSE {read[c]} \union (IF Remote(c) /\ log[c] = "timeout" THEN {None} ELSE {})

\* Seeded fault: one scan too many.
MayRetryOnceMore(c) == ~Remote(c) /\ ~Bare(c) /\ tries[c] <= Retries + 1

\* scanForFlash retries a local CDT scan that found nothing.
MayRetry(c) == ~Remote(c) /\ ~Bare(c) /\ tries[c] <= Retries

\* Seeded fault: any device found lets the call go on.
JudgeScanAnyDevice(c) ==
  /\ pc[c] = "scanned"
  /\ \E d \in Found(c) :
       \/ d = None /\ Answer(c, "failed") /\ UNCHANGED seen
       \/ d # None /\ seen' = [seen EXCEPT ![c] = args[c].expect] /\ Goto(c, "launch")
          /\ UNCHANGED result
  /\ UNCHANGED <<bench, args, tries, script, read, log, swaps, history>>

\* The safety gate: go on only with the device the caller expects.
JudgeScan(c) ==
  /\ pc[c] = "scanned"
  /\ \E d \in Found(c) :
       \/ d = None /\ MayRetry(c) /\ Goto(c, "scan") /\ UNCHANGED <<seen, result>>
       \/ d = None /\ ~MayRetry(c) /\ Answer(c, "failed") /\ UNCHANGED seen
       \/ d # None /\ d # args[c].expect /\ Answer(c, "failed") /\ UNCHANGED seen
       \/ /\ d = args[c].expect
          /\ seen' = [seen EXCEPT ![c] = d]
          /\ Goto(c, "launch")
          /\ UNCHANGED result
  /\ UNCHANGED <<bench, args, tries, script, read, log, swaps, history>>

\* Seeded fault: what was printed before a timeout counts as success.
VerdictsTrustTimeout(c) ==
  IF log[c] \in {"clean", "timeout"} THEN {"ok"} ELSE {"failed"}

\* What the tool may conclude from the log.  A remote fpga_cdt looks only for
\* known failure texts, and a timed-out script leaves no output: what is read
\* instead is an error message in the host's code page, decoded as UTF-8.
Verdicts(c) ==
  IF args[c].tool = "cdt" /\ Remote(c) /\ log[c] = "timeout" THEN {"ok", "failed"}
  ELSE IF log[c] = "clean" THEN {"ok"} ELSE {"failed"}

JudgeRun(c) ==
  /\ pc[c] = "ran"
  /\ \E v \in Verdicts(c) :
       IF args[c].tool = "ila" /\ v = "ok"
       THEN Goto(c, "flashed") /\ UNCHANGED result
       ELSE Answer(c, v)
  /\ UNCHANGED <<bench, args, tries, script, read, log, seen, swaps, history>>

\* ilaOpen: a GUI is started, or found running, and opens the cable.
OpenGui(c) ==
  /\ pc[c] = "flashed"
  /\ \/ /\ \A d \in Calls : ~(Live(d) /\ Place(d) = Place(c) /\ Bare(d))
        /\ gui' = [gui EXCEPT ![Place(c)] = TRUE]
        /\ held' = [held EXCEPT ![Place(c)] = TRUE]
        /\ \/ Goto(c, "viewing") /\ UNCHANGED result
           \/ Answer(c, "failed")
     \/ Answer(c, "failed") /\ UNCHANGED <<held, gui>>
  /\ UNCHANGED <<board, image, args, tries, script, read, log, seen, swaps, history>>

\* ilaCapture drives the GUI's console; a failed capture leaves the GUI up.
Capture(c) ==
  /\ pc[c] = "viewing"
  /\ \/ gui[Place(c)] /\ Goto(c, "teardown") /\ UNCHANGED result
     \/ Answer(c, "failed")
  /\ UNCHANGED <<bench, args, tries, script, read, log, seen, swaps, history>>

CallStep(c) ==
  \/ Gate(c) \/ KillGui(c) \/ Scan(c) \/ Run(c) \/ Throw(c) \/ Collect(c) \/ Timeout(c)
  \/ Sweep(c) \/ JudgeScan(c) \/ JudgeRun(c) \/ OpenGui(c) \/ Capture(c)

Rest == (\A c \in Calls : pc[c] = "done") /\ UNCHANGED vars

Next ==
  \/ \E p \in Places : Swap(p)
  \/ \E c \in Calls : CallStep(c) \/ ScriptStep(c)
  \/ Rest

Spec == Init /\ [][Next]_vars

\* The event loop runs what is ready and every await has its timeout; nothing
\* is assumed of the scripts.
FairSpec == Spec /\ \A c \in Calls : WF_vars(CallStep(c))
-----------------------------------------------------------------------------
(* Properties *)

TypeOK ==
  /\ board \in [Places -> Devices]
  /\ image \in [Places -> [by : Calls \union {None}, whole : BOOLEAN]]
  /\ held \in [Places -> BOOLEAN] /\ gui \in [Places -> BOOLEAN]
  /\ args \in [Calls -> Choices]
  /\ pc \in [Calls -> {"start", "free", "scan", "scanning", "sweepScan", "scanned", "launch",
                       "running", "sweepRun", "ran", "flashed", "viewing", "teardown", "done"}]
  /\ tries \in [Calls -> 0..(Retries + 1)]
  /\ script \in [Calls -> {"none", "reading", "open", "writing", "clean", "failed"}]
  /\ read \in [Calls -> Devices \union {None}]
  /\ log \in [Calls -> {"none", "clean", "failed", "timeout"}]
  /\ seen \in [Calls -> Devices \union {None}]
  /\ result \in [Calls -> {"none", "refused", "error", "failed", "ok"}]
  /\ swaps \in 0..MaxSwaps
  /\ wrote \in [Calls -> Devices \union {None}]
  /\ swapped \subseteq Calls /\ lost \subseteq Calls

\* Nothing is written to a device except for a call that was confirmed and
\* whose own scan has read the device it expects (README.md:131-133), and a
\* call writes at its own place only.
WritesAreGated ==
  /\ \A c \in Calls : wrote[c] # None =>
       args[c].confirm /\ args[c].known /\ seen[c] = args[c].expect
  /\ \A p \in Places : image[p].by # None =>
       Place(image[p].by) = p /\ wrote[image[p].by] # None

\* A write reaches a device other than the expected one only when somebody
\* exchanged the board between the scan and the write: retries, timeouts,
\* killed servers and other calls never make a gate answer for another board.
WrongDeviceOnlyBySwap ==
  \A c \in Calls : wrote[c] \notin {None, args[c].expect} => c \in swapped

\* What a call answered ok about is on the board whole: a memory that is torn
\* by an interrupted write never belongs to a call that said ok.
OkImageIsWhole(c) ==
  result[c] = "ok" => \A p \in Places : image[p].by = c => image[p].whole

\* It holds for every tool but a remote fpga_cdt.
OkMeansWhole == \A c \in Calls : ~(args[c].tool = "cdt" /\ Remote(c)) => OkImageIsWhole(c)

\* The same for a remote fpga_cdt: jtag.mjs:163-167 says a missing executable's
\* error text must force ok:false.
RemoteCdtOkMeansWhole == \A c \in Calls : OkImageIsWhole(c)

\* A call that has returned leaves no script at work on the device, unless its
\* host was lost or refused the cleanup.
NoScriptOutlivesCall ==
  \A c \in Calls : pc[c] = "done" /\ Live(c) => Remote(c) /\ c \in lost

AccountsForGui(c, p) ==
  /\ args[c].tool = "ila" /\ Place(c) = p
  /\ pc[c] \in {"viewing", "teardown"} \/ result[c] \in {"failed", "error"} \/ c \in lost

\* A debugger GUI holds a cable only for a flow that needs it, after one that
\* failed (which leaves it up for inspection), or when it could not be killed.
GuiLeftOnlyByFailure ==
  \A p \in Places : gui[p] => \E c \in Calls : AccountsForGui(c, p)

\* The IDCODE check inside the SVF is a second guard: a bare replay on a device
\* it does not expect does not get to configure it (index.mjs:1470,
\* jtag/FINDINGS.md:44-46).
ReplayStopsAtIdcode ==
  \A c \in Calls : Bare(c) => wrote[c] \in {None, args[c].expect}

\* Every call returns, whatever its scripts do.
EveryCallReturns == \A c \in Calls : pc[c] = "start" ~> pc[c] = "done"
=============================================================================
