--------------------------- MODULE KnowledgeVault ---------------------------
(***************************************************************************)
(* The knowledge vault (core/vault.mjs, core/vault-tool.mjs): one Markdown *)
(* file per asset, read and written back whole by several servers and by a *)
(* curator with an editor, and the trace files (core/trace.mjs) from which *)
(* the users of an asset are found again.  Inside one server everything    *)
(* from the read of an entry to its write is synchronous, so a server is   *)
(* in the middle of at most one vault call.                                *)
(***************************************************************************)
EXTENDS Naturals, FiniteSets

CONSTANTS
  Servers,     \* server processes
  Ids,         \* entry ids, each one a title and a logical key
  Decisions,   \* what a curator may write: tier, status, recall, valid
  Modes,       \* trace configurations: the traced servers, whether they share one
               \* configured file, and whether a scan takes that file
  MaxCalls,    \* bound: vault calls
  MaxEdits,    \* bound: curator's edits
  MaxFaults,   \* bound: deaths of a server and appends that fail
  None

Tiers == {"candidate", "trusted", "golden"}
States == {"active", "recalled"}
Decision == [tier : Tiers, status : States, recall : States, valid : BOOLEAN]

\* An evidence record has its time in it, so each call makes another one; they
\* are named by the number of the call.
Evidence == 1..MaxCalls
Entries == [kind : {"entry"}, dec : Decision, ev : SUBSET Evidence, body : BOOLEAN]
Copies == [id : Ids, new : Entries]
Editor == "editor"

ASSUME VaultAssumption ==
  /\ Editor \notin Servers /\ None \notin Copies
  /\ Decisions \subseteq Decision
  /\ Modes \subseteq [traced : SUBSET Servers, shared : BOOLEAN, taken : BOOLEAN]
  /\ MaxCalls \in Nat /\ MaxEdits \in Nat /\ MaxFaults \in Nat
  /\ None \notin Servers \union Ids

\* A session is one life of a server process.
Sessions == Servers \X (0..MaxFaults)

VARIABLES
  mode,      \* the trace configuration
  file,      \* what is on disk for each id
  trace,     \* trace files: readable asset_use rows, and whether the last line is cut
  life,      \* each server's session number
  pc,        \* where each server is
  call,      \* the call a server is in
  copy,      \* the entry an actor has read and will write back
  answer,    \* a server's last answer
  calls, edits, faults,
  \* history
  decided,   \* the curator's last decision on each id
  acked,     \* evidence that some answer said was recorded
  stale,     \* actors whose copy is not what the file holds now
  raced,     \* ids written from a stale copy, or left in the middle of a write
  told,      \* uses that some answer said were traced
  lost       \* uses whose row did not reach the trace file

disk == <<file, trace>>
history == <<decided, acked, stale, raced, told, lost>>
vars == <<mode, file, trace, life, pc, call, copy, answer, calls, edits, faults,
          decided, acked, stale, raced, told, lost>>

Missing == [kind |-> "missing"]
Torn == [kind |-> "torn"]
Entry(d, ev, body) == [kind |-> "entry", dec |-> d, ev |-> ev, body |-> body]
Whole(f) == f.kind = "entry"

\* Seeded fault: a new entry gets a tier the schema does not know.
FreshIsDraft == [tier |-> "draft", status |-> "active", recall |-> "active", valid |-> TRUE]

\* A new entry: nobody but the curator promotes or recalls it.
Fresh == [tier |-> "candidate", status |-> "active", recall |-> "active", valid |-> TRUE]

\* Seeded fault: only the status is looked at, not recall.state.
ProtectedByStatus(d) == d.tier # "candidate" \/ d.status # "active"

\* writeVerifiedCandidate leaves these to the curator.
Protected(d) == d.tier # "candidate" \/ d.status # "active" \/ d.recall # "active"

\* A search without includeRecalled offers these.
Current(d) == d.status = "active" /\ d.recall = "active"

Session(s) == <<s, life[s]>>
TraceFiles == Sessions \union {<<"shared">>}
TraceOf(s) == IF mode.shared THEN <<"shared">> ELSE Session(s)

Goto(s, l) == pc' = [pc EXCEPT ![s] = l]
Reply(s, a) == Goto(s, "finish") /\ answer' = [answer EXCEPT ![s] = a]

\* Servers in the middle of writing an entry.
Writing(i) == {s \in Servers : pc[s] = "write" /\ call[s].id = i}
-----------------------------------------------------------------------------
\* Of the rows that scans do not look for (session_start, asset_write,
\* tool_call) only the place they take in the file is kept.
OtherRow == {}

\* appendTrace: a row that follows a cut line joins it and cannot be parsed.
\* A row that is not written, or only in part, is nobody's error.
Appended(t, row) == IF t.cut THEN [t EXCEPT !.cut = FALSE] ELSE [t EXCEPT !.rows = @ \union row]

\* appendTraceEvent, and the header and the tool_call row of installToolTrace:
\* nothing when the server is not traced.
Log(s, f, row) ==
  IF s \notin mode.traced THEN UNCHANGED <<trace, faults>>
  ELSE \/ trace' = [trace EXCEPT ![f] = Appended(@, row)] /\ UNCHANGED faults
       \/ /\ faults < MaxFaults /\ faults' = faults + 1
          /\ \E cut \in BOOLEAN : trace' = [trace EXCEPT ![f].cut = @ \/ cut]

Init ==
  /\ mode \in Modes
  /\ file = [i \in Ids |-> Missing]
  /\ trace = [f \in TraceFiles |-> [rows |-> {}, cut |-> FALSE]]
  /\ life = [s \in Servers |-> 0]
  /\ pc = [s \in Servers |-> "idle"]
  /\ call = [s \in Servers |-> None]
  /\ copy = [a \in Servers \union {Editor} |-> None]
  /\ answer = [s \in Servers |-> None]
  /\ calls = 0 /\ edits = 0 /\ faults = 0
  /\ decided = [i \in Ids |-> Fresh]
  /\ acked = {} /\ stale = {} /\ raced = {} /\ told = {} /\ lost = {}

\* The actors, other than the writer, that hold a copy of i to write back.
Holders(writer, i) ==
  {a \in (Servers \union {Editor}) \ {writer} : copy[a] # None /\ copy[a].id = i}

\* What a read of i can see: while it is being written, nothing, or its
\* frontmatter with a body that is cut.
Reads(i) ==
  IF Writing(i) = {} THEN {file[i]}
  ELSE {Torn} \union {Entry(copy[s].new.dec, copy[s].new.ev, FALSE) : s \in Writing(i)}

\* A call begins.
Starts(s) == pc[s] = "idle" /\ calls < MaxCalls /\ calls' = calls + 1
Begin(s, c, l) == Starts(s) /\ Goto(s, l) /\ call' = [call EXCEPT ![s] = c]
-----------------------------------------------------------------------------
(* Capture of a verified result *)

\* fpga_assert or fpga_ila_flow has its verdict; only an objective pass with
\* well-formed metadata reaches the vault.
Capture(s) ==
  /\ \/ \E i \in Ids : Begin(s, [kind |-> "capture", id |-> i, ev |-> calls + 1], "read")
     \/ Begin(s, [kind |-> "capture"], "finish")
  /\ UNCHANGED <<mode, disk, life, copy, answer, edits, faults, history>>

\* Seeded fault: the new evidence replaces what the entry held.
UpdatedReplaces(f, e) ==
  IF f.kind = "missing" THEN Entry(Fresh, {e}, TRUE)
  ELSE Entry([f.dec EXCEPT !.valid = TRUE], {e}, f.body)

\* The entry to write: a new candidate, or the one read with the evidence added.
Updated(f, e) ==
  IF f.kind = "missing" THEN Entry(Fresh, {e}, TRUE)
  ELSE Entry([f.dec EXCEPT !.valid = TRUE], f.ev \union {e}, f.body)

\* What becomes of the entry read: an error, a skipped capture, or a new text
\* to write.  The new text is validated: a slip in a field that is written anew
\* (updated-at, toolchain-version, retrieval) is mended, any other an error.
Judge(s, f) ==
  \/ /\ f.kind = "torn" \/ (Whole(f) /\ ~Protected(f.dec) /\ ~f.dec.valid)
     /\ Reply(s, [kind |-> "capture", outcome |-> "error"])
     /\ UNCHANGED <<copy, stale>>
  \/ /\ Whole(f) /\ Protected(f.dec)
     /\ Reply(s, [kind |-> "capture", outcome |-> "skipped"])
     /\ UNCHANGED <<copy, stale>>
  \/ /\ f.kind = "missing" \/ (Whole(f) /\ ~Protected(f.dec))
     /\ copy' = [copy EXCEPT ![s] = [id |-> call[s].id, new |-> Updated(f, call[s].ev)]]
     /\ stale' = IF Writing(call[s].id) = {} THEN stale \ {s} ELSE stale \union {s}
     /\ Goto(s, "open") /\ UNCHANGED answer

\* getVaultEntry and the protection check.
ReadEntry(s) ==
  /\ pc[s] = "read"
  /\ \E f \in Reads(call[s].id) : Judge(s, f)
  /\ UNCHANGED <<mode, disk, life, call, calls, edits, faults, decided, acked, raced, told, lost>>

\* writeFileSync opens the file, which truncates it ...
OpenEntry(s) ==
  /\ pc[s] = "open"
  /\ LET i == call[s].id IN
       /\ file' = [file EXCEPT ![i] = Torn]
       /\ stale' = stale \union Holders(s, i)
       /\ raced' = IF s \in stale THEN raced \union {i} ELSE raced
  /\ Goto(s, "write")
  /\ UNCHANGED <<mode, trace, life, call, copy, answer, calls, edits, faults, decided, acked, told, lost>>

\* ... writes it, and appends the asset_write row.  After two overlapping
\* writes the tail of the longer one may stay.
WriteEntry(s) ==
  /\ pc[s] = "write"
  /\ LET i == call[s].id  new == copy[s].new IN
       /\ \E body \in (IF s \in stale THEN {new.body, FALSE} ELSE {new.body}) :
            file' = [file EXCEPT ![i] = [new EXCEPT !.body = body]]
       /\ raced' = IF s \in stale THEN raced \union {i} ELSE raced
       /\ stale' = (stale \ {s}) \union Holders(s, i)
       /\ acked' = acked \union {<<i, call[s].ev>>}
  /\ copy' = [copy EXCEPT ![s] = None]
  /\ Log(s, TraceOf(s), OtherRow)
  /\ Reply(s, [kind |-> "capture", outcome |-> "written"])
  /\ UNCHANGED <<mode, life, call, calls, edits, decided, told, lost>>
-----------------------------------------------------------------------------
(* fpga_vault *)

\* The calls that go through the directory: their kind, whether they ask for
\* recalled entries too, and the status they ask for.
Listings ==
  {<<"validate", TRUE, "active">>, <<"search", FALSE, "active">>} \union
  {<<"search", TRUE, st>> : st \in States}

\* search and validate read the directory, then every entry in turn.
List(s) ==
  /\ \E i \in Ids : file[i] # Missing
  /\ \E l \in Listings :
       Begin(s, [kind |-> l[1], all |-> l[2], status |-> l[3], todo |-> {i \in Ids : file[i] # Missing},
                 seen |-> {}, hidden |-> {}], "list")
  /\ UNCHANGED <<mode, disk, life, copy, answer, edits, faults, history>>

\* Seeded fault: a search that leaves the filter on recalled entries out.
ShownUnfiltered(c, f) == Whole(f) /\ f.dec.valid

\* searchVault: invalid entries never; recalled ones only when asked for, and
\* then those with the status asked for, which is active unless given.
Shown(c, f) ==
  Whole(f) /\ f.dec.valid /\ IF c.all THEN f.dec.status = c.status ELSE Current(f.dec)

\* What becomes of one listed entry; a file that does not parse is an entry
\* with an error.
Listed(c, f) ==
  IF c.kind = "search" THEN Shown(c, f) ELSE ~(Whole(f) /\ f.dec.valid)

\* A listing that has read i as f.  (`hidden` is history: what stood recalled
\* when it was read.)
Listing(c, i, f) ==
  [c EXCEPT !.todo = @ \ {i},
            !.seen = IF Listed(c, f) THEN @ \union {i} ELSE @,
            !.hidden = IF Current(decided[i]) THEN @ ELSE @ \union {i}]

\* listVaultEntries reads the next entry; after the last one the call answers.
ReadListed(s) ==
  /\ pc[s] = "list"
  /\ \E i \in call[s].todo : \E f \in Reads(i) :
       LET c == Listing(call[s], i, f)
       IN  /\ call' = [call EXCEPT ![s] = c]
           /\ IF c.todo = {} THEN Reply(s, c) ELSE UNCHANGED <<pc, answer>>
  /\ UNCHANGED <<mode, disk, life, copy, calls, edits, faults, history>>

\* get: the entry, and its asset_use row; traceRecorded says only that the
\* server is traced.
Get(s) ==
  /\ Starts(s)
  /\ \E i \in Ids : \E f \in Reads(i) :
       IF ~Whole(f)
       THEN /\ Reply(s, [kind |-> "get", outcome |-> "error"])
            /\ UNCHANGED <<trace, faults, told, lost>>
       ELSE LET use == {<<Session(s), i>>} IN
            /\ Log(s, TraceOf(s), use)
            /\ IF s \in mode.traced
               THEN told' = told \union use /\ lost' = lost \union (use \ trace'[TraceOf(s)].rows)
               ELSE UNCHANGED <<told, lost>>
            /\ Reply(s, [kind |-> "get", outcome |-> "ok"])
  /\ UNCHANGED <<mode, file, life, call, copy, edits, decided, acked, stale, raced>>

\* collectTraceFiles passes over a file that is not named *.jsonl, or lies more
\* than five directories below the path given, without a word.  Sessions name
\* their own files so, in one directory; a configured path is free.
Collected == IF mode.shared /\ ~mode.taken THEN {} ELSE TraceFiles

\* Seeded fault: a directory given by the caller is ignored.
ScannedIsOwn(s, all) == Collected \intersect {TraceOf(s)}

\* What recall scans: the server's own trace, unless paths are given.
Scanned(s, all) == Collected \intersect (IF all THEN TraceFiles ELSE {TraceOf(s)})

\* recall: the sessions with a readable use of the entry (scanRecallImpact).
Recall(s) ==
  /\ Starts(s)
  /\ \E i \in Ids, all \in BOOLEAN : \E f \in Reads(i) :
       IF ~Whole(f) THEN Reply(s, [kind |-> "recall", outcome |-> "error"])
       ELSE Reply(s, [kind |-> "recall", outcome |-> "ok", all |-> all,
                      known |-> {u \in told : u[2] = i},
                      impact |-> {u \in UNION {trace[t].rows : t \in Scanned(s, all)} : u[2] = i}])
  /\ UNCHANGED <<mode, disk, life, call, copy, edits, faults, history>>

\* The handler has returned: its tool_call row, and the call is over.
Finish(s) ==
  /\ pc[s] = "finish"
  /\ Log(s, TraceOf(s), OtherRow)
  /\ call' = [call EXCEPT ![s] = None]
  /\ answer' = [answer EXCEPT ![s] = None]
  /\ Goto(s, "idle")
  /\ UNCHANGED <<mode, file, life, copy, calls, edits, history>>
-----------------------------------------------------------------------------
(* The processes and the curator *)

\* A server dies; an entry it was writing stays as it is.
Crash(s) ==
  /\ pc[s] \notin {"idle", "down"}
  /\ faults < MaxFaults /\ faults' = faults + 1
  /\ IF pc[s] = "write"
     THEN /\ \E f \in {Torn, [copy[s].new EXCEPT !.body = FALSE]} :
               file' = [file EXCEPT ![call[s].id] = f]
          /\ raced' = raced \union {call[s].id}
     ELSE UNCHANGED <<file, raced>>
  /\ Goto(s, "down")
  /\ copy' = [copy EXCEPT ![s] = None] /\ stale' = stale \ {s}
  /\ call' = [call EXCEPT ![s] = None] /\ answer' = [answer EXCEPT ![s] = None]
  /\ UNCHANGED <<mode, trace, life, calls, edits, decided, acked, told, lost>>

\* It is started again, and opens a new session.
Restart(s) ==
  /\ pc[s] = "down"
  /\ life' = [life EXCEPT ![s] = @ + 1]
  /\ Log(s, IF mode.shared THEN <<"shared">> ELSE <<s, life[s] + 1>>, OtherRow)
  /\ Goto(s, "idle")
  /\ UNCHANGED <<mode, file, call, copy, answer, calls, edits, history>>

\* The curator loads an entry into an editor ...
Load(i) ==
  /\ edits < MaxEdits /\ copy[Editor] = None
  /\ Whole(file[i])
  /\ edits' = edits + 1
  /\ copy' = [copy EXCEPT ![Editor] = [id |-> i, new |-> file[i]]]
  /\ stale' = IF Writing(i) = {} THEN stale \ {Editor} ELSE stale \union {Editor}
  /\ UNCHANGED <<mode, disk, life, pc, call, answer, calls, faults, decided, acked, raced, told, lost>>

\* ... and saves it with another tier or status.
Save ==
  /\ copy[Editor] # None
  /\ LET i == copy[Editor].id IN
       /\ \E d \in Decisions :
            /\ file' = [file EXCEPT ![i] = [copy[Editor].new EXCEPT !.dec = d]]
            /\ decided' = [decided EXCEPT ![i] = d]
       /\ raced' = IF Editor \in stale THEN raced \union {i} ELSE raced
       /\ stale' = (stale \ {Editor}) \union Holders(Editor, i)
  /\ copy' = [copy EXCEPT ![Editor] = None]
  /\ UNCHANGED <<mode, trace, life, pc, call, answer, calls, edits, faults, acked, told, lost>>

\* An entry that no longer parses is deleted by hand.
Discard(i) ==
  /\ file[i] = Torn /\ Writing(i) = {}
  /\ file' = [file EXCEPT ![i] = Missing]
  /\ stale' = stale \union Holders(Editor, i)
  /\ UNCHANGED <<mode, trace, life, pc, call, copy, answer, calls, edits, faults, decided, acked, raced,
                 told, lost>>

Call(s) == Capture(s) \/ List(s) \/ Get(s) \/ Recall(s)
Step(s) == ReadEntry(s) \/ OpenEntry(s) \/ WriteEntry(s) \/ ReadListed(s) \/ Finish(s)

Rest == (\A s \in Servers : pc[s] = "idle") /\ UNCHANGED vars

Next ==
  \/ \E s \in Servers : Call(s) \/ Step(s) \/ Crash(s) \/ Restart(s)
  \/ \E i \in Ids : Load(i) \/ Discard(i)
  \/ Save \/ Rest

Spec == Init /\ [][Next]_vars

-----------------------------------------------------------------------------
(* Properties *)

TypeOK ==
  /\ mode \in Modes
  /\ file \in [Ids -> {Missing, Torn} \union Entries]
  /\ trace \in [TraceFiles -> [rows : SUBSET (Sessions \X Ids), cut : BOOLEAN]]
  /\ life \in [Servers -> 0..MaxFaults]
  /\ pc \in [Servers -> {"idle", "read", "open", "write", "list", "finish", "down"}]
  /\ calls \in 0..MaxCalls /\ edits \in 0..MaxEdits /\ faults \in 0..MaxFaults
  /\ copy \in [Servers \union {Editor} -> Copies \union {None}]
  /\ stale \subseteq Servers \union {Editor} /\ raced \subseteq Ids
  /\ acked \subseteq Ids \X Evidence
  /\ told \union lost \subseteq Sessions \X Ids

\* Nobody is writing i, and nobody ever wrote it from a copy that was not the
\* file any more or died in the middle of a write.
Unraced(i) == i \notin raced /\ Writing(i) = {}

\* The same tier, status and recall state.
SameStanding(d, e) == d.tier = e.tier /\ d.status = e.status /\ d.recall = e.recall

\* Every verification that was written stays in its entry, the entry stays
\* readable and whole, and its tier and status are the curator's last word
\* (vault.mjs:253-257): only a write that overlaps another one, or a death in
\* the middle of one, takes any of it away.
EntryKeepsWhatItWasGiven ==
  \A i \in Ids : Unraced(i) =>
    IF file[i] = Missing THEN \A e \in Evidence : <<i, e>> \notin acked
    ELSE /\ Whole(file[i]) /\ file[i].body
         /\ {e \in Evidence : <<i, e>> \in acked} \subseteq file[i].ev
         /\ SameStanding(file[i].dec, decided[i])

\* No server changes an entry that was promoted or recalled, nor one that does
\* not parse: those wait for the curator (vault-tool.mjs:1-3).  The exception is
\* a server that read the entry before.
ServersLeaveCuratedAlone ==
  [][\A s \in Servers : OpenEntry(s) /\ s \notin stale =>
       LET f == file[call[s].id] IN
         f.kind # "torn" /\ (Whole(f) => f.dec.tier = "candidate" /\ Current(f.dec))]_vars

Answered(s, kind) == answer[s] # None /\ answer[s].kind = kind

\* An entry that stands recalled by the curator's last word when a search reads
\* it is not offered, unless an overlapping write undid the recall.
RecallIsObeyed ==
  \A s \in Servers : Answered(s, "search") /\ ~answer[s].all =>
    answer[s].seen \intersect answer[s].hidden \subseteq raced

\* A recall that is given all the trace files names every session that was told
\* its use is recorded, but for uses whose row never reached the file whole, and
\* for all of them when the configured file is one that a scan passes over.
RecallFindsUses ==
  \A s \in Servers :
    Answered(s, "recall") /\ answer[s].outcome = "ok" /\ answer[s].all /\ Collected # {} =>
      answer[s].known \ lost \subseteq answer[s].impact
=============================================================================
