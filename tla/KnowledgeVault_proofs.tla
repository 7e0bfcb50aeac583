----------------------- MODULE KnowledgeVault_proofs -----------------------
(***************************************************************************)
(* The vault for every number of servers, entries, calls, edits and        *)
(* faults: what whole-file rewriting can and cannot take away.             *)
(***************************************************************************)
EXTENDS KnowledgeVault, TLAPS

Actors == Servers \union {Editor}

\* What a listing has collected so far.
Collection == [kind : {"search", "validate"}, all : BOOLEAN, status : States,
              todo : SUBSET Ids, seen : SUBSET Ids, hidden : SUBSET Ids]

\* A capture under way has its entry and its evidence; it holds a copy from the
\* reading to the writing, with its own evidence in it.
WorkInv ==
  /\ DOMAIN call = Servers /\ DOMAIN answer = Servers /\ DOMAIN decided = Ids
  /\ \A s \in Servers :
       /\ pc[s] \in {"read", "open", "write"} => call[s] \in [kind : {"capture"}, id : Ids, ev : Evidence]
       /\ pc[s] \in {"open", "write"} <=> copy[s] # None
       /\ copy[s] # None => copy[s].id = call[s].id /\ call[s].ev \in copy[s].new.ev
       /\ pc[s] = "list" => call[s] \in Collection
       /\ life[s] <= faults /\ (pc[s] = "down" => life[s] < faults)

\* While an entry is being written, every other copy of it is stale, and the
\* writer's own is not unless the entry counts as raced.
StaleInv ==
  \A s \in Servers : pc[s] = "write" =>
    /\ \A a \in Actors \ {s} : copy[a] # None /\ copy[a].id = call[s].id => a \in stale
    /\ call[s].id \notin raced => s \notin stale

\* A server that goes to write an entry has seen the file as it is, and may.
FreshInv ==
  \A s \in Servers : pc[s] = "open" /\ s \notin stale =>
    LET f == file[call[s].id] IN f = Missing \/ (Whole(f) /\ ~Protected(f.dec))

\* An entry as it should be: whole, with all the evidence acknowledged and the
\* curator's last word.
Good(i, e) ==
  e.body /\ (\A n \in Evidence : <<i, n>> \in acked => n \in e.ev) /\ SameStanding(e.dec, decided[i])

EntryInv ==
  /\ \A i \in Ids : Unraced(i) =>
       \/ file[i] = Missing /\ decided[i] = Fresh /\ \A n \in Evidence : <<i, n>> \notin acked
       \/ Whole(file[i]) /\ Good(i, file[i])
  /\ \A a \in Actors : copy[a] # None /\ a \notin stale /\ copy[a].id \notin raced =>
       Good(copy[a].id, copy[a].new)

\* What a search has collected so far, and what it answers.
SearchInv ==
  \A s \in Servers :
    /\ pc[s] = "list" =>
         /\ call[s].todo \intersect (call[s].seen \union call[s].hidden) = {}
         /\ call[s].kind = "search" /\ ~call[s].all => call[s].seen \intersect call[s].hidden \subseteq raced
    /\ Answered(s, "search") /\ ~answer[s].all => answer[s].seen \intersect answer[s].hidden \subseteq raced

\* A use that was told and not lost is in some trace file, and every recall over
\* all of them has found it.
TraceInv ==
  /\ told \ lost \subseteq UNION {trace[t].rows : t \in TraceFiles}
  /\ RecallFindsUses

VaultInv == TypeOK /\ WorkInv /\ StaleInv /\ FreshInv /\ EntryInv /\ SearchInv /\ TraceInv
-----------------------------------------------------------------------------
\* TypeOK in three parts.
FileTypes ==
  /\ mode \in Modes
  /\ file \in [Ids -> {Missing, Torn} \union Entries]
  /\ copy \in [Servers \union {Editor} -> Copies \union {None}]
  /\ edits \in 0..MaxEdits
TraceTypes ==
  /\ trace \in [TraceFiles -> [rows : SUBSET (Sessions \X Ids), cut : BOOLEAN]]
  /\ life \in [Servers -> 0..MaxFaults] /\ faults \in 0..MaxFaults
  /\ told \union lost \subseteq Sessions \X Ids
ServerTypes ==
  /\ pc \in [Servers -> {"idle", "read", "open", "write", "list", "finish", "down"}]
  /\ calls \in 0..MaxCalls
  /\ stale \subseteq Servers \union {Editor} /\ raced \subseteq Ids
  /\ acked \subseteq Ids \X Evidence

LEMMA TypeParts == TypeOK' <=> FileTypes' /\ TraceTypes' /\ ServerTypes'
BY DEF TypeOK, FileTypes, TraceTypes, ServerTypes

\* Where a server's rows go.
LEMMA TraceFile ==
  ASSUME TypeOK, NEW s \in Servers
  PROVE  Session(s) \in Sessions /\ TraceOf(s) \in TraceFiles
BY DEF TypeOK, Session, Sessions, TraceOf, TraceFiles

\* A row that is logged, or not, keeps what the trace files have.
LEMMA LogTypes ==
  ASSUME TypeOK, NEW s \in Servers, NEW f \in TraceFiles, NEW row \in SUBSET (Sessions \X Ids), Log(s, f, row)
  PROVE  /\ trace' \in [TraceFiles -> [rows : SUBSET (Sessions \X Ids), cut : BOOLEAN]]
         /\ faults' \in 0..MaxFaults /\ faults <= faults'
         /\ \A t \in TraceFiles : trace[t].rows \subseteq trace'[t].rows
<1> USE VaultAssumption DEF TypeOK
<1>1. CASE UNCHANGED <<trace, faults>>
  BY <1>1
<1>2. CASE trace' = [trace EXCEPT ![f] = Appended(@, row)] /\ UNCHANGED faults
  <2>1. Appended(trace[f], row) \in [rows : SUBSET (Sessions \X Ids), cut : BOOLEAN]
    <3>1. trace[f] \in [rows : SUBSET (Sessions \X Ids), cut : BOOLEAN]
      OBVIOUS
    <3>2. trace[f].rows \union row \in SUBSET (Sessions \X Ids)
      BY <3>1
    <3>3. \A t \in [rows : SUBSET (Sessions \X Ids), cut : BOOLEAN] :
            [t EXCEPT !.cut = FALSE] \in [rows : SUBSET (Sessions \X Ids), cut : BOOLEAN]
      OBVIOUS
    <3>4. \A t \in [rows : SUBSET (Sessions \X Ids), cut : BOOLEAN], rs \in SUBSET (Sessions \X Ids) :
            [t EXCEPT !.rows = rs] \in [rows : SUBSET (Sessions \X Ids), cut : BOOLEAN]
      OBVIOUS
    <3> QED
      BY <3>1, <3>2, <3>3, <3>4 DEF Appended
  <2>2. trace[f].rows \subseteq Appended(trace[f], row).rows
    BY DEF Appended
  <2> QED
    BY <1>2, <2>1, <2>2
<1>3. ASSUME NEW cut \in BOOLEAN, faults < MaxFaults, faults' = faults + 1, trace' = [trace EXCEPT ![f].cut = @ \/ cut]
      PROVE  /\ trace' \in [TraceFiles -> [rows : SUBSET (Sessions \X Ids), cut : BOOLEAN]]
             /\ faults' \in 0..MaxFaults /\ faults <= faults'
             /\ \A t \in TraceFiles : trace[t].rows \subseteq trace'[t].rows
  <2>1. \E b \in BOOLEAN : trace' = [trace EXCEPT ![f] = [@ EXCEPT !.cut = b]]
    BY <1>3
  <2> QED
    BY <1>3, <2>1
<1> QED
  BY <1>1, <1>2, <1>3 DEF Log

\* The three kinds of row.
LEMMA Rows ==
  ASSUME TypeOK, NEW s \in Servers, NEW i \in Ids
  PROVE  OtherRow \in SUBSET (Sessions \X Ids) /\ {<<Session(s), i>>} \in SUBSET (Sessions \X Ids)
BY TraceFile DEF OtherRow

\* The server that writes an entry has the capture and its copy.
LEMMA Writers ==
  ASSUME TypeOK, WorkInv, NEW s \in Servers, pc[s] \in {"open", "write"}
  PROVE  /\ copy[s] \in Copies /\ copy[s] # None /\ copy[s].id = call[s].id
         /\ call[s].id \in Ids /\ call[s].ev \in Evidence /\ call[s].ev \in copy[s].new.ev
         /\ copy[s].new \in Entries /\ copy[s].new # Torn /\ copy[s].new # Missing
BY DEF TypeOK, WorkInv, Copies, Entries, Torn, Missing

\* Entries with a field changed are entries.
LEMMA EntryTypes ==
  /\ \A e \in Entries, b \in BOOLEAN : [e EXCEPT !.body = b] \in Entries
  /\ \A e \in Entries, d \in Decisions : [e EXCEPT !.dec = d] \in Entries
  /\ \A d \in Decision, ev \in SUBSET Evidence, b \in BOOLEAN : Entry(d, ev, b) \in Entries
  /\ \A e \in Entries : Whole(e) /\ e # Torn /\ e # Missing
  /\ Fresh \in Decision /\ ~Whole(Torn) /\ ~Whole(Missing) /\ Torn # Missing
BY VaultAssumption DEF Entries, Entry, Whole, Torn, Missing, Fresh, Decision, Tiers, States

\* What a read of an entry can see, and what a capture makes of it.
LEMMA ReadTypes ==
  ASSUME TypeOK, WorkInv, NEW i \in Ids, NEW f \in Reads(i)
  PROVE  f \in {Missing, Torn} \union Entries
<1>1. CASE Writing(i) = {}
  BY <1>1 DEF Reads, TypeOK
<1>2. ASSUME NEW s \in Writing(i), f = Entry(copy[s].new.dec, copy[s].new.ev, FALSE) PROVE f \in Entries
  <2>1. copy[s].new \in Entries
    BY Writers DEF Writing
  <2>2. copy[s].new.dec \in Decision /\ copy[s].new.ev \in SUBSET Evidence
    BY <2>1 DEF Entries
  <2> QED
    BY <1>2, <2>2, EntryTypes
<1> QED
  BY <1>1, <1>2 DEF Reads

LEMMA UpdatedType ==
  ASSUME NEW f \in {Missing, Torn} \union Entries, NEW e \in Evidence, f.kind = "missing" \/ Whole(f)
  PROVE  Updated(f, e) \in Entries /\ e \in Updated(f, e).ev
<1>1. CASE f = Missing
  BY <1>1, EntryTypes DEF Updated, Missing, Entry
<1>2. CASE f \in Entries
  <2>1. [f.dec EXCEPT !.valid = TRUE] \in Decision /\ f.ev \union {e} \in SUBSET Evidence /\ f.body \in BOOLEAN
    BY <1>2 DEF Entries, Decision
  <2>2. Updated(f, e) = Entry([f.dec EXCEPT !.valid = TRUE], f.ev \union {e}, f.body)
    BY <1>2 DEF Updated, Entries
  <2> QED
    <3>1. Updated(f, e) \in Entries
      BY <2>1, <2>2, EntryTypes
    <3>2. e \in Updated(f, e).ev
      BY <2>2 DEF Entry
    <3> QED
      BY <3>1, <3>2
<1> QED
  BY <1>1, <1>2 DEF Missing, Torn, Whole

\* A slip mended leaves an entry's standing.
LEMMA Mended ==
  ASSUME NEW d \in Decision, NEW e, SameStanding(d, e)
  PROVE  SameStanding([d EXCEPT !.valid = TRUE], e)
BY DEF Decision, SameStanding

LEMMA StandsItself == \A d : SameStanding(d, d)
BY DEF SameStanding

\* A listing that has read one more entry.
LEMMA ListingParts ==
  ASSUME NEW c \in Collection, NEW i \in Ids, NEW f
  PROVE  /\ Listing(c, i, f) \in Collection
         /\ Listing(c, i, f).todo = c.todo \ {i}
         /\ Listing(c, i, f).kind = c.kind /\ Listing(c, i, f).all = c.all
         /\ Listing(c, i, f).seen = IF Listed(c, f) THEN c.seen \union {i} ELSE c.seen
         /\ Listing(c, i, f).hidden = IF Current(decided[i]) THEN c.hidden ELSE c.hidden \union {i}
BY DEF Listing, Collection

\* The others that hold a copy of an entry.
LEMMA HoldersType == \A a \in Actors, i \in Ids : Holders(a, i) \subseteq Actors
BY DEF Holders, Actors

\* The entries keep their types ...
LEMMA NextFileTypes == TypeOK /\ WorkInv /\ [Next]_vars => FileTypes'
<1> SUFFICES ASSUME TypeOK, WorkInv, [Next]_vars PROVE FileTypes'
  OBVIOUS
<1> USE VaultAssumption DEF FileTypes, TypeOK, WorkInv, Copies
<1>1. ASSUME NEW s \in Servers, Capture(s) PROVE FileTypes'
  BY <1>1 DEF Capture, Begin, Starts, Goto, disk, history
<1>2. ASSUME NEW s \in Servers, ReadEntry(s) PROVE FileTypes'
  <2>1. PICK f \in Reads(call[s].id) : Judge(s, f)
    BY <1>2 DEF ReadEntry
  <2>2. call[s].id \in Ids /\ call[s].ev \in Evidence
    BY <1>2 DEF ReadEntry
  <2>3. f \in {Missing, Torn} \union Entries
    BY <2>1, <2>2, ReadTypes
  <2>4. copy' = copy \/ (copy' = [copy EXCEPT ![s] = [id |-> call[s].id, new |-> Updated(f, call[s].ev)]]
                         /\ (f.kind = "missing" \/ Whole(f)))
    BY <2>1 DEF Judge
  <2>5. copy' \in [Servers \union {Editor} -> Copies \union {None}]
    BY <2>2, <2>3, <2>4, UpdatedType
  <2> QED
    BY <1>2, <2>5 DEF ReadEntry, disk
<1>3. ASSUME NEW s \in Servers, OpenEntry(s) PROVE FileTypes'
  BY <1>3 DEF OpenEntry, Goto
<1>4. ASSUME NEW s \in Servers, WriteEntry(s) PROVE FileTypes'
  <2>1. call[s].id \in Ids /\ copy[s].new \in Entries
    BY <1>4, Writers DEF WriteEntry
  <2>2. copy[s].new.body \in BOOLEAN
    BY <2>1 DEF Entries
  <2>3. PICK b \in BOOLEAN : file' = [file EXCEPT ![call[s].id] = [copy[s].new EXCEPT !.body = b]]
    BY <1>4, <2>2 DEF WriteEntry
  <2>4. [copy[s].new EXCEPT !.body = b] \in Entries
    BY <2>1, EntryTypes
  <2>5. file' \in [Ids -> {Missing, Torn} \union Entries]
    BY <2>3, <2>4
  <2> QED
    BY <1>4, <2>5 DEF WriteEntry
<1>5. ASSUME NEW s \in Servers, List(s) PROVE FileTypes'
  BY <1>5 DEF List, Begin, Starts, Goto, disk, history
<1>6. ASSUME NEW s \in Servers, ReadListed(s) PROVE FileTypes'
  BY <1>6 DEF ReadListed, Reply, Goto, disk, history
<1>7. ASSUME NEW s \in Servers, Get(s) PROVE FileTypes'
  BY <1>7 DEF Get, Starts, Reply, Goto
<1>8. ASSUME NEW s \in Servers, Recall(s) PROVE FileTypes'
  BY <1>8 DEF Recall, Starts, Reply, Goto, disk, history
<1>9. ASSUME NEW s \in Servers, Finish(s) PROVE FileTypes'
  BY <1>9 DEF Finish, Goto, history
<1>10. ASSUME NEW s \in Servers, Crash(s) PROVE FileTypes'
  <2>1. CASE pc[s] = "write"
    <3>1. call[s].id \in Ids /\ [copy[s].new EXCEPT !.body = FALSE] \in Entries
      BY <2>1, Writers, EntryTypes
    <3>2. file' \in [Ids -> {Missing, Torn} \union Entries]
      BY <1>10, <2>1, <3>1 DEF Crash
    <3> QED
      BY <1>10, <3>2 DEF Crash
  <2>2. CASE pc[s] # "write"
    BY <1>10, <2>2 DEF Crash
  <2> QED
    BY <2>1, <2>2
<1>11. ASSUME NEW s \in Servers, Restart(s) PROVE FileTypes'
  BY <1>11 DEF Restart, Goto, history
<1>12. ASSUME NEW i \in Ids, Load(i) PROVE FileTypes'
  <2>1. file[i] \in Entries
    BY <1>12, EntryTypes DEF Load
  <2>2. [id |-> i, new |-> file[i]] \in Copies
    BY <2>1
  <2>3. copy' \in [Servers \union {Editor} -> Copies \union {None}]
    BY <1>12, <2>2 DEF Load
  <2> QED
    BY <1>12, <2>3 DEF Load, disk
<1>13. ASSUME NEW i \in Ids, Discard(i) PROVE FileTypes'
  BY <1>13 DEF Discard
<1>14. CASE Save
  <2>1. copy[Editor].id \in Ids /\ copy[Editor].new \in Entries
    BY <1>14 DEF Save
  <2>2. PICK d \in Decisions : file' = [file EXCEPT ![copy[Editor].id] = [copy[Editor].new EXCEPT !.dec = d]]
    BY <1>14 DEF Save
  <2>3. [copy[Editor].new EXCEPT !.dec = d] \in Entries
    BY <2>1, EntryTypes
  <2>4. file' \in [Ids -> {Missing, Torn} \union Entries]
    BY <2>2, <2>3
  <2> QED
    BY <1>14, <2>4 DEF Save
<1>15. CASE UNCHANGED vars
  BY <1>15 DEF vars, disk, history
<1> QED
  BY <1>1, <1>2, <1>3, <1>4, <1>5, <1>6, <1>7, <1>8, <1>9, <1>10, <1>11, <1>12, <1>13, <1>14,
     <1>15 DEF Next, Call, Step, Rest

\* ... the trace files ...
LEMMA NextTraceTypes == TypeOK /\ WorkInv /\ [Next]_vars => TraceTypes'
<1> SUFFICES ASSUME TypeOK, WorkInv, [Next]_vars PROVE TraceTypes'
  OBVIOUS
<1> USE VaultAssumption DEF TraceTypes, TypeOK, WorkInv
<1>1. ASSUME NEW s \in Servers, Capture(s) PROVE TraceTypes'
  BY <1>1 DEF Capture, Begin, Starts, Goto, disk, history
<1>2. ASSUME NEW s \in Servers, ReadEntry(s) PROVE TraceTypes'
  BY <1>2 DEF ReadEntry, Judge, Reply, Goto, disk
<1>3. ASSUME NEW s \in Servers, OpenEntry(s) PROVE TraceTypes'
  BY <1>3 DEF OpenEntry, Goto
<1>4. ASSUME NEW s \in Servers, WriteEntry(s) PROVE TraceTypes'
  <2>1. Log(s, TraceOf(s), OtherRow) /\ UNCHANGED <<life, told, lost>>
    BY <1>4 DEF WriteEntry
  <2> QED
    BY <2>1, LogTypes, TraceFile, OtherRow \in SUBSET (Sessions \X Ids) DEF OtherRow
<1>5. ASSUME NEW s \in Servers, List(s) PROVE TraceTypes'
  BY <1>5 DEF List, Begin, Starts, Goto, disk, history
<1>6. ASSUME NEW s \in Servers, ReadListed(s) PROVE TraceTypes'
  BY <1>6 DEF ReadListed, Reply, Goto, disk, history
<1>7. ASSUME NEW s \in Servers, Get(s) PROVE TraceTypes'
  <2>1. PICK i \in Ids : \E f \in Reads(i) :
         \/ UNCHANGED <<trace, faults, told, lost>>
         \/ /\ Log(s, TraceOf(s), {<<Session(s), i>>})
            /\ told' \subseteq told \union {<<Session(s), i>>} /\ lost' \subseteq lost \union {<<Session(s), i>>}
    BY <1>7 DEF Get
  <2>2. UNCHANGED life
    BY <1>7 DEF Get
  <2>3. CASE UNCHANGED <<trace, faults, told, lost>>
    BY <2>2, <2>3
  <2>4. CASE Log(s, TraceOf(s), {<<Session(s), i>>}) /\ told' \subseteq told \union {<<Session(s), i>>}
             /\ lost' \subseteq lost \union {<<Session(s), i>>}
    <3>1. {<<Session(s), i>>} \in SUBSET (Sessions \X Ids)
      BY Rows
    <3> QED
      BY <2>2, <2>4, <3>1, LogTypes, TraceFile
  <2> QED
    BY <2>1, <2>3, <2>4
<1>8. ASSUME NEW s \in Servers, Recall(s) PROVE TraceTypes'
  BY <1>8 DEF Recall, Starts, Reply, Goto, disk, history
<1>9. ASSUME NEW s \in Servers, Finish(s) PROVE TraceTypes'
  <2>1. Log(s, TraceOf(s), OtherRow) /\ UNCHANGED <<life, told, lost>>
    BY <1>9 DEF Finish, history
  <2> QED
    BY <2>1, LogTypes, TraceFile, OtherRow \in SUBSET (Sessions \X Ids) DEF OtherRow
<1>10. ASSUME NEW s \in Servers, Crash(s) PROVE TraceTypes'
  BY <1>10 DEF Crash, Goto
<1>11. ASSUME NEW s \in Servers, Restart(s) PROVE TraceTypes'
  <2>1. life[s] < faults /\ life' = [life EXCEPT ![s] = life[s] + 1] /\ UNCHANGED <<told, lost>>
    BY <1>11 DEF Restart, history
  <2>2. life[s] + 1 \in 0..MaxFaults
    BY <2>1
  <2>3. <<"shared">> \in TraceFiles /\ <<s, life[s] + 1>> \in TraceFiles
    BY <2>2 DEF TraceFiles, Sessions
  <2>4. PICK f \in TraceFiles : Log(s, f, OtherRow)
    BY <1>11, <2>3 DEF Restart
  <2>5. OtherRow \in SUBSET (Sessions \X Ids)
    BY DEF OtherRow
  <2> QED
    BY <2>1, <2>2, <2>4, <2>5, LogTypes
<1>12. ASSUME NEW i \in Ids, Load(i) PROVE TraceTypes'
  BY <1>12 DEF Load, disk
<1>13. ASSUME NEW i \in Ids, Discard(i) PROVE TraceTypes'
  BY <1>13 DEF Discard
<1>14. CASE Save
  BY <1>14 DEF Save
<1>15. CASE UNCHANGED vars
  BY <1>15 DEF vars, disk, history
<1> QED
  BY <1>1, <1>2, <1>3, <1>4, <1>5, <1>6, <1>7, <1>8, <1>9, <1>10, <1>11, <1>12, <1>13, <1>14,
     <1>15 DEF Next, Call, Step, Rest

\* ... and the servers.
LEMMA NextServerTypes == TypeOK /\ WorkInv /\ [Next]_vars => ServerTypes'
<1> SUFFICES ASSUME TypeOK, WorkInv, [Next]_vars PROVE ServerTypes'
  OBVIOUS
<1> USE VaultAssumption DEF ServerTypes, TypeOK, WorkInv, Copies
<1>1. ASSUME NEW s \in Servers, Capture(s) PROVE ServerTypes'
  BY <1>1 DEF Capture, Begin, Starts, Goto, disk, history
<1>2. ASSUME NEW s \in Servers, ReadEntry(s) PROVE ServerTypes'
  BY <1>2 DEF ReadEntry, Judge, Reply, Goto, disk
<1>3. ASSUME NEW s \in Servers, OpenEntry(s) PROVE ServerTypes'
  <2>1. call[s].id \in Ids
    BY <1>3, Writers DEF OpenEntry
  <2>2. stale' \subseteq Actors /\ raced' \subseteq Ids
    BY <1>3, <2>1, HoldersType DEF OpenEntry, Actors
  <2> QED
    BY <1>3, <2>2 DEF OpenEntry, Goto, Actors
<1>4. ASSUME NEW s \in Servers, WriteEntry(s) PROVE ServerTypes'
  <2>1. call[s].id \in Ids /\ call[s].ev \in Evidence
    BY <1>4, Writers DEF WriteEntry
  <2>2. stale' \subseteq Actors /\ raced' \subseteq Ids /\ acked' \subseteq Ids \X Evidence
    BY <1>4, <2>1, HoldersType DEF WriteEntry, Actors
  <2> QED
    BY <1>4, <2>2 DEF WriteEntry, Reply, Goto, Actors
<1>5. ASSUME NEW s \in Servers, List(s) PROVE ServerTypes'
  BY <1>5 DEF List, Begin, Starts, Goto, disk, history
<1>6. ASSUME NEW s \in Servers, ReadListed(s) PROVE ServerTypes'
  BY <1>6 DEF ReadListed, Reply, Goto, disk, history
<1>7. ASSUME NEW s \in Servers, Get(s) PROVE ServerTypes'
  BY <1>7 DEF Get, Starts, Reply, Goto
<1>8. ASSUME NEW s \in Servers, Recall(s) PROVE ServerTypes'
  BY <1>8 DEF Recall, Starts, Reply, Goto, disk, history
<1>9. ASSUME NEW s \in Servers, Finish(s) PROVE ServerTypes'
  BY <1>9 DEF Finish, Goto, history
<1>10. ASSUME NEW s \in Servers, Crash(s) PROVE ServerTypes'
  BY <1>10 DEF Crash, Goto
<1>11. ASSUME NEW s \in Servers, Restart(s) PROVE ServerTypes'
  BY <1>11 DEF Restart, Goto, history
<1>12. ASSUME NEW i \in Ids, Load(i) PROVE ServerTypes'
  BY <1>12 DEF Load, disk
<1>13. ASSUME NEW i \in Ids, Discard(i) PROVE ServerTypes'
  <2>1. stale' \subseteq Actors
    BY <1>13, HoldersType DEF Discard, Actors
  <2> QED
    BY <1>13, <2>1 DEF Discard, Actors
<1>14. CASE Save
  <2>1. copy[Editor].id \in Ids
    BY <1>14 DEF Save
  <2>2. stale' \subseteq Actors /\ raced' \subseteq Ids
    BY <1>14, <2>1, HoldersType DEF Save, Actors
  <2> QED
    BY <1>14, <2>2 DEF Save, Actors
<1>15. CASE UNCHANGED vars
  BY <1>15 DEF vars, disk, history
<1> QED
  BY <1>1, <1>2, <1>3, <1>4, <1>5, <1>6, <1>7, <1>8, <1>9, <1>10, <1>11, <1>12, <1>13, <1>14,
     <1>15 DEF Next, Call, Step, Rest

\* What a server is at.
LEMMA NextWorkInv == TypeOK /\ WorkInv /\ [Next]_vars => WorkInv'
<1> SUFFICES ASSUME TypeOK, WorkInv, [Next]_vars PROVE WorkInv'
  OBVIOUS
<1> USE VaultAssumption DEF TypeOK, WorkInv, Copies
<1>1. ASSUME NEW s \in Servers, Capture(s) PROVE WorkInv'
  <2>1. CASE \E i \in Ids : Begin(s, [kind |-> "capture", id |-> i, ev |-> calls + 1], "read")
    <3>1. PICK i \in Ids : call' = [call EXCEPT ![s] = [kind |-> "capture", id |-> i, ev |-> calls + 1]]
                         /\ pc' = [pc EXCEPT ![s] = "read"]
      BY <2>1 DEF Begin, Goto
    <3>2. calls + 1 \in Evidence
      BY <2>1 DEF Begin, Starts, Evidence
    <3>3. [kind |-> "capture", id |-> i, ev |-> calls + 1] \in [kind : {"capture"}, id : Ids, ev : Evidence]
      BY <3>2
    <3>4. pc[s] = "idle" /\ UNCHANGED <<life, copy, answer, faults, decided>>
      BY <1>1, <2>1 DEF Capture, Begin, Starts, history
    <3> QED
      BY <3>1, <3>3, <3>4
  <2>2. CASE Begin(s, [kind |-> "capture"], "finish")
    BY <1>1, <2>2 DEF Capture, Begin, Starts, Goto, disk, history
  <2> QED
    BY <1>1, <2>1, <2>2 DEF Capture
<1>2. ASSUME NEW s \in Servers, ReadEntry(s) PROVE WorkInv'
  <2>1. PICK f \in Reads(call[s].id) : Judge(s, f)
    BY <1>2 DEF ReadEntry
  <2>2. pc[s] = "read" /\ UNCHANGED <<life, call, faults, decided>> /\ call[s].id \in Ids /\ call[s].ev \in Evidence
    BY <1>2 DEF ReadEntry
  <2>3. CASE \E a : Reply(s, a) /\ UNCHANGED copy
    BY <2>2, <2>3 DEF Reply, Goto
  <2>4. CASE /\ f.kind = "missing" \/ Whole(f)
             /\ copy' = [copy EXCEPT ![s] = [id |-> call[s].id, new |-> Updated(f, call[s].ev)]]
             /\ pc' = [pc EXCEPT ![s] = "open"] /\ UNCHANGED answer
    <3>1. f \in {Missing, Torn} \union Entries
      BY <2>1, <2>2, ReadTypes
    <3>2. Updated(f, call[s].ev) \in Entries /\ call[s].ev \in Updated(f, call[s].ev).ev
      BY <2>2, <2>4, <3>1, UpdatedType
    <3>3. [id |-> call[s].id, new |-> Updated(f, call[s].ev)] \in Copies
      BY <2>2, <3>2
    <3> QED
      BY <2>2, <2>4, <3>2, <3>3
  <2> QED
    BY <2>1, <2>3, <2>4 DEF Judge, Goto
<1>3. ASSUME NEW s \in Servers, OpenEntry(s) PROVE WorkInv'
  BY <1>3 DEF OpenEntry, Goto
<1>4. ASSUME NEW s \in Servers, WriteEntry(s) PROVE WorkInv'
  <2>1. pc[s] = "write" /\ copy' = [copy EXCEPT ![s] = None] /\ pc' = [pc EXCEPT ![s] = "finish"]
    BY <1>4 DEF WriteEntry, Reply, Goto
  <2>2. DOMAIN answer' = Servers /\ UNCHANGED <<life, call, decided>>
    BY <1>4 DEF WriteEntry, Reply
  <2>3. faults <= faults' /\ faults' \in Nat
    <3>1. Log(s, TraceOf(s), OtherRow)
      BY <1>4 DEF WriteEntry
    <3> QED
      BY <3>1 DEF Log
  <2> QED
    BY <2>1, <2>2, <2>3
<1>5. ASSUME NEW s \in Servers, List(s) PROVE WorkInv'
  <2>1. PICK l \in Listings : Begin(s, [kind |-> l[1], all |-> l[2], status |-> l[3],
            todo |-> {i \in Ids : file[i] # Missing}, seen |-> {}, hidden |-> {}], "list")
    BY <1>5 DEF List
  <2>2. l[1] \in {"search", "validate"} /\ l[2] \in BOOLEAN /\ l[3] \in States
    <3>1. \/ l = <<"validate", TRUE, "active">> \/ l = <<"search", FALSE, "active">>
          \/ \E st \in States : l = <<"search", TRUE, st>>
      BY DEF Listings
    <3>2. ASSUME NEW st \in States, l = <<"search", TRUE, st>>
          PROVE  l[1] \in {"search", "validate"} /\ l[2] \in BOOLEAN /\ l[3] \in States
      BY <3>2
    <3>3. CASE l = <<"validate", TRUE, "active">>
      BY <3>3 DEF States
    <3>4. CASE l = <<"search", FALSE, "active">>
      BY <3>4 DEF States
    <3> QED
      BY <3>1, <3>2, <3>3, <3>4
  <2>3. [kind |-> l[1], all |-> l[2], status |-> l[3], todo |-> {i \in Ids : file[i] # Missing}, seen |-> {}, hidden |-> {}]
          \in Collection
    BY <2>2 DEF Collection
  <2>4. pc[s] = "idle" /\ pc' = [pc EXCEPT ![s] = "list"] /\ UNCHANGED <<life, copy, answer, faults, decided>>
    BY <1>5, <2>1 DEF List, Begin, Starts, Goto, history
  <2>5. \E c \in Collection : call' = [call EXCEPT ![s] = c]
    BY <2>1, <2>3 DEF Begin
  <2> QED
    BY <2>4, <2>5
<1>6. ASSUME NEW s \in Servers, ReadListed(s) PROVE WorkInv'
  <2>1. PICK i \in call[s].todo : \E f \in Reads(i) :
          LET c == Listing(call[s], i, f)
          IN  call' = [call EXCEPT ![s] = c] /\ IF c.todo = {} THEN Reply(s, c) ELSE UNCHANGED <<pc, answer>>
    BY <1>6 DEF ReadListed
  <2>2. pc[s] = "list" /\ UNCHANGED <<life, copy, faults, decided>>
    BY <1>6 DEF ReadListed, history
  <2>3. \E c \in Collection : call' = [call EXCEPT ![s] = c]
    <3>1. call[s] \in Collection /\ i \in Ids
      BY <2>1, <2>2 DEF Collection
    <3>2. \A f \in Reads(i) : Listing(call[s], i, f) \in Collection
      BY <3>1, ListingParts
    <3> QED
      BY <2>1, <3>2
  <2>4. DOMAIN answer' = Servers /\ (pc' = pc \/ pc' = [pc EXCEPT ![s] = "finish"])
    BY <2>1 DEF Reply, Goto
  <2> QED
    BY <2>2, <2>3, <2>4
<1>7. ASSUME NEW s \in Servers, Get(s) PROVE WorkInv'
  <2>1. pc[s] = "idle" /\ pc' = [pc EXCEPT ![s] = "finish"] /\ DOMAIN answer' = Servers
    BY <1>7 DEF Get, Starts, Reply, Goto
  <2>2. UNCHANGED <<life, call, copy, decided>>
    BY <1>7 DEF Get
  <2>3. faults <= faults' /\ faults' \in Nat
    BY <1>7 DEF Get, Log
  <2> QED
    BY <2>1, <2>2, <2>3
<1>8. ASSUME NEW s \in Servers, Recall(s) PROVE WorkInv'
  BY <1>8 DEF Recall, Starts, Reply, Goto, disk, history
<1>9. ASSUME NEW s \in Servers, Finish(s) PROVE WorkInv'
  <2>1. pc[s] = "finish" /\ pc' = [pc EXCEPT ![s] = "idle"] /\ call' = [call EXCEPT ![s] = None]
    BY <1>9 DEF Finish, Goto
  <2>2. DOMAIN answer' = Servers /\ UNCHANGED <<life, copy, decided>>
    BY <1>9 DEF Finish, history
  <2>3. faults <= faults' /\ faults' \in Nat
    BY <1>9 DEF Finish, Log
  <2> QED
    BY <2>1, <2>2, <2>3
<1>10. ASSUME NEW s \in Servers, Crash(s) PROVE WorkInv'
  BY <1>10 DEF Crash, Goto
<1>11. ASSUME NEW s \in Servers, Restart(s) PROVE WorkInv'
  <2>1. pc[s] = "down" /\ pc' = [pc EXCEPT ![s] = "idle"] /\ life' = [life EXCEPT ![s] = life[s] + 1]
    BY <1>11 DEF Restart, Goto
  <2>2. UNCHANGED <<call, answer, copy, decided>>
    BY <1>11 DEF Restart, history
  <2>3. faults <= faults' /\ faults' \in Nat
    BY <1>11 DEF Restart, Log
  <2>4. life[s] < faults /\ life[s] + 1 <= faults'
    BY <2>1, <2>3
  <2> QED
    BY <2>1, <2>2, <2>3, <2>4
<1>12. ASSUME NEW i \in Ids, Load(i) PROVE WorkInv'
  BY <1>12 DEF Load, disk
<1>13. ASSUME NEW i \in Ids, Discard(i) PROVE WorkInv'
  BY <1>13 DEF Discard
<1>14. CASE Save
  BY <1>14 DEF Save
<1>15. CASE UNCHANGED vars
  BY <1>15 DEF vars, disk, history
<1> QED
  BY <1>1, <1>2, <1>3, <1>4, <1>5, <1>6, <1>7, <1>8, <1>9, <1>10, <1>11, <1>12, <1>13, <1>14,
     <1>15 DEF Next, Call, Step, Rest

-----------------------------------------------------------------------------
\* A write makes every other copy of its entry stale.
LEMMA NextStaleInv == TypeOK /\ WorkInv /\ StaleInv /\ [Next]_vars => StaleInv'
<1> SUFFICES ASSUME TypeOK, WorkInv, StaleInv, [Next]_vars PROVE StaleInv'
  OBVIOUS
<1> USE VaultAssumption DEF TypeOK, WorkInv, StaleInv, Actors, Holders, Copies, Writing
<1>1. ASSUME NEW s \in Servers, Capture(s) PROVE StaleInv'
  BY <1>1 DEF Capture, Begin, Starts, Goto, disk, history
<1>2. ASSUME NEW s \in Servers, ReadEntry(s) PROVE StaleInv'
  BY <1>2 DEF ReadEntry, Judge, Reply, Goto, disk
<1>3. ASSUME NEW s \in Servers, OpenEntry(s) PROVE StaleInv'
  BY <1>3 DEF OpenEntry, Goto
<1>4. ASSUME NEW s \in Servers, WriteEntry(s) PROVE StaleInv'
  BY <1>4 DEF WriteEntry, Reply, Goto
<1>5. ASSUME NEW s \in Servers, List(s) PROVE StaleInv'
  BY <1>5 DEF List, Begin, Starts, Goto, disk, history
<1>6. ASSUME NEW s \in Servers, ReadListed(s) PROVE StaleInv'
  BY <1>6 DEF ReadListed, Reply, Goto, disk, history
<1>7. ASSUME NEW s \in Servers, Get(s) PROVE StaleInv'
  BY <1>7 DEF Get, Starts, Reply, Goto
<1>8. ASSUME NEW s \in Servers, Recall(s) PROVE StaleInv'
  BY <1>8 DEF Recall, Starts, Reply, Goto, disk, history
<1>9. ASSUME NEW s \in Servers, Finish(s) PROVE StaleInv'
  BY <1>9 DEF Finish, Goto, history
<1>10. ASSUME NEW s \in Servers, Crash(s) PROVE StaleInv'
  BY <1>10 DEF Crash, Goto
<1>11. ASSUME NEW s \in Servers, Restart(s) PROVE StaleInv'
  BY <1>11 DEF Restart, Goto, history
<1>12. ASSUME NEW i \in Ids, Load(i) PROVE StaleInv'
  BY <1>12 DEF Load, disk
<1>13. ASSUME NEW i \in Ids, Discard(i) PROVE StaleInv'
  BY <1>13 DEF Discard
<1>14. CASE Save
  BY <1>14 DEF Save
<1>15. CASE UNCHANGED vars
  BY <1>15 DEF vars, disk, history
<1> QED
  BY <1>1, <1>2, <1>3, <1>4, <1>5, <1>6, <1>7, <1>8, <1>9, <1>10, <1>11, <1>12, <1>13, <1>14,
     <1>15 DEF Next, Call, Step, Rest

\* No server goes to write over what it may not, but from a stale copy.
LEMMA NextFreshInv ==
  TypeOK /\ WorkInv /\ StaleInv /\ FreshInv /\ [Next]_vars
    => FreshInv'
<1> SUFFICES ASSUME TypeOK, WorkInv, StaleInv, FreshInv, [Next]_vars PROVE FreshInv'
  OBVIOUS
<1> USE VaultAssumption, EntryTypes DEF TypeOK, WorkInv, StaleInv, FreshInv, Actors, Holders, Copies, Writing
<1>1. ASSUME NEW s \in Servers, Capture(s) PROVE FreshInv'
  BY <1>1 DEF Capture, Begin, Starts, Goto, disk, history
<1>2. ASSUME NEW s \in Servers, ReadEntry(s) PROVE FreshInv'
  <2>1. PICK f \in Reads(call[s].id) : Judge(s, f)
    BY <1>2 DEF ReadEntry
  <2>2. UNCHANGED <<file, call>> /\ pc[s] = "read"
    BY <1>2 DEF ReadEntry, disk
  <2>3. CASE \E a : Reply(s, a) /\ UNCHANGED <<copy, stale>>
    BY <2>2, <2>3 DEF Reply, Goto
  <2>4. CASE /\ f.kind = "missing" \/ (Whole(f) /\ ~Protected(f.dec))
             /\ stale' = IF Writing(call[s].id) = {} THEN stale \ {s} ELSE stale \union {s}
             /\ pc' = [pc EXCEPT ![s] = "open"]
    <3>1. call[s].id \in Ids
      BY <2>2
    <3>2. Writing(call[s].id) = {} => f = file[call[s].id]
      BY <2>1 DEF Reads
    <3>3. s \notin stale' => f = file[call[s].id]
      BY <2>4, <3>2
    <3>4. f \in {Missing, Torn} \union Entries
      BY <2>1, <3>1, ReadTypes
    <3>5. f = Missing \/ (Whole(f) /\ ~Protected(f.dec))
      BY <2>4, <3>4 DEF Torn, Missing, Entries, Whole
    <3> HIDE DEF Writing, Holders
    <3> QED
      BY <2>2, <2>4, <3>3, <3>5
  <2> QED
    BY <2>1, <2>3, <2>4 DEF Judge, Goto
<1>3. ASSUME NEW s \in Servers, OpenEntry(s) PROVE FreshInv'
  BY <1>3 DEF OpenEntry, Goto
<1>4. ASSUME NEW s \in Servers, WriteEntry(s) PROVE FreshInv'
  BY <1>4 DEF WriteEntry, Reply, Goto
<1>5. ASSUME NEW s \in Servers, List(s) PROVE FreshInv'
  BY <1>5 DEF List, Begin, Starts, Goto, disk, history
<1>6. ASSUME NEW s \in Servers, ReadListed(s) PROVE FreshInv'
  BY <1>6 DEF ReadListed, Reply, Goto, disk, history
<1>7. ASSUME NEW s \in Servers, Get(s) PROVE FreshInv'
  BY <1>7 DEF Get, Starts, Reply, Goto
<1>8. ASSUME NEW s \in Servers, Recall(s) PROVE FreshInv'
  BY <1>8 DEF Recall, Starts, Reply, Goto, disk, history
<1>9. ASSUME NEW s \in Servers, Finish(s) PROVE FreshInv'
  BY <1>9 DEF Finish, Goto, history
<1>10. ASSUME NEW s \in Servers, Crash(s) PROVE FreshInv'
  BY <1>10 DEF Crash, Goto
<1>11. ASSUME NEW s \in Servers, Restart(s) PROVE FreshInv'
  BY <1>11 DEF Restart, Goto, history
<1>12. ASSUME NEW i \in Ids, Load(i) PROVE FreshInv'
  BY <1>12 DEF Load, disk
<1>13. ASSUME NEW i \in Ids, Discard(i) PROVE FreshInv'
  BY <1>13 DEF Discard
<1>14. CASE Save
  BY <1>14 DEF Save
<1>15. CASE UNCHANGED vars
  BY <1>15 DEF vars, disk, history
<1> QED
  BY <1>1, <1>2, <1>3, <1>4, <1>5, <1>6, <1>7, <1>8, <1>9, <1>10, <1>11, <1>12, <1>13, <1>14,
     <1>15 DEF Next, Call, Step, Rest

\* Entries, and the copies that are not stale, stay as they should be.
LEMMA NextEntryInv ==
  TypeOK /\ WorkInv /\ StaleInv /\ EntryInv /\ [Next]_vars
    => EntryInv'
<1> SUFFICES ASSUME TypeOK, WorkInv, StaleInv, EntryInv, [Next]_vars PROVE EntryInv'
  OBVIOUS
<1> USE VaultAssumption, EntryTypes DEF TypeOK, WorkInv, StaleInv, EntryInv, Good, Unraced, Actors, Holders, Copies, Writing
<1>1. ASSUME NEW s \in Servers, Capture(s) PROVE EntryInv'
  BY <1>1 DEF Capture, Begin, Starts, Goto, disk, history
<1>2. ASSUME NEW s \in Servers, ReadEntry(s) PROVE EntryInv'
  <2>0. PICK i \in Ids, e \in Evidence : i = call[s].id /\ e = call[s].ev
    BY <1>2 DEF ReadEntry
  <2>1. PICK f \in Reads(i) : Judge(s, f)
    BY <1>2, <2>0 DEF ReadEntry
  <2>2. /\ pc[s] = "read" /\ i \in Ids /\ e \in Evidence /\ copy[s] = None
        /\ UNCHANGED <<file, call, decided, acked, raced>>
    BY <1>2 DEF ReadEntry, disk
  <2>3. CASE \E a : Reply(s, a) /\ UNCHANGED <<copy, stale>>
    BY <2>2, <2>3 DEF Reply, Goto
  <2>4. CASE /\ f.kind = "missing" \/ (Whole(f) /\ ~Protected(f.dec))
             /\ copy' = [copy EXCEPT ![s] = [id |-> i, new |-> Updated(f, e)]]
             /\ stale' = IF Writing(i) = {} THEN stale \ {s} ELSE stale \union {s}
             /\ pc' = [pc EXCEPT ![s] = "open"]
    <3>1. f \in {Missing, Torn} \union Entries
      BY <2>1, <2>2, ReadTypes
    <3>2. ASSUME s \notin stale', i \notin raced PROVE Good(i, Updated(f, e))
      <4>1. Writing(i) = {} /\ f = file[i]
        BY <2>1, <2>4, <3>2 DEF Reads
      <4>2. CASE f = Missing
        <5>1. Updated(f, e) = Entry(Fresh, {e}, TRUE)
          BY <4>2 DEF Updated, Missing
        <5>2. decided[i] = Fresh /\ \A n \in Evidence : <<i, n>> \notin acked
          <6>1. ~Whole(file[i]) /\ Unraced(i)
            BY <3>2, <4>1, <4>2
          <6> QED
            BY <6>1
        <5>3. SameStanding(Fresh, decided[i])
          BY <5>2, StandsItself
        <5> QED
          BY <5>1, <5>2, <5>3 DEF Entry
      <4>3. CASE f # Missing
        <5>1. f \in Entries /\ Good(i, f)
          BY <2>2, <2>4, <3>1, <3>2, <4>1, <4>3 DEF Torn, Whole
        <5>2. Updated(f, e) = Entry([f.dec EXCEPT !.valid = TRUE], f.ev \union {e}, f.body)
          BY <5>1 DEF Updated, Entries
        <5>3. SameStanding([f.dec EXCEPT !.valid = TRUE], decided[i])
          BY <5>1, Mended DEF Entries
        <5> QED
          BY <5>1, <5>2, <5>3 DEF Entry
      <4> QED
        BY <4>2, <4>3
    <3>3. \A j \in Ids : Unraced(j)' => Unraced(j)
      BY <2>2, <2>4
    <3>4. \A a \in Actors : a # s /\ copy'[a] # None /\ a \notin stale' => copy'[a] = copy[a] /\ copy[a] # None /\ a \notin stale
      BY <2>4
    <3>5. copy'[s] = [id |-> i, new |-> Updated(f, e)]
      BY <2>4
    <3>6. \A a \in Actors : copy'[a] # None /\ a \notin stale' /\ copy'[a].id \notin raced' => Good(copy[a].id, copy[a].new)'
      <4>1. ASSUME NEW a \in Actors, a # s, copy'[a] # None, a \notin stale', copy'[a].id \notin raced'
            PROVE  Good(copy[a].id, copy[a].new)'
        BY <2>2, <3>4, <4>1
      <4>2. s \notin stale' /\ copy'[s].id \notin raced' => Good(copy[s].id, copy[s].new)'
        BY <2>2, <3>2, <3>5
      <4> QED
        BY <4>1, <4>2
    <3>7. \A j \in Ids : Unraced(j)' =>
            \/ file'[j] = Missing /\ decided'[j] = Fresh /\ \A n \in Evidence : <<j, n>> \notin acked'
            \/ Whole(file'[j]) /\ Good(j, file[j])'
      BY <2>2, <3>3
    <3> QED
      BY <3>6, <3>7
  <2> QED
    BY <2>0, <2>1, <2>3, <2>4 DEF Judge, Goto
<1>3. ASSUME NEW s \in Servers, OpenEntry(s) PROVE EntryInv'
  BY <1>3 DEF OpenEntry, Goto
<1>4. ASSUME NEW s \in Servers, WriteEntry(s) PROVE EntryInv'
  <2>0. PICK i \in Ids, new \in Entries : i = call[s].id /\ new = copy[s].new
    BY <1>4, Writers DEF WriteEntry
  <2>1. /\ pc[s] = "write" /\ i \in Ids /\ copy[s] # None /\ copy[s].id = i /\ new \in Entries
        /\ call[s].ev \in Evidence /\ call[s].ev \in new.ev
    BY <1>4, <2>0, Writers DEF WriteEntry
  <2>2. /\ acked' = acked \union {<<i, call[s].ev>>} /\ UNCHANGED <<call, decided>>
        /\ copy' = [copy EXCEPT ![s] = None] /\ pc' = [pc EXCEPT ![s] = "finish"]
        /\ stale' = (stale \ {s}) \union Holders(s, i)
        /\ raced' = IF s \in stale THEN raced \union {i} ELSE raced
    BY <1>4, <2>0 DEF WriteEntry, Reply, Goto
  <2>3. PICK b \in BOOLEAN : file' = [file EXCEPT ![i] = [new EXCEPT !.body = b]] /\ (s \notin stale => b = new.body)
    <3>1. new.body \in BOOLEAN
      BY <2>1 DEF Entries
    <3>2. PICK b \in (IF s \in stale THEN {new.body, FALSE} ELSE {new.body}) :
            file' = [file EXCEPT ![i] = [new EXCEPT !.body = b]]
      BY <1>4, <2>0 DEF WriteEntry
    <3>3. b \in BOOLEAN
      BY <3>1
    <3>4. s \notin stale => b = new.body
      OBVIOUS
    <3> QED
      BY <3>2, <3>3, <3>4
  <2>4. ASSUME i \notin raced' PROVE Whole(file'[i]) /\ Good(i, file[i])'
    <3>1. s \notin stale /\ i \notin raced
      BY <2>2, <2>4
    <3>2. Good(i, new) /\ b = new.body
      BY <2>0, <2>1, <2>3, <3>1 DEF Actors
    <3>3. file'[i] = new
      BY <2>1, <2>3, <3>2 DEF Entries
    <3> QED
      BY <2>1, <2>2, <3>2, <3>3
  <2>5. ASSUME NEW j \in Ids, j # i, Unraced(j)' PROVE Unraced(j) /\ file'[j] = file[j] /\ \A n \in Evidence : <<j, n>> \in acked' => <<j, n>> \in acked
    BY <2>1, <2>2, <2>3, <2>5
  <2>6. ASSUME NEW a \in Actors, copy'[a] # None, a \notin stale', copy'[a].id \notin raced'
        PROVE  copy'[a] = copy[a] /\ a \notin stale /\ copy[a].id # i /\ copy[a].id \in Ids /\ copy[a].id \notin raced
    BY <2>1, <2>2, <2>6
  <2>7. \A a \in Actors : copy'[a] # None /\ a \notin stale' /\ copy'[a].id \notin raced' => Good(copy[a].id, copy[a].new)'
    BY <2>1, <2>2, <2>6
  <2>8. \A j \in Ids : Unraced(j)' =>
          \/ file'[j] = Missing /\ decided'[j] = Fresh /\ \A n \in Evidence : <<j, n>> \notin acked'
          \/ Whole(file'[j]) /\ Good(j, file[j])'
    BY <2>1, <2>2, <2>4, <2>5
  <2> QED
    BY <2>7, <2>8
<1>5. ASSUME NEW s \in Servers, List(s) PROVE EntryInv'
  BY <1>5 DEF List, Begin, Starts, Goto, disk, history
<1>6. ASSUME NEW s \in Servers, ReadListed(s) PROVE EntryInv'
  <2>1. pc[s] = "list" /\ UNCHANGED <<file, copy, decided, acked, stale, raced>>
    BY <1>6 DEF ReadListed, disk, history
  <2>2. \A q \in Servers : pc'[q] = "write" => pc[q] = "write" /\ call'[q] = call[q]
    BY <1>6 DEF ReadListed, Reply, Goto
  <2>3. \A q \in Servers : pc[q] = "write" => pc'[q] = "write" /\ call'[q] = call[q]
    BY <1>6, <2>1 DEF ReadListed, Reply, Goto
  <2> QED
    BY <2>1, <2>2, <2>3
<1>7. ASSUME NEW s \in Servers, Get(s) PROVE EntryInv'
  BY <1>7 DEF Get, Starts, Reply, Goto
<1>8. ASSUME NEW s \in Servers, Recall(s) PROVE EntryInv'
  BY <1>8 DEF Recall, Starts, Reply, Goto, disk, history
<1>9. ASSUME NEW s \in Servers, Finish(s) PROVE EntryInv'
  BY <1>9 DEF Finish, Goto, history
<1>10. ASSUME NEW s \in Servers, Crash(s) PROVE EntryInv'
  BY <1>10 DEF Crash, Goto
<1>11. ASSUME NEW s \in Servers, Restart(s) PROVE EntryInv'
  BY <1>11 DEF Restart, Goto, history
<1>12. ASSUME NEW i \in Ids, Load(i) PROVE EntryInv'
  BY <1>12 DEF Load, disk
<1>13. ASSUME NEW i \in Ids, Discard(i) PROVE EntryInv'
  BY <1>13 DEF Discard
<1>14. CASE Save
  BY <1>14, StandsItself DEF Save
<1>15. CASE UNCHANGED vars
  BY <1>15 DEF vars, disk, history
<1> QED
  BY <1>1, <1>2, <1>3, <1>4, <1>5, <1>6, <1>7, <1>8, <1>9, <1>10, <1>11, <1>12, <1>13, <1>14,
     <1>15 DEF Next, Call, Step, Rest

\* What a search shows of an entry is the curator's last word on it.
LEMMA NextSearchInv ==
  TypeOK /\ WorkInv /\ StaleInv /\ EntryInv /\ SearchInv /\ [Next]_vars
    => SearchInv'
<1> SUFFICES ASSUME TypeOK, WorkInv, StaleInv, EntryInv, SearchInv, [Next]_vars PROVE SearchInv'
  OBVIOUS
<1> USE VaultAssumption, EntryTypes DEF TypeOK, WorkInv, SearchInv, Answered
<1>1. ASSUME NEW s \in Servers, Capture(s) PROVE SearchInv'
  BY <1>1 DEF Capture, Begin, Starts, Goto, disk, history
<1>2. ASSUME NEW s \in Servers, ReadEntry(s) PROVE SearchInv'
  BY <1>2 DEF ReadEntry, Judge, Reply, Goto, disk
<1>3. ASSUME NEW s \in Servers, OpenEntry(s) PROVE SearchInv'
  BY <1>3 DEF OpenEntry, Goto
<1>4. ASSUME NEW s \in Servers, WriteEntry(s) PROVE SearchInv'
  BY <1>4 DEF WriteEntry, Reply, Goto
<1>5. ASSUME NEW s \in Servers, List(s) PROVE SearchInv'
  BY <1>5 DEF List, Begin, Starts, Goto, disk, history
<1>6. ASSUME NEW s \in Servers, ReadListed(s) PROVE SearchInv'
  <2>1. PICK i \in call[s].todo : \E f \in Reads(i) :
          LET c == Listing(call[s], i, f)
          IN  call' = [call EXCEPT ![s] = c] /\ IF c.todo = {} THEN Reply(s, c) ELSE UNCHANGED <<pc, answer>>
    BY <1>6 DEF ReadListed
  <2>2. PICK f \in Reads(i) :
          LET c == Listing(call[s], i, f)
          IN  call' = [call EXCEPT ![s] = c] /\ IF c.todo = {} THEN Reply(s, c) ELSE UNCHANGED <<pc, answer>>
    BY <2>1
  <2>3. pc[s] = "list" /\ i \in Ids /\ UNCHANGED raced
    BY <1>6, <2>1 DEF ReadListed, history, Collection
  <2>4. ASSUME Current(f.dec), Whole(f), i \notin raced PROVE Current(decided[i])
    <3>1. CASE Writing(i) = {}
      <4>1. f = file[i]
        BY <3>1 DEF Reads
      <4>2. Unraced(i)
        BY <2>4, <3>1 DEF Unraced
      <4>3. SameStanding(file[i].dec, decided[i])
        BY <2>3, <2>4, <4>1, <4>2 DEF EntryInv, Good
      <4> QED
        BY <2>4, <4>1, <4>3 DEF Current, SameStanding
    <3>2. CASE Writing(i) # {}
      <4>1. PICK w \in Writing(i) : f = Entry(copy[w].new.dec, copy[w].new.ev, FALSE)
        BY <2>4, <3>2 DEF Reads
      <4>2. w \in Servers /\ pc[w] = "write" /\ call[w].id = i /\ copy[w] # None /\ copy[w].id = i
        BY DEF Writing
      <4>3. w \notin stale
        BY <2>4, <4>2 DEF StaleInv
      <4>4. SameStanding(copy[w].new.dec, decided[i])
        BY <2>4, <4>2, <4>3 DEF EntryInv, Good, Actors
      <4> QED
        BY <2>4, <4>1, <4>4 DEF Entry, Current, SameStanding
    <3> QED
      BY <3>1, <3>2
  <2>5. call[s] \in Collection
    BY <2>3
  <2> DEFINE c == Listing(call[s], i, f)
  <2>6. /\ c.todo = call[s].todo \ {i} /\ c.kind = call[s].kind /\ c.all = call[s].all
        /\ c.seen = IF Listed(call[s], f) THEN call[s].seen \union {i} ELSE call[s].seen
        /\ c.hidden = IF Current(decided[i]) THEN call[s].hidden ELSE call[s].hidden \union {i}
    BY <2>3, <2>5 DEF Listing, Collection
  <2> HIDE DEF c
  <2>7. ASSUME c.kind = "search", ~c.all PROVE c.seen \intersect c.hidden \subseteq raced
    <3>1. call[s].seen \intersect call[s].hidden \subseteq raced
      BY <2>3, <2>6, <2>7
    <3>2. Listed(call[s], f) => Whole(f) /\ Current(f.dec)
      BY <2>6, <2>7 DEF Listed, Shown
    <3>3. c.seen = IF Listed(call[s], f) THEN call[s].seen \union {i} ELSE call[s].seen
      BY <2>6
    <3>4. c.hidden = IF Current(decided[i]) THEN call[s].hidden ELSE call[s].hidden \union {i}
      BY <2>6
    <3>5. c.seen \intersect c.hidden \subseteq (call[s].seen \intersect call[s].hidden) \union ({i} \intersect c.seen \intersect c.hidden)
      BY <3>3, <3>4
    <3>6. CASE i \in raced
      BY <3>1, <3>5, <3>6
    <3>7. CASE i \notin raced
      <4>1. i \notin call[s].seen /\ i \notin call[s].hidden
        BY <2>3
      <4>2. ~(i \in c.seen /\ i \in c.hidden)
        BY <2>4, <3>2, <3>3, <3>4, <3>7, <4>1
      <4> QED
        BY <3>1, <3>5, <4>2
    <3> QED
      BY <3>6, <3>7
  <2>8. call' = [call EXCEPT ![s] = c] /\ IF c.todo = {} THEN Reply(s, c) ELSE UNCHANGED <<pc, answer>>
    BY <2>2 DEF c
  <2>9. call'[s] = c /\ \A q \in Servers \ {s} : call'[q] = call[q] /\ pc'[q] = pc[q] /\ answer'[q] = answer[q]
    BY <2>8 DEF Reply, Goto
  <2>10. answer'[s] = c \/ answer'[s] = answer[s]
    BY <2>8 DEF Reply
  <2>11. c.todo \intersect (c.seen \union c.hidden) = {}
    BY <2>3, <2>6
  <2> QED
    BY <2>3, <2>7, <2>9, <2>10, <2>11
<1>7. ASSUME NEW s \in Servers, Get(s) PROVE SearchInv'
  BY <1>7 DEF Get, Starts, Reply, Goto
<1>8. ASSUME NEW s \in Servers, Recall(s) PROVE SearchInv'
  BY <1>8 DEF Recall, Starts, Reply, Goto, disk, history
<1>9. ASSUME NEW s \in Servers, Finish(s) PROVE SearchInv'
  BY <1>9 DEF Finish, Goto, history
<1>10. ASSUME NEW s \in Servers, Crash(s) PROVE SearchInv'
  BY <1>10 DEF Crash, Goto
<1>11. ASSUME NEW s \in Servers, Restart(s) PROVE SearchInv'
  BY <1>11 DEF Restart, Goto, history
<1>12. ASSUME NEW i \in Ids, Load(i) PROVE SearchInv'
  BY <1>12 DEF Load, disk
<1>13. ASSUME NEW i \in Ids, Discard(i) PROVE SearchInv'
  BY <1>13 DEF Discard
<1>14. CASE Save
  BY <1>14 DEF Save
<1>15. CASE UNCHANGED vars
  BY <1>15 DEF vars, disk, history
<1> QED
  BY <1>1, <1>2, <1>3, <1>4, <1>5, <1>6, <1>7, <1>8, <1>9, <1>10, <1>11, <1>12, <1>13, <1>14,
     <1>15 DEF Next, Call, Step, Rest

\* Rows are never taken away.
LEMMA NextTraceInv == TypeOK /\ WorkInv /\ TraceInv /\ [Next]_vars => TraceInv'
<1> SUFFICES ASSUME TypeOK, WorkInv, TraceInv, [Next]_vars PROVE TraceInv'
  OBVIOUS
<1> USE VaultAssumption DEF TypeOK, WorkInv, TraceInv, RecallFindsUses, Answered, Collected
<1>1. ASSUME NEW s \in Servers, Capture(s) PROVE TraceInv'
  BY <1>1 DEF Capture, Begin, Starts, Goto, disk, history
<1>2. ASSUME NEW s \in Servers, ReadEntry(s) PROVE TraceInv'
  BY <1>2 DEF ReadEntry, Judge, Reply, Goto, disk
<1>3. ASSUME NEW s \in Servers, OpenEntry(s) PROVE TraceInv'
  BY <1>3 DEF OpenEntry, Goto
<1>4. ASSUME NEW s \in Servers, WriteEntry(s) PROVE TraceInv'
  <2>1. PICK f \in TraceFiles : Log(s, f, OtherRow)
    BY <1>4, TraceFile DEF WriteEntry, Finish
  <2>2. \A t \in TraceFiles : trace[t].rows \subseteq trace'[t].rows
    BY <2>1, LogTypes, OtherRow \in SUBSET (Sessions \X Ids) DEF OtherRow
  <2>3. UNCHANGED <<mode, told, lost>>
    BY <1>4 DEF WriteEntry
  <2>4. \A q \in Servers : answer'[q] = answer[q] \/ answer'[q] = None \/ answer'[q].kind = "capture"
    BY <1>4 DEF WriteEntry, Reply
  <2>5. (told \ lost \subseteq UNION {trace[t].rows : t \in TraceFiles})'
    BY <2>2, <2>3
  <2> QED
    BY <2>3, <2>4, <2>5
<1>5. ASSUME NEW s \in Servers, List(s) PROVE TraceInv'
  BY <1>5 DEF List, Begin, Starts, Goto, disk, history
<1>6. ASSUME NEW s \in Servers, ReadListed(s) PROVE TraceInv'
  <2>1. UNCHANGED <<mode, trace, told, lost>> /\ pc[s] = "list"
    BY <1>6 DEF ReadListed, disk, history
  <2>2. \A q \in Servers : answer'[q] = answer[q] \/ answer'[q].kind \in {"search", "validate"}
    <3>1. PICK i \in call[s].todo : \E f \in Reads(i) :
            LET c == Listing(call[s], i, f)
            IN  IF c.todo = {} THEN Reply(s, c) ELSE UNCHANGED <<pc, answer>>
      BY <1>6 DEF ReadListed
    <3>2. call[s] \in Collection /\ i \in Ids
      BY <2>1 DEF Collection
    <3>3. \A f \in Reads(i) : Listing(call[s], i, f).kind \in {"search", "validate"}
      BY <3>2, ListingParts DEF Collection
    <3> QED
      BY <3>1, <3>3 DEF Reply
  <2> QED
    BY <2>1, <2>2
<1>7. ASSUME NEW s \in Servers, Get(s) PROVE TraceInv'
  <2>1. PICK i \in Ids : \E f \in Reads(i) :
         \/ UNCHANGED <<trace, faults, told, lost>>
         \/ /\ Log(s, TraceOf(s), {<<Session(s), i>>})
            /\ \/ UNCHANGED <<told, lost>>
               \/ /\ told' = told \union {<<Session(s), i>>}
                  /\ lost' = lost \union ({<<Session(s), i>>} \ trace'[TraceOf(s)].rows)
    BY <1>7 DEF Get
  <2>2. \A q \in Servers : answer'[q] = answer[q] \/ answer'[q].kind = "get"
    BY <1>7 DEF Get, Reply
  <2>3. TraceOf(s) \in TraceFiles /\ {<<Session(s), i>>} \in SUBSET (Sessions \X Ids)
    BY TraceFile, Rows
  <2>4. \A t \in TraceFiles : trace[t].rows \subseteq trace'[t].rows
    BY <2>1, <2>3, LogTypes
  <2>5. (told \ lost \subseteq UNION {trace[t].rows : t \in TraceFiles})'
    BY <2>1, <2>3, <2>4
  <2>6. lost \subseteq lost' /\ UNCHANGED mode
    BY <1>7, <2>1 DEF Get
  <2> QED
    BY <2>2, <2>5, <2>6
<1>8. ASSUME NEW s \in Servers, Recall(s) PROVE TraceInv'
  <2>1. UNCHANGED <<mode, trace, told, lost>>
    BY <1>8 DEF Recall, disk, history
  <2>2. PICK i \in Ids, all \in BOOLEAN : \E f \in Reads(i) :
       IF ~Whole(f) THEN Reply(s, [kind |-> "recall", outcome |-> "error"])
       ELSE Reply(s, [kind |-> "recall", outcome |-> "ok", all |-> all,
                      known |-> {u \in told : u[2] = i},
                      impact |-> {u \in UNION {trace[t].rows : t \in Scanned(s, all)} : u[2] = i}])
    BY <1>8 DEF Recall
  <2>3. CASE answer' = [answer EXCEPT ![s] = [kind |-> "recall", outcome |-> "error"]]
    BY <2>1, <2>3
  <2> DEFINE known == {u \in told : u[2] = i}
             impact == {u \in UNION {trace[t].rows : t \in Scanned(s, all)} : u[2] = i}
  <2>4. CASE answer' = [answer EXCEPT ![s] = [kind |-> "recall", outcome |-> "ok", all |-> all,
                                              known |-> known, impact |-> impact]]
    <3>1. all /\ Collected # {} => known \ lost \subseteq impact
      BY DEF Scanned
    <3> HIDE DEF known, impact
    <3> QED
      BY <2>1, <2>4, <3>1
  <2> QED
    BY <2>2, <2>3, <2>4 DEF Reply
<1>9. ASSUME NEW s \in Servers, Finish(s) PROVE TraceInv'
  <2>1. PICK f \in TraceFiles : Log(s, f, OtherRow)
    BY <1>9, TraceFile DEF WriteEntry, Finish
  <2>2. \A t \in TraceFiles : trace[t].rows \subseteq trace'[t].rows
    BY <2>1, LogTypes, OtherRow \in SUBSET (Sessions \X Ids) DEF OtherRow
  <2>3. UNCHANGED <<mode, told, lost>>
    BY <1>9 DEF Finish, history
  <2>4. \A q \in Servers : answer'[q] = answer[q] \/ answer'[q] = None \/ answer'[q].kind = "capture"
    BY <1>9 DEF Finish
  <2>5. (told \ lost \subseteq UNION {trace[t].rows : t \in TraceFiles})'
    BY <2>2, <2>3
  <2> QED
    BY <2>3, <2>4, <2>5
<1>10. ASSUME NEW s \in Servers, Crash(s) PROVE TraceInv'
  BY <1>10 DEF Crash, Goto
<1>11. ASSUME NEW s \in Servers, Restart(s) PROVE TraceInv'
  <2>1. PICK f \in TraceFiles : Log(s, f, OtherRow)
    <3>1. life[s] + 1 \in 0..MaxFaults
      BY <1>11 DEF Restart
    <3> QED
      BY <1>11, <3>1 DEF Restart, TraceFiles, Sessions
  <2>2. \A t \in TraceFiles : trace[t].rows \subseteq trace'[t].rows
    BY <2>1, LogTypes, OtherRow \in SUBSET (Sessions \X Ids) DEF OtherRow
  <2>3. UNCHANGED <<mode, told, lost>>
    BY <1>11 DEF Restart, history
  <2>4. \A q \in Servers : answer'[q] = answer[q] \/ answer'[q] = None \/ answer'[q].kind = "capture"
    BY <1>11 DEF Restart
  <2>5. (told \ lost \subseteq UNION {trace[t].rows : t \in TraceFiles})'
    BY <2>2, <2>3
  <2> QED
    BY <2>3, <2>4, <2>5
<1>12. ASSUME NEW i \in Ids, Load(i) PROVE TraceInv'
  BY <1>12 DEF Load, disk
<1>13. ASSUME NEW i \in Ids, Discard(i) PROVE TraceInv'
  BY <1>13 DEF Discard
<1>14. CASE Save
  BY <1>14 DEF Save
<1>15. CASE UNCHANGED vars
  BY <1>15 DEF vars, disk, history
<1> QED
  BY <1>1, <1>2, <1>3, <1>4, <1>5, <1>6, <1>7, <1>8, <1>9, <1>10, <1>11, <1>12, <1>13, <1>14,
     <1>15 DEF Next, Call, Step, Rest

-----------------------------------------------------------------------------
\* The initial states.
LEMMA InitVaultInv == Init => VaultInv
<1> SUFFICES ASSUME Init PROVE VaultInv
  OBVIOUS
<1> USE VaultAssumption DEF Init
<1>1. TypeOK
  BY DEF TypeOK
<1>2. WorkInv /\ StaleInv /\ FreshInv /\ SearchInv /\ TraceInv
  BY DEF WorkInv, StaleInv, FreshInv, SearchInv, TraceInv, RecallFindsUses, Answered
<1>3. EntryInv
  BY DEF EntryInv, Actors
<1> QED
  BY <1>1, <1>2, <1>3 DEF VaultInv

\* One step keeps the whole invariant.
LEMMA NextVaultInv == VaultInv /\ [Next]_vars => VaultInv'
<1> SUFFICES ASSUME VaultInv, [Next]_vars PROVE VaultInv'
  OBVIOUS
<1>1. TypeOK'
  BY NextFileTypes, NextTraceTypes, NextServerTypes, TypeParts DEF VaultInv
<1>2. WorkInv' /\ StaleInv' /\ FreshInv'
  BY NextWorkInv, NextStaleInv, NextFreshInv DEF VaultInv
<1>3. EntryInv' /\ SearchInv' /\ TraceInv'
  BY NextEntryInv, NextSearchInv, NextTraceInv DEF VaultInv
<1> QED
  BY <1>1, <1>2, <1>3 DEF VaultInv

\* The inductive invariant, and with it everything below.
THEOREM VaultInvariant == Spec => []VaultInv
BY InitVaultInv, NextVaultInv, PTL DEF Spec

\* Types (core/vault.mjs, core/trace.mjs).
THEOREM VaultTypeOK == Spec => []TypeOK
<1>1. VaultInv => TypeOK
  BY DEF VaultInv
<1> QED
  BY <1>1, VaultInvariant, PTL

\* An entry nobody wrote from a stale copy has every verification that was
\* acknowledged, its body, and the curator's last word (vault.mjs:253-257).
THEOREM EntriesKeepWhatTheyWereGiven == Spec => []EntryKeepsWhatItWasGiven
<1>1. VaultInv => EntryKeepsWhatItWasGiven
  <2> SUFFICES ASSUME VaultInv, NEW i \in Ids, Unraced(i)
               PROVE  IF file[i] = Missing THEN \A e \in Evidence : <<i, e>> \notin acked
                      ELSE /\ Whole(file[i]) /\ file[i].body
                           /\ {e \in Evidence : <<i, e>> \in acked} \subseteq file[i].ev
                           /\ SameStanding(file[i].dec, decided[i])
    BY DEF EntryKeepsWhatItWasGiven
  <2>1. CASE file[i] = Missing /\ \A n \in Evidence : <<i, n>> \notin acked
    BY <2>1
  <2>2. CASE Whole(file[i]) /\ Good(i, file[i])
    BY <2>2, EntryTypes DEF Good
  <2> QED
    BY <2>1, <2>2 DEF VaultInv, EntryInv
<1> QED
  BY <1>1, VaultInvariant, PTL

\* An entry recalled when a search reads it is not offered (vault.mjs searchVault).
THEOREM RecallsAreObeyed == Spec => []RecallIsObeyed
<1>1. VaultInv => RecallIsObeyed
  BY DEF VaultInv, SearchInv, RecallIsObeyed
<1> QED
  BY <1>1, VaultInvariant, PTL

\* A recall over all the trace files finds every use whose row was kept
\* (trace.mjs scanRecallImpact).
THEOREM RecallsFindUses == Spec => []RecallFindsUses
<1>1. VaultInv => RecallFindsUses
  BY DEF VaultInv, TraceInv
<1> QED
  BY <1>1, VaultInvariant, PTL

\* No server writes over an entry the curator has promoted or recalled, nor over
\* one that does not parse, unless it had read the entry before (vault-tool.mjs).
THEOREM CuratedEntriesAreLeftAlone == Spec => ServersLeaveCuratedAlone
<1>1. VaultInv => \A s \in Servers : OpenEntry(s) /\ s \notin stale =>
         LET f == file[call[s].id] IN
           f.kind # "torn" /\ (Whole(f) => f.dec.tier = "candidate" /\ Current(f.dec))
  <2> SUFFICES ASSUME VaultInv, NEW s \in Servers, OpenEntry(s), s \notin stale
               PROVE  /\ file[call[s].id].kind # "torn"
                      /\ Whole(file[call[s].id]) =>
                           file[call[s].id].dec.tier = "candidate" /\ Current(file[call[s].id].dec)
    OBVIOUS
  <2>1. pc[s] = "open"
    BY DEF OpenEntry
  <2>2. file[call[s].id] = Missing \/ (Whole(file[call[s].id]) /\ ~Protected(file[call[s].id].dec))
    BY <2>1 DEF VaultInv, FreshInv
  <2> QED
    BY <2>2 DEF Missing, Whole, Protected, Current
<1> QED
  BY <1>1, VaultInvariant, PTL DEF ServersLeaveCuratedAlone
=============================================================================
