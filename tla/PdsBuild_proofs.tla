-------------------------- MODULE PdsBuild_proofs --------------------------
(***************************************************************************)
(* Builds and their run store, for every number of calls, hosts and        *)
(* versions, however often the inputs are edited and servers die.          *)
(***************************************************************************)
EXTENDS PdsBuild, TLAPS

\* What a caller may ask for.
Choices ==
  [host : Places, pds : Releases, target : Targets, backup : BOOLEAN, cache : BOOLEAN]

\* TypeOK in three parts.
DiskTypes ==
  /\ src \in Versions /\ edits \in Nat /\ crashes \in Nat
  /\ out \in [Places -> [Releases -> Artifacts]]
  /\ \A k \in Keys : store[k] \in {Absent, Torn} \union
       [kind : {"summary"}, ok : BOOLEAN, named : BOOLEAN, by : Runs, of : Content]
RunTypes ==
  /\ \E s \in Scenarios : args = s.args
  /\ pc \in [Runs -> {"start", "launch", "spawned", "compiling", "exited", "pulling",
                      "pulledIn", "writing", "done"}]
  /\ key \in [Runs -> Keys \union {NoKey}]
  /\ log \in [Runs -> {"none", "clean", "failed"}]
  /\ pulled \in [Runs -> Artifacts]
  /\ dead \subseteq Runs /\ snap \in [Runs -> Content]
  /\ edited \subseteq Runs /\ rivals \in [Runs -> SUBSET Runs]
ResultTypes ==
  \A r \in Runs : result[r] \in {NoResult, Error} \union
    [kind : {"built", "hit"}, ok : BOOLEAN, named : BOOLEAN, by : Runs, served : Content]

\* What TypeOK leaves open.
Shape ==
  /\ DOMAIN store = Keys
  /\ DOMAIN result = Runs

\* A run nobody asks for does nothing, and what a run has asked the store for
\* is the place and the target it was called with.
Asked(r) ==
  /\ args[r] # None /\ key[r] \in Keys
  /\ key[r].target = args[r].target /\ key[r].pds = args[r].pds /\ key[r].host = Place(r)

KeyInv ==
  \A r \in Runs :
    /\ args[r] = None => pc[r] = "done" /\ result[r] = NoResult
    /\ pc[r] \notin {"start", "done"} \/ result[r].kind \in {"built", "hit"} => Asked(r)
    /\ pc[r] = "spawned" => Place(r) = Local
    /\ pc[r] \in {"pulling", "pulledIn"} => Place(r) # Local

\* A run has no result before it is judged, and then its own; one that passed
\* ended clean, and no remote bitstream build passes.
ResultInv ==
  \A r \in Runs :
    /\ pc[r] \notin {"writing", "done"} => result[r] = NoResult
    /\ pc[r] = "writing" => result[r].kind = "built"
    /\ result[r].kind = "built" => result[r].by = r /\ snap[r] # None /\ pc[r] \in {"writing", "done"}
    /\ result[r].kind = "built" /\ result[r].ok =>
         log[r] = "clean" /\ (WantsBitstream(r) => Place(r) = Local)

\* What pds_shell compiles is what was hashed, unless the inputs have changed in
\* between.
SnapInv ==
  \A r \in Runs :
    /\ pc[r] \in {"start", "launch", "spawned"} => snap[r] = None
    /\ pc[r] \in {"compiling", "exited", "pulling", "pulledIn", "writing"} => snap[r] # None
    /\ r \notin edited /\ pc[r] \in {"launch", "spawned"} => key[r].ver = src
    /\ r \notin edited /\ snap[r] # None => key[r].ver = snap[r]

\* Runs that use one place know of each other, so what a clean one has written
\* there stays until it is judged unless it has a rival, and what it has moved
\* aside does not come back.
Meet == \A r, q \in Runs : q # r /\ Using(q) /\ Using(r) /\ Place(q) = Place(r) => q \in rivals[r]

OwnFiles(r) ==
  pc[r] = "exited" /\ Place(r) = Local /\ log[r] = "clean" /\ WantsBitstream(r) /\ rivals[r] = {} =>
    Own(r).sbit = snap[r] /\ Own(r).rtr = snap[r]

NoOthers(r) ==
  pc[r] \in {"spawned", "compiling", "exited"} /\ Place(r) = Local /\ args[r].backup /\ rivals[r] = {} =>
    \A v \in Releases \ {args[r].pds} : out[Local][v].rtr = None

PlaceInv == Meet /\ \A r \in Runs : OwnFiles(r) /\ NoOthers(r)

\* An artifact was compiled by some run of its place and release.
Kinds == {"sbit", "rtr"}
Compiled(c, p, v) == \E q \in Runs : snap[q] = c /\ Place(q) = p /\ args[q].pds = v

OriginInv ==
  /\ \A p \in Places, v \in Releases, f \in Kinds :
       out[p][v][f] # None => Compiled(out[p][v][f], p, v)
  /\ \A r \in Runs, f \in Kinds : pulled[r][f] # None => pulled[r][f] = snap[r]

\* A summary is the result of a run that has published it, under its own key.
StoreInv ==
  \A k \in Keys : store[k].kind = "summary" =>
    LET b == store[k].by
    IN  /\ key[b] = k /\ result[b].kind = "built" /\ pc[b] = "done"
        /\ store[k].ok = result[b].ok /\ store[k].named = result[b].named /\ store[k].of = result[b].served

\* A hit's bitstream is of the key's inputs, or one of the causes of a stale one
\* is there.
StaleInv ==
  \A r \in Runs : Hit(r) /\ result[r].named /\ result[r].served # key[r].ver =>
    LET b == result[r].by
    IN  b \in edited \/ \E q \in Runs \ {b} :
          snap[q] = result[r].served /\ Place(q) = Place(r) /\ args[q].pds = args[r].pds

BuildInv ==
  /\ TypeOK /\ Shape /\ KeyInv /\ ResultInv /\ SnapInv /\ PlaceInv /\ OriginInv /\ StoreInv
  /\ HitIsBacked /\ VerdictSound /\ LocalVerdictComplete /\ StaleInv
-----------------------------------------------------------------------------
\* The parts make up TypeOK, before and after a step.
LEMMA TypeParts ==
  /\ TypeOK <=> DiskTypes /\ RunTypes /\ ResultTypes
  /\ TypeOK' <=> DiskTypes' /\ RunTypes' /\ ResultTypes'
BY DEF TypeOK, DiskTypes, RunTypes, ResultTypes

\* Whoever asks for a build asks for one of the places and targets.
LEMMA ArgsType == TypeOK => args \in [Runs -> Choices \union {None}]
BY BuildAssumption DEF TypeOK, Choices

\* The initial values have their types.
LEMMA InitTypes == Init => TypeOK /\ Shape
BY BuildAssumption DEF Init, TypeOK, Shape, Content, Artifacts, NoArtifacts, NoFiles, NoKey, NoResult, Absent

\* What pds_shell leaves behind are artifacts.
LEMMA LeftTypes ==
  ASSUME TypeOK, NEW r \in Runs, NEW before \in Artifacts, NEW how
  PROVE  Left(r, before, how) \subseteq Artifacts
<1>1. snap[r] \in Content
  BY DEF TypeOK
<1>2. [sbit |-> snap[r], rtr |-> snap[r]] \in Artifacts /\ [before EXCEPT !.rtr = snap[r]] \in Artifacts
  BY <1>1 DEF Artifacts
<1> QED
  BY <1>2 DEF Left


\* One file of a place changes.
LEMMA OneFile ==
  ASSUME NEW A, NEW o \in [Places -> [Releases -> A]], NEW p \in Places, NEW v \in Releases, NEW a \in A
  PROVE  [o EXCEPT ![p][v] = a] \in [Places -> [Releases -> A]]
OBVIOUS

LEMMA WithoutTypes ==
  ASSUME NEW files \in [Releases -> Artifacts], NEW lost
  PROVE  Without(files, lost) \in [Releases -> Artifacts]
BY DEF Without, Artifacts, Content

LEMMA MoveAsideTypes ==
  ASSUME TypeOK, NEW r \in Runs, MoveAsideFails(r)
  PROVE  out' \in [Places -> [Releases -> Artifacts]]
<1>1. PICK lost : out' = [out EXCEPT ![Local] = Without(@, lost)]
  BY DEF MoveAsideFails
<1>2. out \in [Places -> [Releases -> Artifacts]] /\ Local \in Places
  BY TypeParts DEF DiskTypes, Places
<1>3. Without(out[Local], lost) \in [Releases -> Artifacts]
  BY <1>2, WithoutTypes
<1> QED
  BY <1>1, <1>2, <1>3

LEMMA PullTypes ==
  ASSUME TypeOK, KeyInv, NEW r \in Runs, Pull(r)
  PROVE  out' \in [Places -> [Releases -> Artifacts]]
<1>1. out \in [Places -> [Releases -> Artifacts]] /\ pulled[r] \in Artifacts
  BY TypeParts DEF DiskTypes, RunTypes
<1>2. Place(r) \in Places /\ args[r].pds \in Releases
  BY TypeParts, ArgsType DEF Pull, KeyInv, Asked, RunTypes, Choices, Place
<1> DEFINE a == [f \in {"sbit", "rtr"} |-> IF pulled[r][f] # None THEN pulled[r][f] ELSE Own(r)[f]]
<1>3. a \in Artifacts
  <2>1. Own(r) \in Artifacts
    BY <1>1, <1>2 DEF Own
  <2>2. a["sbit"] \in Content /\ a["rtr"] \in Content
    BY <1>1, <2>1 DEF Artifacts
  <2>3. a = [sbit |-> a["sbit"], rtr |-> a["rtr"]]
    OBVIOUS
  <2> HIDE DEF a
  <2> QED
    BY <2>2, <2>3 DEF Artifacts
<1>4. out' = out \/ out' = [out EXCEPT ![Place(r)][args[r].pds] = a]
  BY DEF Pull, Own
<1> HIDE DEF a
<1>5. [out EXCEPT ![Place(r)][args[r].pds] = a] \in [Places -> [Releases -> Artifacts]]
  BY <1>1, <1>2, <1>3, OneFile
<1> QED
  BY <1>1, <1>4, <1>5

\* A complete summary is a record of a verdict.
LEMMA SummaryType ==
  ASSUME TypeOK, NEW k \in Keys, store[k].kind = "summary"
  PROVE  store[k] \in [kind : {"summary"}, ok : BOOLEAN, named : BOOLEAN, by : Runs, of : Content]
BY TypeParts DEF DiskTypes, Absent, Torn

\* The disk and the store keep their types ...
LEMMA NextDisk == TypeOK /\ Shape /\ KeyInv /\ ResultInv /\ [Next]_vars => (DiskTypes /\ Shape)'
<1> SUFFICES ASSUME TypeOK, Shape, KeyInv, ResultInv, [Next]_vars PROVE (DiskTypes /\ Shape)'
  OBVIOUS
<1> USE TypeParts, ArgsType, BuildAssumption DEF DiskTypes, RunTypes, Shape, Choices, Place,
           Content, Artifacts, NoArtifacts, NoFiles, Own, Keys
<1> USE DEF KeyInv, Asked
<1>1. CASE Edit
  BY <1>1 DEF Edit
<1>2. ASSUME NEW r \in Runs, Refuse(r) PROVE (DiskTypes /\ Shape)'
  BY <1>2 DEF Refuse, Goto, Answer, disk, history
<1>3. ASSUME NEW r \in Runs, Lookup(r) PROVE (DiskTypes /\ Shape)'
  BY <1>3 DEF Lookup, Goto, Answer, disk, history, KeyOf
<1>4. ASSUME NEW r \in Runs, LaunchLocal(r) PROVE (DiskTypes /\ Shape)'
  BY <1>4 DEF LaunchLocal, Goto, MeetRivals
<1>5. ASSUME NEW r \in Runs, MoveAsideFails(r) PROVE (DiskTypes /\ Shape)'
  <2>1. UNCHANGED <<src, edits, store, crashes>> /\ DOMAIN result' = Runs
    BY <1>5 DEF MoveAsideFails, Answer
  <2>2. out' \in [Places -> [Releases -> Artifacts]]
    BY <1>5, MoveAsideTypes
  <2> QED
    BY <2>1, <2>2
<1>6. ASSUME NEW r \in Runs, LaunchRemote(r) PROVE (DiskTypes /\ Shape)'
  BY <1>6 DEF LaunchRemote, Goto, Answer, disk
<1>7. ASSUME NEW r \in Runs, Compile(r) PROVE (DiskTypes /\ Shape)'
  BY <1>7 DEF Compile, Goto, disk
<1>8. ASSUME NEW r \in Runs, Exit(r) PROVE (DiskTypes /\ Shape)'
  <2>1. UNCHANGED <<src, edits, store, crashes>> /\ DOMAIN result' = Runs
    BY <1>8 DEF Exit
  <2>2. CASE Place(r) = Local
    <3>1. PICK how \in {"clean", "failed"} :
            \E a \in Left(r, Own(r), how) : out' = [out EXCEPT ![Local][args[r].pds] = a]
      BY <1>8, <2>2 DEF Exit
    <3>2. Own(r) \in Artifacts
      BY <1>8 DEF Exit
    <3>3. PICK a \in Artifacts : out' = [out EXCEPT ![Local][args[r].pds] = a]
      BY <3>1, <3>2, LeftTypes
    <3>4. out' \in [Places -> [Releases -> Artifacts]]
      BY <3>3
    <3> QED
      BY <2>1, <3>4
  <2>3. CASE Place(r) # Local
    BY <1>8, <2>1, <2>3 DEF Exit
  <2> QED
    BY <2>2, <2>3
<1>9. ASSUME NEW r \in Runs, ClearMirror(r) PROVE (DiskTypes /\ Shape)'
  BY <1>9 DEF ClearMirror, Goto, MeetRivals
<1>10. ASSUME NEW r \in Runs, Pull(r) PROVE (DiskTypes /\ Shape)'
  <2>1. UNCHANGED <<src, edits, store, crashes>> /\ DOMAIN result' = Runs
    BY <1>10 DEF Pull, Answer
  <2>2. out' \in [Places -> [Releases -> Artifacts]]
    BY <1>10, PullTypes
  <2> QED
    BY <2>1, <2>2
<1>11. ASSUME NEW r \in Runs, Analyse(r) PROVE (DiskTypes /\ Shape)'
  BY <1>11 DEF Analyse, Goto, history
<1>12. ASSUME NEW r \in Runs, Publish(r) PROVE (DiskTypes /\ Shape)'
  <2>1. UNCHANGED <<src, edits, out, crashes, result>>
    BY <1>12 DEF Publish
  <2> DEFINE e == [kind |-> "summary", ok |-> result[r].ok, named |-> result[r].named, by |-> r, of |-> result[r].served]
  <2>2. result[r].kind = "built" /\ key[r] \in Keys
    BY <1>12 DEF Publish, ResultInv
  <2>3. e \in [kind : {"summary"}, ok : BOOLEAN, named : BOOLEAN, by : Runs, of : Content]
    BY <2>2 DEF ResultTypes, NoResult, Error
  <2>4. store' = [store EXCEPT ![key[r]] = e]
    BY <1>12 DEF Publish
  <2> HIDE DEF e
  <2> QED
    BY <2>1, <2>2, <2>3, <2>4
<1>13. ASSUME NEW r \in Runs, Crash(r) PROVE (DiskTypes /\ Shape)'
  BY <1>13 DEF Crash, disk, history
<1>14. CASE UNCHANGED vars
  BY <1>14 DEF vars, disk, history
<1> QED
  BY <1>1, <1>2, <1>3, <1>4, <1>5, <1>6, <1>7, <1>8, <1>9, <1>10, <1>11, <1>12,
     <1>13, <1>14 DEF Next, Step, Idle

\* ... the runs' own variables ...
LEMMA NextRuns == TypeOK /\ Shape /\ KeyInv /\ [Next]_vars => RunTypes'
<1> SUFFICES ASSUME TypeOK, Shape, KeyInv, [Next]_vars PROVE RunTypes'
  OBVIOUS
<1> USE TypeParts, ArgsType, BuildAssumption DEF DiskTypes, RunTypes, Shape, Choices, Place,
           Content, Artifacts, NoArtifacts, Keys
<1>1. CASE Edit
  BY <1>1 DEF Edit
<1>2. ASSUME NEW r \in Runs, Refuse(r) PROVE RunTypes'
  BY <1>2 DEF Refuse, Goto, Answer, disk, history
<1>3. ASSUME NEW r \in Runs, Lookup(r) PROVE RunTypes'
  <2>1. KeyOf(r) \in Keys
    BY <1>3 DEF Lookup, KeyOf, KeyInv
  <2>2. key' = [key EXCEPT ![r] = KeyOf(r)] /\ \E l \in {"done", "launch"} : pc' = [pc EXCEPT ![r] = l]
    BY <1>3 DEF Lookup, Goto, Answer
  <2>3. UNCHANGED <<args, log, pulled, dead, snap, edited, rivals>>
    BY <1>3 DEF Lookup, history
  <2> QED
    BY <2>1, <2>2, <2>3
<1>4. ASSUME NEW r \in Runs, LaunchLocal(r) PROVE RunTypes'
  BY <1>4 DEF LaunchLocal, Goto, MeetRivals
<1>5. ASSUME NEW r \in Runs, MoveAsideFails(r) PROVE RunTypes'
  BY <1>5 DEF MoveAsideFails, Goto, Answer, MeetRivals
<1>6. ASSUME NEW r \in Runs, LaunchRemote(r) PROVE RunTypes'
  <2>1. UNCHANGED <<args, key, log, pulled, dead, edited, rivals>>
    BY <1>6 DEF LaunchRemote
  <2>2. \E l \in {"done", "compiling"} : pc' = [pc EXCEPT ![r] = l]
    BY <1>6 DEF LaunchRemote, Goto, Answer
  <2>3. snap' = snap \/ snap' = [snap EXCEPT ![r] = src]
    BY <1>6 DEF LaunchRemote
  <2> QED
    BY <2>1, <2>2, <2>3
<1>7. ASSUME NEW r \in Runs, Compile(r) PROVE RunTypes'
  BY <1>7 DEF Compile, Goto, disk
<1>8. ASSUME NEW r \in Runs, Exit(r) PROVE RunTypes'
  <2>1. UNCHANGED <<args, key, dead, snap, edited, rivals>>
    BY <1>8 DEF Exit, history
  <2>2. pc' = [pc EXCEPT ![r] = "exited"] /\ \E how \in {"clean", "failed"} : log' = [log EXCEPT ![r] = how]
    BY <1>8 DEF Exit, Goto
  <2>3. pulled' = pulled \/ \E a \in Artifacts : pulled' = [pulled EXCEPT ![r] = a]
    BY <1>8, LeftTypes, NoArtifacts \in Artifacts DEF Exit, NoArtifacts, Artifacts, Content
  <2>4. pulled' \in [Runs -> Artifacts]
    BY <2>3
  <2>5. log' \in [Runs -> {"none", "clean", "failed"}]
    BY <2>2
  <2>6. pc' \in [Runs -> {"start", "launch", "spawned", "compiling", "exited", "pulling", "pulledIn",
                        "writing", "done"}]
    BY <2>2
  <2> QED
    BY <2>1, <2>4, <2>5, <2>6
<1>9. ASSUME NEW r \in Runs, ClearMirror(r) PROVE RunTypes'
  BY <1>9 DEF ClearMirror, Goto, MeetRivals
<1>10. ASSUME NEW r \in Runs, Pull(r) PROVE RunTypes'
  <2>1. UNCHANGED <<args, key, log, pulled, dead, snap, edited, rivals>>
    BY <1>10 DEF Pull, history
  <2>2. \E l \in {"done", "pulledIn"} : pc' = [pc EXCEPT ![r] = l]
    BY <1>10 DEF Pull, Goto, Answer
  <2> QED
    BY <2>1, <2>2
<1>11. ASSUME NEW r \in Runs, Analyse(r) PROVE RunTypes'
  BY <1>11 DEF Analyse, Goto, history
<1>12. ASSUME NEW r \in Runs, Publish(r) PROVE RunTypes'
  BY <1>12 DEF Publish, Goto, history
<1>13. ASSUME NEW r \in Runs, Crash(r) PROVE RunTypes'
  BY <1>13 DEF Crash, disk, history
<1>14. CASE UNCHANGED vars
  BY <1>14 DEF vars, disk, history
<1> QED
  BY <1>1, <1>2, <1>3, <1>4, <1>5, <1>6, <1>7, <1>8, <1>9, <1>10, <1>11, <1>12,
     <1>13, <1>14 DEF Next, Step, Idle

\* ... and the results.
LEMMA NextResults == TypeOK /\ Shape /\ KeyInv /\ [Next]_vars => ResultTypes'
<1> SUFFICES ASSUME TypeOK, Shape, KeyInv, [Next]_vars PROVE ResultTypes'
  OBVIOUS
<1> USE TypeParts, ArgsType, BuildAssumption DEF DiskTypes, RunTypes, Shape, Choices, Place,
           Content, Artifacts, NoArtifacts, Keys
<1> USE DEF ResultTypes
<1>1. CASE Edit
  BY <1>1 DEF Edit
<1>2. ASSUME NEW r \in Runs, Refuse(r) PROVE ResultTypes'
  BY <1>2 DEF Refuse, Goto, Answer, disk, history
<1>3. ASSUME NEW r \in Runs, Lookup(r) PROVE ResultTypes'
  <2> DEFINE k == KeyOf(r)
             hit == [kind |-> "hit", ok |-> TRUE, named |-> store[k].named, by |-> store[k].by, served |-> out[k.host][k.pds].sbit]
  <2>1. k \in Keys /\ k.host \in Places /\ k.pds \in Releases
    BY <1>3 DEF Lookup, KeyOf, KeyInv
  <2> HIDE DEF k
  <2>2. CASE Cached(k) /\ result' = [result EXCEPT ![r] = hit]
    <3>1. store[k] \in [kind : {"summary"}, ok : BOOLEAN, named : BOOLEAN, by : Runs, of : Content]
      BY <2>1, <2>2, SummaryType DEF Cached
    <3>2. hit \in [kind : {"built", "hit"}, ok : BOOLEAN, named : BOOLEAN, by : Runs, served : Content]
      BY <2>1, <3>1
    <3> HIDE DEF hit
    <3> QED
      BY <2>2, <3>2
  <2>3. CASE UNCHANGED result
    BY <2>3
  <2> QED
    BY <1>3, <2>2, <2>3 DEF Lookup, Answer, k
<1>4. ASSUME NEW r \in Runs, LaunchLocal(r) PROVE ResultTypes'
  BY <1>4 DEF LaunchLocal, Goto, MeetRivals
<1>5. ASSUME NEW r \in Runs, MoveAsideFails(r) PROVE ResultTypes'
  BY <1>5 DEF MoveAsideFails, Goto, Answer, MeetRivals
<1>6. ASSUME NEW r \in Runs, LaunchRemote(r) PROVE ResultTypes'
  BY <1>6 DEF LaunchRemote, Goto, Answer, disk
<1>7. ASSUME NEW r \in Runs, Compile(r) PROVE ResultTypes'
  BY <1>7 DEF Compile, Goto, disk
<1>8. ASSUME NEW r \in Runs, Exit(r) PROVE ResultTypes'
  BY <1>8 DEF Exit, Goto, Left, history
<1>9. ASSUME NEW r \in Runs, ClearMirror(r) PROVE ResultTypes'
  BY <1>9 DEF ClearMirror, Goto, MeetRivals
<1>10. ASSUME NEW r \in Runs, Pull(r) PROVE ResultTypes'
  BY <1>10 DEF Pull, Goto, Answer, history
<1>11. ASSUME NEW r \in Runs, Analyse(r) PROVE ResultTypes'
  <2>0. PICK report \in FoundReports(r) : result' = [result EXCEPT ![r] =
           [kind |-> "built", ok |-> Verdict(r, report), named |-> Names(r), by |-> r, served |-> Own(r).sbit]]
    BY <1>11 DEF Analyse
  <2> DEFINE res == [kind |-> "built", ok |-> Verdict(r, report), named |-> Names(r), by |-> r, served |-> Own(r).sbit]
  <2>1. Place(r) \in Places /\ args[r].pds \in Releases
    BY <1>11 DEF Analyse, KeyInv
  <2>2. Verdict(r, report) \in BOOLEAN /\ Names(r) \in BOOLEAN
    BY DEF Verdict, Names
  <2>3. res \in [kind : {"built", "hit"}, ok : BOOLEAN, named : BOOLEAN, by : Runs, served : Content]
    BY <2>1, <2>2 DEF Own
  <2>4. result' = [result EXCEPT ![r] = res]
    BY <2>0
  <2> HIDE DEF res
  <2> QED
    BY <2>3, <2>4
<1>12. ASSUME NEW r \in Runs, Publish(r) PROVE ResultTypes'
  BY <1>12 DEF Publish, Goto, history
<1>13. ASSUME NEW r \in Runs, Crash(r) PROVE ResultTypes'
  BY <1>13 DEF Crash, disk, history
<1>14. CASE UNCHANGED vars
  BY <1>14 DEF vars, disk, history
<1> QED
  BY <1>1, <1>2, <1>3, <1>4, <1>5, <1>6, <1>7, <1>8, <1>9, <1>10, <1>11, <1>12,
     <1>13, <1>14 DEF Next, Step, Idle

\* No step takes a key, or what it stands for, from a run that has one.
LEMMA NextKeyInv == TypeOK /\ Shape /\ KeyInv /\ ResultInv /\ [Next]_vars => KeyInv'
<1> SUFFICES ASSUME TypeOK, Shape, KeyInv, ResultInv, [Next]_vars PROVE KeyInv'
  OBVIOUS
<1> USE TypeParts, ArgsType, BuildAssumption DEF RunTypes, Shape, Choices, Place
<1> USE DEF DiskTypes, KeyInv, ResultInv, Asked, NoResult, Error, Keys
<1>1. CASE Edit
  BY <1>1 DEF Edit
<1>2. ASSUME NEW r \in Runs, Refuse(r) PROVE KeyInv'
  BY <1>2 DEF Refuse, Goto, Answer, disk, history
<1>3. ASSUME NEW r \in Runs, Lookup(r) PROVE KeyInv'
  BY <1>3 DEF Lookup, Goto, Answer, disk, history, KeyOf, KeyOf
<1>4. ASSUME NEW r \in Runs, LaunchLocal(r) PROVE KeyInv'
  BY <1>4 DEF LaunchLocal, Goto, MeetRivals
<1>5. ASSUME NEW r \in Runs, MoveAsideFails(r) PROVE KeyInv'
  BY <1>5 DEF MoveAsideFails, Goto, Answer, MeetRivals
<1>6. ASSUME NEW r \in Runs, LaunchRemote(r) PROVE KeyInv'
  BY <1>6 DEF LaunchRemote, Goto, Answer, disk
<1>7. ASSUME NEW r \in Runs, Compile(r) PROVE KeyInv'
  BY <1>7 DEF Compile, Goto, disk
<1>8. ASSUME NEW r \in Runs, Exit(r) PROVE KeyInv'
  BY <1>8 DEF Exit, Goto, Left, history
<1>9. ASSUME NEW r \in Runs, ClearMirror(r) PROVE KeyInv'
  BY <1>9 DEF ClearMirror, Goto, MeetRivals
<1>10. ASSUME NEW r \in Runs, Pull(r) PROVE KeyInv'
  BY <1>10 DEF Pull, Goto, Answer, history
<1>11. ASSUME NEW r \in Runs, Analyse(r) PROVE KeyInv'
  BY <1>11 DEF Analyse, Goto, history
<1>12. ASSUME NEW r \in Runs, Publish(r) PROVE KeyInv'
  BY <1>12 DEF Publish, Goto, history
<1>13. ASSUME NEW r \in Runs, Crash(r) PROVE KeyInv'
  BY <1>13 DEF Crash, disk, history
<1>14. CASE UNCHANGED vars
  BY <1>14 DEF vars, disk, history
<1> QED
  BY <1>1, <1>2, <1>3, <1>4, <1>5, <1>6, <1>7, <1>8, <1>9, <1>10, <1>11, <1>12,
     <1>13, <1>14 DEF Next, Step, Idle

\* A result is written once, by the run's own verdict or hit.
LEMMA NextResultInv == TypeOK /\ Shape /\ KeyInv /\ ResultInv /\ SnapInv /\ [Next]_vars => ResultInv'
<1> SUFFICES ASSUME TypeOK, Shape, KeyInv, ResultInv, SnapInv, [Next]_vars PROVE ResultInv'
  OBVIOUS
<1> USE TypeParts, ArgsType, BuildAssumption DEF RunTypes, Shape, Choices, Place
<1> USE DEF DiskTypes, KeyInv, ResultInv, SnapInv, WantsBitstream, NoResult, Error
<1>1. CASE Edit
  BY <1>1 DEF Edit
<1>2. ASSUME NEW r \in Runs, Refuse(r) PROVE ResultInv'
  BY <1>2 DEF Refuse, Goto, Answer, disk, history
<1>3. ASSUME NEW r \in Runs, Lookup(r) PROVE ResultInv'
  BY <1>3 DEF Lookup, Goto, Answer, disk, history, KeyOf
<1>4. ASSUME NEW r \in Runs, LaunchLocal(r) PROVE ResultInv'
  BY <1>4 DEF LaunchLocal, Goto, MeetRivals
<1>5. ASSUME NEW r \in Runs, MoveAsideFails(r) PROVE ResultInv'
  BY <1>5 DEF MoveAsideFails, Goto, Answer, MeetRivals
<1>6. ASSUME NEW r \in Runs, LaunchRemote(r) PROVE ResultInv'
  BY <1>6 DEF LaunchRemote, Goto, Answer, disk
<1>7. ASSUME NEW r \in Runs, Compile(r) PROVE ResultInv'
  BY <1>7 DEF Compile, Goto, disk
<1>8. ASSUME NEW r \in Runs, Exit(r) PROVE ResultInv'
  BY <1>8 DEF Exit, Goto, Left, history
<1>9. ASSUME NEW r \in Runs, ClearMirror(r) PROVE ResultInv'
  BY <1>9 DEF ClearMirror, Goto, MeetRivals
<1>10. ASSUME NEW r \in Runs, Pull(r) PROVE ResultInv'
  BY <1>10 DEF Pull, Goto, Answer, history
<1>11. ASSUME NEW r \in Runs, Analyse(r) PROVE ResultInv'
  BY <1>11 DEF Analyse, Goto, history, Verdict, LiveReports, FoundReports
<1>12. ASSUME NEW r \in Runs, Publish(r) PROVE ResultInv'
  BY <1>12 DEF Publish, Goto, history
<1>13. ASSUME NEW r \in Runs, Crash(r) PROVE ResultInv'
  BY <1>13 DEF Crash, disk, history
<1>14. CASE UNCHANGED vars
  BY <1>14 DEF vars, disk, history
<1> QED
  BY <1>1, <1>2, <1>3, <1>4, <1>5, <1>6, <1>7, <1>8, <1>9, <1>10, <1>11, <1>12,
     <1>13, <1>14 DEF Next, Step, Idle

\* What was hashed is compiled, or the run is marked as edited.
LEMMA NextSnapInv == TypeOK /\ Shape /\ SnapInv /\ [Next]_vars => SnapInv'
<1> SUFFICES ASSUME TypeOK, Shape, SnapInv, [Next]_vars PROVE SnapInv'
  OBVIOUS
<1> USE TypeParts, ArgsType, BuildAssumption DEF RunTypes, Shape, Choices, Place
<1> USE DEF DiskTypes, SnapInv
<1>1. CASE Edit
  BY <1>1 DEF Edit
<1>2. ASSUME NEW r \in Runs, Refuse(r) PROVE SnapInv'
  BY <1>2 DEF Refuse, Goto, Answer, disk, history
<1>3. ASSUME NEW r \in Runs, Lookup(r) PROVE SnapInv'
  BY <1>3 DEF Lookup, Goto, Answer, disk, history, KeyOf, KeyOf
<1>4. ASSUME NEW r \in Runs, LaunchLocal(r) PROVE SnapInv'
  BY <1>4 DEF LaunchLocal, Goto, MeetRivals
<1>5. ASSUME NEW r \in Runs, MoveAsideFails(r) PROVE SnapInv'
  BY <1>5 DEF MoveAsideFails, Goto, Answer, MeetRivals
<1>6. ASSUME NEW r \in Runs, LaunchRemote(r) PROVE SnapInv'
  BY <1>6 DEF LaunchRemote, Goto, Answer, disk
<1>7. ASSUME NEW r \in Runs, Compile(r) PROVE SnapInv'
  BY <1>7 DEF Compile, Goto, disk
<1>8. ASSUME NEW r \in Runs, Exit(r) PROVE SnapInv'
  BY <1>8 DEF Exit, Goto, Left, history
<1>9. ASSUME NEW r \in Runs, ClearMirror(r) PROVE SnapInv'
  BY <1>9 DEF ClearMirror, Goto, MeetRivals
<1>10. ASSUME NEW r \in Runs, Pull(r) PROVE SnapInv'
  BY <1>10 DEF Pull, Goto, Answer, history
<1>11. ASSUME NEW r \in Runs, Analyse(r) PROVE SnapInv'
  BY <1>11 DEF Analyse, Goto, history
<1>12. ASSUME NEW r \in Runs, Publish(r) PROVE SnapInv'
  BY <1>12 DEF Publish, Goto, history
<1>13. ASSUME NEW r \in Runs, Crash(r) PROVE SnapInv'
  BY <1>13 DEF Crash, disk, history
<1>14. CASE UNCHANGED vars
  BY <1>14 DEF vars, disk, history
<1> QED
  BY <1>1, <1>2, <1>3, <1>4, <1>5, <1>6, <1>7, <1>8, <1>9, <1>10, <1>11, <1>12,
     <1>13, <1>14 DEF Next, Step, Idle

\* What a step leaves of a run: what it was called with, compiled or answered
\* stays, its rivals only become more, and only its own actions move it.
Moves(r) ==
  /\ args'[r] = args[r]
  /\ pc'[r] = "exited" => pc[r] = "exited" \/ Exit(r)
  /\ pc'[r] = "spawned" => pc[r] = "spawned" \/ LaunchLocal(r)
  /\ pc'[r] = "compiling" /\ Place(r) = Local => pc[r] \in {"spawned", "compiling"}
  /\ pc[r] = "compiling" \/ log'[r] = log[r]
  /\ pc[r] = "start" \/ key'[r] = key[r]
  /\ snap[r] = None \/ snap'[r] = snap[r]
  /\ rivals[r] \subseteq rivals'[r]
  /\ r \in edited => r \in edited'
  /\ pc[r] = "done" => pc'[r] = "done" /\ result'[r] = result[r]
  /\ result'[r] = result[r] \/ result'[r] = Error \/ Analyse(r) \/ Lookup(r)

LEMMA RivalsGrow ==
  ASSUME NEW q \in Runs, MeetRivals(q), DOMAIN rivals = Runs
  PROVE  \A r \in Runs : rivals[r] \subseteq rivals'[r]
BY DEF MeetRivals

LEMMA EachMoves == TypeOK /\ Shape /\ SnapInv /\ [Next]_vars => \A r \in Runs : Moves(r)
<1> SUFFICES ASSUME TypeOK, Shape, SnapInv, [Next]_vars PROVE \A r \in Runs : Moves(r)
  OBVIOUS
<1>0. /\ pc \in [Runs -> {"start", "launch", "spawned", "compiling", "exited", "pulling",
                         "pulledIn", "writing", "done"}]
      /\ DOMAIN key = Runs /\ DOMAIN log = Runs /\ DOMAIN snap = Runs /\ DOMAIN rivals = Runs
      /\ DOMAIN result = Runs /\ DOMAIN args = Runs
      /\ \A r \in Runs : pc[r] \in {"launch", "spawned"} => snap[r] = None
  BY TypeParts, ArgsType DEF RunTypes, Shape, SnapInv
<1> USE <1>0 DEF Moves, Place
<1>1. CASE Edit
  BY <1>1 DEF Edit
<1>2. ASSUME NEW q \in Runs, Refuse(q) PROVE \A r \in Runs : Moves(r)
  BY <1>2 DEF Refuse, Goto, Answer, disk, history
<1>3. ASSUME NEW q \in Runs, Lookup(q) PROVE \A r \in Runs : Moves(r)
  BY <1>3 DEF Lookup, Goto, Answer, disk, history
<1>4. ASSUME NEW q \in Runs, LaunchLocal(q) PROVE \A r \in Runs : Moves(r)
  BY <1>4, RivalsGrow DEF LaunchLocal, Goto
<1>5. ASSUME NEW q \in Runs, MoveAsideFails(q) PROVE \A r \in Runs : Moves(r)
  BY <1>5, RivalsGrow DEF MoveAsideFails, Goto, Answer
<1>6. ASSUME NEW q \in Runs, LaunchRemote(q) PROVE \A r \in Runs : Moves(r)
  BY <1>6 DEF LaunchRemote, Goto, Answer, disk
<1>7. ASSUME NEW q \in Runs, Compile(q) PROVE \A r \in Runs : Moves(r)
  BY <1>7 DEF Compile, Goto, disk
<1>8. ASSUME NEW q \in Runs, Exit(q) PROVE \A r \in Runs : Moves(r)
  BY <1>8 DEF Exit, Goto, history
<1>9. ASSUME NEW q \in Runs, ClearMirror(q) PROVE \A r \in Runs : Moves(r)
  BY <1>9, RivalsGrow DEF ClearMirror, Goto
<1>10. ASSUME NEW q \in Runs, Pull(q) PROVE \A r \in Runs : Moves(r)
  BY <1>10 DEF Pull, Goto, Answer, history
<1>11. ASSUME NEW q \in Runs, Analyse(q) PROVE \A r \in Runs : Moves(r)
  BY <1>11 DEF Analyse, Goto, history
<1>12. ASSUME NEW q \in Runs, Publish(q) PROVE \A r \in Runs : Moves(r)
  BY <1>12 DEF Publish, Goto, history
<1>13. ASSUME NEW q \in Runs, Crash(q) PROVE \A r \in Runs : Moves(r)
  BY <1>13 DEF Crash, disk, history
<1>14. CASE UNCHANGED vars
  BY <1>14 DEF vars, disk, history
<1> QED
  BY <1>1, <1>2, <1>3, <1>4, <1>5, <1>6, <1>7, <1>8, <1>9, <1>10, <1>11, <1>12,
     <1>13, <1>14 DEF Next, Step, Idle

\* Whoever begins to use a place meets all who use it.
LEMMA NextMeet == TypeOK /\ Shape /\ KeyInv /\ Meet /\ [Next]_vars => Meet'
<1> SUFFICES ASSUME TypeOK, Shape, KeyInv, Meet, [Next]_vars PROVE Meet'
  OBVIOUS
<1>0. /\ pc \in [Runs -> {"start", "launch", "spawned", "compiling", "exited", "pulling",
                         "pulledIn", "writing", "done"}]
      /\ DOMAIN rivals = Runs
      /\ \A r \in Runs : pc[r] = "spawned" => Place(r) = Local
      /\ \A r \in Runs : pc[r] \in {"pulling", "pulledIn"} => Place(r) # Local
  BY TypeParts DEF RunTypes, KeyInv
<1> USE <1>0 DEF Meet, Using, Place
<1>1. CASE Edit
  BY <1>1 DEF Edit
<1>2. ASSUME NEW q \in Runs, Refuse(q) PROVE Meet'
  BY <1>2 DEF Refuse, Goto, Answer, disk, history
<1>3. ASSUME NEW q \in Runs, Lookup(q) PROVE Meet'
  BY <1>3 DEF Lookup, Goto, Answer, disk, history
<1>4. ASSUME NEW q \in Runs, LaunchLocal(q) PROVE Meet'
  BY <1>4 DEF LaunchLocal, Goto, MeetRivals
<1>5. ASSUME NEW q \in Runs, MoveAsideFails(q) PROVE Meet'
  BY <1>5 DEF MoveAsideFails, Goto, Answer, MeetRivals
<1>6. ASSUME NEW q \in Runs, LaunchRemote(q) PROVE Meet'
  BY <1>6 DEF LaunchRemote, Goto, Answer, disk
<1>7. ASSUME NEW q \in Runs, Compile(q) PROVE Meet'
  BY <1>7 DEF Compile, Goto, disk
<1>8. ASSUME NEW q \in Runs, Exit(q) PROVE Meet'
  BY <1>8 DEF Exit, Goto, history
<1>9. ASSUME NEW q \in Runs, ClearMirror(q) PROVE Meet'
  BY <1>9 DEF ClearMirror, Goto, MeetRivals
<1>10. ASSUME NEW q \in Runs, Pull(q) PROVE Meet'
  BY <1>10 DEF Pull, Goto, Answer, history
<1>11. ASSUME NEW q \in Runs, Analyse(q) PROVE Meet'
  BY <1>11 DEF Analyse, Goto, history
<1>12. ASSUME NEW q \in Runs, Publish(q) PROVE Meet'
  BY <1>12 DEF Publish, Goto, history
<1>13. ASSUME NEW q \in Runs, Crash(q) PROVE Meet'
  BY <1>13 DEF Crash, disk, history
<1>14. CASE UNCHANGED vars
  BY <1>14 DEF vars, disk, history
<1> QED
  BY <1>1, <1>2, <1>3, <1>4, <1>5, <1>6, <1>7, <1>8, <1>9, <1>10, <1>11, <1>12,
     <1>13, <1>14 DEF Next, Step, Idle

\* What stays of the project directory while a run uses it that has no rival.
LEMMA OutStays ==
  ASSUME TypeOK, Shape, KeyInv, Meet, [Next]_vars, NEW r \in Runs, Using(r), Place(r) = Local,
         rivals'[r] = {}
  PROVE  out'[Local] = out[Local] \/ Exit(r)
<1>0. /\ DOMAIN out = Places /\ DOMAIN rivals = Runs /\ Local \in Places
      /\ \A q \in Runs : pc[q] \in {"pulling", "pulledIn"} => Place(q) # Local
      /\ \A q \in Runs : q # r /\ Using(q) /\ Place(q) = Local => q \in rivals[r]
      /\ pc[r] # "launch"
  BY TypeParts DEF DiskTypes, RunTypes, KeyInv, Meet, Places, Using
<1>1. CASE UNCHANGED out
  BY <1>1
<1>2. ASSUME NEW q \in Runs, LaunchLocal(q) \/ MoveAsideFails(q) PROVE FALSE
  <2>1. q # r /\ Place(q) = Local
    BY <1>0, <1>2 DEF LaunchLocal, MoveAsideFails
  <2>2. MeetRivals(q)
    BY <1>2 DEF LaunchLocal, MoveAsideFails
  <2>3. q \in rivals'[r]
    BY <1>0, <2>1, <2>2 DEF MeetRivals
  <2> QED
    BY <2>3
<1>3. ASSUME NEW q \in Runs, q # r, Exit(q) PROVE out'[Local] = out[Local]
  <2>1. CASE Place(q) = Local
    <3>1. q \in rivals[r] /\ rivals' = rivals
      BY <1>0, <1>3, <2>1 DEF Exit, Using, history
    <3> QED
      BY <3>1
  <2>2. CASE Place(q) # Local
    BY <1>3, <2>2 DEF Exit
  <2> QED
    BY <2>1, <2>2
<1>4. ASSUME NEW q \in Runs, ClearMirror(q) \/ Pull(q) PROVE out'[Local] = out[Local]
  <2>1. Place(q) # Local
    BY <1>0, <1>4 DEF ClearMirror, Pull
  <2> QED
    BY <1>0, <1>4, <2>1 DEF ClearMirror, Pull
<1>5. ASSUME NEW q \in Runs, Refuse(q) \/ Lookup(q) \/ LaunchRemote(q) \/ Compile(q) \/ Analyse(q)
             \/ Publish(q) \/ Crash(q) PROVE UNCHANGED out
  BY <1>5 DEF Refuse, Lookup, LaunchRemote, Compile, Analyse, Publish, Crash, disk
<1>6. CASE Edit \/ UNCHANGED vars
  BY <1>1, <1>6 DEF Edit, vars, disk
<1> QED
  BY <1>1, <1>2, <1>3, <1>4, <1>5, <1>6 DEF Next, Step, Idle

\* What pds_shell leaves behind: its own version's artifacts, or what was there.
LEMMA LeftOrigin ==
  ASSUME NEW r, NEW before \in Artifacts, NEW how, NEW a \in Left(r, before, how), NEW f \in Kinds
  PROVE  a[f] = before[f] \/ a[f] = snap[r]
BY DEF Left, Artifacts, Kinds

LEMMA NextOwnFiles ==
  ASSUME TypeOK, Shape, KeyInv, Meet, SnapInv, [Next]_vars, NEW r \in Runs, OwnFiles(r)
  PROVE  OwnFiles(r)'
<1> SUFFICES ASSUME pc'[r] = "exited", Place(r)' = Local, log'[r] = "clean", WantsBitstream(r)',
                    rivals'[r] = {}
             PROVE  Own(r)'.sbit = snap'[r] /\ Own(r)'.rtr = snap'[r]
  BY DEF OwnFiles
<1>1. Moves(r)
  BY EachMoves
<1>2. /\ args'[r] = args[r] /\ Place(r) = Local /\ WantsBitstream(r) /\ rivals[r] = {}
      /\ pc[r] = "exited" \/ Exit(r)
  BY <1>1 DEF Moves, Place, WantsBitstream
<1>3. CASE Exit(r)
  <2>1. log' = [log EXCEPT ![r] = "clean"] /\ snap' = snap
    <3>1. \E how \in {"clean", "failed"} : log' = [log EXCEPT ![r] = how]
      BY <1>3 DEF Exit
    <3>2. r \in DOMAIN log
      BY TypeParts DEF RunTypes
    <3> QED
      BY <1>3, <3>1, <3>2 DEF Exit, history
  <2>2. PICK how \in {"clean", "failed"} :
          /\ log' = [log EXCEPT ![r] = how]
          /\ \E a \in Left(r, Own(r), how) : out' = [out EXCEPT ![Local][args[r].pds] = a]
    BY <1>2, <1>3 DEF Exit
  <2>3. how = "clean"
    <3>1. r \in DOMAIN log
      BY TypeParts DEF RunTypes
    <3> QED
      BY <2>2, <3>1
  <2>4. out' = [out EXCEPT ![Local][args[r].pds] = [sbit |-> snap[r], rtr |-> snap[r]]]
    BY <1>2, <2>2, <2>3 DEF Left
  <2>5. Local \in DOMAIN out /\ args[r].pds \in DOMAIN out[Local]
    <3>1. args[r] \in Choices
      BY <1>3, TypeParts, ArgsType DEF KeyInv, Exit, RunTypes
    <3> QED
      BY <3>1, TypeParts DEF DiskTypes, Choices, Places
  <2>6. out'[Local][args[r].pds] = [sbit |-> snap[r], rtr |-> snap[r]]
    BY <2>4, <2>5
  <2> QED
    BY <1>2, <2>1, <2>6 DEF Own, Place
<1>4. CASE pc[r] = "exited"
  <2>1. Using(r) /\ log[r] = "clean" /\ snap'[r] = snap[r]
    BY <1>1, <1>2, <1>4 DEF Using, Moves, SnapInv
  <2>2. out'[Local] = out[Local]
    BY <1>2, <1>4, <2>1, OutStays DEF Exit
  <2> QED
    BY <1>2, <1>4, <2>1, <2>2 DEF OwnFiles, Own, Place
<1> QED
  BY <1>2, <1>3, <1>4

LEMMA NextNoOthers ==
  ASSUME TypeOK, Shape, KeyInv, Meet, SnapInv, [Next]_vars, NEW r \in Runs, NoOthers(r)
  PROVE  NoOthers(r)'
<1> SUFFICES ASSUME pc'[r] \in {"spawned", "compiling", "exited"}, Place(r)' = Local, args'[r].backup,
                    rivals'[r] = {}, NEW v \in Releases \ {args'[r].pds}
             PROVE  out'[Local][v].rtr = None
  BY DEF NoOthers
<1>1. Moves(r)
  BY EachMoves
<1>2. args'[r] = args[r] /\ Place(r) = Local /\ args[r].backup /\ rivals[r] = {}
  BY <1>1 DEF Moves, Place
<1>3. Local \in DOMAIN out /\ v \in DOMAIN out[Local]
  BY TypeParts DEF DiskTypes, Places
<1>4. CASE LaunchLocal(r)
  BY <1>2, <1>3, <1>4 DEF LaunchLocal, NoFiles, NoArtifacts
<1>5. CASE pc[r] \in {"spawned", "compiling", "exited"}
  <2>1. Using(r) /\ out[Local][v].rtr = None
    BY <1>2, <1>5 DEF Using, NoOthers
  <2>2. CASE out'[Local] = out[Local]
    BY <2>1, <2>2
  <2>3. CASE Exit(r)
    <3>1. \E a : out' = [out EXCEPT ![Local][args[r].pds] = a]
      BY <1>2, <2>3 DEF Exit
    <3>2. out'[Local][v] = out[Local][v]
      BY <1>2, <1>3, <3>1
    <3> QED
      BY <2>1, <3>2
  <2> QED
    BY <1>2, <2>1, <2>2, <2>3, OutStays
<1>6. pc'[r] = "exited" => pc[r] \in {"exited", "compiling"}
  BY <1>1 DEF Moves, Exit
<1> QED
  BY <1>1, <1>2, <1>4, <1>5, <1>6 DEF Moves

LEMMA NextPlaceInv == TypeOK /\ Shape /\ KeyInv /\ PlaceInv /\ SnapInv /\ [Next]_vars => PlaceInv'
BY NextMeet, NextOwnFiles, NextNoOthers DEF PlaceInv

\* A file that a step puts in a place was compiled by a run of that place and
\* release.
OutFrom(p, v, f) ==
  \/ out'[p][v][f] = None \/ out'[p][v][f] = out[p][v][f]
  \/ Compiled(out'[p][v][f], p, v)

LEMMA OutComesFrom ==
  ASSUME TypeOK, Shape, KeyInv, OriginInv, [Next]_vars, NEW p \in Places, NEW v \in Releases, NEW f \in Kinds
  PROVE  OutFrom(p, v, f)
<1>0. out \in [Places -> [Releases -> Artifacts]] /\ Local \in Places
  BY TypeParts DEF DiskTypes, Places
<1>00. f \in {"sbit", "rtr"} /\ NoArtifacts[f] = None
  BY DEF Kinds, NoArtifacts
<1>1. CASE out' = out
  BY <1>1 DEF OutFrom
<1>2. ASSUME NEW q \in Runs, LaunchLocal(q) \/ ClearMirror(q) PROVE OutFrom(p, v, f)
  <2>1. out' = out \/ \E w : out' = [out EXCEPT ![w] = NoFiles]
    BY <1>2 DEF LaunchLocal, ClearMirror
  <2> QED
    BY <1>0, <1>00, <2>1 DEF OutFrom, NoFiles
<1>3. ASSUME NEW q \in Runs, MoveAsideFails(q) PROVE OutFrom(p, v, f)
  <2>1. PICK lost : out' = [out EXCEPT ![Local] = Without(@, lost)]
    BY <1>3 DEF MoveAsideFails
  <2> QED
    BY <1>0, <1>00, <2>1 DEF OutFrom, Without
<1>4. ASSUME NEW q \in Runs, Exit(q) PROVE OutFrom(p, v, f)
  <2>1. CASE Place(q) = Local
    <3>1. PICK how \in {"clean", "failed"} :
            \E a \in Left(q, Own(q), how) : out' = [out EXCEPT ![Local][args[q].pds] = a]
      BY <1>4, <2>1 DEF Exit
    <3>2. args[q].pds \in Releases
      BY <1>4, TypeParts, ArgsType DEF KeyInv, Exit, RunTypes, Choices
    <3>3. Own(q) \in Artifacts
      BY <1>0, <2>1, <3>2 DEF Own
    <3>4. PICK a \in Left(q, Own(q), how) : out' = [out EXCEPT ![Local][args[q].pds] = a]
      BY <3>1
    <3>5. a[f] = Own(q)[f] \/ a[f] = snap[q]
      BY <3>3, LeftOrigin
    <3>6. CASE p = Local /\ v = args[q].pds
      <4>1. out'[p][v] = a /\ Own(q) = out[p][v]
        BY <1>0, <2>1, <3>4, <3>6 DEF Own
      <4> QED
        BY <2>1, <3>5, <3>6, <4>1 DEF OutFrom, Compiled
    <3>7. CASE ~(p = Local /\ v = args[q].pds)
      <4>1. out'[p][v] = out[p][v]
        BY <1>0, <3>4, <3>7
      <4> QED
        BY <4>1 DEF OutFrom
    <3> QED
      BY <3>6, <3>7
  <2>2. CASE Place(q) # Local
    BY <1>1, <1>4, <2>2 DEF Exit
  <2> QED
    BY <2>1, <2>2
<1>5. ASSUME NEW q \in Runs, Pull(q) PROVE OutFrom(p, v, f)
  <2> DEFINE a == [g \in {"sbit", "rtr"} |-> IF pulled[q][g] # None THEN pulled[q][g] ELSE Own(q)[g]]
  <2>1. out' = out \/ out' = [out EXCEPT ![Place(q)][args[q].pds] = a]
    BY <1>5 DEF Pull, Own
  <2>2. a[f] = Own(q)[f] \/ (a[f] = pulled[q][f] /\ pulled[q][f] # None)
    BY <1>00
  <2>3. pulled[q][f] # None => pulled[q][f] = snap[q]
    BY DEF OriginInv
  <2> HIDE DEF a
  <2>4. CASE p = Place(q) /\ v = args[q].pds /\ out' # out
    <3>1. out'[p][v] = a /\ Own(q) = out[p][v]
      BY <1>0, <2>1, <2>4 DEF Own
    <3> QED
      BY <2>2, <2>3, <2>4, <3>1 DEF OutFrom, Compiled
  <2>5. CASE ~(p = Place(q) /\ v = args[q].pds /\ out' # out)
    <3>1. out'[p][v] = out[p][v]
      BY <1>0, <2>1, <2>5
    <3> QED
      BY <3>1 DEF OutFrom
  <2> QED
    BY <2>4, <2>5
<1>6. ASSUME NEW q \in Runs, Refuse(q) \/ Lookup(q) \/ LaunchRemote(q) \/ Compile(q) \/ Analyse(q)
             \/ Publish(q) \/ Crash(q) PROVE out' = out
  BY <1>6 DEF Refuse, Lookup, LaunchRemote, Compile, Analyse, Publish, Crash, disk
<1>7. CASE Edit \/ UNCHANGED vars
  BY <1>1, <1>7 DEF Edit, vars, disk
<1> QED
  BY <1>1, <1>2, <1>3, <1>4, <1>5, <1>6, <1>7 DEF Next, Step, Idle

\* What a remote build has left is its own.
LEMMA PulledIsOwn ==
  ASSUME TypeOK, Shape, SnapInv, OriginInv, [Next]_vars, NEW r \in Runs, NEW f \in Kinds, pulled'[r][f] # None
  PROVE  pulled'[r][f] = snap'[r]
<1>1. Moves(r) /\ DOMAIN pulled = Runs
  BY EachMoves, TypeParts DEF RunTypes
<1>2. CASE pulled' = pulled
  <2>1. pulled[r][f] = snap[r]
    BY <1>2 DEF OriginInv
  <2> QED
    BY <1>1, <1>2, <2>1 DEF Moves
<1>3. ASSUME NEW q \in Runs, Exit(q) PROVE pulled'[r][f] = snap'[r]
  <2>1. CASE Place(q) = Local
    BY <1>2, <1>3, <2>1 DEF Exit
  <2>2. CASE Place(q) # Local
    <3>1. PICK how \in {"clean", "failed"} :
            \E a \in Left(q, NoArtifacts, how) : pulled' = [pulled EXCEPT ![q] = a]
      BY <1>3, <2>2 DEF Exit
    <3>2. PICK a \in Left(q, NoArtifacts, how) : pulled' = [pulled EXCEPT ![q] = a]
      BY <3>1
    <3>3. NoArtifacts \in Artifacts /\ NoArtifacts[f] = None
      BY DEF NoArtifacts, Artifacts, Content, Kinds
    <3>4. a[f] = None \/ a[f] = snap[q]
      BY <3>3, LeftOrigin
    <3>5. snap' = snap
      BY <1>3 DEF Exit, history
    <3> QED
      BY <1>1, <3>2, <3>4, <3>5 DEF OriginInv
  <2> QED
    BY <2>1, <2>2
<1>4. ASSUME NEW q \in Runs, Step(q), ~Exit(q) PROVE pulled' = pulled
  BY <1>4 DEF Step, Refuse, Lookup, LaunchLocal, MoveAsideFails, LaunchRemote, Compile, ClearMirror, Pull,
     Analyse, Publish
<1>5. CASE Edit \/ UNCHANGED vars \/ \E q \in Runs : Crash(q)
  BY <1>2, <1>5 DEF Edit, vars, Crash
<1> QED
  BY <1>2, <1>3, <1>4, <1>5 DEF Next, Idle

\* Files come from compiles, and pulls from their own remote build.
LEMMA NextOriginInv == TypeOK /\ Shape /\ KeyInv /\ SnapInv /\ OriginInv /\ [Next]_vars => OriginInv'
<1> SUFFICES ASSUME TypeOK, Shape, KeyInv, SnapInv, OriginInv, [Next]_vars PROVE OriginInv'
  OBVIOUS
<1>1. ASSUME NEW p \in Places, NEW v \in Releases, NEW f \in Kinds, out'[p][v][f] # None
      PROVE  \E q \in Runs : snap'[q] = out'[p][v][f] /\ Place(q)' = p /\ args'[q].pds = v
  <2> DEFINE c == out'[p][v][f]
  <2>1. Compiled(c, p, v)
    BY <1>1, OutComesFrom DEF OutFrom, OriginInv
  <2> HIDE DEF c
  <2>2. PICK q \in Runs : snap[q] = c /\ Place(q) = p /\ args[q].pds = v
    BY <2>1 DEF Compiled
  <2>3. snap'[q] = c /\ Place(q)' = p /\ args'[q].pds = v
    BY <1>1, <2>2, EachMoves DEF Moves, Place, c
  <2> QED
    BY <2>3 DEF c
<1> QED
  BY <1>1, PulledIsOwn DEF OriginInv, Compiled, Place

\* Only a run's Publish completes a summary, and it is the run's own result.
LEMMA NextStoreInv ==
  TypeOK /\ Shape /\ KeyInv /\ ResultInv /\ SnapInv /\ StoreInv /\ [Next]_vars => StoreInv'
<1> SUFFICES ASSUME TypeOK, Shape, KeyInv, ResultInv, SnapInv, StoreInv, [Next]_vars,
                    NEW k \in Keys, store'[k].kind = "summary"
             PROVE  LET b == store'[k].by
                    IN  /\ key'[b] = k /\ result'[b].kind = "built" /\ pc'[b] = "done"
                        /\ store'[k].ok = result'[b].ok /\ store'[k].named = result'[b].named
                        /\ store'[k].of = result'[b].served
  BY DEF StoreInv
<1>1. CASE store'[k] = store[k]
  <2> DEFINE b == store[k].by
  <2>1. b \in Runs
    BY <1>1, TypeParts DEF DiskTypes, Absent, Torn
  <2>2. /\ key[b] = k /\ result[b].kind = "built" /\ pc[b] = "done"
        /\ store[k].ok = result[b].ok /\ store[k].named = result[b].named /\ store[k].of = result[b].served
    BY <1>1 DEF StoreInv
  <2> HIDE DEF b
  <2>3. pc'[b] = "done" /\ result'[b] = result[b] /\ key'[b] = key[b]
    BY <2>1, <2>2, EachMoves DEF Moves
  <2> QED
    BY <1>1, <2>2, <2>3 DEF b
<1>2. ASSUME NEW r \in Runs, Publish(r), store'[k] # store[k]
      PROVE  /\ store'[k].by = r /\ key'[r] = k /\ result'[r].kind = "built" /\ pc'[r] = "done"
             /\ store'[k].ok = result'[r].ok /\ store'[k].named = result'[r].named
             /\ store'[k].of = result'[r].served
  BY <1>2, TypeParts DEF Publish, Goto, Shape, ResultInv, RunTypes
<1>3. ASSUME NEW r \in Runs, Analyse(r) PROVE store'[k] = store[k]
  BY <1>3 DEF Analyse, Shape, Torn
<1>4. ASSUME NEW r \in Runs, Step(r), ~Publish(r), ~Analyse(r) PROVE store' = store
  BY <1>4 DEF Step, Refuse, Lookup, LaunchLocal, MoveAsideFails, LaunchRemote, Compile, Exit, ClearMirror,
     Pull, disk
<1>5. CASE Edit \/ UNCHANGED vars \/ \E q \in Runs : Crash(q)
  BY <1>1, <1>5 DEF Edit, vars, Crash, disk
<1> QED
  BY <1>1, <1>2, <1>3, <1>4, <1>5 DEF Next, Idle

\* What a lookup answers is the summary's.
Serves(r, k) ==
  /\ key'[r] = k /\ k.target = args[r].target /\ k.pds = args[r].pds /\ k.host = Place(r)
  /\ store[k].kind = "summary" /\ store[k].ok /\ store[k].by \in Runs
  /\ store[k].named => out[k.host][k.pds].sbit # None
  /\ result'[r] = [kind |-> "hit", ok |-> TRUE, named |-> store[k].named,
                   by |-> store[k].by, served |-> out[k.host][k.pds].sbit]

LEMMA LookupServes ==
  ASSUME TypeOK, Shape, KeyInv, ResultInv, NEW r \in Runs, Lookup(r), result'[r].kind = "hit"
  PROVE  \E k \in Keys : Serves(r, k)
<1> DEFINE k == KeyOf(r)
<1>1. k \in Keys /\ k.target = args[r].target /\ k.pds = args[r].pds /\ k.host = Place(r)
  BY TypeParts, ArgsType DEF KeyOf, Keys, RunTypes, DiskTypes, Choices, Lookup, KeyInv, Place
<1>2. key'[r] = k /\ result[r].kind # "hit" /\ DOMAIN result = Runs
  BY TypeParts DEF Lookup, RunTypes, Shape, ResultInv, NoResult
<1>3. Cached(k) /\ result' = [result EXCEPT ![r] =
         [kind |-> "hit", ok |-> TRUE, named |-> store[k].named, by |-> store[k].by,
          served |-> out[k.host][k.pds].sbit]]
  BY <1>2 DEF Lookup, Answer
<1> HIDE DEF k
<1>4. store[k].by \in Runs
  BY <1>1, <1>3, TypeParts DEF Cached, DiskTypes, Absent, Torn
<1> QED
  BY <1>1, <1>2, <1>3, <1>4 DEF Serves, Cached

\* A hit stays as it is, or has just been looked up.
LEMMA HitsStay ==
  ASSUME TypeOK, Shape, SnapInv, ResultInv, [Next]_vars, NEW h \in Runs, Hit(h)'
  PROVE  \/ Hit(h) /\ result'[h] = result[h] /\ key'[h] = key[h] /\ args'[h] = args[h]
         \/ Lookup(h) /\ args'[h] = args[h]
<1>1. Moves(h)
  BY EachMoves
<1>2. ~Analyse(h)
  BY TypeParts DEF Analyse, Hit, Shape
<1>3. result'[h] = result[h] => pc[h] # "start"
  BY DEF Hit, ResultInv, NoResult
<1> QED
  BY <1>1, <1>2, <1>3 DEF Moves, Hit, Error

\* A hit copies a complete summary that passed; the build behind it is over.
LEMMA NextHit ==
  TypeOK /\ Shape /\ KeyInv /\ ResultInv /\ SnapInv /\ StoreInv /\ HitIsBacked /\ [Next]_vars
    => HitIsBacked'
<1> SUFFICES ASSUME TypeOK, Shape, KeyInv, ResultInv, SnapInv, StoreInv, HitIsBacked, [Next]_vars
             PROVE  HitIsBacked'
  OBVIOUS
<1>01. \A h \in Runs : Hit(h)' => result'[h].by \in Runs
  BY NextResults DEF ResultTypes, Hit, NoResult, Error
<1>02. SUFFICES ASSUME NEW h \in Runs, Hit(h)', NEW b \in Runs, b = result'[h].by
                PROVE  /\ pc'[b] = "done" /\ result'[b].kind = "built" /\ result'[b].ok /\ log'[b] = "clean"
                       /\ args'[b].target = args'[h].target /\ args'[b].pds = args'[h].pds
                       /\ args'[b].host = args'[h].host /\ key'[b].ver = key'[h].ver
                       /\ result'[h].named => result'[h].served # None
  BY <1>01 DEF HitIsBacked, Built, Place
<1>0. Moves(b)
  BY EachMoves
<1>1. CASE Hit(h) /\ result'[h] = result[h] /\ key'[h] = key[h] /\ args'[h] = args[h]
  <2>1. /\ pc[b] = "done" /\ Built(b) /\ result[b].ok /\ log[b] = "clean"
        /\ args[b].target = args[h].target /\ args[b].pds = args[h].pds /\ Place(b) = Place(h)
        /\ key[b].ver = key[h].ver
        /\ result[h].named => result[h].served # None
    BY <1>02, <1>1 DEF HitIsBacked
  <2> QED
    BY <1>0, <1>1, <2>1 DEF Moves, Built, Place
<1>2. CASE Lookup(h) /\ args'[h] = args[h]
  <2>1. PICK k \in Keys : Serves(h, k)
    BY <1>02, <1>2, LookupServes DEF Hit
  <2>2. /\ key[b] = k /\ result[b].kind = "built" /\ pc[b] = "done" /\ result[b].ok
    BY <1>02, <2>1 DEF Serves, StoreInv
  <2>3. log[b] = "clean" /\ k.target = args[b].target /\ k.pds = args[b].pds /\ k.host = Place(b)
    BY <1>0, <2>2 DEF ResultInv, KeyInv, Asked
  <2>4. /\ pc'[b] = "done" /\ result'[b] = result[b] /\ log'[b] = "clean"
        /\ args'[b] = args[b] /\ key'[b] = k /\ key'[h] = k
    BY <1>0, <2>1, <2>2, <2>3 DEF Moves, Serves
  <2>5. /\ args[b].target = args[h].target /\ args[b].pds = args[h].pds /\ args[b].host = args[h].host
        /\ result'[h].named => result'[h].served # None
    BY <2>1, <2>3 DEF Serves, Place
  <2> QED
    BY <1>2, <2>2, <2>4, <2>5
<1> QED
  BY <1>02, <1>1, <1>2, HitsStay

\* The only report that is found is the run's own.
LEMMA OwnReport ==
  ASSUME TypeOK, KeyInv, SnapInv, PlaceInv, OriginInv, NEW r \in Runs,
         pc[r] = "exited", Place(r) = Local, log[r] = "clean", WantsBitstream(r), rivals[r] = {}
  PROVE  /\ Own(r).sbit = snap[r] /\ snap[r] # None
         /\ OneRelease(r) => FoundReports(r) = {snap[r]}
<1>1. Own(r).sbit = snap[r] /\ Own(r).rtr = snap[r] /\ snap[r] # None
  BY DEF PlaceInv, OwnFiles, SnapInv
<1>2. args[r].pds \in Releases /\ Local \in Places
  BY TypeParts, ArgsType DEF KeyInv, Asked, RunTypes, Choices, Places
<1>3. ASSUME OneRelease(r), NEW v \in Releases \ {args[r].pds} PROVE out[Local][v].rtr = None
  <2>1. CASE args[r].backup
    BY <1>3, <2>1 DEF PlaceInv, NoOthers
  <2>2. CASE ~args[r].backup
    <3>1. SUFFICES ASSUME out[Local][v]["rtr"] # None PROVE FALSE
      OBVIOUS
    <3>2. Compiled(out[Local][v]["rtr"], Local, v)
      BY <1>2, <1>3, <3>1 DEF OriginInv, Kinds
    <3>3. PICK q \in Runs : snap[q] # None /\ Place(q) = Local /\ args[q].pds = v
      BY <3>1, <3>2 DEF Compiled
    <3>4. args[q].pds = args[r].pds
      BY <1>3, <2>2, <3>3 DEF OneRelease
    <3> QED
      BY <1>3, <3>3, <3>4
  <2> QED
    BY <2>1, <2>2
<1>4. ASSUME OneRelease(r) PROVE FoundReports(r) = {snap[r]}
  <2>1. out[Local][args[r].pds].rtr = snap[r]
    BY <1>1 DEF Own
  <2>2. {out[Local][v].rtr : v \in Releases} \ {None} = {snap[r]}
    BY <1>1, <1>2, <1>3, <1>4, <2>1
  <2> QED
    BY <2>2 DEF FoundReports, LiveReports
<1> QED
  BY <1>1, <1>4

\* A verdict stays as it is, or has just been given.
LEMMA VerdictsStay ==
  ASSUME TypeOK, Shape, SnapInv, ResultInv, [Next]_vars, NEW r \in Runs, Built(r)'
  PROVE  /\ args'[r] = args[r] /\ log'[r] = log[r] /\ snap'[r] = snap[r]
         /\ rivals'[r] = {} => rivals[r] = {}
         /\ OneRelease(r)' => OneRelease(r)
         /\ (Built(r) /\ result'[r] = result[r]) \/ Analyse(r)
<1>1. \A q \in Runs : Moves(q)
  BY EachMoves
<1>2. (Built(r) /\ result'[r] = result[r]) \/ Analyse(r)
  <2>1. ~Lookup(r) \/ result'[r] = result[r]
    BY DEF Lookup, Answer, Built, Shape
  <2> QED
    BY <1>1, <2>1 DEF Moves, Built, Error
<1>3. pc[r] # "compiling" /\ snap[r] # None
  BY <1>2 DEF Built, ResultInv, SnapInv, Analyse, NoResult
<1>4. ASSUME OneRelease(r)' PROVE OneRelease(r)
  <2>1. CASE args'[r].backup
    BY <1>1, <2>1 DEF Moves, OneRelease
  <2>2. CASE \A q \in Runs : snap'[q] # None /\ Place(q)' = Place(r)' => args'[q].pds = args'[r].pds
    BY <1>1, <2>2 DEF Moves, OneRelease, Place
  <2> QED
    BY <1>4, <2>1, <2>2 DEF OneRelease
<1> QED
  BY <1>1, <1>2, <1>3, <1>4 DEF Moves

\* What a verdict says that has just been given.
LEMMA Judged ==
  ASSUME TypeOK, Shape, NEW r \in Runs, Analyse(r)
  PROVE  \E report \in FoundReports(r) :
           result'[r].ok = Verdict(r, report) /\ result'[r].served = Own(r).sbit
BY DEF Analyse, Shape

\* An undisturbed verdict looks at what the run itself has written.
LEMMA NextVerdict ==
  TypeOK /\ Shape /\ KeyInv /\ ResultInv /\ SnapInv /\ PlaceInv /\ OriginInv /\ VerdictSound /\ [Next]_vars
    => VerdictSound'
<1> SUFFICES ASSUME TypeOK, Shape, KeyInv, ResultInv, SnapInv, PlaceInv, OriginInv, VerdictSound,
                    [Next]_vars, NEW r \in Runs, Built(r)', result'[r].ok
             PROVE  /\ log'[r] = "clean"
                    /\ WantsBitstream(r)' /\ rivals'[r] = {} =>
                         result'[r].served = snap'[r] /\ (OneRelease(r)' => snap'[r] \in Met)
  BY DEF VerdictSound
<1>1. /\ args'[r] = args[r] /\ log'[r] = log[r] /\ snap'[r] = snap[r]
      /\ rivals'[r] = {} => rivals[r] = {}
      /\ OneRelease(r)' => OneRelease(r)
      /\ (Built(r) /\ result'[r] = result[r]) \/ Analyse(r)
  BY VerdictsStay
<1>2. CASE Built(r) /\ result'[r] = result[r]
  BY <1>1, <1>2 DEF VerdictSound, WantsBitstream
<1>3. CASE Analyse(r)
  <2>1. PICK report \in FoundReports(r) : Verdict(r, report) /\ result'[r].served = Own(r).sbit
    BY <1>3, Judged
  <2>2. WantsBitstream(r) => Place(r) = Local /\ pc[r] = "exited"
    <3>1. WantsBitstream(r) => report # None
      BY <2>1, BuildAssumption DEF Verdict
    <3> QED
      BY <1>3, <2>1, <3>1 DEF FoundReports, LiveReports, Analyse, KeyInv
  <2>3. log[r] = "clean" /\ (WantsBitstream(r) => report \in Met)
    BY <2>1 DEF Verdict
  <2>4. ASSUME WantsBitstream(r), rivals[r] = {}
        PROVE  Own(r).sbit = snap[r] /\ (OneRelease(r) => FoundReports(r) = {snap[r]})
    BY <2>2, <2>3, <2>4, OwnReport
  <2> QED
    BY <1>1, <2>1, <2>3, <2>4 DEF WantsBitstream
<1> QED
  BY <1>1, <1>2, <1>3

\* An undisturbed local run finds its own report and bitstream.
LEMMA NextComplete ==
  TypeOK /\ Shape /\ KeyInv /\ ResultInv /\ SnapInv /\ PlaceInv /\ OriginInv /\ LocalVerdictComplete /\
  [Next]_vars
    => LocalVerdictComplete'
<1> SUFFICES ASSUME TypeOK, Shape, KeyInv, ResultInv, SnapInv, PlaceInv, OriginInv, LocalVerdictComplete,
                    [Next]_vars, NEW r \in Runs, DuePass(r)', Place(r)' = Local
             PROVE  result'[r].ok
  BY DEF LocalVerdictComplete
<1>1. /\ args'[r] = args[r] /\ log'[r] = log[r] /\ snap'[r] = snap[r]
      /\ rivals'[r] = {} => rivals[r] = {}
      /\ OneRelease(r)' => OneRelease(r)
      /\ (Built(r) /\ result'[r] = result[r]) \/ Analyse(r)
  BY VerdictsStay DEF DuePass
<1>2. /\ Place(r) = Local /\ log[r] = "clean" /\ rivals[r] = {} /\ OneRelease(r)
      /\ WantsBitstream(r) => snap[r] \in Met
  BY <1>1 DEF DuePass, Place, WantsBitstream
<1>3. CASE Built(r) /\ result'[r] = result[r]
  BY <1>2, <1>3 DEF LocalVerdictComplete, DuePass
<1>4. CASE Analyse(r)
  <2>1. PICK report \in FoundReports(r) : result'[r].ok = Verdict(r, report)
    BY <1>4, Judged
  <2>2. pc[r] = "exited"
    BY <1>2, <1>4 DEF Analyse, KeyInv
  <2>3. CASE WantsBitstream(r)
    <3>1. FoundReports(r) = {snap[r]} /\ Own(r).sbit = snap[r] /\ snap[r] # None
      BY <1>2, <2>2, <2>3, OwnReport
    <3> QED
      BY <1>2, <2>1, <2>3, <3>1 DEF Verdict
  <2>4. CASE ~WantsBitstream(r)
    BY <1>2, <2>1, <2>4 DEF Verdict
  <2> QED
    BY <2>3, <2>4
<1> QED
  BY <1>1, <1>3, <1>4

\* What a hit serves was compiled by somebody; if only by the build behind it,
\* then from the inputs of the key unless they were edited.
LEMMA NextStale ==
  TypeOK /\ Shape /\ KeyInv /\ ResultInv /\ SnapInv /\ OriginInv /\ StoreInv /\
  HitIsBacked /\ StaleInv /\ [Next]_vars
    => StaleInv'
<1> SUFFICES ASSUME TypeOK, Shape, KeyInv, ResultInv, SnapInv, OriginInv, StoreInv, HitIsBacked, StaleInv,
                    [Next]_vars, NEW h \in Runs, Hit(h)', result'[h].named, result'[h].served # key'[h].ver
             PROVE  LET b == result'[h].by
                    IN  b \in edited' \/ \E q \in Runs \ {b} :
                          snap'[q] = result'[h].served /\ Place(q)' = Place(h)' /\ args'[q].pds = args'[h].pds
  BY DEF StaleInv
<1> DEFINE b == result'[h].by
           c == result'[h].served
<1>0. b \in Runs /\ \A q \in Runs : Moves(q)
  BY NextResults, EachMoves DEF ResultTypes, Hit, NoResult, Error
<1>1. c # None /\ (b \in edited \/ \E q \in Runs \ {b} :
         snap[q] = c /\ Place(q) = Place(h) /\ args[q].pds = args[h].pds)
  <2>1. CASE Hit(h) /\ result'[h] = result[h] /\ key'[h] = key[h] /\ args'[h] = args[h]
    <3>1. result[h].named => result[h].served # None
      BY <2>1 DEF HitIsBacked
    <3> QED
      BY <2>1, <3>1 DEF StaleInv
  <2>2. CASE Lookup(h)
    <3>1. PICK k \in Keys : Serves(h, k)
      BY <2>2, LookupServes DEF Hit
    <3>2. c = out[k.host][k.pds]["sbit"] /\ c # None /\ key[b] = k /\ result[b].kind = "built" /\ c # k.ver
      BY <3>1 DEF Serves, StoreInv
    <3> HIDE DEF b, c
    <3>3. k.host \in Places /\ k.pds \in Releases /\ "sbit" \in Kinds
      BY DEF Keys, Kinds
    <3>4. PICK q \in Runs : snap[q] = c /\ Place(q) = k.host /\ args[q].pds = k.pds
      BY <3>2, <3>3 DEF OriginInv, Compiled
    <3>5. q # b \/ b \in edited
      BY <1>0, <3>2, <3>4 DEF SnapInv
    <3> QED
      BY <3>1, <3>2, <3>4, <3>5 DEF Serves
  <2> QED
    BY <2>1, <2>2, HitsStay
<1> HIDE DEF b, c
<1>2. CASE b \in edited
  BY <1>0, <1>2 DEF Moves, b
<1>3. CASE b \notin edited
  <2>1. PICK q \in Runs \ {b} : snap[q] = c /\ Place(q) = Place(h) /\ args[q].pds = args[h].pds
    BY <1>1, <1>3
  <2>2. snap'[q] = c /\ Place(q)' = Place(h)' /\ args'[q].pds = args'[h].pds
    BY <1>0, <1>1, <2>1 DEF Moves, Place
  <2> QED
    BY <2>1, <2>2 DEF b, c
<1> QED
  BY <1>2, <1>3
-----------------------------------------------------------------------------
\* The invariant holds at first: nothing is built, stored or answered.
LEMMA InitBuildInv == Init => BuildInv
<1> SUFFICES ASSUME Init PROVE BuildInv
  OBVIOUS
<1>1. TypeOK /\ Shape
  BY InitTypes
<1>2. KeyInv /\ ResultInv /\ SnapInv
  BY DEF Init, KeyInv, ResultInv, SnapInv, NoResult
<1>3. PlaceInv /\ OriginInv /\ StoreInv
  BY DEF Init, PlaceInv, Meet, OwnFiles, NoOthers, Using, OriginInv, Kinds, StoreInv, NoFiles, NoArtifacts, Absent
<1>4. HitIsBacked /\ VerdictSound /\ LocalVerdictComplete /\ StaleInv
  BY DEF Init, HitIsBacked, VerdictSound, LocalVerdictComplete, StaleInv, DuePass, Hit, Built, NoResult
<1> QED
  BY <1>1, <1>2, <1>3, <1>4 DEF BuildInv

\* The invariant holds in every state, whatever meets whatever.
THEOREM BuildInvariant == Spec => []BuildInv
<1>1. BuildInv /\ [Next]_vars => BuildInv'
  <2> SUFFICES ASSUME BuildInv, [Next]_vars PROVE BuildInv'
    OBVIOUS
  <2> USE DEF BuildInv
  <2>1. TypeOK' /\ Shape'
    BY NextDisk, NextRuns, NextResults, TypeParts
  <2>2. KeyInv' /\ ResultInv' /\ SnapInv' /\ PlaceInv' /\ OriginInv' /\ StoreInv'
    BY NextKeyInv, NextResultInv, NextSnapInv, NextPlaceInv, NextOriginInv, NextStoreInv
  <2>3. HitIsBacked' /\ VerdictSound' /\ LocalVerdictComplete' /\ StaleInv'
    BY NextHit, NextVerdict, NextComplete, NextStale
  <2> QED
    BY <2>1, <2>2, <2>3
<1> QED
  BY InitBuildInv, <1>1, PTL DEF Spec

\* The project directory, the store and the calls keep their types.
THEOREM BuildTypeOK == Spec => []TypeOK
<1>1. BuildInv => TypeOK
  BY DEF BuildInv
<1> QED
  BY <1>1, BuildInvariant, PTL

\* However many servers build, crash or share a directory, a cache hit rests on
\* a build that finished and passed for the same inputs, target and host.
THEOREM HitsAreBacked == Spec => []HitIsBacked
<1>1. BuildInv => HitIsBacked
  BY DEF BuildInv
<1> QED
  BY <1>1, BuildInvariant, PTL

\* A build without a rival in its place passes on its own artifacts only, unless
\* it kept the report of another release there.
THEOREM VerdictsAreSound == Spec => []VerdictSound
<1>1. BuildInv => VerdictSound
  BY DEF BuildInv
<1> QED
  BY <1>1, BuildInvariant, PTL

\* A local build without a rival or another release's report that deserves to
\* pass does.
THEOREM LocalVerdictsAreComplete == Spec => []LocalVerdictComplete
<1>1. BuildInv => LocalVerdictComplete
  BY DEF BuildInv
<1> QED
  BY <1>1, BuildInvariant, PTL

\* A hit's bitstream is there, and one of other inputs than it was asked about has
\* a cause: an edit between the hash and the compile, or another run that wrote
\* the file.
THEOREM StaleHitsHaveCauses == Spec => []StaleHitHasCause
<1>1. BuildInv => StaleHitHasCause
  BY DEF BuildInv, StaleHitHasCause, StaleInv, HitIsBacked
<1> QED
  BY <1>1, BuildInvariant, PTL

\* The store says of a key only what a build of that key has concluded.
THEOREM StoreIsTrue == Spec => []StoreDescribesKey
<1>1. BuildInv => StoreDescribesKey
  <2> SUFFICES ASSUME BuildInv, NEW k \in Keys, store[k].kind = "summary"
               PROVE  LET b == store[k].by
                      IN  /\ key[b] = k /\ Built(b) /\ store[k].ok = result[b].ok
                          /\ store[k].ok /\ k.target = "gen_bit_stream" /\ rivals[b] = {} /\ b \notin edited =>
                               store[k].of = k.ver /\ (OneRelease(b) => k.ver \in Met)
    BY DEF StoreDescribesKey
  <2> DEFINE b == store[k].by
  <2>1. b \in Runs
    BY DEF BuildInv, TypeOK, Absent, Torn
  <2>2. /\ key[b] = k /\ result[b].kind = "built" /\ store[k].ok = result[b].ok
        /\ store[k].of = result[b].served
    BY DEF BuildInv, StoreInv
  <2>3. k.target = args[b].target /\ snap[b] # None /\ (b \notin edited => snap[b] = k.ver)
    BY <2>1, <2>2 DEF BuildInv, KeyInv, Asked, ResultInv, SnapInv
  <2> HIDE DEF b
  <2> QED
    BY <2>1, <2>2, <2>3 DEF BuildInv, VerdictSound, Built, WantsBitstream, b
<1> QED
  BY <1>1, BuildInvariant, PTL

\* Why VerdictComplete fails (index.mjs:601-604): no remote bitstream build ever
\* passes, because its timing report lies where reports count as history.
RemoteBitstreamFails ==
  \A r \in Runs : Built(r) /\ WantsBitstream(r) /\ Place(r) # Local => ~result[r].ok

\* Whatever is built remotely, and wherever: a bitstream never passes.
THEOREM RemoteBitstreamsFail == Spec => []RemoteBitstreamFails
<1>1. BuildInv => RemoteBitstreamFails
  BY DEF BuildInv, ResultInv, RemoteBitstreamFails, Built
<1> QED
  BY <1>1, BuildInvariant, PTL
-----------------------------------------------------------------------------
(* The run store as a cache: what a step does to what a caller sees. *)

\* A function of which one value changes.
LEMMA OneValue ==
  ASSUME NEW S, NEW f, NEW g, f = [y \in S |-> f[y]], g = [y \in S |-> g[y]],
         NEW x \in S, \A y \in S \ {x} : g[y] = f[y]
  PROVE  g = [f EXCEPT ![x] = g[x]]
OBVIOUS

SameAnswers(S) == \A q \in S : AnswerOf(q)' = AnswerOf(q)
SameKept(S) == \A k \in S : KeptAt(k)' = KeptAt(k)

\* One call answers, or none; the summaries of one key change, or none.
LEMMA OneAnswer ==
  ASSUME NEW r \in Runs, NEW a, SameAnswers(Runs \ {r}), AnswerOf(r) = Cache!Open, AnswerOf(r)' = a
  PROVE  Cache!Answer(r, a)
<1> DEFINE f == [q \in Runs |-> AnswerOf(q)]
           g == [q \in Runs |-> AnswerOf(q)']
<1>1. f = [y \in Runs |-> f[y]] /\ g = [y \in Runs |-> g[y]] /\ g[r] = a /\ f[r] = Cache!Open
  OBVIOUS
<1>2. \A y \in Runs \ {r} : g[y] = f[y]
  BY DEF SameAnswers
<1> HIDE DEF f, g
<1>3. g = [f EXCEPT ![r] = a]
  BY <1>1, <1>2, OneValue
<1> QED
  BY <1>1, <1>3 DEF Cache!Answer, f, g

LEMMA NoAnswer == SameAnswers(Runs) => UNCHANGED [q \in Runs |-> AnswerOf(q)]
BY DEF SameAnswers

LEMMA NoneKept == SameKept(Keys) => UNCHANGED [k \in Keys |-> KeptAt(k)]
BY DEF SameKept

LEMMA OneForgotten ==
  ASSUME NEW k \in Keys, SameKept(Keys \ {k}), KeptAt(k)' = {}
  PROVE  Cache!Without(k)
<1> DEFINE f == [l \in Keys |-> KeptAt(l)]
           g == [l \in Keys |-> KeptAt(l)']
<1>1. f = [y \in Keys |-> f[y]] /\ g = [y \in Keys |-> g[y]] /\ g[k] = {}
  OBVIOUS
<1>2. \A y \in Keys \ {k} : g[y] = f[y]
  BY DEF SameKept
<1> HIDE DEF f, g
<1>3. g = [f EXCEPT ![k] = {}]
  BY <1>1, <1>2, OneValue
<1> QED
  BY <1>3 DEF Cache!Without, f, g

\* A step of a run is its own: it has not returned, and what the others have come
\* to stays.
OneMoves(r) ==
  /\ pc[r] # "done"
  /\ \A q \in Runs \ {r} : pc'[q] = pc[q] /\ result'[q] = result[q] /\ key'[q] = key[q]

LEMMA StepMovesOne ==
  ASSUME TypeOK, Shape, NEW r \in Runs, Step(r)
  PROVE  OneMoves(r)
<1> USE TypeParts DEF RunTypes, Shape, OneMoves, Goto, Answer
<1>1. CASE Lookup(r) \/ Refuse(r)
  BY <1>1 DEF Lookup, Refuse
<1>2. CASE LaunchLocal(r) \/ MoveAsideFails(r) \/ LaunchRemote(r)
  BY <1>2 DEF LaunchLocal, MoveAsideFails, LaunchRemote
<1>3. CASE Compile(r) \/ Exit(r) \/ ClearMirror(r) \/ Pull(r)
  BY <1>3 DEF Compile, Exit, ClearMirror, Pull
<1>4. CASE Analyse(r) \/ Publish(r)
  BY <1>4 DEF Analyse, Publish
<1> QED
  BY <1>1, <1>2, <1>3, <1>4 DEF Step

LEMMA OwnAnswer ==
  ASSUME NEW r \in Runs, OneMoves(r)
  PROVE  /\ SameAnswers(Runs \ {r}) /\ AnswerOf(r) = Cache!Open
         /\ pc'[r] # "done" => SameAnswers(Runs)
         /\ pc'[r] = "done" /\ result'[r] = Error => AnswerOf(r)' = Cache!Failed
<1>1. SameAnswers(Runs \ {r}) /\ AnswerOf(r) = Cache!Open
  BY DEF OneMoves, SameAnswers, AnswerOf, Cache!Open
<1>2. ASSUME pc'[r] # "done" PROVE AnswerOf(r)' = AnswerOf(r)
  BY <1>2 DEF OneMoves, AnswerOf
<1>3. ASSUME pc'[r] = "done", result'[r] = Error PROVE AnswerOf(r)' = Cache!Failed
  BY <1>3 DEF AnswerOf, Error, Cache!Failed
<1> QED
  BY <1>1, <1>2, <1>3 DEF SameAnswers

\* A step that leaves the store alone and does not pass: the caller sees nothing,
\* or a failure.
LEMMA Unkept ==
  ASSUME NEW r \in Runs, OneMoves(r), store' = store,
         pc'[r] # "done" \/ (pc'[r] = "done" /\ result'[r] = Error)
  PROVE  [Cache!CacheNext]_(Cache!cacheVars)
<1>1. UNCHANGED [k \in Keys |-> KeptAt(k)]
  BY NoneKept DEF SameKept, KeptAt
<1>2. CASE pc'[r] # "done"
  BY <1>1, <1>2, OwnAnswer, NoAnswer DEF Cache!cacheVars
<1>3. CASE pc'[r] = "done" /\ result'[r] = Error
  <2>1. Cache!Answer(r, Cache!Failed)
    BY <1>3, OwnAnswer, OneAnswer
  <2>2. Cache!Fail
    BY <1>1, <2>1 DEF Cache!Fail
  <2> QED
    BY <2>2 DEF Cache!CacheNext
<1> QED
  BY <1>2, <1>3

\* A hit serves the pass that is kept under its key.
LEMMA HitServes ==
  ASSUME TypeOK, Shape, NEW r \in Runs, Lookup(r), args[r].cache, Cached(KeyOf(r)), args[r] # None
  PROVE  Cache!Serve
<1> DEFINE k == KeyOf(r)
<1>1. k \in Keys
  BY TypeParts, ArgsType DEF KeyOf, Keys, RunTypes, DiskTypes, Choices
<1>2. OneMoves(r) /\ UNCHANGED store /\ key'[r] = k /\ pc'[r] = "done"
      /\ result'[r] = [kind |-> "hit", ok |-> TRUE, named |-> store[k].named, by |-> store[k].by, served |-> out[k.host][k.pds].sbit]
  <2>1. OneMoves(r)
    BY StepMovesOne DEF Step
  <2> QED
    BY <2>1, TypeParts DEF Lookup, disk, RunTypes, Shape, Goto, Answer
<1>3. KeptAt(k) = {store[k].by}
  BY DEF KeptAt, Cached
<1> HIDE DEF k
<1>4. AnswerOf(r)' = Cache!Pass(store[k].by, {k})
  BY <1>2 DEF AnswerOf, Cache!Pass
<1>5. Cache!Answer(r, Cache!Pass(store[k].by, {k}))
  BY <1>2, <1>4, OwnAnswer, OneAnswer
<1>6. UNCHANGED [l \in Keys |-> KeptAt(l)]
  BY <1>2, NoneKept DEF SameKept, KeptAt
<1>7. k \in DOMAIN [l \in Keys |-> KeptAt(l)] /\ store[k].by \in [l \in Keys |-> KeptAt(l)][k]
  BY <1>1, <1>3
<1> QED
  BY <1>5, <1>6, <1>7 DEF Cache!Serve

\* A run that is judged has its old summary torn.
LEMMA AnalyseForgets ==
  ASSUME TypeOK, Shape, KeyInv, NEW r \in Runs, Analyse(r)
  PROVE  Cache!Forget
<1>1. PICK k \in Keys : k = key[r]
  BY TypeParts DEF Analyse, KeyInv, Asked
<1>2. pc'[r] = "writing" /\ OneMoves(r) /\ store' = [store EXCEPT ![k] = Torn]
  <2>1. OneMoves(r)
    BY StepMovesOne DEF Step
  <2> QED
    BY <1>1, <2>1, TypeParts DEF Analyse, Goto, RunTypes
<1>3. store'[k] = Torn /\ \A l \in Keys \ {k} : store'[l] = store[l]
  BY <1>1, <1>2 DEF Shape
<1>4. SameKept(Keys \ {k}) /\ KeptAt(k)' = {}
  BY <1>3 DEF SameKept, KeptAt, Torn
<1>5. Cache!Without(k)
  BY <1>4, OneForgotten
<1>6. UNCHANGED [q \in Runs |-> AnswerOf(q)]
  BY <1>2, OwnAnswer, NoAnswer
<1> QED
  BY <1>5, <1>6 DEF Cache!Forget

\* A summary that is complete keeps the run's pass, or tells of none.
LEMMA PublishKeeps ==
  ASSUME TypeOK, Shape, KeyInv, ResultInv, NEW r \in Runs, Publish(r)
  PROVE  Cache!Work \/ Cache!Fail
<1>1. PICK k \in Keys : k = key[r]
  BY TypeParts DEF Publish, KeyInv, Asked
<1>2. result[r].kind = "built" /\ result[r].by = r /\ result[r].ok \in BOOLEAN /\ pc[r] = "writing"
  BY TypeParts DEF Publish, ResultInv, ResultTypes, NoResult, Error
<1> DEFINE kept == [kind |-> "summary", ok |-> result[r].ok, named |-> result[r].named, by |-> r, of |-> result[r].served]
<1>3. pc'[r] = "done" /\ UNCHANGED <<result, key>> /\ OneMoves(r) /\ store' = [store EXCEPT ![k] = kept]
  <2>1. OneMoves(r)
    BY StepMovesOne DEF Step
  <2> QED
    BY <1>1, <2>1, TypeParts DEF Publish, Goto, RunTypes
<1>4. /\ store'[k].kind = "summary" /\ store'[k].ok = result[r].ok /\ store'[k].by = r
      /\ \A l \in Keys \ {k} : store'[l] = store[l]
  BY <1>3 DEF Shape
<1>5. SameKept(Keys \ {k})
  BY <1>4 DEF SameKept, KeptAt
<1>6. CASE result[r].ok
  <2>1. AnswerOf(r)' = Cache!Pass(r, {k})
    BY <1>1, <1>2, <1>3, <1>6 DEF AnswerOf, Cache!Pass
  <2>2. Cache!Answer(r, Cache!Pass(r, {k}))
    BY <1>3, <2>1, OwnAnswer, OneAnswer
  <2>3. KeptAt(k)' = {r}
    BY <1>4, <1>6 DEF KeptAt
  <2>4. [l \in Keys |-> KeptAt(l)]' = [l \in Keys |-> IF l \in {k} THEN {r} ELSE KeptAt(l)]
    BY <1>5, <2>3 DEF SameKept
  <2>5. [l \in Keys |-> KeptAt(l)]'
          = [l \in DOMAIN [m \in Keys |-> KeptAt(m)] |-> IF l \in {k} THEN {r} ELSE [m \in Keys |-> KeptAt(m)][l]]
    BY <2>4
  <2>6. {k} \in {{}} \union {{l} : l \in DOMAIN [m \in Keys |-> KeptAt(m)]}
    OBVIOUS
  <2>7. Cache!Work
    BY <2>2, <2>5, <2>6 DEF Cache!Work
  <2> QED
    BY <2>7
<1>7. CASE ~result[r].ok
  <2>1. AnswerOf(r)' = Cache!Failed
    BY <1>2, <1>3, <1>7 DEF AnswerOf, Cache!Failed
  <2>2. Cache!Answer(r, Cache!Failed)
    BY <1>3, <2>1, OwnAnswer, OneAnswer
  <2>3. KeptAt(k)' = {}
    BY <1>4, <1>7 DEF KeptAt
  <2>4. Cache!Without(k)
    BY <1>5, <2>3, OneForgotten
  <2>5. k \in DOMAIN [m \in Keys |-> KeptAt(m)]
    OBVIOUS
  <2>6. Cache!Fail
    BY <2>2, <2>4, <2>5 DEF Cache!Fail
  <2> QED
    BY <2>6
<1> QED
  BY <1>2, <1>6, <1>7

LEMMA StepCache ==
  ASSUME TypeOK, Shape, KeyInv, ResultInv, NEW r \in Runs, Step(r)
  PROVE  [Cache!CacheNext]_(Cache!cacheVars)
<1> USE TypeParts DEF RunTypes, Shape, Goto, Answer
<1>0. OneMoves(r) /\ args[r] # None
  BY StepMovesOne DEF OneMoves, KeyInv
<1>1. CASE Refuse(r) \/ MoveAsideFails(r)
  BY <1>0, <1>1, Unkept DEF Refuse, MoveAsideFails, disk
<1>2. CASE Lookup(r)
  <2>1. CASE args[r].cache /\ Cached(KeyOf(r))
    BY <1>0, <1>2, <2>1, HitServes DEF Cache!CacheNext
  <2>2. CASE ~(args[r].cache /\ Cached(KeyOf(r)))
    <3>1. pc'[r] = "launch" /\ store' = store
      BY <1>2, <2>2 DEF Lookup, disk
    <3> QED
      BY <1>0, <3>1, Unkept
  <2> QED
    BY <2>1, <2>2
<1>3. CASE LaunchLocal(r) \/ LaunchRemote(r) \/ Compile(r)
  <2>1. store' = store /\ (pc'[r] # "done" \/ (pc'[r] = "done" /\ result'[r] = Error))
    BY <1>3 DEF LaunchLocal, LaunchRemote, Compile, disk
  <2> QED
    BY <1>0, <2>1, Unkept
<1>4. CASE Exit(r) \/ ClearMirror(r) \/ Pull(r)
  <2>1. store' = store /\ (pc'[r] # "done" \/ (pc'[r] = "done" /\ result'[r] = Error))
    BY <1>4 DEF Exit, ClearMirror, Pull
  <2> QED
    BY <1>0, <2>1, Unkept
<1>5. CASE Analyse(r)
  BY <1>5, AnalyseForgets DEF Cache!CacheNext
<1>6. CASE Publish(r)
  BY <1>6, PublishKeeps DEF Cache!CacheNext
<1> QED
  BY <1>1, <1>2, <1>3, <1>4, <1>5, <1>6 DEF Step

LEMMA NextCache == BuildInv /\ [Next]_vars => [Cache!CacheNext]_(Cache!cacheVars)
<1> SUFFICES ASSUME TypeOK, Shape, KeyInv, ResultInv, [Next]_vars
             PROVE  [Cache!CacheNext]_(Cache!cacheVars)
  BY DEF BuildInv
<1>1. ASSUME NEW r \in Runs, Step(r) PROVE [Cache!CacheNext]_(Cache!cacheVars)
  BY <1>1, StepCache
<1>2. CASE UNCHANGED <<store, pc, key, result>>
  <2>1. SameAnswers(Runs) /\ SameKept(Keys)
    BY <1>2 DEF SameAnswers, SameKept, AnswerOf, KeptAt
  <2> QED
    BY <2>1, NoAnswer, NoneKept DEF Cache!cacheVars
<1>3. CASE Edit \/ UNCHANGED vars \/ \E r \in Runs : Crash(r)
  BY <1>2, <1>3 DEF Edit, vars, Crash, disk
<1> QED
  BY <1>1, <1>3 DEF Next, Idle

LEMMA InitCache == Init => Cache!CacheInit
<1> SUFFICES ASSUME Init PROVE Cache!CacheInit
  OBVIOUS
<1>1. \A r \in Runs : AnswerOf(r) = Cache!Open
  BY DEF Init, AnswerOf, NoResult, Cache!Open
<1>2. \A k \in Keys : KeptAt(k) = {}
  BY DEF Init, KeptAt, Absent
<1>3. [r \in Runs |-> AnswerOf(r)] = [r \in Runs |-> Cache!Open]
  BY <1>1
<1>4. [k \in Keys |-> KeptAt(k)] = [k \in DOMAIN [l \in Keys |-> KeptAt(l)] |-> {}]
  BY <1>2
<1> QED
  BY <1>3, <1>4 DEF Cache!CacheInit

\* Builds implement the contract of the run cache (ImplementsCache): for every
\* number of calls, hosts and versions, edits, crashes and failures, a build that
\* is answered from the store is answered with the latest pass under its key.
THEOREM BuildsImplementCache == Spec => ImplementsCache
BY BuildInvariant, InitCache, NextCache, PTL DEF Spec, ImplementsCache, Cache!CacheSpec
=============================================================================
