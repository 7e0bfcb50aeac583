---------------------------- MODULE MCPdsBuild ----------------------------
(* Instances of PdsBuild for TLC. *)
EXTENDS PdsBuild

CONSTANTS r1, r2, r3, p1, p2

Call(place, release, what, backup, cache) ==
  [host |-> place, pds |-> release, target |-> what, backup |-> backup, cache |-> cache]

\* Local builds: the default call, one that keeps the old build directories,
\* one that ignores the cache, and one that makes no bitstream.
DefaultCall == Call(Local, p1, "gen_bit_stream", TRUE, TRUE)
KeepingCall == Call(Local, p1, "gen_bit_stream", FALSE, TRUE)
LocalCalls ==
  {DefaultCall, KeepingCall,
   Call(Local, p1, "gen_bit_stream", TRUE, FALSE), Call(Local, p1, "compile", FALSE, TRUE)}

\* Remote builds, and all of them.
RemoteCalls == {Call(h, p1, t, TRUE, TRUE) : h \in Hosts, t \in Targets}
AnyCalls == LocalCalls \union RemoteCalls

Scenario(a1, a2, a3, changes, deaths) ==
  [args |-> [r \in Runs |-> CASE r = r1 -> a1 [] r = r2 -> a2 [] r = r3 -> a3],
   edits |-> changes, crashes |-> deaths]

\* Three default builds while the inputs are edited back and forth ...
Edited == {Scenario(DefaultCall, DefaultCall, DefaultCall, 2, 0)}
\* ... or a default build and one of any kind, or two on a host, with an edit and
\* a crash: which run makes which of the two calls tells nothing apart.
Mixed ==
  {LET a == CHOOSE c \in pair : TRUE
       b == CHOOSE c \in pair : pair = {a, c}
   IN  Scenario(a, b, None, 1, 1) :
     pair \in {{DefaultCall, c} : c \in AnyCalls}
              \union {{c, d} : c \in RemoteCalls, d \in RemoteCalls}}

\* ... or a local build after one by another release of PDS.
Switched ==
  {Scenario(Call(Local, p2, "gen_bit_stream", TRUE, TRUE), a, None, 1, 0) :
     a \in {DefaultCall, KeepingCall}}

AllScenarios == Edited \union Mixed \union Switched

OneRun == {Scenario(a, None, None, 0, 0) : a \in AnyCalls}

\* The runs of the edited scenario are alike, so they may begin in a fixed
\* order; the third begins when the others have stopped.
Turn(r) ==
  (\A q \in Runs : args[q] = DefaultCall) =>
    /\ r # r1 => pc[r1] # "start"
    /\ r = r3 => pc[r2] # "start" /\ Stopped(r1) /\ Stopped(r2)

MCNext ==
  \/ Edit \/ Idle
  \/ \E r \in Runs : (pc[r] = "start" => Turn(r)) /\ Step(r)
  \/ \E r \in Runs : Crash(r)

MCSpec == Init /\ [][MCNext]_vars /\ WF_vars(\E r \in Runs : Step(r))
=============================================================================
