---------------------------- MODULE MCSimulation ----------------------------
(* Instances of Simulation for TLC. *)
EXTENDS Simulation

CONSTANTS c1, c2, c3, good, wrong, bad, counts, broken, list1, list2

\* wrong differs from good in a file that is included and not listed: its test
\* bench passes, but what it dumps is not what is asserted.  counts fails by its
\* UVM report alone.
Lists == [v \in Versions |-> IF v \in {good, wrong} THEN list1 ELSE list2]
Results == [v \in Versions |-> CASE v = broken -> "broken" [] v = bad -> "fails" [] v = counts -> "counts"
                                 [] OTHER -> "passes"]
Traces == [v \in Versions |->
  [done |-> IF v = wrong THEN << <<"0">>, <<"0">>, <<"0">> >> ELSE << <<"0">>, <<"0">>, <<"1">> >>,
   q |-> IF v = good THEN << <<"x", "x">>, <<"0", "1">>, <<"1", "0">> >>
         ELSE << <<"0", "0">>, <<"0", "1">>, <<"0", "1">> >>]]

\* What is proved about changes in order applies to these traces.
ASSUME TracesInOrder ==
  \A v \in Versions, s \in Signals, b \in BOOLEAN :
    LET parsed == Parsed(Trace[v][s], b) IN
    \A changes \in {parsed[i] : i \in DOMAIN parsed} \union {Track(parsed, FALSE)} :
      InOrder(changes) /\ \A i \in DOMAIN changes : changes[i].time <= Len(Trace[v][s]) - 1

\* Assertions, about values written in different ways; an unknown value is
\* written in full by those who ask for it.
Written(form, bits) == [form |-> form, bits |-> bits]
Ends1 == [type |-> "vcd_final_eq", signal |-> "done", value |-> Written("number", <<"1">>), time |-> 0]
Rises == [type |-> "vcd_at_eq", signal |-> "q", value |-> Written("bits", <<"0", "1">>), time |-> 1]
Never2 == [type |-> "vcd_never_eq", signal |-> "q", value |-> Written("number", <<"1", "0">>), time |-> 0]
Never10 == [Never2 EXCEPT !.value = Written("decimal", <<"1", "0">>)]
NeverHex == [Never2 EXCEPT !.value = Written("hex", <<"1">>)]
NeverText == [Never2 EXCEPT !.value = Written("text", <<"1">>)]
Unknown == [type |-> "vcd_at_eq", signal |-> "q", value |-> Written("bits", <<"x", "x">>), time |-> 0]

Ask(tool, remote, vcd, uvm, draw, assert) ==
  [tool |-> tool, remote |-> remote, vcd |-> vcd, uvm |-> uvm, draw |-> draw, assert |-> assert]
Sim(a) == Ask("sim", FALSE, "own", FALSE, "no", a)
SimTo == Ask("sim", FALSE, "named", FALSE, "no", None)
UvmSim == Ask("sim", FALSE, "no", TRUE, "no", None)
DrawnSim(draw) == Ask("sim", FALSE, "own", FALSE, draw, None)
RemoteSim(a) == Ask("sim", TRUE, "own", TRUE, "all", a)
Plain(tool) == Ask(tool, FALSE, "no", FALSE, "no", None)
Remotely(tool) == Ask(tool, TRUE, "no", FALSE, "no", None)
Icarus(draw) == Ask("icarus", FALSE, "own", FALSE, draw, None)
Judged(a) == Ask("assert", FALSE, "no", FALSE, "no", a)
DrawnLater(draw) == Ask("wave", FALSE, "no", FALSE, draw, None)

Scenario(a, b, c, order, changes, failures) ==
  [call |-> [k \in Calls |-> CASE k = c1 -> a [] k = c2 -> b [] k = c3 -> c],
   after |-> [k \in Calls |-> {d \in Calls : <<d, k>> \in order}],
   edits |-> changes, faults |-> failures]

\* Which calls wait for which.
Together == {}
Last == {<<c1, c3>>, <<c2, c3>>}
InTurn == Last \union {<<c1, c2>>}

\* A call repeated while the sources are edited and edited back.
Repeated ==
  {Scenario(Sim(None), Sim(None), Sim(None), InTurn, 2, 0),
   Scenario(DrawnSim("all"), SimTo, DrawnSim("all"), InTurn, 1, 0),
   Scenario(SimTo, Sim(None), DrawnLater("filtered"), InTurn, 1, 0)}

\* Calls that differ in their assertions only, and the bus bit by bit.
Asserted ==
  {Scenario(Sim(None), Sim(Ends1), Sim(Ends1), InTurn, 1, 0),
   Scenario(Sim(Rises), Sim(Never2), Judged(Unknown), InTurn, 0, 0),
   Scenario(Icarus("all"), Judged(Rises), Judged(Ends1), InTurn, 1, 0),
   Scenario(Icarus("filtered"), Judged(Never2), Judged(Unknown), InTurn, 1, 0),
   Scenario(Icarus("no"), Judged(Never10), Judged(NeverText), InTurn, 0, 0),
   Scenario(Icarus("no"), Judged(NeverHex), DrawnLater("filtered"), InTurn, 0, 0)}

\* A bench whose UVM report is counted by one call, and not by the others.
Counted ==
  {Scenario(UvmSim, Plain("do"), Sim(None), InTurn, 1, 0),
   Scenario(UvmSim, UvmSim, UvmSim, InTurn, 1, 0)}

\* Calls that meet in the files of one directory, and one after them.
Concurrent ==
  {Scenario(Sim(Ends1), SimTo, None, Together, 1, 0),
   Scenario(Icarus("all"), Icarus("filtered"), Judged(Rises), Last, 1, 0),
   Scenario(Plain("compile"), Sim(None), Plain("compile"), Last, 0, 0),
   Scenario(Plain("compile"), Plain("do"), Plain("do"), {<<c1, c2>>, <<c1, c3>>}, 1, 0)}

\* A simulation whose VCD is drawn, viewed and looked into meanwhile.
Shown ==
  {Scenario(Sim(None), DrawnLater("all"), Plain("view"), Together, 1, 0),
   Scenario(DrawnSim("filtered"), Plain("exe"), DrawnLater("filtered"), Together, 0, 0)}

\* The same on a host, where each call has a directory of its own.
OnHost ==
  {Scenario(RemoteSim(Ends1), RemoteSim(Ends1), None, Together, 1, 1),
   Scenario(RemoteSim(None), RemoteSim(None), None, InTurn, 1, 1),
   Scenario(Remotely("compile"), Remotely("compile"), Remotely("do"), {<<c1, c2>>}, 1, 1)}

SomeScenarios == Repeated \union Asserted \union Counted \union Concurrent \union Shown \union OnHost
=============================================================================
