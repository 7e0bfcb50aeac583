---------------------------- MODULE MCGuiSession ----------------------------
(* Instances of GuiSession for TLC. *)
EXTENDS GuiSession

A == CHOOSE c \in Calls : TRUE
Scenario(ka, kb, remote, ready, id, n) ==
  [kind |-> [c \in Calls |-> IF c = A THEN ka ELSE kb],
   remote |-> remote, up |-> ready, cable |-> ready, board |-> id, faults |-> n]

\* One remote call by itself, two local ones beside each other, of the kinds
\* whose meeting matters, and a board that is not the expected one.
SomeScenarios ==
  {Scenario(k, "none", TRUE, k # "open", "expected", 1) : k \in {"tcl", "capture", "open"}} \union
  {Scenario("tcl", k, FALSE, TRUE, "expected", 1) : k \in {"tcl", "write"}} \union
  {Scenario("write", "none", FALSE, TRUE, "other", 0), Scenario("tcl", "open", FALSE, FALSE, "expected", 0)}
=============================================================================
