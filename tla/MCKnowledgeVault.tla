------------------------- MODULE MCKnowledgeVault -------------------------
(* Instances of KnowledgeVault for TLC. *)
EXTENDS KnowledgeVault

Curated(tier, status, recall, valid) ==
  [tier |-> tier, status |-> status, recall |-> recall, valid |-> valid]

\* A promotion, a recall in either of its two fields, and a slip of the hand.
SomeDecisions ==
  {Curated("golden", "active", "active", TRUE), Curated("candidate", "active", "recalled", TRUE),
   Curated("trusted", "recalled", "active", TRUE), Curated("candidate", "active", "active", FALSE)}

\* Both servers traced into one file, which a scan takes or passes over, or
\* one of them into its own.
SomeModes ==
  {[traced |-> Servers, shared |-> TRUE, taken |-> taken] : taken \in BOOLEAN} \union
  {[traced |-> {CHOOSE s \in Servers : TRUE}, shared |-> FALSE, taken |-> TRUE]}
=============================================================================
