--------------------------- MODULE MCOrphanReaper ---------------------------
(* Instances of OrphanReaper for TLC: an audit, a cleanup of everything, and a
   cleanup with a minimum age. *)
EXTENDS OrphanReaper

ThreeAsks ==
  {[confirm |-> FALSE, pids |-> Pids, minAge |-> 0],
   [confirm |-> TRUE, pids |-> Pids, minAge |-> 0],
   [confirm |-> TRUE, pids |-> Pids \ {Boss}, minAge |-> 2]}
=============================================================================
