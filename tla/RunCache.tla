------------------------------ MODULE RunCache ------------------------------
(***************************************************************************)
(* What the run store (core/runstore.mjs) promises its tools, the PDS      *)
(* builds and the ModelSim calls, whatever their runs share and meet: a    *)
(* call answers once, either with what came of its own run or with the     *)
(* latest pass that is kept under its key, and nothing but a pass is ever  *)
(* served.                                                                 *)
(***************************************************************************)

CONSTANT Calls

VARIABLES
  answer,   (* answer[c]: open, failed, or the pass that c reports: whose *)
            (* it is, and the keys, one or none, under which it is kept    *)
  kept      (* kept[k]: the call, if any, whose pass can be read under k   *)

cacheVars == <<answer, kept>>

Open == [kind |-> "open"]
Failed == [kind |-> "failed"]
Pass(b, keys) == [kind |-> "pass", by |-> b, keys |-> keys]

CacheInit ==
  /\ answer = [c \in Calls |-> Open]
  /\ kept = [k \in DOMAIN kept |-> {}]

Answer(c, a) == answer[c] = Open /\ answer' = [answer EXCEPT ![c] = a]

\* A summary is written over by one that is torn, or that did not pass.
Without(k) == kept' = [kept EXCEPT ![k] = {}]

Forget == \E k \in DOMAIN kept : Without(k) /\ UNCHANGED answer

Fail == \E c \in Calls :
  /\ Answer(c, Failed)
  /\ UNCHANGED kept \/ \E k \in DOMAIN kept : Without(k)

\* The run of a call passes; a tool that has no cache keeps nothing.
Work == \E c \in Calls, keys \in {{}} \union {{k} : k \in DOMAIN kept} :
  /\ Answer(c, Pass(c, keys))
  /\ kept' = [k \in DOMAIN kept |-> IF k \in keys THEN {c} ELSE kept[k]]

\* A call finds a pass under its key.
Serve == \E c \in Calls, k \in DOMAIN kept : \E b \in kept[k] :
  /\ Answer(c, Pass(b, {k}))
  /\ UNCHANGED kept

CacheNext == Forget \/ Fail \/ Work \/ Serve

CacheSpec == CacheInit /\ [][CacheNext]_cacheVars
=============================================================================
