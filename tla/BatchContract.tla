--------------------------- MODULE BatchContract ---------------------------
(***************************************************************************)
(* What fpga_pds_batch promises its caller, without workers or a cursor:   *)
(* each variant is started at most once, at most limit of them are being   *)
(* built at a time, and the batch answers only when every variant has an   *)
(* outcome of its own, naming as failed exactly those that did not pass.   *)
(***************************************************************************)
EXTENDS Integers, FiniteSets

VARIABLES
  variants,   (* the variants of the batch, fixed by the call            *)
  limit,      (* how many may be built at a time, fixed by the call      *)
  status,     (* [variants -> "pending" | "running" | "ok" | "fail"]     *)
  answer      (* whether the batch has answered, and the variants its
                 answer calls failed                                     *)

contractVars == <<variants, limit, status, answer>>

Running == {v \in variants : status[v] = "running"}
Pending == {v \in variants : status[v] = "pending"}

ContractInit ==
  /\ status = [v \in variants |-> "pending"]
  /\ answer = [given |-> FALSE, failed |-> {}]

\* The first builds start together.
Open ==
  /\ \E S \in SUBSET variants :
       /\ S # {}
       /\ Cardinality(S) <= limit
       /\ Pending = variants
       /\ status' = [v \in variants |-> IF v \in S THEN "running" ELSE "pending"]
  /\ UNCHANGED <<variants, limit, answer>>

\* A build settles; the place it leaves goes to at most one pending variant.
Settle ==
  /\ \E v \in Running, o \in {"ok", "fail"}, S \in {{}} \union {{u} : u \in Pending} :
       /\ status' = [u \in variants |-> IF u = v THEN o
                                        ELSE IF u \in S THEN "running"
                                        ELSE status[u]]
  /\ UNCHANGED <<variants, limit, answer>>

Answer ==
  /\ ~answer.given
  /\ \A v \in variants : status[v] \in {"ok", "fail"}
  /\ answer' = [given |-> TRUE, failed |-> {v \in variants : status[v] = "fail"}]
  /\ UNCHANGED <<variants, limit, status>>

ContractNext == Open \/ Settle \/ Answer

ContractSpec == ContractInit /\ [][ContractNext]_contractVars
=============================================================================
