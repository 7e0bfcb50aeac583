---------------------------- MODULE MCPdsBatch ----------------------------
(* Small batches for TLC: up to five variants over a tree of four directories. *)
EXTENDS PdsBatch

Variant(id, dir) ==
  [id |-> id, pds |-> Append(dir, id), dir |-> dir,
   wellFormed |-> TRUE, localOutputs |-> TRUE]

Trees == {<<"w", "a">>, <<"w", "b">>, <<"w", "a", "sub">>, <<"x">>}

\* Every batch of up to three clones, one of four, one of five (too many).
Batches ==
  LET Sized(n) == {[i \in 1..n |-> Variant(i, d[i])] : d \in [1..n -> Trees]}
  IN  Sized(1) \union Sized(2) \union Sized(3)
      \union {[i \in 1..n |-> Variant(i, <<"w", i>>)] : n \in 4..5}
      \union {<<>>, <<Variant(1, <<"x">>), Variant(1, <<"w">>)>>,
              <<[Variant(1, <<"x">>) EXCEPT !.localOutputs = FALSE]>>}

\* Two clones of which one sits in a directory named ..b inside the other.
DottedBatches == {<<Variant(1, <<"w">>), Variant(2, <<"w", d>>)>> : d \in {"..b", "b"}}

Nested == {"..b"}
=============================================================================
