----------------------------- MODULE MCKVCache ------------------------------
(***************************************************************************)
(* KVCache for TLC: tokens of one sequence or of two, ranges that take     *)
(* everything, the head or the tail of a sequence or one position.         *)
(***************************************************************************)
EXTENDS KVCache

Apart == {[tok |-> "x", seqs |-> <<0>>], [tok |-> "y", seqs |-> <<1>>]}
Shared == {[tok |-> "x", seqs |-> <<0, 1>>]}
Single == {[tok |-> "x", seqs |-> <<0>>]}
Spans == {<<0, 1>>, <<1, -1>>}
Whole == {<<0, -1>>}
Steps == {-1}
=============================================================================
