---------------------------- MODULE MCModelStore -----------------------------
(* ModelStore for TLC: two imports at a time, of two names, a few rows. *)
EXTENDS ModelStore, TLC

Sym == Permutations(Jobs) \cup Permutations(Names)
=============================================================================
