-------------------------- MODULE MCLLMInference --------------------------
(***************************************************************************)
(* Small engines for TLC.                                                  *)
(***************************************************************************)
EXTENDS LLMInference

TwoSizes == {1, 3}
LongSize == {3}    \* cut to MaxMessage; replies are shorter
Known == {"known"}
AnyTemplate == {"known", "unknown", "missing"}
Stored == {TRUE}
Either == BOOLEAN
===========================================================================
