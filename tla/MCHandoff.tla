----------------------------- MODULE MCHandoff -----------------------------
(* Instances of the job hand-off for TLC.                                  *)
EXTENDS Handoff, TLC

Sym == Permutations(Callers) \cup Permutations(Threads)
=============================================================================
