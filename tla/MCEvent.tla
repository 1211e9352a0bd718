------------------------------- MODULE MCEvent -------------------------------
(* Model-checking instances of Event.                                      *)
EXTENDS Event, TLC

\* Threads other than the bootstrap thread have no role of their own.
ThreadSymmetry == Permutations(Thread \ {Boot})
=============================================================================
