------------------------------- MODULE MCMutex -------------------------------
(* Model-checking instances of Mutex.                                      *)
EXTENDS Mutex, TLC

\* Threads other than the bootstrap thread have no role of their own.
ThreadSymmetry == Permutations(Thread \ {Boot})
=============================================================================
