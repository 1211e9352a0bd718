------------------------------ MODULE MCThread ------------------------------
(* Model-checking instances of Thread.                                     *)
EXTENDS Thread, TLC

\* Threads other than the bootstrap thread have no role of their own.
ThreadSymmetry == Permutations(Thread \ {Boot})
=============================================================================
