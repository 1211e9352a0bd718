-------------------------------- MODULE MCDpc --------------------------------
(* Model-checking instances of Dpc.                                        *)
EXTENDS Dpc, TLC

\* Threads that are neither bootstrap nor dpc have no role of their own.
ThreadSymmetry == Permutations(Thread \ {Boot, DpcThread})
=============================================================================
