------------------------- MODULE MCThreadPoolFaults -------------------------
(* ThreadPoolFaults for model checking, with the mapping to JobService.    *)
EXTENDS ThreadPoolFaults, ThreadPoolService, TLC

\* The application threads may be exchanged for one another.
CallersAlike == Permutations(Callers)
=============================================================================
