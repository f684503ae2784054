---------------------------- MODULE MCCourierJobs ----------------------------
(* Instances of CourierJobs for TLC: the processes are model values.         *)
EXTENDS CourierJobs, TLC

CONSTANTS b1, b2, e1, e2

\* Backends are interchangeable; declared only where no liveness is checked.
\* Executors are not: Target and Mortal tell them apart.
BackendSymmetry == Permutations(Backends)
=============================================================================
