------------------------------ MODULE MCSched ------------------------------
(* Model checking instances of Sched. *)
EXTENDS Sched

\* Threads other than the one that boots are interchangeable.
ThreadSymmetry == Permutations(Threads \ {BootThread})
=============================================================================
