---------------------------- MODULE MCPlainMutex ----------------------------
(* One or two locks in one bucket. *)
EXTENDS PlainMutex, TLC

OneBucket == [a \in Futexes |-> 0]

ThreadSymmetry == Permutations(Threads \ {BootThread})
=============================================================================
