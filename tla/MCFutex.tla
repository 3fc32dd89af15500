------------------------------ MODULE MCFutex ------------------------------
(* Two words that hash to the same bucket. *)
EXTENDS Futex, TLC

OneBucket == [a \in Futexes |-> 0]

ThreadSymmetry == Permutations(Threads \ {BootThread})
============================================================================
