----------------------------- MODULE PlainMutex -----------------------------
(***************************************************************************)
(* pthread_plainmutex on the priority-inheritance futex: a thread takes a  *)
(* free lock, and frees one nobody waits for, with a load-locked and a     *)
(* store-conditional of its own; anything else is a trap.  Other threads,  *)
(* on other hardware threads or after a preemption, run between the load   *)
(* that fails and the trap.                                                *)
(*                                                                         *)
(* A trap that returns -1 is tried again from the start, which is no step. *)
(***************************************************************************)
EXTENDS Futex

VARIABLES
  held,   \* the locks each thread holds: its lock call has returned
  trap    \* the kernel call each thread is about to make

mutexVars == <<vars, held, trap>>

NoTrap == [op |-> "none", l |-> NoFutex]
Traps  == {NoTrap} \cup [op : {"lock", "unlock"}, l : Locks]

MutexInit ==
  /\ Init
  /\ FutexInit
  /\ held = [t \in Threads |-> {}]
  /\ trap = [t \in Threads |-> NoTrap]

-----------------------------------------------------------------------------
\* A thread runs user code on h and is not on its way into the kernel.
InUser(h) == pc[h] = "user" /\ trap[sgp0[h]] = NoTrap

SetLock(l, v) ==
  lock' = [lock EXCEPT ![l] = v] /\ UNCHANGED <<schedVars, futexhash, futex_ptr, base_prio, word>>

\* pthread_plainmutex_lock and trylock: the lock is 0.
LockFast(h, l) ==
  /\ InUser(h)
  /\ l \notin held[sgp0[h]]
  /\ lock[l] = Free
  /\ SetLock(l, [owner |-> sgp0[h], waiters |-> FALSE])
  /\ held' = [held EXCEPT ![sgp0[h]] = @ \cup {l}]
  /\ UNCHANGED trap

\* pthread_plainmutex_lock: the lock is not 0.
LockSlow(h, l) ==
  /\ InUser(h)
  /\ l \notin held[sgp0[h]]
  /\ lock[l] # Free
  /\ trap' = [trap EXCEPT ![sgp0[h]] = [op |-> "lock", l |-> l]]
  /\ UNCHANGED <<vars, held>>

\* Its trap finds the lock free, or blocks until the lock is handed over.
LockTrap(h, l) ==
  /\ pc[h] = "user"
  /\ trap[sgp0[h]] = [op |-> "lock", l |-> l]
  /\ trap' = [trap EXCEPT ![sgp0[h]] = NoTrap]
  /\ \/ /\ FutexLockPiFree(h, l)
        /\ held' = [held EXCEPT ![sgp0[h]] = @ \cup {l}]
     \/ FutexLockPiHeld(h, l) /\ UNCHANGED held

\* Mutant of UnlockFast: the waiters bit is not compared.
UnlockFast_any(h, l) ==
  /\ InUser(h)
  /\ l \in held[sgp0[h]]
  /\ lock[l].owner = sgp0[h]
  /\ SetLock(l, Free)
  /\ held' = [held EXCEPT ![sgp0[h]] = @ \ {l}]
  /\ UNCHANGED trap

\* pthread_plainmutex_unlock: the lock is exactly the thread's id.
UnlockFast(h, l) ==
  /\ InUser(h)
  /\ l \in held[sgp0[h]]
  /\ lock[l] = [owner |-> sgp0[h], waiters |-> FALSE]
  /\ SetLock(l, Free)
  /\ held' = [held EXCEPT ![sgp0[h]] = @ \ {l}]
  /\ UNCHANGED trap

\* pthread_plainmutex_unlock: the lock is something else.
UnlockSlow(h, l) ==
  /\ InUser(h)
  /\ l \in held[sgp0[h]]
  /\ lock[l] # [owner |-> sgp0[h], waiters |-> FALSE]
  /\ trap' = [trap EXCEPT ![sgp0[h]] = [op |-> "unlock", l |-> l]]
  /\ held' = [held EXCEPT ![sgp0[h]] = @ \ {l}]
  /\ UNCHANGED vars

\* Its trap; the lock call of the thread it wakes returns 0.
UnlockTrap(h, l) ==
  /\ pc[h] = "user"
  /\ trap[sgp0[h]] = [op |-> "unlock", l |-> l]
  /\ FutexUnlockPi(h, l)
  /\ trap' = [trap EXCEPT ![sgp0[h]] = NoTrap]
  /\ held' = [t \in Threads |-> IF t \in Woken THEN held[t] \cup {l} ELSE held[t]]

\* Threads stop without locks.
StopUnlocked(h) ==
  /\ InUser(h)
  /\ held[sgp0[h]] = {}
  /\ Stop(h)
  /\ UNCHANGED <<held, trap>>

\* The steps that the mutex code does not take part in.
OtherStep(h) ==
  /\ \/ SchedStep(h)
     \/ InUser(h) /\ SchedYield(h)
     \/ InUser(h) /\ \E t \in Threads, p \in Prios : Create(h, t, p)
     \/ InUser(h) /\ \E p \in NewPrios : PrioSet(h, p)
  /\ UNCHANGED <<held, trap>>

MutexStep(h, l) ==
  \/ LockFast(h, l)
  \/ LockSlow(h, l)
  \/ LockTrap(h, l)
  \/ UnlockFast(h, l)
  \/ UnlockSlow(h, l)
  \/ UnlockTrap(h, l)

MutexNext ==
  \E h \in HThreads : OtherStep(h) \/ StopUnlocked(h) \/ \E l \in Locks : MutexStep(h, l)

MutexSpec == MutexInit /\ [][MutexNext]_mutexVars

\* As for the scheduler; user code owes nothing.
FairMutexSpec == MutexSpec /\ Fairness

-----------------------------------------------------------------------------
(* Properties *)

\* No two threads hold the same lock: a thread whose lock call has returned is
\* the owner in the lock word, whoever wrote it, kernel or user code.
MutualExclusion == \A t \in Threads : \A l \in held[t] : lock[l].owner = t

\* No unlock misses a waiter: while a thread waits for a lock the lock has
\* another owner and its waiters bit set, so that the owner's unlock cannot
\* take the fast path (the bit is set under the BKL before the thread blocks,
\* and stays set over a hand-over).
WaitersSeen ==
  \A l \in Locks : \A t \in Waiting(l) :
    lock[l].waiters /\ lock[l].owner \notin {NoThread, t}

\* Priority inheritance: the owner of a lock is at least as good as every
\* thread that waits for it (threads that hold one lock at a time).
Inherited == \A l \in Locks : \A t \in Waiting(l) : kg.prio[lock[l].owner] <= kg.prio[t]

\* A boost ends with the lock it was for: a thread that owns no lock is back
\* at its base priority.
BoostEnds ==
  \A t \in Threads : (\A l \in Locks : lock[l].owner # t) => kg.prio[t] = base_prio[t]

=============================================================================
