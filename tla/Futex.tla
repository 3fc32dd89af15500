------------------------------- MODULE Futex -------------------------------
(***************************************************************************)
(* Futexes: the classic wait and resume, and the priority-inheritance lock *)
(* and unlock, on top of the scheduler.  A thread that blocks leaves the   *)
(* runlist for the ring of the hash bucket of its futex and H2K_dosched    *)
(* runs another one; a thread that wakes others leaves the kernel through  *)
(* check_sanity.                                                           *)
(*                                                                         *)
(* A futex word is named by its physical address.  The words used with     *)
(* wait and resume hold values; those used as locks hold the id of their   *)
(* owner and, in bit 0, whether threads may be waiting.  A call that       *)
(* returns -1 because the word is not in the TLB changes nothing here.     *)
(* Nor does one that sees VMWORK: the H2K_vm_do_work it makes first        *)
(* belongs to the VM interrupts, which are not modelled.                   *)
(***************************************************************************)
EXTENDS Sched

CONSTANTS
  Words,         \* futex words used with wait and resume
  Vals,          \* the values they hold
  Locks,         \* futex words used as priority-inheritance locks
  NoFutex,       \* a thread context whose futex_ptr is clear
  FUTEX_HASHVAL, \* the hash bucket of each word
  WakeCounts,    \* the n_to_wake that threads ask for
  NewPrios       \* the priorities that threads give to prio_set

Futexes == Words \cup Locks
Buckets == {FUTEX_HASHVAL[a] : a \in Futexes}

ASSUME FutexConstants ==
  /\ Words \cap Locks = {}
  /\ NoFutex \notin Futexes
  /\ FUTEX_HASHVAL \in [Futexes -> Buckets]
  /\ WakeCounts \subseteq Nat
  /\ NewPrios \subseteq Prios

VARIABLES
  futexhash,  \* the ring of blocked threads of each bucket
  futex_ptr,  \* the futex each thread last blocked on
  base_prio,  \* the priority each thread has without inheritance
  word,       \* the words
  lock        \* the locks

futexVars == <<futexhash, futex_ptr, base_prio, word, lock>>
vars      == <<schedVars, futexVars>>

Free       == [owner |-> NoThread, waiters |-> FALSE]
LockValues == {Free} \cup [owner : Threads, waiters : BOOLEAN]

FutexInit ==
  /\ futexhash = [b \in Buckets |-> <<>>]
  /\ futex_ptr = [t \in Threads |-> NoFutex]
  /\ base_prio = [t \in Threads |-> IF t = BootThread THEN bestprio ELSE 0]
  /\ word \in [Words -> Vals]
  /\ lock = [l \in Locks |-> Free]

-----------------------------------------------------------------------------
(* futex_common *)

\* Mutant of hash_add_ring: a thread goes to the end.
hash_add_ring_last(ring, prio, t) == Append(ring, t)

\* Mutant of hash_add_ring: a thread goes before those of its own priority.
hash_add_ring_lifo(ring, prio, t) ==
  LET better == {i \in DOMAIN ring : prio[ring[i]] < prio[t]}
  IN  IF better = {} THEN <<t>> \o ring ELSE InsertAt(ring, Max(better) + 1, t)

\* Before the head if t is better than the head; else behind the last thread,
\* searching backwards, that t is not better than.
hash_add_ring(ring, prio, t) ==
  IF ring = <<>> \/ prio[t] < prio[Head(ring)] THEN <<t>> \o ring
  ELSE InsertAt(ring, 1 + Max({i \in DOMAIN ring : prio[t] >= prio[ring[i]]}), t)

\* The search of hash_remove_one: from pos to the end of the ring.
Matching(s, a) == {i \in s.pos .. Len(s.ring) : futex_ptr[s.ring[i]] = a}

\* Mutant of hash_remove_one: the threads that do not match are not skipped.
hash_remove_any(s, a) ==
  IF s.ring = <<>> THEN [s EXCEPT !.ret = NoThread]
  ELSE [k    |-> ready_append(s.k, s.ring[1]),
        ring |-> Tail(s.ring),
        pos  |-> 1,
        ret  |-> s.ring[1]]

\* Wake the first thread at or after pos that waits on a, and move pos to the
\* thread behind it, which is the head again if it was the last.
hash_remove_one(s, a) ==
  LET i == Min(Matching(s, a))
  IN  IF Matching(s, a) = {} THEN [s EXCEPT !.ret = NoThread]
      ELSE [k    |-> ready_append(s.k, s.ring[i]),
            ring |-> RemoveAt(s.ring, i),
            pos  |-> IF i = Len(s.ring) THEN 1 ELSE i,
            ret  |-> s.ring[i]]

AtHead(a) == [k |-> kg, ring |-> futexhash[FUTEX_HASHVAL[a]], pos |-> 1, ret |-> NoThread]

\* Mutant of Block: me keeps its runlist entry.
Block_in_runlist(k, fh, me, a) ==
  /\ futex_ptr' = [futex_ptr EXCEPT ![me] = a]
  /\ futexhash' = [fh EXCEPT ![FUTEX_HASHVAL[a]] = hash_add_ring(@, k.prio, me)]
  /\ Dosched([k EXCEPT !.status[me] = "BLOCKED"], k.hthread[me])

\* me blocks on a, from kernel state k with the rings fh.
Block(k, fh, me, a) ==
  LET k1 == [runlist_remove(k, me) EXCEPT !.status[me] = "BLOCKED"]
  IN  /\ futex_ptr' = [futex_ptr EXCEPT ![me] = a]
      /\ futexhash' = [fh EXCEPT ![FUTEX_HASHVAL[a]] = hash_add_ring(@, k.prio, me)]
      /\ Dosched(k1, k.hthread[me])

-----------------------------------------------------------------------------
(* futex_classic *)

\* H2K_futex_wait; if the word is not v it returns -1 and changes nothing.
FutexWait(h, a, v) ==
  /\ pc[h] = "user"
  /\ word[a] = v
  /\ Block(kg, futexhash, sgp0[h], a)
  /\ UNCHANGED <<base_prio, word, lock>>

\* The loop of H2K_futex_resume: wake until n threads are woken or none is left.
resume(a, n) ==
  LET loop[i \in 0..n] == IF i = 0 THEN AtHead(a) ELSE hash_remove_one(loop[i - 1], a)
  IN  loop[n]

\* Mutant of FutexResume: it leaves without check_sanity.
FutexResume_no_check(h, a, n) ==
  /\ pc[h] = "user"
  /\ n > 0
  /\ futexhash[FUTEX_HASHVAL[a]] # <<>>
  /\ Return(h, resume(a, n).k)
  /\ futexhash' = [futexhash EXCEPT ![FUTEX_HASHVAL[a]] = resume(a, n).ring]
  /\ UNCHANGED <<futex_ptr, base_prio, word, lock>>

\* H2K_futex_resume; with nobody in the ring it leaves without check_sanity.
FutexResume(h, a, n) ==
  /\ pc[h] = "user"
  /\ n > 0
  /\ futexhash[FUTEX_HASHVAL[a]] # <<>>
  /\ Return(h, check_sanity(resume(a, n).k))
  /\ futexhash' = [futexhash EXCEPT ![FUTEX_HASHVAL[a]] = resume(a, n).ring]
  /\ UNCHANGED <<futex_ptr, base_prio, word, lock>>

\* A thread writes a word, in user mode.
Store(h, a, v) ==
  /\ pc[h] = "user"
  /\ word' = [word EXCEPT ![a] = v]
  /\ UNCHANGED <<schedVars, futexhash, futex_ptr, base_prio, lock>>

-----------------------------------------------------------------------------
(* futex_pi *)

\* Mutant of pi_raise: the owner is not raised.
pi_raise_not(prio, dest) == [k |-> kg, fh |-> futexhash]

\* Mutant of pi_raise: the owner stays where it is, whatever its status.
pi_raise_in_place(prio, dest) ==
  [k |-> [kg EXCEPT !.prio[dest] = Min({@, prio})], fh |-> futexhash]

\* Mutant of pi_raise: a blocked owner is put in its new place only.
pi_raise_twice(prio, dest) ==
  LET k1 == [kg EXCEPT !.prio[dest] = Min({@, prio})]
  IN  [k  |-> k1,
       fh |-> IF kg.status[dest] # "BLOCKED" THEN futexhash
              ELSE [futexhash EXCEPT ![FUTEX_HASHVAL[futex_ptr[dest]]] =
                      hash_add_ring(@, k1.prio, dest)]]

\* H2K_futex_pi_raise: the owner dest of a lock inherits priority prio.
pi_raise(prio, dest) ==
  LET k1   == [kg EXCEPT !.prio[dest] = prio]
      b    == FUTEX_HASHVAL[futex_ptr[dest]]
      same == [k |-> kg, fh |-> futexhash]
  IN  IF kg.prio[dest] <= prio THEN same
      ELSE CASE kg.status[dest] = "BLOCKED" ->
                  [k  |-> k1,
                   fh |-> [futexhash EXCEPT ![b] =
                             hash_add_ring(RingRemove(@, dest), k1.prio, dest)]]
             [] kg.status[dest] = "READY" ->
                  [same EXCEPT !.k = ready_insert([ready_remove(kg, dest)
                                                    EXCEPT !.prio[dest] = prio], dest)]
             [] kg.status[dest] = "RUNNING" ->
                  [same EXCEPT !.k = IF kg.hthread[dest] \in kg.priomask
                                     THEN raise_lowprio(runlist_set_thread_prio(kg, dest, prio))
                                     ELSE runlist_set_thread_prio(kg, dest, prio)]
             [] kg.status[dest] = "INTBLOCKED" -> [same EXCEPT !.k = k1]
             [] OTHER -> same

\* H2K_futex_lock_pi of a lock that has become free.
FutexLockPiFree(h, l) ==
  /\ pc[h] = "user"
  /\ lock[l].owner = NoThread
  /\ lock' = [lock EXCEPT ![l] = [owner |-> sgp0[h], waiters |-> FALSE]]
  /\ UNCHANGED <<schedVars, futexhash, futex_ptr, base_prio, word>>

\* H2K_futex_lock_pi of a lock that is held.
FutexLockPiHeld(h, l) ==
  LET me     == sgp0[h]
      raised == pi_raise(kg.prio[me], lock[l].owner)
  IN  /\ pc[h] = "user"
      /\ lock[l].owner # NoThread
      /\ lock' = [lock EXCEPT ![l].waiters = TRUE]
      /\ Block(raised.k, raised.fh, me, l)
      /\ UNCHANGED <<base_prio, word>>

\* Mutant of HandOver: the woken thread is to take the lock by itself.
HandOver_free(t) == Free

\* Mutant of HandOver: the new owner's waiters bit is clear.
HandOver_no_bit(t) == [owner |-> t, waiters |-> FALSE]

\* Mutant of HandOver: nobody woken is not told apart.
HandOver_nobody(t) == [owner |-> t, waiters |-> TRUE]

\* What H2K_futex_unlock_pi leaves in the lock when it has woken t.
HandOver(t) == IF t = NoThread THEN Free ELSE [owner |-> t, waiters |-> TRUE]

\* Mutant of FutexUnlockPi's priority: the inherited priority is kept.
restore_prio_not(k, me) == k

restore_prio(k, me) == runlist_set_thread_prio(k, me, base_prio[me])

\* Mutant of FutexUnlockPi: it leaves without check_sanity.
FutexUnlockPi_no_check(h, l) ==
  LET s == hash_remove_one(AtHead(l), l)
  IN  /\ pc[h] = "user"
      /\ lock' = [lock EXCEPT ![l] = HandOver(s.ret)]
      /\ futexhash' = [futexhash EXCEPT ![FUTEX_HASHVAL[l]] = s.ring]
      /\ Return(h, restore_prio(s.k, sgp0[h]))
      /\ UNCHANGED <<futex_ptr, base_prio, word>>

\* H2K_futex_unlock_pi: the best waiter becomes the owner.
FutexUnlockPi(h, l) ==
  LET me == sgp0[h]
      s  == hash_remove_one(AtHead(l), l)
  IN  /\ pc[h] = "user"
      /\ lock' = [lock EXCEPT ![l] = HandOver(s.ret)]
      /\ futexhash' = [futexhash EXCEPT ![FUTEX_HASHVAL[l]] = s.ring]
      /\ Return(h, check_sanity(restore_prio(s.k, me)))
      /\ UNCHANGED <<futex_ptr, base_prio, word>>

-----------------------------------------------------------------------------
(* The scheduler's steps, and prio_set *)

\* H2K_prio_set: takes effect when a priority is next restored.
PrioSet(h, p) ==
  /\ pc[h] = "user"
  /\ p >= bestprio
  /\ base_prio' = [base_prio EXCEPT ![sgp0[h]] = p]
  /\ UNCHANGED <<schedVars, futexhash, futex_ptr, word, lock>>

Create(h, t, p) ==
  /\ ThreadCreate(h, t, p)
  /\ base_prio' = [base_prio EXCEPT ![t] = p]
  /\ UNCHANGED <<futexhash, futex_ptr, word, lock>>

Stop(h) ==
  /\ ThreadStop(h)
  /\ base_prio' = [base_prio EXCEPT ![sgp0[h]] = 0]
  /\ futex_ptr' = [futex_ptr EXCEPT ![sgp0[h]] = NoFutex]
  /\ UNCHANGED <<futexhash, word, lock>>

SchedYield(h) == Yield(h) /\ UNCHANGED futexVars

\* What the interrupt and the kernel do to h; every hardware thread is up.
SchedStep(h) ==
  /\ Resched(h) \/ UnlockedStep(h)
  /\ UNCHANGED futexVars

-----------------------------------------------------------------------------
(* The classic futex, used by threads that write words as they like *)

ClassicStep(h) ==
  \/ SchedStep(h)
  \/ SchedYield(h)
  \/ Stop(h)
  \/ \E t \in Threads, p \in Prios : Create(h, t, p)
  \/ \E a \in Words, v \in Vals : FutexWait(h, a, v) \/ Store(h, a, v)
  \/ \E a \in Words, n \in WakeCounts : FutexResume(h, a, n)

ClassicNext == \E h \in HThreads : ClassicStep(h)

ClassicSpec == Init /\ FutexInit /\ [][ClassicNext]_vars

-----------------------------------------------------------------------------
(* Properties *)

\* Every futex variable has its type; in particular a lock that has no owner is
\* 0, without the waiters bit, so that a thread that wants it sees it free.
FutexTypeOK ==
  /\ TypeOK
  /\ futexhash \in [Buckets -> Seq(Threads)]
  /\ futex_ptr \in [Threads -> Futexes \cup {NoFutex}]
  /\ base_prio \in [Threads -> Prios]
  /\ word \in [Words -> Vals]
  /\ lock \in [Locks -> LockValues]

\* A thread is in the ring of the bucket of its futex, once, exactly when it
\* is BLOCKED, and every ring is in priority order: H2K_futex_pi_raise moves a
\* blocked thread whose priority it changes (hash_add_ring stops its backward
\* search at the first thread that is not worse, so it needs the order).
RingsAgree ==
  /\ \A b \in Buckets : IsInjective(futexhash[b])
  /\ \A t \in Threads, b \in Buckets :
       t \in ToSet(futexhash[b])
         <=> kg.status[t] = "BLOCKED" /\ b = FUTEX_HASHVAL[futex_ptr[t]]
  /\ \A b \in Buckets : \A i, j \in DOMAIN futexhash[b] :
       i < j => kg.prio[futexhash[b][i]] <= kg.prio[futexhash[b][j]]

Waiting(a) == {t \in Threads : kg.status[t] = "BLOCKED" /\ futex_ptr[t] = a}

Woken == {t \in Threads : kg.status[t] = "BLOCKED" /\ kg'.status[t] # "BLOCKED"}

StaysBlocked == {t \in Threads : kg.status[t] = "BLOCKED" /\ kg'.status[t] = "BLOCKED"}

BecomesBlocked == {t \in Threads : kg.status[t] # "BLOCKED" /\ kg'.status[t] = "BLOCKED"}

\* t is in front of u in some ring.
Before(rings, t, u) ==
  \E b \in Buckets : \E i, j \in DOMAIN rings[b] : i < j /\ rings[b][i] = t /\ rings[b][j] = u

\* Of the threads that wait on the same futex the best is woken first and,
\* among equals, the one that blocked first: a thread that blocks goes behind
\* its equals, and none is woken before one it is behind.
WakeOrder ==
  [][/\ \A t \in StaysBlocked, u \in BecomesBlocked :
          futex_ptr[t] = futex_ptr'[u] /\ kg'.prio[t] = kg'.prio[u] => Before(futexhash', t, u)
     /\ \A t \in Woken, u \in StaysBlocked :
          futex_ptr[t] = futex_ptr[u] =>
            \/ kg.prio[t] < kg.prio[u]
            \/ kg.prio[t] = kg.prio[u] /\ Before(futexhash, t, u)]_vars

\* H2K_futex_resume wakes waiters of its own futex only, whatever else hashes
\* to the bucket, and n_to_wake of them unless fewer wait: its position in the
\* ring stays right while the ring it walks shrinks.
ResumeWakes ==
  [][\A h \in HThreads, a \in Words, n \in WakeCounts : FutexResume(h, a, n) =>
       /\ Woken \subseteq Waiting(a)
       /\ Cardinality(Woken) = Min({n, Cardinality(Waiting(a))})]_vars
=============================================================================
