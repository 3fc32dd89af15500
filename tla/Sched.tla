------------------------------- MODULE Sched -------------------------------
(***************************************************************************)
(* The scheduler: hardware threads that run, preempt, yield, sleep and are *)
(* woken by the RESCHED interrupt, and the thread operations that need     *)
(* nothing but the scheduler (create, stop, yield).                        *)
(*                                                                         *)
(* Code that runs with the BKL held is one action; the code before the     *)
(* lock is taken (acknowledging RESCHED) and after it is released (the     *)
(* tail of H2K_switch that goes to sleep) is an action of its own.         *)
(***************************************************************************)
EXTENDS SchedOps

CONSTANTS
  BootThread,  \* the thread H2K_thread_boot starts on hardware thread 0
  bestprio     \* vmblock->bestprio: the best priority a thread may ask for

ASSUME BootConstants == BootThread \in Threads /\ bestprio \in Prios

VARIABLES
  kg,    \* the scheduling state of the kernel
  pc,    \* where each started hardware thread is
  sgp0   \* SGP0 of each hardware thread: the context it runs, or NULL

schedVars == <<kg, pc, sgp0>>

(***************************************************************************)
(* pc[h]:                                                                  *)
(*   "reset"    out of reset, about to take the BKL and go to sleep        *)
(*   "user"     running the thread sgp0[h], interrupts enabled             *)
(*   "sleep"    in H2K_switch, BKL released, IMASK not yet written         *)
(*   "wait"     in H2K_wait_forever, interrupts enabled                    *)
(*   "resched"  took RESCHED, which stays auto-disabled until ciad         *)
(*   "lock"     in H2K_resched, about to take the BKL                      *)
(***************************************************************************)
Pcs == {"reset", "user", "sleep", "wait", "resched", "lock"}

-----------------------------------------------------------------------------
(* Initial states *)

\* H2K_thread_boot: hardware thread 0 runs the boot thread and, through
\* check_sanity, is the designated lowest priority one.
BootKernel ==
  [ready     |-> [p \in Prios |-> <<>>],
   valids    |-> {},
   runlist   |-> [h \in Hw |-> IF h = 0 THEN BootThread ELSE NoThread],
   rprios    |-> [h \in Hw |-> IF h = 0 THEN bestprio ELSE -1],
   priomask  |-> {0},
   wait_mask |-> {},
   iopen     |-> {0},
   ipend     |-> FALSE,
   status    |-> [t \in Threads |-> IF t = BootThread THEN "RUNNING" ELSE "DEAD"],
   prio      |-> [t \in Threads |-> IF t = BootThread THEN bestprio ELSE 0],
   hthread   |-> [t \in Threads |-> 0]]

BootSgp0 == [h \in HThreads |-> IF h = 0 THEN BootThread ELSE NoThread]

\* The boot VM has just started the other hardware threads, and hthreads and
\* hthreads_mask already count them.
BootInit ==
  /\ kg = BootKernel
  /\ pc = [h \in HThreads |-> IF h = 0 THEN "user" ELSE "reset"]
  /\ sgp0 = BootSgp0

\* The other hardware threads have all gone to sleep.
Init ==
  /\ kg = [BootKernel EXCEPT !.wait_mask = HThreads \ {0},
                             !.priomask = HThreads,
                             !.iopen = HThreads]
  /\ pc = [h \in HThreads |-> IF h = 0 THEN "user" ELSE "wait"]
  /\ sgp0 = BootSgp0

-----------------------------------------------------------------------------
(* Leaving the kernel *)

\* Hardware thread h leaves the kernel through H2K_dosched, from state k.
\* H2K_switch puts the new thread in SGP0 and, if no VM work is pending for it,
\* ends in check_sanity_unlock.
Dosched(k, h) ==
  /\ kg' = dosched(k, h)
  /\ IF ready_head(k) = NoThread
     THEN pc' = [pc EXCEPT ![h] = "sleep"] /\ UNCHANGED sgp0
     ELSE /\ pc' = [pc EXCEPT ![h] = "user"]
          /\ sgp0' = [sgp0 EXCEPT ![h] = ready_head(k)]

\* h goes back to the thread it was running.
Return(h, k) == kg' = k /\ UNCHANGED <<pc, sgp0>>

\* The end of H2K_switch to NULL, after the BKL is released.
EnterWait(h) ==
  /\ pc[h] = "sleep"
  /\ sgp0' = [sgp0 EXCEPT ![h] = NoThread]
  /\ kg' = [kg EXCEPT !.iopen = @ \cup {h}]
  /\ pc' = [pc EXCEPT ![h] = "wait"]

\* H2K_handle_reset: a hardware thread comes up and goes to sleep.
HandleReset(h) ==
  /\ pc[h] = "reset"
  /\ kg' = switch_sleep(kg, h)
  /\ pc' = [pc EXCEPT ![h] = "sleep"]
  /\ UNCHANGED sgp0

-----------------------------------------------------------------------------
(* The RESCHED interrupt *)

\* The interrupt controller delivers RESCHED to a hardware thread whose IMASK
\* is open, unless it is auto-disabled by an earlier delivery.
TakeResched(h) ==
  /\ kg.ipend
  /\ pc[h] \in {"user", "wait"}
  /\ h \in kg.iopen
  /\ \A i \in HThreads : pc[i] # "resched"
  /\ kg' = [kg EXCEPT !.ipend = FALSE]
  /\ pc' = [pc EXCEPT ![h] = "resched"]
  /\ UNCHANGED sgp0

\* H2K_resched up to its BKL_LOCK.
ReschedCiad(h) ==
  /\ pc[h] = "resched"
  /\ pc' = [pc EXCEPT ![h] = "lock"]
  /\ UNCHANGED <<kg, sgp0>>

\* H2K_resched with the BKL held; me is NULL when wait mode was interrupted.
Resched(h) ==
  LET me == sgp0[h]
  IN  /\ pc[h] = "lock"
      /\ IF me # NoThread
         THEN Dosched(ready_append(runlist_remove(kg, me), me), h)
         ELSE Dosched([kg EXCEPT !.wait_mask = @ \ {h}], h)

-----------------------------------------------------------------------------
(* Thread operations of the thread running on h *)

\* H2K_sched_yield, when another thread of the same priority is ready.
Yield(h) ==
  LET me == sgp0[h]
  IN  /\ pc[h] = "user"
      /\ ready_prio_valid(kg, kg.prio[me])
      /\ Dosched(ready_append(runlist_remove(kg, me), me), kg.hthread[me])

\* H2K_thread_create_no_squash: t is a context of the free list.  A call that is
\* refused (priority, no free context, no ASID) leaves at most a priority in a
\* free context, which the next create overwrites.
ThreadCreate(h, t, p) ==
  /\ pc[h] = "user"
  /\ kg.status[t] = "DEAD"
  /\ p >= bestprio
  /\ Return(h, check_sanity(ready_append([kg EXCEPT !.prio[t] = p], t)))

\* H2K_thread_context_clear zeroes the context.
thread_context_clear(k, t) ==
  [k EXCEPT !.status[t] = "DEAD", !.prio[t] = 0, !.hthread[t] = 0]

\* H2K_thread_stop of a thread whose VM has no parent to signal.
ThreadStop(h) ==
  LET me == sgp0[h]
  IN  /\ pc[h] = "user"
      /\ Dosched(thread_context_clear(runlist_remove(kg, me), me), h)

-----------------------------------------------------------------------------
\* The steps that need the BKL, and the steps that do not.
LockedStep(h) ==
  \/ HandleReset(h)
  \/ Resched(h)
  \/ Yield(h)
  \/ ThreadStop(h)
  \/ \E t \in Threads, p \in Prios : ThreadCreate(h, t, p)

UnlockedStep(h) == EnterWait(h) \/ TakeResched(h) \/ ReschedCiad(h)

Next == \E h \in HThreads : LockedStep(h) \/ UnlockedStep(h)

BootSpec == BootInit /\ [][Next]_schedVars
Spec     == Init /\ [][Next]_schedVars

\* A hardware thread in the kernel keeps executing, and a BKL waiter gets the
\* lock; a deliverable RESCHED is delivered, to whichever of the hardware threads
\* that can take it the interrupt controller chooses.
Fairness ==
  /\ \A h \in HThreads, at \in {"sleep", "resched", "lock"} : []<>(pc[h] # at)
  /\ WF_schedVars(\E h \in HThreads : TakeResched(h))

FairSpec == Spec /\ Fairness

-----------------------------------------------------------------------------
(* Properties *)

Running(h) == pc[h] \in {"user", "resched", "lock"} /\ sgp0[h] # NoThread

Asleep(h) == pc[h] \notin {"user", "reset"} /\ ~Running(h)

\* Every variable has its type; in particular lowprio_notify never designates
\* hardware thread -1, which it would with nothing in the runlist.
TypeOK ==
  /\ kg \in KernelState
  /\ pc \in [HThreads -> Pcs]
  /\ sgp0 \in [HThreads -> Threads \cup {NoThread}]

\* The ready rings agree with the threads: a thread is in the ring of its
\* priority, once, exactly when its status is READY, and the valid bits that
\* H2K_ready_best_prio searches mark exactly the rings that are not empty.
ReadyAgrees ==
  /\ \A p \in Prios : IsInjective(kg.ready[p])
  /\ \A p \in Prios : p \in kg.valids <=> kg.ready[p] # <<>>
  /\ \A t \in Threads, p \in Prios :
       t \in ToSet(kg.ready[p]) <=> kg.status[t] = "READY" /\ kg.prio[t] = p

\* The runlist, the cached runlist_prios and the threads agree: a RUNNING
\* thread is the entry of its own hthread, at its current priority.
RunlistAgrees ==
  /\ \A h \in Hw :
       IF kg.runlist[h] = NoThread THEN kg.rprios[h] = -1
       ELSE /\ kg.status[kg.runlist[h]] = "RUNNING"
            /\ kg.hthread[kg.runlist[h]] = h
            /\ kg.rprios[h] = kg.prio[kg.runlist[h]]
  /\ \A t \in Threads : kg.status[t] = "RUNNING" => kg.runlist[kg.hthread[t]] = t

\* The kernel's picture of the hardware is right: the runlist names the thread
\* each hardware thread really runs, and wait_mask is exactly the hardware
\* threads that are asleep or waking up.  So no thread runs on two hardware
\* threads, and none is lost between H2K_switch and the RESCHED that wakes it.
CpuAgrees ==
  /\ \A h \in HThreads : /\ Running(h) => kg.runlist[h] = sgp0[h]
                         /\ ~Running(h) => kg.runlist[h] = NoThread
                         /\ pc[h] = "user" => sgp0[h] # NoThread
                         /\ pc[h] = "wait" => sgp0[h] = NoThread
                         /\ h \in kg.wait_mask <=> Asleep(h)
  /\ \A h \in Hw \ HThreads : kg.runlist[h] = NoThread /\ h \notin kg.wait_mask

\* Somebody can always take RESCHED: priomask is never empty outside the BKL,
\* covers every sleeping hardware thread, and each hardware thread in it has
\* its IMASK open (H2K_switch opens it after the unlock, hence "sleep").
Receptive ==
  /\ kg.priomask # {}
  /\ kg.wait_mask \subseteq kg.priomask
  /\ kg.priomask \subseteq {h \in HThreads : pc[h] # "reset"}
  /\ \A h \in kg.priomask : pc[h] # "sleep" => h \in kg.iopen

ReschedComing == kg.ipend \/ \E h \in HThreads : pc[h] \in {"resched", "lock"}

BetterIsReady ==
  \E t, u \in Threads : /\ kg.status[t] = "READY" /\ kg.status[u] = "RUNNING"
                        /\ kg.prio[t] < kg.prio[u]

IdleWhileReady ==
  kg.wait_mask # {} /\ \E t \in Threads : kg.status[t] = "READY"

\* No wakeup is lost: whenever a thread is ready that is better than a running
\* one, or a thread is ready while a hardware thread sleeps, a reschedule is
\* pending or under way (check_sanity on every way out of the kernel).
NoLostResched == BetterIsReady \/ IdleWhileReady => ReschedComing

\* While hardware threads come up, the only step that can leave a thread ready
\* and a hardware thread asleep with no reschedule under way is the one that
\* puts a hardware thread to sleep straight out of reset, which does not go
\* through check_sanity (H2K_handle_reset); no step loses a preemption.
OnlyResetLosesWakeup ==
  [][/\ BetterIsReady => ReschedComing
     /\ (IdleWhileReady => ReschedComing) /\ ~(IdleWhileReady => ReschedComing)'
          => \E h \in HThreads : pc[h] = "reset" /\ pc'[h] = "sleep"]_schedVars

\* t is in front of u in the ring of priority p.
InFront(k, p, t, u) ==
  \E i, j \in DOMAIN k.ready[p] : i < j /\ k.ready[p][i] = t /\ k.ready[p][j] = u

BecomesReady == {t \in Threads : kg.status[t] # "READY" /\ kg'.status[t] = "READY"}

\* Dispatch is by priority and, at one priority, first come first served: a
\* thread that becomes ready goes behind its equals (H2K_ready_append), and the
\* thread a dispatch picks is better than any it leaves ready or, if it was
\* ready before, in front of its equals (H2K_ready_getbest).
DispatchOrder ==
  [][/\ \A t \in Threads, u \in BecomesReady :
          kg.status[t] = "READY" /\ kg'.status[t] = "READY" /\ kg'.prio[t] = kg'.prio[u]
            => InFront(kg', kg'.prio[t], t, u)
     /\ \A h \in HThreads, t \in Threads :
          sgp0'[h] \notin {sgp0[h], NoThread} /\ kg'.status[t] = "READY" =>
            LET new == sgp0'[h]
            IN  \/ kg.prio[new] < kg.prio[t]
                \/ /\ kg.prio[new] = kg.prio[t]
                   /\ kg.status[t] = "READY" => InFront(kg, kg.prio[t], new, t)]_schedVars

\* The designation is exact when the hardware threads that take RESCHED are
\* the sleeping ones or, when none sleeps, a single one that runs a thread of
\* the worst priority.
ExactDesignation ==
  /\ \A h \in HThreads : pc[h] # "sleep" => (h \in kg.iopen <=> h \in kg.priomask)
  /\ IF kg.wait_mask # {} THEN kg.priomask = kg.wait_mask
     ELSE \E h \in HThreads : /\ kg.priomask = {h}
                              /\ kg.rprios[h] = runlist_worst_prio(kg)

\* Once the designation is exact it stays exact: dosched, raise_lowprio and
\* check_sanity hand the lowest-priority role over without losing it or
\* giving it to two.
DesignationStays == [][ExactDesignation => ExactDesignation']_schedVars

\* What lowprio.spec says H2K_lowprio_raise does: a hardware thread that is no
\* longer marked as lowest priority has its IMASK closed.
UnmarkedIsMasked ==
  \A h \in HThreads : Running(h) /\ h \notin kg.priomask => h \notin kg.iopen

\* What runlist.spec says H2K_runlist_worst_prio returns: the priority of the
\* running thread with the worst priority, MAX_PRIOS if there is none.
WorstPrioIsWorst ==
  LET running == {kg.prio[t] : t \in {u \in Threads : kg.status[u] = "RUNNING"}}
  IN  runlist_worst_prio(kg) = IF running = {} THEN MAX_PRIOS ELSE Max(running)

\* What check_sanity.spec and overview.txt say of a thread that is ready behind a
\* worse running one: that is only temporary, RESCHED makes the worst reschedule.
NoInversion == BetterIsReady ~> ~BetterIsReady

\* A hardware thread does not sleep for ever while a thread is ready, unless an
\* unmarked hardware thread with its IMASK open keeps taking RESCHED.
IdleEnds == <>[]UnmarkedIsMasked => (IdleWhileReady ~> ~IdleWhileReady)

\* A thread does not stay ready for ever behind a worse running one, unless an
\* unmarked hardware thread with its IMASK open keeps taking RESCHED: as long as
\* only marked hardware threads can take it, check_sanity and dosched move the
\* mark until RESCHED reaches the worst one.
InversionEnds == <>[]UnmarkedIsMasked => NoInversion
=============================================================================
