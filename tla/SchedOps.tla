------------------------------ MODULE SchedOps ------------------------------
(***************************************************************************)
(* The scheduler's data structures and the inline functions on them.       *)
(*                                                                         *)
(* k is the part of the kernel globals (H2K_kg) and of the thread contexts *)
(* that scheduling reads and writes; every function that the C code runs   *)
(* with the Big Kernel Lock (BKL) held is an operator from such a record   *)
(* to the record it leaves behind.                                         *)
(*                                                                         *)
(* Lower numbers are better priorities (IS_WORSE_THAN is >).  Bit masks    *)
(* over hardware threads or priorities are sets of bit numbers.            *)
(*                                                                         *)
(* The scheduling of coprocessors over clusters is off: cluster_sched is 0 *)
(* or coproc_max is -1, and H2K_ready_head returns the head of the ring.   *)
(***************************************************************************)
EXTENDS Integers, Sequences, FiniteSets, FiniteSetsExt, SequencesExt

CONSTANTS
  Threads,       \* the thread contexts
  NoThread,      \* NULL
  MAX_PRIO,      \* the worst priority; priorities are 0..MAX_PRIO
  MAX_HTHREADS,  \* hardware threads of the core, started or not
  HThreads       \* hthreads_mask: the hardware threads that are started

ASSUME SchedConstants ==
  /\ NoThread \notin Threads
  /\ MAX_PRIO \in Nat
  /\ MAX_HTHREADS \in 1..31
  /\ HThreads \subseteq 0..(MAX_HTHREADS - 1)
  /\ 0 \in HThreads

Prios     == 0..MAX_PRIO
MAX_PRIOS == MAX_PRIO + 1
Hw        == 0..(MAX_HTHREADS - 1)

\* H2K_kg.hthreads is the population count of hthreads_mask.
hthreads  == Cardinality(HThreads)

Statuses == {"DEAD", "RUNNING", "READY", "BLOCKED", "VMWAIT", "INTBLOCKED"}

\* The scheduling state.  iopen is the set of hardware threads whose IMASK is
\* 0 (every other IMASK is -1); ipend is the RESCHED bit of IPEND.
KernelState ==
  [ready     : [Prios -> Seq(Threads)],
   valids    : SUBSET Prios,
   runlist   : [Hw -> Threads \cup {NoThread}],
   rprios    : [Hw -> Prios \cup {-1}],
   priomask  : SUBSET Hw,
   wait_mask : SUBSET Hw,
   iopen     : SUBSET Hw,
   ipend     : BOOLEAN,
   status    : [Threads -> Statuses],
   prio      : [Threads -> Prios],
   hthread   : [Threads -> Hw]]

-----------------------------------------------------------------------------
(* util/ring: a ring is a sequence, its head pointer the first element.    *)

RingAppend(ring, t) == Append(ring, t)

RingInsert(ring, t) == <<t>> \o ring

RingRemove(ring, t) == RemoveAt(ring, CHOOSE i \in DOMAIN ring : ring[i] = t)

-----------------------------------------------------------------------------
(* data/readylist *)

ready_best_prio(k) == IF k.valids = {} THEN MAX_PRIOS ELSE Min(k.valids)

ready_any_valid(k) == ready_best_prio(k) < MAX_PRIOS

ready_prio_valid(k, p) == p \in k.valids

\* Mutant of ready_append: new threads go to the head of their ring.
ready_append_first(k, t) ==
  [k EXCEPT !.status[t] = "READY",
            !.ready[k.prio[t]] = RingInsert(@, t),
            !.valids = @ \cup {k.prio[t]}]

ready_append(k, t) ==
  [k EXCEPT !.status[t] = "READY",
            !.ready[k.prio[t]] = RingAppend(@, t),
            !.valids = @ \cup {k.prio[t]}]

ready_insert(k, t) ==
  [k EXCEPT !.status[t] = "READY",
            !.ready[k.prio[t]] = RingInsert(@, t),
            !.valids = @ \cup {k.prio[t]}]

\* Mutant of ready_remove: the valid bit of an emptied ring stays set.
ready_remove_valid(k, t) ==
  [k EXCEPT !.ready[k.prio[t]] = RingRemove(@, t)]

ready_remove(k, t) ==
  LET ring == RingRemove(k.ready[k.prio[t]], t)
  IN  [k EXCEPT !.ready[k.prio[t]] = ring,
                !.valids = IF ring = <<>> THEN @ \ {k.prio[t]} ELSE @]

\* The thread H2K_ready_getbest removes and returns: the head of the best ring
\* (with cluster scheduling on it may return another, or none).
ready_head(k) == IF ready_any_valid(k) THEN Head(k.ready[ready_best_prio(k)])
                                       ELSE NoThread

-----------------------------------------------------------------------------
(* data/runlist: the scans run over 0..hthreads-1, whatever the mask is.   *)

Scan == 0..(hthreads - 1)

RunningPrios(k) == {k.rprios[i] : i \in Scan} \ {-1}

runlist_worst_prio(k) ==
  IF RunningPrios(k) = {} THEN MAX_PRIOS ELSE Max(RunningPrios(k))

runlist_worst_prio_hthread(k) ==
  IF RunningPrios(k) = {} THEN -1
  ELSE Min({i \in Scan : k.rprios[i] = Max(RunningPrios(k))})

runlist_push(k, t) ==
  [k EXCEPT !.status[t] = "RUNNING",
            !.runlist[k.hthread[t]] = t,
            !.rprios[k.hthread[t]] = k.prio[t]]

\* Mutant of runlist_remove: the cached priority stays behind.
runlist_remove_prio(k, t) == [k EXCEPT !.runlist[k.hthread[t]] = NoThread]

\* Mutant of runlist_remove: an idle entry gets the value past the worst.
runlist_remove_worst(k, t) ==
  [k EXCEPT !.runlist[k.hthread[t]] = NoThread,
            !.rprios[k.hthread[t]] = MAX_PRIOS]

runlist_remove(k, t) ==
  [k EXCEPT !.runlist[k.hthread[t]] = NoThread,
            !.rprios[k.hthread[t]] = -1]

runlist_set_thread_prio(k, t, p) ==
  [k EXCEPT !.prio[t] = p,
            !.rprios[k.hthread[t]] = p]

-----------------------------------------------------------------------------
(* sched/lowprio, sched/check_sanity, sched/dosched *)

\* Q6_R_ct0_R: the number of trailing zeros of a 32-bit mask.
ct0(mask) == IF mask = {} THEN 32 ELSE Min(mask)

\* Mutant of raise_lowprio: the IMASK of the former lowest thread stays open.
raise_lowprio_open(k) ==
  IF k.wait_mask # {} THEN k ELSE [k EXCEPT !.priomask = {}]

raise_lowprio(k) ==
  IF k.wait_mask # {} THEN k
  ELSE [k EXCEPT !.priomask = {}, !.iopen = @ \ {ct0(k.priomask)}]

lowprio_notify(k) ==
  [k EXCEPT !.priomask = @ \cup {runlist_worst_prio_hthread(k)},
            !.iopen = @ \cup {runlist_worst_prio_hthread(k)}]

\* Mutants of NeedsResched: one half of the test is missing.
NeedsResched_running(k) == runlist_worst_prio(k) > ready_best_prio(k)

NeedsResched_waiting(k) == k.wait_mask # {} /\ ready_any_valid(k)

NeedsResched(k) ==
  \/ runlist_worst_prio(k) > ready_best_prio(k)
  \/ k.wait_mask # {} /\ ready_any_valid(k)

\* Mutant of check_sanity: nobody is told that it is the new lowest thread.
check_sanity_no_notify(k) == [k EXCEPT !.ipend = @ \/ NeedsResched(k)]

check_sanity(k) ==
  LET k1 == IF k.priomask = {} THEN lowprio_notify(k) ELSE k
  IN  [k1 EXCEPT !.ipend = @ \/ NeedsResched(k1)]

\* The priomask and IMASK bookkeeping for running a thread of priority p on h.
designate(k, p, h) ==
  IF k.wait_mask = {} /\ p > runlist_worst_prio(k)
  THEN IF h \in k.priomask THEN k
       ELSE [raise_lowprio(k) EXCEPT !.priomask = @ \cup {h},
                                     !.iopen = @ \cup {h}]
  ELSE IF h \in k.priomask
       THEN [k EXCEPT !.priomask = @ \ {h}, !.iopen = @ \ {h}]
       ELSE k

\* Mutant of dosched_run: the thread keeps the hthread it last ran on.
dosched_run_same(k, h) ==
  LET new == ready_head(k)
      k1  == designate(ready_remove(k, new), k.prio[new], h)
  IN  check_sanity(runlist_push(k1, new))

\* H2K_dosched on h when a thread is ready, up to and including the
\* check_sanity_unlock that H2K_switch ends in.
dosched_run(k, h) ==
  LET new == ready_head(k)
      k1  == designate(ready_remove(k, new), k.prio[new], h)
  IN  check_sanity(runlist_push([k1 EXCEPT !.hthread[new] = h], new))

\* Mutants of switch_sleep: one of the two masks is not written.
switch_sleep_no_wait(k, h) == [k EXCEPT !.priomask = @ \cup {h}]

switch_sleep_no_prio(k, h) == [k EXCEPT !.wait_mask = @ \cup {h}]

\* H2K_switch to NULL on h, up to its BKL unlock.
switch_sleep(k, h) ==
  [k EXCEPT !.wait_mask = @ \cup {h}, !.priomask = @ \cup {h}]

\* H2K_dosched on h: run the best ready thread, or go to sleep.
dosched(k, h) ==
  IF ready_head(k) = NoThread THEN switch_sleep(raise_lowprio(k), h)
                              ELSE dosched_run(k, h)
=============================================================================
