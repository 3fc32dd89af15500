# A TLA+ model of the H2 hypervisor kernel

H2 (`src/kernel`) is a small hypervisor for Hexagon: it schedules the threads of
virtual machines on a handful of hardware threads under one big kernel lock
(BKL), gives them futexes, interrupts and timers, and manages their address
spaces. The libraries (`src/libs`) build pthreads, QuRT and other APIs on its
traps.

This directory models its core: the scheduler, the futexes, and the user-mode
mutex on top of them. TLC checks the modules on small instances, and TLAPS
proves the scheduler's invariants for every instance. The reference C and
assembly (`*.ref.c`, `*.ref.S`, and the headers) are what is modelled; the
`*opt.S` variants are not.

The scheduler is modelled with cluster scheduling off, that is with
`cluster_sched` 0 or `coproc_max` -1, where `H2K_ready_head` returns the head of
its ring (`readylist.h:127`). That is not the default: `CLUSTER_SCHED` is
defined in every build (`src/libs/h2/common/h2_common_defs.h:11`) and the booter
switches it on unless told `--cluster_sched 0` (`src/booter/booter.c:156`,
`1581`). With it on and coprocessors in use, `H2K_ready_head` may leave the best
thread ready, send `CLUSTER_RESCHED` to another hardware thread and put its own
to sleep (`readylist.h:126-211`, `H2K_resched_cluster`); nothing here says
anything about that case.

## Parts of the system

| Part | Source (`src/kernel` unless noted) | Here |
|---|---|---|
| Ready list, run list, rings | `data/readylist`, `data/runlist`, `util/ring` | `SchedOps` |
| Scheduler: dosched, check_sanity, lowprio, resched, yield, switch | `sched/*` | `SchedOps`, `Sched` |
| RESCHED interrupt | `event/interrupt`, `sched/resched` | `Sched` |
| Bring-up of hardware threads | `init/setup`, `init/boot` | `Sched` (`BootSpec`) |
| Thread create and stop | `thread/create`, `thread/stop` | `Sched`, the scheduling side |
| Futexes: wait, resume, lock_pi, unlock_pi; prio_set | `futex/*`, `traps/prio` | `Futex` |
| pthread plain mutex | `src/libs/posix/pthread/plainmutex` | `PlainMutex` |
| Semaphores, conditions, barriers, rwlocks; signals, pipes | `src/libs/posix`, `src/libs/h2_compat` | planned |
| Popup interrupts and interrupt pool | `event/popup`, `event/intpool` | planned |
| VM interrupts, events, wait | `vm/vmint`, `cpuint`, `shint`, `vmipi`, `vmevent`, `vmfuncs`, `vmwork` | planned |
| VM lifecycle: configure, boot, kill, free | `vm/vmop`, `traps/config`, `data/vm` | planned |
| Timer | `time/timer`, `util/tree` | planned |
| Kernel heap, ASID table | `mem/alloc`, `mem/asid` | planned |
| Software TLB and translation | `mem/stlb`, `tlb*`, `pagewalk`, ... | software TLB planned |
| Register access, formats, logging, loaders, benchmarks | `traps/*`, `power/*`, `prof`, `util/*`, `booter`, `perf`, ... | not modelled |

`PROJECT.json` lists every part with its status, maps each definition to its
source lines, and lists the hazards the properties aim at.

## The modules

**SchedOps** holds the scheduler's state as one record `k`, the fields of
`H2K_kg` and of the thread contexts that scheduling uses, and one operator per
inline function, from a record to the record it leaves. A ring is a sequence
whose first element is the head; a mask is a set of bit numbers. `iopen` is the
set of hardware threads with IMASK 0, and `ipend` the RESCHED bit of IPEND.

**Sched** is the state machine. `kg` is the record, `sgp0[h]` the thread in
hardware thread `h`'s SGP0 (NULL in wait mode), and `pc[h]` where it is:

| `pc` | Meaning |
|---|---|
| `reset` | not yet past `H2K_handle_reset` |
| `user` | runs `sgp0[h]` |
| `sleep` | in `H2K_switch` after its BKL unlock, before the IMASK is opened |
| `wait` | wait mode |
| `resched` | RESCHED delivered, auto-disabled, before `ciad` |
| `lock` | in `H2K_resched`, past `ciad`, wanting the BKL |

A section of code under the BKL is one step. What a hardware thread does
outside the BKL that others can see is a step of its own: `EnterWait`,
`TakeResched`, `ReschedCiad`. A dispatch includes the tail of `H2K_switch`, that
is `check_sanity_unlock`. `BootSpec` starts with the further hardware threads in
reset, `Spec` with all of them up.

**Futex** adds the hash rings, `futex_ptr`, `base_prio` and the futex words.
A lock word is its owner and the waiters bit. A call that returns -1 changes
nothing of this and is not a step. `ClassicSpec` lets threads wait, resume and write
words as they like.

**PlainMutex** adds the user side of `pthread_plainmutex`: `trap[t]` is the
kernel call `t` is about to make after its load-locked found a value it cannot
handle, and `held[t]` the locks it holds. Threads stop only without locks. Any
other thread may run between the load and the trap. The store-conditional makes
the fast paths atomic.

**SchedOpsProofs** and **SchedProofs** hold the theorems. The `MC*` modules and
`*.cfg` files instantiate the specifications. Operators introduced as "Mutant
of ..." are deliberately wrong variants that show each property can fail; no
specification uses them.

## What the runs check

| Run | Instance | Shows |
|---|---|---|
| `sched_safety` | 3 hardware threads, 4 threads, 2 priorities | structures agree with each other and the hardware; no lost reschedule; dispatch order; exact hand-over of the lowest-priority role |
| `sched_boot` | 3, 3, 3, from reset | the same while hardware threads join; only the step out of reset can leave a ready thread unnoticed |
| `sched_live` | 2, 3, 3, fair | if unmarked hardware threads are masked from some point on, no hardware thread idles for ever beside a ready thread, and no better thread waits for ever |
| `futex_order` | 1, 4, 2; two words in one bucket | rings are exact and sorted; wake order; the right number and the right threads woken |
| `futex_smp` | 2, 3, 2; one word | waits race resumes on another hardware thread |
| `mutex_safety` | 2, 3, 3; one lock | a lock without owner is 0; mutual exclusion, no missed waiter, inheritance, end of inheritance |
| `mutex_nested` | 1, 3, 2; two locks, prio_set | a blocked owner is raised; the locks stay exclusive |
| `mutex_live` | 2, 3, 2; one lock, fair | under the same condition no better thread waits for ever although unlock lowers priorities |

Four runs show a disagreement between the code and a text of the repository:

- `stale_imask`: `H2K_raise_lowprio` unmarks all of `priomask` but masks one
  hardware thread; `lowprio.spec` has it clear and mask the same one. A
  hardware thread can be left unmarked with its IMASK open. No RESCHED is lost by
  it (`sched_safety`), but one can go to the wrong hardware thread.
- `lasting_inversion`: that can go on for ever. The hardware thread left open
  takes RESCHED, and `H2K_dosched` closes its IMASK only if it is marked. In a
  trace hardware thread 1 is left open by the stop of the boot thread; later it
  alternates between two threads of priority 1, one RESCHED after the other,
  while a thread of priority 2 keeps running on hardware thread 0, the marked
  one. `overview.txt` says RESCHED makes the lowest priority thread reschedule,
  and `check_sanity.spec` calls such a state temporary. In the same way a
  sleeping hardware thread can stay asleep beside a ready thread.
- `sparse_hthreads`: with a gap in `hthreads_mask`, `H2K_runlist_worst_prio`
  misses the last hardware thread.
- `nested_inheritance`: `H2K_futex_pi_raise` does not pass a raise on to the
  owner of the lock that the raised thread waits for, contrary to
  `qurt_pimutex.h`. (`unlock_pi` also restores the base priority while another
  lock with waiters is held.)

**Bounds.** Three hardware threads allow one to sleep, one to be designated and
one to run; four threads then leave one ready. Two priorities make every
comparison go both ways; three let a thread be raised past another one. Two
words in one bucket make a resume skip waiters of the other word. A third thread
makes a hand-over leave a waiter behind. The larger futex and mutex instances
are split between runs with one hardware thread (more threads and words) and
runs with two (more interleavings). With four threads and two locks on one
hardware thread, without prio_set, the properties of `mutex_nested` also hold,
but the run takes too long to keep. Threads other than the boot thread are interchangeable, so
the safety runs use symmetry; the liveness runs do not.

Every run allows deadlock: every thread may stop, or wait for a futex
nobody resumes, and then the kernel rightly sleeps.

**Fairness.** `Fairness` asks of a hardware thread in the kernel that it keeps
executing (`sleep`, `resched` and `lock` are left again and again). For `lock`
that needs a BKL that starves nobody. Of RESCHED it asks only that a pending one
is delivered when some hardware thread can take it (weak fairness of
`\E h : TakeResched(h)`). Which one takes it is the interrupt controller's choice,
and nothing in the repository says that it goes round. Both are assumptions
about the hardware, not facts of the code; user code owes nothing.

Under this fairness `NoInversion` fails (`lasting_inversion`). What holds is
`IdleEnds` and `InversionEnds`: the wait of the ready thread ends in every behaviour
in which, from some point on, every running hardware thread that is not marked
has its IMASK closed (`<>[]UnmarkedIsMasked`). A system whose designation is exact
is such a behaviour, since it stays exact (`DesignationStays`). If
`H2K_raise_lowprio` masked all the hardware threads it unmarks, every behaviour
would be one, and `NoInversion` would hold on the instance of `sched_live`. With
only marked hardware threads able to take RESCHED, each delivery to one that is
not the worst closes its IMASK, until the worst is left.

## What is proved

`SchedProofs` proves, for every set of threads, number of priorities and
`hthreads_mask`:

- `BootSafety` and `Safety`: `TypeOK`, `ReadyAgrees`, `RunlistAgrees`,
  `CpuAgrees` and `Receptive` hold always, from reset and from the running
  system. Their conjunction is inductive. It needs each part: a dispatch is right
  because the ring it takes the head of holds READY threads only
  (`ReadyAgrees`), the entry it overwrites is its own (`RunlistAgrees`,
  `CpuAgrees`), and `lowprio_notify` finds a running thread because an empty
  `priomask` means that nobody sleeps (`Receptive`).
- `NoLostReschedThm`: if hardware threads are numbered without a gap
  (`Contiguous`), a ready thread that should run has a RESCHED pending or being
  handled. The assumption is needed (`sparse_hthreads`). The argument is that
  every step under the BKL ends in `check_sanity` or in a sleep with nothing
  ready, and that a step outside it moves the pending RESCHED along.

The lemmas in `SchedOpsProofs` say what each operator preserves and
establishes, from the rings up to `H2K_dosched`. They assume only
`SchedConstants` and `BootConstants`, which TLC evaluates in each run.

Only model-checked: the order and designation properties, everything about
futexes and the mutex, and liveness (which is beyond the prover).

## Abstractions

- The BKL makes a kernel section atomic. `prio_set` writes one field without it.
- `H2K_futex_resume` translates its address before it takes the BKL. The mapping
  of a futex word does not change here, so that is part of the same step; a race
  with a change of the mapping is out of the model.
- No VM work is pending: the `H2K_vm_do_work_withlock` of `H2K_switch`
  (`switch.ref.S:285`) and the early returns of futex wait and lock_pi when VMWORK
  is set (`futex_classic.ref.c:27-31`, `futex_pi.ref.c:69-73`) belong to the VM
  interrupts.
- `hthreads` and `hthreads_mask` are constants. The code starts the hardware
  threads before it writes them (`hwconfig.ref.c:554`, `594`), without the BKL;
  `BootSpec` begins after the write.
- A create that is refused changes nothing. Without an ASID (`create.ref.c:90`) the
  code gives the context back with a priority in it that the next create overwrites.
- `H2K_raise_lowprio` with an empty `priomask` computes `ct0(0) = 32` and writes
  the IMASK of no existing hardware thread. The model takes that as no effect.
- Registers, stacks, cycle counters and traces are left out.
- Thread ids are the threads themselves; a futex word is named by its address.

## Plan

1. `FutexSpec`, an abstract futex (a set of waiters per word with atomic
   compare-and-block), shown to be implemented by `Futex`; over it the
   semaphores, mutex types, conditions, barriers, rwlocks, signals and pipes of
   the libraries, with lost-wakeup and liveness properties.
2. `Popup` and `IntPool` on `Sched`: interrupt waits, interrupts, cancellation.
3. `VMInt`: pending, enabled and masked interrupts of a virtual processor, posts,
   gets, waits and events.
4. `VMLife`: free list, thread count, ids, create, stop, kill and free, with
   `H2K_futex_cancel`.
5. `Timer`, `Alloc`, `Asid`, the software TLB; `Ring` at pointer level refining
   the sequences of `SchedOps`; the futex hash as arithmetic.
6. Proofs: `RingsAgree`, `MutualExclusion` and `WaitersSeen`; `DispatchOrder` as
   an action property; the refinements of steps 1 and 5.
