---------------------------- MODULE SchedProofs ----------------------------
(***************************************************************************)
(* The scheduler's invariants, proved for every number of threads,         *)
(* priorities and hardware threads.                                        *)
(***************************************************************************)
EXTENDS Sched, SchedOpsProofs

\* Hardware threads between the unlock and the end of H2K_switch to NULL.
GoingToSleep == {h \in HThreads : pc[h] = "sleep"}

OutOfReset == {h \in HThreads : pc[h] # "reset"}

\* The structural invariant: the named parts hold together, and hardware
\* thread 0, which boots the others, is not in reset.
SInv ==
  /\ TypeOK /\ ReadyAgrees /\ RunlistAgrees /\ CpuAgrees /\ Receptive
  /\ pc[0] # "reset"

\* The started hardware threads are numbered from 0 without a gap.
Contiguous == \E n \in Nat : HThreads = 0..n

\* SInv in the terms the lemmas of SchedOpsProofs use.
LEMMA SInvParts ==
  ASSUME SInv
  PROVE  /\ kg \in KernelState /\ ReadyOK(kg) /\ RunOK(kg)
         /\ DesOK(kg, GoingToSleep, OutOfReset) /\ Idle(kg, OutOfReset)
         /\ 0 \in kg.wait_mask \/ kg.runlist[0] # NoThread
<1>1. kg \in KernelState /\ ReadyOK(kg) /\ RunOK(kg)
  BY DEF SInv, TypeOK, ReadyAgrees, RunlistAgrees, ReadyOK, RunOK
<1>2. DesOK(kg, GoingToSleep, OutOfReset)
  BY DEF SInv, Receptive, DesOK, GoingToSleep, OutOfReset
<1>3. Idle(kg, OutOfReset)
  BY DEF SInv, CpuAgrees, Idle, OutOfReset, Running
<1>4. 0 \in kg.wait_mask \/ kg.runlist[0] # NoThread
  BY SchedConstants DEF SInv, CpuAgrees, Running, Asleep, TypeOK, Pcs
<1>. QED BY <1>1, <1>2, <1>3, <1>4

\* The thread a hardware thread in user mode runs is its runlist entry.
LEMMA RunningThread ==
  ASSUME SInv, NEW h \in HThreads, Running(h)
  PROVE  /\ sgp0[h] \in Threads /\ kg.status[sgp0[h]] = "RUNNING"
         /\ kg.hthread[sgp0[h]] = h /\ kg.runlist[h] = sgp0[h]
         /\ h \notin kg.wait_mask
<1>1. h \in Hw BY SchedConstants DEF Hw
<1>2. sgp0[h] \in Threads /\ kg.runlist[h] = sgp0[h]
  BY DEF SInv, TypeOK, CpuAgrees, Running
<1>3. kg.status[sgp0[h]] = "RUNNING" /\ kg.hthread[sgp0[h]] = h
  BY <1>1, <1>2, SchedConstants DEF SInv, RunlistAgrees
<1>4. h \notin kg.wait_mask BY DEF SInv, CpuAgrees, Asleep
<1>. QED BY <1>2, <1>3, <1>4

\* A hardware thread that leaves the kernel through H2K_dosched restores the
\* invariant, and owes no reschedule.
LEMMA DoschedStep ==
  ASSUME SInv, NEW h \in HThreads, NEW STATE k, Dosched(k, h),
         pc[h] \in {"user", "lock"},
         CanDosched(k, GoingToSleep, OutOfReset, h),
         \A i \in HThreads \ {h} : k.runlist[i] = kg.runlist[i],
         \A i \in Hw \ {h} : i \in k.wait_mask <=> i \in kg.wait_mask
  PROVE  SInv' /\ (Contiguous => NoLostResched')
<1>0. /\ h \in Hw /\ h \notin GoingToSleep /\ HThreads \subseteq Hw /\ NoThread \notin Threads
      /\ pc \in [HThreads -> Pcs] /\ sgp0 \in [HThreads -> Threads \cup {NoThread}]
      /\ k.runlist \in [Hw -> Threads \cup {NoThread}] /\ k.wait_mask \subseteq Hw
  BY SchedConstants DEF Hw, GoingToSleep, SInv, TypeOK, CanDosched, KernelState
<1>1. CASE ready_head(k) # NoThread
  <2>. DEFINE new == ready_head(k)
  <2>1. /\ kg' = dosched(k, h) /\ pc' = [pc EXCEPT ![h] = "user"]
        /\ sgp0' = [sgp0 EXCEPT ![h] = new]
    BY <1>1 DEF Dosched
  <2>2. /\ kg' \in KernelState /\ ReadyOK(kg') /\ RunOK(kg')
        /\ DesOK(kg', GoingToSleep, OutOfReset) /\ kg'.priomask # {}
        /\ new \in Threads /\ kg'.runlist = [k.runlist EXCEPT ![h] = new]
        /\ kg'.wait_mask = k.wait_mask
        /\ NeedsResched(kg') => kg'.ipend = TRUE
    <3>1. Dispatched(dosched(k, h), k, GoingToSleep, OutOfReset, h)
      BY <1>1, DoschedRunOK, Zenon
    <3>2. Dispatched(kg', k, GoingToSleep, OutOfReset, h) BY <2>1, <3>1, Zenon
    <3>. QED BY <3>2 DEF Dispatched
  <2>. HIDE DEF new
  <2>3. TypeOK' /\ ReadyAgrees' /\ RunlistAgrees'
    BY <1>0, <2>1, <2>2 DEF TypeOK, Pcs, ReadyAgrees, RunlistAgrees, ReadyOK, RunOK
  <2>4. CpuAgrees'
    <3>1. ASSUME NEW i \in HThreads, i # h
          PROVE  /\ pc'[i] = pc[i] /\ sgp0'[i] = sgp0[i] /\ kg'.runlist[i] = kg.runlist[i]
                 /\ i \in kg'.wait_mask <=> i \in kg.wait_mask
      BY <3>1, <1>0, <2>1, <2>2
    <3>2. /\ pc'[h] = "user" /\ sgp0'[h] = new /\ kg'.runlist[h] = new
          /\ h \notin kg'.wait_mask
      BY <1>0, <2>1, <2>2 DEF CanDosched
    <3>3. \A i \in Hw \ HThreads : kg'.runlist[i] = NoThread /\ i \notin kg'.wait_mask
      BY <1>0, <2>2 DEF CanDosched, Idle, OutOfReset, SInv, CpuAgrees
    <3>. QED BY <1>0, <2>2, <3>1, <3>2, <3>3 DEF SInv, CpuAgrees, Running, Asleep
  <2>5. Receptive' /\ (pc[0] # "reset")'
    BY <1>0, <2>1, <2>2 DEF Receptive, DesOK, GoingToSleep, OutOfReset, SInv, CpuAgrees
  <2>6. Contiguous => NoLostResched'
    <3>1. ASSUME NEW n \in Nat, HThreads = 0..n, BetterReady(kg') \/ IdleReady(kg')
          PROVE  kg'.ipend = TRUE
      <4>1. Idle(kg', HThreads) BY <1>0, <2>2 DEF CanDosched, Idle, OutOfReset
      <4>. QED BY <3>1, <4>1, <2>2, NeedsReschedComplete
    <3>2. BetterIsReady' <=> BetterReady(kg') BY DEF BetterIsReady, BetterReady
    <3>3. IdleWhileReady' <=> IdleReady(kg') BY DEF IdleWhileReady, IdleReady
    <3>4. (kg'.ipend = TRUE) => ReschedComing' BY Zenon DEF ReschedComing
    <3>. QED BY <3>1, <3>2, <3>3, <3>4, Zenon DEF Contiguous, NoLostResched
  <2>. QED BY <2>3, <2>4, <2>5, <2>6 DEF SInv
<1>2. CASE ready_head(k) = NoThread
  <2>1. /\ kg' = dosched(k, h) /\ pc' = [pc EXCEPT ![h] = "sleep"] /\ sgp0' = sgp0
    BY <1>2 DEF Dosched
  <2>2. /\ kg' \in KernelState /\ ReadyOK(kg') /\ RunOK(kg')
        /\ DesOK(kg', GoingToSleep \cup {h}, OutOfReset \cup {h}) /\ kg'.priomask # {}
        /\ kg'.runlist = k.runlist /\ kg'.wait_mask = k.wait_mask \cup {h}
        /\ \A t \in Threads : kg'.status[t] # "READY"
    BY <1>2, <2>1, DoschedSleepOK
  <2>3. TypeOK' /\ ReadyAgrees' /\ RunlistAgrees'
    BY <1>0, <2>1, <2>2 DEF TypeOK, Pcs, ReadyAgrees, RunlistAgrees, ReadyOK, RunOK
  <2>4. CpuAgrees'
    <3>1. ASSUME NEW i \in HThreads, i # h
          PROVE  /\ pc'[i] = pc[i] /\ sgp0'[i] = sgp0[i] /\ kg'.runlist[i] = kg.runlist[i]
                 /\ i \in kg'.wait_mask <=> i \in kg.wait_mask
      BY <3>1, <1>0, <2>1, <2>2
    <3>2. pc'[h] = "sleep" /\ kg'.runlist[h] = NoThread /\ h \in kg'.wait_mask
      BY <1>0, <2>1, <2>2 DEF CanDosched
    <3>3. \A i \in Hw \ HThreads : kg'.runlist[i] = NoThread /\ i \notin kg'.wait_mask
      BY <1>0, <2>2 DEF CanDosched, Idle, OutOfReset, SInv, CpuAgrees
    <3>. QED BY <1>0, <3>1, <3>2, <3>3 DEF SInv, CpuAgrees, Running, Asleep
  <2>5. Receptive' /\ (pc[0] # "reset")'
    BY <1>0, <2>1, <2>2 DEF Receptive, DesOK, GoingToSleep, OutOfReset, SInv, CpuAgrees
  <2>6. NoLostResched' BY <2>2 DEF NoLostResched, BetterIsReady, IdleWhileReady
  <2>. QED BY <2>3, <2>4, <2>5, <2>6 DEF SInv
<1>. QED BY <1>1, <1>2

\* What DoschedStep asks of the state k in which h calls H2K_dosched.
ReadyToDosched(k, h) ==
  /\ CanDosched(k, GoingToSleep, OutOfReset, h)
  /\ \A i \in HThreads \ {h} : k.runlist[i] = kg.runlist[i]
  /\ \A i \in Hw \ {h} : i \in k.wait_mask <=> i \in kg.wait_mask

\* A running thread that has left the runlist, whatever has become of it.
LEMMA OffRunlist ==
  ASSUME SInv, NEW h \in HThreads, Running(h),
         NEW STATE k0, k0 = runlist_remove(kg, sgp0[h]),
         NEW STATE k, k \in KernelState, ReadyOK(k),
         k.runlist = k0.runlist, k.rprios = k0.rprios,
         k.priomask = kg.priomask, k.wait_mask = kg.wait_mask, k.iopen = kg.iopen,
         k.status[sgp0[h]] # "RUNNING",
         \A u \in Threads \ {sgp0[h]} :
           k.status[u] = kg.status[u] /\ k.prio[u] = kg.prio[u] /\ k.hthread[u] = kg.hthread[u]
  PROVE  ReadyToDosched(k, h)
<1>. DEFINE me == sgp0[h]
<1>1. /\ me \in Threads /\ kg.status[me] = "RUNNING" /\ kg.hthread[me] = h
      /\ kg.runlist[h] = me /\ h \notin kg.wait_mask
  BY RunningThread
<1>2. /\ kg \in KernelState /\ ReadyOK(kg) /\ RunOK(kg)
      /\ DesOK(kg, GoingToSleep, OutOfReset) /\ Idle(kg, OutOfReset)
      /\ 0 \in kg.wait_mask \/ kg.runlist[0] # NoThread
  BY SInvParts
<1>. HIDE DEF me
<1>3. /\ k0.runlist = [kg.runlist EXCEPT ![h] = NoThread]
      /\ RunOK(k)
  <2>1. k0 = runlist_remove(kg, me) BY DEF me
  <2>2. OffTheRunlist(k0, kg, me) BY <1>1, <1>2, <2>1, RunlistRemoveOK
  <2>. QED BY <1>1, <2>2 DEF OffTheRunlist, me
<1>4. h \in Hw /\ HThreads \subseteq Hw /\ kg.runlist \in [Hw -> Threads \cup {NoThread}]
  BY <1>2, SchedConstants DEF Hw, KernelState
<1>5. k.runlist[h] = NoThread /\ \A i \in Hw \ {h} : k.runlist[i] = kg.runlist[i]
  BY <1>3, <1>4
<1>6. DesOK(k, GoingToSleep, OutOfReset) BY <1>2 DEF DesOK
<1>7. Idle(k, OutOfReset) BY <1>2, <1>4, <1>5 DEF Idle
<1>8. h \in OutOfReset /\ OutOfReset \subseteq HThreads BY DEF OutOfReset, Running
<1>9. h = 0 \/ 0 \in k.wait_mask \/ k.runlist[0] # NoThread
  BY <1>2, <1>4, <1>5, SchedConstants
<1>10. CanDosched(k, GoingToSleep, OutOfReset, h)
  BY <1>1, <1>3, <1>5, <1>6, <1>7, <1>8, <1>9 DEF CanDosched
<1>. QED BY <1>4, <1>5, <1>10 DEF ReadyToDosched

\* H2K_resched and H2K_sched_yield: the running thread goes to the ready list.
LEMMA Requeue ==
  ASSUME SInv, NEW h \in HThreads, Running(h)
  PROVE  ReadyToDosched(ready_append(runlist_remove(kg, sgp0[h]), sgp0[h]), h)
<1>. DEFINE me == sgp0[h]
            k0 == runlist_remove(kg, me)
            k  == ready_append(k0, me)
<1>1. me \in Threads /\ kg.status[me] = "RUNNING" BY RunningThread
<1>2. kg \in KernelState /\ ReadyOK(kg) /\ RunOK(kg) BY SInvParts
<1>3. /\ k0 \in KernelState /\ k0.ready = kg.ready /\ k0.valids = kg.valids
      /\ k0.status = kg.status /\ k0.prio = kg.prio /\ k0.hthread = kg.hthread
      /\ k0.priomask = kg.priomask /\ k0.wait_mask = kg.wait_mask /\ k0.iopen = kg.iopen
  <2>1. k0 = runlist_remove(kg, me) OBVIOUS
  <2>. HIDE DEF k0, me
  <2>2. OffTheRunlist(k0, kg, me) BY <2>1, <1>1, <1>2, RunlistRemoveOK
  <2>. QED BY <2>2 DEF OffTheRunlist
<1>4. ReadyOK(k0) BY <1>2, <1>3 DEF ReadyOK
<1>. HIDE DEF k0
<1>5. /\ k \in KernelState /\ ReadyOK(k) /\ SameRun(k, k0)
      /\ k.status = [k0.status EXCEPT ![me] = "READY"]
  BY <1>1, <1>3, <1>4, ReadyAppendOK
<1>. HIDE DEF k
<1>6. /\ k.status[me] = "READY" /\ \A u \in Threads \ {me} : k.status[u] = kg.status[u]
  BY <1>1, <1>2, <1>3, <1>5 DEF KernelState
<1>7. ReadyToDosched(k, h)
  <2>1. /\ k.runlist = k0.runlist /\ k.rprios = k0.rprios
        /\ k.priomask = kg.priomask /\ k.wait_mask = kg.wait_mask /\ k.iopen = kg.iopen
        /\ k.prio = kg.prio /\ k.hthread = kg.hthread
    BY <1>3, <1>5 DEF SameRun
  <2>2. k0 = runlist_remove(kg, sgp0[h]) BY DEF k0
  <2>3. \A u \in Threads \ {sgp0[h]} :
          k.status[u] = kg.status[u] /\ k.prio[u] = kg.prio[u] /\ k.hthread[u] = kg.hthread[u]
    BY <1>6, <2>1
  <2>4. k.status[sgp0[h]] # "RUNNING" BY <1>6
  <2>. QED BY <1>5, <2>1, <2>2, <2>3, <2>4, OffRunlist, Zenon
<1>. QED BY <1>7 DEF k, k0

\* H2K_thread_stop: the running thread's context is cleared.
LEMMA Cleared ==
  ASSUME SInv, NEW h \in HThreads, Running(h)
  PROVE  ReadyToDosched(thread_context_clear(runlist_remove(kg, sgp0[h]), sgp0[h]), h)
<1>. DEFINE me == sgp0[h]
            k0 == runlist_remove(kg, me)
            k  == thread_context_clear(k0, me)
            st == [k0.status EXCEPT ![me] = "DEAD"]
            pr == [k0.prio EXCEPT ![me] = 0]
            ht == [k0.hthread EXCEPT ![me] = 0]
            k1 == [k0 EXCEPT !.status = st]
            k2 == [k1 EXCEPT !.prio = pr]
<1>1. me \in Threads /\ kg.status[me] = "RUNNING" BY RunningThread
<1>2. kg \in KernelState /\ ReadyOK(kg) /\ RunOK(kg) BY SInvParts
<1>3. /\ k0 \in KernelState /\ k0.ready = kg.ready /\ k0.valids = kg.valids
      /\ k0.status = kg.status /\ k0.prio = kg.prio /\ k0.hthread = kg.hthread
      /\ k0.priomask = kg.priomask /\ k0.wait_mask = kg.wait_mask /\ k0.iopen = kg.iopen
  <2>1. k0 = runlist_remove(kg, me) OBVIOUS
  <2>. HIDE DEF k0, me
  <2>2. OffTheRunlist(k0, kg, me) BY <2>1, <1>1, <1>2, RunlistRemoveOK
  <2>. QED BY <2>2 DEF OffTheRunlist
<1>. HIDE DEF k0, me
<1>4. st \in [Threads -> Statuses] /\ pr \in [Threads -> Prios] /\ ht \in [Threads -> Hw]
  BY <1>1, <1>3, SchedConstants DEF KernelState, Statuses, Prios, Hw
<1>5. k = [k2 EXCEPT !.hthread = ht]
  <2>1. k1.prio = k0.prio /\ k1.hthread = k0.hthread BY <1>3 DEF KernelState
  <2>2. k2.hthread = k0.hthread BY <1>3 DEF KernelState
  <2>3. k = [k2 EXCEPT !.hthread = [k2.hthread EXCEPT ![me] = 0]]
    BY <2>1 DEF thread_context_clear
  <2>. QED BY <2>2, <2>3
<1>6. k \in KernelState
  <2>. HIDE DEF st, pr, ht, k
  <2>1. k1 \in KernelState BY <1>3, <1>4, SetField
  <2>. HIDE DEF k1
  <2>2. k2 \in KernelState BY <2>1, <1>4, SetField
  <2>. HIDE DEF k2
  <2>. QED BY <1>4, <1>5, <2>2, SetField
<1>7. /\ k.status = st /\ k.prio = pr /\ k.hthread = ht /\ k.ready = kg.ready
      /\ k.valids = kg.valids /\ k.runlist = k0.runlist /\ k.rprios = k0.rprios
      /\ k.priomask = kg.priomask /\ k.wait_mask = kg.wait_mask /\ k.iopen = kg.iopen
  BY <1>3, <1>5 DEF KernelState
<1>8. \A u \in Threads \ {me} :
        k.status[u] = kg.status[u] /\ k.prio[u] = kg.prio[u] /\ k.hthread[u] = kg.hthread[u]
  BY <1>3, <1>7 DEF KernelState
<1>9. k.status[me] = "DEAD" BY <1>1, <1>3, <1>7 DEF KernelState
<1>. HIDE DEF k, st, pr, ht
<1>10. ReadyOK(k) BY <1>1, <1>2, <1>7, <1>8, <1>9 DEF ReadyOK
<1>11. ReadyToDosched(k, h)
  <2>1. k0 = runlist_remove(kg, sgp0[h]) BY DEF k0, me
  <2>2. k.status[sgp0[h]] # "RUNNING" BY <1>9 DEF me
  <2>3. \A u \in Threads \ {sgp0[h]} :
          k.status[u] = kg.status[u] /\ k.prio[u] = kg.prio[u] /\ k.hthread[u] = kg.hthread[u]
    BY <1>8 DEF me
  <2>. QED BY <1>6, <1>7, <1>10, <2>1, <2>2, <2>3, OffRunlist, Zenon
<1>. QED BY <1>11 DEF k, k0, me

\* H2K_resched out of wait mode: the hardware thread leaves wait_mask.
LEMMA WokenUp ==
  ASSUME SInv, NEW h \in HThreads, pc[h] = "lock", sgp0[h] = NoThread
  PROVE  ReadyToDosched([kg EXCEPT !.wait_mask = @ \ {h}], h)
<1>. DEFINE w == kg.wait_mask \ {h}
            k == [kg EXCEPT !.wait_mask = w]
<1>1. /\ kg \in KernelState /\ ReadyOK(kg) /\ RunOK(kg)
      /\ DesOK(kg, GoingToSleep, OutOfReset) /\ Idle(kg, OutOfReset)
      /\ 0 \in kg.wait_mask \/ kg.runlist[0] # NoThread
  BY SInvParts
<1>2. w \in SUBSET Hw /\ h \notin w BY <1>1 DEF KernelState
<1>3. k \in KernelState
  <2>. HIDE DEF w
  <2>. QED BY <1>1, <1>2, SetField, Zenon
<1>4. /\ k.wait_mask = w /\ k.ready = kg.ready /\ k.valids = kg.valids
      /\ k.runlist = kg.runlist /\ k.rprios = kg.rprios /\ k.priomask = kg.priomask
      /\ k.iopen = kg.iopen /\ k.status = kg.status /\ k.prio = kg.prio
      /\ k.hthread = kg.hthread
  BY <1>1 DEF KernelState
<1>. HIDE DEF k
<1>5. kg.runlist[h] = NoThread BY DEF SInv, CpuAgrees, Running
<1>6. ReadyOK(k) /\ RunOK(k) BY <1>1, <1>4 DEF ReadyOK, RunOK
<1>7. DesOK(k, GoingToSleep, OutOfReset) /\ Idle(k, OutOfReset) BY <1>1, <1>4 DEF DesOK, Idle
<1>8. h \in OutOfReset /\ OutOfReset \subseteq HThreads BY DEF OutOfReset
<1>9. CanDosched(k, GoingToSleep, OutOfReset, h)
  BY <1>1, <1>2, <1>3, <1>4, <1>5, <1>6, <1>7, <1>8 DEF CanDosched
<1>10. ReadyToDosched(k, h) BY <1>4, <1>9 DEF ReadyToDosched
<1>. QED BY <1>10 DEF k

\* Every step that ends in H2K_dosched.
LEMMA DoschedActions ==
  ASSUME SInv, NEW h \in HThreads, Resched(h) \/ Yield(h) \/ ThreadStop(h)
  PROVE  SInv' /\ (Contiguous => NoLostResched')
<1>1. ASSUME NEW STATE k, Dosched(k, h), ReadyToDosched(k, h), pc[h] \in {"user", "lock"}
      PROVE  SInv' /\ (Contiguous => NoLostResched')
  BY <1>1, DoschedStep DEF ReadyToDosched
<1>2. pc[h] = "user" => Running(h) BY DEF SInv, CpuAgrees, Running
<1>3. CASE Resched(h)
  <2>1. CASE sgp0[h] # NoThread
    <3>1. pc[h] = "lock" /\ Dosched(ready_append(runlist_remove(kg, sgp0[h]), sgp0[h]), h)
      BY <1>3, <2>1 DEF Resched
    <3>2. Running(h) BY <2>1, <3>1 DEF Running
    <3>3. ReadyToDosched(ready_append(runlist_remove(kg, sgp0[h]), sgp0[h]), h) BY <3>2, Requeue
    <3>. QED BY <1>1, <3>1, <3>3
  <2>2. CASE sgp0[h] = NoThread
    <3>1. pc[h] = "lock" /\ Dosched([kg EXCEPT !.wait_mask = @ \ {h}], h)
      BY <1>3, <2>2 DEF Resched
    <3>2. ReadyToDosched([kg EXCEPT !.wait_mask = @ \ {h}], h) BY <2>2, <3>1, WokenUp
    <3>. QED BY <1>1, <3>1, <3>2
  <2>. QED BY <2>1, <2>2
<1>4. CASE Yield(h)
  <2>1. /\ pc[h] = "user"
        /\ Dosched(ready_append(runlist_remove(kg, sgp0[h]), sgp0[h]), kg.hthread[sgp0[h]])
    BY <1>4 DEF Yield
  <2>2. kg.hthread[sgp0[h]] = h BY <1>2, <2>1, RunningThread
  <2>3. ReadyToDosched(ready_append(runlist_remove(kg, sgp0[h]), sgp0[h]), h)
    BY <1>2, <2>1, Requeue
  <2>4. Dosched(ready_append(runlist_remove(kg, sgp0[h]), sgp0[h]), h) BY <2>1, <2>2, Zenon
  <2>. QED BY <1>1, <2>1, <2>3, <2>4
<1>5. CASE ThreadStop(h)
  <2>1. /\ pc[h] = "user"
        /\ Dosched(thread_context_clear(runlist_remove(kg, sgp0[h]), sgp0[h]), h)
    BY <1>5 DEF ThreadStop
  <2>2. ReadyToDosched(thread_context_clear(runlist_remove(kg, sgp0[h]), sgp0[h]), h)
    BY <1>2, <2>1, Cleared
  <2>. QED BY <1>1, <2>1, <2>2
<1>. QED BY <1>3, <1>4, <1>5

\* The new thread of H2K_thread_create, once it is on the ready list.
LEMMA NewThread ==
  ASSUME SInv, NEW t \in Threads, NEW p \in Prios, kg.status[t] = "DEAD",
         NEW STATE k, k = ready_append([kg EXCEPT !.prio[t] = p], t)
  PROVE  /\ k \in KernelState /\ ReadyOK(k) /\ RunOK(k)
         /\ k.runlist = kg.runlist /\ k.wait_mask = kg.wait_mask
         /\ k.priomask = kg.priomask /\ k.iopen = kg.iopen /\ k.ipend = kg.ipend
<1>. DEFINE pr == [kg.prio EXCEPT ![t] = p]
            k0 == [kg EXCEPT !.prio = pr]
<1>1. kg \in KernelState /\ ReadyOK(kg) /\ RunOK(kg) BY SInvParts
<1>2. pr \in [Threads -> Prios] BY <1>1 DEF KernelState
<1>3. k0 \in KernelState
  <2>. HIDE DEF pr
  <2>. QED BY <1>1, <1>2, SetField
<1>4. /\ k0.prio = pr /\ k0.status = kg.status /\ k0.ready = kg.ready
      /\ k0.valids = kg.valids /\ k0.runlist = kg.runlist /\ k0.rprios = kg.rprios
      /\ k0.hthread = kg.hthread /\ k0.wait_mask = kg.wait_mask
      /\ k0.priomask = kg.priomask /\ k0.iopen = kg.iopen /\ k0.ipend = kg.ipend
  BY <1>1 DEF KernelState
<1>5. k = ready_append(k0, t) OBVIOUS
<1>. HIDE DEF k0
<1>6. \A u \in Threads \ {t} : k0.prio[u] = kg.prio[u] BY <1>1, <1>4 DEF KernelState
<1>. HIDE DEF pr
<1>7. ReadyOK(k0) BY <1>1, <1>4, <1>6 DEF ReadyOK
<1>8. /\ k \in KernelState /\ ReadyOK(k) /\ SameRun(k, k0)
      /\ k.status = [k0.status EXCEPT ![t] = "READY"]
  <2>1. k0.status[t] # "READY" BY <1>4
  <2>. QED BY <1>3, <1>5, <1>7, <2>1, ReadyAppendOK, Zenon
<1>9. /\ k.runlist = kg.runlist /\ k.rprios = kg.rprios /\ k.hthread = kg.hthread
      /\ k.wait_mask = kg.wait_mask /\ k.priomask = kg.priomask /\ k.iopen = kg.iopen
      /\ k.ipend = kg.ipend /\ k.prio = k0.prio
  BY <1>4, <1>8 DEF SameRun
<1>10. /\ k.status[t] = "READY" /\ \A u \in Threads \ {t} : k.status[u] = kg.status[u]
  <2>1. kg.status \in [Threads -> Statuses] BY <1>1 DEF KernelState
  <2>2. k.status = [kg.status EXCEPT ![t] = "READY"] BY <1>4, <1>8, Zenon
  <2>. QED BY <2>1, <2>2
<1>11. RunOK(k)
  <2>1. kg.runlist \in [Hw -> Threads \cup {NoThread}] BY <1>1 DEF KernelState
  <2>2. \A i \in Hw : kg.runlist[i] # t BY <1>1, SchedConstants DEF RunOK
  <2>. QED BY <1>1, <1>6, <1>9, <1>10, <2>1, <2>2 DEF RunOK
<1>. QED BY <1>8, <1>9, <1>11

\* H2K_thread_create, which leaves the kernel through check_sanity_unlock.
LEMMA CreateStep ==
  ASSUME SInv, NEW h \in HThreads, NEW t \in Threads, NEW p \in Prios, ThreadCreate(h, t, p)
  PROVE  SInv' /\ (Contiguous => NoLostResched')
<1>. DEFINE k == ready_append([kg EXCEPT !.prio[t] = p], t)
<1>1. /\ pc' = pc /\ sgp0' = sgp0 /\ kg.status[t] = "DEAD" /\ kg' = check_sanity(k)
  BY DEF ThreadCreate, Return
<1>2. /\ k \in KernelState /\ ReadyOK(k) /\ RunOK(k)
      /\ k.runlist = kg.runlist /\ k.wait_mask = kg.wait_mask
      /\ k.priomask = kg.priomask /\ k.iopen = kg.iopen /\ k.ipend = kg.ipend
  BY <1>1, NewThread
<1>. HIDE DEF k
<1>3. /\ DesOK(k, GoingToSleep, OutOfReset) /\ Idle(k, OutOfReset)
      /\ 0 \in k.wait_mask \/ k.runlist[0] # NoThread
  BY <1>2, SInvParts DEF DesOK, Idle
<1>4. OutOfReset \in SUBSET HThreads BY DEF OutOfReset
<1>5. /\ kg' \in KernelState /\ SameLists(kg', k) /\ DesOK(kg', GoingToSleep, OutOfReset)
      /\ kg'.priomask # {} /\ (kg'.ipend <=> k.ipend \/ NeedsResched(k))
  BY <1>1, <1>2, <1>3, <1>4, CheckSanityOK, Zenon
<1>6. ReadyOK(kg') /\ RunOK(kg') BY <1>2, <1>5 DEF SameLists, ReadyOK, RunOK
<1>7. kg'.runlist = kg.runlist /\ kg'.wait_mask = kg.wait_mask BY <1>2, <1>5 DEF SameLists
<1>8. TypeOK' /\ ReadyAgrees' /\ RunlistAgrees'
  BY <1>1, <1>5, <1>6 DEF SInv, TypeOK, ReadyAgrees, RunlistAgrees, ReadyOK, RunOK
<1>9. CpuAgrees' BY <1>1, <1>7 DEF SInv, CpuAgrees, Running, Asleep
<1>10. Receptive' /\ (pc[0] # "reset")'
  BY <1>1, <1>5 DEF SInv, Receptive, DesOK, GoingToSleep, OutOfReset
<1>11. Contiguous => NoLostResched'
  <2>1. ASSUME NEW n \in Nat, HThreads = 0..n, BetterReady(kg') \/ IdleReady(kg')
        PROVE  kg'.ipend = TRUE
    <3>1. Idle(kg', HThreads) BY <1>7, SInvParts DEF Idle, OutOfReset
    <3>2. NeedsResched(kg') BY <2>1, <3>1, <1>5, <1>6, NeedsReschedComplete
    <3>3. NeedsResched(k)
      BY <3>2, <1>5 DEF SameLists, NeedsResched, runlist_worst_prio, RunningPrios,
                        ready_best_prio, ready_any_valid
    <3>4. kg'.ipend \in BOOLEAN BY <1>5 DEF KernelState
    <3>. QED BY <3>3, <3>4, <1>5, Zenon
  <2>2. BetterIsReady' <=> BetterReady(kg') BY DEF BetterIsReady, BetterReady
  <2>3. IdleWhileReady' <=> IdleReady(kg') BY DEF IdleWhileReady, IdleReady
  <2>4. (kg'.ipend = TRUE) => ReschedComing' BY Zenon DEF ReschedComing
  <2>. QED BY <2>1, <2>2, <2>3, <2>4, Zenon DEF Contiguous, NoLostResched
<1>. QED BY <1>8, <1>9, <1>10, <1>11 DEF SInv

\* The lists and the running threads are as they were.
SameSched ==
  /\ kg'.ready = kg.ready /\ kg'.valids = kg.valids /\ kg'.runlist = kg.runlist
  /\ kg'.rprios = kg.rprios /\ kg'.status = kg.status /\ kg'.prio = kg.prio
  /\ kg'.hthread = kg.hthread

LEMMA SameSchedOK ==
  ASSUME SInv, SameSched
  PROVE  ReadyAgrees' /\ RunlistAgrees'
BY DEF SInv, ReadyAgrees, RunlistAgrees, SameSched

\* The end of H2K_switch to NULL.
LEMMA EnterWaitStep ==
  ASSUME SInv, NEW h \in HThreads, EnterWait(h)
  PROVE  SInv' /\ (NoLostResched => NoLostResched')
<1>. DEFINE o == kg.iopen \cup {h}
<1>1. /\ pc[h] = "sleep" /\ pc' = [pc EXCEPT ![h] = "wait"]
      /\ sgp0' = [sgp0 EXCEPT ![h] = NoThread] /\ kg' = [kg EXCEPT !.iopen = o]
  BY DEF EnterWait
<1>2. kg \in KernelState /\ pc \in [HThreads -> Pcs]
      /\ sgp0 \in [HThreads -> Threads \cup {NoThread}] /\ h \in Hw
  BY SchedConstants DEF SInv, TypeOK, Hw
<1>3. o \in SUBSET Hw BY <1>2 DEF KernelState
<1>4. /\ SameSched /\ kg'.priomask = kg.priomask /\ kg'.wait_mask = kg.wait_mask
      /\ kg'.iopen = o /\ kg'.ipend = kg.ipend
  BY <1>1, <1>2 DEF KernelState, SameSched
<1>5. kg' \in KernelState
  <2>. HIDE DEF o
  <2>. QED BY <1>1, <1>2, <1>3, SetField, Zenon
<1>6. TypeOK' BY <1>1, <1>2, <1>5 DEF TypeOK, Pcs
<1>7. CpuAgrees'
  <2>1. ASSUME NEW i \in HThreads, i # h PROVE pc'[i] = pc[i] /\ sgp0'[i] = sgp0[i]
    BY <2>1, <1>1, <1>2
  <2>2. pc'[h] = "wait" /\ sgp0'[h] = NoThread BY <1>1, <1>2
  <2>. QED BY <1>1, <1>4, <2>1, <2>2 DEF SInv, CpuAgrees, Running, Asleep, SameSched
<1>8. Receptive' /\ (pc[0] # "reset")' BY <1>1, <1>2, <1>4 DEF SInv, Receptive
<1>9. NoLostResched => NoLostResched'
  BY <1>1, <1>2, <1>4 DEF NoLostResched, BetterIsReady, IdleWhileReady, ReschedComing,
                         SameSched
<1>. QED BY <1>4, <1>6, <1>7, <1>8, <1>9, SameSchedOK DEF SInv

\* RESCHED is taken: it is no longer pending, but a handler is under way.
LEMMA TakeReschedStep ==
  ASSUME SInv, NEW h \in HThreads, TakeResched(h)
  PROVE  SInv' /\ NoLostResched'
<1>1. /\ pc[h] \in {"user", "wait"} /\ pc' = [pc EXCEPT ![h] = "resched"]
      /\ sgp0' = sgp0 /\ kg' = [kg EXCEPT !.ipend = FALSE]
  BY DEF TakeResched
<1>2. kg \in KernelState /\ pc \in [HThreads -> Pcs] BY DEF SInv, TypeOK
<1>3. /\ SameSched /\ kg'.priomask = kg.priomask /\ kg'.wait_mask = kg.wait_mask
      /\ kg'.iopen = kg.iopen
  BY <1>1, <1>2 DEF KernelState, SameSched
<1>4. kg' \in KernelState BY <1>1, <1>2, SetField, Zenon
<1>5. TypeOK' BY <1>1, <1>2, <1>4 DEF SInv, TypeOK, Pcs
<1>6. CpuAgrees'
  <2>1. ASSUME NEW i \in HThreads, i # h PROVE pc'[i] = pc[i] BY <2>1, <1>1, <1>2
  <2>2. pc'[h] = "resched" BY <1>1, <1>2
  <2>. QED BY <1>1, <1>3, <2>1, <2>2 DEF SInv, CpuAgrees, Running, Asleep, SameSched
<1>7. Receptive' /\ (pc[0] # "reset")' BY <1>1, <1>2, <1>3 DEF SInv, Receptive
<1>8. NoLostResched' BY <1>1, <1>2 DEF NoLostResched, ReschedComing
<1>. QED BY <1>3, <1>5, <1>6, <1>7, <1>8, SameSchedOK DEF SInv

\* H2K_resched acknowledges the interrupt before it takes the lock.
LEMMA ReschedCiadStep ==
  ASSUME SInv, NEW h \in HThreads, ReschedCiad(h)
  PROVE  SInv' /\ NoLostResched'
<1>1. /\ pc[h] = "resched" /\ pc' = [pc EXCEPT ![h] = "lock"] /\ sgp0' = sgp0 /\ kg' = kg
  BY DEF ReschedCiad
<1>2. pc \in [HThreads -> Pcs] BY DEF SInv, TypeOK
<1>3. ReadyAgrees' /\ RunlistAgrees' /\ TypeOK'
  BY <1>1, <1>2 DEF SInv, ReadyAgrees, RunlistAgrees, TypeOK, Pcs
<1>4. CpuAgrees'
  <2>1. ASSUME NEW i \in HThreads, i # h PROVE pc'[i] = pc[i] BY <2>1, <1>1, <1>2
  <2>2. pc'[h] = "lock" BY <1>1, <1>2
  <2>. QED BY <1>1, <2>1, <2>2 DEF SInv, CpuAgrees, Running, Asleep
<1>5. Receptive' /\ (pc[0] # "reset")' BY <1>1, <1>2 DEF SInv, Receptive
<1>6. NoLostResched' BY <1>1, <1>2 DEF NoLostResched, ReschedComing
<1>. QED BY <1>3, <1>4, <1>5, <1>6 DEF SInv

\* A hardware thread goes to sleep straight out of reset.
LEMMA HandleResetStep ==
  ASSUME SInv, NEW h \in HThreads, HandleReset(h)
  PROVE  SInv'
<1>1. /\ pc[h] = "reset" /\ pc' = [pc EXCEPT ![h] = "sleep"] /\ sgp0' = sgp0
      /\ kg' = switch_sleep(kg, h)
  BY DEF HandleReset
<1>2. kg \in KernelState /\ pc \in [HThreads -> Pcs] /\ OutOfReset \in SUBSET HThreads
  BY DEF SInv, TypeOK, OutOfReset
<1>3. DesOK(kg, GoingToSleep, OutOfReset) BY SInvParts
<1>4. /\ kg' \in KernelState /\ DesOK(kg', GoingToSleep \cup {h}, OutOfReset \cup {h})
      /\ kg'.priomask # {} /\ kg'.wait_mask = kg.wait_mask \cup {h} /\ SameSched
  <2>. DEFINE r == switch_sleep(kg, h)
  <2>1. /\ r \in KernelState /\ DesOK(r, GoingToSleep \cup {h}, OutOfReset \cup {h})
        /\ r.priomask # {} /\ r.wait_mask = kg.wait_mask \cup {h} /\ r.ready = kg.ready
        /\ r.valids = kg.valids /\ r.runlist = kg.runlist /\ r.rprios = kg.rprios
        /\ r.status = kg.status /\ r.prio = kg.prio /\ r.hthread = kg.hthread
    BY <1>2, <1>3, SwitchSleepOK, ZenonT(60)
  <2>. HIDE DEF r
  <2>2. kg' = r BY <1>1 DEF r
  <2>. QED BY <2>1, <2>2, Zenon DEF SameSched
<1>5. TypeOK' BY <1>1, <1>2, <1>4 DEF SInv, TypeOK, Pcs
<1>6. CpuAgrees'
  <2>1. ASSUME NEW i \in HThreads, i # h PROVE pc'[i] = pc[i] BY <2>1, <1>1, <1>2
  <2>2. pc'[h] = "sleep" BY <1>1, <1>2
  <2>. QED BY <1>1, <1>4, <2>1, <2>2 DEF SInv, CpuAgrees, Running, Asleep, SameSched
<1>7. Receptive' /\ (pc[0] # "reset")'
  BY <1>1, <1>2, <1>4 DEF SInv, Receptive, DesOK, GoingToSleep, OutOfReset
<1>. QED BY <1>4, <1>5, <1>6, <1>7, SameSchedOK DEF SInv

\* Every step keeps the structure, and no step but the one out of reset loses
\* a reschedule.
LEMMA NextStep ==
  ASSUME SInv, [Next]_schedVars
  PROVE  /\ SInv'
         /\ Contiguous /\ NoLostResched /\ (\A h \in HThreads : pc[h] # "reset")
              => NoLostResched'
<1>1. ASSUME NEW h \in HThreads, LockedStep(h)
      PROVE  SInv' /\ (Contiguous /\ pc[h] # "reset" => NoLostResched')
  <2>1. CASE HandleReset(h)
    <3>1. pc[h] = "reset" BY <2>1 DEF HandleReset
    <3>. QED BY <2>1, <3>1, HandleResetStep
  <2>2. CASE Resched(h) \/ Yield(h) \/ ThreadStop(h) BY <2>2, DoschedActions
  <2>3. ASSUME NEW t \in Threads, NEW p \in Prios, ThreadCreate(h, t, p)
        PROVE  SInv' /\ (Contiguous => NoLostResched')
    BY <2>3, CreateStep
  <2>. QED BY <1>1, <2>1, <2>2, <2>3 DEF LockedStep
<1>2. ASSUME NEW h \in HThreads, UnlockedStep(h) PROVE SInv' /\ (NoLostResched => NoLostResched')
  BY <1>2, EnterWaitStep, TakeReschedStep, ReschedCiadStep DEF UnlockedStep
<1>3. CASE UNCHANGED schedVars
  <2>. USE <1>3 DEF schedVars
  <2>1. TypeOK' /\ ReadyAgrees' /\ RunlistAgrees'
    BY DEF SInv, TypeOK, ReadyAgrees, RunlistAgrees
  <2>2. CpuAgrees' /\ Receptive' /\ (pc[0] # "reset")'
    BY DEF SInv, CpuAgrees, Receptive, Running, Asleep
  <2>3. NoLostResched => NoLostResched'
    BY DEF NoLostResched, BetterIsReady, IdleWhileReady, ReschedComing
  <2>. QED BY <2>1, <2>2, <2>3 DEF SInv
<1>. QED BY <1>1, <1>2, <1>3 DEF Next

\* Hardware thread 0 runs the boot thread; the others are in reset or asleep.
LEMMA BootKernelOK ==
  BootKernel \in KernelState /\ ReadyOK(BootKernel) /\ RunOK(BootKernel)
<1>. USE SchedConstants, BootConstants
<1>1. /\ BootKernel.ready \in [Prios -> Seq(Threads)] /\ BootKernel.valids \in SUBSET Prios
      /\ BootKernel.runlist \in [Hw -> Threads \cup {NoThread}]
      /\ BootKernel.rprios \in [Hw -> Prios \cup {-1}]
  BY DEF BootKernel, Hw
<1>2. /\ BootKernel.priomask \in SUBSET Hw /\ BootKernel.wait_mask \in SUBSET Hw
      /\ BootKernel.iopen \in SUBSET Hw /\ BootKernel.ipend \in BOOLEAN
  BY DEF BootKernel, Hw
<1>3. /\ BootKernel.status \in [Threads -> Statuses] /\ BootKernel.prio \in [Threads -> Prios]
      /\ BootKernel.hthread \in [Threads -> Hw]
  BY DEF BootKernel, Hw, Prios, Statuses
<1>4. BootKernel \in KernelState BY <1>1, <1>2, <1>3 DEF BootKernel, KernelState
<1>5. ReadyOK(BootKernel)
  <2>1. \A p \in Prios : BootKernel.ready[p] = <<>> BY DEF BootKernel
  <2>2. IsInjective(<<>>) /\ ToSet(<<>>) = {} BY DEF IsInjective, ToSet
  <2>3. BootKernel.valids = {} /\ \A t \in Threads : BootKernel.status[t] # "READY"
    BY DEF BootKernel
  <2>. QED BY <2>1, <2>2, <2>3 DEF ReadyOK
<1>6. RunOK(BootKernel) BY DEF BootKernel, RunOK, Hw, Prios
<1>. QED BY <1>4, <1>5, <1>6

LEMMA BootInitOK == BootInit => SInv
<1>. SUFFICES ASSUME BootInit PROVE SInv OBVIOUS
<1>. USE SchedConstants, BootConstants
<1>1. /\ kg = BootKernel /\ sgp0 = BootSgp0
      /\ pc = [h \in HThreads |-> IF h = 0 THEN "user" ELSE "reset"]
  BY DEF BootInit
<1>2. TypeOK BY <1>1, BootKernelOK DEF TypeOK, Pcs, BootSgp0
<1>3. ReadyAgrees /\ RunlistAgrees
  BY <1>1, BootKernelOK DEF ReadyAgrees, RunlistAgrees, ReadyOK, RunOK
<1>4. CpuAgrees BY <1>1 DEF CpuAgrees, Running, Asleep, BootKernel, BootSgp0, Hw
<1>5. Receptive /\ pc[0] # "reset" BY <1>1 DEF Receptive, BootKernel
<1>. QED BY <1>2, <1>3, <1>4, <1>5 DEF SInv

LEMMA InitOK ==
  Init => SInv /\ NoLostResched /\ \A h \in HThreads : pc[h] # "reset"
<1>. SUFFICES ASSUME Init
              PROVE  SInv /\ NoLostResched /\ \A h \in HThreads : pc[h] # "reset"
  OBVIOUS
<1>. USE SchedConstants, BootConstants
<1>. DEFINE w == HThreads \ {0}
            k1 == [BootKernel EXCEPT !.wait_mask = w]
            k2 == [k1 EXCEPT !.priomask = HThreads]
<1>1. /\ kg = [k2 EXCEPT !.iopen = HThreads] /\ sgp0 = BootSgp0
      /\ pc = [h \in HThreads |-> IF h = 0 THEN "user" ELSE "wait"]
  BY DEF Init
<1>2. w \in SUBSET Hw /\ HThreads \in SUBSET Hw BY DEF Hw
<1>3. /\ kg.ready = BootKernel.ready /\ kg.valids = BootKernel.valids
      /\ kg.runlist = BootKernel.runlist /\ kg.rprios = BootKernel.rprios
      /\ kg.status = BootKernel.status /\ kg.prio = BootKernel.prio
      /\ kg.hthread = BootKernel.hthread
      /\ kg.wait_mask = w /\ kg.priomask = HThreads /\ kg.iopen = HThreads
  BY <1>1 DEF BootKernel
<1>4. kg \in KernelState
  <2>. HIDE DEF w
  <2>1. k1 \in KernelState BY <1>2, BootKernelOK, SetField, Zenon
  <2>. HIDE DEF k1
  <2>2. k2 \in KernelState BY <1>2, <2>1, SetField, Zenon
  <2>. HIDE DEF k2
  <2>. QED BY <1>1, <1>2, <2>2, SetField, Zenon
<1>. HIDE DEF k1, k2
<1>5. TypeOK BY <1>1, <1>4 DEF TypeOK, Pcs, BootSgp0
<1>6. ReadyAgrees /\ RunlistAgrees
  BY <1>3, BootKernelOK DEF ReadyAgrees, RunlistAgrees, ReadyOK, RunOK
<1>7. CpuAgrees
  <2>1. kg.runlist = [h \in Hw |-> IF h = 0 THEN BootThread ELSE NoThread]
    BY <1>3 DEF BootKernel
  <2>. QED BY <1>1, <1>2, <1>3, <2>1 DEF CpuAgrees, Running, Asleep, BootSgp0
<1>8. Receptive /\ \A h \in HThreads : pc[h] # "reset" BY <1>1, <1>3 DEF Receptive
<1>9. NoLostResched
  BY <1>3 DEF NoLostResched, BetterIsReady, IdleWhileReady, BootKernel
<1>. QED BY <1>5, <1>6, <1>7, <1>8, <1>9 DEF SInv

-----------------------------------------------------------------------------
\* From the moment the hardware threads are started, and whatever the threads
\* do, the ready list, the runlist and the masks agree with the threads and
\* with the hardware threads, and some hardware thread can take RESCHED.
THEOREM BootSafety ==
  BootSpec => [](TypeOK /\ ReadyAgrees /\ RunlistAgrees /\ CpuAgrees /\ Receptive)
<1>1. SInv /\ [Next]_schedVars => SInv' BY NextStep
<1>2. SInv => TypeOK /\ ReadyAgrees /\ RunlistAgrees /\ CpuAgrees /\ Receptive BY DEF SInv
<1>. QED BY <1>1, <1>2, BootInitOK, PTL DEF BootSpec

\* The same once all of them are asleep.
THEOREM Safety ==
  Spec => [](TypeOK /\ ReadyAgrees /\ RunlistAgrees /\ CpuAgrees /\ Receptive)
<1>1. SInv /\ [Next]_schedVars => SInv' BY NextStep
<1>2. SInv => TypeOK /\ ReadyAgrees /\ RunlistAgrees /\ CpuAgrees /\ Receptive BY DEF SInv
<1>. QED BY <1>1, <1>2, InitOK, PTL DEF Spec

\* Once started, a hardware thread never goes back to reset.
LEMMA StaysOutOfReset ==
  ASSUME SInv, [Next]_schedVars, \A h \in HThreads : pc[h] # "reset"
  PROVE  \A h \in HThreads : pc'[h] # "reset"
<1>1. pc \in [HThreads -> Pcs] BY DEF SInv, TypeOK
<1>2. ASSUME NEW k, NEW i, Dosched(k, i) PROVE \A h \in HThreads : pc'[h] # "reset"
  BY <1>1, <1>2 DEF Dosched
<1>3. ASSUME NEW h \in HThreads, LockedStep(h) PROVE \A i \in HThreads : pc'[i] # "reset"
  BY <1>1, <1>2, <1>3, ZenonT(60) DEF LockedStep, HandleReset, Resched, Yield, ThreadStop, ThreadCreate, Return
<1>4. ASSUME NEW h \in HThreads, UnlockedStep(h) PROVE \A i \in HThreads : pc'[i] # "reset"
  BY <1>1, <1>4 DEF UnlockedStep, EnterWait, TakeResched, ReschedCiad
<1>. QED BY <1>3, <1>4 DEF Next, schedVars

\* When the started hardware threads are numbered without a gap, no reschedule
\* is ever lost: a thread that is ready and better than a running one, or
\* ready while a hardware thread sleeps, has RESCHED pending or being handled.
THEOREM NoLostReschedThm ==
  ASSUME Contiguous
  PROVE  Spec => []NoLostResched
<1>. DEFINE NInv == SInv /\ NoLostResched /\ \A h \in HThreads : pc[h] # "reset"
<1>1. Init => NInv BY InitOK
<1>2. NInv /\ [Next]_schedVars => NInv' BY NextStep, StaysOutOfReset
<1>3. NInv => NoLostResched OBVIOUS
<1>. QED BY <1>1, <1>2, <1>3, PTL DEF Spec
=============================================================================
