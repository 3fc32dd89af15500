--------------------------- MODULE SchedOpsProofs ---------------------------
(***************************************************************************)
(* Lemmas about the operators of SchedOps: what the ring, ready list and   *)
(* runlist functions and H2K_dosched leave behind, for any number of       *)
(* threads, priorities and hardware threads.                               *)
(***************************************************************************)
EXTENDS SchedOps, FiniteSetTheorems, SequenceTheorems, TLAPS

-----------------------------------------------------------------------------
(* Minimum and maximum of bounded sets of numbers *)

\* A bounded set of numbers that is not empty has a least element.
LEMMA BoundedMin ==
  ASSUME NEW N \in Nat, NEW S \in SUBSET (0..N), S # {}
  PROVE  \E x \in S : \A y \in S : x <= y
<1>. DEFINE Seg(x) == 0..(x - 1)
            T == {Seg(x) : x \in S}
            R == StrictSubsetOrdering(0..N)
<1>1. IsWellFoundedOn(R, FiniteSubsetsOf(0..N))
  BY FS_Interval, FS_StrictSubsetOrderingWellFounded
<1>2. T \subseteq FiniteSubsetsOf(0..N)
  <2>1. ASSUME NEW x \in S PROVE Seg(x) \in FiniteSubsetsOf(0..N)
     <3>1. Seg(x) \subseteq 0..N OBVIOUS
     <3>2. IsFiniteSet(Seg(x)) BY FS_Interval
     <3>. QED BY <3>1, <3>2 DEF FiniteSubsetsOf
  <2>. QED BY <2>1
<1>3. T # {} OBVIOUS
<1>4. \E u \in T : \A v \in T : ~ (<<v, u>> \in R)
  <2>. HIDE DEF T, R
  <2>. QED BY <1>1, <1>2, <1>3, WFMin
<1>5. PICK x \in S : \A y \in S : ~ (<<Seg(y), Seg(x)>> \in R)
  BY <1>4
<1>6. ASSUME NEW y \in S, y < x PROVE FALSE
  <2>1. Seg(y) \subseteq Seg(x) BY <1>6
  <2>2. y \in Seg(x) /\ y \notin Seg(y) BY <1>6
  <2>3. Seg(y) \in SUBSET (0..N) /\ Seg(x) \in SUBSET (0..N) OBVIOUS
  <2>4. <<Seg(y), Seg(x)>> \in R
    BY <2>1, <2>2, <2>3 DEF StrictSubsetOrdering
  <2>. QED BY <2>4, <1>5
<1>. QED BY <1>6

\* Min returns the least element.
LEMMA MinIsLeast ==
  ASSUME NEW N \in Nat, NEW S \in SUBSET (0..N), S # {}
  PROVE  Min(S) \in S /\ \A y \in S : Min(S) <= y
BY BoundedMin DEF Min

\* Max returns the greatest element.
LEMMA MaxIsGreatest ==
  ASSUME NEW N \in Nat, NEW S \in SUBSET (0..N), S # {}
  PROVE  Max(S) \in S /\ \A y \in S : y <= Max(S)
<1>. DEFINE M == {N - y : y \in S}
<1>0. \A y \in S : N - y \in 0..N /\ N - y \in M OBVIOUS
<1>1. M \in SUBSET (0..N) /\ M # {} BY <1>0
<1>2. PICK z \in M : \A y \in M : z <= y
  <2>. HIDE DEF M
  <2>. QED BY <1>1, BoundedMin
<1>3. PICK x \in S : z = N - x BY <1>2
<1>4. \A y \in S : x >= y
  <2>1. \A y \in S : N - x <= N - y BY <1>0, <1>2, <1>3
  <2>2. S \subseteq Int OBVIOUS
  <2>. QED BY <2>1, <2>2
<1>. QED BY <1>4 DEF Max

-----------------------------------------------------------------------------
(* Rings *)

\* Removing position i of a sequence shifts the later elements down by one.
LEMMA RemoveAtForm ==
  ASSUME NEW T, NEW s \in Seq(T), NEW i \in 1..Len(s)
  PROVE  /\ RemoveAt(s, i) \in Seq(T)
         /\ Len(RemoveAt(s, i)) = Len(s) - 1
         /\ \A j \in 1..(Len(s) - 1) :
              RemoveAt(s, i)[j] = IF j < i THEN s[j] ELSE s[j + 1]
<1>. DEFINE a == SubSeq(s, 1, i - 1)
            b == SubSeq(s, i + 1, Len(s))
<1>1. a \in Seq(T) /\ Len(a) = i - 1 /\ \A j \in 1..(i - 1) : a[j] = s[j]
  OBVIOUS
<1>2. b \in Seq(T) /\ Len(b) = Len(s) - i /\ \A j \in 1..(Len(s) - i) : b[j] = s[i + j]
  OBVIOUS
<1>3. RemoveAt(s, i) = a \o b BY DEF RemoveAt
<1>. HIDE DEF a, b
<1>4. a \o b \in Seq(T) /\ Len(a \o b) = Len(s) - 1
  <2>1. a \o b \in Seq(T) /\ Len(a \o b) = Len(a) + Len(b)
    BY <1>1, <1>2, ConcatProperties
  <2>. QED BY <2>1, <1>1, <1>2
<1>5. \A j \in 1..(Len(s) - 1) : (a \o b)[j] = IF j < i THEN a[j] ELSE b[j - i + 1]
  BY <1>1, <1>2, ConcatProperties
<1>6. ASSUME NEW j \in 1..(Len(s) - 1)
      PROVE  (a \o b)[j] = IF j < i THEN s[j] ELSE s[j + 1]
  <2>1. CASE j < i BY <2>1, <1>5, <1>1
  <2>2. CASE ~(j < i)
    <3>1. j - i + 1 \in 1..(Len(s) - i) /\ i + (j - i + 1) = j + 1 BY <2>2
    <3>. QED BY <3>1, <2>2, <1>5, <1>2
  <2>. QED BY <2>1, <2>2
<1>. QED BY <1>3, <1>4, <1>6

\* H2K_ring_remove takes exactly t out of a ring that holds t once.
LEMMA RingRemoveProps ==
  ASSUME NEW T, NEW r \in Seq(T), IsInjective(r), NEW t \in ToSet(r)
  PROVE  /\ RingRemove(r, t) \in Seq(T)
         /\ IsInjective(RingRemove(r, t))
         /\ ToSet(RingRemove(r, t)) = ToSet(r) \ {t}
<1>. DEFINE i == CHOOSE n \in DOMAIN r : r[n] = t
            q == RemoveAt(r, i)
<1>1. i \in 1..Len(r) /\ r[i] = t BY DEF ToSet
<1>2. q = RingRemove(r, t) BY DEF RingRemove
<1>. HIDE DEF i
<1>3. /\ q \in Seq(T)
      /\ Len(q) = Len(r) - 1
      /\ \A j \in 1..(Len(r) - 1) : q[j] = IF j < i THEN r[j] ELSE r[j + 1]
  BY <1>1, RemoveAtForm
<1>. HIDE DEF q
<1>4. DOMAIN q = 1..(Len(r) - 1) /\ DOMAIN r = 1..Len(r) BY <1>3
<1>5. IsInjective(q)
  <2>. DEFINE up(j) == IF j < i THEN j ELSE j + 1
  <2>1. \A j \in 1..(Len(r) - 1) : up(j) \in 1..Len(r) /\ q[j] = r[up(j)]
    BY <1>1, <1>3
  <2>2. \A j, l \in 1..(Len(r) - 1) : up(j) = up(l) => j = l BY <1>1
  <2>3. \A m, n \in 1..Len(r) : r[m] = r[n] => m = n BY <1>4 DEF IsInjective
  <2>. HIDE DEF up
  <2>. QED BY <2>1, <2>2, <2>3, <1>4 DEF IsInjective
<1>6. ASSUME NEW x \in ToSet(q) PROVE x \in ToSet(r) /\ x # t
  BY <1>1, <1>3, <1>4, SMTT(30) DEF ToSet, IsInjective
<1>7. ASSUME NEW x \in ToSet(r), x # t PROVE x \in ToSet(q)
  <2>1. PICK n \in 1..Len(r) : r[n] = x BY <1>4 DEF ToSet
  <2>2. n # i BY <2>1, <1>1, <1>7
  <2>3. CASE n < i
    <3>1. n \in DOMAIN q /\ q[n] = x BY <2>1, <2>3, <1>1, <1>3, <1>4
    <3>. QED BY <3>1 DEF ToSet
  <2>4. CASE n > i
    <3>1. n - 1 \in DOMAIN q /\ q[n - 1] = x BY <2>1, <2>4, <1>1, <1>3, <1>4
    <3>. QED BY <3>1 DEF ToSet
  <2>. QED BY <2>2, <2>3, <2>4, <1>1
<1>. QED BY <1>2, <1>3, <1>5, <1>6, <1>7

\* H2K_ring_append adds exactly t to a ring that does not hold it.
LEMMA RingAppendProps ==
  ASSUME NEW T, NEW r \in Seq(T), IsInjective(r), NEW t \in T, t \notin ToSet(r)
  PROVE  /\ RingAppend(r, t) \in Seq(T)
         /\ IsInjective(RingAppend(r, t))
         /\ ToSet(RingAppend(r, t)) = ToSet(r) \cup {t}
         /\ RingAppend(r, t) # <<>>
<1>. DEFINE q == Append(r, t)
<1>1. /\ q \in Seq(T) /\ Len(q) = Len(r) + 1
      /\ DOMAIN q = 1..(Len(r) + 1) /\ DOMAIN r = 1..Len(r)
      /\ \A j \in 1..Len(r) : q[j] = r[j]
      /\ q[Len(r) + 1] = t
  OBVIOUS
<1>2. q # <<>> BY <1>1
<1>. HIDE DEF q
<1>3. IsInjective(q)
  <2>1. \A j \in 1..Len(r) : r[j] # t BY <1>1 DEF ToSet
  <2>2. Len(r) \in Nat OBVIOUS
  <2>. QED BY <2>1, <2>2, <1>1 DEF IsInjective
<1>4. ToSet(q) = ToSet(r) \cup {t}
  <2>1. Len(r) \in Nat OBVIOUS
  <2>. QED BY <1>1, <2>1 DEF ToSet
<1>. QED BY <1>1, <1>2, <1>3, <1>4 DEF RingAppend, q

-----------------------------------------------------------------------------
(* The consistency of the ready list and of the runlist, as Sched states   *)
(* them of kg, for any kernel state k.                                     *)

ReadyOK(k) ==
  /\ \A p \in Prios : IsInjective(k.ready[p])
  /\ \A p \in Prios : p \in k.valids <=> k.ready[p] # <<>>
  /\ \A t \in Threads, p \in Prios :
       t \in ToSet(k.ready[p]) <=> k.status[t] = "READY" /\ k.prio[t] = p

RunOK(k) ==
  /\ \A h \in Hw :
       IF k.runlist[h] = NoThread THEN k.rprios[h] = -1
       ELSE /\ k.status[k.runlist[h]] = "RUNNING"
            /\ k.hthread[k.runlist[h]] = h
            /\ k.rprios[h] = k.prio[k.runlist[h]]
  /\ \A t \in Threads : k.status[t] = "RUNNING" => k.runlist[k.hthread[t]] = t

\* Assigning a field a value of its type gives a kernel state.
LEMMA SetField ==
  ASSUME NEW k \in KernelState
  PROVE  /\ \A x \in [Prios -> Seq(Threads)] : [k EXCEPT !.ready = x] \in KernelState
         /\ \A x \in SUBSET Prios : [k EXCEPT !.valids = x] \in KernelState
         /\ \A x \in [Hw -> Threads \cup {NoThread}] : [k EXCEPT !.runlist = x] \in KernelState
         /\ \A x \in [Hw -> Prios \cup {-1}] : [k EXCEPT !.rprios = x] \in KernelState
         /\ \A x \in SUBSET Hw : [k EXCEPT !.priomask = x] \in KernelState
         /\ \A x \in SUBSET Hw : [k EXCEPT !.wait_mask = x] \in KernelState
         /\ \A x \in SUBSET Hw : [k EXCEPT !.iopen = x] \in KernelState
         /\ \A x \in BOOLEAN : [k EXCEPT !.ipend = x] \in KernelState
         /\ \A x \in [Threads -> Statuses] : [k EXCEPT !.status = x] \in KernelState
         /\ \A x \in [Threads -> Prios] : [k EXCEPT !.prio = x] \in KernelState
         /\ \A x \in [Threads -> Hw] : [k EXCEPT !.hthread = x] \in KernelState
<1>1. ASSUME NEW x \in [Prios -> Seq(Threads)] PROVE [k EXCEPT !.ready = x] \in KernelState
  BY DEF KernelState
<1>2. ASSUME NEW x \in SUBSET Prios PROVE [k EXCEPT !.valids = x] \in KernelState
  BY DEF KernelState
<1>3. ASSUME NEW x \in [Hw -> Threads \cup {NoThread}] PROVE [k EXCEPT !.runlist = x] \in KernelState
  BY DEF KernelState
<1>4. ASSUME NEW x \in [Hw -> Prios \cup {-1}] PROVE [k EXCEPT !.rprios = x] \in KernelState
  BY DEF KernelState
<1>5. ASSUME NEW x \in SUBSET Hw PROVE [k EXCEPT !.priomask = x] \in KernelState
  BY DEF KernelState
<1>6. ASSUME NEW x \in SUBSET Hw PROVE [k EXCEPT !.wait_mask = x] \in KernelState
  BY DEF KernelState
<1>7. ASSUME NEW x \in SUBSET Hw PROVE [k EXCEPT !.iopen = x] \in KernelState
  BY DEF KernelState
<1>8. ASSUME NEW x \in BOOLEAN PROVE [k EXCEPT !.ipend = x] \in KernelState
  BY ZenonT(60) DEF KernelState
<1>9. ASSUME NEW x \in [Threads -> Statuses] PROVE [k EXCEPT !.status = x] \in KernelState
  BY DEF KernelState
<1>10. ASSUME NEW x \in [Threads -> Prios] PROVE [k EXCEPT !.prio = x] \in KernelState
  BY DEF KernelState
<1>11. ASSUME NEW x \in [Threads -> Hw] PROVE [k EXCEPT !.hthread = x] \in KernelState
  BY DEF KernelState
<1>. QED BY <1>1, <1>2, <1>3, <1>4, <1>5, <1>6, <1>7, <1>8, <1>9, <1>10, <1>11

\* The fields that H2K_ready_append and H2K_ready_remove do not touch.
SameRun(r, k) ==
  /\ r.runlist = k.runlist /\ r.rprios = k.rprios
  /\ r.priomask = k.priomask /\ r.wait_mask = k.wait_mask
  /\ r.iopen = k.iopen /\ r.ipend = k.ipend
  /\ r.prio = k.prio /\ r.hthread = k.hthread

\* H2K_ready_append keeps the ready list consistent.
LEMMA ReadyAppendOK ==
  ASSUME NEW k \in KernelState, ReadyOK(k),
         NEW t \in Threads, k.status[t] # "READY"
  PROVE  /\ ready_append(k, t) \in KernelState
         /\ ReadyOK(ready_append(k, t))
         /\ SameRun(ready_append(k, t), k)
         /\ ready_append(k, t).status = [k.status EXCEPT ![t] = "READY"]
<1>. DEFINE r == ready_append(k, t)
            p0 == k.prio[t]
<1>1. /\ k.ready \in [Prios -> Seq(Threads)] /\ k.valids \in SUBSET Prios
      /\ k.status \in [Threads -> Statuses] /\ k.prio \in [Threads -> Prios]
  BY DEF KernelState
<1>2. p0 \in Prios BY <1>1
<1>3. k.ready[p0] \in Seq(Threads) /\ IsInjective(k.ready[p0]) /\ t \notin ToSet(k.ready[p0])
  BY <1>1, <1>2 DEF ReadyOK
<1>4. /\ RingAppend(k.ready[p0], t) \in Seq(Threads)
      /\ IsInjective(RingAppend(k.ready[p0], t))
      /\ ToSet(RingAppend(k.ready[p0], t)) = ToSet(k.ready[p0]) \cup {t}
      /\ RingAppend(k.ready[p0], t) # <<>>
  BY <1>3, RingAppendProps
<1>5. /\ r.ready = [k.ready EXCEPT ![p0] = RingAppend(k.ready[p0], t)]
      /\ r.valids = k.valids \cup {p0}
      /\ r.status = [k.status EXCEPT ![t] = "READY"]
      /\ SameRun(r, k)
  BY DEF ready_append, KernelState, SameRun
<1>6. r \in KernelState
  <2>1. [k.ready EXCEPT ![p0] = RingAppend(k.ready[p0], t)] \in [Prios -> Seq(Threads)]
    BY <1>1, <1>4
  <2>2. [k.status EXCEPT ![t] = "READY"] \in [Threads -> Statuses] BY <1>1 DEF Statuses
  <2>. DEFINE k1 == [k EXCEPT !.ready = [k.ready EXCEPT ![p0] = RingAppend(k.ready[p0], t)]]
              k2 == [k1 EXCEPT !.valids = k.valids \cup {p0}]
  <2>3. r = [k2 EXCEPT !.status = [k.status EXCEPT ![t] = "READY"]]
    BY DEF ready_append, KernelState
  <2>4. k1 \in KernelState BY <2>1, SetField
  <2>. HIDE DEF k1
  <2>5. k2 \in KernelState BY <2>4, <1>1, <1>2, SetField
  <2>. HIDE DEF k2
  <2>. QED BY <2>2, <2>3, <2>5, SetField, ZenonT(60)
<1>7. ReadyOK(r)
  <2>1. \A p \in Prios : IsInjective(r.ready[p]) BY <1>1, <1>4, <1>5 DEF ReadyOK
  <2>2. \A p \in Prios : p \in r.valids <=> r.ready[p] # <<>>
    BY <1>1, <1>4, <1>5, SMTT(30) DEF ReadyOK
  <2>3. ASSUME NEW u \in Threads, NEW p \in Prios
        PROVE  u \in ToSet(r.ready[p]) <=> r.status[u] = "READY" /\ r.prio[u] = p
    BY <1>1, <1>4, <1>5, SMTT(30) DEF ReadyOK, SameRun
  <2>. QED BY <2>1, <2>2, <2>3 DEF ReadyOK
<1>. QED BY <1>5, <1>6, <1>7

\* H2K_ready_remove, followed by anything that makes the thread RUNNING, keeps
\* the ready list consistent.
LEMMA ReadyRemoveOK ==
  ASSUME NEW k \in KernelState, ReadyOK(k),
         NEW t \in Threads, k.status[t] = "READY"
  PROVE  /\ ready_remove(k, t) \in KernelState
         /\ SameRun(ready_remove(k, t), k)
         /\ ready_remove(k, t).status = k.status
         /\ \A k2 \in KernelState :
              /\ k2.ready = ready_remove(k, t).ready
              /\ k2.valids = ready_remove(k, t).valids
              /\ k2.prio = k.prio
              /\ k2.status = [k.status EXCEPT ![t] = "RUNNING"]
              => ReadyOK(k2)
<1>. DEFINE r == ready_remove(k, t)
            p0 == k.prio[t]
            ring == RingRemove(k.ready[p0], t)
            va == IF ring = <<>> THEN k.valids \ {p0} ELSE k.valids
<1>1. /\ k.ready \in [Prios -> Seq(Threads)] /\ k.valids \in SUBSET Prios
      /\ k.status \in [Threads -> Statuses] /\ k.prio \in [Threads -> Prios]
  BY DEF KernelState
<1>2. p0 \in Prios BY <1>1
<1>3. k.ready[p0] \in Seq(Threads) /\ IsInjective(k.ready[p0]) /\ t \in ToSet(k.ready[p0])
  BY <1>1, <1>2 DEF ReadyOK
<1>4. /\ ring \in Seq(Threads) /\ IsInjective(ring)
      /\ ToSet(ring) = ToSet(k.ready[p0]) \ {t}
  BY <1>3, RingRemoveProps
<1>5. /\ r.ready = [k.ready EXCEPT ![p0] = ring]
      /\ r.valids = va
      /\ r.status = k.status
      /\ SameRun(r, k)
  BY DEF ready_remove, KernelState, SameRun
<1>6. r \in KernelState
  <2>. DEFINE k1 == [k EXCEPT !.ready = [k.ready EXCEPT ![p0] = ring]]
  <2>1. r = [k1 EXCEPT !.valids = va] BY DEF ready_remove, KernelState
  <2>2. [k.ready EXCEPT ![p0] = ring] \in [Prios -> Seq(Threads)] BY <1>1, <1>4
  <2>3. k1 \in KernelState BY <2>2, SetField
  <2>4. va \in SUBSET Prios BY <1>1
  <2>. HIDE DEF k1, va
  <2>. QED BY <2>1, <2>3, <2>4, SetField
<1>7. ASSUME NEW k2 \in KernelState,
             k2.ready = r.ready, k2.valids = r.valids, k2.prio = k.prio,
             k2.status = [k.status EXCEPT ![t] = "RUNNING"]
      PROVE  ReadyOK(k2)
  <2>. HIDE DEF r, ring
  <2>1. \A p \in Prios : IsInjective(k2.ready[p]) BY <1>1, <1>4, <1>5, <1>7 DEF ReadyOK
  <2>2. ASSUME NEW p \in Prios PROVE p \in k2.valids <=> k2.ready[p] # <<>>
    <3>1. k.ready[p0] # <<>> BY <1>3 DEF ToSet
    <3>2. p0 \in k.valids BY <1>2, <3>1 DEF ReadyOK
    <3>3. k2.ready[p] = IF p = p0 THEN ring ELSE k.ready[p] BY <1>1, <1>2, <1>5, <1>7
    <3>4. k2.valids = va BY <1>5, <1>7
    <3>. QED BY <3>2, <3>3, <3>4 DEF ReadyOK
  <2>3. ASSUME NEW u \in Threads, NEW p \in Prios
        PROVE  u \in ToSet(k2.ready[p]) <=> k2.status[u] = "READY" /\ k2.prio[u] = p
    BY <1>1, <1>4, <1>5, <1>7 DEF ReadyOK
  <2>. QED BY <2>1, <2>2, <2>3 DEF ReadyOK
<1>. QED BY <1>5, <1>6, <1>7

\* H2K_ready_getbest finds a ready thread of the best priority, if there is one.
LEMMA ReadyHeadOK ==
  ASSUME NEW k \in KernelState, ReadyOK(k)
  PROVE  /\ ready_any_valid(k) <=> \E t \in Threads : k.status[t] = "READY"
         /\ ready_any_valid(k) <=> ready_head(k) # NoThread
         /\ ready_any_valid(k) =>
              /\ ready_head(k) \in Threads
              /\ k.status[ready_head(k)] = "READY"
         /\ ready_best_prio(k) \in 0..MAX_PRIOS
         /\ \A t \in Threads : k.status[t] = "READY" => ready_best_prio(k) <= k.prio[t]
<1>1. /\ k.ready \in [Prios -> Seq(Threads)] /\ k.valids \in SUBSET (0..MAX_PRIO)
      /\ k.prio \in [Threads -> Prios] /\ Prios = 0..MAX_PRIO
      /\ MAX_PRIO \in Nat /\ NoThread \notin Threads
  BY SchedConstants DEF KernelState, Prios
<1>2. \A t \in Threads : k.status[t] = "READY" => k.prio[t] \in k.valids
  <2>1. ASSUME NEW t \in Threads, k.status[t] = "READY" PROVE k.prio[t] \in k.valids
    <3>1. t \in ToSet(k.ready[k.prio[t]]) BY <1>1, <2>1 DEF ReadyOK
    <3>2. k.ready[k.prio[t]] # <<>> BY <3>1 DEF ToSet
    <3>. QED BY <1>1, <3>2 DEF ReadyOK
  <2>. QED BY <2>1
<1>3. CASE k.valids = {}
  BY <1>1, <1>2, <1>3 DEF ready_any_valid, ready_best_prio, ready_head, MAX_PRIOS
<1>4. CASE k.valids # {}
  <2>. DEFINE b == ready_best_prio(k)
  <2>1. b \in k.valids /\ \A p \in k.valids : b <= p
    BY <1>1, <1>4, MinIsLeast DEF ready_best_prio
  <2>2. ready_any_valid(k) /\ ready_head(k) = Head(k.ready[b])
    BY <1>1, <2>1 DEF ready_any_valid, ready_head, MAX_PRIOS
  <2>3. k.ready[b] # <<>> /\ k.ready[b] \in Seq(Threads) BY <1>1, <2>1 DEF ReadyOK
  <2>4. Head(k.ready[b]) \in ToSet(k.ready[b]) /\ Head(k.ready[b]) \in Threads
    BY <2>3 DEF ToSet
  <2>5. k.status[ready_head(k)] = "READY" /\ ready_head(k) \in Threads
    BY <1>1, <2>1, <2>2, <2>4 DEF ReadyOK
  <2>6. ready_head(k) # NoThread BY <1>1, <2>5
  <2>7. b \in 0..MAX_PRIOS BY <1>1, <2>1 DEF MAX_PRIOS
  <2>. QED BY <1>2, <2>1, <2>2, <2>5, <2>6, <2>7
<1>. QED BY <1>3, <1>4

-----------------------------------------------------------------------------
(* The runlist *)

\* The runlist scans stay inside the runlist and see hardware thread 0; when
\* the started hardware threads are contiguous they see exactly those.
LEMMA ScanBounds ==
  /\ Scan \subseteq Hw
  /\ 0 \in Scan
  /\ \A n \in Nat : HThreads = 0..n => Scan = HThreads
<1>1. IsFiniteSet(Hw) /\ Cardinality(Hw) = MAX_HTHREADS
  BY SchedConstants, FS_Interval DEF Hw
<1>2. HThreads \subseteq Hw BY SchedConstants DEF Hw
<1>3. IsFiniteSet(HThreads) /\ hthreads <= MAX_HTHREADS
  BY <1>1, <1>2, FS_Subset DEF hthreads
<1>4. hthreads \in Nat BY <1>3, FS_CardinalityType DEF hthreads
<1>5. hthreads # 0 BY <1>3, SchedConstants, FS_EmptySet DEF hthreads
<1>6. ASSUME NEW n \in Nat, HThreads = 0..n PROVE Scan = HThreads
  <2>1. hthreads = n + 1 BY <1>6, FS_Interval DEF hthreads
  <2>. QED BY <1>6, <2>1 DEF Scan
<1>. QED BY <1>3, <1>4, <1>5, <1>6, SchedConstants DEF Scan, Hw

\* H2K_runlist_worst_prio and H2K_runlist_worst_prio_hthread find the worst
\* priority among the scanned entries, and an entry that has it.
LEMMA WorstPrioOK ==
  ASSUME NEW k \in KernelState
  PROVE  LET w == runlist_worst_prio(k)
             h == runlist_worst_prio_hthread(k)
         IN  /\ \A i \in Scan : k.rprios[i] <= w
             /\ w \in 0..MAX_PRIOS
             /\ (\E i \in Scan : k.rprios[i] # -1) =>
                  w \in Prios /\ h \in Scan /\ k.rprios[h] = w
<1>. DEFINE w == runlist_worst_prio(k)
            h == runlist_worst_prio_hthread(k)
            R == RunningPrios(k)
<1>1. k.rprios \in [Hw -> Prios \cup {-1}] /\ Prios = 0..MAX_PRIO /\ MAX_PRIO \in Nat
  BY SchedConstants DEF KernelState, Prios
<1>2. \A i \in Scan : k.rprios[i] \in Prios \cup {-1} BY <1>1, ScanBounds
<1>3. R \in SUBSET (0..MAX_PRIO) BY <1>1, <1>2 DEF RunningPrios
<1>4. \A i \in Scan : k.rprios[i] # -1 => k.rprios[i] \in R BY DEF RunningPrios
<1>5. CASE R = {}
  <2>1. w = MAX_PRIOS BY <1>5 DEF runlist_worst_prio
  <2>2. \A i \in Scan : k.rprios[i] = -1 BY <1>4, <1>5
  <2>. QED BY <1>1, <2>1, <2>2 DEF MAX_PRIOS
<1>6. CASE R # {}
  <2>1. Max(R) \in R /\ \A y \in R : y <= Max(R) BY <1>1, <1>3, <1>6, MaxIsGreatest
  <2>2. w = Max(R) BY <1>6 DEF runlist_worst_prio
  <2>3. w \in Prios BY <1>1, <1>3, <2>1, <2>2
  <2>4. \A i \in Scan : k.rprios[i] <= w
    BY <1>1, <1>2, <1>4, <2>1, <2>2, <2>3
  <2>. DEFINE I == {i \in Scan : k.rprios[i] = Max(R)}
  <2>5. I # {} BY <2>1 DEF RunningPrios
  <2>6. I \in SUBSET (0..(MAX_HTHREADS - 1)) BY ScanBounds DEF Hw
  <2>7. h = Min(I) BY <1>6 DEF runlist_worst_prio_hthread
  <2>8. h \in I
    <3>. DEFINE N == MAX_HTHREADS - 1
    <3>1. N \in Nat /\ I \in SUBSET (0..N) BY <2>6, SchedConstants
    <3>. HIDE DEF I, N
    <3>2. Min(I) \in I BY <2>5, <3>1, MinIsLeast
    <3>. QED BY <2>7, <3>2
  <2>9. h \in Scan /\ k.rprios[h] = w BY <2>2, <2>8
  <2>10. w \in 0..MAX_PRIOS BY <1>1, <2>3 DEF MAX_PRIOS
  <2>. QED BY <2>3, <2>4, <2>9, <2>10, Zenon
<1>. QED BY <1>5, <1>6

-----------------------------------------------------------------------------
(* The designated hardware threads *)

\* priomask covers the sleeping hardware threads, is within the ones out of
\* reset (A), and its members have their IMASK open, those in S (between the
\* unlock and the setimask of H2K_switch) excepted.
DesOK(k, S, A) ==
  /\ k.wait_mask \subseteq k.priomask
  /\ k.priomask \subseteq A
  /\ \A i \in k.priomask \ S : i \in k.iopen

\* The fields that the priomask and IMASK bookkeeping does not touch.
SameLists(r, k) ==
  /\ r.ready = k.ready /\ r.valids = k.valids
  /\ r.runlist = k.runlist /\ r.rprios = k.rprios /\ r.wait_mask = k.wait_mask
  /\ r.status = k.status /\ r.prio = k.prio /\ r.hthread = k.hthread

Idle(k, A) == \A i \in Hw \ A : k.runlist[i] = NoThread

WithMasks(k, m, o) == [k EXCEPT !.priomask = m, !.iopen = o]

\* Writing priomask and IMASKs changes nothing else.
LEMMA SetMasks ==
  ASSUME NEW k \in KernelState, NEW m \in SUBSET Hw, NEW o \in SUBSET Hw
  PROVE  /\ WithMasks(k, m, o) \in KernelState
         /\ SameLists(WithMasks(k, m, o), k)
         /\ WithMasks(k, m, o).priomask = m
         /\ WithMasks(k, m, o).iopen = o
         /\ WithMasks(k, m, o).ipend = k.ipend
<1>. DEFINE k1 == [k EXCEPT !.priomask = m]
            r  == WithMasks(k, m, o)
<1>1. k1 \in KernelState BY SetField, Zenon
<1>2. r = [k1 EXCEPT !.iopen = o] BY DEF WithMasks
<1>3. r \in KernelState
  <2>. HIDE DEF k1
  <2>. QED BY <1>1, <1>2, SetField, Zenon
<1>4. SameLists(r, k) /\ r.priomask = m /\ r.iopen = o /\ r.ipend = k.ipend
  BY DEF KernelState, SameLists, WithMasks
<1>. QED BY <1>3, <1>4

\* H2K_check_sanity designates a hardware thread if none is, and raises RESCHED
\* exactly when it is needed.
LEMMA CheckSanityOK ==
  ASSUME NEW k \in KernelState, RunOK(k), NEW S, NEW A \in SUBSET HThreads, DesOK(k, S, A), Idle(k, A),
         0 \in k.wait_mask \/ k.runlist[0] # NoThread,
         NEW r, r = check_sanity(k)
  PROVE  /\ r \in KernelState /\ SameLists(r, k)
         /\ DesOK(r, S, A) /\ r.priomask # {}
         /\ r.ipend <=> k.ipend \/ NeedsResched(k)
<1>. DEFINE k1 == IF k.priomask = {} THEN lowprio_notify(k) ELSE k
            w  == runlist_worst_prio_hthread(k)
<1>1. /\ k1 \in KernelState /\ SameLists(k1, k) /\ DesOK(k1, S, A)
      /\ k1.priomask # {} /\ k1.ipend = k.ipend
  <2>1. CASE k.priomask # {} BY <2>1 DEF SameLists
  <2>2. CASE k.priomask = {}
    <3>1. k.wait_mask = {} /\ 0 \in Hw BY <2>2, SchedConstants DEF DesOK, Hw
    <3>2. k.rprios[0] # -1
      <4>1. k.runlist[0] \in Threads /\ k.rprios[0] = k.prio[k.runlist[0]]
        BY <3>1 DEF RunOK, KernelState
      <4>2. k.prio[k.runlist[0]] \in Nat
        BY <4>1, SchedConstants DEF KernelState, Prios
      <4>. QED BY <4>1, <4>2
    <3>3. w \in Scan /\ k.rprios[w] = runlist_worst_prio(k) /\ runlist_worst_prio(k) \in Prios
      BY <3>2, ScanBounds, WorstPrioOK, Zenon
    <3>4. w \in Hw /\ k.rprios[w] # -1
      BY <3>3, ScanBounds, SchedConstants DEF Prios
    <3>5. w \in A BY <3>4 DEF RunOK, Idle
    <3>. HIDE DEF w
    <3>6. k1 = WithMasks(k, k.priomask \cup {w}, k.iopen \cup {w})
      BY <2>2 DEF lowprio_notify, KernelState, WithMasks, w
    <3>7. k.priomask \cup {w} \in SUBSET Hw /\ k.iopen \cup {w} \in SUBSET Hw
      BY <3>4 DEF KernelState
    <3>. HIDE DEF k1
    <3>8. /\ k1 \in KernelState /\ SameLists(k1, k) /\ k1.ipend = k.ipend
          /\ k1.priomask = k.priomask \cup {w} /\ k1.iopen = k.iopen \cup {w}
      BY <3>6, <3>7, SetMasks
    <3>. QED BY <2>2, <3>1, <3>5, <3>8 DEF DesOK, SameLists
  <2>. QED BY <2>1, <2>2
<1>2. NeedsResched(k1) <=> NeedsResched(k)
  <2>1. k1.rprios = k.rprios /\ k1.valids = k.valids /\ k1.wait_mask = k.wait_mask
    BY <1>1 DEF SameLists
  <2>. HIDE DEF k1
  <2>. QED BY <2>1 DEF NeedsResched, runlist_worst_prio, RunningPrios,
                      ready_best_prio, ready_any_valid
<1>3. r = [k1 EXCEPT !.ipend = k1.ipend \/ NeedsResched(k1)]
  BY DEF check_sanity
<1>. HIDE DEF k1
<1>4. r \in KernelState
  <2>. DEFINE b == k1.ipend \/ NeedsResched(k1)
  <2>1. b \in BOOLEAN OBVIOUS
  <2>. HIDE DEF b
  <2>2. [k1 EXCEPT !.ipend = b] \in KernelState BY <1>1, <2>1, SetField
  <2>. QED BY <1>3, <2>2 DEF b
<1>5. /\ SameLists(r, k1) /\ r.priomask = k1.priomask /\ r.iopen = k1.iopen
      /\ r.ipend = (k1.ipend \/ NeedsResched(k1))
  BY <1>1, <1>3 DEF SameLists, KernelState
<1>6. DesOK(r, S, A) /\ SameLists(r, k) /\ r.priomask # {}
  BY <1>1, <1>5 DEF DesOK, SameLists
<1>7. r.ipend <=> k.ipend \/ NeedsResched(k) BY <1>1, <1>2, <1>5, Zenon
<1>. QED BY <1>4, <1>6, <1>7, Zenon

\* H2K_raise_lowprio keeps the designation of the sleeping hardware threads.
LEMMA RaiseLowprioOK ==
  ASSUME NEW k \in KernelState, NEW S, NEW A \in SUBSET HThreads, DesOK(k, S, A),
         NEW r, r = raise_lowprio(k)
  PROVE  /\ r \in KernelState /\ SameLists(r, k)
         /\ DesOK(r, S, A) /\ r.ipend = k.ipend
<1>. DEFINE o == k.iopen \ {ct0(k.priomask)}
<1>1. CASE k.wait_mask # {} BY <1>1 DEF raise_lowprio, SameLists
<1>2. CASE k.wait_mask = {}
  <2>1. r = WithMasks(k, {}, o)
    BY <1>2 DEF raise_lowprio, KernelState, WithMasks
  <2>2. o \in SUBSET Hw BY DEF KernelState
  <2>. HIDE DEF o
  <2>3. /\ r \in KernelState /\ SameLists(r, k)
        /\ r.priomask = {} /\ r.ipend = k.ipend
    BY <2>1, <2>2, SetMasks
  <2>4. DesOK(r, S, A) BY <1>2, <2>3 DEF DesOK, SameLists
  <2>. QED BY <2>3, <2>4
<1>. QED BY <1>1, <1>2

\* So does the bookkeeping H2K_dosched does before it runs a thread.
LEMMA DesignateOK ==
  ASSUME NEW k \in KernelState, NEW S, NEW A \in SUBSET HThreads, DesOK(k, S, A),
         NEW h \in A, h \notin k.wait_mask, NEW p,
         NEW r, r = designate(k, p, h)
  PROVE  r \in KernelState /\ SameLists(r, k) /\ DesOK(r, S, A)
<1>0. h \in Hw BY SchedConstants DEF Hw
<1>1. CASE k.wait_mask = {} /\ p > runlist_worst_prio(k) /\ h \notin k.priomask
  <2>. DEFINE k1 == raise_lowprio(k)
              m == k1.priomask \cup {h}
              o == k1.iopen \cup {h}
  <2>1. k1 \in KernelState /\ SameLists(k1, k) /\ DesOK(k1, S, A)
    BY RaiseLowprioOK, Zenon
  <2>2. r = WithMasks(k1, m, o)
    <3>. HIDE DEF k1
    <3>1. r = [k1 EXCEPT !.priomask = @ \cup {h}, !.iopen = @ \cup {h}]
      BY <1>1 DEF designate, k1
    <3>. QED BY <2>1, <3>1 DEF KernelState, WithMasks
  <2>. HIDE DEF k1
  <2>3. m \in SUBSET Hw /\ o \in SUBSET Hw BY <1>0, <2>1 DEF KernelState
  <2>4. r \in KernelState /\ SameLists(r, k1) /\ r.priomask = m /\ r.iopen = o
    <3>. HIDE DEF m, o
    <3>. QED BY <2>1, <2>2, <2>3, SetMasks
  <2>5. SameLists(r, k) /\ DesOK(r, S, A) BY <2>1, <2>4 DEF DesOK, SameLists
  <2>. QED BY <2>4, <2>5
<1>2. CASE ~(k.wait_mask = {} /\ p > runlist_worst_prio(k)) /\ h \in k.priomask
  <2>. DEFINE m == k.priomask \ {h}
              o == k.iopen \ {h}
  <2>1. r = WithMasks(k, m, o)
    BY <1>2 DEF designate, KernelState, WithMasks
  <2>2. m \in SUBSET Hw /\ o \in SUBSET Hw BY DEF KernelState
  <2>3. r \in KernelState /\ SameLists(r, k) /\ r.priomask = m /\ r.iopen = o
    <3>. HIDE DEF m, o
    <3>. QED BY <2>1, <2>2, SetMasks
  <2>4. DesOK(r, S, A) BY <2>3 DEF DesOK, SameLists
  <2>. QED BY <2>3, <2>4
<1>3. CASE r = k BY <1>3 DEF SameLists
<1>. QED BY <1>1, <1>2, <1>3 DEF designate

-----------------------------------------------------------------------------
(* H2K_dosched *)

PushOn(k, t, h) == runlist_push([k EXCEPT !.hthread[t] = h], t)

\* H2K_runlist_push of a thread that was not running, on a free entry.
LEMMA RunlistPushOK ==
  ASSUME NEW k \in KernelState, RunOK(k), NEW t \in Threads, NEW h \in Hw,
         k.runlist[h] = NoThread, k.status[t] # "RUNNING",
         NEW r, r = PushOn(k, t, h)
  PROVE  /\ r \in KernelState
         /\ RunOK(r)
         /\ r.runlist = [k.runlist EXCEPT ![h] = t]
         /\ r.status = [k.status EXCEPT ![t] = "RUNNING"]
         /\ r.ready = k.ready
         /\ r.valids = k.valids
         /\ r.prio = k.prio
         /\ r.priomask = k.priomask
         /\ r.wait_mask = k.wait_mask
         /\ r.iopen = k.iopen
<1>. DEFINE ht == [k.hthread EXCEPT ![t] = h]
            st == [k.status EXCEPT ![t] = "RUNNING"]
            rl == [k.runlist EXCEPT ![h] = t]
            rp == [k.rprios EXCEPT ![h] = k.prio[t]]
            k1 == [k EXCEPT !.hthread = ht]
            k2 == [k1 EXCEPT !.status = st]
            k3 == [k2 EXCEPT !.runlist = rl]
<1>1. /\ k.hthread \in [Threads -> Hw] /\ k.status \in [Threads -> Statuses]
      /\ k.runlist \in [Hw -> Threads \cup {NoThread}]
      /\ k.rprios \in [Hw -> Prios \cup {-1}] /\ k.prio \in [Threads -> Prios]
      /\ NoThread \notin Threads
  BY SchedConstants DEF KernelState
<1>2. /\ ht \in [Threads -> Hw] /\ st \in [Threads -> Statuses]
      /\ rl \in [Hw -> Threads \cup {NoThread}] /\ rp \in [Hw -> Prios \cup {-1}]
  BY <1>1 DEF Statuses
<1>3. r = [k3 EXCEPT !.rprios = rp]
  <2>1. [k EXCEPT !.hthread[t] = h] = k1 BY DEF KernelState
  <2>2. /\ k1.hthread[t] = h /\ k1.prio = k.prio /\ k1.status = k.status
        /\ k1.runlist = k.runlist /\ k1.rprios = k.rprios
    BY <1>1 DEF KernelState
  <2>3. r = runlist_push(k1, t) BY <2>1 DEF PushOn
  <2>4. runlist_push(k1, t) = [k1 EXCEPT !.status[t] = "RUNNING", !.runlist[h] = t,
                                         !.rprios[h] = k.prio[t]]
    <3>. HIDE DEF k1
    <3>. QED BY <2>2 DEF runlist_push
  <2>. QED BY <2>2, <2>3, <2>4 DEF KernelState
<1>4. /\ r.hthread = ht /\ r.status = st /\ r.runlist = rl /\ r.rprios = rp
      /\ r.ready = k.ready /\ r.valids = k.valids /\ r.prio = k.prio
      /\ r.priomask = k.priomask /\ r.wait_mask = k.wait_mask /\ r.iopen = k.iopen
  BY <1>1, <1>3 DEF KernelState
<1>5. r \in KernelState
  <2>. HIDE DEF ht, st, rl, rp
  <2>1. k1 \in KernelState BY <1>2, SetField
  <2>. HIDE DEF k1
  <2>2. k2 \in KernelState BY <1>2, <2>1, SetField
  <2>. HIDE DEF k2
  <2>3. k3 \in KernelState BY <1>2, <2>2, SetField
  <2>. HIDE DEF k3
  <2>. QED BY <1>2, <1>3, <2>3, SetField
<1>6. RunOK(r)
  <2>1. ASSUME NEW i \in Hw
        PROVE  IF r.runlist[i] = NoThread THEN r.rprios[i] = -1
               ELSE /\ r.status[r.runlist[i]] = "RUNNING"
                    /\ r.hthread[r.runlist[i]] = i
                    /\ r.rprios[i] = r.prio[r.runlist[i]]
    <3>1. CASE i = h BY <3>1, <1>1, <1>4
    <3>2. CASE i # h BY <3>2, <1>1, <1>4 DEF RunOK
    <3>. QED BY <3>1, <3>2
  <2>2. ASSUME NEW u \in Threads, r.status[u] = "RUNNING"
        PROVE  r.runlist[r.hthread[u]] = u
    BY <2>2, <1>1, <1>4 DEF RunOK
  <2>. QED BY <2>1, <2>2 DEF RunOK
<1>. QED BY <1>4, <1>5, <1>6

\* What a call of H2K_dosched on h needs: consistent lists in which h holds
\* no entry, and h neither asleep nor on its way to sleep.
CanDosched(k, S, A, h) ==
  /\ k \in KernelState /\ ReadyOK(k) /\ RunOK(k) /\ DesOK(k, S, A) /\ Idle(k, A)
  /\ A \subseteq HThreads /\ h \in A /\ k.runlist[h] = NoThread /\ h \notin k.wait_mask
  /\ h = 0 \/ 0 \in k.wait_mask \/ k.runlist[0] # NoThread

\* What H2K_dosched leaves behind when it runs a ready thread on h.
Dispatched(r, k, S, A, h) ==
  /\ r \in KernelState /\ ReadyOK(r) /\ RunOK(r) /\ DesOK(r, S, A)
  /\ r.priomask # {} /\ ready_head(k) \in Threads
  /\ r.runlist = [k.runlist EXCEPT ![h] = ready_head(k)]
  /\ r.wait_mask = k.wait_mask
  /\ NeedsResched(r) => r.ipend = TRUE

\* H2K_dosched when a thread is ready.
LEMMA DoschedRunOK ==
  ASSUME NEW k, NEW S, NEW A, NEW h, CanDosched(k, S, A, h), ready_head(k) # NoThread
  PROVE  Dispatched(dosched(k, h), k, S, A, h)
<1>. DEFINE new == ready_head(k)
            k1 == ready_remove(k, new)
            k2 == designate(k1, k.prio[new], h)
            k3 == PushOn(k2, new, h)
            r == dosched(k, h)
<1>. USE DEF CanDosched
<1>1. new \in Threads /\ k.status[new] = "READY"
  BY ReadyHeadOK
<1>2. r = check_sanity(k3) BY DEF dosched, dosched_run, PushOn
<1>. HIDE DEF new, k1, r
<1>. k \in KernelState /\ ReadyOK(k) /\ RunOK(k) /\ DesOK(k, S, A)
  OBVIOUS
<1>. h \in A /\ A \in SUBSET HThreads /\ k.runlist[h] = NoThread /\ h \notin k.wait_mask
  OBVIOUS
<1>. HIDE DEF CanDosched
<1>3. /\ k1 \in KernelState /\ SameRun(k1, k) /\ k1.status = k.status
      /\ \A q \in KernelState :
           /\ q.ready = k1.ready /\ q.valids = k1.valids /\ q.prio = k.prio
           /\ q.status = [k.status EXCEPT ![new] = "RUNNING"]
           => ReadyOK(q)
  BY <1>1, ReadyRemoveOK DEF k1
<1>4. DesOK(k1, S, A) /\ h \notin k1.wait_mask /\ RunOK(k1)
  BY <1>3 DEF DesOK, SameRun, RunOK
<1>. HIDE DEF k2
<1>5. k2 \in KernelState /\ SameLists(k2, k1) /\ DesOK(k2, S, A)
  BY <1>3, <1>4, DesignateOK DEF k2
<1>6. /\ RunOK(k2) /\ k2.runlist = k.runlist /\ k2.status = k.status
      /\ k2.prio = k.prio /\ k2.wait_mask = k.wait_mask
      /\ k2.ready = k1.ready /\ k2.valids = k1.valids
  BY <1>3, <1>4, <1>5 DEF SameLists, SameRun, RunOK
<1>. HIDE DEF k3
<1>7. h \in Hw /\ k2.runlist[h] = NoThread /\ k2.status[new] # "RUNNING"
  BY <1>1, <1>6, SchedConstants DEF Hw
<1>8. /\ k3 \in KernelState /\ RunOK(k3)
      /\ k3.runlist = [k.runlist EXCEPT ![h] = new]
      /\ k3.status = [k.status EXCEPT ![new] = "RUNNING"]
      /\ k3.ready = k1.ready /\ k3.valids = k1.valids /\ k3.prio = k.prio
      /\ k3.priomask = k2.priomask /\ k3.wait_mask = k.wait_mask /\ k3.iopen = k2.iopen
  BY <1>1, <1>5, <1>6, <1>7, RunlistPushOK DEF k3
<1>9. ReadyOK(k3) BY <1>3, <1>8
<1>10. DesOK(k3, S, A) BY <1>5, <1>6, <1>8 DEF DesOK
<1>11. Idle(k3, A) /\ (0 \in k3.wait_mask \/ k3.runlist[0] # NoThread)
  <2>1. k.runlist \in [Hw -> Threads \cup {NoThread}] /\ 0 \in Hw /\ NoThread \notin Threads
    BY SchedConstants DEF KernelState, Hw
  <2>. QED BY <2>1, <1>1, <1>7, <1>8 DEF Idle, CanDosched
<1>12. /\ r \in KernelState /\ SameLists(r, k3) /\ DesOK(r, S, A) /\ r.priomask # {}
       /\ r.ipend <=> k3.ipend \/ NeedsResched(k3)
  BY <1>2, <1>8, <1>10, <1>11, CheckSanityOK, Zenon
<1>13. ReadyOK(r) /\ RunOK(r) BY <1>8, <1>9, <1>12 DEF ReadyOK, RunOK, SameLists
<1>14. NeedsResched(r) <=> NeedsResched(k3)
  BY <1>12 DEF SameLists, NeedsResched, runlist_worst_prio, RunningPrios,
              ready_best_prio, ready_any_valid
<1>15. /\ r.runlist = [k.runlist EXCEPT ![h] = new] /\ r.wait_mask = k.wait_mask
  BY <1>8, <1>12 DEF SameLists
<1>16. NeedsResched(r) => r.ipend = TRUE
  <2>1. r.ipend \in BOOLEAN BY <1>12 DEF KernelState
  <2>. QED BY <2>1, <1>12, <1>14, Zenon
<1>17. Dispatched(r, k, S, A, h) BY <1>1, <1>12, <1>13, <1>15, <1>16 DEF new, Dispatched
<1>. QED BY <1>17 DEF r

\* H2K_switch to NULL leaves h in wait_mask and in priomask.
LEMMA SwitchSleepOK ==
  ASSUME NEW k \in KernelState, NEW S, NEW A \in SUBSET HThreads, DesOK(k, S, A),
         NEW h \in HThreads
  PROVE  /\ switch_sleep(k, h) \in KernelState
         /\ DesOK(switch_sleep(k, h), S \cup {h}, A \cup {h})
         /\ switch_sleep(k, h).priomask # {}
         /\ switch_sleep(k, h).wait_mask = k.wait_mask \cup {h}
         /\ switch_sleep(k, h).ready = k.ready
         /\ switch_sleep(k, h).valids = k.valids
         /\ switch_sleep(k, h).runlist = k.runlist
         /\ switch_sleep(k, h).rprios = k.rprios
         /\ switch_sleep(k, h).status = k.status
         /\ switch_sleep(k, h).prio = k.prio
         /\ switch_sleep(k, h).hthread = k.hthread
         /\ switch_sleep(k, h).ipend = k.ipend
<1>. DEFINE r == switch_sleep(k, h)
            w == k.wait_mask \cup {h}
            m == k.priomask \cup {h}
            k1 == [k EXCEPT !.wait_mask = w]
<1>1. w \in SUBSET Hw /\ m \in SUBSET Hw BY SchedConstants DEF KernelState, Hw
<1>2. r = [k1 EXCEPT !.priomask = m] BY DEF switch_sleep, KernelState
<1>3. /\ r.wait_mask = w /\ r.priomask = m /\ r.iopen = k.iopen /\ r.ipend = k.ipend
      /\ r.ready = k.ready /\ r.valids = k.valids /\ r.runlist = k.runlist
      /\ r.rprios = k.rprios /\ r.status = k.status /\ r.prio = k.prio
      /\ r.hthread = k.hthread
  BY <1>2 DEF KernelState
<1>4. r \in KernelState
  <2>. HIDE DEF w, m, r
  <2>1. k1 \in KernelState BY <1>1, SetField, Zenon
  <2>. HIDE DEF k1
  <2>. QED BY <1>1, <1>2, <2>1, SetField, Zenon
<1>. HIDE DEF r
<1>5. DesOK(r, S \cup {h}, A \cup {h}) /\ r.priomask # {} BY <1>3 DEF DesOK
<1>. QED BY <1>3, <1>4, <1>5 DEF r

\* H2K_dosched when no thread is ready.
LEMMA DoschedSleepOK ==
  ASSUME NEW k, NEW S, NEW A, NEW h, CanDosched(k, S, A, h), ready_head(k) = NoThread,
         NEW r, r = dosched(k, h)
  PROVE  /\ r \in KernelState /\ ReadyOK(r) /\ RunOK(r)
         /\ DesOK(r, S \cup {h}, A \cup {h}) /\ r.priomask # {}
         /\ r.runlist = k.runlist /\ r.wait_mask = k.wait_mask \cup {h}
         /\ \A t \in Threads : r.status[t] # "READY"
<1>. DEFINE k1 == raise_lowprio(k)
<1>. USE DEF CanDosched
<1>1. r = switch_sleep(k1, h) BY DEF dosched
<1>2. \A t \in Threads : k.status[t] # "READY" BY ReadyHeadOK
<1>3. k1 \in KernelState /\ SameLists(k1, k) /\ DesOK(k1, S, A)
  BY RaiseLowprioOK, Zenon
<1>. HIDE DEF k1, CanDosched
<1>. h \in HThreads /\ A \in SUBSET HThreads BY DEF CanDosched
<1>4. /\ r \in KernelState /\ DesOK(r, S \cup {h}, A \cup {h}) /\ r.priomask # {}
      /\ r.wait_mask = k1.wait_mask \cup {h} /\ r.ready = k1.ready
      /\ r.valids = k1.valids /\ r.runlist = k1.runlist /\ r.rprios = k1.rprios
      /\ r.status = k1.status /\ r.prio = k1.prio /\ r.hthread = k1.hthread
  <2>. DEFINE q == switch_sleep(k1, h)
  <2>1. /\ q \in KernelState /\ DesOK(q, S \cup {h}, A \cup {h}) /\ q.priomask # {}
        /\ q.wait_mask = k1.wait_mask \cup {h} /\ q.ready = k1.ready
        /\ q.valids = k1.valids /\ q.runlist = k1.runlist /\ q.rprios = k1.rprios
        /\ q.status = k1.status /\ q.prio = k1.prio /\ q.hthread = k1.hthread
    BY <1>3, SwitchSleepOK, ZenonT(60)
  <2>. QED BY <2>1, <1>1
<1>5. ReadyOK(r) /\ RunOK(r) BY <1>3, <1>4 DEF CanDosched, ReadyOK, RunOK, SameLists
<1>6. /\ r.runlist = k.runlist /\ r.wait_mask = k.wait_mask \cup {h}
      /\ r.status = k.status
  BY <1>3, <1>4 DEF SameLists
<1>. QED BY <1>2, <1>4, <1>5, <1>6

\* What H2K_runlist_remove of t leaves behind: the runlist is consistent again
\* once t is no longer RUNNING.
OffTheRunlist(r, k, t) ==
  /\ r \in KernelState
  /\ r.runlist = [k.runlist EXCEPT ![k.hthread[t]] = NoThread]
  /\ r.ready = k.ready /\ r.valids = k.valids /\ r.status = k.status
  /\ r.prio = k.prio /\ r.hthread = k.hthread
  /\ r.priomask = k.priomask /\ r.wait_mask = k.wait_mask
  /\ r.iopen = k.iopen
  /\ \A q \in KernelState :
       /\ q.runlist = r.runlist /\ q.rprios = r.rprios
       /\ q.status[t] # "RUNNING"
       /\ \A u \in Threads \ {t} : /\ q.status[u] = k.status[u]
                                   /\ q.prio[u] = k.prio[u]
                                   /\ q.hthread[u] = k.hthread[u]
       => RunOK(q)

LEMMA RunlistRemoveOK ==
  ASSUME NEW k \in KernelState, RunOK(k), NEW t \in Threads, k.status[t] = "RUNNING",
         NEW r, r = runlist_remove(k, t)
  PROVE  OffTheRunlist(r, k, t)
<1>. DEFINE h == k.hthread[t]
            rl == [k.runlist EXCEPT ![h] = NoThread]
            rp == [k.rprios EXCEPT ![h] = -1]
            k1 == [k EXCEPT !.runlist = rl]
<1>1. /\ k.hthread \in [Threads -> Hw] /\ k.runlist \in [Hw -> Threads \cup {NoThread}]
      /\ k.rprios \in [Hw -> Prios \cup {-1}] /\ NoThread \notin Threads
  BY SchedConstants DEF KernelState
<1>2. rl \in [Hw -> Threads \cup {NoThread}] /\ rp \in [Hw -> Prios \cup {-1}] BY <1>1
<1>3. r = [k1 EXCEPT !.rprios = rp] BY DEF runlist_remove, KernelState
<1>4. /\ r.runlist = rl /\ r.rprios = rp
      /\ r.ready = k.ready /\ r.valids = k.valids /\ r.status = k.status
      /\ r.prio = k.prio /\ r.hthread = k.hthread /\ r.priomask = k.priomask
      /\ r.wait_mask = k.wait_mask /\ r.iopen = k.iopen
  BY <1>3 DEF KernelState
<1>5. r \in KernelState
  <2>. HIDE DEF rl, rp
  <2>1. k1 \in KernelState BY <1>2, SetField
  <2>. HIDE DEF k1
  <2>. QED BY <1>2, <1>3, <2>1, SetField
<1>6. ASSUME NEW q \in KernelState, q.runlist = r.runlist, q.rprios = r.rprios,
             q.status[t] # "RUNNING",
             \A u \in Threads \ {t} : /\ q.status[u] = k.status[u]
                                      /\ q.prio[u] = k.prio[u]
                                      /\ q.hthread[u] = k.hthread[u]
      PROVE  RunOK(q)
  <2>1. h \in Hw /\ k.runlist[h] = t BY <1>1 DEF RunOK
  <2>2. ASSUME NEW i \in Hw, i # h
        PROVE  q.runlist[i] = k.runlist[i] /\ q.rprios[i] = k.rprios[i] /\ k.runlist[i] # t
    BY <2>2, <1>1, <1>4, <1>6 DEF RunOK
  <2>3. ASSUME NEW i \in Hw
        PROVE  IF q.runlist[i] = NoThread THEN q.rprios[i] = -1
               ELSE /\ q.status[q.runlist[i]] = "RUNNING"
                    /\ q.hthread[q.runlist[i]] = i
                    /\ q.rprios[i] = q.prio[q.runlist[i]]
    <3>1. CASE i = h BY <3>1, <1>1, <1>4, <1>6
    <3>2. CASE i # h /\ k.runlist[i] = NoThread BY <3>2, <2>2 DEF RunOK
    <3>3. CASE i # h /\ k.runlist[i] # NoThread
      <4>1. k.runlist[i] \in Threads \ {t} BY <3>3, <2>2, <1>1
      <4>. QED BY <4>1, <3>3, <2>2, <1>6 DEF RunOK
    <3>. QED BY <3>1, <3>2, <3>3
  <2>4. ASSUME NEW u \in Threads, q.status[u] = "RUNNING" PROVE q.runlist[q.hthread[u]] = u
    <3>1. u \in Threads \ {t} BY <2>4, <1>6
    <3>2. k.status[u] = "RUNNING" /\ q.hthread[u] = k.hthread[u] BY <2>4, <3>1, <1>6
    <3>3. k.runlist[k.hthread[u]] = u /\ k.hthread[u] \in Hw BY <3>2, <1>1 DEF RunOK
    <3>4. k.hthread[u] # h BY <3>1, <3>3, <2>1
    <3>. QED BY <3>2, <3>3, <3>4, <2>2
  <2>. QED BY <2>3, <2>4 DEF RunOK
<1>. QED BY <1>4, <1>5, <1>6 DEF OffTheRunlist

-----------------------------------------------------------------------------
(* The condition under which check_sanity raises RESCHED *)

BetterReady(k) ==
  \E t, u \in Threads : /\ k.status[t] = "READY" /\ k.status[u] = "RUNNING"
                        /\ k.prio[t] < k.prio[u]

IdleReady(k) == k.wait_mask # {} /\ \E t \in Threads : k.status[t] = "READY"

\* When the started hardware threads are numbered from 0 without a gap, the
\* test in check_sanity notices every ready thread that is better than some
\* running thread and every ready thread that a sleeper could run.
LEMMA NeedsReschedComplete ==
  ASSUME NEW k \in KernelState, ReadyOK(k), RunOK(k), Idle(k, HThreads),
         NEW n \in Nat, HThreads = 0..n,
         BetterReady(k) \/ IdleReady(k)
  PROVE  NeedsResched(k)
<1>1. CASE BetterReady(k)
  <2>1. PICK t, u \in Threads : /\ k.status[t] = "READY" /\ k.status[u] = "RUNNING"
                                /\ k.prio[t] < k.prio[u]
    BY <1>1 DEF BetterReady
  <2>. DEFINE i == k.hthread[u]
              w == runlist_worst_prio(k)
              b == ready_best_prio(k)
  <2>2. /\ k.runlist \in [Hw -> Threads \cup {NoThread}] /\ k.hthread \in [Threads -> Hw]
        /\ k.prio \in [Threads -> Prios] /\ NoThread \notin Threads
    BY SchedConstants DEF KernelState
  <2>3. i \in Hw /\ k.runlist[i] = u BY <2>1, <2>2 DEF RunOK
  <2>4. i \in HThreads BY <2>2, <2>3 DEF Idle
  <2>5. i \in Scan BY <2>4, ScanBounds
  <2>6. k.rprios[i] = k.prio[u] BY <2>2, <2>3 DEF RunOK
  <2>7. k.rprios[i] <= w /\ w \in 0..MAX_PRIOS BY <2>5, WorstPrioOK, Zenon
  <2>8. b <= k.prio[t] /\ b \in 0..MAX_PRIOS BY <2>1, ReadyHeadOK
  <2>9. k.prio[t] \in Int /\ k.prio[u] \in Int BY <2>2, SchedConstants DEF Prios
  <2>. HIDE DEF w, b, i
  <2>10. w > b BY <2>1, <2>6, <2>7, <2>8, <2>9
  <2>. QED BY <2>10 DEF NeedsResched, w, b
<1>2. CASE IdleReady(k)
  BY <1>2, ReadyHeadOK DEF IdleReady, NeedsResched
<1>. QED BY <1>1, <1>2
=============================================================================
