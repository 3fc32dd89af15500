\* Two hardware threads, three threads, one word: a resume on one, a wait on the other.
CONSTANTS
  Threads = {t1, t2, t3}
  HThreads = {0, 1}
  MAX_HTHREADS = 2
  MAX_PRIO = 1
  NoThread = null
  BootThread = t1
  bestprio = 0
  Words = {a1}
  Vals = {0, 1}
  Locks = {}
  NoFutex = nofutex
  FUTEX_HASHVAL <- OneBucket
  WakeCounts = {1, 2}
  NewPrios = {}

SPECIFICATION ClassicSpec
SYMMETRY ThreadSymmetry
INVARIANTS CpuAgrees NoLostResched
CHECK_DEADLOCK FALSE
