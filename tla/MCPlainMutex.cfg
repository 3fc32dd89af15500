\* Two hardware threads, three threads of three priorities, one lock.
CONSTANTS
  Threads = {t1, t2, t3}
  HThreads = {0, 1}
  MAX_HTHREADS = 2
  MAX_PRIO = 2
  NoThread = null
  BootThread = t1
  bestprio = 0
  Words = {}
  Vals = {0, 1}
  Locks = {l1}
  NoFutex = nofutex
  FUTEX_HASHVAL <- OneBucket
  WakeCounts = {}
  NewPrios = {}

SPECIFICATION MutexSpec
SYMMETRY ThreadSymmetry
INVARIANTS FutexTypeOK ReadyAgrees RunlistAgrees NoLostResched
  MutualExclusion WaitersSeen Inherited BoostEnds
CHECK_DEADLOCK FALSE
