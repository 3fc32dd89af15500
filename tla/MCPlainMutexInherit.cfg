\* One hardware thread, three threads of three priorities, nested locks.
CONSTANTS
  Threads = {t1, t2, t3}
  HThreads = {0}
  MAX_HTHREADS = 2
  MAX_PRIO = 2
  NoThread = null
  BootThread = t1
  bestprio = 0
  Words = {}
  Vals = {0, 1}
  Locks = {l1, l2}
  NoFutex = nofutex
  FUTEX_HASHVAL <- OneBucket
  WakeCounts = {}
  NewPrios = {}

SPECIFICATION MutexSpec
SYMMETRY ThreadSymmetry
INVARIANT Inherited
CHECK_DEADLOCK FALSE
