\* One hardware thread, three threads of two priorities, nested locks.
CONSTANTS
  Threads = {t1, t2, t3}
  HThreads = {0}
  MAX_HTHREADS = 2
  MAX_PRIO = 1
  NoThread = null
  BootThread = t1
  bestprio = 0
  Words = {}
  Vals = {0, 1}
  Locks = {l1, l2}
  NoFutex = nofutex
  FUTEX_HASHVAL <- OneBucket
  WakeCounts = {}
  NewPrios = {1}

SPECIFICATION MutexSpec
SYMMETRY ThreadSymmetry
INVARIANTS RingsAgree MutualExclusion WaitersSeen
CHECK_DEADLOCK FALSE
