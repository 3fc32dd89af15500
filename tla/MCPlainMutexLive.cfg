\* Two hardware threads, three threads of two priorities, one lock, fair.
CONSTANTS
  Threads = {t1, t2, t3}
  HThreads = {0, 1}
  MAX_HTHREADS = 2
  MAX_PRIO = 1
  NoThread = null
  BootThread = t1
  bestprio = 0
  Words = {}
  Vals = {0, 1}
  Locks = {l1}
  NoFutex = nofutex
  FUTEX_HASHVAL <- OneBucket
  WakeCounts = {}
  NewPrios = {}

SPECIFICATION FairMutexSpec
PROPERTY InversionEnds
CHECK_DEADLOCK FALSE
