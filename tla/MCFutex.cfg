\* One hardware thread, four threads, two words in one bucket.
CONSTANTS
  Threads = {t1, t2, t3, t4}
  HThreads = {0}
  MAX_HTHREADS = 2
  MAX_PRIO = 1
  NoThread = null
  BootThread = t1
  bestprio = 0
  Words = {a1, a2}
  Vals = {0, 1}
  Locks = {}
  NoFutex = nofutex
  FUTEX_HASHVAL <- OneBucket
  WakeCounts = {0, 1, 2}
  NewPrios = {}

SPECIFICATION ClassicSpec
SYMMETRY ThreadSymmetry
INVARIANT RingsAgree
PROPERTIES WakeOrder ResumeWakes
CHECK_DEADLOCK FALSE
