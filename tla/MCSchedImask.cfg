\* Does raising the lowest-priority thread mask every thread it unmarks?
CONSTANTS
  Threads = {t1, t2, t3}
  HThreads = {0, 1}
  MAX_HTHREADS = 2
  MAX_PRIO = 2
  NoThread = null
  BootThread = t1
  bestprio = 0

SPECIFICATION Spec
INVARIANT UnmarkedIsMasked
CHECK_DEADLOCK FALSE
