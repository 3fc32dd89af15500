\* The instance of MCSchedLive.cfg, with unmarked hardware threads allowed to take RESCHED.
CONSTANTS
  Threads = {t1, t2, t3}
  HThreads = {0, 1}
  MAX_HTHREADS = 2
  MAX_PRIO = 2
  NoThread = null
  BootThread = t1
  bestprio = 0

SPECIFICATION FairSpec
PROPERTY NoInversion
CHECK_DEADLOCK FALSE
