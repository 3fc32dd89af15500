\* Hardware threads 0 and 2 are started, 1 is not.
CONSTANTS
  Threads = {t1, t2, t3}
  HThreads = {0, 2}
  MAX_HTHREADS = 3
  MAX_PRIO = 2
  NoThread = null
  BootThread = t1
  bestprio = 0

SPECIFICATION Spec
INVARIANT WorstPrioIsWorst
CHECK_DEADLOCK FALSE
