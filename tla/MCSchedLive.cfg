\* Two hardware threads, three threads of three priorities, fair (so no symmetry).
CONSTANTS
  Threads = {t1, t2, t3}
  HThreads = {0, 1}
  MAX_HTHREADS = 2
  MAX_PRIO = 2
  NoThread = null
  BootThread = t1
  bestprio = 0

SPECIFICATION FairSpec
PROPERTIES IdleEnds InversionEnds
CHECK_DEADLOCK FALSE
