\* Two hardware threads besides the boot one come out of reset.
CONSTANTS
  Threads = {t1, t2, t3}
  HThreads = {0, 1, 2}
  MAX_HTHREADS = 3
  MAX_PRIO = 2
  NoThread = null
  BootThread = t1
  bestprio = 0

SPECIFICATION BootSpec
SYMMETRY ThreadSymmetry
INVARIANTS CpuAgrees Receptive
PROPERTY OnlyResetLosesWakeup
CHECK_DEADLOCK FALSE
