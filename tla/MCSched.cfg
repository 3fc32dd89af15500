\* Three hardware threads, four threads, two priorities.
CONSTANTS
  Threads = {t1, t2, t3, t4}
  HThreads = {0, 1, 2}
  MAX_HTHREADS = 3
  MAX_PRIO = 1
  NoThread = null
  BootThread = t1
  bestprio = 0

SPECIFICATION Spec
SYMMETRY ThreadSymmetry
INVARIANTS TypeOK ReadyAgrees RunlistAgrees CpuAgrees Receptive NoLostResched
PROPERTIES DispatchOrder DesignationStays
\* Every thread may stop.
CHECK_DEADLOCK FALSE
