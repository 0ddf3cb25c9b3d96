\* Three files, three threads, a restart and a forced stop; stop() can deadlock.
SPECIFICATION Spec
CONSTANTS
  Threads = {t1, t2, t3}
  Files = {f1, f2, f3}
  Owner = owner
  Nobody = Nobody
  NoFile = NoFile
  MaxRuns = 2
  MaxForced = 1
INVARIANTS StopDrains PoolIsClean
PROPERTIES ForceStopReturns WaitEnds
CHECK_DEADLOCK FALSE
