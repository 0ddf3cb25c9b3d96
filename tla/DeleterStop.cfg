\* The program of deleter_test.cpp: two threads, one file, run, submit, stop.
SPECIFICATION Spec
CONSTANTS
  Threads = {t1, t2}
  Files = {f1}
  Owner = owner
  Nobody = Nobody
  NoFile = NoFile
  MaxRuns = 1
  MaxForced = 0
PROPERTIES StopReturns
CHECK_DEADLOCK FALSE
