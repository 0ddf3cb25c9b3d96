\* Two workers, three tasks for a queue of two; no symmetry, because of the
\* liveness properties.
SPECIFICATION Spec
CONSTANTS
  Workers = {w1, w2}
  Callers = {main, other}
  Owner = main
  Tasks = {t1, t2, t3}
  Nobody = Nobody
  NoTask = NoTask
  QueueMax = 2
  TryMax = 2
  MaxSpurious = 1
INVARIANTS TaskConserved NoLostWakeUp QuietAfterStop
PROPERTIES StopReturns TasksEnd
