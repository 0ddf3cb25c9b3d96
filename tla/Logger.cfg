\* Two threads that log and two that set levels; one level is out of range.
SPECIFICATION Spec
CONSTANTS
  Writers = {w1, w2}
  Setters = {s1, s2}
  Nobody = Nobody
  PutLevels = {3}
  SetLevels = {0, 5, 6}
  MaxCalls = 1
  MaxSets = 2
  MaxBatch = 2
SYMMETRY ThreadSymmetry
INVARIANTS FlagsFollowLevels BatchStaysTogether
CHECK_DEADLOCK FALSE
