\* Two lives of the object, four connections, a wake-up out of nowhere.
SPECIFICATION SubSpec
CONSTANTS
  MaxInits = 2
  MaxConnects = 4
  MaxSpurious = 1
INVARIANTS SafeUntilLost FailureIsReported UninitAfterConnect
PROPERTIES UninitReturns
CHECK_DEADLOCK FALSE
