\* One to three tries, the last as in redis_adapter_test.cpp; eight failures use
\* up the tries of both attempts, connections included.  A byte is one bit, a short number
\* two and a long one three.
SPECIFICATION MCSpec
CONSTANTS
  MaxTries = 3
  MaxCalls = 3
  MaxTroubles = 8
  MaxGarbled = 1
  Base = 2
  Short = 2
  Long = 3
INVARIANTS AnswersMatch DeserializeInverts OrderPreserved
PROPERTIES RecoversByItself
