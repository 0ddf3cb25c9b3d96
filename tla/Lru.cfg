\* Three keys, so that one call can evict two others and its own; two faults.
SPECIFICATION Spec
CONSTANTS
  Keys = {k1, k2, k3}
  NoKey = NoKey
  Sizes = {1, 2}
  Limits = {2, 3}
  MaxSequence = 4
  MaxFaults = 2
SYMMETRY KeySymmetry
INVARIANTS TypeOK SequenceOrder Fits NoDbError
PROPERTIES LossIsNoticed BatchIsDelivered IsRecencyCache
