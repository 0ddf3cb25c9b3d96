\* Three keys, and use counts that make values differ; one fault.
SPECIFICATION Spec
CONSTANTS
  Keys = {k1, k2, k3}
  NoKey = NoKey
  Sizes = {1, 2}
  Limits = {2, 3}
  Times = {1}
  MaxFreq = 2
  MaxAging = 3
  MaxFaults = 1
SYMMETRY KeySymmetry
INVARIANTS Fits AgingIsFloor
PROPERTIES UseRaisesValue BatchIsDelivered
