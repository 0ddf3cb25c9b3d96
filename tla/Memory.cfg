\* Three keys and a size above both limits; the model ends in undefined behaviour.
SPECIFICATION MCSpec
CONSTANTS
  Keys = {k1, k2, k3}
  NoKey = NoKey
  Sizes = {1, 2, 4}
  Limits = {2, 3}
  MaxUses = 5
  Times = {1, 2}
  MaxFreq = 2
  MaxAging = 3
SYMMETRY KeySymmetry
INVARIANTS ListIsRecency TotalsAreExact AgingIsFloor
CHECK_DEADLOCK FALSE
