\* Two keys and one fault, during a start or during the manager's work.
SPECIFICATION StartSpec
CONSTANTS
  Keys = {k1, k2}
  NoKey = NoKey
  Sizes = {1, 2}
  Limits = {2, 3}
  MaxSequence = 3
  MaxFaults = 1
INVARIANTS ServesOnlyComplete StartsUnlessFault
PROPERTIES CutShortForGood CallsEnd
