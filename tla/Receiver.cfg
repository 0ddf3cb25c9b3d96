\* Three lines; two stops and starts, so that chains can overlap.
SPECIFICATION ReceiverSpec
CONSTANTS
  Lines = {m1, m2, m3}
  NoLine = NoLine
  MaxStarts = 2
  MaxStops = 2
  MaxErrors = 1
INVARIANTS ChainAlive DeliveredIntact
PROPERTIES LinesArrive
