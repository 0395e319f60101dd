SPECIFICATION Spec
CONSTANTS
  MaxVersion = 3
  Wires = {1, 2}
  Absent = 0
  Pins <- MCPins
  MaxUpsets = 1
INVARIANTS
  PinsFaithful GreenMeansCaptured
PROPERTIES
  KeepsHistory CapturesArrive TargetArrives
