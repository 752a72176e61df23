SPECIFICATION Spec
CONSTANTS
  Chips = {"lr1121"}
  Channels = {1, 2, 3}
  Lead = 2
  Body = 2
  Fixed = 3
  Holdoff = 4
  Dwell = 2
  Linger = 5
  EarlyMin = 4
  Window = 7
PROPERTY FallThroughKeepsFrame
