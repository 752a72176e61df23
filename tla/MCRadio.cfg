SPECIFICATION Spec
CONSTANTS
  Chips = {"sx1262", "lr1121", "sx1276"}
  Channels = {1, 2, 3}
  Lead = 2
  Body = 1
  Fixed = 4
  Holdoff = 4
  Dwell = 2
  Linger = 5
  EarlyMin = 4
  Window = 9
INVARIANTS FreshOnly WindowKept
PROPERTIES IdleHopSparesFrame LingersOnPreamble
