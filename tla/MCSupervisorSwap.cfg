CONSTANTS
  k1 = k1
  k2 = k2
  Messages = {1, 2}
  NoControl = NoControl
  Controls = {k1, k2}
  MaxPending = 1
  MaxInterrupts = 0
  MaxTurns = 2
  MaxProviders = 2
SPECIFICATION Spec
INVARIANTS
  OnlyIdleIsSwapped
CHECK_DEADLOCK FALSE
