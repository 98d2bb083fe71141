CONSTANTS
  k1 = k1
  k2 = k2
  Messages = {1, 2, 3}
  NoControl = NoControl
  Controls = {k1, k2}
  MaxPending = 1
  MaxInterrupts = 1
  MaxTurns = 3
  MaxProviders = 2
SPECIFICATION FairSpec
INVARIANTS
  TypeOK
  NothingForgotten
  OnceInOrder
  SwapsIdle
PROPERTIES
  KeepsPromise
  Answered
  KeyFreed
CHECK_DEADLOCK FALSE
