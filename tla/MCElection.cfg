CONSTANTS
  p1 = p1
  p2 = p2
  p3 = p3
  w = w
  Proc = {p1, p2, p3}
  Worker = {w}
  NoProc = NoProc
  Env <- MCEnv
  StaleAfter = 3
  HandoffTimeout = 1
  CleanupGrace = 6
  MaxTerm = 3
SYMMETRY Symmetry
SPECIFICATION Spec
INVARIANTS
  TypeOK
  LeaseIsNewestTerm
  LockProtects
  OwnerlessIsFenced
PROPERTIES
  ReservationHonoured
  OnlyOwnerEndsFreshTerm
  ImplementsOwnershipTerm
