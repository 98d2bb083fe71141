CONSTANTS
  p1 = p1
  p2 = p2
  p3 = p3
  w = w
  Proc = {p1, p2}
  Worker = {w}
  NoProc = NoProc
  Env <- OneEnv
  StaleAfter = 2
  HandoffTimeout = 1
  CleanupGrace = 1
  MaxTerm = 2
  Socket = {p2}
  MaxRequest = 1
SPECIFICATION FairServerSpec
INVARIANTS
  ReservedMeansDrained
  SecondaryOwnsNothing
PROPERTIES
  WorkerLosesOnlyStaleLease
  AdmissionsFollowTerms
  ImplementsElection
  SupersededStops
  OwnershipReturns
CHECK_DEADLOCK FALSE
