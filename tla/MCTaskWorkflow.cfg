SPECIFICATION Spec
CONSTANTS
  ImplementerMoves <- WellBehavedImplementer
  ReviewerMoves <- WellBehavedReviewer
  ReviewModes = {"skip-trivial"}
  Extensions = TRUE
  StopInScan = TRUE
  MaxAttempt = 2
  MaxFault = 1
INVARIANTS
  TypeOK
  OneTurnPerPhase
  ClaimsAreJournaled
PROPERTIES
  AttemptsAreFresh
