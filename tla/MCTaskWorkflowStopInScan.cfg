SPECIFICATION Spec
CONSTANTS
  ImplementerMoves <- WellBehavedImplementer
  ReviewerMoves <- WellBehavedReviewer
  ReviewModes = {"skip-trivial"}
  Extensions = FALSE
  StopInScan = TRUE
  MaxAttempt = 1
  MaxFault = 1
INVARIANTS
  RetirementWaitsForDelivery
