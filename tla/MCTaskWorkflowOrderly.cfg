SPECIFICATION Spec
CONSTANTS
  ImplementerMoves <- WellBehavedImplementer
  ReviewerMoves <- WellBehavedReviewer
  ReviewModes = {"skip-trivial", "never"}
  Extensions = TRUE
  StopInScan = FALSE
  MaxAttempt = 1
  MaxFault = 2
INVARIANTS
  CancelledStaysDown
  ReviewPolicy
  RetirementWaitsForDelivery
