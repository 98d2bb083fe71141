SPECIFICATION FairSpec
CONSTANTS
  ImplementerMoves <- PromptedImplementer
  ReviewerMoves <- PromptedReviewer
  ReviewModes = {"skip-trivial"}
  Extensions = FALSE
  StopInScan = FALSE
  MaxAttempt = 1
  MaxFault = 1
PROPERTIES
  MoveSettles
