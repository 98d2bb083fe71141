SPECIFICATION FairSpec
CONSTANTS
  j1 = j1
  j2 = j2
  Job = {j1}
  NoJob = NoJob
  MaxExecutions = 2
  MaxEvents = 2
  PageEvents = 1
  MaxTurn = 2
  MaxMail = 2
  MaxFault = 3
INVARIANTS
  ConfirmedIsDurable
PROPERTIES
  CompletedTurnsSurvive
  CompletedTurnsSettle
CHECK_DEADLOCK FALSE
