SPECIFICATION Spec
CONSTANTS
  j1 = j1
  j2 = j2
  Job = {j1}
  NoJob = NoJob
  MaxExecutions = 1
  MaxEvents = 1
  PageEvents = 1
  MaxTurn = 1
  MaxMail = 1
  MaxFault = 1
INVARIANTS
  CrashLeavesCompleteCopy
CHECK_DEADLOCK FALSE
