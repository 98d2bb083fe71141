SPECIFICATION Spec
CONSTANTS
  j1 = j1
  j2 = j2
  Job = {j1, j2}
  NoJob = NoJob
  MaxExecutions = 2
  MaxEvents = 1
  PageEvents = 1
  MaxTurn = 3
  MaxMail = 2
  MaxFault = 2
SYMMETRY Symmetry
INVARIANTS
  TypeOK
  DeliveredBeforeCommitted
  ReceiptsNameEvents
  AdmissionsHold
CHECK_DEADLOCK FALSE
