SPECIFICATION FairSpec
CONSTANTS
  Source <- TwoSources
  MaxFault = 2
  MaxStop = 2
INVARIANTS
  TypeOK
  RecordsFit
PROPERTIES
  KeepsPromise
  EventuallyHandled
CHECK_DEADLOCK FALSE
