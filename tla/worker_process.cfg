SPECIFICATION FairProcess
CONSTANTS
  MaxSignals = 2
  MaxAddresses = 3
  Cap = 2
  MaxCalls = 2
\* The process ends.
CHECK_DEADLOCK FALSE
INVARIANTS
  ProcessTypeOK
  NothingLeaks
  ClosedOnce
  PrimaryErrorSurvives
PROPERTIES
  CallEnds
  StopEnds
