\* Leases are renewed in time (the work window of Settings), entries are taken
\* one at a time, so no entry goes stale behind another one of its batch.
SPECIFICATION FairSpec
CONSTANTS
  p1 = p1
  p2 = p2
  Label = label
  Process = {p1, p2}
  NumEntries = 2
  BatchSize = 1
  MaxDeliveries = 3
  Malformed <- Second
  Once <- OnceSecond
  LeaseHolds = TRUE
  MaxHandovers = 5
  MaxFaults = 1
CHECK_DEADLOCK FALSE
PROPERTIES
  EveryEventSettled
  StopDrains
