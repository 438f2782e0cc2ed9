\* Leases hold.  An event is granted four deliveries; two attempts may fail,
\* and a worker that is stopped or killed may waste a third delivery.
SPECIFICATION FairSystem
CONSTANTS
  p1 = p1
  p2 = p2
  Label = label
  Process = {p1, p2}
  NumEntries = 1
  BatchSize = 1
  MaxDeliveries = 4
  Malformed <- None
  Once <- OnceSecond
  LeaseHolds = TRUE
  MaxHandovers = 4
  MaxFaults = 0
  Snapshot = {s1}
  Body = {b1}
  Nothing = Nothing
  Unrenderable = {}
  Deletable = FALSE
  JobReclaimable = FALSE
  MaxInterruptions = 2
  MaxCalls = 4
\* Both workers may be down.
CHECK_DEADLOCK FALSE
PROPERTIES
  EventuallyAcknowledged
