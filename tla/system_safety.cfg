\* Two workers and one event of the job; leases may expire at any time.
SPECIFICATION SystemSpec
CONSTANTS
  p1 = p1
  p2 = p2
  Label = label
  Process = {p1, p2}
  NumEntries = 1
  BatchSize = 1
  MaxDeliveries = 2
  Malformed <- None
  Once <- OnceSecond
  LeaseHolds = FALSE
  MaxHandovers = 3
  MaxFaults = 0
  Snapshot = {s1}
  Body = {b1, b2}
  Nothing = Nothing
  Unrenderable = {}
  Deletable = FALSE
  JobReclaimable = FALSE
  MaxInterruptions = 2
  MaxCalls = 3
SYMMETRY Alike
\* Both workers may be down.
CHECK_DEADLOCK FALSE
INVARIANTS
  SystemTypeOK
  AckedJobIsCompleted
  OnePhaseAfterLoss
PROPERTIES
  ImplementsExportJob
