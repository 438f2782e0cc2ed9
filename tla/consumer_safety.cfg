\* Two processes, a batch of two, one malformed entry; leases may expire under
\* a working process.  The system may stop for good once every process is down.
SPECIFICATION Spec
CONSTANTS
  p1 = p1
  p2 = p2
  Label = label
  Process = {p1, p2}
  NumEntries = 2
  BatchSize = 2
  MaxDeliveries = 2
  Malformed <- First
  Once <- None
  LeaseHolds = FALSE
  MaxHandovers = 3
  MaxFaults = 1
SYMMETRY Symmetry
CHECK_DEADLOCK FALSE
INVARIANTS
  TypeOK
  ExactlyOneFate
  CeilingRespected
PROPERTIES
  OnlyHolderSettles
  BudgetSpentOnHandoverOnly
