\* The defaults, small settings, and some with which the deadline comes early.
SPECIFICATION Spec
CONSTANTS
  Settings <- Considered
  Durations <- Sampled
  Overruns <- Slow
  BatchSize = 2
INVARIANTS
  TypeOK
  LeaseOutlivesPhases
  DeadlineCoversWork
  EndsSoonAfterDeadline
