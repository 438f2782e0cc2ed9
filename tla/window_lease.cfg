SPECIFICATION Spec
CONSTANTS
  Settings <- SlowStore
  Durations <- Extremes
  Overruns <- Slow
  BatchSize = 2
INVARIANTS
  StaleIdleCoversPhases
