SPECIFICATION FairSpec
CONSTANTS
  Attempt = {a1, a2, a3}
  Snapshot = {s1, s2}
  Body = {b1, b2}
  Nothing = Nothing
  Misaddressed = {}
  Unrenderable = {}
  Deletable = FALSE
  JobReclaimable = FALSE
  MaxInterruptions = 2
INVARIANTS
  TerminalHasCause
PROPERTIES
  EventuallyCompleted
\* All attempts end.
CHECK_DEADLOCK FALSE
