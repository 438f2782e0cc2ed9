SPECIFICATION Spec
CONSTANTS
  Attempt = {a1, a2, a3, a4}
  Snapshot = {s1, s2, s3}
  Body = {b1, b2}
  Nothing = Nothing
  Misaddressed = {a4}
  Unrenderable = {s3}
  Deletable = TRUE
  JobReclaimable = TRUE
  MaxInterruptions = 2
INVARIANTS
  TypeOK
  CompletedIsStored
  AckOnlyWhenCompleted
  TerminalHasCause
SYMMETRY Alike
\* All attempts end.
CHECK_DEADLOCK FALSE
