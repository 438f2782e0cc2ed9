SPECIFICATION Spec
CONSTANTS
  a1 = a1
  a2 = a2
  a3 = a3
  s1 = s1
  s2 = s2
  b1 = b1
  b2 = b2
  Attempt = {a1, a2, a3}
  Snapshot = {s1, s2}
  Body = {b1, b2}
  SizeOf <- SameSize
  FinalKey = final
  Garbled = garbled
  NoObject = none
  NoBody = nobody
  InitialBuckets <- Empty
SYMMETRY Symmetry
\* Every attempt ends, and then nothing is left to do.
CHECK_DEADLOCK FALSE
INVARIANTS
  TypeOK
  FinalIsCanonical
  StoredIsFinal
  MismatchIsAnotherSnapshot
PROPERTIES
  WrittenOnce
  KeepsContract
