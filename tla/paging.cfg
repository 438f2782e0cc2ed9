\* An honest API whose rows may move, or one that answers anything; each bound
\* is met.
SPECIFICATION Spec
CONSTANTS
  Row <- Mixed
  Held <- Ours
  Organization = "us"
  Limits <- Each
  MaxMoves = 2
\* The loop ends.
CHECK_DEADLOCK FALSE
INVARIANTS
  TypeOK
  RowsAreSound
  NothingLost
  RefusedOnlyIfTooBig
