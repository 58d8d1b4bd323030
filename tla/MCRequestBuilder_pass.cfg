CONSTANTS
  v1 = v1  v2 = v2  nil = nil
  Items <- MCItems
  Nil = nil
  MaxLen = 3
  Unset = Unset
  Durations <- MCDurations
  DefaultMinBackoff = 1
  DefaultMaxBackoff = 32
SPECIFICATION Spec
INVARIANTS TypeOK BackoffBoundsOrdered CursorInRangeUnlessCleared
\* A panic ends the caller: the request may stop being used.
CHECK_DEADLOCK FALSE
