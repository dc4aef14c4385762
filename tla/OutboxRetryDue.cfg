\* The text comparison of two timestamp formats keeps a due retry waiting.
CONSTANTS
  Workers = {w1}
  Clients = {c1}
  Keys = {k1}
  BatchSize = 2
  MaxAttempts = 3
  DayLength = 5
  BackoffCap = 3
  MaxId = 1
  MaxCrashes = 1
  NoKey = NoKey
  NoStamp = NoStamp
SPECIFICATION Spec
INVARIANTS RetryDueOnTime
