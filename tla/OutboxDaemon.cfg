\* The mail daemon alone, no crash: three attempts, two delays, days of five seconds.
CONSTANTS
  Workers = {w1}
  Clients = {c1}
  Keys = {k1, k2}
  BatchSize = 2
  MaxAttempts = 3
  DayLength = 5
  BackoffCap = 3
  MaxId = 2
  MaxCrashes = 0
  NoKey = NoKey
  NoStamp = NoStamp
SPECIFICATION FairSpec
INVARIANTS WaitBounded
PROPERTIES AllResolved
