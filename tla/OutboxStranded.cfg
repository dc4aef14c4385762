\* A worker dies between reservation and mark: the row stays processing for ever.
CONSTANTS
  Workers = {w1, w2}
  Clients = {c1}
  Keys = {k1}
  BatchSize = 1
  MaxAttempts = 2
  DayLength = 3
  BackoffCap = 2
  MaxId = 1
  MaxCrashes = 1
  NoKey = NoKey
  NoStamp = NoStamp
SPECIFICATION FairSpec
PROPERTIES AllResolved
