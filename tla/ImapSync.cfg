\* Two overlapping synchronisations of the last two messages of three; one removal, one failure.
CONSTANTS
  Syncers = {s1, s2}
  MaxMessages = 3
  Plain = {1}
  Parts = 2
  Limit = 2
  MaxRemovals = 1
  MaxBreaks = 1
  MaxCopies = 1
  None = None
SPECIFICATION FairSpec
INVARIANTS TypeOK RowsMatchMailbox FinishedIsComplete
PROPERTIES LockReturned NewestStored
