\* Two runners on any earlier database; a kill, two lock timeouts, an outside writer.
CONSTANTS
  Runners = {r1, r2}
  Outsider = outsider
  NoHolder = NoHolder
  MaxKills = 1
  MaxBusy = 2
  MaxHolds = 1
SPECIFICATION FairSpec
INVARIANTS TypeOK RecordedIsApplied ReadyMeansLatest PreflightExact
PROPERTIES Upgraded ImplementsUpgrade
