\* Two writers and a cleaner that runs again and again, a kill and a refused deletion.
CONSTANTS
  Writers = {p1, p2}
  Cleaners = {c1}
  Files = {f1, f2, f3}
  NoFile = NoFile
  MaxCrashes = 1
  MaxRefusals = 1
SPECIFICATION FairSpec
PROPERTIES LossExplained OrphansSwept
