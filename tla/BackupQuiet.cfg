\* The operator's commands run alone; two failed steps, kills or interrupts.
CONSTANTS
  Files = {f1}
  Marks = {m1}
  Page <- PageOf
  Uploaders = {u1}
  Daemons = {d1}
  Operator = op
  Overlap = {}
  Replacing = FALSE
  Killable = {op, u1, d1}
  MaxFaults = 2
  MaxArchives = 1
  NoFile = NoFile
  NoArchive = NoArchive
  Torn = Torn
  Blurred = Blurred
SPECIFICATION Spec
SYMMETRY BackupSymmetry
INVARIANTS TypeOK LastCopySafe
PROPERTY ImplementsAtomicBackup
CHECK_DEADLOCK FALSE
