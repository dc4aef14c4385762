\* A backup while the mail worker holds its connection.
CONSTANTS
  Files = {f1, f2}
  Marks = {m1}
  Page <- PageOf
  Uploaders = {u1}
  Daemons = {d1}
  Operator = op
  Overlap = {"backup"}
  Replacing = FALSE
  Killable = {}
  MaxFaults = 0
  MaxArchives = 1
  NoFile = NoFile
  NoArchive = NoArchive
  Torn = Torn
  Blurred = Blurred
SPECIFICATION Spec
SYMMETRY BackupSymmetry
INVARIANTS BackupComplete
CHECK_DEADLOCK FALSE
