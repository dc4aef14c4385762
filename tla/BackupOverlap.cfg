\* Two uploads or replacements beside backups and restores.
CONSTANTS
  Files = {f1, f2}
  Marks = {m1}
  Page <- PageOf
  Uploaders = {u1, u2}
  Daemons = {}
  Operator = op
  Overlap = {"backup", "restore"}
  Replacing = TRUE
  Killable = {}
  MaxFaults = 0
  MaxArchives = 1
  NoFile = NoFile
  NoArchive = NoArchive
  Torn = Torn
  Blurred = Blurred
SPECIFICATION Spec
SYMMETRY BackupSymmetry
INVARIANTS LackExplained CheckpointedInBackup
CHECK_DEADLOCK FALSE
