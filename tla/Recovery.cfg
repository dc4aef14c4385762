\* Two tokens of two users, two archives, any failures and restores, one change of the key; tokens and backups expire after a tick.
CONSTANTS
  Users = {u1, u2}
  Colons = {u2}
  Tokens = {t1, t2}
  Ttl = 1
  MaxTime = 1
  MaxKeys = 1
  None = None
  MaxBackups = 2
  MaxAge = 0
  Offset = 0
SPECIFICATION Spec
SYMMETRY TokenSymmetry
INVARIANTS TypeOK EndedIsRefused LoginLasts GateHonest GateSeesBackup
PROPERTIES OnlyRestoreRevives
