------------------------------ MODULE Recovery ------------------------------
(***************************************************************************)
(* The database goes back: backups and restores composed with the API      *)
(* sessions, and the release gate, which judges the backups by the rows of *)
(* a table that a restore takes back as well.                              *)
(*                                                                         *)
(* An archive is named after the checksum of the database file, so that a  *)
(* backup of a file that has not changed overwrites an archive.  It holds  *)
(* the rows of the moment it was written: never its own row in the table   *)
(* backups.  A restore is one step here; module Backup has its steps, and  *)
(* shows what happens to commands that run beside backup and restore: here *)
(* none does, and the log of the database is empty between commands.       *)
(***************************************************************************)
EXTENDS Sessions

CONSTANTS
  MaxBackups,  \* bound: names of archives
  MaxAge,      \* --backup-max-age-hours
  Offset       \* local time of the server minus UTC

Backups == 1..MaxBackups   \* archives, by name
Rows == [Backups -> 0..MaxTime \cup {None}]
Archives == [session : [Tokens -> {"live", "revoked", None}], backups : Rows,
             issued : SUBSET Tokens, revoked : SUBSET Tokens, sound : SUBSET Tokens]

ASSUME RecoveryAssumption ==
  MaxBackups \in Nat /\ MaxAge \in Nat /\ Offset \in Int /\ None \notin Archives

VARIABLES
  archive,   \* what each archive holds, with the history of its sessions, or None
  backups,   \* the table: created_at of the backup recorded for an archive, or None
  operator,  \* the backup command: "idle", "archiving", "recording"
  names,     \* number of names given to archives
  stamp,     \* the archive that already has the name the database file gives, or None
  made,      \* history: when a backup command last succeeded with this archive, or None
  fresh,     \* history: archives recorded since the last restore
  killed     \* history: a restore was killed after it had replaced the database file

backupVars == <<archive, backups, operator, names, made, fresh, killed>>
recoveryVars == <<backupVars, stamp>>
vars == <<sessionVars, recoveryVars>>

Init ==
  /\ SessionInit
  /\ archive = [b \in Backups |-> None]
  /\ backups = [b \in Backups |-> None]
  /\ operator = "idle" /\ names = 0 /\ stamp = None
  /\ made = [b \in Backups |-> None] /\ fresh = {}
  /\ killed = FALSE

-----------------------------------------------------------------------------
(***************************************************************************)
(* create_backup and restore, with the services stopped and no log beside  *)
(* the database file (module Backup has the cases with one).               *)
(***************************************************************************)
\* The name is computed and the archive opened for writing, which empties it.
StartBackup ==
  /\ operator = "idle" /\ login = None
  /\ \E b \in Backups :
       /\ b = IF stamp = None THEN names + 1 ELSE stamp
       /\ names' = IF b > names THEN b ELSE names
       /\ stamp' = b
       /\ archive' = [archive EXCEPT ![b] = None]
  /\ operator' = "archiving"
  /\ UNCHANGED <<sessionVars, backups, made, fresh, killed>>

\* The database as it is now.
WriteArchive ==
  /\ operator = "archiving"
  /\ archive' = [archive EXCEPT ![stamp] =
       [session |-> session, backups |-> backups,
        issued |-> Issued, revoked |-> revoked, sound |-> sound]]
  /\ operator' = "recording"
  /\ UNCHANGED <<sessionVars, backups, names, stamp, made, fresh, killed>>

\* INSERT INTO backups, created_at being CURRENT_TIMESTAMP, and commit.
RecordUnwritten ==                                              \* mutant
  /\ operator # "idle"
  /\ backups' = [backups EXCEPT ![stamp] = now]
  /\ operator' = "idle" /\ stamp' = None
  /\ made' = [made EXCEPT ![stamp] = now] /\ fresh' = fresh \cup {stamp}
  /\ UNCHANGED <<sessionVars, archive, names, killed>>
RecordBackup ==
  /\ operator = "recording"
  /\ backups' = [backups EXCEPT ![stamp] = now]
  /\ operator' = "idle" /\ stamp' = None
  /\ made' = [made EXCEPT ![stamp] = now] /\ fresh' = fresh \cup {stamp}
  /\ UNCHANGED <<sessionVars, archive, names, killed>>

\* The command fails or is killed: the next one uses the same name.
FailRecorded ==                                                 \* mutant
  /\ operator # "idle"
  /\ operator' = "idle"
  /\ backups' = [backups EXCEPT ![stamp] = now]
  /\ UNCHANGED <<sessionVars, archive, names, stamp, made, fresh, killed>>
FailBackup ==
  /\ operator # "idle"
  /\ operator' = "idle"
  /\ UNCHANGED <<sessionVars, archive, backups, names, stamp, made, fresh, killed>>

\* restore <archive>: sessions and recorded backups are those of the archive again, and
\* until the operation log is written the database file is the archive's, its name too.
Restore ==
  /\ operator = "idle" /\ login = None
  /\ \E b \in Backups :
       /\ archive[b] # None
       /\ session' = archive[b].session /\ backups' = archive[b].backups
       /\ revoked' = archive[b].revoked \cup (Issued \ archive[b].issued)
       /\ sound' = archive[b].sound \ retired
       /\ \/ stamp' = None /\ UNCHANGED killed
          \/ stamp' = b /\ killed' = TRUE
  /\ fresh' = {}
  /\ UNCHANGED <<now, key, token, login, retired, archive, operator, names, made>>

Next ==
  \/ Tick /\ UNCHANGED recoveryVars
  \/ operator = "idle" /\ SessionReads /\ UNCHANGED recoveryVars
  \/ operator = "idle" /\ SessionWrites /\ stamp' = None /\ UNCHANGED backupVars
  \/ StartBackup \/ WriteArchive \/ RecordBackup \/ FailBackup \/ Restore

Spec == Init /\ [][Next]_vars

-----------------------------------------------------------------------------
(***************************************************************************)
(* run_release_gate.  created_at is UTC without saying so, and astimezone  *)
(* takes it for local time.  The preflight it consults as well is module   *)
(* Migrations' PreflightExact.                                             *)
(***************************************************************************)
Recorded == {backups[b] : b \in Backups} \ {None}
Recent(created) == now - (created - Offset) <= MaxAge
GateOnFirstRow == \E c \in Recorded : (\A d \in Recorded : c <= d) /\ Recent(c)   \* mutant
GateOk == \E c \in Recorded : (\A d \in Recorded : d <= c) /\ Recent(c)

-----------------------------------------------------------------------------
(***************************************************************************)
(* Correctness.                                                            *)
(***************************************************************************)

\* The variables stay within their types; unless a restore was killed, a recorded backup
\* has its archive, whatever commands failed in between.
TypeOK ==
  /\ SessionTypeOK
  /\ operator \in {"idle", "archiving", "recording"}
  /\ names \in 0..MaxBackups /\ stamp \in 1..names \cup {None}
  /\ operator # "idle" => stamp # None
  /\ archive \in [Backups -> Archives \cup {None}]
  /\ backups \in Rows /\ made \in Rows
  /\ fresh \subseteq {b \in Backups : made[b] # None}
  /\ killed \in BOOLEAN
  /\ \A b \in Backups : ~killed /\ made[b] # None => archive[b] # None

\* Only a restore makes a refused token acceptable again, and then only one whose key
\* is still in use: revocations, new logins and failed commands never do.
OnlyRestoreRevives ==
  [][\A t \in Issued : ~Accepts(t) /\ Accepts(t)' => Restore /\ t \notin retired]_vars

\* When the gate passes, a backup command succeeded no longer than MaxAge ago and its
\* archive is there, through failed backup commands and restores of any archive, as long
\* as no restore was killed: a backup after a killed restore empties the archive it came
\* from before it has another.
GateHonest ==
  ~killed /\ GateOk => \E b \in Backups :
    archive[b] # None /\ made[b] # None /\ now - made[b] <= MaxAge

\* The gate passes after a successful backup until it is too old or a restore takes
\* the row away, whatever backups came before or failed since.
GateSeesBackup ==
  \A b \in fresh : now - made[b] <= MaxAge => GateOk
=============================================================================
