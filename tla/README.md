# Bonifaciy: a verification of the operational core

Bonifaciy is the server side of a small CRM/ERP: SQLite for records, a directory
for uploaded files, an outgoing mail queue with a worker, IMAP synchronisation,
backup and restore, API sessions, and a command line (`src/main.py`) in front of
`src/bonifaciy/`. Nothing in it runs in threads. What makes it hard is that every
command, the mail worker daemon and the API server are separate processes that
share one SQLite file and one directory, that a transaction covers the database
but never the files or the network, and that any of these processes can be
killed between two steps.

This directory holds TLA+ models of the parts where that matters, the TLC runs
that check them, and TLAPS proofs of what they promise.

## Inventory

| Component | State | Operations | Hard behaviour | What makes it correct |
|---|---|---|---|---|
| Outgoing mail queue: `mail.py`, `mail_worker.py`, `mail_daemon.py`, `SMTPTransport` | rows of `mail_outbox`: state, attempts, next_attempt_at, dedup_key | queue, reserve, send, mark sent, mark attempt | two workers on one queue, a worker killed at any point, a lost SMTP reply, retries by timestamp | one worker per message, bounded copies, final results, one active row per key, everything resolved |
| Document storage: `storage.py`, `reconcile` | rows of `documents`, files under `tmp/` and `uploads/` | save, replace, reconcile, clear orphans | files outside the transaction, kills between rename and commit, failed writes, cleaning beside writing | a current document has its file, nothing else is left |
| Backup and restore: `backup.py`, `db.py` | database file, its write-ahead log, `uploads/`, archives, snapshots | create_backup, restore with verification and undo | other processes hold the database open or have left its log, copies taken at different moments, archives overwritten in place, Ctrl-C, a failing undo | archives complete and consistent, restore takes effect, old data never lost |
| IMAP synchronisation: `IMAPSyncService`, `mail.py` | `mail_messages`, `mail_attachments`, the mailbox | sync_account | sequence numbers shift, a sync is repeated, overtaken or killed half-way, a refused INSERT keeps the write lock, a server that stalls | rows describe their message, nothing stored is lost, a finished sync is complete, the lock is given back |
| Schema migrations: `migrations.py`, `governance.py` | tables, `schema_migrations` | run_migrations, preflight | two first starts at once, a kill between two statements, swallowed errors, implicit transactions | a recorded migration was applied in full; restarted services reach the latest schema |
| API sessions: `auth.py`, `api_server.py` | `api_sessions`, the signing key of the server | login, authenticate, revoke, change of key | revocation racing a login, two expiry checks, restore of old rows | an ended token opens nothing, a live one works until its last second |
| Release gate: `release_gate.py` | reads `backups` | run_release_gate | the row it reads is itself part of what restore replaces; archives are named after the database file and can be overwritten | passes exactly when a recent backup exists |
| Roles: `rbac.py`; accounts and ciphers: `mail.py`, `security.py`; import: `importer.py`; log: `ops.py`; configuration: `config.py` | rows written once | lookups, single inserts | none that depends on order | pure functions and single statements |
| Deployment scripts, units, nginx; JavaScript patches | | | | evidence for the models' environment |

How they interact: `main.py` opens a connection (`app_context`: directories,
`connect`, `run_migrations`), runs one service and appends to `operation_logs`;
the daemon does the same and then loops with the connection open; the API server
opens a connection per request. Services call each other only in the mail part
(`MailWorker` -> `MailService`, `SMTPTransport`; `IMAPSyncService` ->
`MailService`). Everything else they share is state: the database and the data
directory.

`PROJECT.json` lists every component with its status, and the hazards of this
code, each at its line and with the properties that watch it.

## Modules

| Module | Models | Extends or uses |
|---|---|---|
| `Outbox` | the queue, its clients and workers, the SMTP hand-over | implements `OutboxContract` |
| `OutboxContract` | what the queue promises: the life of one message | |
| `OutboxProofs` | theorems about `Outbox` | `Outbox`, `TLAPS` |
| `DocumentStore` | documents as rows and files, cleaning | implements `AtomicStore` |
| `AtomicStore` | what storing a document promises | |
| `DocumentStoreProofs` | theorems about `DocumentStore` | `DocumentStore`, `TLAPS` |
| `Backup` | create_backup and restore over SQLite's log, beside uploads and the daemon | implements `AtomicBackup` |
| `AtomicBackup` | what backup and restore promise: one step each on the active data | |
| `BackupProofs` | theorems about `Backup` | `Backup`, `TLAPS` |
| `BackupRefinement` | that `Backup` implements `AtomicBackup` | `BackupProofs` |
| `Migrations` | run_migrations statement by statement, the preflight | implements `SchemaUpgrade` |
| `SchemaUpgrade` | what migrations promise: one complete version after the other | |
| `MigrationsProofs` | theorems about `Migrations` | `Migrations`, `TLAPS` |
| `ImapSync` | sync_account over a mailbox that changes | |
| `ImapSyncProofs` | theorems about `ImapSync` | `ImapSync`, `TLAPS` |
| `Sessions` | login, bearer check, revocation, change of the signing key | |
| `Recovery` | backups and restores composed with the sessions; the release gate | extends `Sessions` |
| `RecoveryProofs` | theorems about `Recovery` and `Sessions` | `Recovery`, `TLAPS` |
| `MCOutbox`, `MCDocumentStore`, `MCBackup`, `MCMigrations`, `MCImapSync`, `MCRecovery` | symmetry for TLC | |

Operators marked `mutant` are one wrong version each of the definition that
follows them. No specification uses them; each one is there to show that a
property notices the mistake.

### Outbox

A process is a worker (`mail-worker-daemon`, `mail-worker-once`) or a client
(`mail-queue`). A step is one committed statement or transaction, one read in
autocommit mode, or one call of the transport.

| Action | Code |
|---|---|
| `FindNoDuplicate`, `InsertRow`, `InsertConflict` | `queue_outgoing_message`: SELECT, then INSERT, or IntegrityError from the partial unique index |
| `SelectBatch`, `ReserveBatch` | `reserve_outbox_batch`: SELECT, then the transaction of guarded UPDATEs |
| `SendAccepted`, `SendReplyLost`, `SendRefused` | `transport.send`: returns; raises after the server accepted; raises before |
| `MarkSent` | `mark_outbox_sent` |
| `CountAttempt`, `Reschedule` | `mark_outbox_attempt`: reading the counter, then the UPDATE computed from it |
| `Crash` | kill, or an exception that leaves `run_once` |
| `Tick` | a second passes; at midnight stored stamps become yesterday's |

Any number of workers may run: the daemon is one, and `mail-worker-once` beside it, as
`RELEASE_GATE_CHECKLIST.md:25,30` does, is another. `saw` has what a worker's SELECT read
as the attempts of the rows it found; `acked` and the other history variables say what
happened, to compare with what the rows say.

Timestamps are text in SQLite, in two formats: `CURRENT_TIMESTAMP` has a space,
`isoformat()` a `T`. `Stamp` keeps the second and the format, and `TextLeqNow` is
the text comparison of the WHERE clause. The dedup key stands for the hash of
account, recipient, subject and body.

### DocumentStore

A process is a writer (`upload`, or a caller of `replace_document`) or a cleaner
(`reconcile --cleanup`). A document, its staged copy and its file share a name.

| Action | Code |
|---|---|
| `Stage`, `StageFails` | `_stage` and `_hash_file`; in a replacement the read of the old row before them; an exception there, which no handler catches |
| `Publish`, `Commit` | `staged.replace` inside the transaction; its commit |
| `UnlinkOld`, `UnlinkOldRefused` | `old_path.unlink` after the commit; the handler when it raises |
| `Abort`, `AbortRefused` | the handler when the transaction failed; it cannot delete the file either |
| `ReadRows`, `ListDisk` | the two reads of `reconcile` |
| `FindOrphan`, `UnlinkOrphan`, `UnlinkOrphanRefused`, `FinishReconcile` | `clear_orphans`: `exists`, `unlink`, its refusal, the end or the exception for a file that is gone |
| `KillWriter`, `KillCleaner` | the process is killed, or interrupted by Ctrl-C, which the handlers do not catch |

The history variable `unwritten` has the files whose writing failed.

### Backup

The database is a set of rows: the documents current in it, and marks, which stand for the
rows of the other tables. Rows lie on pages (`Page`). `main` is the content of the database
file. `wal` is the log: the pages it has and the rows on them, since a commit writes whole
pages and a reader takes each page from the log or else from the file (`Through`). `copied`
says that a checkpoint has copied the whole log and the open connections know it, so that
they read the file and the next writer may start the log anew. A checkpoint may follow any
commit; the last `Close` copies and removes the log; a process that is killed or terminated
(`Vanish`) leaves it, and it counts again when the next connection opens the database. A
process that dies in a checkpoint leaves the file half-copied (`Blurred`), which only the log
repairs. The model of the log was compared with SQLite itself on the cases that matter: a
backup and a restore beside a connection that has committed, a log left by a killed process,
and commits to other pages over an overwritten file.

The operator's commands read the file over time. `seen` has its contents since the reading
began; what is read is one of them, or, if there was more than one, a mixture (`Torn`).
`HashDb` opens the archive in place, under the name made from the checksum: an archive of the
same file is emptied there (`archives` has the half-written one until `TarUploads` ends), and
stays so if the command fails. `before` is what a command found, and `clobbered` says that a
restore has written the file beside a log or another connection.

| Action | Code |
|---|---|
| `StartUpload` ... `AbortUpload`, `InterruptUpload`, `KillUpload` | an upload or replacement, coarser than in `DocumentStore`; Ctrl-C, which closes the connection; a kill, which does not |
| `StartDaemon`, `CommitOther`, `StopDaemon`, `TerminateDaemon` | `mail-worker-daemon`, which ends after `--iterations` or by Ctrl-C and closes its connection, or by the SIGTERM of `systemctl stop`, on which Python runs no `finally` |
| `StartBackup`, `ListUploads`, `HashDb`, `TarDb`, `TarUploads`, `RecordBackup` | `create_backup`, one step per moment at which it reads |
| `StartRestore`, `Verify`, `SnapshotDb`, `SnapshotUploads` | `restore` up to the snapshots |
| `Replace` (`OverwriteDb`, `RemoveUploads`, `FillUploads`) | the try block |
| `FailReplace`, `InterruptReplace`, `KillReplace` | a step of the replacement or of the undoing fails, with any part of it done (`Damage`); Ctrl-C, which goes straight to the finally block; a kill |
| `Undo` | the except block, from the same three operations |
| `DropSnapshots`, `LogRestore`, `CloseOperator` | the finally block, which may fail as well; the log; the end of the command |
| `FailCommand`, `KillOperator` | an exception or a kill anywhere else |

### Migrations

A migration is a list of statements. What makes it delicate is the transaction
behaviour of Python's `sqlite3`: INSERT opens a transaction, CREATE and ALTER do
not, and `executescript` commits whatever is open before it starts. So the row that
records version *v* is committed by the first script of version *v+1*, and only the last
row by `conn.commit()`; the statements of a migration commit one by one, except the
rows of migration 4. The model has these rules (`CommitOpen`, `holder`, `newObjects`,
`newVersions`) and takes the statements of each migration from the code, with one
object for the tables that are always made together and two of the six added columns.

| Action | Code |
|---|---|
| `ReadVersions` | the SELECT of the applied versions |
| `BeginScript`, `CreateObject`, `InsertRows` | the statements of the scripts |
| `AlterTable`, `SkipColumn` | ALTER TABLE in `try ... except OperationalError: pass`: done or not needed; given up on |
| `RecordVersion` | INSERT INTO schema_migrations, or IntegrityError |
| `FinishMigrations`, `EndCommand` | `conn.commit()`; the command ends and its service starts again |
| `GiveUp`, `Kill` | "database is locked" ends the command; it is killed |
| `OutsiderLocks`, `OutsiderUnlocks` | a writer that does not run migrations, such as a worker of the previous release |

The history variable `missed` holds the columns given up on while the outsider had the
lock. `Init` has an empty database and databases at versions 2, 3 and 4; version 2 of the
release before version 3 had neither the columns nor the indexes.

### ImapSync

A message is the number of its arrival, so that a mailbox is a set and the sequence
number of a message its rank. `view` is the mailbox as it was selected, whose numbers a
session that only fetches keeps; `row` and `attached` are the two tables, by
`external_uid`; `attached` counts equal rows up to `MaxCopies`.

| Action | Code |
|---|---|
| `StartSync` | `login`, `select`, `search`, the slice `[-limit:]`; a refused search |
| `Fetch` | `client.fetch` of the next id, or its refusal; parsing |
| `SaveSyncedMessage` | the INSERT with its commit, or IntegrityError, which leaves the transaction open |
| `SaveAttachmentMeta` | `get_message_id`, then one INSERT per attachment with its commit |
| `FinishSync` | `log_operation`, whose commit ends what is open |
| `Interrupt` | the connection drops, a write waits too long, the process is killed |
| `Arrive`, `Expunge` | new mail; another mail client removes a message |

### Sessions and Recovery

`Sessions` has the API server, which answers one request at a time, and the commands
beside it. A token says its owner, its expiry and the key it was signed with; the row
in `api_sessions` says whether it was revoked. `Accepts` is `authenticate_token`.

| Action | Code |
|---|---|
| `ReadUser`, `IssueToken`, `EndLogin` | POST /auth/login: the SELECT, the INSERT with its commit, the answer or an exception |
| `RevokeSessions` | `revoke-sessions`, of one user or of all |
| `DeployKey` | `generate-signing-key` and the redeployment that `security_incident_rotate.sh` asks for |
| `Tick` | the clock |

`Recovery` adds the operator, who stops the services for a backup or a restore; no log lies
beside the database file then (what a restore does with one: `RestoreInForce` under "Runs").
The archive of a backup is named after the checksum of the database file: `stamp` is the
archive whose name the file as it is now would give again, which is the case after a
backup that failed before it recorded its row and after a restore that was killed before
it wrote the operation log. `made`, `fresh`, `killed` and the three sets of
`historyVars` are history variables: what happened, to compare with what the tables say.

| Action | Code |
|---|---|
| `StartBackup` | `create_backup` up to the opening of the archive, which empties it |
| `WriteArchive`, `RecordBackup` | the contents of the archive; the row in `backups` |
| `FailBackup` | an exception or a kill before the row is committed |
| `Restore` | `restore`, as one step, complete or killed after it has replaced the database file |
| `GateOk` (an operator) | `run_release_gate` |

## Runs

Passing runs:

| Run | Instance | Shows |
|---|---|---|
| `OutboxSafety` | 2 workers, 2 clients, 2 keys, 2 rows, 2 attempts, 1 crash | the safety properties, that only a crash strands messages, that only an overtaken worker retries early, and the refinement of `OutboxContract` |
| `OutboxDaemon` | the mail daemon alone, 3 attempts, two delays, 5-second days, fair | a wait is bounded, and every message is resolved |
| `StoreWriters` | 3 writers, 5 names, 2 kills, any failed writes | files and rows agree, failed uploads clean up but for what they could not write; refinement of `AtomicStore` |
| `StoreCleaning` | writers beside `reconcile --cleanup`, a kill and a refused deletion, fair | the two ways in which a current file can be lost; orphans are removed |
| `BackupQuiet` | commands one after the other, among them a daemon and an upload that may be terminated or killed and leave the log; 2 kills, interrupts or failed steps, 1 archive at a time | refinement of `AtomicBackup`; one failed step or kill of a restore costs no data |
| `BackupOverlap` | 2 uploads or replacements beside backups and restores, checkpoints at any commit | what an archive holds at least, and what it can lack |
| `MigrationsRace` | 2 runners on any earlier database, 1 kill, 2 lock timeouts, another writer, fair | recorded versions were applied, in order; refinement of `SchemaUpgrade`; the latest schema is reached |
| `ImapSync` | 2 synchronisations, 3 messages of which one plain and two with 2 attachments, limit 2, 1 removal, 1 failure, fair | until the removal rows match the mailbox, finished means complete and the newest messages get stored; with it too the lock comes back, if the server answers |
| `Recovery` | 2 users, 2 tokens, 2 archives, 1 change of key, sessions and backups that expire after a tick, any failures and restores | ended sessions are refused and live ones work through restores; the gate is right about the backups |

Runs that find a disagreement between the code and what the repository says (the
quotations are in `PROJECT.json`, "findings"):

| Run | Counterexample |
|---|---|
| `OutboxStranded` | a worker dies between reservation and mark; the row stays `processing` for ever and its key cannot be queued again |
| `OutboxRetryDue` | a due retry is not selected until the UTC date changes |
| `BackupStaleMain` | an upload ends while the daemon holds its connection, so that nothing is checkpointed; the backup that starts then misses the document |

Other limits of the code show when a constant, a premise or the property of a passing run
is changed; TLC then finds the property violated, which is how the preconditions in the
passing runs were found. The last column quotes the repository where it says otherwise.

| Run and change | Violated | Why |
|---|---|---|
| `OutboxSafety` with this property | `RetryWaits` | with `mail-worker-once` beside the daemon (`RELEASE_GATE_CHECKLIST.md:25,30`), one reserves from an old SELECT what the other has just tried and put off: the UPDATE at `mail.py:119` checks the state only; `CHANGELOG.md:36`: "retry scheduling (`next_attempt_at`)" |
| `StoreWriters` with a cleaner | `CurrentHasFile` | `reconcile --cleanup` deletes the file of a document registered after it read the rows |
| `StoreWriters` with `MaxRefusals = 1` | `CurrentHasFile` | the old file cannot be deleted, so the handler deletes the committed new one |
| `BackupOverlap` with this property | `ArchiveSelfContained` | a replacement during a backup gives an archive that verifies and lacks a current file |
| `BackupQuiet` with this property, `MaxFaults = 0` and `Killable = {d1}` | `RestoreInForce` | systemd stops the daemon by SIGTERM, its connection is not closed and its log stays; the pages in the log are then read instead of those that restore puts in place (`backup.py:114`), and the command prints "restored". `BACKUP_RESTORE.md:24`: "Replace active data."; `UPGRADE.md:13-14`: "stop new release services; - restore with previous release binary while keeping same data directory" |
| `BackupOverlap` with this property | `RestoreInForce` | restore overwrites the main file under another connection (`backup.py:114`), as the restore of `scripts/prod_readiness_check.sh:86` does beside running services: the log covers the restored file |
| `BackupQuiet` without `faults <= before.faults + 1` in `LastCopySafe` | `LastCopySafe` | replacement and undo both fail and the snapshots are deleted; what is left is the archive |
| `BackupQuiet` without `dropCut` and `cut` excluded in `LastCopySafe` | `LastCopySafe` | Ctrl-C in the middle of a restore: "except Exception" (`backup.py:118`) does not catch it, and the finally block deletes both snapshots |
| `BackupQuiet` with this property | `RollsBack` | the same; `BACKUP_RESTORE.md:23,25`: "Snapshot current DB/uploads.", "Roll back to previous snapshot if any error happens." |
| `MigrationsRace` with `Spec`, one runner and `MaxBusy = 1` | `ColumnsPresent` | an upgrade beside a write that outlasts the lock timeout records version 3 without one of its columns (`migrations.py:177` swallows "database is locked"); `CHANGELOG.md:39`: "Added migration v3 to upgrade existing outbox schemas safely." |
| `ImapSync` with `MaxCopies = 2` | `StoredOnce` | a second synchronisation adds the attachments again; a removal renumbers a message, which is then stored twice; `README.md:15`: "synced-message dedup" |
| `ImapSync` without `removals = 0` in `FinishedIsComplete` | `FinishedIsComplete` | after a removal a new message gets the number of a stored one and is taken for it: it is never stored (`mail_transport.py:92`) |
| `Recovery` with a negative `Offset` | `GateHonest` | `created_at` is UTC and is taken for local time (`release_gate.py:26`): behind UTC an old backup counts as recent |
| `Recovery` without `~killed` in `GateHonest` | `GateHonest` | after a killed restore, `backup` opens the archive it restored from and empties it; if it fails then, a row says there is a backup and there is none |

Two more follow from the model without a property. The archive of a backup cannot hold
its own row, so after the restore drill of `RELEASE_GATE_CHECKLIST.md:7-9` the gate
has lost the very backup it was restored from. And a user whose login contains a colon
gets a token at /auth/login that is never accepted (`auth.py:83-85` splits the payload
at colons); `LoginLasts` excludes them through `Colons`.

**Bounds.** `MaxId`, `Files`, `MaxCrashes`, `MaxRefusals`, `MaxFaults`, `MaxArchives`,
`MaxKills`, `MaxBusy`, `MaxHolds`, `MaxMessages`, `MaxRemovals`, `MaxBreaks`, `MaxCopies`,
`MaxTime`, `MaxKeys`, `MaxBackups` and the set `Tokens` cap what grows without limit. They
are large enough for the cases that matter: two messages side by side and one key queued
twice (2 rows), the last attempt and one before it (2 attempts), two distinct delays and a
retry that crosses midnight (5-second days), a replacement of a replacement beside another
writer (5 names), an archive that is restored after the data has changed, or that the
backup after a killed restore is written over (1 archive; the theorems have several), a
document in the log beside one in the file (2 documents in the runs with overlap), a kill
at every step and one more after it, a message outside the limit, one without attachments
and one with two of them interrupted between the two (3 messages), a last second and one
after it (`MaxTime = 1` with `Ttl = 1`), a revoked token in an archive beside one issued
after it (2 tokens, 2 archives). Two processes of a kind suffice for every race in the
code, since each decision depends on one other process's last write. Two faults are what a
restore needs to fail and to fail again in its undoing, or a backup to fail and the one
over its archive as well. Failed writes of `StageFails` are bounded by `Files`, and
terminated daemons are not faults and not bounded. In `OutboxSafety` one batch can hold
every row, so `OnlyCrashesStrand` says something there only while no worker has died; the
theorem covers the rest. `BackupOverlap` has no daemon: to the log it is one more open
connection, as the other upload is; the theorems have it. The proofs remove the bounds for
every safety property.

**Fairness.** `OutboxDaemon` assumes weak fairness of the worker's `run_once`
and of time: `MailDaemon.run` loops for ever and
`ops/systemd/bonifaciy-mail-worker.service` restarts it. Nobody has to queue
mail and the transport may fail every time. `StoreCleaning` assumes that a command
that has started reaches its end; no part of the repository schedules
`reconcile`, so that it is run again and again is the premise of the property.
`MigrationsRace` assumes that services which end are started again (`Restart=always`
in both units) and that a foreign transaction ends; kills and lock timeouts are not fair
but bounded, as nothing is ever reached if they never stop. `ImapSync` assumes of the code
only that a process that can write to the database does. That the server answers a FETCH and
the LOGOUT is the premise `ServerAnswers` of both its liveness properties: `imaplib` is
opened without a timeout (`mail_transport.py:67,69`), so a server that stalls holds up the
command, and with it the write lock, for as long. That the command is run again and again,
by whatever schedules it, is the premise `SyncedAgain`; failures are bounded for the same
reason as above, and nothing is assumed of the mailbox. (SMTP has a timeout of 20 s.)

**Deadlock.** It is checked where the system can always go on (`Tick`, a cleaner, a runner,
a synchronisation, a login). Stores without a cleaner and the backup model rest when every
name is drawn, and say `CHECK_DEADLOCK FALSE`.

## Proofs

`OutboxProofs` proves for every number of workers, clients, keys, rows, attempts
and crashes: type correctness, exclusive reservations, the attempt accounting, the
bound on copies, acknowledged sends, finality, deduplication, no duplicate after an
acknowledgement, that only overtaken workers disregard the backoff, the bounds on waits and on
stranded messages, and that `Outbox` implements `OutboxContract`. The argument is
the invariant `IInv` of `Outbox`. Exclusiveness alone is not inductive: that a
worker may write its mark by id alone depends on its batch being its own, that the
written counter is right depends on the row not having moved since it was read,
and both depend on the row staying `processing`. `Bookkeeping` states what a
worker's local variables say about the rows it holds. Assumption:
`OutboxAssumption` (limits are positive, `NoKey` is not a key). Finality,
deduplication and the refinement are then step properties that use `IInv`. The backoff
(`OnlyOvertakenRetryEarly`) rests on `SelectedDue`: a selected row has at least as many
attempts as its SELECT read, and more if it is not due; for while nobody counts an attempt,
nothing but time happens to its stamp, and time, midnight included, does not make a due row
undue.

Two theorems bound what the two findings about the queue can cost. `WaitIsBounded`: a
stamp comes no further away as time passes (`DueLasts`), so a retry that the text
comparison holds back is selected at the latest from the midnight after it on; a message
never tried is never held back, since both sides of its comparison have one format.
`StrandedOnlyByCrashes`: with `BatchBounded` (the LIMIT of the selection,
`FirstRowsBounded`) a death adds at most one batch to the rows in `processing` that nobody
works on (`CrashStrands`), and no other step adds any (`OthersStrandNothing`).

`DocumentStoreProofs` proves with `StoreInv` (each writer's file is its own and
follows its place in the operation; what a cleaner is about to delete was not in
the rows it read): type correctness; `LossExplained`, that a current document loses
its file only to a cleaner with stale rows or to a replacement whose deletion of the
old file was refused, for any number of writers, cleaners, kills and refusals; and,
when there are neither cleaners nor refusals, that every current document has its
file, that the store implements `AtomicStore`, and that a store at rest has exactly the
files of the current documents under `uploads/` and under `tmp/` only files that could not
be written (`QuiescentExact`). The last needs `Tidy`: while nothing was killed, every file
under `uploads/`, or staged and written in full, that belongs to no current document belongs
to a writer that is still at work.

`MigrationsProofs` proves with `MigInv`, for any number of runners, kills, lock timeouts and
foreign writes: type correctness, `RecordedIsApplied`, `ReadyMeansLatest`,
`GrantsAreAtomic`, `PreflightExact` and that `Migrations` implements `SchemaUpgrade`. That a
recorded version was applied is not inductive: one has to know what each runner has made
visible up to its line (`WorksOn`), and which single version and which rows an open
transaction can hold when the next script commits it (`Uncommitted`). The step that needs an
argument is `SkipColumn`: if another runner has the lock, that runner is past version 3 (the
versions are recorded in order, and the waiting runner has found 2 recorded), so the column
is there. `ColumnsWithoutOutsider` draws the conclusion: without foreign writes version 3
never lacks a column, which is the exact condition of the deviation listed above. `MigInv`
is also an invariant TLC confirms on the instance of `MigrationsRace`.

The mapping to `SchemaUpgrade` takes as level the number of committed versions, as schema
the committed objects of the versions up to it with the grants, which permission checks
read whatever version is recorded, and as lost the columns missed. The same
invariant shows why a level comes with its objects at once: the commit that makes the row
of version *v* visible adds that one row (`OneVersion`), and what version *v* vouches for
was in the database before it, or comes with it as the rows of migration 4 do.
Objects of a version not recorded yet are outside the mapped schema, which is why a
migration killed half-way is a stutter. `SchemaUpgrade` is the promise the preflight and
the release notes rely on, and it has `GrantsAreAtomic` as a consequence.

`ImapSyncProofs` proves for any number of synchronisations, messages, attachments,
removals and failures: type correctness, `StoredIsKept`, `RowsMatchMailbox` and
`FinishedIsComplete`, the last two as long as nothing has been removed from the mailbox
(`removals = 0`: after a removal the code takes a new message for a stored one). Neither of
them is inductive. While nothing was removed,
every view is a prefix of the mailbox (`Prefixes`), so that one number means the same
message to all synchronisations; rows and attachments are filed under it (`Numbered`);
and each synchronisation that runs has, for each message of its slice, either not
reached it or stored it with its attachments up to `part` (`OnItsWay`), whoever
inserted the row. The arithmetic of ranks in a prefix comes from the library's theorems
about cardinalities.

`BackupProofs` proves for any number of documents, pages, uploads, daemons and faults, in
three parts. `TypeInv` gives type correctness, whatever overlaps, is killed or fails.

When the operator's commands run alone (`Quiet`: nothing is in `Overlap`), `QuietInv` gives
`LastCopySafe` and three results without a run of their own: a backup archives the file and
the files it found, and the database itself if it found no log (`QuietBackupExact`); a
restore that found no log takes effect (`QuietRestoreInForce`); and a complete archive passes
the verification (`QuietArchivesVerify`). Any process may still be killed, terminated or
interrupted, so a log can lie beside the file when a command starts. `LogLeft` says when one
does and that only a log repairs a half-copied file, `Solo` that nobody else is at work, `Noted`
that the log stays as it was found until the command's first commit, `Drafted` and `Verified`
that what is archived and restored is of one moment, `Saved` and `Undone` what the snapshots
hold at each line and that an undoing without a fault of its own puts everything back.
`LastCopySafe` counts the faults since the restore began, so it holds for any number of
earlier ones; it does not speak of a restore interrupted by Ctrl-C, which loses the last copy.

The third part has no premise on what overlaps. The file of an upload that has not committed
is in no database, copy or archive (`Fresh`), and as long as no restore has written under a
log or another connection, a log that is copied agrees with the file (`Coherent`). A step
then only adds committed rows to what is stored and only takes deleted ones away (`Shift`),
so what the file held when a backup began and what is still current is in all that is read of
it (`Carried`), at whatever moment of whatever checkpoint. From it follow
`BackupHoldsCheckpointed` (a copy of one moment has every document that was in the main file
when its backup began and is still current: what a backup of running services lacks is at
most what no checkpoint had copied; of a torn copy nothing is said) and
`ArchiveLacksOnlyGone` (a file of its database that an archive lacks when it has been written
is not under `uploads/` either), the exact form of what was found beside replacements.
Without replacements `GrowingArchiveSelfContained` follows, as what a backup has read is then
still current (`Gathered`): an archive that verifies has every file of its database, if the
active data is sound. Assumption: `BackupAssumption`.

`BackupRefinement` proves that under `Quiet` `Backup` implements `AtomicBackup`, whose data
are the database in force, the file, whether a log lies beside it, and the files. The
mapping lets the active data change once in each command: while a restore is between its
steps (`HalfPlaces`) the abstract data are still those it found, which the snapshots hold by
`QuietInv`, and the last `copytree` is the step `Replace`, which puts the archive's file in
place and, if there was no log, in force. The steps of the undoing are stutters and its end
is `GiveUp`. What is active after a kill, after Ctrl-C or after a failure of the undoing is
anything at all (`Wreck`), and `AtomicBackup` permits that only to a restore that may be
killed or interrupted, or that has already failed once. An archive disappears only when a
backup of the same file opens it (`Reuse`), and no restore ends without an effect unless a
fault stops it: that rests on `Verified`, since the verification never refuses a complete
archive, while half-written ones are outside the mapping (`WholeArchives`).

`RecoveryProofs` proves for any number of users, tokens, keys and archives: type correctness
(with: unless a restore was killed, a recorded backup has its archive), `EndedIsRefused`,
`LoginLasts`, `OnlyRestoreRevives`, `GateHonest` for a server not behind UTC, and
`GateSeesBackup` for one not ahead of it. A restore makes the content of an archive the
present, so the invariant says of every archive what it says of the database: `TokenInv`
relates the history of a token with its row and its key, `ArchiveInv` says the same of each
archive, with the keys retired since, and that its rows in `backups` are no newer than the
successes they stand for; `GateInv` says that of the table, and that a name is given again
only to an archive that was never recorded. Assumptions: `SessionAssumption`,
`RecoveryAssumption`, and the sign of `Offset` for the gate alone. That the gate passes
after a backup needs no maximum of a set: `NewestFresh` says that no row of the table is
newer than all those of successes since the last restore.

Out of the prover's reach and left to TLC: liveness (`AllResolved`, `OrphansSwept`,
`Upgraded`, `LockReturned`, `NewestStored`). Every other property of a passing run is a
theorem. `GrantsAreAtomic`, `TerminalStable` and `StoredIsKept` are theorems that no run
checks any more: a refinement that is checked implies the first two, and the code has only
INSERTs for the last. `BackupExact`, `CleanRestoreInForce` and `ArchivesVerify` stand in
`BackupProofs` alone; `ImplementsAtomicBackup`, which a run checks, needs them.
`ArchiveSelfContained` is a theorem without a run, since the run with overlap has
replacements. The other hypotheses of the theorems are those of the runs, or weaker.

## Not modelled

See "components" in `PROJECT.json`. The reasons are of three kinds: pure functions of
their inputs (password hashing, token signatures, ciphers, text extraction and the
status of an import, the queries of the API), single statements that nothing else
depends on (accounts, roles, import runs, users, and `mail-sync-demo`, which inserts one
row by hand), and not part of the Python core (deployment scripts, JavaScript patches).

Abstractions worth knowing: names drawn by `uuid4` are distinct; SQLite transactions
are atomic and durable (`synchronous=FULL`); the file system's rename and unlink are
atomic, a copy is not; outside `Migrations`, waiting for SQLite's lock is not modelled, so
a step stands for a statement that got its lock, and "database is locked" is one of
the exceptions behind `Abort`, `AbortUpload` and `Crash`. `Backup` does not model the page
caches of connections that were open when a restore overwrote the file: what such a
connection reads and checkpoints is not determined by file and log alone, so the properties
about overlap say nothing once `clobbered` holds. A checkpoint held up by a reader copies in the
model what an earlier one could have copied; and `uploads/` is read as one set, since a file
is never changed, only added or removed.

## Plan

1. `RestoredSystem`: the composition of `Outbox` with a restore: a message sent after the
   backup is `queued` again, and handed over again.
2. Proofs: an abstract specification of a synchronised mailbox (each message stored at
   most once, with all its parts or none) and the exact condition under which `ImapSync`
   implements it.
3. Hazards without a property: the chain of replaced documents (`storage.py:101`), staged
   copies of killed or failed uploads (`storage.py:35`), a restore after a killed one
   (`backup.py:104`), a restore beside commands that create `uploads/` again
   (`backup.py:117`), a stalled IMAP server (`mail_transport.py:67`), removed messages
   (`mail_transport.py:92`). Each needs a decision about what the code should promise before a
   property can say it.
4. The classification of imported files by `importer.py`, should import runs ever be
   retried: today each file has one row that nothing reads again.
