------------------------------- MODULE Backup -------------------------------
(***************************************************************************)
(* BackupService.create_backup and restore on the live data directory:     *)
(* the SQLite file, its write-ahead log, uploads/, the archives, and the   *)
(* commands and services that use them.                                    *)
(*                                                                         *)
(* The database is the set of its rows: the documents that are current,    *)
(* and marks, which stand for the rows of the other tables.  A document    *)
(* and its file under uploads/ share a name.  With journal_mode=WAL a      *)
(* commit writes whole pages to the log; the main file follows at a        *)
(* checkpoint.  Both create_backup and restore copy the main file with     *)
(* ordinary file calls.                                                    *)
(***************************************************************************)
EXTENDS Integers, FiniteSets

CONSTANTS
  Files,      \* documents, each with its file
  Marks,      \* rows of the other tables: mail_outbox, backups, operation_logs
  Page,       \* the page of the database that each row is on
  Uploaders,  \* processes that run upload (or replace a document)
  Daemons,    \* processes that keep a connection: mail-worker-daemon
  Operator,   \* the process that runs backup and restore, one after the other
  Overlap,    \* the operator's commands that may run beside other commands and services
  Replacing,  \* uploaders may replace documents (replace_document)
  Killable,   \* processes that may be killed, terminated, or interrupted by Ctrl-C
  MaxFaults,  \* bound: kills, interrupts and failed file operations
  MaxArchives, \* bound: archives
  NoFile,     \* no file
  NoArchive,  \* nothing: no archive, no copy, no command
  Torn,       \* mark of a file that is not a database
  Blurred     \* mark of a file whose pages are of different moments

Rows == Files \cup Marks
Content == Rows \cup {Torn, Blurred}
Pages == {Page[r] : r \in Rows}
Archives == [listed : SUBSET Files, checksum : SUBSET Content,
             db : SUBSET Content, uploads : SUBSET Files, whole : BOOLEAN]

ASSUME BackupAssumption ==
  /\ Files \cap Marks = {} /\ DOMAIN Page = Rows
  /\ NoFile \notin Content /\ Torn \notin Rows \cup {Blurred} /\ Blurred \notin Rows
  /\ NoArchive \notin Archives /\ \A c \in SUBSET Content : c # NoArchive
  /\ Overlap \subseteq {"backup", "restore"} /\ Replacing \in BOOLEAN /\ MaxFaults \in Nat /\ MaxArchives \in Nat
  /\ Operator \notin Uploaders \cup Daemons /\ Uploaders \cap Daemons = {}
  /\ Killable \subseteq Uploaders \cup Daemons \cup {Operator}

VARIABLES
  main,       \* content of the database file
  wal,        \* the log: the pages in it, and the rows on them
  copied,     \* a checkpoint has copied the whole log, and the open connections know
  seen,       \* the contents of the file since the operator began to read it
  uploads,    \* files under uploads/
  dirThere,   \* uploads/ exists
  conns,      \* processes with an open connection
  at,         \* where each process is in its command
  mine, old,  \* an uploader's new file and the document it replaces
  used,       \* names drawn so far
  archives,   \* the archives under backups/
  draft,      \* the archive being written
  source,     \* the archive being restored
  snapDb, snapUploads, \* db_tmp_old and uploads_tmp_old
  before,     \* history: what the operator's command found
  clobbered,  \* history: a restore has written the file beside a log or another connection
  faults

database == <<main, wal, copied, seen>>
directory == <<uploads, dirThere>>
uploaderVars == <<mine, old, used>>
backupVars == <<archives, draft>>
restoreVars == <<source, snapDb, snapUploads, clobbered>>
operatorVars == <<backupVars, restoreVars, before>>
vars == <<database, directory, conns, at, uploaderVars, operatorVars, faults>>

Processes == Uploaders \cup Daemons \cup {Operator}

-----------------------------------------------------------------------------
(***************************************************************************)
(* SQLite in WAL mode.                                                     *)
(***************************************************************************)
EmptyLog == [pages |-> {}, rows |-> {}]
Covered(log) == {r \in Rows : Page[r] \in log.pages}

\* A reader finds each page in the log or else in the main file.  What a checkpoint that was
\* cut short has left half-copied is in the log.
Through(log, file) ==
  IF log = EmptyLog THEN file ELSE (file \ (Covered(log) \cup {Blurred})) \cup log.rows

\* Once the log is copied, readers leave it alone.
Logical == IF copied THEN main ELSE Through(wal, main)

\* The main file may change while the operator reads it.
Noticed == seen' = IF seen = {} THEN {} ELSE seen \cup {main'}

\* A commit appends the pages it touches to the log, or starts it anew when it was copied.
\* An automatic checkpoint may follow; one that readers hold up copies what an earlier
\* one could have copied.
CommitDb(adds, dels) ==
  \E kept \in {wal.pages} \cup IF copied THEN {{}} ELSE {} :
    LET rows == (Logical \ dels) \cup adds
        touched == {Page[r] : r \in (adds \cup dels) \cap Rows}
        new == [pages |-> kept \cup touched,
                rows |-> {r \in rows \cap Rows : Page[r] \in touched}
                           \cup {r \in wal.rows : Page[r] \in kept \ touched}]
    IN /\ wal' = new
       /\ \/ copied' = FALSE /\ main' = main
          \/ copied' = TRUE /\ main' = Through(new, main)
       /\ Noticed

\* A commit to another table: a row comes or changes.
CommitMark == \E m \in Marks : CommitDb({m}, {})

\* connect, after build_settings has created missing directories.
Connect(p) ==
  /\ conns' = conns \cup {p}
  /\ dirThere' = TRUE

\* The last connection to close copies what is left of the log and removes it.
CloseLeaks(p) ==                                                \* mutant
  UNCHANGED <<conns, database>>
Close(p) ==
  /\ conns' = conns \ {p}
  /\ IF conns = {p}
     THEN main' = Logical /\ wal' = EmptyLog /\ copied' = TRUE /\ Noticed
     ELSE UNCHANGED database

\* Where a process commits or closes next.
Writes(p) == at[p] \in {"published", "committed", "running", "archived", "restored",
                       "closing", "failed", "cut"}

\* A process that dies does not close its connection: the log stays, and once nobody has it
\* open, all of it counts again.  It may die in the checkpoint of a commit or a close.
Vanish(p) ==
  /\ conns' = conns \ {p}
  /\ copied' = (copied /\ (conns # {p} \/ wal = EmptyLog))
  /\ \/ main' = main
     \/ Writes(p) /\ ~copied /\ wal # EmptyLog /\ main' = main \cup {Blurred}
  /\ wal' = wal

Init ==
  /\ main = {} /\ wal = EmptyLog /\ copied = TRUE /\ seen = {}
  /\ uploads = {} /\ dirThere = TRUE
  /\ conns = {}
  /\ at = [p \in Processes |-> "idle"]
  /\ mine = [p \in Uploaders |-> NoFile]
  /\ old = [p \in Uploaders |-> NoFile]
  /\ used = {}
  /\ archives = {} /\ draft = NoArchive /\ source = NoArchive
  /\ snapDb = NoArchive /\ snapUploads = NoArchive
  /\ before = NoArchive /\ clobbered = FALSE
  /\ faults = 0

Goto(p, place) == at' = [at EXCEPT ![p] = place]

\* Between two commands; "halted" after a kill in the middle of a replacement.
Idle(p) == at[p] \in {"idle", "halted"}

BackupPlaces == {"listing", "hashing", "taringDb", "taringUploads", "archived"}
ReplacePlaces == {"snapped", "removing", "filling"}
UndoPlaces == {"undoDb", "undoRemove", "undoFill"}
RestorePlaces == {"verifying", "verified", "snapping", "dropping", "restored",
                  "dropFailed", "failed", "dropCut", "cut"} \cup ReplacePlaces \cup UndoPlaces

\* A command of the operator that is not in Overlap runs alone.
Alone(command) == command \in Overlap \/ \A p \in Processes \ {Operator} : Idle(p)
Free(p) ==
  /\ at[p] = "idle"
  /\ \/ Idle(Operator)
     \/ at[Operator] \in RestorePlaces /\ "restore" \in Overlap
     \/ at[Operator] \in BackupPlaces \cup {"closing"} /\ "backup" \in Overlap

Fault == faults < MaxFaults /\ faults' = faults + 1

-----------------------------------------------------------------------------
(***************************************************************************)
(* The other commands and services.                                        *)
(***************************************************************************)
StartUpload(u) ==
  /\ Free(u)
  /\ \E f \in Files \ used : mine' = [mine EXCEPT ![u] = f] /\ used' = used \cup {f}
  /\ \E d \in {NoFile} \cup IF Replacing THEN Logical \cap Files ELSE {} :
       old' = [old EXCEPT ![u] = d]
  /\ Connect(u)
  /\ Goto(u, "staged")
  /\ UNCHANGED <<database, uploads, operatorVars, faults>>

PublishFile(u) ==
  /\ at[u] = "staged" /\ dirThere
  /\ uploads' = uploads \cup {mine[u]}
  /\ Goto(u, "published")
  /\ UNCHANGED <<database, dirThere, conns, uploaderVars, operatorVars, faults>>

CommitUpload(u) ==
  /\ at[u] = "published"
  /\ CommitDb({mine[u]}, {old[u]})
  /\ Goto(u, "committed")
  /\ UNCHANGED <<directory, conns, uploaderVars, operatorVars, faults>>

Leave(u) ==
  /\ mine' = [mine EXCEPT ![u] = NoFile]
  /\ old' = [old EXCEPT ![u] = NoFile]
  /\ Goto(u, "idle")

\* UnlinkOld of a replacement, the close of the connection, the end of the command.
EndUpload(u) ==
  /\ at[u] = "committed"
  /\ uploads' = uploads \ {old[u]}
  /\ Close(u) /\ Leave(u)
  /\ UNCHANGED <<dirThere, used, operatorVars, faults>>

\* Publishing fails, uploads/ being gone for instance, or the commit does.
AbortUpload(u) ==
  /\ at[u] \in {"staged", "published"}
  /\ uploads' = uploads \ {mine[u]}
  /\ Close(u) /\ Leave(u)
  /\ UNCHANGED <<dirThere, used, operatorVars, faults>>

\* Ctrl-C passes the handler, which catches Exception only, but closes the connection.
InterruptUpload(u) ==
  /\ u \in Killable /\ at[u] # "idle"
  /\ Fault
  /\ Close(u) /\ Leave(u)
  /\ UNCHANGED <<directory, used, operatorVars>>

StartDaemon(d) ==
  /\ Free(d)
  /\ Connect(d)
  /\ Goto(d, "running")
  /\ UNCHANGED <<database, uploads, uploaderVars, operatorVars, faults>>

\* A row of mail_outbox is reserved or marked.
CommitOther(d) ==
  /\ at[d] = "running"
  /\ CommitMark
  /\ UNCHANGED <<directory, conns, at, uploaderVars, operatorVars, faults>>

\* The end of --iterations, or Ctrl-C: managed_connection closes.
StopDaemon(d) ==
  /\ at[d] = "running"
  /\ Close(d)
  /\ Goto(d, "idle")
  /\ UNCHANGED <<directory, uploaderVars, operatorVars, faults>>

\* systemctl stop sends SIGTERM, on which Python runs no finally.
TerminateDaemon(d) ==
  /\ d \in Killable /\ at[d] = "running"
  /\ Vanish(d) /\ Noticed
  /\ Goto(d, "idle")
  /\ UNCHANGED <<directory, uploaderVars, operatorVars, faults>>

KillUpload(u) ==
  /\ u \in Killable /\ at[u] # "idle"
  /\ Fault
  /\ Vanish(u) /\ Noticed /\ Leave(u)
  /\ UNCHANGED <<directory, used, operatorVars>>

-----------------------------------------------------------------------------
(***************************************************************************)
(* create_backup: the manifest is computed before anything is archived.    *)
(***************************************************************************)
Observed ==
  [db |-> Logical, file |-> main, log |-> wal, uploads |-> uploads, faults |-> faults,
   settled |-> \A u \in Uploaders : at[u] = "idle"]

StartBackup ==
  /\ Idle(Operator) /\ Alone("backup")
  /\ Connect(Operator)
  /\ before' = Observed
  /\ Goto(Operator, "listing")
  /\ UNCHANGED <<database, uploads, uploaderVars, backupVars, restoreVars, faults>>

\* A copy has only what is in the file: if that needs its log, the copy is no database.
WithoutLog(file) == IF Blurred \in file THEN (file \ {Blurred}) \cup {Torn} ELSE file

\* The file is read while others may write it: what has been read is one of its contents,
\* or a mixture that was never there.
Readings(mixture) ==
  {WithoutLog(c) : c \in seen} \cup IF \E c, d \in seen : c # d THEN {mixture} ELSE {}

\* _uploads_manifest; the hashing of the database begins.
ListUploads ==
  /\ at[Operator] = "listing"
  /\ draft' = [listed |-> uploads, checksum |-> {}, db |-> {}, uploads |-> {}, whole |-> FALSE]
  /\ seen' = {main}
  /\ Goto(Operator, "hashing")
  /\ UNCHANGED <<main, wal, copied, directory, conns, uploaderVars, archives, restoreVars,
                 before, faults>>

\* db_checksum, from which the names are made.  tarfile.open("w:gz") empties an archive of
\* the same name, which has the same checksum (but the same rows need not be the same
\* bytes); tar.add begins to read the database.
HashDb ==
  /\ at[Operator] = "hashing"
  /\ \E c \in Readings({Blurred}) : draft' = [draft EXCEPT !.checksum = c]
  /\ \E same \in {{}} \cup {{a} : a \in {b \in archives : b.checksum = draft'.checksum}} :
       archives' = (archives \ same) \cup {draft'}
  /\ Cardinality(archives') <= MaxArchives
  /\ seen' = {main}
  /\ Goto(Operator, "taringDb")
  /\ UNCHANGED <<main, wal, copied, directory, conns, uploaderVars, restoreVars, before,
                 faults>>

\* The database is in the file backups/...tar.gz, which is not yet an archive.
TarDbKept ==                                                    \* mutant
  /\ at[Operator] = "taringDb"
  /\ \E c \in {main} \cup {a.db : a \in archives} : draft' = [draft EXCEPT !.db = c]
  /\ seen' = {}
  /\ Goto(Operator, "taringUploads")
  /\ UNCHANGED <<main, wal, copied, directory, conns, uploaderVars, archives, restoreVars,
                 before, faults>>
TarDb ==
  /\ at[Operator] = "taringDb"
  /\ \E c \in Readings({Torn}) : draft' = [draft EXCEPT !.db = c]
  /\ seen' = {}
  /\ Goto(Operator, "taringUploads")
  /\ UNCHANGED <<main, wal, copied, directory, conns, uploaderVars, archives, restoreVars,
                 before, faults>>

\* uploads/ and the manifest; the archive is complete.
HalfWritten(a) == [a EXCEPT !.db = {}, !.uploads = {}, !.whole = FALSE]
TarListed ==                                                    \* mutant
  /\ at[Operator] = "taringUploads"
  /\ draft' = [draft EXCEPT !.uploads = draft.listed, !.whole = TRUE]
  /\ archives' = (archives \ {HalfWritten(draft)}) \cup {draft'}
  /\ Goto(Operator, "archived")
  /\ UNCHANGED <<database, directory, conns, uploaderVars, restoreVars, before, faults>>
TarUploads ==
  /\ at[Operator] = "taringUploads"
  /\ draft' = [draft EXCEPT !.uploads = uploads, !.whole = TRUE]
  /\ archives' = (archives \ {HalfWritten(draft)}) \cup {draft'}
  /\ Goto(Operator, "archived")
  /\ UNCHANGED <<database, directory, conns, uploaderVars, restoreVars, before, faults>>

\* History and locals of a command that is over.
Forget == before' = NoArchive /\ draft' = NoArchive /\ source' = NoArchive

\* The row of the table backups, then the operation log.
RecordBackup ==
  /\ at[Operator] = "archived"
  /\ CommitMark
  /\ Goto(Operator, "closing") /\ Forget
  /\ UNCHANGED <<directory, conns, uploaderVars, archives, snapDb, snapUploads, clobbered, faults>>

\* Anything raises, or the operator interrupts; no file of the data directory is touched.
FailCommand ==
  /\ at[Operator] \in {"listing", "hashing", "taringDb", "taringUploads", "archived",
                       "verifying", "restored"}
  /\ Fault
  /\ seen' = {}
  /\ Goto(Operator, "closing") /\ Forget
  /\ UNCHANGED <<main, wal, copied, directory, conns, uploaderVars, archives, snapDb,
                 snapUploads, clobbered>>

CloseOperator ==
  /\ at[Operator] \in {"closing", "failed", "cut"}
  /\ Close(Operator)
  /\ Goto(Operator, "idle")
  /\ Forget
  /\ UNCHANGED <<directory, uploaderVars, archives, snapDb, snapUploads, clobbered, faults>>

-----------------------------------------------------------------------------
(***************************************************************************)
(* restore: verify the archive, snapshot, replace; undo on an exception.   *)
(***************************************************************************)
StartRestore ==
  /\ Idle(Operator) /\ Alone("restore")
  /\ \E a \in archives : source' = a
  /\ Connect(Operator)
  /\ before' = Observed
  /\ Goto(Operator, "verifying")
  /\ UNCHANGED <<database, uploads, uploaderVars, backupVars, snapDb, snapUploads, clobbered,
                 faults>>

\* It can be extracted; the checksum of the database; every file of the manifest.
Verifies(a) == a.whole /\ a.db = a.checksum /\ a.listed \subseteq a.uploads

Verify ==
  /\ at[Operator] = "verifying"
  /\ Goto(Operator, IF Verifies(source) THEN "verified" ELSE "closing")
  /\ UNCHANGED <<database, directory, conns, uploaderVars, operatorVars, faults>>

\* Snapshots left by a killed restore are removed, then the main file is copied, which others
\* may write meanwhile.
SnapshotDb ==
  /\ at[Operator] = "verified"
  /\ \/ /\ snapDb' \in {main} \cup IF conns = {Operator} THEN {} ELSE {{Torn}}
        /\ snapUploads' = NoArchive
        /\ Goto(Operator, "snapping") /\ UNCHANGED faults
     \/ /\ snapDb' \in {snapDb, NoArchive, {Torn}} /\ snapUploads' \in {snapUploads, NoArchive}
        /\ Goto(Operator, "closing") /\ Fault
  /\ UNCHANGED <<database, directory, conns, uploaderVars, backupVars, source, clobbered, before>>

SnapshotUploads ==
  /\ at[Operator] = "snapping"
  /\ \/ snapUploads' = uploads /\ Goto(Operator, "snapped") /\ UNCHANGED faults
     \/ snapUploads' \in SUBSET uploads /\ Goto(Operator, "closing") /\ Fault
  /\ UNCHANGED <<database, directory, conns, uploaderVars, backupVars, source, snapDb,
                 clobbered, before>>

\* Nothing tells the log or another connection that the file under them is a different one.
Clobber == clobbered' = (clobbered \/ wal # EmptyLog \/ conns # {Operator})

\* copy2 onto the live main file
OverwriteDb(from, content, to) ==
  /\ at[Operator] = from
  /\ main' = content
  /\ Clobber
  /\ Goto(Operator, to)
  /\ UNCHANGED <<wal, copied, seen, directory, conns, uploaderVars, backupVars, source,
                 snapDb, snapUploads, before, faults>>

\* shutil.rmtree(current_uploads)
RemoveUploads(from, to) ==
  /\ at[Operator] = from
  /\ uploads' = {} /\ dirThere' = FALSE
  /\ Goto(Operator, to)
  /\ UNCHANGED <<database, conns, uploaderVars, operatorVars, faults>>

\* copytree refuses a directory that exists: any command that starts creates it.
FillUploads(from, content, to, onError) ==
  /\ at[Operator] = from
  /\ \/ ~dirThere /\ uploads' = content /\ Goto(Operator, to)
     \/ dirThere /\ Goto(Operator, onError) /\ UNCHANGED uploads
  /\ dirThere' = TRUE
  /\ UNCHANGED <<database, conns, uploaderVars, operatorVars, faults>>

Replace ==
  \/ OverwriteDb("snapped", source.db, "removing")
  \/ RemoveUploads("removing", "filling")
  \/ FillUploads("filling", source.uploads, "dropping", "undoDb")

\* The except branch.
UndoSkipsUploads ==                                             \* mutant
  OverwriteDb("undoDb", snapDb, "dropFailed")
Undo ==
  \/ OverwriteDb("undoDb", snapDb, "undoRemove")
  \/ RemoveUploads("undoRemove", "undoFill")
  \/ FillUploads("undoFill", snapUploads, "dropFailed", "dropFailed")

\* How far the step had come that does not end.
Damage ==
  \/ /\ at[Operator] \in {"snapped", "undoDb"}
     /\ main' \in {main, {Torn}, IF at[Operator] = "snapped" THEN source.db ELSE snapDb}
     /\ Clobber
     /\ UNCHANGED <<wal, seen, directory>>
  \/ /\ at[Operator] \in {"removing", "undoRemove"}
     /\ uploads' \in SUBSET uploads
     /\ UNCHANGED <<main, wal, seen, dirThere, clobbered>>
  \/ /\ at[Operator] \in {"filling", "undoFill"} /\ ~dirThere
     /\ uploads' \in SUBSET IF at[Operator] = "filling" THEN source.uploads ELSE snapUploads
     /\ dirThere' \in {TRUE, uploads' # {}}
     /\ UNCHANGED <<main, wal, seen, clobbered>>

unhurt == <<uploaderVars, backupVars, source, snapDb, snapUploads, before>>

\* An exception leads to the except branch, and from there to the finally branch.
FailNoUndo ==                                                   \* mutant
  /\ at[Operator] \in ReplacePlaces \cup UndoPlaces
  /\ Damage /\ Fault
  /\ Goto(Operator, "dropFailed")
  /\ UNCHANGED <<copied, conns, unhurt>>
FailReplace ==
  /\ at[Operator] \in ReplacePlaces \cup UndoPlaces
  /\ Damage /\ Fault
  /\ Goto(Operator, IF at[Operator] \in ReplacePlaces THEN "undoDb" ELSE "dropFailed")
  /\ UNCHANGED <<copied, conns, unhurt>>

\* Ctrl-C is no Exception: KeyboardInterrupt passes the except branch by.
InterruptReplace ==
  /\ Operator \in Killable /\ at[Operator] \in ReplacePlaces
  /\ Damage /\ Fault
  /\ Goto(Operator, "dropCut")
  /\ UNCHANGED <<copied, conns, unhurt>>

\* The finally branch.
DropSnapshots ==
  /\ at[Operator] \in {"dropping", "dropFailed", "dropCut"}
  /\ LET end == [dropping |-> "restored", dropFailed |-> "failed", dropCut |-> "cut"] IN
     \/ /\ snapDb' = NoArchive /\ snapUploads' = NoArchive
        /\ Goto(Operator, end[at[Operator]]) /\ UNCHANGED faults
     \/ /\ snapDb' \in {snapDb, NoArchive} /\ snapUploads' \in {snapUploads, {}}
        /\ Goto(Operator, IF at[Operator] = "dropping" THEN "closing" ELSE end[at[Operator]])
        /\ Fault
  /\ UNCHANGED <<database, directory, conns, uploaderVars, backupVars, source, clobbered, before>>

\* The operation log of cmd_restore.
LogRestore ==
  /\ at[Operator] = "restored"
  /\ CommitMark
  /\ Goto(Operator, "closing") /\ Forget
  /\ UNCHANGED <<directory, conns, uploaderVars, archives, snapDb, snapUploads, clobbered, faults>>

\* A kill in the middle of the replacement, which the next command does not notice.
KillReplace ==
  /\ Operator \in Killable /\ at[Operator] \in ReplacePlaces \cup UndoPlaces
  /\ Damage \/ UNCHANGED <<main, wal, seen, directory, clobbered>>
  /\ Fault
  /\ conns' = conns \ {Operator}
  /\ copied' = (copied /\ (conns # {Operator} \/ wal = EmptyLog))
  /\ Goto(Operator, "halted")
  /\ UNCHANGED unhurt

\* A kill elsewhere.
KillOperator ==
  /\ Operator \in Killable
  /\ ~Idle(Operator) /\ at[Operator] \notin ReplacePlaces \cup UndoPlaces
  /\ Fault
  /\ Vanish(Operator) /\ seen' = {}
  /\ Goto(Operator, "idle")
  /\ Forget
  /\ UNCHANGED <<directory, uploaderVars, archives, snapDb, snapUploads, clobbered>>

Upload(u) ==
  \/ StartUpload(u) \/ PublishFile(u) \/ CommitUpload(u) \/ EndUpload(u) \/ AbortUpload(u)
  \/ InterruptUpload(u) \/ KillUpload(u)

Serve(d) == StartDaemon(d) \/ CommitOther(d) \/ StopDaemon(d) \/ TerminateDaemon(d)

CreateBackup ==
  \/ StartBackup \/ ListUploads \/ HashDb \/ TarDb \/ TarUploads
  \/ RecordBackup

Restore ==
  \/ StartRestore \/ Verify \/ SnapshotDb \/ SnapshotUploads
  \/ Replace \/ Undo \/ FailReplace \/ InterruptReplace \/ KillReplace
  \/ DropSnapshots \/ LogRestore

Next ==
  \/ \E u \in Uploaders : Upload(u)
  \/ \E d \in Daemons : Serve(d)
  \/ CreateBackup \/ Restore \/ FailCommand \/ KillOperator \/ CloseOperator

Spec == Init /\ [][Next]_vars

-----------------------------------------------------------------------------
(***************************************************************************)
(* Correctness.                                                            *)
(***************************************************************************)
\* The variables stay within their types, a process has a connection exactly while its
\* command runs (managed_connection), and a missing uploads/ holds no file.
TypeOK ==
  /\ main \subseteq Content
  /\ wal.pages \subseteq Pages /\ wal.rows \subseteq Covered(wal)
  /\ copied \in BOOLEAN /\ seen \subseteq SUBSET Content
  /\ uploads \subseteq Files /\ dirThere \in BOOLEAN /\ (~dirThere => uploads = {})
  /\ conns = {p \in Processes : ~Idle(p)}
  /\ at \in [Processes -> {"idle", "halted", "staged", "published", "committed", "running",
                           "closing"} \cup BackupPlaces \cup RestorePlaces]
  /\ mine \in [Uploaders -> Files \cup {NoFile}] /\ old \in [Uploaders -> Files \cup {NoFile}]
  /\ archives \subseteq Archives
  /\ draft \in Archives \cup {NoArchive} /\ source \in Archives \cup {NoArchive}
  /\ snapDb = NoArchive \/ snapDb \subseteq Content
  /\ snapUploads = NoArchive \/ snapUploads \subseteq Files
  /\ clobbered \in BOOLEAN
  /\ faults \in 0..MaxFaults

\* A backup contains every document whose upload had ended when the command began and that
\* still is current when the archive has been written.
BackupComplete ==
  at[Operator] = "archived" /\ before.settled =>
    before.db \cap Logical \cap Files \subseteq draft.db

\* Whatever else has the database open, a backup whose copy of the database is of one moment
\* contains every document that was in the main file when the command began and is current
\* when it has been written: what a backup of running services lacks is at most what no
\* checkpoint had copied by then.  (Torn is a copy read, or left, in mid-checkpoint.)
CheckpointedInBackup ==
  at[Operator] = "archived" /\ Torn \notin draft.db /\ ~clobbered =>
    before.file \cap Logical \cap Files \subseteq draft.db

\* Copied in the order database, then files, an archive lacks the file of a document of its
\* database only if that file is gone from uploads/ as well.
LackExplained ==
  at[Operator] = "archived" => draft.db \cap uploads \subseteq draft.uploads

\* An archive that passes the verification of restore holds the file of every current
\* document of its database, provided the active data is sound: the manifest, the
\* checksum, the database and uploads/ are read at different moments, in an order
\* that suits files published before their rows are committed.  The code keeps it while
\* documents are only added; a replacement meanwhile breaks it.
ArchiveSelfContained ==
  at[Operator] = "archived" /\ Verifies(draft) /\ Logical \cap Files \subseteq uploads
    /\ ~clobbered
    => draft.db \cap Files \subseteq draft.uploads

\* After a successful restore the database in force is the one of the archive.  The code does
\* not keep this when a terminated service has left its log, nor beside another connection.
RestoreInForce ==
  at[Operator] = "restored" => Logical = source.db

\* A restore that does not succeed ends with the data it found in force, unless two of its
\* own steps have failed.  Ctrl-C breaks it: the except branch does not catch it.
RollsBack ==
  at[Operator] \in {"failed", "cut"} /\ faults <= before.faults + 1 =>
    Logical = before.db /\ uploads = before.uploads

\* Throughout a restore, its undoing included, and after a kill in the middle of it until the
\* next backup or restore, the data it found is in place, or saved in the two snapshots (with
\* the log, if there was one, as long as no command after a kill writes on it), or
\* successfully replaced, unless two of its own steps have failed or it was interrupted: a
\* failed step or a kill leaves it recoverable.
LastCopySafe ==
  at[Operator] \in (RestorePlaces \ {"dropCut", "cut"}) \cup {"halted"}
      /\ faults <= before.faults + 1 =>
    \/ Logical = before.db /\ uploads = before.uploads
    \/ /\ snapDb = before.file /\ snapUploads = before.uploads
       /\ wal = before.log \/ before.log = EmptyLog \/ at[Operator] = "halted"
    \/ at[Operator] \in {"dropping", "restored"}

\* While a restore has replaced a part of the data, what counts is what it found: it goes
\* on to the archive's data or back.
HalfPlaces == {"removing", "filling"} \cup UndoPlaces
View(db, file, log, files) ==
  [db |-> db, file |-> WithoutLog(file), clean |-> log = EmptyLog, uploads |-> files]
ActiveData ==
  IF at[Operator] \in HalfPlaces
  THEN View(before.db, before.file, before.log, before.uploads)
  ELSE View(Logical, main, wal, uploads)
WholeArchives == {[db |-> a.db, uploads |-> a.uploads] : a \in {b \in archives : b.whole}}
Task ==
  IF at[Operator] \in BackupPlaces \ {"archived"} THEN "backup"
  ELSE IF at[Operator] \in {"verifying", "verified", "snapping"} \cup ReplacePlaces
          /\ source.whole THEN "restore"
  ELSE IF at[Operator] \in UndoPlaces THEN "undo"
  ELSE "none"

\* When the operator's commands run alone, backup and restore implement AtomicBackup: many
\* steps over a database file, a log and a directory, with failures, an undoing that can fail
\* as well, interrupts and kills in between, look like one step each.
Atomic == INSTANCE AtomicBackup WITH
  Data <- [db : SUBSET Content, file : SUBSET Content, clean : BOOLEAN, uploads : SUBSET Files],
  Mortal <- Operator \in Killable,
  data <- ActiveData, archives <- WholeArchives, task <- Task
ImplementsAtomicBackup == Atomic!AtomicSpec
=============================================================================
