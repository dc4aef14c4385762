---------------------------- MODULE BackupProofs ----------------------------
(***************************************************************************)
(* Proofs about backup and restore, for any number of documents, pages,    *)
(* uploads and daemons, kills and failures.                                *)
(***************************************************************************)
EXTENDS Backup, TLAPS

Logs == [pages : SUBSET Pages, rows : SUBSET Rows]
Resting == {"idle", "halted"}
UploadPlaces == {"idle", "staged", "published", "committed"}
DaemonPlaces == {"idle", "running"}
OperatorPlaces == Resting \cup {"closing"} \cup BackupPlaces \cup RestorePlaces
SnappedPlaces == {"dropping"} \cup ReplacePlaces \cup UndoPlaces
DraftPlaces == {"hashing", "taringDb", "taringUploads", "archived"}

USE DEF database, directory, uploaderVars, backupVars, restoreVars, operatorVars, unhurt,
        BackupPlaces, RestorePlaces, ReplacePlaces, UndoPlaces

\* The database, the directory, the processes and the copies, each with its types.
DbOK ==
  /\ main \subseteq Content /\ wal \in Logs /\ wal.rows \subseteq Covered(wal)
  /\ copied \in BOOLEAN /\ seen \subseteq SUBSET Content
DirOK == uploads \subseteq Files /\ dirThere \in BOOLEAN /\ (~dirThere => uploads = {})
ProcOK ==
  /\ at \in [Processes -> UploadPlaces \cup DaemonPlaces \cup OperatorPlaces]
  /\ \A u \in Uploaders : at[u] \in UploadPlaces
  /\ \A d \in Daemons : at[d] \in DaemonPlaces
  /\ at[Operator] \in OperatorPlaces
  /\ conns = {p \in Processes : at[p] \notin Resting}
FilesOK ==
  /\ mine \in [Uploaders -> Files \cup {NoFile}] /\ old \in [Uploaders -> Files \cup {NoFile}]
  /\ \A u \in Uploaders : at[u] # "idle" => mine[u] \in Files
CopiesOK ==
  /\ archives \subseteq Archives
  /\ draft = NoArchive \/ draft \in Archives
  /\ source = NoArchive \/ source \in Archives
  /\ snapDb = NoArchive \/ snapDb \subseteq Content
  /\ snapUploads = NoArchive \/ snapUploads \subseteq Files
  /\ clobbered \in BOOLEAN
  /\ at[Operator] \in DraftPlaces => draft \in Archives
  /\ at[Operator] \in RestorePlaces => source \in Archives
  /\ at[Operator] \in SnappedPlaces \cup {"snapping"} => snapDb \subseteq Content
  /\ at[Operator] \in SnappedPlaces => snapUploads \subseteq Files

TypeInv == DbOK /\ DirOK /\ ProcOK /\ FilesOK /\ CopiesOK /\ faults \in 0..MaxFaults

LEMMA TypeInvGivesTypeOK == TypeInv => TypeOK
  BY DEF TypeInv, DbOK, DirOK, ProcOK, FilesOK, CopiesOK, TypeOK, Logs, UploadPlaces,
         DaemonPlaces, OperatorPlaces, Resting, Idle

-----------------------------------------------------------------------------
(***************************************************************************)
(* What the shared operators do.                                           *)
(***************************************************************************)
LEMMA Moved ==
  ASSUME ProcOK, NEW p \in Processes, NEW x, Goto(p, x)
  PROVE  at'[p] = x /\ \A q \in Processes : q # p => at'[q] = at[q]
  BY DEF ProcOK, Goto

\* A process that goes to a place of its kind, with the connection that belongs to it.
LEMMA MovedOn ==
  ASSUME ProcOK, NEW p \in Processes, NEW x, Goto(p, x),
         p \in Uploaders => x \in UploadPlaces, p \in Daemons => x \in DaemonPlaces,
         p = Operator => x \in OperatorPlaces,
         conns' = IF x \in Resting THEN conns \ {p} ELSE conns \cup {p}
  PROVE  ProcOK'
  <1>1. at'[p] = x /\ \A q \in Processes : q # p => at'[q] = at[q]
    BY Moved
  <1>2. x \in UploadPlaces \cup DaemonPlaces \cup OperatorPlaces
    BY DEF Processes
  <1>3. at' \in [Processes -> UploadPlaces \cup DaemonPlaces \cup OperatorPlaces]
    BY <1>2 DEF ProcOK, Goto
  <1>4. /\ \A u \in Uploaders : at'[u] \in UploadPlaces
        /\ \A d \in Daemons : at'[d] \in DaemonPlaces
        /\ at'[Operator] \in OperatorPlaces
    BY <1>1 DEF ProcOK, Processes
  <1>5. conns' = {q \in Processes : at'[q] \notin Resting}
    BY <1>1 DEF ProcOK
  <1> QED BY <1>3, <1>4, <1>5 DEF ProcOK

LEMMA Constants ==
  /\ Operator \in Processes /\ Operator \notin Uploaders /\ Operator \notin Daemons
  /\ \A u \in Uploaders : u \in Processes /\ u \notin Daemons /\ u # Operator
  /\ \A d \in Daemons : d \in Processes /\ d \notin Uploaders /\ d # Operator
  /\ Files \subseteq Rows /\ Marks \subseteq Rows /\ Rows \subseteq Content
  /\ Torn \notin Rows /\ Blurred \notin Rows /\ Torn # Blurred
  /\ NoFile \notin Content /\ MaxFaults \in Nat
  BY BackupAssumption DEF BackupAssumption, Processes, Rows, Content

\* The log that a commit writes, and the file that a checkpoint makes of it.
NewLog(kept, A, D) ==
  LET touched == {Page[r] : r \in (A \cup D) \cap Rows}
  IN [pages |-> kept \cup touched,
      rows |-> {r \in ((Logical \ D) \cup A) \cap Rows : Page[r] \in touched}
                 \cup {r \in wal.rows : Page[r] \in kept \ touched}]

LEMMA CommitParts ==
  ASSUME NEW A, NEW D, CommitDb(A, D)
  PROVE  \E kept \in {wal.pages} \cup IF copied THEN {{}} ELSE {} :
           /\ wal' = NewLog(kept, A, D)
           /\ \/ copied' = FALSE /\ main' = main
              \/ copied' = TRUE /\ main' = Through(NewLog(kept, A, D), main)
           /\ Noticed
  BY DEF CommitDb, NewLog

LEMMA NewLogTyped ==
  ASSUME DbOK, NEW A, NEW D, NEW kept \in SUBSET Pages
  PROVE  /\ NewLog(kept, A, D) \in Logs
         /\ NewLog(kept, A, D).rows \subseteq Covered(NewLog(kept, A, D))
  <1> DEFINE touched == {Page[r] : r \in (A \cup D) \cap Rows}
             rows == {r \in ((Logical \ D) \cup A) \cap Rows : Page[r] \in touched}
                       \cup {r \in wal.rows : Page[r] \in kept \ touched}
  <1>1. touched \subseteq Pages
    BY DEF Pages
  <1>2. rows \subseteq Rows /\ \A r \in rows : Page[r] \in kept \cup touched
    BY DEF DbOK, Logs
  <1>3. NewLog(kept, A, D) = [pages |-> kept \cup touched, rows |-> rows]
    BY DEF NewLog
  <1> QED BY <1>1, <1>2, <1>3 DEF Logs, Covered

LEMMA ThroughTyped ==
  ASSUME NEW log \in Logs, NEW file \in SUBSET Content
  PROVE  Through(log, file) \subseteq Content
  BY Constants DEF Through, Logs

LEMMA LogicalTyped == ASSUME DbOK PROVE Logical \subseteq Content
  BY ThroughTyped DEF DbOK, Logical

LEMMA NoticedTyped ==
  ASSUME DbOK, Noticed, main' \subseteq Content PROVE seen' \subseteq SUBSET Content
  BY DEF DbOK, Noticed

LEMMA CommitTyped ==
  ASSUME DbOK, NEW A, NEW D, CommitDb(A, D) PROVE DbOK'
  <1>1. PICK kept \in {wal.pages} \cup IF copied THEN {{}} ELSE {} :
           /\ wal' = NewLog(kept, A, D)
           /\ \/ copied' = FALSE /\ main' = main
              \/ copied' = TRUE /\ main' = Through(NewLog(kept, A, D), main)
           /\ Noticed
    BY CommitParts
  <1>2. kept \in SUBSET Pages
    BY DEF DbOK, Logs
  <1>3. wal' \in Logs /\ wal'.rows \subseteq Covered(wal')
    BY <1>1, <1>2, NewLogTyped
  <1>4. main' \subseteq Content /\ copied' \in BOOLEAN
    BY <1>1, <1>3, ThroughTyped DEF DbOK
  <1> QED BY <1>1, <1>3, <1>4, NoticedTyped DEF DbOK, Covered

LEMMA MarkTyped == ASSUME DbOK, CommitMark PROVE DbOK'
  BY CommitTyped DEF CommitMark

LEMMA EmptyTyped == EmptyLog \in Logs /\ EmptyLog.rows = {} /\ EmptyLog.pages = {}
  BY DEF EmptyLog, Logs

LEMMA CloseTyped ==
  ASSUME DbOK, NEW p, Close(p) PROVE DbOK' /\ conns' = conns \ {p}
  <1>1. CASE conns = {p}
    <2>1. main' \subseteq Content /\ wal' = EmptyLog /\ copied' = TRUE /\ Noticed
      BY <1>1, LogicalTyped DEF Close
    <2> QED BY <2>1, NoticedTyped, EmptyTyped DEF DbOK, Close
  <1>2. CASE conns # {p}
    BY <1>2 DEF Close, DbOK, Covered
  <1> QED BY <1>1, <1>2

LEMMA VanishTyped ==
  ASSUME DbOK, NEW p, Vanish(p), Noticed \/ seen' = {} PROVE DbOK' /\ conns' = conns \ {p}
  <1>1. main' \subseteq Content /\ wal' = wal /\ copied' \in BOOLEAN /\ conns' = conns \ {p}
    BY DEF Vanish, DbOK, Content
  <1> QED BY <1>1, NoticedTyped DEF DbOK, Covered

\* The copies are the operator's alone.
LEMMA CopiesKept ==
  ASSUME CopiesOK, UNCHANGED operatorVars, at'[Operator] = at[Operator] PROVE CopiesOK'
  BY DEF CopiesOK

LEMMA FilesKept ==
  ASSUME FilesOK, UNCHANGED <<mine, old>>,
         \A u \in Uploaders : at'[u] # "idle" => at[u] # "idle"
  PROVE  FilesOK'
  BY DEF FilesOK

LEMMA FaultTyped ==
  ASSUME faults \in 0..MaxFaults, Fault PROVE faults' \in 0..MaxFaults
  BY Constants DEF Fault

-----------------------------------------------------------------------------
LEMMA TypeInit == Init => TypeInv
  <1> SUFFICES ASSUME Init PROVE TypeInv
    OBVIOUS
  <1>1. DbOK
    BY EmptyTyped DEF Init, DbOK
  <1>2. DirOK /\ ProcOK /\ FilesOK
    BY Constants DEF Init, DirOK, ProcOK, FilesOK, UploadPlaces, DaemonPlaces, OperatorPlaces,
       Resting
  <1>3. CopiesOK
    BY Constants DEF Init, CopiesOK, SnappedPlaces, DraftPlaces
  <1> QED BY <1>1, <1>2, <1>3, Constants DEF Init, TypeInv

\* An upload that ends, in whatever way: its connection is gone and its variables are reset.
LEMMA LeftTyped ==
  ASSUME TypeInv, NEW u \in Uploaders, Leave(u), DbOK', DirOK', conns' = conns \ {u},
         UNCHANGED operatorVars, faults' \in 0..MaxFaults
  PROVE  TypeInv'
  <1>1. ProcOK /\ FilesOK /\ CopiesOK /\ u \in Processes /\ u # Operator /\ Goto(u, "idle")
    BY Constants DEF TypeInv, Leave
  <1>2. ProcOK'
    BY <1>1, Constants, MovedOn DEF UploadPlaces, Resting
  <1>3. at'[u] = "idle" /\ \A q \in Processes : q # u => at'[q] = at[q]
    BY <1>1, Moved
  <1>4. FilesOK'
    BY <1>1, <1>3, Constants DEF Leave, FilesOK
  <1>5. CopiesOK'
    BY <1>1, <1>3, Constants, CopiesKept
  <1> QED BY <1>2, <1>4, <1>5 DEF TypeInv

LEMMA TypeUpload ==
  ASSUME TypeInv, NEW u \in Uploaders, Upload(u) PROVE TypeInv'
  <1>1. /\ u \in Processes /\ u # Operator /\ u \notin Daemons /\ Operator \in Processes
        /\ DbOK /\ DirOK /\ ProcOK /\ FilesOK /\ CopiesOK /\ faults \in 0..MaxFaults
    BY Constants DEF TypeInv
  <1>2. CASE StartUpload(u)
    <2>1. ProcOK' /\ at'[Operator] = at[Operator]
      BY <1>1, <1>2, MovedOn, Moved DEF StartUpload, Connect, UploadPlaces, Resting
    <2>2. FilesOK'
      BY <1>1, <1>2, Moved, Constants DEF StartUpload, FilesOK
    <2>3. DbOK' /\ DirOK'
      BY <1>1, <1>2 DEF StartUpload, Connect, DbOK, DirOK, Covered
    <2>4. CopiesOK'
      BY <1>1, <1>2, <2>1, CopiesKept DEF StartUpload
    <2> QED BY <1>1, <1>2, <2>1, <2>2, <2>3, <2>4 DEF TypeInv, StartUpload
  <1>3. CASE PublishFile(u)
    <2>1. ProcOK' /\ at'[Operator] = at[Operator] /\ \A v \in Uploaders : at'[v] # "idle" => at[v] # "idle"
      BY <1>1, <1>3, Constants, MovedOn, Moved DEF PublishFile, UploadPlaces, Resting, ProcOK
    <2>2. FilesOK' /\ CopiesOK'
      BY <1>1, <1>3, <2>1, CopiesKept, FilesKept DEF PublishFile
    <2>3. DbOK' /\ DirOK'
      BY <1>1, <1>3 DEF PublishFile, DbOK, DirOK, FilesOK, Covered
    <2> QED BY <1>1, <1>3, <2>1, <2>2, <2>3 DEF TypeInv, PublishFile
  <1>4. CASE CommitUpload(u)
    <2>1. ProcOK' /\ at'[Operator] = at[Operator] /\ \A v \in Uploaders : at'[v] # "idle" => at[v] # "idle"
      BY <1>1, <1>4, Constants, MovedOn, Moved DEF CommitUpload, UploadPlaces, Resting, ProcOK
    <2>2. FilesOK' /\ CopiesOK'
      BY <1>1, <1>4, <2>1, CopiesKept, FilesKept DEF CommitUpload
    <2>3. DbOK' /\ DirOK'
      BY <1>1, <1>4, CommitTyped DEF CommitUpload, DirOK
    <2> QED BY <1>1, <1>4, <2>1, <2>2, <2>3 DEF TypeInv, CommitUpload
  <1>5. CASE EndUpload(u) \/ AbortUpload(u)
    <2>1. Close(u) /\ Leave(u) /\ UNCHANGED <<operatorVars, faults>> /\ DirOK'
      BY <1>1, <1>5 DEF EndUpload, AbortUpload, DirOK
    <2> QED BY <1>1, <2>1, CloseTyped, LeftTyped
  <1>6. CASE InterruptUpload(u)
    <2>1. Close(u) /\ Leave(u) /\ UNCHANGED operatorVars /\ Fault /\ DirOK'
      BY <1>1, <1>6 DEF InterruptUpload, DirOK
    <2> QED BY <1>1, <2>1, CloseTyped, LeftTyped, FaultTyped
  <1>7. CASE KillUpload(u)
    <2>1. Vanish(u) /\ Noticed /\ Leave(u) /\ UNCHANGED operatorVars /\ Fault /\ DirOK'
      BY <1>1, <1>7 DEF KillUpload, DirOK
    <2> QED BY <1>1, <2>1, VanishTyped, LeftTyped, FaultTyped
  <1> QED BY <1>2, <1>3, <1>4, <1>5, <1>6, <1>7 DEF Upload

LEMMA TypeServe ==
  ASSUME TypeInv, NEW d \in Daemons, Serve(d) PROVE TypeInv'
  <1>1. /\ d \in Processes /\ d # Operator /\ d \notin Uploaders /\ Operator \in Processes
        /\ DbOK /\ DirOK /\ ProcOK /\ FilesOK /\ CopiesOK /\ faults \in 0..MaxFaults
        /\ UNCHANGED <<uploads, uploaderVars, operatorVars, faults>>
    BY Constants DEF TypeInv, Serve, StartDaemon, CommitOther, StopDaemon, TerminateDaemon
  <1>2. PICK x \in DaemonPlaces : at' = [at EXCEPT ![d] = x]
    <2>1. CASE CommitOther(d)
      <3>1. at' = [at EXCEPT ![d] = "running"]
        BY <1>1, <2>1 DEF CommitOther, ProcOK
      <3> QED BY <3>1 DEF DaemonPlaces
    <2>2. CASE ~CommitOther(d)
      BY <2>2 DEF Serve, StartDaemon, StopDaemon, TerminateDaemon, Goto, DaemonPlaces
    <2> QED BY <2>1, <2>2
  <1>3. \A q \in Processes : q # d => at'[q] = at[q]
    BY <1>1, <1>2, Moved DEF Goto
  <1>4. FilesOK' /\ CopiesOK'
    BY <1>1, <1>3, Constants, FilesKept, CopiesKept
  <1>5. DbOK' /\ DirOK'
    BY <1>1, MarkTyped, CloseTyped, VanishTyped
       DEF Serve, StartDaemon, CommitOther, StopDaemon, TerminateDaemon, Connect, DbOK, DirOK,
           Covered
  <1>6. ProcOK'
    <2>1. conns' = IF x \in Resting THEN conns \ {d} ELSE conns \cup {d}
      <3>1. CASE CommitOther(d)
        BY <1>1, <1>2, <3>1 DEF CommitOther, ProcOK, Resting, DaemonPlaces
      <3>2. CASE StartDaemon(d)
        BY <1>1, <1>2, <3>2, Moved DEF StartDaemon, Connect, Resting, ProcOK
      <3>3. CASE StopDaemon(d) \/ TerminateDaemon(d)
        BY <1>1, <1>2, <3>3, Moved, CloseTyped DEF StopDaemon, TerminateDaemon, Vanish, Resting, ProcOK
      <3> QED BY <3>1, <3>2, <3>3 DEF Serve
    <2> QED BY <1>1, <1>2, <2>1, MovedOn DEF Goto
  <1> QED BY <1>1, <1>4, <1>5, <1>6 DEF TypeInv

\* The operator's steps leave the uploads' variables alone; a place and the copies remain.
LEMMA TypeOperatorFrame ==
  ASSUME TypeInv, NEW x \in OperatorPlaces, Goto(Operator, x), DbOK', DirOK', CopiesOK',
         conns' = IF x \in Resting THEN conns \ {Operator} ELSE conns \cup {Operator},
         UNCHANGED uploaderVars, faults' = faults \/ Fault
  PROVE  TypeInv'
  <1>1. ProcOK'
    BY Constants, MovedOn DEF TypeInv
  <1>2. FilesOK'
    BY Constants, Moved, FilesKept DEF TypeInv
  <1>3. faults' \in 0..MaxFaults
    BY FaultTyped DEF TypeInv
  <1> QED BY <1>1, <1>2, <1>3 DEF TypeInv

LEMMA OperatorConnected ==
  ASSUME TypeInv
  PROVE  /\ Operator \in Processes /\ DbOK /\ DirOK /\ ProcOK /\ CopiesOK
         /\ at[Operator] \notin Resting => Operator \in conns
  BY Constants DEF TypeInv, ProcOK

\* What a copy of a file can hold.
LEMMA ReadingsTyped ==
  ASSUME DbOK, NEW c, c \in Readings({Blurred}) \/ c \in Readings({Torn}) PROVE c \subseteq Content
  BY DEF DbOK, Readings, WithoutLog, Content

LEMMA TypeCreateBackup ==
  ASSUME TypeInv, CreateBackup PROVE TypeInv'
  <1> USE DEF Resting, DraftPlaces, SnappedPlaces
  <1>1. /\ Operator \in Processes /\ DbOK /\ DirOK /\ ProcOK /\ CopiesOK
        /\ UNCHANGED <<uploaderVars, faults, uploads>>
        /\ at[Operator] \notin Resting => Operator \in conns
    BY OperatorConnected DEF CreateBackup, StartBackup, ListUploads, HashDb, TarDb, TarUploads,
       RecordBackup
  <1>2. CASE StartBackup
    <2>1. at'[Operator] = "listing" /\ CopiesOK'
      BY <1>1, <1>2, Moved DEF StartBackup, CopiesOK
    <2>2. DbOK' /\ DirOK'
      BY <1>1, <1>2 DEF StartBackup, Connect, DbOK, DirOK, Covered
    <2> QED BY <1>1, <1>2, <2>1, <2>2, TypeOperatorFrame DEF StartBackup, Connect, OperatorPlaces
  <1>3. CASE ListUploads
    <2>1. draft' \in Archives
      BY <1>1, <1>3 DEF ListUploads, Archives, DirOK
    <2>2. at'[Operator] = "hashing" /\ CopiesOK'
      BY <1>1, <1>3, <2>1, Moved DEF ListUploads, CopiesOK
    <2>3. DbOK' /\ DirOK'
      BY <1>1, <1>3 DEF ListUploads, DbOK, DirOK, Covered
    <2> QED BY <1>1, <1>3, <2>2, <2>3, TypeOperatorFrame DEF ListUploads, OperatorPlaces
  <1>4. CASE HashDb
    <2>1. draft \in Archives
      BY <1>1, <1>4 DEF HashDb, CopiesOK
    <2>2. draft' \in Archives
      BY <1>1, <1>4, <2>1, ReadingsTyped DEF HashDb, Archives
    <2>3. archives' \subseteq Archives
      BY <1>1, <1>4, <2>2 DEF HashDb, CopiesOK
    <2>4. at'[Operator] = "taringDb" /\ CopiesOK'
      BY <1>1, <1>4, <2>2, <2>3, Moved DEF HashDb, CopiesOK
    <2>5. DbOK' /\ DirOK'
      BY <1>1, <1>4 DEF HashDb, DbOK, DirOK, Covered
    <2> QED BY <1>1, <1>4, <2>4, <2>5, TypeOperatorFrame DEF HashDb, OperatorPlaces
  <1>5. CASE TarDb
    <2>1. draft \in Archives
      BY <1>1, <1>5 DEF TarDb, CopiesOK
    <2>2. draft' \in Archives
      BY <1>1, <1>5, <2>1, ReadingsTyped DEF TarDb, Archives
    <2>3. at'[Operator] = "taringUploads" /\ CopiesOK'
      BY <1>1, <1>5, <2>2, Moved DEF TarDb, CopiesOK
    <2>4. DbOK' /\ DirOK'
      BY <1>1, <1>5 DEF TarDb, DbOK, DirOK, Covered
    <2> QED BY <1>1, <1>5, <2>3, <2>4, TypeOperatorFrame DEF TarDb, OperatorPlaces
  <1>6. CASE TarUploads
    <2>1. draft \in Archives
      BY <1>1, <1>6 DEF TarUploads, CopiesOK
    <2>2. draft' \in Archives
      BY <1>1, <1>6, <2>1 DEF TarUploads, Archives, DirOK
    <2>3. archives' \subseteq Archives
      BY <1>1, <1>6, <2>2 DEF TarUploads, CopiesOK
    <2>4. at'[Operator] = "archived" /\ CopiesOK'
      BY <1>1, <1>6, <2>2, <2>3, Moved DEF TarUploads, CopiesOK
    <2>5. DbOK' /\ DirOK'
      BY <1>1, <1>6 DEF TarUploads, DbOK, DirOK, Covered
    <2> QED BY <1>1, <1>6, <2>4, <2>5, TypeOperatorFrame DEF TarUploads, OperatorPlaces
  <1>7. CASE RecordBackup
    <2>1. at'[Operator] = "closing" /\ CopiesOK'
      BY <1>1, <1>7, Moved DEF RecordBackup, Forget, CopiesOK
    <2>2. DbOK' /\ DirOK'
      BY <1>1, <1>7, MarkTyped DEF RecordBackup, DirOK
    <2> QED BY <1>1, <1>7, <2>1, <2>2, TypeOperatorFrame DEF RecordBackup, OperatorPlaces
  <1> QED BY <1>2, <1>3, <1>4, <1>5, <1>6, <1>7 DEF CreateBackup

\* The ends of a command.
LEMMA TypeEnd ==
  ASSUME TypeInv, FailCommand \/ CloseOperator \/ KillOperator PROVE TypeInv'
  <1> USE DEF Resting, DraftPlaces, SnappedPlaces
  <1>1. /\ Operator \in Processes /\ DbOK /\ DirOK /\ ProcOK /\ CopiesOK
        /\ at[Operator] \notin Resting => Operator \in conns
    BY OperatorConnected
  <1>2. PICK x \in {"closing", "idle"} : Goto(Operator, x) /\ at'[Operator] = x
    BY <1>1, Moved DEF FailCommand, CloseOperator, KillOperator
  <1>3. CopiesOK' /\ DirOK'
    BY <1>1, <1>2 DEF FailCommand, CloseOperator, KillOperator, Forget, CopiesOK, DirOK
  <1>4. CASE FailCommand
    <2>1. DbOK'
      BY <1>1, <1>4 DEF FailCommand, DbOK, Covered
    <2>2. x = "closing" /\ Operator \in conns /\ UNCHANGED <<conns, uploaderVars>> /\ Fault
      BY <1>1, <1>2, <1>4, Moved DEF FailCommand
    <2> QED BY <1>2, <1>3, <2>1, <2>2, TypeOperatorFrame DEF OperatorPlaces
  <1>5. CASE CloseOperator \/ KillOperator
    <2>1. DbOK' /\ conns' = conns \ {Operator}
      BY <1>1, <1>5, CloseTyped, VanishTyped DEF CloseOperator, KillOperator
    <2>2. x = "idle" /\ UNCHANGED uploaderVars /\ (faults' = faults \/ Fault)
      BY <1>1, <1>2, <1>5, Moved DEF CloseOperator, KillOperator
    <2> QED BY <1>2, <1>3, <2>1, <2>2, TypeOperatorFrame DEF OperatorPlaces
  <1> QED BY <1>4, <1>5

\* The three steps of the replacement and of the undoing, and what is left where one fails.
LEMMA DamageTyped ==
  ASSUME TypeInv, Damage \/ UNCHANGED <<main, wal, seen, directory, clobbered>>
  PROVE  /\ main' \subseteq Content /\ wal' = wal /\ seen' = seen /\ DirOK'
         /\ clobbered' \in BOOLEAN
  <1> USE DEF SnappedPlaces
  <1>1. DbOK /\ DirOK /\ CopiesOK
    BY DEF TypeInv
  <1>2. at[Operator] \in SnappedPlaces =>
          source.db \subseteq Content /\ source.uploads \subseteq Files
          /\ snapDb \subseteq Content /\ snapUploads \subseteq Files
    BY <1>1 DEF CopiesOK, Archives
  <1>3. CASE UNCHANGED <<main, wal, seen, directory, clobbered>>
    BY <1>1, <1>3 DEF DbOK, DirOK, CopiesOK
  <1>4. CASE at[Operator] \in {"snapped", "undoDb"} /\ Damage
    <2>1. /\ main' \in {main, {Torn}, IF at[Operator] = "snapped" THEN source.db ELSE snapDb}
          /\ UNCHANGED <<wal, seen, directory>> /\ Clobber
      BY <1>4 DEF Damage
    <2>2. main' \subseteq Content
      BY <1>1, <1>2, <1>4, <2>1 DEF DbOK, Content
    <2> QED BY <1>1, <2>1, <2>2 DEF Clobber, DirOK, CopiesOK
  <1>5. CASE at[Operator] \in {"removing", "undoRemove"} /\ Damage
    <2>1. uploads' \subseteq uploads /\ UNCHANGED <<main, wal, seen, dirThere, clobbered>>
      BY <1>5 DEF Damage
    <2> QED BY <1>1, <2>1 DEF DbOK, DirOK, CopiesOK
  <1>6. CASE at[Operator] \in {"filling", "undoFill"} /\ Damage
    <2>1. /\ uploads' \subseteq Files /\ UNCHANGED <<main, wal, seen, clobbered>>
          /\ dirThere' = TRUE \/ dirThere' = (uploads' # {})
      BY <1>2, <1>6 DEF Damage
    <2>2. dirThere' \in BOOLEAN /\ (~dirThere' => uploads' = {})
      BY <2>1
    <2> QED BY <1>1, <2>1, <2>2 DEF DbOK, DirOK, CopiesOK
  <1>7. Damage => at[Operator] \in ReplacePlaces \cup UndoPlaces
    BY DEF Damage
  <1> QED BY <1>3, <1>4, <1>5, <1>6, <1>7

LEMMA TypeFailReplace ==
  ASSUME TypeInv, FailReplace \/ InterruptReplace \/ KillReplace PROVE TypeInv'
  <1> USE DEF Resting, DraftPlaces, SnappedPlaces
  <1>1. /\ Operator \in Processes /\ DbOK /\ DirOK /\ ProcOK /\ CopiesOK /\ Operator \in conns
        /\ at[Operator] \in ReplacePlaces \cup UndoPlaces
        /\ Damage \/ UNCHANGED <<main, wal, seen, directory, clobbered>>
        /\ Fault /\ UNCHANGED unhurt
    BY OperatorConnected DEF FailReplace, InterruptReplace, KillReplace
  <1>2. PICK x \in {"undoDb", "dropFailed", "dropCut", "halted"} :
          /\ Goto(Operator, x)
          /\ conns' = IF x = "halted" THEN conns \ {Operator} ELSE conns
    BY <1>1 DEF FailReplace, InterruptReplace, KillReplace
  <1>3. at'[Operator] = x
    BY <1>1, <1>2, Moved
  <1>4. copied' \in BOOLEAN
    BY <1>1 DEF FailReplace, InterruptReplace, KillReplace, DbOK
  <1>5. DbOK' /\ DirOK' /\ clobbered' \in BOOLEAN
    BY <1>1, <1>4, DamageTyped DEF DbOK, Covered
  <1>6. CopiesOK'
    BY <1>1, <1>3, <1>5 DEF CopiesOK
  <1> QED BY <1>1, <1>2, <1>5, <1>6, TypeOperatorFrame DEF OperatorPlaces

LEMMA TypeReplace ==
  ASSUME TypeInv, Replace \/ Undo PROVE TypeInv'
  <1> USE DEF SnappedPlaces, DraftPlaces, Resting
  <1>1. /\ Operator \in Processes /\ DbOK /\ DirOK /\ ProcOK /\ CopiesOK
        /\ at[Operator] \in ReplacePlaces \cup UndoPlaces /\ Operator \in conns
        /\ UNCHANGED <<conns, uploaderVars, faults, backupVars, source, snapDb, snapUploads>>
    BY OperatorConnected DEF Replace, Undo, OverwriteDb, RemoveUploads, FillUploads
  <1>2. PICK x \in SnappedPlaces \cup {"dropFailed"} : Goto(Operator, x)
    BY DEF Replace, Undo, OverwriteDb, RemoveUploads, FillUploads
  <1>3. at'[Operator] = x
    BY <1>1, <1>2, Moved
  <1>4. /\ source.db \subseteq Content /\ source.uploads \subseteq Files
        /\ snapDb \subseteq Content /\ snapUploads \subseteq Files
    BY <1>1 DEF CopiesOK, Archives
  <1>5. DbOK'
    BY <1>1, <1>4 DEF Replace, Undo, OverwriteDb, RemoveUploads, FillUploads, DbOK, Covered
  <1>6. DirOK'
    BY <1>1, <1>4 DEF Replace, Undo, OverwriteDb, RemoveUploads, FillUploads, DirOK
  <1>7. CopiesOK'
    BY <1>1, <1>3 DEF Replace, Undo, OverwriteDb, RemoveUploads, FillUploads, Clobber, CopiesOK
  <1> QED BY <1>1, <1>2, <1>5, <1>6, <1>7, TypeOperatorFrame DEF OperatorPlaces

LEMMA TypeRestore ==
  ASSUME TypeInv, Restore PROVE TypeInv'
  <1> USE DEF SnappedPlaces, DraftPlaces, Resting
  <1>1. /\ Operator \in Processes /\ DbOK /\ DirOK /\ ProcOK /\ CopiesOK
        /\ at[Operator] \notin Resting => Operator \in conns
    BY OperatorConnected
  <1>2. CASE StartRestore
    <2>1. at'[Operator] = "verifying" /\ CopiesOK'
      BY <1>1, <1>2, Moved DEF StartRestore, CopiesOK
    <2>2. DbOK' /\ DirOK'
      BY <1>1, <1>2 DEF StartRestore, Connect, DbOK, DirOK, Covered
    <2> QED BY <1>1, <1>2, <2>1, <2>2, TypeOperatorFrame DEF StartRestore, Connect, OperatorPlaces
  <1>3. CASE Verify \/ SnapshotDb \/ SnapshotUploads \/ DropSnapshots
    <2>1. /\ UNCHANGED <<database, directory, conns, uploaderVars, backupVars, source, clobbered>>
          /\ faults' = faults \/ Fault
          /\ at[Operator] \notin Resting
      BY <1>3 DEF Verify, SnapshotDb, SnapshotUploads, DropSnapshots
    <2>2. PICK x \in {"verified", "snapping", "snapped", "restored", "failed", "cut", "closing"} :
            Goto(Operator, x)
      BY <1>3 DEF Verify, SnapshotDb, SnapshotUploads, DropSnapshots
    <2>3. at'[Operator] = x
      BY <1>1, <2>2, Moved
    <2>4. DbOK' /\ DirOK'
      BY <1>1, <2>1 DEF DbOK, DirOK, Covered
    <2>5. CopiesOK'
      BY <1>1, <1>3, <2>1, <2>3, Moved DEF Verify, SnapshotDb, SnapshotUploads, DropSnapshots, CopiesOK,
         DbOK, DirOK, Content
    <2> QED BY <1>1, <2>1, <2>2, <2>4, <2>5, TypeOperatorFrame DEF OperatorPlaces
  <1>4. CASE LogRestore
    <2>1. at'[Operator] = "closing" /\ CopiesOK'
      BY <1>1, <1>4, Moved DEF LogRestore, Forget, CopiesOK
    <2>2. DbOK' /\ DirOK'
      BY <1>1, <1>4, MarkTyped DEF LogRestore, DirOK
    <2> QED BY <1>1, <1>4, <2>1, <2>2, TypeOperatorFrame DEF LogRestore, OperatorPlaces
  <1> QED BY <1>2, <1>3, <1>4, TypeReplace, TypeFailReplace DEF Restore

LEMMA TypeNext == TypeInv /\ [Next]_vars => TypeInv'
  <1> SUFFICES ASSUME TypeInv, [Next]_vars PROVE TypeInv'
    OBVIOUS
  <1>1. CASE UNCHANGED vars
    BY <1>1 DEF TypeInv, DbOK, DirOK, ProcOK, FilesOK, CopiesOK, vars, Covered
  <1> QED BY <1>1, TypeUpload, TypeServe, TypeCreateBackup, TypeRestore, TypeEnd DEF Next

\* Types and connections, whatever overlaps, is killed or fails.
THEOREM TypesHold == Spec => []TypeInv
  BY TypeInit, TypeNext, PTL DEF Spec

\* The types and the pairing of connections with commands that the runs check.
THEOREM TypeCorrect == Spec => []TypeOK
  BY TypesHold, TypeInvGivesTypeOK, PTL

-----------------------------------------------------------------------------
(***************************************************************************)
(* The operator's commands run alone.  Only a log that a killed or         *)
(* terminated process has left may then lie beside the database file.      *)
(***************************************************************************)
Quiet == Overlap = {}
UntouchedPlaces == {"verifying", "verified", "snapping", "snapped"}
ReplacedPlaces == {"removing", "filling", "dropping", "restored"}

\* While nobody is connected, what is in the log counts; only a log repairs a half-copied file.
LogLeft ==
  /\ conns = {} /\ copied => wal = EmptyLog
  /\ Blurred \in main => ~copied /\ wal # EmptyLog
Solo == at[Operator] \notin Resting => \A p \in Processes \ {Operator} : at[p] = "idle"

\* What a command has found, and the log that lies there until its first commit.
Noted ==
  /\ at[Operator] \in BackupPlaces \cup RestorePlaces =>
       /\ wal = before.log /\ (wal = EmptyLog \/ ~copied)
       /\ before.db = Through(before.log, before.file)
  /\ at[Operator] \in BackupPlaces \cup RestorePlaces \cup {"halted"} =>
       /\ before.file \subseteq Content /\ before.log \in Logs /\ before.uploads \subseteq Files
       /\ Blurred \in before.file => before.log # EmptyLog
  /\ at[Operator] \in BackupPlaces \cup UntouchedPlaces =>
       main = before.file /\ uploads = before.uploads

\* What a backup has read is in place to its end.
Drafted ==
  /\ at[Operator] \in DraftPlaces => draft.listed = uploads
  /\ at[Operator] \in {"hashing", "taringDb"} => seen = {main} /\ ~draft.whole /\ draft.db = {}
  /\ at[Operator] = "taringUploads" => ~draft.whole
  /\ at[Operator] \in {"taringDb", "taringUploads", "archived"} => draft.checksum = WithoutLog(main)
  /\ at[Operator] \in {"taringUploads", "archived"} => draft.db = WithoutLog(main)
  /\ at[Operator] = "archived" => draft.uploads = uploads

\* So what is whole passes the verification, and what is restored has passed it.
Verified ==
  /\ \A a \in archives : Blurred \notin a.db /\ (a.whole => Verifies(a))
  /\ at[Operator] \in RestorePlaces => source \in archives
  /\ at[Operator] \in RestorePlaces \ {"verifying"} => source.whole

\* The snapshots, and what the replacement has put in place.
Saved ==
  /\ at[Operator] \in SnappedPlaces \cup {"snapping", "halted"} => snapDb = before.file
  /\ at[Operator] \in SnappedPlaces \cup {"halted"} => snapUploads = before.uploads
  /\ at[Operator] \in ReplacedPlaces => main = source.db
  /\ at[Operator] \in {"filling", "undoFill"} => ~dirThere
  /\ at[Operator] \in {"dropping", "restored"} => uploads = source.uploads

\* A restore that comes to undo has met a fault; the undoing succeeds but for a second one.
Undone ==
  /\ at[Operator] \in BackupPlaces \cup RestorePlaces => before.faults \in Nat /\ before.faults <= faults
  /\ at[Operator] \in UndoPlaces => before.faults < faults
  /\ at[Operator] \in {"undoRemove", "undoFill"} => main = snapDb
  /\ at[Operator] \in {"dropFailed", "failed"} /\ faults <= before.faults + 1 =>
       main = before.file /\ uploads = before.uploads

QuietInv == TypeInv /\ LogLeft /\ Solo /\ Noted /\ Drafted /\ Verified /\ Saved /\ Undone

LEMMA WalEmpty == ASSUME DbOK, wal.pages = {} PROVE wal = EmptyLog
  <1>1. wal.rows = {}
    BY DEF DbOK, Covered
  <1> QED BY <1>1 DEF DbOK, Logs, EmptyLog

LEMMA LogEmptyLogical ==
  ASSUME wal = EmptyLog \/ ~copied, copied \in BOOLEAN PROVE Logical = Through(wal, main)
  BY DEF Logical, Through

LEMMA CommitLeft ==
  ASSUME DbOK, LogLeft, NEW A, NEW D, CommitDb(A, D), conns' # {} PROVE LogLeft'
  <1>1. PICK kept \in {wal.pages} \cup IF copied THEN {{}} ELSE {} :
           /\ wal' = NewLog(kept, A, D)
           /\ \/ copied' = FALSE /\ main' = main
              \/ copied' = TRUE /\ main' = Through(NewLog(kept, A, D), main)
    BY CommitParts
  <1>2. Blurred \in main => wal' # EmptyLog
    <2>1. CASE Blurred \in main
      <3>1. wal.pages # {} /\ kept = wal.pages
        BY <1>1, <2>1, WalEmpty DEF LogLeft
      <3>2. wal'.pages # {}
        BY <1>1, <3>1 DEF NewLog
      <3> QED BY <3>2, EmptyTyped
    <2> QED BY <2>1
  <1>3. kept \in SUBSET Pages
    BY <1>1 DEF DbOK, Logs
  <1>4. wal'.rows \subseteq Rows
    BY <1>1, <1>3, NewLogTyped DEF Logs
  <1>5. copied' = TRUE => Blurred \notin main'
    BY <1>1, <1>2, <1>4, Constants DEF Through
  <1> QED BY <1>1, <1>2, <1>5 DEF LogLeft

LEMMA CloseLeft ==
  ASSUME DbOK, LogLeft, NEW p \in conns, Close(p) PROVE LogLeft'
  <1>1. CASE conns = {p}
    <2>1. Blurred \notin Logical
      BY Constants DEF Logical, Through, LogLeft, DbOK, Logs
    <2> QED BY <1>1, <2>1 DEF Close, LogLeft
  <1>2. CASE conns # {p}
    BY <1>2 DEF Close, LogLeft
  <1> QED BY <1>1, <1>2

LEMMA VanishLeft ==
  ASSUME DbOK, LogLeft, NEW p \in conns, Vanish(p) PROVE LogLeft'
  BY DEF Vanish, LogLeft, DbOK

\* While the operator is busy, nobody else is connected; while others work, it rests.
LEMMA OperatorAlone ==
  ASSUME QuietInv, at[Operator] \notin Resting PROVE conns = {Operator}
  BY Constants DEF QuietInv, TypeInv, ProcOK, Solo, Resting

LEMMA OthersAlone ==
  ASSUME QuietInv, Quiet, NEW p \in Processes, p # Operator, Free(p) \/ at[p] # "idle"
  PROVE  at[Operator] \in Resting
  BY DEF QuietInv, Solo, Free, Quiet, Idle, Resting

LEMMA QuietOthers ==
  ASSUME QuietInv, at[Operator] \in Resting, at'[Operator] = at[Operator],
         UNCHANGED operatorVars, TypeInv', LogLeft'
  PROVE  QuietInv'
  <1> USE DEF UntouchedPlaces, ReplacedPlaces, SnappedPlaces, DraftPlaces, Resting
  <1>1. Solo' /\ Noted' /\ Drafted'
    BY DEF QuietInv, Solo, Noted, Drafted
  <1>2. Verified' /\ Saved' /\ Undone'
    BY DEF QuietInv, Verified, Verifies, Saved, Undone
  <1> QED BY <1>1, <1>2 DEF QuietInv

LEMMA QuietInit == Init => QuietInv
  <1> SUFFICES ASSUME Init PROVE QuietInv
    OBVIOUS
  <1>1. at[Operator] = "idle"
    BY Constants DEF Init
  <1>2. LogLeft /\ Solo
    BY <1>1 DEF Init, LogLeft, Solo, Resting
  <1>3. Noted /\ Drafted /\ Verified /\ Saved /\ Undone
    BY <1>1 DEF Init, Noted, Drafted, Verified, Saved, Undone, UntouchedPlaces, ReplacedPlaces,
       SnappedPlaces, DraftPlaces
  <1> QED BY <1>2, <1>3, TypeInit DEF QuietInv

LEMMA QuietUpload ==
  ASSUME QuietInv, Quiet, NEW u \in Uploaders, Upload(u) PROVE QuietInv'
  <1>1. /\ u \in Processes /\ u # Operator /\ DbOK /\ ProcOK /\ LogLeft /\ TypeInv'
        /\ UNCHANGED operatorVars
    BY Constants, TypeUpload DEF QuietInv, TypeInv, Upload, StartUpload, PublishFile, CommitUpload, EndUpload,
       AbortUpload, InterruptUpload, KillUpload
  <1>2. PICK x : Goto(u, x) /\ (Free(u) \/ at[u] # "idle")
    BY DEF Upload, StartUpload, PublishFile, CommitUpload, EndUpload, AbortUpload,
       InterruptUpload, KillUpload, Leave
  <1>3. at[Operator] \in Resting /\ at'[Operator] = at[Operator]
    BY <1>1, <1>2, OthersAlone, Moved, Constants
  <1>4. at[u] # "idle" => u \in conns
    BY <1>1, Constants DEF ProcOK, QuietInv, TypeInv, UploadPlaces, Resting
  <1>5. LogLeft'
    <2>1. CASE StartUpload(u) \/ PublishFile(u)
      BY <1>1, <1>4, <2>1 DEF StartUpload, PublishFile, Connect, LogLeft
    <2>2. CASE CommitUpload(u)
      <3>1. u \in conns /\ conns' = conns /\ CommitDb({mine[u]}, {old[u]})
        BY <1>4, <2>2 DEF CommitUpload
      <3> QED BY <1>1, <3>1, CommitLeft
    <2>3. CASE EndUpload(u) \/ AbortUpload(u) \/ InterruptUpload(u)
      <3>1. u \in conns /\ Close(u)
        BY <1>4, <2>3 DEF EndUpload, AbortUpload, InterruptUpload
      <3> QED BY <1>1, <3>1, CloseLeft
    <2>4. CASE KillUpload(u)
      <3>1. u \in conns /\ Vanish(u)
        BY <1>4, <2>4 DEF KillUpload
      <3> QED BY <1>1, <3>1, VanishLeft
    <2> QED BY <2>1, <2>2, <2>3, <2>4 DEF Upload
  <1> QED BY <1>1, <1>3, <1>5, QuietOthers

LEMMA QuietServe ==
  ASSUME QuietInv, Quiet, NEW d \in Daemons, Serve(d) PROVE QuietInv'
  <1>1. /\ d \in Processes /\ d # Operator /\ DbOK /\ ProcOK /\ LogLeft /\ TypeInv'
        /\ UNCHANGED operatorVars
    BY Constants, TypeServe DEF QuietInv, TypeInv, Serve, StartDaemon, CommitOther, StopDaemon, TerminateDaemon
  <1>2. /\ Free(d) \/ at[d] # "idle"
        /\ at' = at \/ \E x : Goto(d, x)
    BY DEF Serve, StartDaemon, CommitOther, StopDaemon, TerminateDaemon
  <1>3. at[Operator] \in Resting /\ at'[Operator] = at[Operator]
    BY <1>1, <1>2, OthersAlone, Moved, Constants
  <1>4. at[d] = "running" => d \in conns
    BY <1>1 DEF ProcOK, Resting
  <1>5. LogLeft'
    <2>1. CASE StartDaemon(d)
      BY <1>1, <2>1 DEF StartDaemon, Connect, LogLeft
    <2>2. CASE CommitOther(d)
      <3>1. PICK m \in Marks : CommitDb({m}, {})
        BY <2>2 DEF CommitOther, CommitMark
      <3>2. d \in conns /\ conns' = conns
        BY <1>4, <2>2 DEF CommitOther
      <3> QED BY <1>1, <3>1, <3>2, CommitLeft
    <2>3. CASE StopDaemon(d)
      <3>1. d \in conns /\ Close(d)
        BY <1>4, <2>3 DEF StopDaemon
      <3> QED BY <1>1, <3>1, CloseLeft
    <2>4. CASE TerminateDaemon(d)
      <3>1. d \in conns /\ Vanish(d)
        BY <1>4, <2>4 DEF TerminateDaemon
      <3> QED BY <1>1, <3>1, VanishLeft
    <2> QED BY <2>1, <2>2, <2>3, <2>4 DEF Serve
  <1> QED BY <1>1, <1>3, <1>5, QuietOthers

\* A step of the operator: nobody else comes into it.
LEMMA OperatorSteps ==
  ASSUME QuietInv, Quiet, NEW x, Goto(Operator, x),
         at[Operator] \notin Resting \/ Alone("backup") \/ Alone("restore")
  PROVE  at'[Operator] = x /\ Solo'
  <1>1. at'[Operator] = x /\ \A p \in Processes : p # Operator => at'[p] = at[p]
    BY Moved, Constants DEF QuietInv, TypeInv
  <1>2. \A p \in Processes : p # Operator => at[p] = "idle"
    <2>1. \A p \in Processes : p # Operator => at[p] \in UploadPlaces \cup DaemonPlaces
      BY DEF QuietInv, TypeInv, ProcOK, Processes
    <2>2. CASE at[Operator] \notin Resting
      BY <2>2 DEF QuietInv, Solo
    <2>3. CASE Alone("backup") \/ Alone("restore")
      BY <2>1, <2>3 DEF Alone, Quiet, Idle, UploadPlaces, DaemonPlaces
    <2> QED BY <2>2, <2>3
  <1> QED BY <1>1, <1>2 DEF Solo

\* Both commands begin by noting what is there.
LEMMA QuietStart ==
  ASSUME QuietInv, Quiet, StartBackup \/ StartRestore PROVE QuietInv'
  <1> USE DEF Resting, UntouchedPlaces, ReplacedPlaces, SnappedPlaces, DraftPlaces
  <1>1. /\ Operator \in Processes /\ DbOK /\ DirOK /\ ProcOK /\ faults \in Nat
        /\ LogLeft /\ Verified /\ UNCHANGED <<database, uploads, archives, faults>>
        /\ conns' = conns \cup {Operator} /\ before' = Observed
    BY Constants DEF QuietInv, TypeInv, StartBackup, StartRestore, Connect
  <1>2. PICK x \in {"listing", "verifying"} :
          /\ Goto(Operator, x) /\ (Alone("backup") \/ Alone("restore"))
          /\ x = "verifying" => source' \in archives
    BY DEF StartBackup, StartRestore
  <1>3. at'[Operator] = x /\ Solo' /\ at[Operator] \in Resting
    BY <1>2, OperatorSteps DEF StartBackup, StartRestore, Idle
  <1>4. conns = {}
    <2>1. \A p \in Processes : p # Operator => at[p] \in Resting
      BY DEF Alone, Quiet, Idle, StartBackup, StartRestore
    <2> QED BY <1>1, <1>3, <2>1 DEF ProcOK
  <1>5. (wal = EmptyLog \/ ~copied) /\ Logical = Through(wal, main)
    BY <1>1, <1>4, LogEmptyLogical DEF LogLeft, DbOK
  <1>6. Noted' /\ Undone'
    BY <1>1, <1>3, <1>5 DEF Observed, Noted, Undone, DbOK, DirOK, LogLeft
  <1>7. LogLeft' /\ Drafted' /\ Verified' /\ Saved'
    BY <1>1, <1>2, <1>3 DEF LogLeft, Drafted, Verified, Verifies, Saved
  <1>8. TypeInv'
    BY TypeCreateBackup, TypeRestore DEF CreateBackup, Restore, QuietInv
  <1> QED BY <1>3, <1>6, <1>7, <1>8 DEF QuietInv

\* What a copy of the file holds when nobody writes it.
LEMMA QuietReadings ==
  ASSUME seen = {main}, NEW mixture, NEW c \in Readings(mixture) PROVE c = WithoutLog(main)
  BY DEF Readings

LEMMA WithoutLogClean == ASSUME NEW file PROVE Blurred \notin WithoutLog(file)
  BY Constants DEF WithoutLog

\* The steps of a backup read the data and leave it alone.
LEMMA QuietBackup ==
  ASSUME QuietInv, Quiet, ListUploads \/ HashDb \/ TarDb \/ TarUploads PROVE QuietInv'
  <1> USE DEF Resting, UntouchedPlaces, ReplacedPlaces, SnappedPlaces, DraftPlaces
  <1>1. /\ CopiesOK /\ LogLeft /\ Noted /\ Drafted /\ Verified /\ Saved /\ Undone
        /\ UNCHANGED <<main, wal, copied, uploads, dirThere, conns, restoreVars, before, faults>>
        /\ at[Operator] \in BackupPlaces
    BY DEF QuietInv, TypeInv, ListUploads, HashDb, TarDb, TarUploads
  <1>2. PICK x \in BackupPlaces : Goto(Operator, x)
    BY DEF ListUploads, HashDb, TarDb, TarUploads
  <1>3. at'[Operator] = x /\ Solo'
    BY <1>1, <1>2, OperatorSteps
  <1>4. TypeInv'
    BY TypeCreateBackup DEF CreateBackup, QuietInv
  <1>5. LogLeft' /\ Noted' /\ Saved' /\ Undone'
    BY <1>1, <1>3 DEF LogLeft, Noted, Saved, Undone
  <1>6. CASE ListUploads
    <2>1. x = "hashing"
      BY <1>6, <1>2, <1>3, <1>1, OperatorSteps DEF ListUploads
    <2>2. Drafted' /\ Verified'
      BY <1>1, <1>3, <1>6, <2>1 DEF ListUploads, Drafted, Verified, Verifies
    <2> QED BY <1>3, <1>4, <1>5, <2>2 DEF QuietInv
  <1>7. CASE HashDb
    <2>1. x = "taringDb" /\ at[Operator] = "hashing" /\ draft \in Archives /\ seen' = {main}
      BY <1>7, <1>2, <1>3, <1>1, OperatorSteps DEF HashDb, CopiesOK
    <2>2. PICK c \in Readings({Blurred}) : draft' = [draft EXCEPT !.checksum = c]
      BY <1>7 DEF HashDb
    <2>3. c = WithoutLog(main)
      BY <1>1, <2>1, QuietReadings DEF Drafted
    <2>4. /\ draft'.checksum = WithoutLog(main) /\ draft'.listed = uploads /\ ~draft'.whole
          /\ draft'.db = {}
      BY <1>1, <2>1, <2>2, <2>3 DEF Archives, Drafted
    <2>5. \A a \in archives' : a \in archives \/ a = draft'
      BY <1>7 DEF HashDb
    <2>6. Drafted' /\ Verified'
      BY <1>1, <1>3, <2>1, <2>4, <2>5 DEF Drafted, Verified, Verifies
    <2> QED BY <1>3, <1>4, <1>5, <2>6 DEF QuietInv
  <1>8. CASE TarDb
    <2>1. x = "taringUploads" /\ at[Operator] = "taringDb" /\ draft \in Archives
      BY <1>8, <1>2, <1>3, <1>1, OperatorSteps DEF TarDb, CopiesOK
    <2>2. PICK c \in Readings({Torn}) : draft' = [draft EXCEPT !.db = c]
      BY <1>8 DEF TarDb
    <2>3. c = WithoutLog(main)
      BY <1>1, <2>1, QuietReadings DEF Drafted
    <2>4. /\ draft'.checksum = WithoutLog(main) /\ draft'.listed = uploads /\ ~draft'.whole
          /\ draft'.db = WithoutLog(main)
      BY <1>1, <2>1, <2>2, <2>3 DEF Archives, Drafted
    <2>5. Drafted' /\ Verified'
      BY <1>1, <1>3, <1>8, <2>1, <2>4 DEF TarDb, Drafted, Verified, Verifies
    <2> QED BY <1>3, <1>4, <1>5, <2>5 DEF QuietInv
  <1>9. CASE TarUploads
    <2>1. x = "archived" /\ at[Operator] = "taringUploads" /\ draft \in Archives
      BY <1>9, <1>2, <1>3, <1>1, OperatorSteps DEF TarUploads, CopiesOK
    <2>2. /\ draft'.checksum = WithoutLog(main) /\ draft'.listed = uploads /\ draft'.whole
          /\ draft'.db = WithoutLog(main) /\ draft'.uploads = uploads
      BY <1>1, <1>9, <2>1 DEF TarUploads, Archives, Drafted
    <2>3. \A a \in archives' : a \in archives \/ a = draft'
      BY <1>9 DEF TarUploads
    <2>4. Verifies(draft)' /\ Blurred \notin draft'.db
      BY <2>2, WithoutLogClean DEF Verifies
    <2>5. Verified'
      BY <1>1, <1>3, <2>1, <2>3, <2>4 DEF Verified, Verifies
    <2>6. Drafted'
      BY <1>1, <1>3, <2>1, <2>2 DEF Drafted
    <2> QED BY <1>3, <1>4, <1>5, <2>5, <2>6 DEF QuietInv
  <1> QED BY <1>6, <1>7, <1>8, <1>9

\* The end of a command, whatever it was.
LEMMA QuietEnd ==
  ASSUME QuietInv, Quiet,
         RecordBackup \/ LogRestore \/ FailCommand \/ CloseOperator \/ KillOperator
  PROVE  QuietInv'
  <1> USE DEF Resting, UntouchedPlaces, ReplacedPlaces, SnappedPlaces, DraftPlaces
  <1>1. /\ DbOK /\ LogLeft /\ Verified /\ UNCHANGED archives /\ at[Operator] \notin Resting
        /\ conns = {Operator}
    BY OperatorAlone DEF QuietInv, TypeInv, RecordBackup, LogRestore, FailCommand, CloseOperator,
       KillOperator, Idle
  <1>2. PICK x \in {"closing", "idle"} : Goto(Operator, x)
    BY DEF RecordBackup, LogRestore, FailCommand, CloseOperator, KillOperator
  <1>3. at'[Operator] = x /\ Solo'
    BY <1>1, <1>2, OperatorSteps
  <1>4. TypeInv'
    BY TypeCreateBackup, TypeRestore, TypeEnd DEF CreateBackup, Restore, QuietInv
  <1>5. LogLeft'
    <2>1. CASE RecordBackup \/ LogRestore
      <3>1. PICK m \in Marks : CommitDb({m}, {})
        BY <2>1 DEF RecordBackup, LogRestore, CommitMark
      <3> QED BY <1>1, <2>1, <3>1, CommitLeft DEF RecordBackup, LogRestore
    <2>2. CASE FailCommand
      BY <1>1, <2>2 DEF FailCommand, LogLeft
    <2>3. CASE CloseOperator
      BY <1>1, <2>3, CloseLeft DEF CloseOperator
    <2>4. CASE KillOperator
      BY <1>1, <2>4, VanishLeft DEF KillOperator
    <2> QED BY <2>1, <2>2, <2>3, <2>4
  <1>6. Noted' /\ Drafted' /\ Verified' /\ Saved' /\ Undone'
    BY <1>1, <1>3 DEF Noted, Drafted, Verified, Verifies, Saved, Undone
  <1> QED BY <1>3, <1>4, <1>5, <1>6 DEF QuietInv

\* Verification, the snapshots, and the finally branch.
LEMMA QuietSnapshots ==
  ASSUME QuietInv, Quiet, Verify \/ SnapshotDb \/ SnapshotUploads \/ DropSnapshots
  PROVE  QuietInv'
  <1> USE DEF Resting, UntouchedPlaces, ReplacedPlaces, SnappedPlaces, DraftPlaces
  <1>1. /\ LogLeft /\ Noted /\ Verified /\ Saved /\ Undone /\ faults \in Nat
        /\ UNCHANGED <<database, directory, conns, archives, source, before>>
        /\ at[Operator] \in RestorePlaces /\ faults' \in {faults, faults + 1}
    BY Constants DEF QuietInv, TypeInv, Verify, SnapshotDb, SnapshotUploads, DropSnapshots, Fault
  <1>2. PICK x \in {"verified", "snapping", "snapped", "restored", "failed", "cut", "closing"} :
          Goto(Operator, x)
    BY DEF Verify, SnapshotDb, SnapshotUploads, DropSnapshots
  <1>3. at'[Operator] = x /\ Solo'
    BY <1>1, <1>2, OperatorSteps
  <1>4. TypeInv'
    BY TypeRestore DEF Restore, QuietInv
  <1>5. LogLeft' /\ Drafted'
    BY <1>1, <1>3 DEF LogLeft, Drafted
  <1>6. CASE Verify
    <2>1. at[Operator] = "verifying" /\ x \in {"verified", "closing"}
          /\ (x = "verified" => source.whole)
      BY <1>6, <1>3, <1>1, OperatorSteps DEF Verify, Verifies
    <2>2. Noted' /\ Verified' /\ Saved' /\ Undone'
      BY <1>1, <1>3, <1>6, <2>1 DEF Verify, Noted, Verified, Verifies, Saved, Undone
    <2> QED BY <1>3, <1>4, <1>5, <2>2 DEF QuietInv
  <1>7. CASE SnapshotDb
    <2>1. at[Operator] = "verified" /\ x \in {"snapping", "closing"}
      BY <1>7, <1>3, <1>1, OperatorSteps DEF SnapshotDb
    <2>3. conns = {Operator}
      BY <2>1, OperatorAlone
    <2>4. x = "snapping" => snapDb' = main
      BY <1>7, <1>3, <2>3, OperatorSteps DEF SnapshotDb
    <2>2. Noted' /\ Verified' /\ Saved' /\ Undone'
      BY <1>1, <1>3, <2>1, <2>4 DEF Noted, Verified, Verifies, Saved, Undone
    <2> QED BY <1>3, <1>4, <1>5, <2>2 DEF QuietInv
  <1>8. CASE SnapshotUploads
    <2>1. /\ at[Operator] = "snapping" /\ x \in {"snapped", "closing"} /\ UNCHANGED snapDb
          /\ (x = "snapped" => snapUploads' = uploads)
      BY <1>8, <1>3, <1>1, OperatorSteps DEF SnapshotUploads
    <2>2. Noted' /\ Verified' /\ Saved' /\ Undone'
      BY <1>1, <1>3, <2>1 DEF Noted, Verified, Verifies, Saved, Undone
    <2> QED BY <1>3, <1>4, <1>5, <2>2 DEF QuietInv
  <1>9. CASE DropSnapshots
    <2>1. /\ x \in {"restored", "failed", "cut", "closing"}
          /\ (x = "restored" => at[Operator] = "dropping")
          /\ (x = "failed" => at[Operator] = "dropFailed")
      BY <1>9, <1>3, <1>1, OperatorSteps DEF DropSnapshots
    <2>2. at[Operator] \in {"dropping", "dropFailed", "dropCut"}
      BY <1>9 DEF DropSnapshots
    <2>3. Noted' /\ Verified'
      BY <1>1, <1>3, <2>1, <2>2 DEF Noted, Verified, Verifies
    <2>4. Saved' /\ Undone'
      BY <1>1, <1>3, <2>1, <2>2 DEF Saved, Undone, Noted
    <2> QED BY <1>3, <1>4, <1>5, <2>3, <2>4 DEF QuietInv
  <1> QED BY <1>6, <1>7, <1>8, <1>9

\* A step of the replacement or of the undoing, complete or not.
LEMMA QuietReplace ==
  ASSUME QuietInv, Quiet, Replace \/ Undo PROVE QuietInv'
  <1> USE DEF Resting, UntouchedPlaces, ReplacedPlaces, SnappedPlaces, DraftPlaces
  <1>1. /\ DirOK /\ LogLeft /\ Noted /\ Verified /\ Saved /\ Undone
        /\ UNCHANGED <<wal, copied, seen, conns, backupVars, source, snapDb, snapUploads, before,
                       faults>>
        /\ at[Operator] \in ReplacePlaces \cup UndoPlaces
    BY DEF QuietInv, TypeInv, Replace, Undo, OverwriteDb, RemoveUploads, FillUploads
  <1>2. PICK x \in {"removing", "filling", "dropping", "undoDb", "undoRemove", "undoFill",
                    "dropFailed"} : Goto(Operator, x)
    BY DEF Replace, Undo, OverwriteDb, RemoveUploads, FillUploads
  <1>3. at'[Operator] = x /\ Solo'
    BY <1>1, <1>2, OperatorSteps
  <1>4. TypeInv'
    BY TypeRestore DEF Restore, QuietInv
  <1>5. Drafted' /\ Verified' /\ Noted'
    BY <1>1, <1>3 DEF Drafted, Verified, Verifies, Noted
  <1>6. CASE OverwriteDb("snapped", source.db, "removing")
    <2>1. x = "removing" /\ at[Operator] = "snapped" /\ main' = source.db
      BY <1>6, <1>3, <1>1, OperatorSteps DEF OverwriteDb
    <2>2. LogLeft' /\ Saved' /\ Undone'
      BY <1>1, <1>3, <2>1 DEF LogLeft, Saved, Undone, Verified
    <2> QED BY <1>3, <1>4, <1>5, <2>2 DEF QuietInv
  <1>7. CASE RemoveUploads("removing", "filling")
    <2>1. x = "filling" /\ at[Operator] = "removing" /\ UNCHANGED main /\ dirThere' = FALSE
      BY <1>7, <1>3, <1>1, OperatorSteps DEF RemoveUploads
    <2>2. LogLeft' /\ Saved' /\ Undone'
      BY <1>1, <1>3, <2>1 DEF LogLeft, Saved, Undone
    <2> QED BY <1>3, <1>4, <1>5, <2>2 DEF QuietInv
  <1>8. CASE FillUploads("filling", source.uploads, "dropping", "undoDb")
    <2>1. at[Operator] = "filling" /\ ~dirThere
      BY <1>8, <1>1 DEF FillUploads, Saved
    <2>2. x = "dropping" /\ UNCHANGED main /\ uploads' = source.uploads
      BY <2>1, <1>8, <1>3, <1>1, OperatorSteps DEF FillUploads
    <2>3. LogLeft' /\ Saved' /\ Undone'
      BY <1>1, <1>3, <2>1, <2>2 DEF LogLeft, Saved, Undone
    <2> QED BY <1>3, <1>4, <1>5, <2>3 DEF QuietInv
  <1>9. CASE OverwriteDb("undoDb", snapDb, "undoRemove")
    <2>1. x = "undoRemove" /\ at[Operator] = "undoDb" /\ main' = snapDb
      BY <1>9, <1>3, <1>1, OperatorSteps DEF OverwriteDb
    <2>2. LogLeft'
      BY <1>1, <2>1 DEF LogLeft, Saved, Noted
    <2>3. Saved' /\ Undone'
      BY <1>1, <1>3, <2>1 DEF Saved, Undone
    <2> QED BY <1>3, <1>4, <1>5, <2>2, <2>3 DEF QuietInv
  <1>10. CASE RemoveUploads("undoRemove", "undoFill")
    <2>1. x = "undoFill" /\ at[Operator] = "undoRemove" /\ UNCHANGED main /\ dirThere' = FALSE
      BY <1>10, <1>3, <1>1, OperatorSteps DEF RemoveUploads
    <2>2. LogLeft' /\ Saved' /\ Undone'
      BY <1>1, <1>3, <2>1 DEF LogLeft, Saved, Undone
    <2> QED BY <1>3, <1>4, <1>5, <2>2 DEF QuietInv
  <1>11. CASE FillUploads("undoFill", snapUploads, "dropFailed", "dropFailed")
    <2>1. at[Operator] = "undoFill" /\ ~dirThere
      BY <1>11, <1>1 DEF FillUploads, Saved
    <2>2. x = "dropFailed" /\ UNCHANGED main /\ uploads' = snapUploads
      BY <2>1, <1>11, <1>3, <1>1, OperatorSteps DEF FillUploads
    <2>3. LogLeft' /\ Saved' /\ Undone'
      BY <1>1, <1>3, <2>1, <2>2 DEF LogLeft, Saved, Undone
    <2> QED BY <1>3, <1>4, <1>5, <2>3 DEF QuietInv
  <1> QED BY <1>6, <1>7, <1>8, <1>9, <1>10, <1>11 DEF Replace, Undo

\* A step that fails, is interrupted or killed: the snapshots and the log are still there.
LEMMA QuietFails ==
  ASSUME QuietInv, Quiet, FailReplace \/ InterruptReplace \/ KillReplace PROVE QuietInv'
  <1> USE DEF Resting, UntouchedPlaces, ReplacedPlaces, SnappedPlaces, DraftPlaces
  <1>1. /\ DbOK /\ LogLeft /\ Noted /\ Verified /\ Saved /\ Undone /\ faults \in Nat
        /\ faults' = faults + 1
        /\ Damage \/ UNCHANGED <<main, wal, seen, directory, clobbered>>
        /\ UNCHANGED <<archives, draft, source, snapDb, snapUploads, before>>
        /\ at[Operator] \in ReplacePlaces \cup UndoPlaces
        /\ conns = {Operator}
    BY OperatorAlone, Constants
       DEF QuietInv, TypeInv, FailReplace, InterruptReplace, KillReplace, Fault
  <1>2. PICK x \in {"undoDb", "dropFailed", "dropCut", "halted"} : Goto(Operator, x)
    BY DEF FailReplace, InterruptReplace, KillReplace
  <1>3. at'[Operator] = x /\ Solo'
    BY <1>1, <1>2, OperatorSteps
  <1>4. TypeInv'
    BY TypeRestore DEF Restore, QuietInv
  <1>5. wal' = wal /\ (Blurred \in main' => Blurred \in main \/ before.log # EmptyLog)
    <2>1. CASE UNCHANGED <<main, wal, seen, directory, clobbered>>
      BY <2>1
    <2>2. CASE Damage
      <3>1. CASE at[Operator] \in {"snapped", "undoDb"}
        <4>1. /\ main' \in {main, {Torn}, IF at[Operator] = "snapped" THEN source.db ELSE snapDb}
              /\ wal' = wal
          BY <2>2, <3>1 DEF Damage
        <4>2. Blurred \notin {Torn}
          BY Constants
        <4>3. Blurred \notin source.db
          BY <1>1 DEF Verified
        <4>4. Blurred \in snapDb => before.log # EmptyLog
          BY <1>1 DEF Saved, Noted
        <4> QED BY <4>1, <4>2, <4>3, <4>4
      <3>2. CASE at[Operator] \notin {"snapped", "undoDb"}
        BY <2>2, <3>2 DEF Damage
      <3> QED BY <3>1, <3>2
    <2> QED BY <1>1, <2>1, <2>2
  <1>6. \/ x \in {"undoDb", "dropFailed", "dropCut"} /\ UNCHANGED <<conns, copied>>
        \/ x = "halted" /\ copied' = (copied /\ wal = EmptyLog)
    BY <1>1, <1>3, OperatorSteps DEF FailReplace, InterruptReplace, KillReplace
  <1>7. LogLeft'
    <2>1. before.log # EmptyLog => wal # EmptyLog /\ ~copied
      BY <1>1 DEF Noted
    <2>2. ~copied => ~copied'
      BY <1>6
    <2>3. conns' = {} /\ copied' => wal' = EmptyLog
      BY <1>1, <1>5, <1>6
    <2>4. Blurred \in main' => ~copied' /\ wal' # EmptyLog
      BY <1>1, <1>5, <2>1, <2>2 DEF LogLeft
    <2> QED BY <2>3, <2>4 DEF LogLeft
  <1>8. (x = "undoDb" => at[Operator] \in ReplacePlaces)
        /\ (x = "dropFailed" => at[Operator] \in UndoPlaces)
    BY <1>3, <1>1, OperatorSteps DEF FailReplace, InterruptReplace, KillReplace
  <1>9. Drafted' /\ Verified'
    BY <1>1, <1>3 DEF Drafted, Verified, Verifies
  <1>10. Noted'
    BY <1>1, <1>3, <1>5, <1>6 DEF Noted
  <1>11. Saved'
    BY <1>1, <1>3, <1>8 DEF Saved
  <1>12. Undone'
    BY <1>1, <1>3, <1>8 DEF Undone
  <1> QED BY <1>3, <1>4, <1>7, <1>9, <1>10, <1>11, <1>12 DEF QuietInv

LEMMA QuietNext ==
  ASSUME QuietInv, Quiet, [Next]_vars PROVE QuietInv'
  <1>1. CASE UNCHANGED vars
    <2>1. TypeInv'
      BY <1>1, TypeNext DEF QuietInv
    <2>2. LogLeft' /\ Solo' /\ Noted' /\ Drafted'
      BY <1>1 DEF QuietInv, LogLeft, Solo, Noted, Drafted, vars
    <2>3. Verified' /\ Saved' /\ Undone'
      BY <1>1 DEF QuietInv, Verified, Verifies, Saved, Undone, vars
    <2> QED BY <2>1, <2>2, <2>3 DEF QuietInv
  <1>2. CASE CreateBackup
    BY <1>2, QuietStart, QuietBackup, QuietEnd DEF CreateBackup
  <1>3. CASE Restore
    BY <1>3, QuietStart, QuietSnapshots, QuietReplace, QuietFails, QuietEnd DEF Restore
  <1> QED BY <1>1, <1>2, <1>3, QuietUpload, QuietServe, QuietEnd DEF Next

LEMMA QuietHolds == ASSUME Quiet PROVE Spec => []QuietInv
  BY QuietInit, QuietNext, PTL DEF Spec

\* What is in force while a command runs.
LEMMA QuietLogical ==
  ASSUME QuietInv, at[Operator] \in BackupPlaces \cup RestorePlaces
  PROVE  Logical = Through(before.log, main)
  BY LogEmptyLogical DEF QuietInv, TypeInv, DbOK, Noted

\* A backup that runs alone copies the database file and the files as they are.  If no log
\* lies beside the file, because the services closed their connections, that is the database:
\* no committed document is missing.
BackupExact ==
  at[Operator] = "archived" =>
    /\ draft.db = WithoutLog(before.file) /\ draft.uploads = before.uploads
    /\ before.log = EmptyLog => draft.db = before.db

\* So a backup that finds no log holds every current document.
THEOREM QuietBackupExact == ASSUME Quiet PROVE Spec => []BackupExact
  <1>1. QuietInv => BackupExact
    BY DEF QuietInv, Noted, Drafted, BackupExact, WithoutLog, Through
  <1> QED BY <1>1, QuietHolds, PTL

\* The database of the archive is in force after a successful restore that runs alone, if it
\* found no log beside the file: the log of a terminated service would cover it.
CleanRestoreInForce ==
  at[Operator] = "restored" /\ before.log = EmptyLog => Logical = source.db

\* Without a log beside the file, a restore that succeeds takes effect.
THEOREM QuietRestoreInForce == ASSUME Quiet PROVE Spec => []CleanRestoreInForce
  <1>1. QuietInv => CleanRestoreInForce
    BY QuietLogical DEF QuietInv, Saved, CleanRestoreInForce, ReplacedPlaces, Through
  <1> QED BY <1>1, QuietHolds, PTL

\* One failed step of a restore, or one kill, never costs the last copy of what was active,
\* after any number of kills, interrupts and failures of earlier commands and services.
THEOREM QuietLastCopySafe == ASSUME Quiet PROVE Spec => []LastCopySafe
  <1>1. QuietInv => LastCopySafe
    <2> SUFFICES ASSUME QuietInv, at[Operator] \in (RestorePlaces \ {"dropCut", "cut"}) \cup {"halted"},
                        faults <= before.faults + 1,
                        at[Operator] \notin {"dropping", "restored"}
                 PROVE  \/ Logical = before.db /\ uploads = before.uploads
                        \/ /\ snapDb = before.file /\ snapUploads = before.uploads
                           /\ wal = before.log \/ before.log = EmptyLog \/ at[Operator] = "halted"
      BY DEF LastCopySafe
    <2>1. Noted /\ Saved /\ Undone
      BY DEF QuietInv
    <2>2. CASE at[Operator] \in UntouchedPlaces \cup {"dropFailed", "failed"}
      BY <2>1, <2>2, QuietLogical DEF Noted, Undone, UntouchedPlaces
    <2>3. CASE at[Operator] \in SnappedPlaces \cup {"halted"}
      BY <2>1, <2>3 DEF Noted, Saved, SnappedPlaces
    <2> QED BY <2>2, <2>3 DEF UntouchedPlaces, SnappedPlaces
  <1> QED BY <1>1, QuietHolds, PTL

\* Every complete archive passes the verification of restore, after any number of kills and
\* failures: an archive that does not is one that a backup has left half-written.
ArchivesVerify == \A a \in archives : a.whole => Verifies(a)

\* So a restore refuses none but a half-written archive.
THEOREM QuietArchivesVerify == ASSUME Quiet PROVE Spec => []ArchivesVerify
  <1>1. QuietInv => ArchivesVerify
    BY DEF QuietInv, Verified, ArchivesVerify
  <1> QED BY <1>1, QuietHolds, PTL

-----------------------------------------------------------------------------
(***************************************************************************)
(* Whatever overlaps.  The file of an upload that has not committed is in  *)
(* no database, no archive and no copy; so what the main file held when a  *)
(* backup began can leave the database meanwhile, but never come to it.    *)
(***************************************************************************)
\* A log that is copied agrees with the main file.
Coherent == copied /\ ~clobbered => main \cap Covered(wal) = wal.rows

\* What a step may do to the database that adds A to its rows and takes D away.
Shift(A, D) ==
  /\ main' \subseteq main \cup wal.rows \cup A \cup {Blurred}
  /\ wal'.rows \subseteq main \cup wal.rows \cup A
  /\ seen' \subseteq seen \cup {main'}
  /\ ~clobbered =>
       /\ main' = Logical' \/ main' \cap Rows = main \cap Rows
       /\ Logical' \cap Rows \subseteq Logical \cup A
       /\ (Logical \cap Rows) \ D \subseteq Logical'

LEMMA ThroughRows ==
  ASSUME NEW log \in Logs, NEW file, log.rows \subseteq Covered(log)
  PROVE  /\ Through(log, file) \subseteq file \cup log.rows
         /\ \A r \in Rows : r \in Through(log, file) <=>
                              r \in log.rows \/ (r \in file /\ Page[r] \notin log.pages)
  <1>1. Blurred \notin Rows
    BY Constants
  <1> QED BY <1>1, EmptyTyped DEF Through, Covered

LEMMA LogicalRows ==
  ASSUME DbOK
  PROVE  /\ Logical \subseteq main \cup wal.rows
         /\ copied => Logical = main
         /\ ~copied => \A r \in Rows : r \in Logical <=>
                         r \in wal.rows \/ (r \in main /\ Page[r] \notin wal.pages)
  BY ThroughRows DEF DbOK, Logical

LEMMA CommitShifts ==
  ASSUME DbOK, Coherent, NEW A \in SUBSET Rows, NEW D, CommitDb(A, D), UNCHANGED clobbered
  PROVE  Shift(A, D) /\ Coherent'
  <1>1. PICK kept \in {wal.pages} \cup IF copied THEN {{}} ELSE {} :
           /\ wal' = NewLog(kept, A, D)
           /\ \/ copied' = FALSE /\ main' = main
              \/ copied' = TRUE /\ main' = Through(NewLog(kept, A, D), main)
           /\ Noticed
    BY CommitParts
  <1>2. kept \in SUBSET Pages
    BY <1>1 DEF DbOK, Logs
  <1>3. wal' \in Logs /\ wal'.rows \subseteq Covered(wal')
    BY <1>1, <1>2, NewLogTyped DEF Covered
  <1> DEFINE touched == {Page[r] : r \in (A \cup D) \cap Rows}
  <1>4. /\ wal'.pages = kept \cup touched
        /\ \A r \in Rows : r \in wal'.rows <=>
             \/ (r \in Logical \ D \/ r \in A) /\ Page[r] \in touched
             \/ r \in wal.rows /\ Page[r] \in kept \ touched
        /\ wal'.rows \subseteq Logical \cup A \cup wal.rows
    BY <1>1 DEF NewLog
  <1>5. Logical' = Through(wal', main)
    <2>1. CASE copied' = FALSE /\ main' = main
      BY <2>1 DEF Logical
    <2>2. CASE copied' = TRUE /\ main' = Through(wal', main)
      BY <2>2 DEF Logical
    <2> QED BY <1>1, <2>1, <2>2
  <1>6. \A r \in Rows : r \in Logical' <=>
          r \in wal'.rows \/ (r \in main /\ Page[r] \notin wal'.pages)
    BY <1>3, <1>5, ThroughRows
  <1>7. ASSUME ~clobbered, NEW r \in Rows, Page[r] \in kept
        PROVE  r \in Logical <=> r \in wal.rows
    <2>1. CASE copied
      <3>1. Page[r] \in wal.pages
        BY <1>1, <1>7
      <3> QED BY <1>7, <2>1, <3>1, LogicalRows DEF Coherent, Covered
    <2>2. CASE ~copied
      <3>1. Page[r] \in wal.pages
        BY <1>1, <1>7, <2>2
      <3> QED BY <2>2, <3>1, LogicalRows
    <2> QED BY <2>1, <2>2
  <1>8. ASSUME ~clobbered, NEW r \in Rows, Page[r] \notin kept
        PROVE  r \in Logical <=> r \in main
    <2>1. CASE copied
      BY <2>1, LogicalRows
    <2>2. CASE ~copied
      <3>1. Page[r] \notin wal.pages /\ r \notin wal.rows
        BY <1>1, <1>8, <2>2 DEF DbOK, Covered
      <3> QED BY <2>2, <3>1, LogicalRows
    <2> QED BY <2>1, <2>2
  <1>9. ~clobbered => /\ \A r \in Rows : r \in Logical' => r \in Logical \cup A
                      /\ \A r \in Rows : r \in Logical \ D => r \in Logical'
    <2> SUFFICES ASSUME ~clobbered, NEW r \in Rows
                 PROVE  /\ r \in Logical' => r \in Logical \cup A
                        /\ r \in Logical \ D => r \in Logical'
      OBVIOUS
    <2>1. CASE Page[r] \in touched
      BY <1>4, <1>6, <2>1
    <2>2. CASE Page[r] \in kept \ touched
      BY <1>4, <1>6, <1>7, <2>2
    <2>3. CASE Page[r] \notin kept \cup touched
      BY <1>4, <1>6, <1>8, <2>3
    <2> QED BY <2>1, <2>2, <2>3
  <1>10. main' \subseteq main \cup wal.rows \cup A \cup {Blurred}
    BY <1>1, <1>3, <1>4, LogicalRows, ThroughRows
  <1>11. main' = main \/ main' = Logical'
    BY <1>1, <1>5
  <1>12. Coherent'
    <2>1. copied' => main' = Through(wal', main)
      BY <1>1
    <2>2. copied' => main' \cap Covered(wal)' = wal'.rows
      BY <1>3, <2>1, ThroughRows DEF Covered
    <2> QED BY <2>2 DEF Coherent
  <1>13. seen' \subseteq seen \cup {main'} /\ wal'.rows \subseteq main \cup wal.rows \cup A
    BY <1>1, <1>4, LogicalRows DEF Noticed
  <1> QED BY <1>9, <1>10, <1>11, <1>12, <1>13 DEF Shift

LEMMA StillShifts ==
  ASSUME DbOK, Coherent, UNCHANGED <<main, wal, copied, clobbered>>, seen' \subseteq seen \cup {main}
  PROVE  Shift({}, {}) /\ Coherent'
  BY DEF Shift, Coherent, Covered, Logical

LEMMA CloseShifts ==
  ASSUME DbOK, Coherent, NEW p, Close(p), UNCHANGED clobbered PROVE Shift({}, {}) /\ Coherent'
  <1>1. CASE conns = {p}
    <2>1. main' = Logical /\ wal' = EmptyLog /\ copied' = TRUE /\ Noticed
      BY <1>1 DEF Close
    <2>2. Logical' = Logical
      BY <2>1 DEF Logical
    <2> QED BY <2>1, <2>2, LogicalRows, EmptyTyped DEF Shift, Coherent, Covered, Noticed
  <1>2. CASE conns # {p}
    BY <1>2, StillShifts DEF Close
  <1> QED BY <1>1, <1>2

LEMMA VanishShifts ==
  ASSUME DbOK, Coherent, NEW p, Vanish(p), Noticed \/ seen' = {}, UNCHANGED clobbered
  PROVE  Shift({}, {}) /\ Coherent'
  <1>1. /\ wal' = wal /\ (~copied => ~copied')
        /\ main' = main \/ (main' = main \cup {Blurred} /\ ~copied)
        /\ seen' \subseteq seen \cup {main'} /\ DbOK'
    BY VanishTyped DEF Vanish, Noticed
  <1>2. main' \cap Rows = main \cap Rows
    BY <1>1, Constants
  <1>3. Coherent'
    BY <1>1 DEF Coherent, Covered
  <1>4. ~clobbered => \A r \in Rows : r \in Logical' <=> r \in Logical
    <2> SUFFICES ASSUME ~clobbered, NEW r \in Rows PROVE r \in Logical' <=> r \in Logical
      OBVIOUS
    <2>1. r \in main' <=> r \in main
      BY <1>2
    <2>2. CASE copied /\ copied'
      BY <2>1, <2>2 DEF Logical
    <2>3. CASE ~copied'
      <3>1. r \in Logical' <=> r \in wal.rows \/ (r \in main /\ Page[r] \notin wal.pages)
        <4>1. Logical' = Through(wal, main')
          BY <1>1, <2>3 DEF Logical
        <4> QED BY <2>1, <4>1, ThroughRows DEF DbOK
      <3>2. CASE copied
        <4>1. r \in wal.rows <=> r \in main /\ Page[r] \in wal.pages
          BY <3>2 DEF Coherent, Covered, DbOK, Logs
        <4> QED BY <3>1, <3>2, <4>1, LogicalRows
      <3>3. CASE ~copied
        BY <3>1, <3>3, LogicalRows
      <3> QED BY <3>2, <3>3
    <2> QED BY <1>1, <2>2, <2>3
  <1> QED BY <1>1, <1>2, <1>3, <1>4 DEF Shift

\* Everything that rows are kept in: the copies, and the database.
Copied ==
  (UNION {a.db : a \in archives})
    \cup (IF snapDb = NoArchive THEN {} ELSE snapDb)
    \cup (IF at[Operator] \in BackupPlaces THEN before.file ELSE {})
    \cup (IF at[Operator] \in DraftPlaces THEN draft.db ELSE {})
    \cup (IF at[Operator] \in RestorePlaces THEN source.db ELSE {})
Stored == main \cup wal.rows \cup (UNION seen) \cup Copied
Pending == {u \in Uploaders : at[u] \in {"staged", "published"}}

Fresh ==
  /\ Stored \cap Files \subseteq used
  /\ \A u \in Pending : mine[u] \in used /\ mine[u] \notin Stored
  /\ \A u, v \in Pending : mine[u] = mine[v] => u = v

\* What the main file held at the start and is current is in the file, in all that has been
\* read of it, and in the copy, unless that is torn.
Carried ==
  ~clobbered =>
    /\ at[Operator] \in BackupPlaces => before.file \cap Logical \cap Files \subseteq main
    /\ at[Operator] = "taringDb" => \A c \in seen : before.file \cap Logical \cap Files \subseteq c
    /\ at[Operator] \in {"taringUploads", "archived"} /\ Torn \notin draft.db =>
         before.file \cap Logical \cap Files \subseteq draft.db
Held == at[Operator] = "archived" => draft.db \cap uploads \subseteq draft.uploads

FreshInv == TypeInv /\ Coherent /\ Fresh /\ Carried /\ Held

LEMMA CopiedKept ==
  ASSUME UNCHANGED operatorVars, at'[Operator] = at[Operator] PROVE Copied' = Copied
  BY DEF Copied

\* What a step may bring to the database was there, or is added.
LEMMA ShiftStored ==
  ASSUME NEW A, NEW D, Shift(A, D), NEW C, Copied' \subseteq C
  PROVE  Stored' \cap Rows \subseteq Stored \cup A \cup C
  <1>1. main' \cap Rows \subseteq main \cup wal.rows \cup A
    BY Constants DEF Shift
  <1>2. (UNION seen') \subseteq (UNION seen) \cup main' /\ wal'.rows \subseteq main \cup wal.rows \cup A
    BY DEF Shift
  <1> QED BY <1>1, <1>2 DEF Stored

LEMMA FreshKept ==
  ASSUME Fresh, FilesOK, Stored' \cap Files \subseteq Stored, used' = used,
         \A u \in Pending' : u \in Pending /\ mine'[u] = mine[u]
  PROVE  Fresh'
  <1>1. \A u \in Pending : mine[u] \in Files
    BY DEF FilesOK, Pending
  <1> QED BY <1>1 DEF Fresh

\* A step of another process adds at most what no backup has seen, the row of its own upload.
LEMMA OthersShift ==
  ASSUME FreshInv, NEW p \in Uploaders \cup Daemons,
         (p \in Uploaders /\ Upload(p)) \/ (p \in Daemons /\ Serve(p))
  PROVE  /\ UNCHANGED operatorVars /\ at'[Operator] = at[Operator]
         /\ \A q \in Processes : q # p => at'[q] = at[q]
         /\ \E A \in SUBSET Rows, D \in SUBSET {old[u] : u \in Uploaders} :
              /\ Shift(A, D) /\ Coherent'
              /\ \A f \in A \cap Files : /\ p \in Pending /\ p \notin Pending' /\ f = mine[p]
                                         /\ UNCHANGED <<mine, used, uploads>>
  <1>1. /\ DbOK /\ Coherent /\ ProcOK /\ FilesOK /\ Operator \in Processes
        /\ p \in Processes /\ p # Operator /\ ~(p \in Uploaders /\ p \in Daemons)
        /\ Marks \subseteq Rows /\ Files \subseteq Rows /\ Files \cap Marks = {}
    BY Constants, BackupAssumption DEF FreshInv, TypeInv, BackupAssumption
  <1>2. UNCHANGED operatorVars /\ (at' = at \/ \E x : Goto(p, x))
    BY DEF Upload, StartUpload, PublishFile, CommitUpload, EndUpload, AbortUpload, InterruptUpload,
       KillUpload, Leave, Serve, StartDaemon, CommitOther, StopDaemon, TerminateDaemon
  <1>3. at'[Operator] = at[Operator] /\ \A q \in Processes : q # p => at'[q] = at[q]
    BY <1>1, <1>2, Moved
  <1>4. ASSUME Shift({}, {}) /\ Coherent' PROVE
          \E A \in SUBSET Rows, D \in SUBSET {old[u] : u \in Uploaders} :
              /\ Shift(A, D) /\ Coherent'
              /\ \A f \in A \cap Files : /\ p \in Pending /\ p \notin Pending' /\ f = mine[p]
                                         /\ UNCHANGED <<mine, used, uploads>>
    <2> WITNESS {} \in SUBSET Rows, {} \in SUBSET {old[u] : u \in Uploaders}
    <2> QED BY <1>4
  <1>5. CASE p \in Uploaders /\ (StartUpload(p) \/ PublishFile(p))
    <2>1. UNCHANGED <<main, wal, copied, clobbered, seen>>
      BY <1>5 DEF StartUpload, PublishFile
    <2> QED BY <1>1, <1>2, <1>3, <1>4, <2>1, StillShifts
  <1>6. CASE p \in Uploaders /\ (EndUpload(p) \/ AbortUpload(p) \/ InterruptUpload(p))
    <2>1. Close(p) /\ UNCHANGED clobbered
      BY <1>6 DEF EndUpload, AbortUpload, InterruptUpload
    <2> QED BY <1>1, <1>2, <1>3, <1>4, <2>1, CloseShifts
  <1>7. CASE p \in Uploaders /\ KillUpload(p)
    <2>1. Vanish(p) /\ Noticed /\ UNCHANGED clobbered
      BY <1>7 DEF KillUpload
    <2> QED BY <1>1, <1>2, <1>3, <1>4, <2>1, VanishShifts
  <1>8. CASE p \in Uploaders /\ CommitUpload(p)
    <2>1. /\ CommitDb({mine[p]}, {old[p]}) /\ at[p] = "published" /\ Goto(p, "committed")
          /\ UNCHANGED <<mine, used, uploads, clobbered>>
      BY <1>8 DEF CommitUpload
    <2>2. mine[p] \in Files /\ at'[p] = "committed"
      BY <1>1, <1>8, <2>1, Moved DEF FilesOK
    <2>3. p \in Pending /\ p \notin Pending'
      BY <1>8, <2>1, <2>2 DEF Pending
    <2>4. Shift({mine[p]}, {old[p]}) /\ Coherent'
      BY <1>1, <2>1, <2>2, CommitShifts
    <2>5. {mine[p]} \in SUBSET Rows /\ {old[p]} \in SUBSET {old[u] : u \in Uploaders}
      BY <1>1, <1>8, <2>2
    <2> QED BY <1>2, <1>3, <2>1, <2>3, <2>4, <2>5
  <1>9. CASE p \in Daemons /\ StartDaemon(p)
    <2>1. UNCHANGED <<main, wal, copied, clobbered, seen>>
      BY <1>9 DEF StartDaemon
    <2> QED BY <1>1, <1>2, <1>3, <1>4, <2>1, StillShifts
  <1>10. CASE p \in Daemons /\ StopDaemon(p)
    BY <1>1, <1>2, <1>3, <1>4, <1>10, CloseShifts DEF StopDaemon
  <1>11. CASE p \in Daemons /\ TerminateDaemon(p)
    BY <1>1, <1>2, <1>3, <1>4, <1>11, VanishShifts DEF TerminateDaemon
  <1>12. CASE p \in Daemons /\ CommitOther(p)
    <2>1. PICK m \in Marks : CommitDb({m}, {}) /\ UNCHANGED clobbered
      BY <1>12 DEF CommitOther, CommitMark
    <2>2. Shift({m}, {}) /\ Coherent'
      BY <1>1, <2>1, CommitShifts
    <2>3. {m} \in SUBSET Rows /\ {m} \cap Files = {}
      BY <1>1, <2>1
    <2>4. {} \in SUBSET {old[u] : u \in Uploaders}
      OBVIOUS
    <2> QED BY <1>2, <1>3, <2>2, <2>3, <2>4
  <1> QED BY <1>5, <1>6, <1>7, <1>8, <1>9, <1>10, <1>11, <1>12 DEF Upload, Serve

LEMMA FreshOthers ==
  ASSUME FreshInv, NEW p \in Uploaders \cup Daemons,
         (p \in Uploaders /\ Upload(p)) \/ (p \in Daemons /\ Serve(p))
  PROVE  FreshInv'
  <1> USE DEF DraftPlaces
  <1>1. /\ FilesOK /\ ProcOK /\ Fresh /\ Carried /\ Held /\ Files \subseteq Rows
        /\ \A u \in Uploaders : u \in Processes /\ u \notin Daemons
        /\ p \in Processes /\ Operator \in Processes /\ p # Operator
    BY Constants DEF FreshInv, TypeInv
  <1>2. /\ UNCHANGED operatorVars /\ at'[Operator] = at[Operator]
        /\ \A q \in Processes : q # p => at'[q] = at[q]
    BY OthersShift
  <1>3. PICK A \in SUBSET Rows, D \in SUBSET {old[u] : u \in Uploaders} :
          /\ Shift(A, D) /\ Coherent'
          /\ \A f \in A \cap Files : /\ p \in Pending /\ p \notin Pending' /\ f = mine[p]
                                     /\ UNCHANGED <<mine, used, uploads>>
    BY OthersShift
  <1>4. Stored' \cap Files \subseteq Stored \cup (A \cap Files)
    <2>1. Copied' \subseteq Copied /\ Copied \subseteq Stored
      BY <1>2, CopiedKept DEF Stored
    <2>2. Stored' \cap Rows \subseteq Stored \cup A \cup Copied
      BY <1>3, <2>1, ShiftStored
    <2> QED BY <1>1, <2>1, <2>2
  <1>5. A \cap Files \cap Stored = {}
    BY <1>1, <1>3 DEF Fresh
  <1>6. \A v \in Pending' : v # p => v \in Pending
    BY <1>1, <1>2 DEF Pending
  <1>7. Fresh'
    <2>1. CASE p \in Uploaders /\ StartUpload(p)
      <3>1. p \notin Pending /\ at[p] = "idle"
        BY <2>1 DEF StartUpload, Free, Pending
      <3>2. Stored' \cap Files \subseteq Stored
        BY <1>3, <1>4, <3>1
      <3>3. PICK f \in Files \ used : mine' = [mine EXCEPT ![p] = f] /\ used' = used \cup {f}
        BY <2>1 DEF StartUpload
      <3>4. f \notin Stored /\ f \notin Stored'
        BY <1>1, <3>2, <3>3 DEF Fresh
      <3>5. mine'[p] = f /\ \A v \in Uploaders : v # p => mine'[v] = mine[v]
        BY <1>1, <2>1, <3>3 DEF FilesOK
      <3>6. \A v \in Pending : mine[v] \in Files
        BY <1>1 DEF FilesOK, Pending
      <3> QED BY <1>1, <1>6, <3>2, <3>3, <3>4, <3>5, <3>6 DEF Fresh, Pending
    <2>2. CASE A \cap Files # {}
      <3>1. p \in Pending /\ p \notin Pending' /\ A \cap Files = {mine[p]} /\ UNCHANGED <<mine, used>>
        BY <1>3, <2>2
      <3>2. mine[p] \in used /\ \A v \in Pending' : mine[v] # mine[p]
        BY <1>1, <1>6, <3>1 DEF Fresh
      <3>3. \A v \in Pending : mine[v] \in Files
        BY <1>1 DEF FilesOK, Pending
      <3> QED BY <1>1, <1>4, <1>6, <3>1, <3>2, <3>3 DEF Fresh
    <2>3. CASE A \cap Files = {} /\ ~(p \in Uploaders /\ StartUpload(p))
      <3>1. used' = used /\ (p \in Pending' => p \in Pending)
        BY <1>1, <2>3, Moved DEF Upload, PublishFile, CommitUpload, EndUpload, AbortUpload, InterruptUpload,
           KillUpload, Leave, Serve, StartDaemon, CommitOther, StopDaemon, TerminateDaemon, Pending
      <3>2. \A v \in Pending' : mine'[v] = mine[v]
        BY <1>1, <2>3, Moved DEF Upload, PublishFile, CommitUpload, EndUpload, AbortUpload, InterruptUpload,
           KillUpload, Leave, Serve, StartDaemon, CommitOther, StopDaemon, TerminateDaemon, Pending, FilesOK
      <3>3. Stored' \cap Files \subseteq Stored
        BY <1>4, <2>3
      <3> QED BY <1>1, <1>6, <3>1, <3>2, <3>3, FreshKept
    <2> QED BY <2>1, <2>2, <2>3
  <1>8. Carried'
    <2> SUFFICES ASSUME ~clobbered PROVE Carried'
      BY <1>2 DEF Carried
    <2>1. Logical' \cap Rows \subseteq Logical \cup A
      BY <1>3 DEF Shift
    <2>2. at[Operator] \in BackupPlaces => before.file \subseteq Stored
      BY DEF Stored, Copied
    <2>3. at[Operator] \in BackupPlaces =>
            before.file \cap Logical' \cap Files \subseteq before.file \cap Logical \cap Files
      BY <1>1, <1>5, <2>1, <2>2
    <2>4. at[Operator] \in BackupPlaces => before.file \cap Logical' \cap Files \subseteq main'
      <3>1. main' = Logical' \/ main' \cap Rows = main \cap Rows
        BY <1>3 DEF Shift
      <3> QED BY <1>1, <2>3, <3>1 DEF Carried
    <2>5. seen' \subseteq seen \cup {main'}
      BY <1>3 DEF Shift
    <2> QED BY <1>1, <1>2, <2>3, <2>4, <2>5 DEF Carried
  <1>9. Held'
    <2>1. \/ uploads' \subseteq uploads
          \/ p \in Pending /\ uploads' = uploads \cup {mine[p]}
      BY <1>1 DEF Upload, StartUpload, PublishFile, CommitUpload, EndUpload, AbortUpload, InterruptUpload,
         KillUpload, Serve, StartDaemon, CommitOther, StopDaemon, TerminateDaemon, Pending
    <2>2. at[Operator] = "archived" => draft.db \subseteq Stored
      BY DEF Stored, Copied
    <2> QED BY <1>1, <1>2, <2>1, <2>2 DEF Held, Fresh
  <1> QED BY <1>3, <1>7, <1>8, <1>9, TypeUpload, TypeServe DEF FreshInv

\* The operator's steps leave the uploads alone, so only the contents need a look.
LEMMA FreshOperator ==
  ASSUME FreshInv, TypeInv', NEW x, Goto(Operator, x), UNCHANGED uploaderVars,
         Stored' \cap Files \subseteq Stored, Coherent', Carried', Held'
  PROVE  FreshInv'
  <1>1. /\ Operator \in Processes /\ ProcOK /\ FilesOK
        /\ \A v \in Uploaders : v \in Processes /\ v # Operator
    BY Constants DEF FreshInv, TypeInv
  <1>2. \A u \in Pending' : u \in Pending /\ mine'[u] = mine[u]
    BY <1>1, Moved DEF Pending
  <1> QED BY <1>1, <1>2, FreshKept DEF FreshInv

\* Copies that come from what was stored.
LEMMA CopiedFrom ==
  ASSUME NEW C, Files \cap C \subseteq Stored,
         \A a \in archives' : a \in archives \/ a.db \subseteq C,
         snapDb' # NoArchive => snapDb' = snapDb \/ snapDb' \subseteq C,
         at'[Operator] \in BackupPlaces =>
           before'.file \subseteq C \/ (before' = before /\ at[Operator] \in BackupPlaces),
         at'[Operator] \in DraftPlaces =>
           draft'.db \subseteq C \/ (draft' = draft /\ at[Operator] \in DraftPlaces),
         at'[Operator] \in RestorePlaces =>
           source' \in archives \/ (source' = source /\ at[Operator] \in RestorePlaces)
  PROVE  Copied' \cap Files \subseteq Stored
  <1>1. Copied \subseteq Stored
    BY DEF Stored
  <1>2. \A a \in archives' : a.db \cap Files \subseteq Stored
    BY <1>1 DEF Copied
  <1>3. snapDb' # NoArchive => snapDb' \cap Files \subseteq Stored
    BY <1>1 DEF Copied
  <1>4. at'[Operator] \in BackupPlaces => before'.file \cap Files \subseteq Stored
    BY <1>1 DEF Copied
  <1>5. at'[Operator] \in DraftPlaces => draft'.db \cap Files \subseteq Stored
    BY <1>1 DEF Copied
  <1>6. at'[Operator] \in RestorePlaces => source'.db \cap Files \subseteq Stored
    BY <1>1 DEF Copied
  <1> QED BY <1>2, <1>3, <1>4, <1>5, <1>6 DEF Copied

LEMMA OnlyRead ==
  ASSUME FreshInv, UNCHANGED <<main, wal, copied, clobbered>>, seen' \subseteq seen \cup {main},
         Copied' \cap Files \subseteq Stored
  PROVE  Stored' \cap Files \subseteq Stored /\ Coherent' /\ Logical' = Logical
  <1>1. Shift({}, {}) /\ Coherent'
    BY StillShifts DEF FreshInv, TypeInv
  <1>2. Stored' \cap Rows \subseteq Stored \cup Copied'
    BY <1>1, ShiftStored
  <1> QED BY <1>1, <1>2, Constants DEF Logical

\* What has been read is torn, or a content that the file had.
LEMMA ReadFrom ==
  ASSUME NEW c \in Readings({Torn}) PROVE (Torn \in c /\ c \cap Files \subseteq Stored) \/ c \in seen
  <1>1. CASE c = {Torn}
    BY <1>1, Constants
  <1>2. CASE \E s \in seen : c = WithoutLog(s)
    <2>1. PICK s \in seen : c = WithoutLog(s)
      BY <1>2
    <2>2. s \subseteq Stored /\ Torn \notin Files
      BY Constants DEF Stored
    <2>3. CASE Blurred \in s
      BY <2>1, <2>2, <2>3 DEF WithoutLog
    <2>4. CASE Blurred \notin s
      BY <2>1, <2>4 DEF WithoutLog
    <2> QED BY <2>3, <2>4
  <1> QED BY <1>1, <1>2 DEF Readings

LEMMA FreshBackup ==
  ASSUME FreshInv, StartBackup \/ ListUploads \/ HashDb \/ TarDb \/ TarUploads PROVE FreshInv'
  <1> USE DEF DraftPlaces
  <1>1. /\ ProcOK /\ CopiesOK /\ Carried /\ Operator \in Processes
        /\ UNCHANGED <<main, wal, copied, uploads, uploaderVars, restoreVars>>
        /\ seen' \subseteq seen \cup {main}
        /\ main \subseteq Stored /\ Copied \subseteq Stored
    BY Constants DEF FreshInv, TypeInv, StartBackup, ListUploads, HashDb, TarDb, TarUploads, Stored
  <1>2. PICK x \in BackupPlaces : Goto(Operator, x) /\ at'[Operator] = x
    BY <1>1, Moved DEF StartBackup, ListUploads, HashDb, TarDb, TarUploads
  <1>3. TypeInv'
    BY TypeCreateBackup DEF CreateBackup, FreshInv
  <1>4. ASSUME Copied' \cap Files \subseteq Stored, Logical' = Logical => Carried', Held'
        PROVE  FreshInv'
    BY <1>1, <1>2, <1>3, <1>4, OnlyRead, FreshOperator
  <1>5. CASE StartBackup
    <2>1. at'[Operator] = "listing" /\ before'.file = main /\ UNCHANGED archives
      BY <1>1, <1>5, Moved DEF StartBackup, Observed
    <2>2. Copied' \cap Files \subseteq Stored
      BY <1>1, <2>1, CopiedFrom
    <2> QED BY <1>1, <1>4, <2>1, <2>2 DEF Carried, Held
  <1>6. CASE ListUploads
    <2>1. /\ at'[Operator] = "hashing" /\ at[Operator] = "listing" /\ UNCHANGED <<before, archives>>
          /\ draft'.db = {}
      BY <1>1, <1>6, Moved DEF ListUploads
    <2>2. Copied' \cap Files \subseteq Stored
      BY <1>1, <2>1, CopiedFrom
    <2> QED BY <1>1, <1>4, <2>1, <2>2 DEF Carried, Held
  <1>7. CASE HashDb
    <2>1. /\ at'[Operator] = "taringDb" /\ at[Operator] = "hashing" /\ UNCHANGED before
          /\ draft \in Archives /\ seen' = {main}
      BY <1>1, <1>7, Moved DEF HashDb, CopiesOK
    <2>2. draft'.db = draft.db /\ draft.db \subseteq Stored
      BY <1>1, <1>7, <2>1 DEF HashDb, Archives, Copied
    <2>3. \A a \in archives' : a \in archives \/ a = draft'
      BY <1>7 DEF HashDb
    <2>4. Copied' \cap Files \subseteq Stored
      BY <1>1, <2>1, <2>2, <2>3, CopiedFrom
    <2> QED BY <1>1, <1>4, <2>1, <2>4 DEF Carried, Held
  <1>8. CASE TarDb
    <2>1. /\ at'[Operator] = "taringUploads" /\ at[Operator] = "taringDb"
          /\ UNCHANGED <<before, archives>> /\ draft \in Archives
      BY <1>1, <1>8, Moved DEF TarDb, CopiesOK
    <2>2. PICK c \in Readings({Torn}) : draft'.db = c
      BY <1>8, <2>1 DEF TarDb, Archives
    <2>3. c \cap Files \subseteq Stored
      BY ReadFrom DEF Stored
    <2>4. Copied' \cap Files \subseteq Stored
      BY <1>1, <2>1, <2>2, <2>3, CopiedFrom
    <2> QED BY <1>1, <1>4, <2>1, <2>2, <2>4, ReadFrom DEF Carried, Held
  <1>9. CASE TarUploads
    <2>1. /\ at'[Operator] = "archived" /\ at[Operator] = "taringUploads"
          /\ UNCHANGED before /\ draft \in Archives
      BY <1>1, <1>9, Moved DEF TarUploads, CopiesOK
    <2>2. draft'.db = draft.db /\ draft'.uploads = uploads /\ draft.db \subseteq Stored
      BY <1>1, <1>9, <2>1 DEF TarUploads, Archives, Copied
    <2>3. \A a \in archives' : a \in archives \/ a = draft'
      BY <1>9 DEF TarUploads
    <2>4. Copied' \cap Files \subseteq Stored
      BY <1>1, <2>1, <2>2, <2>3, CopiedFrom
    <2> QED BY <1>1, <1>4, <2>1, <2>2, <2>4 DEF Carried, Held
  <1> QED BY <1>5, <1>6, <1>7, <1>8, <1>9

\* The end of a command changes rows of the other tables only.
LEMMA EndShift ==
  ASSUME FreshInv,
         RecordBackup \/ LogRestore \/ FailCommand \/ CloseOperator \/ KillOperator
  PROVE  \E A \in SUBSET Marks, D \in SUBSET {NoFile} : Shift(A, D) /\ Coherent'
  <1>1. DbOK /\ Coherent /\ Marks \subseteq Rows /\ UNCHANGED clobbered
    BY Constants DEF FreshInv, TypeInv, RecordBackup, LogRestore, FailCommand, CloseOperator,
       KillOperator
  <1>2. ASSUME Shift({}, {}), Coherent'
        PROVE  \E A \in SUBSET Marks, D \in SUBSET {NoFile} : Shift(A, D) /\ Coherent'
    <2> WITNESS {} \in SUBSET Marks, {} \in SUBSET {NoFile}
    <2> QED BY <1>2
  <1>3. CASE RecordBackup \/ LogRestore
    <2>1. PICK m \in Marks : CommitDb({m}, {})
      BY <1>3 DEF RecordBackup, LogRestore, CommitMark
    <2>2. Shift({m}, {}) /\ Coherent'
      BY <1>1, <2>1, CommitShifts
    <2>3. {m} \in SUBSET Marks /\ {} \in SUBSET {NoFile}
      BY <2>1
    <2> QED BY <2>2, <2>3
  <1>4. CASE FailCommand
    BY <1>1, <1>2, <1>4, StillShifts DEF FailCommand
  <1>5. CASE CloseOperator
    BY <1>1, <1>2, <1>5, CloseShifts DEF CloseOperator
  <1>6. CASE KillOperator
    BY <1>1, <1>2, <1>6, VanishShifts DEF KillOperator
  <1> QED BY <1>3, <1>4, <1>5, <1>6

LEMMA FreshEnd ==
  ASSUME FreshInv,
         RecordBackup \/ LogRestore \/ FailCommand \/ CloseOperator \/ KillOperator
  PROVE  FreshInv'
  <1> USE DEF DraftPlaces
  <1>1. /\ DbOK /\ ProcOK /\ Coherent /\ Operator \in Processes /\ Marks \cap Files = {} /\ Marks \subseteq Rows
        /\ UNCHANGED <<uploaderVars, archives, snapDb, clobbered>>
    BY Constants, BackupAssumption DEF FreshInv, TypeInv, RecordBackup, LogRestore, FailCommand, CloseOperator,
       KillOperator, BackupAssumption
  <1>2. PICK x \in {"closing", "idle"} : Goto(Operator, x) /\ at'[Operator] = x
    BY <1>1, Moved DEF RecordBackup, LogRestore, FailCommand, CloseOperator, KillOperator
  <1>3. TypeInv'
    BY TypeCreateBackup, TypeRestore, TypeEnd DEF CreateBackup, Restore, FreshInv
  <1>5. PICK A \in SUBSET Marks, D \in SUBSET {NoFile} : Shift(A, D) /\ Coherent'
    BY EndShift
  <1>6. Copied' \cap Files \subseteq Stored
    BY <1>1, <1>2, CopiedFrom
  <1>7. Stored' \cap Files \subseteq Stored
    <2>1. Stored' \cap Rows \subseteq Stored \cup A \cup Copied'
      BY <1>5, ShiftStored
    <2> QED BY <1>1, <1>6, <2>1, Constants
  <1>8. Carried' /\ Held'
    BY <1>2 DEF Carried, Held
  <1> QED BY <1>1, <1>2, <1>3, <1>5, <1>7, <1>8, FreshOperator

LEMMA FreshSnapshots ==
  ASSUME FreshInv, StartRestore \/ Verify \/ SnapshotDb \/ SnapshotUploads \/ DropSnapshots
  PROVE  FreshInv'
  <1> USE DEF DraftPlaces
  <1>1. /\ ProcOK /\ Operator \in Processes
        /\ UNCHANGED <<main, wal, copied, seen, uploaderVars, archives, clobbered>>
        /\ main \subseteq Stored /\ Torn \notin Files
        /\ snapDb' \in {snapDb, main, {Torn}, NoArchive}
        /\ source' \in archives \/ (source' = source /\ at[Operator] \in RestorePlaces)
    BY Constants DEF FreshInv, TypeInv, StartRestore, Verify, SnapshotDb, SnapshotUploads, DropSnapshots, Stored
  <1>2. PICK x \in {"verifying", "verified", "snapping", "snapped", "restored", "failed", "cut",
                    "closing"} : Goto(Operator, x) /\ at'[Operator] = x
    BY <1>1, Moved DEF StartRestore, Verify, SnapshotDb, SnapshotUploads, DropSnapshots
  <1>3. TypeInv'
    BY TypeRestore DEF Restore, FreshInv
  <1> DEFINE C == main \cup {Torn}
  <1>4. Copied' \cap Files \subseteq Stored
    <2>1. Files \cap C \subseteq Stored /\ (snapDb' # NoArchive => snapDb' = snapDb \/ snapDb' \subseteq C)
      BY <1>1
    <2> HIDE DEF C
    <2> QED BY <1>1, <1>2, <2>1, CopiedFrom
  <1>5. Stored' \cap Files \subseteq Stored /\ Coherent'
    BY <1>1, <1>4, OnlyRead
  <1>6. Carried' /\ Held'
    BY <1>2 DEF Carried, Held
  <1> QED BY <1>1, <1>2, <1>3, <1>5, <1>6, FreshOperator

LEMMA ClobberMeans ==
  ASSUME clobbered \in BOOLEAN, Clobber
  PROVE  (clobbered => clobbered') /\ (wal = EmptyLog \/ clobbered')
  BY DEF Clobber

\* The replacement and its undoing put in place what was stored, or a file that is no database;
\* beside a log this counts as clobbered.
LEMMA Overwritten ==
  ASSUME copied \in BOOLEAN, clobbered \in BOOLEAN,
         Replace \/ Undo \/ FailReplace \/ InterruptReplace \/ KillReplace
  PROVE  /\ main' \in {main, {Torn}, source.db, snapDb} /\ UNCHANGED <<wal, seen>>
         /\ UNCHANGED <<uploaderVars, archives, draft, source, snapDb, before>>
         /\ (copied' => copied) /\ (clobbered => clobbered')
         /\ main' = main \/ wal = EmptyLog \/ clobbered'
         /\ at[Operator] \in ReplacePlaces \cup UndoPlaces
  <1>1. CASE Replace \/ Undo
    <2>1. CASE \E from, content, to : /\ OverwriteDb(from, content, to) /\ content \in {source.db, snapDb}
                                      /\ from \in ReplacePlaces \cup UndoPlaces
      BY <2>1, ClobberMeans DEF OverwriteDb
    <2>2. CASE \E from, to : RemoveUploads(from, to) /\ from \in ReplacePlaces \cup UndoPlaces
      BY <2>2 DEF RemoveUploads
    <2>3. CASE \E from, content, to, onError :
            FillUploads(from, content, to, onError) /\ from \in ReplacePlaces \cup UndoPlaces
      BY <2>3 DEF FillUploads
    <2> QED BY <1>1, <2>1, <2>2, <2>3 DEF Replace, Undo
  <1>2. CASE FailReplace \/ InterruptReplace \/ KillReplace
    <2>1. /\ Damage \/ UNCHANGED <<main, wal, seen, directory, clobbered>>
          /\ UNCHANGED unhurt /\ (copied' => copied)
          /\ at[Operator] \in ReplacePlaces \cup UndoPlaces
      BY <1>2 DEF FailReplace, InterruptReplace, KillReplace
    <2>2. CASE UNCHANGED <<main, wal, seen, directory, clobbered>>
      BY <2>1, <2>2
    <2>3. CASE Damage
      <3>1. /\ main' \in {main, {Torn}, source.db, snapDb} /\ UNCHANGED <<wal, seen>>
            /\ Clobber \/ UNCHANGED <<main, clobbered>>
        BY <2>3 DEF Damage
      <3>2. (clobbered => clobbered') /\ (main' = main \/ wal = EmptyLog \/ clobbered')
        BY <3>1, ClobberMeans
      <3> QED BY <2>1, <3>1, <3>2
    <2> QED BY <2>1, <2>2, <2>3
  <1> QED BY <1>1, <1>2

LEMMA FreshReplace ==
  ASSUME FreshInv, Replace \/ Undo \/ FailReplace \/ InterruptReplace \/ KillReplace
  PROVE  FreshInv'
  <1> USE DEF DraftPlaces
  <1>1. /\ ProcOK /\ CopiesOK /\ Coherent /\ Operator \in Processes
        /\ main' \in {main, {Torn}, source.db, snapDb} /\ UNCHANGED <<wal, seen>>
        /\ UNCHANGED <<uploaderVars, archives, draft, source, snapDb, before>>
        /\ (copied' => copied) /\ (clobbered => clobbered')
        /\ main' = main \/ wal = EmptyLog \/ clobbered'
        /\ at[Operator] \in ReplacePlaces \cup UndoPlaces
    BY Constants, Overwritten DEF FreshInv, TypeInv, DbOK, CopiesOK
  <1>2. PICK x \in {"removing", "filling", "dropping", "undoDb", "undoRemove", "undoFill",
                    "dropFailed", "dropCut", "halted"} : Goto(Operator, x) /\ at'[Operator] = x
    BY <1>1, Moved DEF Replace, Undo, OverwriteDb, RemoveUploads, FillUploads, FailReplace,
       InterruptReplace, KillReplace
  <1>3. TypeInv'
    BY TypeRestore DEF Restore, FreshInv
  <1>4. main' \cap Files \subseteq Stored
    <2>1. source.db \subseteq Stored /\ main \subseteq Stored /\ Torn \notin Files
      BY <1>1, Constants DEF Stored, Copied
    <2>2. snapDb \subseteq Content /\ snapDb # NoArchive
      BY <1>1, BackupAssumption DEF CopiesOK, SnappedPlaces, BackupAssumption
    <2>3. snapDb \subseteq Stored
      BY <2>2 DEF Stored, Copied
    <2> QED BY <1>1, <2>1, <2>3
  <1>5. Copied' \cap Files \subseteq Stored
    BY <1>1, <1>2, CopiedFrom
  <1>6. Stored' \cap Files \subseteq Stored
    <2>1. wal.rows \subseteq Stored /\ (UNION seen) \subseteq Stored
      BY DEF Stored
    <2>2. Stored' = main' \cup wal.rows \cup (UNION seen) \cup Copied'
      BY <1>1 DEF Stored
    <2> QED BY <1>4, <1>5, <2>1, <2>2
  <1>7. Coherent'
    BY <1>1, EmptyTyped DEF Coherent, Covered
  <1>8. Carried' /\ Held'
    BY <1>2 DEF Carried, Held
  <1> QED BY <1>1, <1>2, <1>3, <1>6, <1>7, <1>8, FreshOperator

LEMMA FreshInit == ASSUME Init PROVE FreshInv
  <1>1. at[Operator] = "idle" /\ Pending = {}
    BY Constants DEF Init, Pending
  <1>2. Stored = {}
    BY <1>1, EmptyTyped DEF Init, Stored, Copied, DraftPlaces
  <1>3. Coherent
    BY EmptyTyped DEF Init, Coherent, Covered
  <1>4. Fresh /\ Carried /\ Held
    BY <1>1, <1>2 DEF Fresh, Carried, Held
  <1> QED BY <1>3, <1>4, TypeInit DEF FreshInv

LEMMA FreshNext ==
  ASSUME FreshInv, [Next]_vars PROVE FreshInv'
  <1>1. CASE UNCHANGED vars
    <2>1. TypeInv'
      BY <1>1, TypeNext DEF FreshInv
    <2>2. Stored' = Stored /\ Pending' = Pending /\ Logical' = Logical
      BY <1>1 DEF Stored, Copied, Pending, Logical, vars
    <2>3. Coherent' /\ Fresh' /\ Carried' /\ Held'
      BY <1>1, <2>2 DEF FreshInv, Coherent, Covered, Fresh, Carried, Held, vars
    <2> QED BY <2>1, <2>3 DEF FreshInv
  <1>2. CASE CreateBackup
    BY <1>2, FreshBackup, FreshEnd DEF CreateBackup
  <1>3. CASE Restore
    BY <1>3, FreshSnapshots, FreshReplace, FreshEnd DEF Restore
  <1> QED BY <1>1, <1>2, <1>3, FreshOthers, FreshEnd DEF Next

LEMMA FreshHolds == Spec => []FreshInv
  BY FreshInit, FreshNext, PTL DEF Spec

\* Whatever overlaps, is killed or fails, replacements and earlier restores included: a copy of
\* the database that is of one moment holds what the main file held when the backup began and
\* is still current.
THEOREM BackupHoldsCheckpointed == Spec => []CheckpointedInBackup
  <1>1. FreshInv => CheckpointedInBackup
    BY DEF FreshInv, Carried, CheckpointedInBackup
  <1> QED BY <1>1, FreshHolds, PTL

\* Under the same conditions an archive lacks only files that are gone from uploads/ too.
THEOREM ArchiveLacksOnlyGone == Spec => []LackExplained
  <1>1. FreshInv => LackExplained
    BY DEF FreshInv, Held, LackExplained
  <1> QED BY <1>1, FreshHolds, PTL

-----------------------------------------------------------------------------
(***************************************************************************)
(* While nothing is replaced, a document once in the file stays current.   *)
(***************************************************************************)
Unreplaced == \A u \in Uploaders : old[u] = NoFile
Gathered ==
  ~clobbered =>
    /\ main \cap Files \subseteq Logical
    /\ at[Operator] \in {"hashing", "taringDb"} => \A c \in seen : c \cap Files \subseteq Logical
    /\ at[Operator] \in {"taringUploads", "archived"} => draft.db \cap Files \subseteq Logical
GrowInv == FreshInv /\ Unreplaced /\ Gathered

LEMMA GrowOthers ==
  ASSUME GrowInv, ~Replacing, NEW p \in Uploaders \cup Daemons,
         (p \in Uploaders /\ Upload(p)) \/ (p \in Daemons /\ Serve(p))
  PROVE  Unreplaced' /\ Gathered'
  <1>1. UNCHANGED operatorVars /\ at'[Operator] = at[Operator]
    BY OthersShift DEF GrowInv
  <1>2. PICK A \in SUBSET Rows, D \in SUBSET {old[u] : u \in Uploaders} : Shift(A, D)
    BY OthersShift DEF GrowInv
  <1>3. D \cap Files = {} /\ Files \subseteq Rows
    BY <1>2, Constants DEF GrowInv, Unreplaced
  <1>4. Unreplaced'
    <2>1. old \in [Uploaders -> Files \cup {NoFile}]
      BY DEF GrowInv, FreshInv, TypeInv, FilesOK
    <2>2. old' = old \/ (p \in Uploaders /\ old' = [old EXCEPT ![p] = NoFile])
      BY DEF Upload, StartUpload, PublishFile, CommitUpload, EndUpload, AbortUpload, InterruptUpload,
         KillUpload, Leave, Serve, StartDaemon, CommitOther, StopDaemon, TerminateDaemon
    <2> QED BY <2>1, <2>2 DEF GrowInv, Unreplaced
  <1>5. ~clobbered => Logical \cap Files \subseteq Logical' /\ main' \cap Files \subseteq Logical'
    <2> SUFFICES ASSUME ~clobbered
                 PROVE  Logical \cap Files \subseteq Logical' /\ main' \cap Files \subseteq Logical'
      OBVIOUS
    <2>1. Logical \cap Files \subseteq Logical'
      BY <1>2, <1>3 DEF Shift
    <2>2. main' = Logical' \/ main' \cap Rows = main \cap Rows
      BY <1>2 DEF Shift
    <2> QED BY <1>3, <2>1, <2>2 DEF GrowInv, Gathered
  <1>6. seen' \subseteq seen \cup {main'}
    BY <1>2 DEF Shift
  <1>7. Gathered'
    BY <1>1, <1>5, <1>6 DEF GrowInv, Gathered
  <1> QED BY <1>4, <1>7

LEMMA GrowBackup ==
  ASSUME GrowInv, StartBackup \/ ListUploads \/ HashDb \/ TarDb \/ TarUploads
  PROVE  Unreplaced' /\ Gathered'
  <1> USE DEF DraftPlaces
  <1>1. /\ ProcOK /\ CopiesOK /\ Operator \in Processes /\ Unreplaced /\ Gathered
        /\ UNCHANGED <<main, old, clobbered>> /\ Logical' = Logical
    BY Constants DEF GrowInv, FreshInv, TypeInv, StartBackup, ListUploads, HashDb, TarDb, TarUploads, Logical
  <1>2. Unreplaced'
    BY <1>1 DEF Unreplaced
  <1>3. CASE StartBackup \/ ListUploads \/ HashDb
    <2>1. at'[Operator] = "listing" \/ (at'[Operator] \in {"hashing", "taringDb"} /\ seen' = {main})
      BY <1>1, <1>3, Moved DEF StartBackup, ListUploads, HashDb
    <2> QED BY <1>1, <1>2, <2>1 DEF Gathered
  <1>4. CASE TarDb
    <2>1. /\ at'[Operator] = "taringUploads" /\ at[Operator] = "taringDb" /\ draft \in Archives
      BY <1>1, <1>4, Moved DEF TarDb, CopiesOK
    <2>2. PICK c \in Readings({Torn}) : draft'.db = c
      BY <1>4, <2>1 DEF TarDb, Archives
    <2>3. c \cap Files = {} \/ \E s \in seen : c \cap Files \subseteq s
      BY Constants DEF Readings, WithoutLog
    <2> QED BY <1>1, <1>2, <2>1, <2>2, <2>3 DEF Gathered
  <1>5. CASE TarUploads
    <2>1. /\ at'[Operator] = "archived" /\ at[Operator] = "taringUploads" /\ draft \in Archives
      BY <1>1, <1>5, Moved DEF TarUploads, CopiesOK
    <2>2. draft'.db = draft.db
      BY <1>5, <2>1 DEF TarUploads, Archives
    <2> QED BY <1>1, <1>2, <2>1, <2>2 DEF Gathered
  <1> QED BY <1>3, <1>4, <1>5

LEMMA GrowEnd ==
  ASSUME GrowInv, RecordBackup \/ LogRestore \/ FailCommand \/ CloseOperator \/ KillOperator
  PROVE  Unreplaced' /\ Gathered'
  <1>1. /\ ProcOK /\ Operator \in Processes /\ Unreplaced /\ Gathered /\ UNCHANGED <<old, clobbered>>
    BY Constants DEF GrowInv, FreshInv, TypeInv, RecordBackup, LogRestore, FailCommand, CloseOperator,
       KillOperator
  <1>2. at'[Operator] \in {"closing", "idle"}
    BY <1>1, Moved DEF RecordBackup, LogRestore, FailCommand, CloseOperator, KillOperator
  <1>3. PICK A \in SUBSET Marks, D \in SUBSET {NoFile} : Shift(A, D)
    BY EndShift DEF GrowInv
  <1>4. ~clobbered => main' \cap Files \subseteq Logical'
    <2>1. D \cap Files = {} /\ Files \subseteq Rows
      BY <1>3, Constants
    <2> QED BY <1>1, <1>3, <2>1 DEF Shift, Gathered
  <1> QED BY <1>1, <1>2, <1>4 DEF Unreplaced, Gathered

LEMMA GrowRestore ==
  ASSUME GrowInv,
         \/ StartRestore \/ Verify \/ SnapshotDb \/ SnapshotUploads \/ DropSnapshots
         \/ Replace \/ Undo \/ FailReplace \/ InterruptReplace \/ KillReplace
  PROVE  Unreplaced' /\ Gathered'
  <1>1. /\ DbOK /\ ProcOK /\ Coherent /\ Operator \in Processes /\ Unreplaced /\ Gathered
        /\ copied \in BOOLEAN /\ clobbered \in BOOLEAN
    BY Constants DEF GrowInv, FreshInv, TypeInv, DbOK, CopiesOK
  <1>2. UNCHANGED <<wal, old>>
    BY Overwritten, <1>1 DEF StartRestore, Verify, SnapshotDb, SnapshotUploads, DropSnapshots
  <1>3. at'[Operator] \notin BackupPlaces
    BY <1>1, Moved DEF StartRestore, Verify, SnapshotDb, SnapshotUploads, DropSnapshots, Replace,
       Undo, OverwriteDb, RemoveUploads, FillUploads, FailReplace, InterruptReplace, KillReplace
  <1>4. /\ copied' => copied
        /\ clobbered => clobbered'
        /\ main' = main \/ wal = EmptyLog \/ clobbered'
        /\ copied' \in BOOLEAN
    <2>1. copied' \in BOOLEAN
      BY TypeRestore DEF Restore, GrowInv, FreshInv, TypeInv, DbOK
    <2> QED BY <1>1, <2>1, Overwritten DEF StartRestore, Verify, SnapshotDb, SnapshotUploads, DropSnapshots
  <1>5. ASSUME ~clobbered' PROVE main' \cap Files \subseteq Logical'
    <2>1. CASE wal = EmptyLog
      BY <1>2, <2>1 DEF Logical, Through
    <2>2. CASE main' = main /\ (copied <=> copied')
      <3>1. Logical' = Logical
        BY <1>1, <1>2, <1>4, <2>2 DEF Logical
      <3> QED BY <1>1, <1>4, <1>5, <2>2, <3>1 DEF Gathered
    <2>3. CASE main' = main /\ copied /\ ~copied'
      <3>1. Logical' = Through(wal, main)
        BY <1>2, <2>3 DEF Logical
      <3>2. \A r \in Rows : r \in main => r \in wal.rows \/ Page[r] \notin wal.pages
        BY <1>1, <1>4, <1>5, <2>3 DEF Coherent, Covered
      <3> QED BY <1>1, <2>3, <3>1, <3>2, ThroughRows, Constants DEF DbOK
    <2> QED BY <1>4, <1>5, <2>1, <2>2, <2>3
  <1> QED BY <1>1, <1>2, <1>3, <1>5 DEF Unreplaced, Gathered

LEMMA GrowNext ==
  ASSUME GrowInv, ~Replacing, [Next]_vars PROVE GrowInv'
  <1>1. FreshInv'
    BY FreshNext DEF GrowInv
  <1>2. CASE UNCHANGED vars
    BY <1>1, <1>2 DEF GrowInv, Unreplaced, Gathered, Logical, vars
  <1>3. CASE CreateBackup
    BY <1>1, <1>3, GrowBackup, GrowEnd DEF CreateBackup, GrowInv
  <1>4. CASE Restore
    BY <1>1, <1>4, GrowRestore, GrowEnd DEF Restore, GrowInv
  <1>5. CASE FailCommand \/ CloseOperator \/ KillOperator
    BY <1>1, <1>5, GrowEnd DEF GrowInv
  <1>6. CASE (\E u \in Uploaders : Upload(u)) \/ (\E d \in Daemons : Serve(d))
    BY <1>1, <1>6, GrowOthers DEF GrowInv
  <1> QED BY <1>2, <1>3, <1>4, <1>5, <1>6 DEF Next

\* Without replacements, an archive of running services that passes the verification holds the
\* files of all the documents of its database, if the active data is sound: what it has read
\* of the database is still current, so what it lacks is gone.
THEOREM GrowingArchiveSelfContained ==
  ASSUME ~Replacing PROVE Spec => []ArchiveSelfContained
  <1>1. Init => GrowInv
    <2> SUFFICES ASSUME Init PROVE GrowInv
      OBVIOUS
    <2>1. at[Operator] = "idle" /\ Logical = main
      BY Constants DEF Init, Logical
    <2> QED BY <2>1, FreshInit DEF Init, GrowInv, Unreplaced, Gathered
  <1>2. GrowInv => ArchiveSelfContained
    BY DEF GrowInv, FreshInv, Held, Gathered, ArchiveSelfContained
  <1> QED BY <1>1, <1>2, GrowNext, PTL DEF Spec
=============================================================================
