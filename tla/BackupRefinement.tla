-------------------------- MODULE BackupRefinement --------------------------
(***************************************************************************)
(* Backup and restore that run alone implement AtomicBackup, for any       *)
(* number of documents, uploaders, daemons and faults.                     *)
(***************************************************************************)
EXTENDS BackupProofs

USE DEF database, directory, uploaderVars, backupVars, restoreVars, operatorVars, unhurt,
        BackupPlaces, RestorePlaces, ReplacePlaces, UndoPlaces

Shown == <<ActiveData, WholeArchives, Task, faults>>
Step == Atomic!AtomicNext \/ UNCHANGED Shown
Directories == [db : SUBSET Content, file : SUBSET Content, clean : BOOLEAN, uploads : SUBSET Files]
Copy(a) == [db |-> a.db, uploads |-> a.uploads]

-----------------------------------------------------------------------------
(***************************************************************************)
(* What a step of the code has to show to be a step of the promise.        *)
(***************************************************************************)
LEMMA IsWork ==
  ASSUME Task = "none", Task' = "none", ActiveData' \in Directories,
         WholeArchives' = WholeArchives, faults' = faults \/ Fault
  PROVE  Step
  BY DEF Step, Atomic!AtomicNext, Atomic!Work, Atomic!Fault, Fault, Directories

LEMMA IsGiveUp ==
  ASSUME Task' = "none", ActiveData' = ActiveData, WholeArchives' = WholeArchives,
         Fault \/ (Task = "undo" /\ faults' = faults)
  PROVE  Step
  BY DEF Step, Atomic!AtomicNext, Atomic!GiveUp, Atomic!Fault, Fault

LEMMA IsStumble ==
  ASSUME Task = "restore", Task' = "undo", ActiveData' = ActiveData,
         WholeArchives' = WholeArchives, Fault
  PROVE  Step
  BY DEF Step, Atomic!AtomicNext, Atomic!Stumble, Atomic!Fault, Fault

LEMMA IsWreck ==
  ASSUME Task = "undo" \/ (Operator \in Killable /\ Task = "restore"), Task' = "none",
         ActiveData' \in Directories, WholeArchives' = WholeArchives, Fault
  PROVE  Step
  BY DEF Step, Atomic!AtomicNext, Atomic!Wreck, Atomic!Fault, Fault, Directories

LEMMA IsReplace ==
  ASSUME Task = "restore", Task' = "none", ActiveData' \in Directories,
         NEW a \in archives, a.whole, ActiveData'.file = a.db, ActiveData'.uploads = a.uploads,
         ActiveData'.clean = ActiveData.clean, ActiveData.clean => ActiveData'.db = a.db,
         WholeArchives' = WholeArchives, faults' = faults
  PROVE  Step
  <1>1. Copy(a) \in WholeArchives /\ Copy(a).db = a.db /\ Copy(a).uploads = a.uploads
    BY DEF WholeArchives, Copy
  <1>2. \E c \in WholeArchives : ActiveData'.file = c.db /\ ActiveData'.uploads = c.uploads
    BY <1>1
  <1> QED BY <1>2 DEF Step, Atomic!AtomicNext, Atomic!Replace, Directories

LEMMA IsWrite ==
  ASSUME Task = "backup", Task' = "none", ActiveData' = ActiveData, faults' = faults,
         WholeArchives' = WholeArchives
           \cup {[db |-> ActiveData.file, uploads |-> ActiveData.uploads]}
  PROVE  Step
  BY DEF Step, Atomic!AtomicNext, Atomic!WriteArchive

LEMMA IsReuse ==
  ASSUME Task = "backup", Task' = "backup", ActiveData' = ActiveData, faults' = faults,
         NEW c \in WholeArchives, c.db = ActiveData.file, WholeArchives' = WholeArchives \ {c}
  PROVE  Step
  BY DEF Step, Atomic!AtomicNext, Atomic!Reuse

LEMMA IsStutter ==
  ASSUME Task' = Task, ActiveData' = ActiveData, WholeArchives' = WholeArchives, faults' = faults
  PROVE  Step
  BY DEF Step, Shown

-----------------------------------------------------------------------------
(***************************************************************************)
(* What counts as the data, before and after a step.                       *)
(***************************************************************************)
LEMMA InDirectories ==
  ASSUME TypeInv', at'[Operator] \notin HalfPlaces PROVE ActiveData' \in Directories
  <1>1. ActiveData' = View(Logical', main', wal', uploads')
    BY DEF ActiveData
  <1>2. Logical' \subseteq Content
    BY ThroughTyped DEF TypeInv, DbOK, Logical
  <1>3. WithoutLog(main') \subseteq Content /\ uploads' \subseteq Files
    BY DEF TypeInv, DbOK, DirOK, WithoutLog, Content
  <1> QED BY <1>1, <1>2, <1>3 DEF View, Directories

LEMMA DataKept ==
  ASSUME at[Operator] \notin HalfPlaces, at'[Operator] \notin HalfPlaces, Logical' = Logical,
         UNCHANGED <<main, wal, uploads>>
  PROVE  ActiveData' = ActiveData
  BY DEF ActiveData, View, WithoutLog

\* Around the steps of a replacement, what counts is what the restore has found.
LEMMA FoundData ==
  ASSUME QuietInv, at[Operator] \in ReplacePlaces \cup UndoPlaces
  PROVE  ActiveData = View(before.db, before.file, before.log, before.uploads)
  BY QuietLogical DEF QuietInv, Noted, ActiveData, HalfPlaces, UntouchedPlaces

LEMMA OperatorAt ==
  ASSUME QuietInv, NEW x, Goto(Operator, x) PROVE at'[Operator] = x
  BY Moved, Constants DEF QuietInv, TypeInv

-----------------------------------------------------------------------------
LEMMA ShowOthers ==
  ASSUME QuietInv, Quiet, QuietInv', NEW p \in Uploaders \cup Daemons,
         (p \in Uploaders /\ Upload(p)) \/ (p \in Daemons /\ Serve(p))
  PROVE  Step
  <1>1. p \in Processes /\ p # Operator /\ ProcOK
    BY Constants DEF QuietInv, TypeInv
  <1>2. /\ UNCHANGED operatorVars /\ (faults' = faults \/ Fault)
        /\ Free(p) \/ at[p] # "idle"
        /\ at' = at \/ \E x : Goto(p, x)
    BY Constants DEF Upload, StartUpload, PublishFile, CommitUpload, EndUpload, AbortUpload, InterruptUpload,
       KillUpload, Leave, Serve, StartDaemon, CommitOther, StopDaemon, TerminateDaemon
  <1>3. at[Operator] \in Resting /\ at'[Operator] = at[Operator]
    BY <1>1, <1>2, OthersAlone, Moved, Constants
  <1>4. ActiveData' \in Directories
    BY <1>3, InDirectories DEF HalfPlaces, Resting, QuietInv
  <1>5. Task = "none" /\ Task' = "none" /\ WholeArchives' = WholeArchives
    BY <1>2, <1>3 DEF Task, WholeArchives, Resting
  <1> QED BY <1>2, <1>4, <1>5, IsWork

\* Both commands begin without an effect.
LEMMA ShowStart ==
  ASSUME QuietInv, QuietInv', StartBackup \/ StartRestore PROVE Step
  <1>1. /\ UNCHANGED <<database, uploads, archives, faults>> /\ at[Operator] \in Resting
        /\ Task = "none" /\ WholeArchives' = WholeArchives
    BY DEF StartBackup, StartRestore, Idle, Resting, Task, WholeArchives
  <1>2. PICK x \in {"listing", "verifying"} :
          /\ Goto(Operator, x)
          /\ x = "verifying" => source' \in archives
    BY DEF StartBackup, StartRestore
  <1>3. at'[Operator] = x
    BY <1>2, OperatorAt
  <1>4. ActiveData' = ActiveData
    BY <1>1, <1>3, DataKept DEF HalfPlaces, Resting, Logical
  <1>5. CASE x = "verifying" /\ ~source'.whole
    BY <1>1, <1>3, <1>4, <1>5, IsStutter DEF Task
  <1>6. CASE x = "verifying" /\ source'.whole
    <2>1. Copy(source') \in WholeArchives
      BY <1>2, <1>6 DEF WholeArchives, Copy
    <2>2. Task' = "restore"
      BY <1>3, <1>6 DEF Task
    <2> QED BY <1>1, <1>4, <2>1, <2>2 DEF Step, Atomic!AtomicNext, Atomic!Begin
  <1>7. CASE x = "listing"
    <2>1. Task' = "backup"
      BY <1>3, <1>7 DEF Task
    <2> QED BY <1>1, <1>4, <2>1 DEF Step, Atomic!AtomicNext, Atomic!Begin
  <1> QED BY <1>2, <1>5, <1>6, <1>7

\* A backup empties an archive of the same database file, and writes its own in the end.
LEMMA ShowBackup ==
  ASSUME QuietInv, QuietInv', ListUploads \/ HashDb \/ TarDb \/ TarUploads PROVE Step
  <1>1. /\ CopiesOK /\ Drafted /\ Verified
        /\ UNCHANGED <<main, wal, copied, uploads, faults>>
        /\ at[Operator] \in BackupPlaces \ {"archived"} /\ Task = "backup"
    BY DEF QuietInv, TypeInv, ListUploads, HashDb, TarDb, TarUploads, Task
  <1>2. PICK x \in BackupPlaces : Goto(Operator, x)
    BY DEF ListUploads, HashDb, TarDb, TarUploads
  <1>3. at'[Operator] = x
    BY <1>2, OperatorAt
  <1>4. ActiveData' = ActiveData
    BY <1>1, <1>3, DataKept DEF HalfPlaces, Logical
  <1>5. ActiveData.file = WithoutLog(main) /\ ActiveData.uploads = uploads
    BY <1>1 DEF ActiveData, View, HalfPlaces
  <1>6. CASE ListUploads \/ TarDb
    <2>1. x \in {"hashing", "taringUploads"} /\ WholeArchives' = WholeArchives
      BY <1>3, <1>6, OperatorAt DEF ListUploads, TarDb, WholeArchives
    <2> QED BY <1>1, <1>3, <1>4, <2>1, IsStutter DEF Task
  <1>7. CASE HashDb
    <2>1. x = "taringDb" /\ draft \in Archives /\ ~draft.whole
      BY <1>1, <1>3, <1>7, OperatorAt DEF HashDb, CopiesOK, Drafted, DraftPlaces
    <2>2. Task' = "backup"
      BY <1>3, <2>1 DEF Task
    <2>3. ~draft'.whole
      BY <1>7, <2>1 DEF HashDb, Archives
    <2>4. draft'.checksum = WithoutLog(main)
      BY <1>1, <1>3, <2>1 DEF QuietInv, Drafted
    <2>5. PICK same \in {{}} \cup {{a} : a \in {b \in archives : b.checksum = draft'.checksum}} :
            archives' = (archives \ same) \cup {draft'}
      BY <1>7 DEF HashDb
    <2>6. {b \in archives' : b.whole} = {b \in archives : b.whole} \ same
      BY <2>3, <2>5
    <2>7. CASE \A b \in same : ~b.whole
      <3>1. {b \in archives' : b.whole} = {b \in archives : b.whole}
        BY <2>6, <2>7
      <3>2. WholeArchives' = WholeArchives
        BY <3>1 DEF WholeArchives
      <3> QED BY <1>1, <1>4, <2>2, <3>2, IsStutter
    <2>8. CASE \E b \in same : b.whole
      <3>1. PICK b \in archives : b.whole /\ same = {b} /\ b.checksum = draft'.checksum
        BY <2>8
      <3>2. Copy(b) \in WholeArchives /\ Copy(b).db = ActiveData.file
        BY <1>1, <1>5, <2>4, <3>1 DEF Verified, Verifies, WholeArchives, Copy
      <3>3. \A c \in WholeArchives : c = Copy(b) \/ c \in WholeArchives'
        BY <2>6, <3>1 DEF WholeArchives, Copy
      <3>4. WholeArchives' \subseteq WholeArchives
        BY <2>6 DEF WholeArchives
      <3>5. CASE Copy(b) \in WholeArchives'
        <4>1. WholeArchives' = WholeArchives
          BY <3>3, <3>4, <3>5
        <4> QED BY <1>1, <1>4, <2>2, <4>1, IsStutter
      <3>6. CASE Copy(b) \notin WholeArchives'
        <4>1. WholeArchives' = WholeArchives \ {Copy(b)}
          BY <3>3, <3>4, <3>6
        <4> QED BY <1>1, <1>4, <2>2, <3>2, <4>1, IsReuse
      <3> QED BY <3>5, <3>6
    <2> QED BY <2>7, <2>8
  <1>8. CASE TarUploads
    <2>1. x = "archived" /\ draft \in Archives /\ draft.db = WithoutLog(main) /\ ~draft.whole
      BY <1>1, <1>3, <1>8, OperatorAt DEF TarUploads, CopiesOK, Drafted, DraftPlaces
    <2>2. Task' = "none"
      BY <1>3, <2>1 DEF Task
    <2>3. draft'.whole /\ Copy(draft') = [db |-> ActiveData.file, uploads |-> ActiveData.uploads]
      BY <1>5, <1>8, <2>1 DEF TarUploads, Archives, Copy
    <2>4. ~HalfWritten(draft).whole
      BY <2>1 DEF HalfWritten, Archives
    <2>5. {b \in archives' : b.whole} = {b \in archives : b.whole} \cup {draft'}
      BY <1>8, <2>3, <2>4 DEF TarUploads
    <2>6. WholeArchives' = WholeArchives \cup {Copy(draft')}
      BY <2>5 DEF WholeArchives, Copy
    <2> QED BY <1>1, <1>4, <2>2, <2>3, <2>6, IsWrite
  <1> QED BY <1>6, <1>7, <1>8

\* A command that is over, or that ends early.
LEMMA ShowEnd ==
  ASSUME QuietInv, QuietInv',
         RecordBackup \/ LogRestore \/ FailCommand \/ CloseOperator \/ KillOperator
  PROVE  Step
  <1>1. WholeArchives' = WholeArchives /\ (faults' = faults \/ Fault) /\ at[Operator] \notin HalfPlaces
    BY DEF RecordBackup, LogRestore, FailCommand, CloseOperator, KillOperator, WholeArchives,
       HalfPlaces
  <1>2. PICK x \in {"closing", "idle"} : Goto(Operator, x)
    BY DEF RecordBackup, LogRestore, FailCommand, CloseOperator, KillOperator
  <1>3. at'[Operator] = x /\ Task' = "none" /\ at'[Operator] \notin HalfPlaces
    BY <1>2, OperatorAt DEF Task, HalfPlaces
  <1>4. CASE Task = "none"
    BY <1>1, <1>3, <1>4, InDirectories, IsWork DEF QuietInv
  <1>5. CASE Task # "none"
    <2>1. /\ at[Operator] \in (BackupPlaces \ {"archived"}) \cup {"verifying", "verified", "snapping"}
          /\ FailCommand \/ KillOperator
      BY <1>5 DEF Task, RecordBackup, LogRestore, CloseOperator, KillOperator, FailCommand
    <2>2. Fault /\ UNCHANGED <<main, wal, uploads>>
      BY <2>1 DEF FailCommand, KillOperator, Vanish, Writes
    <2>3. Logical' = Logical
      <3>1. CASE FailCommand
        BY <3>1 DEF FailCommand, Logical
      <3>2. CASE KillOperator
        <4>1. (wal = EmptyLog \/ ~copied) /\ copied \in BOOLEAN /\ copied' \in BOOLEAN
          BY <2>1 DEF QuietInv, Noted, TypeInv, DbOK
        <4>2. ~copied => ~copied'
          BY <3>2 DEF KillOperator, Vanish
        <4>3. Logical = Through(wal, main) /\ Logical' = Through(wal', main')
          BY <2>2, <4>1, <4>2 DEF Logical, Through
        <4> QED BY <2>2, <4>3
      <3> QED BY <2>1, <3>1, <3>2
    <2>4. ActiveData' = ActiveData
      BY <1>1, <1>3, <2>2, <2>3, DataKept
    <2> QED BY <1>1, <1>3, <2>2, <2>4, IsGiveUp
  <1> QED BY <1>4, <1>5

\* Nothing happens before the snapshots are there, nor after they are not needed.
LEMMA ShowSnapshots ==
  ASSUME QuietInv, QuietInv', Verify \/ SnapshotDb \/ SnapshotUploads \/ DropSnapshots
  PROVE  Step
  <1>1. /\ Verified /\ UNCHANGED <<database, uploads, archives, source>>
        /\ faults' = faults \/ Fault
        /\ at[Operator] \in {"verifying", "verified", "snapping", "dropping", "dropFailed", "dropCut"}
    BY DEF QuietInv, Verify, SnapshotDb, SnapshotUploads, DropSnapshots
  <1>2. PICK x \in {"verified", "snapping", "snapped", "restored", "failed", "cut", "closing"} :
          Goto(Operator, x)
    BY DEF Verify, SnapshotDb, SnapshotUploads, DropSnapshots
  <1>3. at'[Operator] = x
    BY <1>2, OperatorAt
  <1>4. WholeArchives' = WholeArchives /\ ActiveData' = ActiveData
    BY <1>1, <1>3, DataKept DEF WholeArchives, HalfPlaces, Logical
  <1>5. CASE Verify
    <2>1. at[Operator] = "verifying" /\ faults' = faults /\ (Verifies(source) <=> source.whole)
      BY <1>1, <1>5 DEF Verify, Verified, Verifies
    <2>2. x = IF source.whole THEN "verified" ELSE "closing"
      BY <1>3, <1>5, <2>1, OperatorAt DEF Verify
    <2>3. Task' = Task
      BY <1>1, <1>3, <2>1, <2>2 DEF Task
    <2> QED BY <1>4, <2>1, <2>3, IsStutter
  <1>6. CASE SnapshotDb \/ SnapshotUploads
    <2>1. source.whole /\ Task = "restore"
      BY <1>1, <1>6 DEF SnapshotDb, SnapshotUploads, Verified, Task
    <2>2. \/ x \in {"snapping", "snapped"} /\ faults' = faults
          \/ x = "closing" /\ Fault
      BY <1>3, <1>6, OperatorAt DEF SnapshotDb, SnapshotUploads
    <2>3. (x \in {"snapping", "snapped"} => Task' = "restore") /\ (x = "closing" => Task' = "none")
      BY <1>1, <1>3, <2>1 DEF Task
    <2> QED BY <1>4, <2>1, <2>2, <2>3, IsStutter, IsGiveUp
  <1>7. CASE DropSnapshots
    <2>1. x \in {"restored", "failed", "cut", "closing"} /\ at[Operator] \in {"dropping", "dropFailed", "dropCut"}
      BY <1>3, <1>7, OperatorAt DEF DropSnapshots
    <2>2. Task = "none" /\ Task' = "none" /\ at'[Operator] \notin HalfPlaces
      BY <1>3, <2>1 DEF Task, HalfPlaces
    <2> QED BY <1>1, <1>4, <2>2, InDirectories, IsWork DEF QuietInv
  <1> QED BY <1>5, <1>6, <1>7

\* The replacement and its undoing change what counts as the data at their last step only.
LEMMA ShowReplace ==
  ASSUME QuietInv, QuietInv', Replace \/ Undo PROVE Step
  <1>1. /\ Noted /\ Noted' /\ Verified /\ Saved /\ Saved' /\ Undone
        /\ UNCHANGED <<wal, copied, archives, source, before, faults>>
        /\ WholeArchives' = WholeArchives
        /\ at[Operator] \in ReplacePlaces \cup UndoPlaces
    BY DEF QuietInv, Replace, Undo, OverwriteDb, RemoveUploads, FillUploads, WholeArchives
  <1>2. ActiveData = View(before.db, before.file, before.log, before.uploads)
    BY <1>1, FoundData
  <1>3. source.whole /\ source \in archives /\ wal = before.log /\ Blurred \notin source.db
    BY <1>1 DEF Verified, Noted
  <1>4. CASE \/ OverwriteDb("snapped", source.db, "removing") \/ RemoveUploads("removing", "filling")
             \/ OverwriteDb("undoDb", snapDb, "undoRemove") \/ RemoveUploads("undoRemove", "undoFill")
    <2>1. /\ Task' = Task
          /\ at'[Operator] \in HalfPlaces
      BY <1>1, <1>3, <1>4, OperatorAt DEF OverwriteDb, RemoveUploads, Task, HalfPlaces
    <2>2. ActiveData' = ActiveData
      BY <1>1, <1>2, <2>1 DEF ActiveData, View, WithoutLog
    <2> QED BY <1>1, <2>1, <2>2, IsStutter
  <1>5. CASE FillUploads("filling", source.uploads, "dropping", "undoDb")
    <2>1. at[Operator] = "filling" /\ ~dirThere /\ main' = main
      BY <1>1, <1>5 DEF FillUploads, Saved
    <2>2. at'[Operator] = "dropping" /\ uploads' = source.uploads
      BY <2>1, <1>5, OperatorAt DEF FillUploads
    <2>3. main = source.db
      BY <1>1, <2>1 DEF Saved, ReplacedPlaces
    <2>4. ActiveData' = View(Logical', main', wal', uploads')
      BY <2>2 DEF ActiveData, HalfPlaces
    <2>5. /\ ActiveData'.file = source.db /\ ActiveData'.uploads = source.uploads
          /\ ActiveData'.clean = ActiveData.clean
      BY <1>1, <1>2, <1>3, <2>1, <2>2, <2>3, <2>4 DEF View, WithoutLog
    <2>6. wal = EmptyLog => Logical' = source.db
      BY <1>1, <2>1, <2>3 DEF Logical, Through
    <2>7. ActiveData.clean => ActiveData'.db = source.db
      BY <1>2, <1>3, <2>4, <2>6 DEF View
    <2>8. ActiveData' \in Directories
      BY <2>2, InDirectories DEF HalfPlaces, QuietInv
    <2>9. Task = "restore" /\ Task' = "none"
      BY <1>3, <2>1, <2>2 DEF Task
    <2> QED BY <1>1, <1>3, <2>5, <2>7, <2>8, <2>9, IsReplace
  <1>6. CASE FillUploads("undoFill", snapUploads, "dropFailed", "dropFailed")
    <2>1. at[Operator] = "undoFill" /\ ~dirThere /\ main' = main
      BY <1>1, <1>6 DEF FillUploads, Saved
    <2>2. at'[Operator] = "dropFailed" /\ uploads' = snapUploads
      BY <2>1, <1>6, OperatorAt DEF FillUploads
    <2>3. main = before.file /\ snapUploads = before.uploads
      BY <1>1, <2>1 DEF Saved, Undone, SnappedPlaces
    <2>4. Logical' = before.db
      <3>1. (wal = EmptyLog \/ ~copied) /\ before.db = Through(wal, before.file)
        BY <1>1, <1>3 DEF Noted
      <3> QED BY <1>1, <2>1, <2>3, <3>1 DEF Logical, Through
    <2>5. ActiveData' = ActiveData
      BY <1>1, <1>2, <1>3, <2>1, <2>2, <2>3, <2>4 DEF ActiveData, HalfPlaces, View, WithoutLog
    <2>6. Task = "undo" /\ Task' = "none"
      BY <2>1, <2>2 DEF Task
    <2> QED BY <1>1, <2>5, <2>6, IsGiveUp
  <1> QED BY <1>4, <1>5, <1>6 DEF Replace, Undo

\* A first failure is going to be undone; a second one, an interrupt or a kill loses the data.
LEMMA ShowFails ==
  ASSUME QuietInv, QuietInv', FailReplace \/ InterruptReplace \/ KillReplace PROVE Step
  <1>1. /\ at[Operator] \in ReplacePlaces \cup UndoPlaces /\ Verified
        /\ UNCHANGED <<archives, source, before>> /\ Fault
        /\ WholeArchives' = WholeArchives
        /\ InterruptReplace \/ KillReplace => Operator \in Killable
    BY DEF QuietInv, FailReplace, InterruptReplace, KillReplace, WholeArchives
  <1>2. PICK x \in {"undoDb", "dropFailed", "dropCut", "halted"} : Goto(Operator, x)
    BY DEF FailReplace, InterruptReplace, KillReplace
  <1>3. at'[Operator] = x
    BY <1>2, OperatorAt
  <1>4. at[Operator] \in ReplacePlaces => Task = "restore"
    BY <1>1 DEF Verified, Task
  <1>5. at[Operator] \in UndoPlaces => Task = "undo"
    BY DEF Task
  <1>6. x = "undoDb" => at[Operator] \in ReplacePlaces
    BY <1>3, <1>1, OperatorAt DEF FailReplace, InterruptReplace, KillReplace
  <1>7. x # "undoDb" => (at[Operator] \in UndoPlaces \/ Operator \in Killable)
    BY <1>3, <1>1, OperatorAt DEF FailReplace, InterruptReplace, KillReplace
  <1>8. CASE x = "undoDb"
    <2>1. ActiveData' = View(before.db, before.file, before.log, before.uploads)
      BY <1>1, <1>3, <1>8 DEF ActiveData, HalfPlaces, View, WithoutLog
    <2>2. ActiveData' = ActiveData /\ Task' = "undo"
      BY <1>1, <1>3, <1>8, <2>1, FoundData DEF Task
    <2> QED BY <1>1, <1>4, <1>6, <1>8, <2>2, IsStumble
  <1>9. CASE x # "undoDb"
    <2>1. Task' = "none" /\ at'[Operator] \notin HalfPlaces
      BY <1>2, <1>3, <1>9 DEF Task, HalfPlaces
    <2>2. ActiveData' \in Directories
      BY <2>1, InDirectories DEF QuietInv
    <2> QED BY <1>1, <1>4, <1>5, <1>7, <1>9, <2>1, <2>2, IsWreck
  <1> QED BY <1>8, <1>9

\* When the operator's commands run alone, writing an archive and replacing the data are one
\* step each, and happen unless a fault prevents them: a failed command changes nothing, a
\* complete archive is lost only to a backup of the same database file, and the data only if
\* a restore is killed or interrupted half-way or its undoing fails as well.  A log that a
\* killed or terminated process has left is neither copied nor replaced.
THEOREM RestoreIsAtomic == ASSUME Quiet PROVE Spec => ImplementsAtomicBackup
  <1>1. Init => Atomic!AtomicInit
    <2> SUFFICES ASSUME Init PROVE Atomic!AtomicInit
      OBVIOUS
    <2>1. at[Operator] = "idle"
      BY Constants DEF Init
    <2>2. ActiveData = [db |-> {}, file |-> {}, clean |-> TRUE, uploads |-> {}]
      BY <2>1 DEF Init, ActiveData, View, WithoutLog, HalfPlaces, Logical
    <2> QED BY <2>1, <2>2 DEF Init, Atomic!AtomicInit, Task, WholeArchives
  <1>2. QuietInv /\ QuietInv' /\ [Next]_vars => [Atomic!AtomicNext]_(Atomic!promise)
    <2> SUFFICES ASSUME QuietInv, QuietInv', [Next]_vars PROVE Step
      BY DEF Step, Shown, Atomic!promise
    <2>1. CASE UNCHANGED vars
      BY <2>1, IsStutter DEF vars, Task, ActiveData, WholeArchives, HalfPlaces, Logical, View
    <2>2. CASE CreateBackup
      BY <2>2, ShowStart, ShowBackup, ShowEnd DEF CreateBackup
    <2>3. CASE Restore
      BY <2>3, ShowStart, ShowSnapshots, ShowReplace, ShowFails, ShowEnd DEF Restore
    <2> QED BY <2>1, <2>2, <2>3, ShowOthers, ShowEnd DEF Next
  <1> QED BY <1>1, <1>2, QuietHolds, PTL DEF Spec, ImplementsAtomicBackup, Atomic!AtomicSpec
=============================================================================
