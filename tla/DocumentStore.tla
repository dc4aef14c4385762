--------------------------- MODULE DocumentStore ---------------------------
(***************************************************************************)
(* FileStorageService: documents are a row of the table documents plus a   *)
(* file under uploads/, written by save_document and replace_document and  *)
(* compared by reconcile, which clear_orphans may follow.                  *)
(*                                                                         *)
(* Every operation is a process of its own (a run of main.py).  The file   *)
(* system knows no transactions: each file operation is a step.  A         *)
(* database transaction is one step, the moment it commits; its earlier    *)
(* statements show nothing to others.                                      *)
(*                                                                         *)
(* A document is named by its storage_path, a fresh uuid4: the row, the    *)
(* staged copy and the published file of one upload share that name.       *)
(***************************************************************************)
EXTENDS Integers, FiniteSets

CONSTANTS
  Writers,       \* processes that run save_document or replace_document
  Cleaners,      \* processes that run reconcile --cleanup
  Files,         \* names uuid4 can draw (bounds the number of uploads)
  NoFile,        \* SQL NULL in replaced_by; no file
  MaxCrashes,    \* bound: processes killed or interrupted
  MaxRefusals    \* bound: times the file system refuses to delete a file

ASSUME StoreAssumption ==
  /\ NoFile \notin Files
  /\ MaxCrashes \in Nat /\ MaxRefusals \in Nat
  /\ Writers \cap Cleaners = {}

VARIABLES
  rows,        \* storage_path of the committed rows of documents
  replacedBy,  \* column replaced_by, as the storage_path of the new row
  staged,      \* files under tmp/
  disk,        \* files under uploads/
  used,        \* names drawn so far
  pc,          \* where each process is
  mine,        \* final_name of a writer
  old,         \* the row replace_document read, NoFile in save_document
  seen,        \* db_paths of a cleaner
  doomed,      \* orphaned_files a cleaner has still to go through
  target,      \* the one it found on disk and is about to delete
  crashes, refusals,
  unwritten    \* history: files whose content could not be written or read back

tables == <<rows, replacedBy>>
files == <<staged, disk, used>>
writerVars == <<mine, old>>
cleanerVars == <<seen, doomed, target>>
faults == <<crashes, refusals, unwritten>>
vars == <<tables, files, pc, writerVars, cleanerVars, faults>>

Processes == Writers \cup Cleaners

\* The documents that were not replaced.
Current == {f \in rows : replacedBy[f] = NoFile}

Init ==
  /\ rows = {} /\ replacedBy = [f \in Files |-> NoFile]
  /\ staged = {} /\ disk = {} /\ used = {}
  /\ pc = [p \in Processes |-> "idle"]
  /\ mine = [p \in Writers |-> NoFile]
  /\ old = [p \in Writers |-> NoFile]
  /\ seen = [p \in Cleaners |-> {}]
  /\ doomed = [p \in Cleaners |-> {}]
  /\ target = [p \in Cleaners |-> NoFile]
  /\ crashes = 0 /\ refusals = 0 /\ unwritten = {}

-----------------------------------------------------------------------------
(***************************************************************************)
(* save_document and replace_document.  The row that is replaced is read   *)
(* first, before the content is staged; rows are never deleted and         *)
(* storage_path never changes, so nothing read goes stale but replaced_by, *)
(* which is not looked at.                                                 *)
(***************************************************************************)
Stage(p) ==
  /\ pc[p] = "idle"
  /\ \E f \in Files \ used :
       /\ staged' = staged \cup {f}
       /\ used' = used \cup {f}
       /\ mine' = [mine EXCEPT ![p] = f]
  /\ \E d \in rows \cup {NoFile} : old' = [old EXCEPT ![p] = d]
  /\ pc' = [pc EXCEPT ![p] = "staged"]
  /\ UNCHANGED <<tables, disk, cleanerVars, faults>>

\* The disk is full, or the copy cannot be hashed: both happen outside the try, so the
\* staged file stays.
StageFails(p) ==
  /\ pc[p] = "idle"
  /\ \E f \in Files \ used :
       /\ staged' = staged \cup {f}
       /\ used' = used \cup {f}
       /\ unwritten' = unwritten \cup {f}
  /\ UNCHANGED <<tables, disk, pc, writerVars, cleanerVars, crashes, refusals>>

\* BEGIN, then staged.replace(final_path).
Publish(p) ==
  /\ pc[p] = "staged"
  /\ staged' = staged \ {mine[p]}
  /\ disk' = disk \cup {mine[p]}
  /\ pc' = [pc EXCEPT ![p] = "published"]
  /\ UNCHANGED <<tables, used, writerVars, cleanerVars, faults>>

Forget(p) ==
  /\ pc' = [pc EXCEPT ![p] = "idle"]
  /\ mine' = [mine EXCEPT ![p] = NoFile]
  /\ old' = [old EXCEPT ![p] = NoFile]

\* The inserts and the update of replaced_by become visible together.
CommitDeletesOld(p) ==                                          \* mutant
  /\ pc[p] = "published"
  /\ rows' = (rows \ {old[p]}) \cup {mine[p]}
  /\ IF old[p] = NoFile
     THEN Forget(p)
     ELSE pc' = [pc EXCEPT ![p] = "replaced"] /\ UNCHANGED writerVars
  /\ UNCHANGED <<replacedBy, files, cleanerVars, faults>>
Commit(p) ==
  /\ pc[p] = "published"
  /\ rows' = rows \cup {mine[p]}
  /\ IF old[p] = NoFile
     THEN Forget(p) /\ UNCHANGED replacedBy
     ELSE /\ replacedBy' = [replacedBy EXCEPT ![old[p]] = mine[p]]
          /\ pc' = [pc EXCEPT ![p] = "replaced"]
          /\ UNCHANGED writerVars
  /\ UNCHANGED <<files, cleanerVars, faults>>

\* A rename or a statement fails: rollback, the published file and the staged copy
\* are removed, the exception goes on to the caller.
AbortKeepsRow(p) ==                                             \* mutant
  /\ pc[p] = "published"
  /\ rows' = rows \cup {mine[p]}
  /\ disk' = disk \ {mine[p]}
  /\ Forget(p)
  /\ UNCHANGED <<replacedBy, staged, used, cleanerVars, faults>>
AbortKeepsFile(p) ==                                            \* mutant
  /\ pc[p] \in {"staged", "published"}
  /\ staged' = staged \ {mine[p]}
  /\ Forget(p)
  /\ UNCHANGED <<tables, disk, used, cleanerVars, faults>>
Abort(p) ==
  /\ pc[p] \in {"staged", "published"}
  /\ staged' = staged \ {mine[p]}
  /\ disk' = disk \ {mine[p]}
  /\ Forget(p)
  /\ UNCHANGED <<tables, used, cleanerVars, faults>>

\* The handler cannot delete the file either, and raises there.
AbortRefused(p) ==
  /\ pc[p] \in {"staged", "published"}
  /\ refusals < MaxRefusals
  /\ refusals' = refusals + 1
  /\ Forget(p)
  /\ UNCHANGED <<tables, files, cleanerVars, crashes, unwritten>>

\* old_path.unlink(missing_ok=True), after the commit.
UnlinkNew(p) ==                                                 \* mutant
  /\ pc[p] = "replaced"
  /\ disk' = disk \ {mine[p]}
  /\ Forget(p)
  /\ UNCHANGED <<tables, staged, used, cleanerVars, faults>>
UnlinkOld(p) ==
  /\ pc[p] = "replaced"
  /\ disk' = disk \ {old[p]}
  /\ Forget(p)
  /\ UNCHANGED <<tables, staged, used, cleanerVars, faults>>

\* The file system refuses: the except branch removes the new file, if it can.
UnlinkOldRefused(p) ==
  /\ pc[p] = "replaced"
  /\ old[p] \in disk
  /\ refusals < MaxRefusals
  /\ refusals' = refusals + 1
  /\ disk' \in {disk \ {mine[p]}, disk}
  /\ Forget(p)
  /\ UNCHANGED <<tables, staged, used, cleanerVars, crashes, unwritten>>

-----------------------------------------------------------------------------
(***************************************************************************)
(* cmd_reconcile: read the rows, list the directory, then, with --cleanup, *)
(* delete what is on disk and not in the rows, file after file.            *)
(***************************************************************************)
DbPathsAll == rows                                              \* mutant
DbPaths == {f \in rows : replacedBy[f] = NoFile}

ReadRows(c) ==
  /\ pc[c] = "idle"
  /\ seen' = [seen EXCEPT ![c] = DbPaths]
  /\ pc' = [pc EXCEPT ![c] = "listing"]
  /\ UNCHANGED <<tables, files, writerVars, doomed, target, faults>>

ListDisk(c) ==
  /\ pc[c] = "listing"
  /\ doomed' = [doomed EXCEPT ![c] = disk \ seen[c]]
  /\ pc' = [pc EXCEPT ![c] = "clearing"]
  /\ UNCHANGED <<tables, files, writerVars, seen, target, faults>>

\* path.exists(), for the next name of the list.
FindOrphan(c) ==
  /\ pc[c] = "clearing"
  /\ \E f \in doomed[c] :
       /\ doomed' = [doomed EXCEPT ![c] = @ \ {f}]
       /\ IF f \in disk
          THEN /\ target' = [target EXCEPT ![c] = f]
               /\ pc' = [pc EXCEPT ![c] = "unlinking"]
          ELSE UNCHANGED <<target, pc>>
  /\ UNCHANGED <<tables, files, writerVars, seen, faults>>

UnlinkOrphan(c) ==
  /\ pc[c] = "unlinking"
  /\ target[c] \in disk
  /\ disk' = disk \ {target[c]}
  /\ target' = [target EXCEPT ![c] = NoFile]
  /\ pc' = [pc EXCEPT ![c] = "clearing"]
  /\ UNCHANGED <<tables, staged, used, writerVars, seen, doomed, faults>>

EndReconcile(c) ==
  /\ pc' = [pc EXCEPT ![c] = "idle"]
  /\ seen' = [seen EXCEPT ![c] = {}]
  /\ doomed' = [doomed EXCEPT ![c] = {}]
  /\ target' = [target EXCEPT ![c] = NoFile]
  /\ UNCHANGED <<tables, files, writerVars>>

\* The list is done, or the file is gone between exists() and unlink(), which raises
\* FileNotFoundError and ends the command with names left on the list.
FinishReconcile(c) ==
  /\ \/ pc[c] = "clearing" /\ doomed[c] = {}
     \/ pc[c] = "unlinking" /\ target[c] \notin disk
  /\ EndReconcile(c)
  /\ UNCHANGED faults

\* unlink() is refused, which ends the command too.
UnlinkOrphanRefused(c) ==
  /\ pc[c] = "unlinking"
  /\ target[c] \in disk
  /\ refusals < MaxRefusals
  /\ refusals' = refusals + 1
  /\ EndReconcile(c)
  /\ UNCHANGED <<crashes, unwritten>>

-----------------------------------------------------------------------------
\* A killed process leaves its files where they are; an open transaction is undone.  So it
\* is after Ctrl-C: the handlers catch Exception, which KeyboardInterrupt is not.
Killed(p) ==
  /\ pc[p] # "idle"
  /\ crashes < MaxCrashes
  /\ crashes' = crashes + 1

KillWriter(p) ==
  /\ Killed(p)
  /\ Forget(p)
  /\ UNCHANGED <<tables, files, cleanerVars, refusals, unwritten>>

KillCleaner(c) ==
  /\ Killed(c)
  /\ EndReconcile(c)
  /\ UNCHANGED <<refusals, unwritten>>

Write(p) ==
  \/ Stage(p) \/ StageFails(p) \/ Publish(p) \/ Commit(p)
  \/ Abort(p) \/ AbortRefused(p) \/ UnlinkOld(p) \/ UnlinkOldRefused(p)

Reconcile(c) ==
  \/ ReadRows(c) \/ ListDisk(c) \/ FindOrphan(c)
  \/ UnlinkOrphan(c) \/ UnlinkOrphanRefused(c) \/ FinishReconcile(c)

Next ==
  \/ \E p \in Writers : Write(p) \/ KillWriter(p)
  \/ \E c \in Cleaners : Reconcile(c) \/ KillCleaner(c)

Spec == Init /\ [][Next]_vars

\* A command that has started goes on to its end.  Nothing starts one: no schedule
\* of the repository runs reconcile or an upload.
Fairness ==
  /\ \A p \in Writers : WF_vars(Write(p) /\ pc[p] # "idle")
  /\ \A c \in Cleaners : WF_vars(Reconcile(c) /\ pc[c] # "idle")
FairSpec == Spec /\ Fairness

-----------------------------------------------------------------------------
(***************************************************************************)
(* Correctness.                                                            *)
(***************************************************************************)

\* The variables stay within their types; rows, staged files and files carry drawn names.
TypeOK ==
  /\ rows \subseteq used /\ staged \subseteq used /\ disk \subseteq used /\ used \subseteq Files
  /\ replacedBy \in [Files -> Files \cup {NoFile}]
  /\ pc \in [Processes -> {"idle", "staged", "published", "replaced",
                           "listing", "clearing", "unlinking"}]
  /\ mine \in [Writers -> used \cup {NoFile}]
  /\ old \in [Writers -> rows \cup {NoFile}]
  /\ seen \in [Cleaners -> SUBSET rows]
  /\ doomed \in [Cleaners -> SUBSET used]
  /\ target \in [Cleaners -> used \cup {NoFile}]
  /\ crashes \in 0..MaxCrashes /\ refusals \in 0..MaxRefusals /\ unwritten \subseteq used

\* Every current document has its file: files are published before their row is
\* committed, removed only when the row was never committed or has been replaced,
\* and nothing else takes them away.
CurrentHasFile == \A f \in Current : f \in disk

\* When nothing runs, and nothing was killed, interrupted or could not be deleted, uploads/
\* holds exactly the files of the current documents, and tmp/ only files that could not be
\* written: uploads and replacements that fail later, and concurrent replacements of one
\* document, all clean up.
QuiescentExact ==
  (\A p \in Processes : pc[p] = "idle") /\ crashes = 0 /\ refusals = 0
    => disk = Current /\ staged \subseteq unwritten

\* A current document loses its file in two ways only: to a cleaner about to delete a
\* file whose row was not committed yet when it read the rows, or to the handler of a
\* replacement that has just committed and could not delete the old file.
LossExplained ==
  [][\A f \in Current \cap disk :
       f \notin disk' =>
         \/ \E c \in Cleaners : pc[c] = "unlinking" /\ target[c] = f /\ f \notin seen[c]
         \/ \E p \in Writers : pc[p] = "replaced" /\ mine[p] = f /\ refusals' > refusals]_vars

\* A file nobody needs and nobody is working on: what a killed upload, a killed
\* replacement or a refused deletion leaves behind under uploads/.
Orphan(f) ==
  /\ f \in disk \ Current
  /\ \A p \in Writers : mine[p] # f

\* If reconcile --cleanup is run again and again, every orphan is removed, although a
\* sweep may die on a file someone else removed first.
OrphansSwept ==
  \A f \in Files :
    (\E c \in Cleaners : []<>(pc[c] = "listing")) => (Orphan(f) ~> f \notin disk)

\* Without a cleaner and without refusals, storing documents is as atomic as
\* AtomicStore: each commit is one Upload or one Exchange, crashes included.
Atomic == INSTANCE AtomicStore WITH
  Content <- Files, registered <- Current, readable <- Current \cap disk

ImplementsAtomic == Atomic!AtomicSpec
=============================================================================
