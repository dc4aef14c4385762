------------------------- MODULE DocumentStoreProofs -------------------------
(***************************************************************************)
(* Proofs about the document store, for any number of writers, cleaners,   *)
(* files and crashes.                                                      *)
(***************************************************************************)
EXTENDS DocumentStore, TLAPS

\* One writer's part of the invariant: its file is its own, not registered before the
\* commit and registered after it, when the row it replaces is marked.
OwnsItsFile(p) ==
  /\ pc[p] \in {"idle", "staged", "published", "replaced"}
  /\ pc[p] = "idle" <=> mine[p] = NoFile
  /\ pc[p] \in {"staged", "published"} => mine[p] \notin rows
  /\ pc[p] = "replaced" => /\ mine[p] \in rows
                           /\ old[p] \in rows /\ replacedBy[old[p]] # NoFile

\* The inductive invariant.
StoreInv ==
  /\ TypeOK
  /\ \A p \in Writers : OwnsItsFile(p)
  /\ \A p, q \in Writers : p # q /\ mine[p] # NoFile => mine[p] # mine[q]
  /\ \A f \in Files : replacedBy[f] # NoFile => f \in rows
  /\ \A c \in Cleaners :
       /\ pc[c] \in {"idle", "listing", "clearing", "unlinking"}
       /\ doomed[c] \cap seen[c] = {} /\ target[c] \notin seen[c]
       /\ pc[c] \in {"idle", "listing"} => doomed[c] = {}
       /\ pc[c] # "unlinking" => target[c] = NoFile

LEMMA StoreInit == Init => StoreInv
BY StoreAssumption
   DEF Init, StoreInv, StoreAssumption, TypeOK, OwnsItsFile, Processes

-----------------------------------------------------------------------------
\* A writer that ends its operation, its row committed or not, keeps the invariant
\* when it leaves the tables and the cleaners alone.
LEMMA ForgetStep ==
  ASSUME StoreInv, NEW p \in Writers, Forget(p),
         UNCHANGED <<tables, used, cleanerVars, unwritten>>,
         staged' \subseteq used, disk' \subseteq used,
         crashes' \in 0..MaxCrashes, refusals' \in 0..MaxRefusals
  PROVE  StoreInv'
<1> USE StoreAssumption DEF StoreAssumption, Forget, tables, cleanerVars
<1>1. TypeOK'
  BY DEF StoreInv, TypeOK, Processes
<1>2. /\ pc'[p] = "idle" /\ mine'[p] = NoFile
      /\ \A q \in Processes : q # p => pc'[q] = pc[q]
      /\ \A q \in Writers : q # p => mine'[q] = mine[q] /\ old'[q] = old[q]
  BY DEF StoreInv, TypeOK, Processes
<1>3. \A q \in Writers : OwnsItsFile(q)'
  BY <1>2 DEF StoreInv, OwnsItsFile, Processes
<1>4. \A q, r \in Writers : q # r /\ mine'[q] # NoFile => mine'[q] # mine'[r]
  BY <1>2 DEF StoreInv
<1>5. \A c \in Cleaners : /\ pc'[c] \in {"idle", "listing", "clearing", "unlinking"}
                          /\ doomed'[c] \cap seen'[c] = {} /\ target'[c] \notin seen'[c]
                          /\ pc'[c] \in {"idle", "listing"} => doomed'[c] = {}
                          /\ pc'[c] # "unlinking" => target'[c] = NoFile
  BY <1>2 DEF StoreInv, Processes
<1> QED
  BY <1>1, <1>3, <1>4, <1>5 DEF StoreInv

\* Drawing a fresh name keeps it apart from every other.
LEMMA StageStep ==
  ASSUME StoreInv, NEW p \in Writers, Stage(p) PROVE StoreInv'
<1> USE StoreAssumption DEF StoreAssumption, Stage, tables, cleanerVars, faults
<1>1. PICK f \in Files \ used :
        /\ staged' = staged \cup {f} /\ used' = used \cup {f}
        /\ mine' = [mine EXCEPT ![p] = f]
  OBVIOUS
<1>2. PICK d \in rows \cup {NoFile} : old' = [old EXCEPT ![p] = d]
  OBVIOUS
<1>3. pc' = [pc EXCEPT ![p] = "staged"] /\ UNCHANGED <<tables, disk, cleanerVars, faults>>
  OBVIOUS
<1> HIDE DEF Stage
<1>4. TypeOK'
  BY <1>1, <1>2, <1>3 DEF StoreInv, TypeOK, Processes
<1>5. /\ pc'[p] = "staged" /\ mine'[p] = f /\ f # NoFile
      /\ \A q \in Processes : q # p => pc'[q] = pc[q]
      /\ \A q \in Writers : q # p => mine'[q] = mine[q] /\ old'[q] = old[q]
  BY <1>1, <1>2, <1>3 DEF StoreInv, TypeOK, Processes
<1>6. f \notin rows /\ \A q \in Writers : mine[q] # f
  BY <1>1 DEF StoreInv, TypeOK
<1>7. \A q \in Writers : OwnsItsFile(q)'
  BY <1>3, <1>5, <1>6 DEF StoreInv, OwnsItsFile, Processes
<1>8. \A q, r \in Writers : q # r /\ mine'[q] # NoFile => mine'[q] # mine'[r]
  BY <1>5, <1>6 DEF StoreInv
<1>9. \A c \in Cleaners : /\ pc'[c] \in {"idle", "listing", "clearing", "unlinking"}
                          /\ doomed'[c] \cap seen'[c] = {} /\ target'[c] \notin seen'[c]
                          /\ pc'[c] \in {"idle", "listing"} => doomed'[c] = {}
                          /\ pc'[c] # "unlinking" => target'[c] = NoFile
  BY <1>3, <1>5 DEF StoreInv, Processes
<1> QED
  BY <1>3, <1>4, <1>7, <1>8, <1>9 DEF StoreInv

\* A file that could not be written has a name of its own and no process.
LEMMA StageFailsStep ==
  ASSUME StoreInv, NEW p \in Writers, StageFails(p) PROVE StoreInv'
<1> USE StoreAssumption DEF StoreAssumption, StageFails, tables, writerVars, cleanerVars
<1>1. TypeOK'
  BY DEF StoreInv, TypeOK, Processes
<1>2. \A q \in Writers : OwnsItsFile(q)'
  BY DEF StoreInv, OwnsItsFile
<1> QED
  BY <1>1, <1>2 DEF StoreInv

\* Publishing moves the writer's own file.
LEMMA PublishStep ==
  ASSUME StoreInv, NEW p \in Writers, Publish(p) PROVE StoreInv'
<1> USE StoreAssumption DEF StoreAssumption, Publish, tables, writerVars, cleanerVars, faults
<1>1. mine[p] \in used
  BY DEF StoreInv, TypeOK, OwnsItsFile
<1>2. TypeOK'
  BY <1>1 DEF StoreInv, TypeOK, Processes
<1>3. pc'[p] = "published" /\ \A q \in Processes : q # p => pc'[q] = pc[q]
  BY DEF StoreInv, TypeOK, Processes
<1>4. \A q \in Writers : OwnsItsFile(q)'
  BY <1>3 DEF StoreInv, OwnsItsFile, Processes
<1>5. \A c \in Cleaners : pc'[c] \in {"idle", "listing", "clearing", "unlinking"}
  BY <1>3 DEF StoreInv, Processes
<1> QED
  BY <1>2, <1>4, <1>5 DEF StoreInv

\* The commit registers the writer's own file and marks the row it replaces.
LEMMA CommitStep ==
  ASSUME StoreInv, NEW p \in Writers, Commit(p) PROVE StoreInv'
<1> USE StoreAssumption DEF StoreAssumption, tables, files, writerVars, cleanerVars, faults
<1>1. /\ pc[p] = "published" /\ mine[p] \in used \ rows /\ mine[p] \in Files /\ mine[p] # NoFile
      /\ old[p] \in rows \cup {NoFile}
      /\ rows' = rows \cup {mine[p]}
      /\ UNCHANGED <<staged, disk, used, cleanerVars, faults>>
  BY DEF Commit, StoreInv, TypeOK, OwnsItsFile
<1>2. \A q \in Writers : q # p => mine[q] # mine[p]
  BY <1>1 DEF StoreInv
<1>3. \A q \in Writers : OwnsItsFile(q)
  BY DEF StoreInv
<1>4. CASE old[p] = NoFile
  <2>1. /\ UNCHANGED replacedBy /\ pc' = [pc EXCEPT ![p] = "idle"]
        /\ mine' = [mine EXCEPT ![p] = NoFile] /\ old' = [old EXCEPT ![p] = NoFile]
    BY <1>4 DEF Commit, Forget
  <2>2. TypeOK'
    BY <1>1, <2>1 DEF StoreInv, TypeOK, Processes
  <2>3. /\ pc'[p] = "idle" /\ mine'[p] = NoFile
        /\ \A q \in Processes : q # p => pc'[q] = pc[q]
        /\ \A q \in Writers : q # p => mine'[q] = mine[q] /\ old'[q] = old[q]
    BY <2>1 DEF StoreInv, TypeOK, Processes
  <2>4. ASSUME NEW q \in Writers PROVE OwnsItsFile(q)'
    <3>1. CASE q = p
      BY <2>3, <3>1 DEF OwnsItsFile
    <3>2. CASE q # p
      BY <1>1, <1>2, <1>3, <2>1, <2>3, <3>2 DEF OwnsItsFile, Processes
    <3> QED BY <3>1, <3>2
  <2>5. \A q, r \in Writers : q # r /\ mine'[q] # NoFile => mine'[q] # mine'[r]
    BY <2>3 DEF StoreInv
  <2>6. \A c \in Cleaners : pc'[c] \in {"idle", "listing", "clearing", "unlinking"}
    BY <2>3 DEF StoreInv, Processes
  <2> QED BY <1>1, <2>1, <2>2, <2>4, <2>5, <2>6 DEF StoreInv
<1>5. CASE old[p] # NoFile
  <2>1. /\ replacedBy' = [replacedBy EXCEPT ![old[p]] = mine[p]]
        /\ pc' = [pc EXCEPT ![p] = "replaced"] /\ UNCHANGED writerVars
    BY <1>5 DEF Commit
  <2>2. old[p] \in rows /\ old[p] \in Files
    BY <1>1, <1>5 DEF StoreInv, TypeOK
  <2>3. /\ replacedBy'[old[p]] = mine[p]
        /\ \A f \in Files : f # old[p] => replacedBy'[f] = replacedBy[f]
        /\ pc'[p] = "replaced" /\ \A q \in Processes : q # p => pc'[q] = pc[q]
    BY <2>1, <2>2 DEF StoreInv, TypeOK, Processes
  <2>4. TypeOK'
    BY <1>1, <2>1 DEF StoreInv, TypeOK, Processes
  <2>5. ASSUME NEW q \in Writers PROVE OwnsItsFile(q)'
    <3>1. CASE q = p
      BY <1>1, <2>1, <2>2, <2>3, <3>1 DEF OwnsItsFile
    <3>2. CASE q # p
      <4>1. pc'[q] = pc[q] /\ OwnsItsFile(q)
        BY <1>3, <2>3, <3>2 DEF Processes
      <4>2. pc[q] = "replaced" => replacedBy'[old[q]] # NoFile
        BY <1>1, <2>3, <4>1 DEF OwnsItsFile, StoreInv, TypeOK
      <4> QED BY <1>1, <1>2, <2>1, <3>2, <4>1, <4>2 DEF OwnsItsFile
    <3> QED BY <3>1, <3>2
  <2>6. \A f \in Files : replacedBy'[f] # NoFile => f \in rows'
    BY <1>1, <2>2, <2>3 DEF StoreInv
  <2>7. \A c \in Cleaners : pc'[c] \in {"idle", "listing", "clearing", "unlinking"}
    BY <2>3 DEF StoreInv, Processes
  <2> QED BY <1>1, <2>1, <2>4, <2>5, <2>6, <2>7 DEF StoreInv
<1> QED
  BY <1>4, <1>5

\* Every step of a writer, its death included, keeps the invariant.
LEMMA WriterStep ==
  ASSUME StoreInv, NEW p \in Writers, Write(p) \/ KillWriter(p) PROVE StoreInv'
<1> USE DEF files, tables, faults
<1>1. mine[p] \in used \cup {NoFile} /\ staged \subseteq used /\ disk \subseteq used
      /\ crashes \in 0..MaxCrashes /\ refusals \in 0..MaxRefusals
  BY DEF StoreInv, TypeOK
<1>2. CASE Abort(p)
  BY <1>1, <1>2, ForgetStep DEF Abort
<1>3. CASE UnlinkOld(p)
  BY <1>1, <1>3, ForgetStep DEF UnlinkOld
<1>4. CASE UnlinkOldRefused(p)
  <2>1. refusals' \in 0..MaxRefusals
    BY <1>1, <1>4, StoreAssumption DEF UnlinkOldRefused, StoreAssumption
  <2> QED BY <1>1, <1>4, <2>1, ForgetStep DEF UnlinkOldRefused
<1>5. CASE AbortRefused(p)
  <2>1. refusals' \in 0..MaxRefusals
    BY <1>1, <1>5, StoreAssumption DEF AbortRefused, StoreAssumption
  <2> QED BY <1>1, <1>5, <2>1, ForgetStep DEF AbortRefused
<1>6. CASE KillWriter(p)
  <2>1. crashes' \in 0..MaxCrashes
    BY <1>1, <1>6, StoreAssumption DEF KillWriter, Killed, StoreAssumption
  <2> QED BY <1>1, <1>6, <2>1, ForgetStep DEF KillWriter
<1> QED
  BY <1>2, <1>3, <1>4, <1>5, <1>6, StageStep, StageFailsStep, PublishStep, CommitStep DEF Write

\* A cleaner touches no row and no writer; what it is about to delete it did not see.
LEMMA CleanerStep ==
  ASSUME StoreInv, NEW c \in Cleaners, Reconcile(c) \/ KillCleaner(c) PROVE StoreInv'
<1> USE StoreAssumption DEF StoreAssumption, tables, files, writerVars, faults
<1>1. /\ UNCHANGED <<tables, writerVars, staged, used>>
      /\ disk' \subseteq disk /\ unwritten' = unwritten
      /\ refusals' \in 0..MaxRefusals /\ crashes' \in 0..MaxCrashes
  BY DEF Reconcile, ReadRows, ListDisk, FindOrphan, UnlinkOrphan, UnlinkOrphanRefused,
         FinishReconcile, KillCleaner, Killed, EndReconcile, StoreInv, TypeOK
<1>2. /\ \A q \in Processes : q # c => pc'[q] = pc[q]
      /\ \A d \in Cleaners : d # c =>
           doomed'[d] = doomed[d] /\ seen'[d] = seen[d] /\ target'[d] = target[d]
  BY DEF Reconcile, ReadRows, ListDisk, FindOrphan, UnlinkOrphan, UnlinkOrphanRefused,
         FinishReconcile, KillCleaner, EndReconcile, StoreInv, TypeOK, Processes
<1>3. pc'[c] \in {"idle", "listing", "clearing", "unlinking"}
  BY DEF Reconcile, ReadRows, ListDisk, FindOrphan, UnlinkOrphan, UnlinkOrphanRefused,
         FinishReconcile, KillCleaner, EndReconcile, StoreInv, TypeOK, Processes
<1>4. /\ pc' \in [Processes -> {"idle", "staged", "published", "replaced",
                                "listing", "clearing", "unlinking"}]
      /\ seen' \in [Cleaners -> SUBSET rows] /\ doomed' \in [Cleaners -> SUBSET used]
      /\ target' \in [Cleaners -> used \cup {NoFile}]
  BY DEF Reconcile, ReadRows, DbPaths, ListDisk, FindOrphan, UnlinkOrphan, UnlinkOrphanRefused,
         FinishReconcile, KillCleaner, EndReconcile, StoreInv, TypeOK, Processes
<1>5. /\ doomed'[c] \cap seen'[c] = {} /\ target'[c] \notin seen'[c]
      /\ pc'[c] \in {"idle", "listing"} => doomed'[c] = {}
      /\ pc'[c] # "unlinking" => target'[c] = NoFile
  <2>0. doomed[c] \cap seen[c] = {} /\ target[c] \notin seen[c] /\ NoFile \notin rows
    BY DEF StoreInv, TypeOK
  <2>1. CASE ReadRows(c)
    <3>1. doomed[c] = {} /\ target[c] = NoFile
      BY <2>1 DEF ReadRows, StoreInv
    <3> QED BY <2>0, <2>1, <3>1 DEF ReadRows, DbPaths, StoreInv, TypeOK, Processes
  <2>2. CASE ListDisk(c)
    BY <2>0, <2>2 DEF ListDisk, StoreInv, TypeOK, Processes
  <2>3. CASE FindOrphan(c)
    BY <2>0, <2>3 DEF FindOrphan, StoreInv, TypeOK, Processes
  <2>4. CASE UnlinkOrphan(c)
    BY <2>0, <2>4 DEF UnlinkOrphan, StoreInv, TypeOK, Processes
  <2>5. CASE FinishReconcile(c) \/ UnlinkOrphanRefused(c) \/ KillCleaner(c)
    BY <2>5 DEF FinishReconcile, UnlinkOrphanRefused, KillCleaner, EndReconcile,
               StoreInv, TypeOK, Processes
  <2> QED BY <2>1, <2>2, <2>3, <2>4, <2>5 DEF Reconcile
<1>6. TypeOK'
  BY <1>1, <1>4 DEF StoreInv, TypeOK
<1>7. \A p \in Writers : OwnsItsFile(p)'
  BY <1>1, <1>2 DEF StoreInv, OwnsItsFile, Processes
<1>8. \A d \in Cleaners : /\ pc'[d] \in {"idle", "listing", "clearing", "unlinking"}
                          /\ doomed'[d] \cap seen'[d] = {} /\ target'[d] \notin seen'[d]
                          /\ pc'[d] \in {"idle", "listing"} => doomed'[d] = {}
                          /\ pc'[d] # "unlinking" => target'[d] = NoFile
  BY <1>2, <1>3, <1>5 DEF StoreInv, Processes
<1> QED
  BY <1>1, <1>6, <1>7, <1>8 DEF StoreInv

LEMMA StoreNext == StoreInv /\ [Next]_vars => StoreInv'
<1> SUFFICES ASSUME StoreInv, [Next]_vars PROVE StoreInv'
  OBVIOUS
<1>1. CASE UNCHANGED vars
  BY <1>1 DEF StoreInv, TypeOK, OwnsItsFile, vars, tables, files, writerVars, cleanerVars, faults
<1> QED
  BY <1>1, WriterStep, CleanerStep DEF Next

\* The inductive invariant holds in every reachable state of every instance.
THEOREM StoreInvariant == Spec => []StoreInv
BY StoreInit, StoreNext, PTL DEF Spec

\* The rows, the directories and the processes of the store keep their types.
THEOREM StoreTypes == Spec => []TypeOK
<1>1. StoreInv => TypeOK
  BY DEF StoreInv
<1> QED BY <1>1, StoreInvariant, PTL

-----------------------------------------------------------------------------
\* What a step of a writer removes under uploads/ belongs to no current document,
\* unless the file system refused the deletion of a replaced file.
LEMMA WritersRemoveNothingCurrent ==
  ASSUME StoreInv, NEW p \in Writers, Write(p) \/ KillWriter(p),
         NEW f \in Current, f \in disk, f \notin disk'
  PROVE  pc[p] = "replaced" /\ mine[p] = f /\ refusals' > refusals /\ refusals < MaxRefusals
<1>1. f \in rows /\ replacedBy[f] = NoFile /\ refusals \in Nat
  BY StoreAssumption DEF Current, StoreInv, TypeOK, StoreAssumption
<1>2. CASE UnlinkOldRefused(p)
  BY <1>1, <1>2 DEF UnlinkOldRefused
<1>3. CASE Abort(p)
  BY <1>1, <1>3 DEF Abort, StoreInv, OwnsItsFile
<1>4. CASE UnlinkOld(p)
  BY <1>1, <1>4 DEF UnlinkOld, StoreInv, OwnsItsFile
<1> QED
  BY <1>2, <1>3, <1>4 DEF Write, Stage, StageFails, Publish, Commit, AbortRefused, KillWriter, files

\* For any number of writers, cleaners, kills and refusals, a current document loses
\* its file only to a cleaner whose view of the rows is older than the document, or
\* to the handler of a replacement whose old file could not be deleted.
THEOREM LossIsExplained == Spec => LossExplained
<1> DEFINE Loss == \A f \in Current \cap disk :
             f \notin disk' =>
               \/ \E c \in Cleaners : pc[c] = "unlinking" /\ target[c] = f /\ f \notin seen[c]
               \/ \E p \in Writers : pc[p] = "replaced" /\ mine[p] = f /\ refusals' > refusals
<1>1. StoreInv /\ [Next]_vars => [Loss]_vars
  <2> SUFFICES ASSUME StoreInv, Next, NEW f \in Current, f \in disk, f \notin disk'
               PROVE  \/ \E c \in Cleaners :
                           pc[c] = "unlinking" /\ target[c] = f /\ f \notin seen[c]
                      \/ \E p \in Writers :
                           pc[p] = "replaced" /\ mine[p] = f /\ refusals' > refusals
    OBVIOUS
  <2>1. CASE \E p \in Writers : Write(p) \/ KillWriter(p)
    BY <2>1, WritersRemoveNothingCurrent
  <2>2. CASE \E c \in Cleaners : Reconcile(c) \/ KillCleaner(c)
    <3>1. PICK c \in Cleaners : Reconcile(c) \/ KillCleaner(c)
      BY <2>2
    <3>2. UnlinkOrphan(c)
      BY <3>1 DEF Reconcile, ReadRows, ListDisk, FindOrphan, FinishReconcile,
                  UnlinkOrphanRefused, KillCleaner,
                  EndReconcile, files
    <3> QED BY <3>2 DEF UnlinkOrphan, StoreInv
  <2> QED BY <2>1, <2>2 DEF Next
<1> QED BY <1>1, StoreInvariant, PTL DEF Spec, LossExplained

-----------------------------------------------------------------------------
(***************************************************************************)
(* Without cleaners and refusals the store is atomic.                      *)
(***************************************************************************)
PublishedOnDisk == \A p \in Writers : pc[p] = "published" => mine[p] \in disk

AtomicInv == StoreInv /\ PublishedOnDisk /\ CurrentHasFile

LEMMA AtomicInvNext ==
  ASSUME Cleaners = {}, MaxRefusals = 0
  PROVE  AtomicInv /\ [Next]_vars => AtomicInv'
<1> SUFFICES ASSUME AtomicInv, [Next]_vars PROVE PublishedOnDisk' /\ CurrentHasFile'
  BY StoreNext DEF AtomicInv
<1>0. StoreInv /\ PublishedOnDisk /\ CurrentHasFile
  BY DEF AtomicInv
<1>1. CASE UNCHANGED vars
  BY <1>0, <1>1 DEF PublishedOnDisk, CurrentHasFile, Current, vars, tables, files, writerVars
<1>2. ASSUME NEW p \in Writers, Write(p) \/ KillWriter(p)
      PROVE  PublishedOnDisk' /\ CurrentHasFile'
  <2>1. /\ \A q \in Writers : q # p => pc'[q] = pc[q] /\ mine'[q] = mine[q]
        /\ pc'[p] \in {"idle", "staged", "published", "replaced"}
    BY <1>0, <1>2, StoreAssumption
       DEF StoreInv, TypeOK, Processes, Write, KillWriter, Stage, StageFails, Publish, Commit,
           Abort, AbortRefused, UnlinkOld, UnlinkOldRefused, Forget, writerVars
  <2>2. \A q \in Writers : q # p /\ mine[q] \in disk /\ pc[q] = "published" => mine[q] \in disk'
    <3> SUFFICES ASSUME NEW q \in Writers, q # p, mine[q] \in disk, pc[q] = "published"
                 PROVE  mine[q] \in disk'
      OBVIOUS
    <3>1. mine[q] # NoFile /\ mine[q] # mine[p] /\ mine[q] \notin rows
      BY <1>0 DEF StoreInv, OwnsItsFile
    <3>2. pc[p] = "replaced" => old[p] # mine[q]
      BY <1>0, <3>1 DEF StoreInv, OwnsItsFile
    <3>3. ~UnlinkOldRefused(p)
      BY <1>0 DEF UnlinkOldRefused, StoreInv, TypeOK
    <3> QED BY <1>2, <3>1, <3>2, <3>3
              DEF Write, KillWriter, Stage, StageFails, Publish, Commit, Abort, AbortRefused,
                  UnlinkOld, files
  <2>3. pc'[p] = "published" => mine'[p] \in disk'
    BY <1>0, <1>2, StoreAssumption
       DEF StoreInv, TypeOK, Processes, Write, KillWriter, Stage, StageFails, Publish, Commit,
           Abort, AbortRefused, UnlinkOld, UnlinkOldRefused, Forget, writerVars
  <2>4. PublishedOnDisk'
    BY <1>0, <2>1, <2>2, <2>3 DEF PublishedOnDisk
  <2>5. CASE Commit(p)
    <3>1. disk' = disk /\ rows' = rows \cup {mine[p]} /\ mine[p] \in disk
      BY <1>0, <2>5 DEF Commit, PublishedOnDisk, files
    <3>2. \A f \in rows : replacedBy'[f] = NoFile => replacedBy[f] = NoFile
      BY <1>0, <2>5 DEF Commit, StoreInv, TypeOK, OwnsItsFile
    <3> QED BY <1>0, <2>4, <3>1, <3>2 DEF CurrentHasFile, Current
  <2>6. CASE ~Commit(p)
    <3>1. UNCHANGED <<rows, replacedBy>>
      BY <1>2, <2>6 DEF Write, KillWriter, Stage, StageFails, Publish, Abort, AbortRefused,
                        UnlinkOld, UnlinkOldRefused, tables
    <3>2. \A f \in Current : f \in disk'
      <4> SUFFICES ASSUME NEW f \in Current, f \notin disk' PROVE FALSE
        OBVIOUS
      <4>1. f \in disk
        BY <1>0 DEF CurrentHasFile
      <4>2. refusals < MaxRefusals /\ refusals \in Nat
        BY <1>0, <1>2, <4>1, WritersRemoveNothingCurrent DEF StoreInv, TypeOK
      <4> QED BY <4>2
    <3> QED BY <2>4, <3>1, <3>2 DEF CurrentHasFile, Current
  <2> QED BY <2>5, <2>6
<1> QED
  BY <1>1, <1>2 DEF Next

\* Every current document has its file, whatever uploads and replacements run at the
\* same time and die at whatever point, when no cleaner runs and no deletion is refused.
THEOREM CurrentFilesExist ==
  ASSUME Cleaners = {}, MaxRefusals = 0
  PROVE  Spec => []CurrentHasFile
<1>1. Init => AtomicInv
  BY StoreInit DEF Init, AtomicInv, PublishedOnDisk, CurrentHasFile, Current, Processes
<1>2. AtomicInv /\ [Next]_vars => AtomicInv'
  BY AtomicInvNext
<1>3. AtomicInv => CurrentHasFile
  BY DEF AtomicInv
<1> QED BY <1>1, <1>2, <1>3, PTL DEF Spec

\* A step of the store is an Upload, an Exchange or invisible.
LEMMA StepIsAtomic ==
  ASSUME Cleaners = {}, MaxRefusals = 0
  PROVE  AtomicInv /\ AtomicInv' /\ [Next]_vars => [Atomic!AtomicNext]_(Atomic!atomicVars)
<1> SUFFICES ASSUME AtomicInv, AtomicInv', [Next]_vars
             PROVE  Atomic!AtomicNext \/ UNCHANGED Atomic!atomicVars
  OBVIOUS
<1>0. StoreInv /\ CurrentHasFile /\ CurrentHasFile'
  BY DEF AtomicInv
<1>1. Current \cap disk = Current /\ (Current \cap disk)' = Current'
  BY <1>0 DEF CurrentHasFile
<1>2. CASE UNCHANGED <<rows, replacedBy>>
  BY <1>1, <1>2 DEF Current, Atomic!atomicVars
<1>3. ASSUME NEW p \in Writers, Commit(p) PROVE Atomic!AtomicNext
  <2>1. /\ mine[p] \in Files /\ mine[p] \notin rows /\ mine[p] # NoFile
        /\ replacedBy[mine[p]] = NoFile /\ rows' = rows \cup {mine[p]}
    BY <1>0, <1>3 DEF Commit, StoreInv, TypeOK, OwnsItsFile
  <2>2. mine[p] \notin Current
    BY <2>1 DEF Current
  <2>3. CASE old[p] = NoFile
    <3>1. Current' = Current \cup {mine[p]}
      BY <1>3, <2>1, <2>3 DEF Commit, Current
    <3>2. Atomic!Upload(mine[p])
      BY <1>1, <2>2, <3>1 DEF Atomic!Upload
    <3> QED BY <2>1, <3>2 DEF Atomic!AtomicNext
  <2>4. CASE old[p] # NoFile
    <3>1. old[p] \in rows /\ old[p] \in Files /\ old[p] # mine[p]
      BY <1>0, <2>1, <2>4 DEF StoreInv, TypeOK
    <3>2. \A f \in Files : replacedBy'[f] = IF f = old[p] THEN mine[p] ELSE replacedBy[f]
      BY <1>0, <1>3, <2>4, <3>1 DEF Commit, StoreInv, TypeOK
    <3>3. rows \subseteq Files
      BY <1>0 DEF StoreInv, TypeOK
    <3>4. Current' = (Current \ {old[p]}) \cup {mine[p]}
      BY <2>1, <3>1, <3>2, <3>3 DEF Current
    <3>5. Atomic!Exchange(old[p], mine[p])
      BY <1>1, <2>2, <3>4 DEF Atomic!Exchange
    <3> QED BY <2>1, <3>1, <3>5 DEF Atomic!AtomicNext
  <2> QED BY <2>3, <2>4
<1>4. ASSUME NEW p \in Writers, Write(p) \/ KillWriter(p), ~Commit(p)
      PROVE  UNCHANGED <<rows, replacedBy>>
  BY <1>4 DEF Write, KillWriter, Stage, StageFails, Publish, Abort, AbortRefused, UnlinkOld,
              UnlinkOldRefused, tables
<1> QED
  BY <1>2, <1>3, <1>4 DEF Next, vars, tables

\* Under the same conditions the store implements AtomicStore.
THEOREM StoreIsAtomic ==
  ASSUME Cleaners = {}, MaxRefusals = 0
  PROVE  Spec => ImplementsAtomic
<1>1. Init => AtomicInv
  BY StoreInit DEF Init, AtomicInv, PublishedOnDisk, CurrentHasFile, Current, Processes
<1>2. AtomicInv /\ [Next]_vars => AtomicInv'
  BY AtomicInvNext
<1>3. Init => Atomic!AtomicInit
  BY DEF Init, Atomic!AtomicInit, Current
<1>4. AtomicInv /\ AtomicInv' /\ [Next]_vars => [Atomic!AtomicNext]_(Atomic!atomicVars)
  BY StepIsAtomic
<1> QED BY <1>1, <1>2, <1>3, <1>4, PTL DEF Spec, ImplementsAtomic, Atomic!AtomicSpec

-----------------------------------------------------------------------------
\* As long as nothing was killed, every file that is not a current document's has a
\* writer that has still to register it or to delete it, and so has every staged copy
\* that could be written.
Tidy ==
  crashes = 0 =>
    /\ \A f \in staged \ unwritten : \E p \in Writers : pc[p] = "staged" /\ mine[p] = f
    /\ \A f \in disk \ Current : \E p \in Writers :
         \/ pc[p] = "published" /\ mine[p] = f
         \/ pc[p] = "replaced" /\ old[p] = f

LEMMA TidyStep ==
  ASSUME StoreInv, Tidy, MaxRefusals = 0, NEW p \in Writers, Write(p) \/ KillWriter(p)
  PROVE  Tidy'
<1> SUFFICES ASSUME crashes' = 0 PROVE Tidy'
  BY DEF Tidy
<1> USE StoreAssumption DEF StoreAssumption, tables, files, writerVars, cleanerVars, faults
<1>1. crashes = 0 /\ ~KillWriter(p) /\ ~UnlinkOldRefused(p) /\ ~AbortRefused(p)
  BY DEF Write, KillWriter, Killed, UnlinkOldRefused, Stage, StageFails, Publish, Commit, Abort,
         AbortRefused, UnlinkOld,
         StoreInv, TypeOK
<1>2. \A q \in Writers : q # p => pc'[q] = pc[q] /\ mine'[q] = mine[q] /\ old'[q] = old[q]
  BY <1>1 DEF StoreInv, TypeOK, Processes, Write, Stage, StageFails, Publish, Commit, Abort,
            UnlinkOld, Forget
<1>3. /\ \A f \in staged \ unwritten : \E q \in Writers : pc[q] = "staged" /\ mine[q] = f
      /\ \A f \in disk \ Current : \E q \in Writers :
           \/ pc[q] = "published" /\ mine[q] = f
           \/ pc[q] = "replaced" /\ old[q] = f
  BY <1>1 DEF Tidy
<1>4. p \in Processes /\ pc \in [Processes -> {"idle", "staged", "published", "replaced",
                                             "listing", "clearing", "unlinking"}]
      /\ mine \in [Writers -> used \cup {NoFile}] /\ old \in [Writers -> rows \cup {NoFile}]
  BY DEF StoreInv, TypeOK, Processes
<1>5. CASE Stage(p)
  <2>1. PICK g \in Files \ used : staged' = staged \cup {g} /\ mine' = [mine EXCEPT ![p] = g]
    BY <1>5 DEF Stage
  <2>2. pc[p] = "idle" /\ pc'[p] = "staged" /\ mine'[p] = g /\ disk' = disk /\ Current' = Current
        /\ unwritten' = unwritten
    BY <1>4, <1>5, <2>1 DEF Stage, Current
  <2> QED BY <1>2, <1>3, <2>1, <2>2 DEF Tidy
<1>6. CASE Publish(p)
  <2>1. /\ pc[p] = "staged" /\ pc'[p] = "published" /\ mine' = mine /\ old' = old
        /\ staged' = staged \ {mine[p]} /\ disk' = disk \cup {mine[p]} /\ Current' = Current
        /\ unwritten' = unwritten
    BY <1>4, <1>6 DEF Publish, Current
  <2> QED BY <1>2, <1>3, <2>1 DEF Tidy
<1>7. CASE Commit(p)
  <2>1. /\ pc[p] = "published" /\ staged' = staged /\ disk' = disk /\ unwritten' = unwritten
        /\ rows' = rows \cup {mine[p]}
    BY <1>7 DEF Commit
  <2>2. mine[p] \in Files /\ mine[p] \notin rows /\ replacedBy[mine[p]] = NoFile
    BY <1>4, <2>1 DEF StoreInv, TypeOK, OwnsItsFile
  <2>3. CASE old[p] = NoFile
    <3>1. Current' = Current \cup {mine[p]}
      BY <1>7, <2>1, <2>2, <2>3 DEF Commit, Current
    <3> QED BY <1>2, <1>3, <2>1, <3>1 DEF Tidy
  <2>4. CASE old[p] # NoFile
    <3>1. old[p] \in rows /\ old[p] \in Files /\ old[p] # mine[p]
      BY <1>4, <2>2, <2>4 DEF StoreInv, TypeOK
    <3>2. \A f \in Files : replacedBy'[f] = IF f = old[p] THEN mine[p] ELSE replacedBy[f]
      BY <1>7, <2>4, <3>1 DEF Commit, StoreInv, TypeOK
    <3>3. rows \subseteq Files
      BY DEF StoreInv, TypeOK
    <3>4. Current' = (Current \ {old[p]}) \cup {mine[p]}
      BY <2>1, <2>2, <3>1, <3>2, <3>3 DEF Current
    <3>5. pc'[p] = "replaced" /\ mine' = mine /\ old' = old
      BY <1>4, <1>7, <2>4 DEF Commit
    <3> QED BY <1>2, <1>3, <2>1, <3>4, <3>5 DEF Tidy
  <2> QED BY <2>3, <2>4
<1>8. CASE Abort(p)
  <2>1. /\ pc[p] \in {"staged", "published"} /\ Current' = Current /\ unwritten' = unwritten
        /\ staged' = staged \ {mine[p]} /\ disk' = disk \ {mine[p]}
    BY <1>8 DEF Abort, Current
  <2> QED BY <1>2, <1>3, <2>1 DEF Tidy
<1>9. CASE StageFails(p)
  <2>1. /\ staged' \ unwritten' \subseteq staged \ unwritten /\ disk' = disk /\ Current' = Current
        /\ UNCHANGED <<pc, mine, old>>
    BY <1>9 DEF StageFails, Current
  <2> QED BY <1>3, <2>1 DEF Tidy
<1>10. CASE UnlinkOld(p)
  <2>1. /\ pc[p] = "replaced" /\ Current' = Current /\ unwritten' = unwritten
        /\ staged' = staged /\ disk' = disk \ {old[p]}
    BY <1>10 DEF UnlinkOld, Current
  <2> QED BY <1>2, <1>3, <2>1 DEF Tidy
<1> QED
  BY <1>1, <1>5, <1>6, <1>7, <1>8, <1>9, <1>10 DEF Write

\* Under the same conditions a store at rest in which nothing was killed has exactly the
\* files of the current documents under uploads/, and under tmp/ only files that could not
\* be written, whatever failed or raced before.
THEOREM RestIsExact ==
  ASSUME Cleaners = {}, MaxRefusals = 0
  PROVE  Spec => []QuiescentExact
<1>1. Init => AtomicInv /\ Tidy
  BY StoreInit DEF Init, AtomicInv, PublishedOnDisk, CurrentHasFile, Current, Processes, Tidy
<1>2. AtomicInv /\ Tidy /\ [Next]_vars => (AtomicInv /\ Tidy)'
  <2> SUFFICES ASSUME AtomicInv, Tidy, [Next]_vars PROVE Tidy'
    BY AtomicInvNext
  <2>1. CASE UNCHANGED vars
    BY <2>1 DEF Tidy, Current, vars, tables, files, writerVars, faults
  <2> QED BY <2>1, TidyStep DEF AtomicInv, Next
<1>3. AtomicInv /\ Tidy => QuiescentExact
  BY DEF AtomicInv, CurrentHasFile, Tidy, QuiescentExact, Processes
<1> QED BY <1>1, <1>2, <1>3, PTL DEF Spec
=============================================================================
