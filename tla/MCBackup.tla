------------------------------ MODULE MCBackup ------------------------------
(* Small instances of backup and restore. *)
EXTENDS Backup, TLC

\* The documents share a page of the database, and so do the rows of the other tables.
PageOf == [r \in Files \cup Marks |-> IF r \in Files THEN "documents" ELSE "others"]

\* Documents are interchangeable, and so are uploaders.
BackupSymmetry == Permutations(Files) \cup Permutations(Uploaders)
=============================================================================
