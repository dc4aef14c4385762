---------------------------- MODULE AtomicBackup ----------------------------
(***************************************************************************)
(* What backup and restore promise when they run alone: writing an archive *)
(* is one step that copies the database file and the files, and replacing  *)
(* the data by an archive is one step too.  If no log lies beside the      *)
(* database file, what is copied and replaced is the database itself.  A   *)
(* command without a fault takes effect: every archive is fit to be        *)
(* restored.  A restore whose failure is undone leaves the data alone; the *)
(* data is lost only if the undoing fails in its turn, or if a restore is  *)
(* killed or interrupted.  An archive is lost only to another backup of    *)
(* the same database file.                                                 *)
(***************************************************************************)
EXTENDS Integers

CONSTANTS
  Data,    \* what a data directory can hold: the database in force, the database file,
           \* whether it is without a log, the files
  Mortal   \* the command may be killed or interrupted

VARIABLES
  data,      \* what is active
  archives,  \* the complete archives
  task,      \* the command that runs: none, backup, restore, or undo of a restore
  faults     \* kills, interrupts and failed steps so far

promise == <<data, archives, task, faults>>

AtomicInit ==
  data \in Data /\ archives = {} /\ task = "none" /\ faults = 0

Fault == faults' = faults + 1

\* Users work, services stop and start, or an earlier loss is repaired by hand.
Work ==
  /\ task = "none"
  /\ data' \in Data
  /\ faults' = faults \/ Fault
  /\ UNCHANGED <<archives, task>>

Begin ==
  /\ task = "none"
  /\ \/ task' = "backup"
     \/ task' = "restore" /\ archives # {}
  /\ UNCHANGED <<data, archives, faults>>

\* An archive is named after the database file, so a backup writes over an earlier one of
\* the same file.
Reuse ==
  /\ task = "backup"
  /\ \E a \in archives : a.db = data.file /\ archives' = archives \ {a}
  /\ UNCHANGED <<data, task, faults>>

WriteArchive ==
  /\ task = "backup"
  /\ archives' = archives \cup {[db |-> data.file, uploads |-> data.uploads]}
  /\ task' = "none"
  /\ UNCHANGED <<data, faults>>

Replace ==
  /\ task = "restore"
  /\ data' \in Data
  /\ \E a \in archives : data'.file = a.db /\ data'.uploads = a.uploads
  /\ data'.clean = data.clean /\ (data.clean => data'.db = data'.file)
  /\ task' = "none"
  /\ UNCHANGED <<archives, faults>>

Stumble ==
  /\ task = "restore"
  /\ task' = "undo"
  /\ Fault
  /\ UNCHANGED <<data, archives>>

\* A command ends without an effect: it failed or was killed, or its failure is undone.
GiveUp ==
  /\ task' = "none"
  /\ Fault \/ (task = "undo" /\ UNCHANGED faults)
  /\ UNCHANGED <<data, archives>>

Wreck ==
  /\ task = "undo" \/ (Mortal /\ task = "restore")
  /\ task' = "none"
  /\ data' \in Data
  /\ Fault
  /\ UNCHANGED archives

AtomicNext ==
  Work \/ Begin \/ Reuse \/ WriteArchive \/ Replace \/ Stumble \/ GiveUp \/ Wreck

AtomicSpec == AtomicInit /\ [][AtomicNext]_promise
=============================================================================
