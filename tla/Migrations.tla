----------------------------- MODULE Migrations -----------------------------
(***************************************************************************)
(* run_migrations: every command of main.py and every request of the API   *)
(* server begins with it, each on a connection of its own.                 *)
(*                                                                         *)
(* A migration is a list of statements.  Python's sqlite3 opens a          *)
(* transaction before INSERT but not before CREATE or ALTER, and           *)
(* executescript commits whatever is open before its first statement.  So  *)
(* no migration is a transaction: the row that records a version stays     *)
(* uncommitted until the script of the next migration, or the commit at    *)
(* the end.  A step is one statement that has got its lock, or has given   *)
(* up waiting for it.                                                      *)
(***************************************************************************)
EXTENDS Integers, FiniteSets, FiniteSetsExt, Sequences

CONSTANTS
  Runners,     \* processes that run run_migrations
  Outsider,    \* another writer, such as a worker of the previous release
  NoHolder,    \* nobody has the write lock
  MaxKills,    \* bound: runners killed
  MaxBusy,     \* bound: statements that end with "database is locked"
  MaxHolds     \* bound: times the outsider keeps the lock for that long

ASSUME MigrationsAssumption ==
  /\ MaxKills \in Nat /\ MaxBusy \in Nat /\ MaxHolds \in Nat
  /\ Outsider \notin Runners /\ NoHolder \notin Runners /\ Outsider # NoHolder

VARIABLES
  objects,     \* committed tables, columns, indexes and seed rows
  versions,    \* committed rows of schema_migrations
  holder,      \* who has an open write transaction
  newObjects, newVersions, \* what the holder's transaction has written
  at,          \* where each runner is
  todo,        \* versions it found not applied and has not recorded yet
  line,        \* its next statement in the script of the first of them
  missed,      \* history: columns an ALTER gave up on while the outsider had the lock
  kills, busy, holds

database == <<objects, versions, holder, newObjects, newVersions>>
runnerVars == <<at, todo, line>>
bounds == <<missed, kills, busy, holds>>
vars == <<database, runnerVars, bounds>>

-----------------------------------------------------------------------------
(***************************************************************************)
(* The migrations.                                                         *)
(***************************************************************************)
Latest == 5
Versions == 1..Latest

\* Two of the six columns stand for all: an index needs dedup_key, none needs sent_at.
Columns == {"dedup_key", "sent_at"}

\* The BEGIN of a script commits; the other kinds of statement make something.
Begin == [kind |-> "begin", makes |-> {}, needs |-> {}]
Create(what) == [kind |-> "create", makes |-> what, needs |-> {}]
CreateIndexes == [kind |-> "create", makes |-> {"indexes"}, needs |-> {"dedup_key"}]
AddColumn(what) == [kind |-> "alter", makes |-> {what}, needs |-> {}]
Insert(what) == [kind |-> "insert", makes |-> what, needs |-> {}]

_m001_init == <<Begin, Create({"core"})>>
_m002_ops_and_outbox ==
  <<Begin, Create({"operation_logs"}), Create({"mail_outbox"} \cup Columns), CreateIndexes>>
_m003_outbox_upgrade == <<AddColumn("dedup_key"), AddColumn("sent_at"), Begin, CreateIndexes>>
SeedsInScript == <<Begin, Create({"rbac_tables"}), Create({"rbac_rows"})>> \* mutant
_m004_rbac == <<Begin, Create({"rbac_tables"}), Insert({"rbac_rows"})>>
_m005_api_sessions == <<Begin, Create({"api_sessions"})>>

Script(v) ==
  CASE v = 1 -> _m001_init
    [] v = 2 -> _m002_ops_and_outbox
    [] v = 3 -> _m003_outbox_upgrade
    [] v = 4 -> _m004_rbac
    [] v = 5 -> _m005_api_sessions

\* What a script has made once its first n statements are done.
MadeBy(v, n) == UNION {Script(v)[i].makes : i \in 1..n}
Makes(v) == MadeBy(v, Len(Script(v)))

\* What a recorded version vouches for.  Version 2 of the release before version 3 made
\* neither the columns nor the indexes that version 3 adds.
Provides(v) == Makes(v) \ IF v = 2 THEN Makes(3) ELSE {}

\* A database of an earlier release: the first n versions applied.
Database(n) == UNION {Provides(v) : v \in 1..n}

Init ==
  /\ \E n \in {0, 2, 3, 4} : versions = 1..n /\ objects = Database(n)
  /\ holder = NoHolder /\ newObjects = {} /\ newVersions = {}
  /\ at = [p \in Runners |-> "idle"]
  /\ todo = [p \in Runners |-> {}]
  /\ line = [p \in Runners |-> 1]
  /\ missed = {} /\ kills = 0 /\ busy = 0 /\ holds = 0

-----------------------------------------------------------------------------
(***************************************************************************)
(* One runner.                                                             *)
(***************************************************************************)
\* The migrations are applied in the order of the list.
LastFirst(p) == Max(todo[p])                                    \* mutant
Current(p) == Min(todo[p])

Statement(p) == Script(Current(p))[line[p]]
Applying(p) == at[p] = "running" /\ todo[p] # {} /\ line[p] <= Len(Script(Current(p)))
Does(p, kind) == Applying(p) /\ Statement(p).kind = kind

\* What p sees: the committed state and its own transaction.
Sees(p) == objects \cup IF holder = p THEN newObjects ELSE {}

CanWrite(p) == holder \in {NoHolder, p}

NextLine(p) ==
  /\ line' = [line EXCEPT ![p] = @ + 1]
  /\ UNCHANGED <<at, todo>>

CommitOpen ==
  /\ objects' = objects \cup newObjects
  /\ versions' = versions \cup newVersions
  /\ holder' = NoHolder /\ newObjects' = {} /\ newVersions' = {}

\* The connection is closed: an open transaction is undone.
LeaveKeepsRows(p) ==                                            \* mutant
  /\ at' = [at EXCEPT ![p] = "idle"]
  /\ todo' = [todo EXCEPT ![p] = {}]
  /\ line' = [line EXCEPT ![p] = 1]
  /\ holder' = IF holder = p THEN NoHolder ELSE holder
  /\ UNCHANGED <<objects, versions, newObjects, newVersions>>
Leave(p) ==
  /\ at' = [at EXCEPT ![p] = "idle"]
  /\ todo' = [todo EXCEPT ![p] = {}]
  /\ line' = [line EXCEPT ![p] = 1]
  /\ IF holder = p
     THEN holder' = NoHolder /\ newObjects' = {} /\ newVersions' = {}
     ELSE UNCHANGED <<holder, newObjects, newVersions>>
  /\ UNCHANGED <<objects, versions>>

\* CREATE TABLE IF NOT EXISTS schema_migrations, then the SELECT of the versions.
ReadVersions(p) ==
  /\ at[p] = "idle"
  /\ at' = [at EXCEPT ![p] = "running"]
  /\ todo' = [todo EXCEPT ![p] = Versions \ versions]
  /\ line' = [line EXCEPT ![p] = 1]
  /\ UNCHANGED <<database, bounds>>

BeginScript(p) ==
  /\ Does(p, "begin")
  /\ IF holder = p THEN CommitOpen ELSE UNCHANGED database
  /\ NextLine(p)
  /\ UNCHANGED bounds

\* CREATE ... IF NOT EXISTS commits by itself; it does nothing when the object is
\* there, needing no lock then, and an index on a missing column is an error.
CreateStrict(p) ==                                              \* mutant
  /\ Does(p, "create")
  /\ CanWrite(p)
  /\ IF Statement(p).makes \subseteq objects THEN Leave(p) ELSE
       /\ objects' = objects \cup Statement(p).makes
       /\ NextLine(p)
       /\ UNCHANGED <<versions, holder, newObjects, newVersions>>
  /\ UNCHANGED bounds
CreateSwallowed(p) ==                                           \* mutant
  /\ Does(p, "create")
  /\ CanWrite(p)
  /\ objects' = objects \cup IF Statement(p).needs \subseteq objects
                             THEN Statement(p).makes ELSE {}
  /\ NextLine(p)
  /\ UNCHANGED <<versions, holder, newObjects, newVersions, bounds>>
CreateObject(p) ==
  /\ Does(p, "create")
  /\ IF \E o \in objects \ Columns : o \in Statement(p).makes
     THEN NextLine(p) /\ UNCHANGED database
     ELSE /\ CanWrite(p)
          /\ IF Statement(p).needs \subseteq objects
             THEN /\ objects' = objects \cup Statement(p).makes
                  /\ NextLine(p)
                  /\ UNCHANGED <<versions, holder, newObjects, newVersions>>
             ELSE Leave(p)
  /\ UNCHANGED bounds

\* ALTER TABLE ADD COLUMN inside try ... except OperationalError: pass.  A column that
\* exists is such an error, and needs no lock to be found.
AlterTable(p) ==
  /\ Does(p, "alter")
  /\ Statement(p).makes \subseteq Sees(p) \/ CanWrite(p)
  /\ IF holder = p
     THEN newObjects' = newObjects \cup Statement(p).makes /\ UNCHANGED objects
     ELSE objects' = objects \cup Statement(p).makes /\ UNCHANGED newObjects
  /\ NextLine(p)
  /\ UNCHANGED <<versions, holder, newVersions, bounds>>

\* INSERT OR IGNORE of the roles, permissions and grants.
InsertRows(p) ==
  /\ Does(p, "insert")
  /\ CanWrite(p)
  /\ holder' = p
  /\ newObjects' = newObjects \cup Statement(p).makes
  /\ NextLine(p)
  /\ UNCHANGED <<objects, versions, newVersions, bounds>>

\* INSERT INTO schema_migrations, or IntegrityError when another runner was faster.
RecordVersion(p) ==
  /\ at[p] = "running" /\ todo[p] # {} /\ line[p] > Len(Script(Current(p)))
  /\ CanWrite(p)
  /\ IF Current(p) \in versions
     THEN Leave(p)
     ELSE /\ holder' = p
          /\ newVersions' = newVersions \cup {Current(p)}
          /\ todo' = [todo EXCEPT ![p] = @ \ {Current(p)}]
          /\ line' = [line EXCEPT ![p] = 1]
          /\ UNCHANGED <<objects, versions, newObjects, at>>
  /\ UNCHANGED bounds

\* conn.commit(); the command itself begins.
FinishWithoutCommit(p) ==                                       \* mutant
  /\ at[p] = "running" /\ todo[p] = {}
  /\ at' = [at EXCEPT ![p] = "ready"]
  /\ IF holder = p
     THEN holder' = NoHolder /\ newObjects' = {} /\ newVersions' = {}
     ELSE UNCHANGED <<holder, newObjects, newVersions>>
  /\ UNCHANGED <<objects, versions, todo, line, bounds>>
FinishMigrations(p) ==
  /\ at[p] = "running" /\ todo[p] = {}
  /\ IF holder = p THEN CommitOpen ELSE UNCHANGED database
  /\ at' = [at EXCEPT ![p] = "ready"]
  /\ UNCHANGED <<todo, line, bounds>>

EndCommand(p) ==
  /\ at[p] = "ready"
  /\ Leave(p)
  /\ UNCHANGED bounds

-----------------------------------------------------------------------------
(***************************************************************************)
(* What goes wrong.                                                        *)
(***************************************************************************)
\* A statement that has to write.
Writing(p) ==
  \/ Does(p, "create") /\ ~ \E o \in objects \ Columns : o \in Statement(p).makes
  \/ Does(p, "insert")
  \/ at[p] = "running" /\ todo[p] # {} /\ line[p] > Len(Script(Current(p)))

WaitedTooLong(p) ==
  /\ ~CanWrite(p)
  /\ busy < MaxBusy
  /\ busy' = busy + 1

\* "database is locked" ends the command ...
GiveUp(p) ==
  /\ Writing(p)
  /\ WaitedTooLong(p)
  /\ Leave(p)
  /\ UNCHANGED <<missed, kills, holds>>

\* ... but an ALTER swallows it like any OperationalError.
SkipColumn(p) ==
  /\ Does(p, "alter") /\ ~(Statement(p).makes \subseteq Sees(p))
  /\ WaitedTooLong(p)
  /\ missed' = IF holder = Outsider THEN missed \cup Statement(p).makes ELSE missed
  /\ NextLine(p)
  /\ UNCHANGED <<database, kills, holds>>

Kill(p) ==
  /\ at[p] # "idle"
  /\ kills < MaxKills
  /\ kills' = kills + 1
  /\ Leave(p)
  /\ UNCHANGED <<missed, busy, holds>>

OutsiderLocks ==
  /\ holder = NoHolder
  /\ holds < MaxHolds
  /\ holds' = holds + 1
  /\ holder' = Outsider
  /\ UNCHANGED <<objects, versions, newObjects, newVersions, runnerVars, missed, kills, busy>>

OutsiderUnlocks ==
  /\ holder = Outsider
  /\ holder' = NoHolder
  /\ UNCHANGED <<objects, versions, newObjects, newVersions, runnerVars, bounds>>

RunMigrations(p) ==
  \/ ReadVersions(p) \/ BeginScript(p) \/ CreateObject(p) \/ AlterTable(p)
  \/ InsertRows(p) \/ RecordVersion(p) \/ FinishMigrations(p) \/ EndCommand(p)

Next ==
  \/ \E p \in Runners : RunMigrations(p) \/ GiveUp(p) \/ SkipColumn(p) \/ Kill(p)
  \/ OutsiderLocks \/ OutsiderUnlocks

Spec == Init /\ [][Next]_vars

\* The services are restarted whenever they end (Restart=always), so runners begin
\* again and again; a transaction of another program ends.
Fairness == WF_vars(OutsiderUnlocks) /\ \A p \in Runners : WF_vars(RunMigrations(p))
FairSpec == Spec /\ Fairness

-----------------------------------------------------------------------------
(***************************************************************************)
(* Correctness.                                                            *)
(***************************************************************************)
Everything == UNION {Makes(v) : v \in Versions}

\* The variables stay within their types, only the holder of the lock has uncommitted
\* writes, and a version it has written is not committed yet.
TypeOK ==
  /\ objects \subseteq Everything /\ newObjects \subseteq Everything
  /\ versions \subseteq Versions /\ newVersions \subseteq Versions \ versions
  /\ holder \in Runners \cup {Outsider, NoHolder}
  /\ holder \notin Runners => newObjects = {} /\ newVersions = {}
  /\ at \in [Runners -> {"idle", "running", "ready"}]
  /\ todo \in [Runners -> SUBSET Versions]
  /\ line \in [Runners -> Nat \ {0}]
  /\ missed \subseteq Columns
  /\ kills \in 0..MaxKills /\ busy \in 0..MaxBusy /\ holds \in 0..MaxHolds

\* A recorded version was applied in full, although its statements commit one by one,
\* runners interleave and die between any two of them: all it makes is there, except
\* columns given up on while a writer that is not a runner had the lock.
RecordedIsApplied == \A v \in versions : Provides(v) \ missed \subseteq objects

\* A command whose run_migrations has returned works on the latest schema.
ReadyMeansLatest == \A p \in Runners : at[p] = "ready" => versions = Versions

\* migration_preflight: what the readiness check reports as pending.
Pending == LET current == Max({0} \cup versions) IN Max({0, Latest - current})

\* The preflight counts pending migrations from MAX(version) alone; this is right
\* because versions are recorded in order without gaps, whoever records them.
PreflightExact == Pending = Cardinality(Versions \ versions)

\* The roles and grants become visible together with the version that makes them: a
\* permission check never meets half of the matrix.
GrantsAreAtomic == "rbac_rows" \in objects <=> 4 \in versions

\* Services that are restarted bring every database to the latest version.
Upgraded == <>[](versions = Versions)

\* The tables and columns of a version that is not recorded yet are not in use; the grants
\* are, by every permission check.
Level == Max({0} \cup versions)
InUse == objects \cap ({"rbac_rows"} \cup Database(Level))

\* Interleaved, killed and repeated runs of the migrations, statement by statement, implement
\* SchemaUpgrade: each commit of a version is one upgrade by one version, grants included.
Upgrading == INSTANCE SchemaUpgrade WITH
  Content <- [v \in Versions |-> Provides(v)], Losable <- Columns,
  level <- Level, schema <- InUse, lost <- missed
ImplementsUpgrade == Upgrading!UpgradeSpec

\* A recorded version was applied in full, whoever else uses the database.
ColumnsPresent == 3 \in versions => Columns \subseteq objects

-----------------------------------------------------------------------------
(***************************************************************************)
(* The inductive invariant.  That a recorded version was applied is not    *)
(* inductive: it needs what each runner has done so far, and what exactly  *)
(* an open transaction holds when a script commits it.                     *)
(***************************************************************************)
Recorded(p) == versions \cup IF holder = p THEN newVersions ELSE {}

\* p has recorded the versions below c, or found them recorded, and works on c.
WorksOn(p, c) ==
  /\ todo[p] = c..Latest
  /\ 1..(c - 1) \subseteq Recorded(p)
  /\ c \in Versions =>
       /\ line[p] \in 1..(Len(Script(c)) + 1)
       /\ (MadeBy(c, line[p] - 1) \cap Provides(c)) \ missed \subseteq Sees(p)

RunnerInv(p) ==
  /\ at[p] # "running" => holder # p
  /\ at[p] = "ready" => versions = Versions
  /\ at[p] = "running" => \E c \in 1..(Latest + 1) : WorksOn(p, c)

\* An open transaction of p holds one recorded version, until the script of the next
\* one begins, or the rows of migration 4 not recorded yet.
Uncommitted(p, c) ==
  /\ todo[p] = c..Latest
  /\ \/ /\ newVersions = {c - 1} /\ c > 1 /\ c - 1 \notin versions
        /\ newObjects \subseteq IF c = 3 THEN Columns ELSE IF c = 5 THEN {"rbac_rows"} ELSE {}
        /\ line[p] = 1 \/ (c = 3 /\ line[p] <= 3)
     \/ /\ newVersions = {} /\ c = 4 /\ line[p] = 4
        /\ newObjects \subseteq {"rbac_rows"}

HolderInv == \A p \in Runners : holder = p => \E c \in 1..(Latest + 1) : Uncommitted(p, c)

InOrder == \E n \in 0..Latest : versions = 1..n

NewIsApplied == \A v \in newVersions : Provides(v) \ missed \subseteq objects \cup newObjects

MigInv ==
  /\ TypeOK /\ RecordedIsApplied /\ GrantsAreAtomic
  /\ InOrder /\ NewIsApplied /\ HolderInv
  /\ \A p \in Runners : RunnerInv(p)
=============================================================================
