-------------------------- MODULE MigrationsProofs --------------------------
(***************************************************************************)
(* Proofs about run_migrations, for any number of processes, kills, lock   *)
(* timeouts and other writers.                                             *)
(***************************************************************************)
EXTENDS Migrations, FiniteSetTheorems, TLAPS

-----------------------------------------------------------------------------
(***************************************************************************)
(* The scripts.                                                            *)
(***************************************************************************)
\* The lowest and the highest number of an interval.
LEMMA MinOfRange ==
  ASSUME NEW c \in Int, NEW d \in Int, c <= d
  PROVE  Min(c..d) = c
BY DEF Min

LEMMA MaxOfPrefix ==
  ASSUME NEW n \in Nat
  PROVE  Max({0} \cup 1..n) = n
BY DEF Max

\* One statement more.
LEMMA MadeByNext ==
  ASSUME NEW v, NEW l \in Nat \ {0}
  PROVE  MadeBy(v, l) = MadeBy(v, l - 1) \cup Script(v)[l].makes
<1>1. 1..l = 1..(l - 1) \cup {l}
  OBVIOUS
<1> QED
  BY <1>1 DEF MadeBy

LEMMA MadeByNone ==
  ASSUME NEW v
  PROVE  MadeBy(v, 0) = {}
<1>1. 1..0 = {}
  OBVIOUS
<1> QED
  BY <1>1 DEF MadeBy

\* How many statements each migration has.
LEMMA ScriptLengths ==
  /\ Len(Script(1)) = 2 /\ Len(Script(2)) = 4 /\ Len(Script(3)) = 4
  /\ Len(Script(4)) = 3 /\ Len(Script(5)) = 2
BY DEF Script, _m001_init, _m002_ops_and_outbox, _m003_outbox_upgrade, _m004_rbac, _m005_api_sessions

LEMMA LenIsNat ==
  ASSUME NEW c \in Versions
  PROVE  Len(Script(c)) \in 2..4
BY ScriptLengths DEF Versions, Latest

\* The places of the statements.
LEMMA Places ==
  ASSUME NEW c \in Versions, NEW l \in 1..Len(Script(c))
  PROVE  \/ c \in {1, 5} /\ l \in {1, 2}
         \/ c \in {2, 3} /\ l \in {1, 2, 3, 4}
         \/ c = 4 /\ l \in {1, 2, 3}
<1>1. c \in {1, 2, 3, 4, 5}
  BY DEF Versions, Latest
<1>2. c \in {1, 5} => Len(Script(c)) = 2
  BY ScriptLengths
<1>3. c \in {2, 3} => Len(Script(c)) = 4
  BY ScriptLengths
<1>4. c = 4 => Len(Script(c)) = 3
  BY ScriptLengths
<1>5. CASE c \in {1, 5}
  <2>1. l \in 1..2
    BY <1>2, <1>5
  <2> QED BY <1>5, <2>1
<1>6. CASE c \in {2, 3}
  <2>1. l \in 1..4
    BY <1>3, <1>6
  <2>2. l = 1 \/ l = 2 \/ l = 3 \/ l = 4
    BY ONLY <2>1
  <2> QED BY <1>6, <2>2
<1>7. CASE c = 4
  <2>1. l \in 1..3
    BY <1>4, <1>7
  <2> QED BY <1>7, <2>1
<1> QED
  BY <1>1, <1>5, <1>6, <1>7

\* Every statement of every script.
LEMMA Statements ==
  /\ Script(1)[1] = Begin /\ Script(1)[2] = Create({"core"})
  /\ Script(2)[1] = Begin /\ Script(2)[2] = Create({"operation_logs"})
  /\ Script(2)[3] = Create({"mail_outbox"} \cup Columns) /\ Script(2)[4] = CreateIndexes
  /\ Script(3)[1] = AddColumn("dedup_key") /\ Script(3)[2] = AddColumn("sent_at")
  /\ Script(3)[3] = Begin /\ Script(3)[4] = CreateIndexes
  /\ Script(4)[1] = Begin /\ Script(4)[2] = Create({"rbac_tables"}) /\ Script(4)[3] = Insert({"rbac_rows"})
  /\ Script(5)[1] = Begin /\ Script(5)[2] = Create({"api_sessions"})
BY DEF Script, _m001_init, _m002_ops_and_outbox, _m003_outbox_upgrade, _m004_rbac, _m005_api_sessions

\* What a statement may be, by its place.
LEMMA StatementKinds ==
  ASSUME NEW c \in Versions, NEW l \in 1..Len(Script(c))
  PROVE  LET s == Script(c)[l] IN
           /\ s.kind = "begin" => s.makes = {} /\ IF c = 3 THEN l = 3 ELSE l = 1
           /\ s.kind = "alter" => c = 3 /\ l \in {1, 2} /\ s.makes \subseteq Columns
           /\ s.kind = "insert" => c = 4 /\ l = 3 /\ s.makes = {"rbac_rows"}
           /\ s.kind = "create" => l > 1 /\ (c = 3 => l = 4) /\ (c = 4 => l = 2)
                                   /\ "rbac_rows" \notin s.makes
<1> DEFINE s == Script(c)[l]
<1>1. CASE c = 1
  <2>1. l \in {1, 2}
    BY <1>1, Places
  <2> QED BY <1>1, <2>1, Statements DEF Begin, Create
<1>2. CASE c = 2
  <2>1. l \in {1, 2, 3, 4}
    BY <1>2, Places
  <2> QED BY <1>2, <2>1, Statements DEF Begin, Create, CreateIndexes, Columns
<1>3. CASE c = 3
  <2>1. l \in {1, 2, 3, 4}
    BY <1>3, Places
  <2> QED BY <1>3, <2>1, Statements DEF Begin, AddColumn, CreateIndexes, Columns
<1>4. CASE c = 4
  <2>1. l \in {1, 2, 3}
    BY <1>4, Places
  <2> QED BY <1>4, <2>1, Statements DEF Begin, Create, Insert
<1>5. CASE c = 5
  <2>1. l \in {1, 2}
    BY <1>5, Places
  <2> QED BY <1>5, <2>1, Statements DEF Begin, Create
<1> QED
  BY <1>1, <1>2, <1>3, <1>4, <1>5 DEF Versions, Latest

\* What the migrations make altogether.
LEMMA AllMade ==
  /\ Makes(1) = {"core"}
  /\ Makes(2) = {"operation_logs", "mail_outbox", "indexes"} \cup Columns
  /\ Makes(3) = {"indexes"} \cup Columns
  /\ Makes(4) = {"rbac_tables", "rbac_rows"}
  /\ Makes(5) = {"api_sessions"}
<1> USE MadeByNone, ScriptLengths, Statements
    DEF Makes, Begin, Create, CreateIndexes, AddColumn, Insert, Columns
<1>1. \A v \in 1..5 : /\ MadeBy(v, 1) = Script(v)[1].makes
                      /\ MadeBy(v, 2) = MadeBy(v, 1) \cup Script(v)[2].makes
                      /\ MadeBy(v, 3) = MadeBy(v, 2) \cup Script(v)[3].makes
                      /\ MadeBy(v, 4) = MadeBy(v, 3) \cup Script(v)[4].makes
  <2> TAKE v \in 1..5
  <2>1. \A l \in 1..4 : MadeBy(v, l) = MadeBy(v, l - 1) \cup Script(v)[l].makes
    BY MadeByNext
  <2>2. 1 - 1 = 0 /\ 2 - 1 = 1 /\ 3 - 1 = 2 /\ 4 - 1 = 3
    OBVIOUS
  <2> QED BY ONLY <2>1, <2>2, MadeByNone
<1>2. Makes(1) = {"core"}
  BY <1>1
<1>3. Makes(2) = {"operation_logs", "mail_outbox", "indexes"} \cup Columns
  <2>1. Makes(2) = Script(2)[1].makes \cup Script(2)[2].makes \cup Script(2)[3].makes \cup Script(2)[4].makes
    <3>1. Makes(2) = MadeBy(2, 4)
      BY ScriptLengths DEF Makes
    <3>2. 2 \in 1..5
      OBVIOUS
    <3> QED BY ONLY <1>1, <3>1, <3>2
  <2> QED BY <2>1
<1>4. Makes(3) = {"indexes"} \cup Columns
  <2>1. Makes(3) = Script(3)[1].makes \cup Script(3)[2].makes \cup Script(3)[3].makes \cup Script(3)[4].makes
    <3>1. Makes(3) = MadeBy(3, 4)
      BY ScriptLengths DEF Makes
    <3>2. 3 \in 1..5
      OBVIOUS
    <3> QED BY ONLY <1>1, <3>1, <3>2
  <2> QED BY <2>1
<1>5. Makes(4) = {"rbac_tables", "rbac_rows"}
  BY <1>1
<1>6. Makes(5) = {"api_sessions"}
  BY <1>1
<1> QED BY <1>2, <1>3, <1>4, <1>5, <1>6

\* What each recorded version vouches for.
LEMMA AllProvided ==
  /\ Provides(1) = {"core"}
  /\ Provides(2) = {"operation_logs", "mail_outbox"}
  /\ Provides(3) = {"indexes"} \cup Columns
  /\ Provides(4) = {"rbac_tables", "rbac_rows"}
  /\ Provides(5) = {"api_sessions"}
BY AllMade DEF Provides, Columns

LEMMA EverythingIs ==
  Everything = {"core", "operation_logs", "mail_outbox", "indexes", "rbac_tables",
                "rbac_rows", "api_sessions"} \cup Columns
<1>1. Everything = Makes(1) \cup Makes(2) \cup Makes(3) \cup Makes(4) \cup Makes(5)
  <2>1. Versions = {1, 2, 3, 4, 5}
    BY DEF Versions, Latest
  <2> QED BY <2>1 DEF Everything
<1> QED BY <1>1, AllMade

\* A CREATE that finds its object there has nothing left to do for its version.
LEMMA OneObject ==
  ASSUME NEW c \in Versions, NEW l \in 1..Len(Script(c)), Script(c)[l].kind = "create",
         NEW o \in Script(c)[l].makes \ Columns
  PROVE  Script(c)[l].makes \cap Provides(c) \subseteq {o}
<1>1. CASE c = 1
  <2>1. l \in {1, 2}
    BY <1>1, Places
  <2> QED BY <1>1, <2>1, Statements DEF Begin, Create
<1>2. CASE c = 2
  <2>1. l \in {1, 2, 3, 4}
    BY <1>2, Places
  <2> QED BY <1>2, <2>1, Statements, AllProvided DEF Begin, Create, CreateIndexes, Columns
<1>3. CASE c = 3
  <2>1. l \in {1, 2, 3, 4}
    BY <1>3, Places
  <2> QED BY <1>3, <2>1, Statements DEF Begin, AddColumn, CreateIndexes, Columns
<1>4. CASE c = 4
  <2>1. l \in {1, 2, 3}
    BY <1>4, Places
  <2> QED BY <1>4, <2>1, Statements DEF Begin, Create, Insert
<1>5. CASE c = 5
  <2>1. l \in {1, 2}
    BY <1>5, Places
  <2> QED BY <1>5, <2>1, Statements DEF Begin, Create
<1> QED
  BY <1>1, <1>2, <1>3, <1>4, <1>5 DEF Versions, Latest

\* What a statement makes is part of the schema.
LEMMA StatementMakes ==
  ASSUME NEW c \in Versions, NEW l \in 1..Len(Script(c))
  PROVE  Script(c)[l].makes \subseteq Everything
<1>1. Script(c)[l].makes \subseteq Makes(c)
  BY LenIsNat DEF Makes, MadeBy
<1> QED
  BY <1>1 DEF Everything

-----------------------------------------------------------------------------
(***************************************************************************)
(* One runner at a time.                                                   *)
(***************************************************************************)
\* A runner that has migrations left works on the first of them.
LEMMA CurrentIs ==
  ASSUME NEW p \in Runners, NEW c \in 1..(Latest + 1), todo[p] = c..Latest, todo[p] # {}
  PROVE  c \in Versions /\ Current(p) = c
BY MinOfRange DEF Current, Versions, Latest

\* Where a runner is when it executes a statement.
LEMMA Position ==
  ASSUME MigInv, NEW p \in Runners, Applying(p)
  PROVE  \E c \in Versions :
           /\ WorksOn(p, c) /\ Current(p) = c
           /\ line[p] \in 1..Len(Script(c))
           /\ Statement(p) = Script(c)[line[p]]
<1>1. PICK c \in 1..(Latest + 1) : WorksOn(p, c)
  BY DEF MigInv, RunnerInv, Applying
<1>2. c \in Versions /\ Current(p) = c
  BY <1>1, CurrentIs DEF WorksOn, Applying
<1>3. line[p] \in 1..Len(Script(c))
  BY <1>1, <1>2, LenIsNat DEF WorksOn, Applying
<1> QED
  BY <1>1, <1>2, <1>3 DEF Statement

\* A statement that leaves what it makes visible is progress.
LEMMA Advance ==
  ASSUME TypeOK, NEW p \in Runners, NEW c \in Versions, WorksOn(p, c),
         line[p] \in 1..Len(Script(c)), NextLine(p),
         Sees(p) \subseteq Sees(p)', Recorded(p) \subseteq Recorded(p)', missed \subseteq missed',
         (Script(c)[line[p]].makes \cap Provides(c)) \ missed' \subseteq Sees(p)'
  PROVE  WorksOn(p, c)'
<1>1. line'[p] = line[p] + 1 /\ todo'[p] = todo[p]
  BY DEF NextLine, TypeOK
<1>2. line'[p] \in 1..(Len(Script(c)) + 1)
  BY <1>1, LenIsNat
<1>3. MadeBy(c, line'[p] - 1) = MadeBy(c, line[p] - 1) \cup Script(c)[line[p]].makes
  <2>1. line'[p] - 1 = line[p] /\ line[p] \in Nat \ {0}
    BY <1>1, LenIsNat
  <2> QED BY <2>1, MadeByNext
<1>4. (MadeBy(c, line'[p] - 1) \cap Provides(c)) \ missed' \subseteq Sees(p)'
  <2>1. (MadeBy(c, line[p] - 1) \cap Provides(c)) \ missed \subseteq Sees(p)
    BY DEF WorksOn
  <2> QED BY <1>3, <2>1
<1>5. 1..(c - 1) \subseteq Recorded(p)'
  BY DEF WorksOn
<1> QED
  BY <1>1, <1>2, <1>4, <1>5 DEF WorksOn

\* Nothing a runner relies on is taken from it by what the others do.
LEMMA OthersStay ==
  ASSUME NEW q \in Runners, RunnerInv(q), versions' \subseteq Versions,
         at'[q] = at[q], todo'[q] = todo[q], line'[q] = line[q],
         holder' = q <=> holder = q,
         holder = q => newObjects' = newObjects /\ newVersions' = newVersions,
         objects \subseteq objects', versions \subseteq versions', missed \subseteq missed'
  PROVE  RunnerInv(q)'
<1>1. Sees(q) \subseteq Sees(q)' /\ Recorded(q) \subseteq Recorded(q)'
  BY DEF Sees, Recorded
<1>2. ASSUME NEW c \in 1..(Latest + 1), WorksOn(q, c) PROVE WorksOn(q, c)'
  BY <1>1, <1>2 DEF WorksOn
<1>3. at'[q] = "running" => \E c \in 1..(Latest + 1) : WorksOn(q, c)'
  BY <1>2 DEF RunnerInv
<1>4. (at'[q] # "running" => holder' # q) /\ (at'[q] = "ready" => versions' = Versions)
  BY DEF RunnerInv
<1> QED
  BY <1>3, <1>4 DEF RunnerInv

\* The holder's open transaction is its own business.
LEMMA TransactionStays ==
  ASSUME NEW q \in Runners, NEW c \in 1..(Latest + 1), Uncommitted(q, c),
         todo'[q] = todo[q], line'[q] = line[q],
         newObjects' = newObjects, newVersions' = newVersions, versions' = versions
  PROVE  Uncommitted(q, c)'
BY DEF Uncommitted

\* What a commit adds: the version recorded last, with what it makes.
LEMMA CommitAdds ==
  ASSUME MigInv, NEW p \in Runners, holder = p, NEW c \in 1..(Latest + 1), Uncommitted(p, c),
         newVersions = {c - 1}, c > 1, c - 1 \notin versions, WorksOn(p, c), CommitOpen
  PROVE  /\ versions' = 1..(c - 1)
         /\ InOrder' /\ GrantsAreAtomic'
         /\ \A v \in versions' : Provides(v) \ missed \subseteq objects'
<1>1. PICK n \in 0..Latest : versions = 1..n
  BY DEF MigInv, InOrder
<1>2. 1..(c - 1) \subseteq versions \cup {c - 1}
  BY DEF WorksOn, Recorded
<1>3. n = c - 2
  <2>1. ~(c - 1 <= n)
    BY <1>1 DEF Latest
  <2>2. c - 2 <= n
    <3>1. CASE c = 2
      BY <3>1 DEF Latest
    <3>2. CASE c > 2
      <4>1. c - 2 \in 1..(c - 1) /\ c - 2 # c - 1
        BY <3>2 DEF Latest
      <4> QED BY <4>1, <1>1, <1>2 DEF Latest
    <3> QED BY <3>1, <3>2 DEF Latest
  <2> QED BY <2>1, <2>2 DEF Latest
<1>4. versions' = 1..(c - 1)
  BY <1>1, <1>3 DEF CommitOpen, Latest
<1>5. InOrder'
  BY <1>4 DEF InOrder, Latest
<1>6. \A v \in versions' : Provides(v) \ missed \subseteq objects'
  BY DEF CommitOpen, MigInv, RecordedIsApplied, NewIsApplied
<1>7. GrantsAreAtomic'
  <2>1. CASE c = 5
    <3>1. 4 \in versions'
      BY <2>1, <1>4
    <3>2. "rbac_rows" \in Provides(4) \ missed
      BY AllProvided DEF MigInv, TypeOK, Columns
    <3> QED BY <3>1, <3>2, <1>6 DEF GrantsAreAtomic
  <2>2. CASE c # 5
    <3>1. 4 \in versions' <=> 4 \in versions
      BY <2>2 DEF CommitOpen, Latest
    <3>2. "rbac_rows" \notin newObjects
      BY <2>2 DEF Uncommitted, Columns
    <3> QED BY <3>1, <3>2 DEF CommitOpen, MigInv, GrantsAreAtomic
  <2> QED BY <2>1, <2>2
<1> QED
  BY <1>4, <1>5, <1>6, <1>7 DEF MigInv

-----------------------------------------------------------------------------
(***************************************************************************)
(* The invariant.                                                          *)
(***************************************************************************)
\* Databases of earlier releases satisfy it.
LEMMA InitMigInv == Init => MigInv
<1> SUFFICES ASSUME Init PROVE MigInv
  OBVIOUS
<1>1. PICK n \in {0, 2, 3, 4} : versions = 1..n /\ objects = Database(n)
  BY DEF Init
<1>2. TypeOK
  <2>1. objects \subseteq Everything
    BY <1>1 DEF Database, Provides, Everything, Versions, Latest
  <2>2. versions \subseteq Versions
    BY <1>1 DEF Versions, Latest
  <2> QED BY <2>1, <2>2, MigrationsAssumption DEF MigrationsAssumption, Init, TypeOK
<1>3. RecordedIsApplied
  BY <1>1 DEF RecordedIsApplied, Database
<1>4. GrantsAreAtomic
  <2>1. ASSUME NEW v \in 1..n, "rbac_rows" \in Provides(v) PROVE v = 4
    <3>1. v \in {1, 2, 3, 4}
      OBVIOUS
    <3> QED BY <2>1, <3>1, AllProvided DEF Columns
  <2>2. "rbac_rows" \in Provides(4)
    BY AllProvided
  <2> QED BY <1>1, <2>1, <2>2 DEF GrantsAreAtomic, Database
<1>5. InOrder
  BY <1>1 DEF InOrder, Latest
<1>6. NewIsApplied /\ HolderInv /\ \A p \in Runners : RunnerInv(p)
  BY MigrationsAssumption DEF MigrationsAssumption, Init, NewIsApplied, HolderInv, RunnerInv
<1> QED
  BY <1>2, <1>3, <1>4, <1>5, <1>6 DEF MigInv

\* A runner may leave at any moment: its open transaction is undone.
LEMMA LeaveStep ==
  ASSUME MigInv, NEW p \in Runners, Leave(p), missed' = missed,
         kills' \in 0..MaxKills, busy' \in 0..MaxBusy, holds' \in 0..MaxHolds
  PROVE  MigInv'
<1> USE DEF Leave
<1>1. TypeOK'
  BY MigrationsAssumption DEF MigrationsAssumption, MigInv, TypeOK
<1>2. RecordedIsApplied' /\ GrantsAreAtomic' /\ InOrder'
  BY DEF MigInv, RecordedIsApplied, GrantsAreAtomic, InOrder
<1>3. NewIsApplied'
  BY DEF MigInv, NewIsApplied
<1>4. ASSUME NEW q \in Runners PROVE RunnerInv(q)'
  <2>1. CASE q = p
    BY <2>1, MigrationsAssumption DEF MigrationsAssumption, MigInv, TypeOK, RunnerInv
  <2>2. CASE q # p
    <3>1. at'[q] = at[q] /\ todo'[q] = todo[q] /\ line'[q] = line[q]
      BY <2>2 DEF MigInv, TypeOK
    <3>2. (holder' = q <=> holder = q) /\ versions' \subseteq Versions
      BY <2>2, MigrationsAssumption DEF MigrationsAssumption, MigInv, TypeOK
    <3>3. holder = q => newObjects' = newObjects /\ newVersions' = newVersions
      BY <2>2
    <3> QED BY <3>1, <3>2, <3>3, OthersStay DEF MigInv
  <2> QED BY <2>1, <2>2
<1>5. HolderInv'
  <2> SUFFICES ASSUME NEW q \in Runners, holder' = q
               PROVE  \E c \in 1..(Latest + 1) : Uncommitted(q, c)'
    BY DEF HolderInv
  <2>1. q # p /\ holder = q
    BY MigrationsAssumption DEF MigrationsAssumption
  <2>2. todo'[q] = todo[q] /\ line'[q] = line[q]
    BY <2>1 DEF MigInv, TypeOK
  <2>3. PICK c \in 1..(Latest + 1) : Uncommitted(q, c)
    BY <2>1 DEF MigInv, HolderInv
  <2> QED BY <2>1, <2>2, <2>3, TransactionStays
<1> QED
  BY <1>1, <1>2, <1>3, <1>4, <1>5 DEF MigInv

LEMMA ReadVersionsStep ==
  ASSUME MigInv, NEW p \in Runners, ReadVersions(p)
  PROVE  MigInv'
<1> USE DEF ReadVersions, database, bounds
<1>1. TypeOK'
  BY DEF MigInv, TypeOK
<1>2. RecordedIsApplied' /\ GrantsAreAtomic' /\ InOrder' /\ NewIsApplied'
  BY DEF MigInv, RecordedIsApplied, GrantsAreAtomic, InOrder, NewIsApplied
<1>3. holder # p
  BY DEF MigInv, RunnerInv
<1>4. RunnerInv(p)'
  <2>1. PICK n \in 0..Latest : versions = 1..n
    BY DEF MigInv, InOrder
  <2>2. todo'[p] = (n + 1)..Latest /\ line'[p] = 1 /\ at'[p] = "running"
    BY <2>1 DEF MigInv, TypeOK, Versions, Latest
  <2>3. 1..((n + 1) - 1) \subseteq Recorded(p)'
    BY <2>1 DEF Recorded, Latest
  <2>4. WorksOn(p, n + 1)'
    BY <2>2, <2>3, MadeByNone, LenIsNat DEF WorksOn, Latest
  <2>5. n + 1 \in 1..(Latest + 1)
    BY DEF Latest
  <2> QED BY <1>3, <2>2, <2>4, <2>5 DEF RunnerInv
<1>5. ASSUME NEW q \in Runners, q # p PROVE RunnerInv(q)'
  <2>1. at'[q] = at[q] /\ todo'[q] = todo[q] /\ line'[q] = line[q]
    BY <1>5 DEF MigInv, TypeOK
  <2> QED BY <2>1, OthersStay DEF MigInv, TypeOK
<1>6. HolderInv'
  <2> SUFFICES ASSUME NEW q \in Runners, holder = q
               PROVE  \E c \in 1..(Latest + 1) : Uncommitted(q, c)'
    BY DEF HolderInv
  <2>1. todo'[q] = todo[q] /\ line'[q] = line[q]
    BY <1>3 DEF MigInv, TypeOK
  <2>2. PICK c \in 1..(Latest + 1) : Uncommitted(q, c)
    BY DEF MigInv, HolderInv
  <2> QED BY <2>1, <2>2, TransactionStays
<1> QED
  BY <1>1, <1>2, <1>4, <1>5, <1>6 DEF MigInv

LEMMA BeginScriptStep ==
  ASSUME MigInv, NEW p \in Runners, BeginScript(p)
  PROVE  MigInv'
<1> USE DEF BeginScript, bounds
<1>1. PICK c \in Versions :
        /\ WorksOn(p, c) /\ Current(p) = c /\ line[p] \in 1..Len(Script(c))
        /\ Statement(p) = Script(c)[line[p]]
  BY Position DEF Does
<1>2. Script(c)[line[p]].makes = {} /\ (IF c = 3 THEN line[p] = 3 ELSE line[p] = 1)
  BY <1>1, StatementKinds DEF Does
<1>3. /\ at'[p] = at[p] /\ todo'[p] = todo[p] /\ line'[p] = line[p] + 1 /\ at[p] = "running"
      /\ \A q \in Runners \ {p} : at'[q] = at[q] /\ todo'[q] = todo[q] /\ line'[q] = line[q]
  BY DEF MigInv, TypeOK, NextLine, Does, Applying
<1>4. todo' \in [Runners -> SUBSET Versions] /\ line' \in [Runners -> Nat \ {0}]
  BY DEF MigInv, TypeOK, NextLine
<1>5. c \in 1..(Latest + 1)
  BY DEF Versions, Latest
<1>6. CASE holder # p
  <2> USE <1>6 DEF database
  <2>1. TypeOK'
    BY <1>3, <1>4 DEF MigInv, TypeOK, NextLine
  <2>2. RecordedIsApplied' /\ GrantsAreAtomic' /\ InOrder' /\ NewIsApplied'
    BY DEF MigInv, RecordedIsApplied, GrantsAreAtomic, InOrder, NewIsApplied
  <2>3. WorksOn(p, c)'
    BY <1>1, <1>2, Advance DEF MigInv, Sees, Recorded
  <2>4. RunnerInv(p)'
    BY <1>3, <1>5, <2>3 DEF RunnerInv
  <2>5. ASSUME NEW q \in Runners, q # p PROVE RunnerInv(q)'
    BY <1>3, <2>5, OthersStay DEF MigInv, TypeOK
  <2>6. HolderInv'
    BY <1>3, TransactionStays DEF MigInv, HolderInv
  <2> QED BY <2>1, <2>2, <2>4, <2>5, <2>6 DEF MigInv
<1>7. CASE holder = p
  <2>1. CommitOpen
    BY <1>7
  <2>2. PICK d \in 1..(Latest + 1) : Uncommitted(p, d)
    BY <1>7 DEF MigInv, HolderInv
  <2>3. d = c
    BY <1>1, <2>2, CurrentIs DEF Uncommitted, Does, Applying
  <2>4. newVersions = {c - 1} /\ c > 1 /\ c - 1 \notin versions
    BY <1>2, <2>2, <2>3 DEF Uncommitted
  <2>5. /\ InOrder' /\ GrantsAreAtomic' /\ versions' = 1..(c - 1)
        /\ \A v \in versions' : Provides(v) \ missed \subseteq objects'
    BY <1>1, <1>5, <1>7, <2>1, <2>2, <2>3, <2>4, CommitAdds
  <2>6. TypeOK'
    BY <1>3, <1>4, <2>1, MigrationsAssumption
    DEF MigrationsAssumption, MigInv, TypeOK, CommitOpen, NextLine
  <2>7. RecordedIsApplied' /\ NewIsApplied' /\ HolderInv'
    BY <2>1, <2>5, MigrationsAssumption
    DEF MigrationsAssumption, CommitOpen, RecordedIsApplied, NewIsApplied, HolderInv
  <2>8. RunnerInv(p)'
    <3>1. Sees(p) \subseteq Sees(p)' /\ Recorded(p) \subseteq Recorded(p)'
      BY <1>7, <2>1 DEF Sees, Recorded, CommitOpen
    <3>2. WorksOn(p, c)'
      BY <1>1, <1>2, <3>1, Advance DEF MigInv
    <3> QED BY <1>3, <1>5, <3>2 DEF RunnerInv
  <2>9. ASSUME NEW q \in Runners, q # p PROVE RunnerInv(q)'
    <3>1. holder # q /\ holder' # q
      BY <1>7, <2>1, <2>9, MigrationsAssumption DEF MigrationsAssumption, CommitOpen
    <3>2. objects \subseteq objects' /\ versions \subseteq versions'
      BY <2>1 DEF CommitOpen
    <3> QED BY <1>3, <2>6, <2>9, <3>1, <3>2, OthersStay DEF MigInv, TypeOK
  <2> QED BY <2>5, <2>6, <2>7, <2>8, <2>9 DEF MigInv
<1> QED
  BY <1>6, <1>7

\* A CREATE is not executed inside an open transaction of the same runner.
LEMMA CreateStep ==
  ASSUME MigInv, NEW p \in Runners, CreateObject(p)
  PROVE  MigInv'
<1> USE DEF CreateObject, bounds
<1>1. PICK c \in Versions :
        /\ WorksOn(p, c) /\ Current(p) = c /\ line[p] \in 1..Len(Script(c))
        /\ Statement(p) = Script(c)[line[p]]
  BY Position DEF Does
<1> DEFINE s == Script(c)[line[p]]
<1>2. /\ s.kind = "create" /\ line[p] > 1 /\ (c = 3 => line[p] = 4) /\ (c = 4 => line[p] = 2)
      /\ "rbac_rows" \notin s.makes /\ s.makes \subseteq Everything
  BY <1>1, StatementKinds, StatementMakes DEF Does
<1>3. c \in 1..(Latest + 1)
  BY DEF Versions, Latest
<1>4. holder # p
  <2> SUFFICES ASSUME holder = p PROVE FALSE
    OBVIOUS
  <2>1. PICK d \in 1..(Latest + 1) : Uncommitted(p, d)
    BY DEF MigInv, HolderInv
  <2>2. d = c
    BY <1>1, <2>1, CurrentIs DEF Uncommitted, Does, Applying
  <2> QED BY <1>1, <1>2, <2>1, <2>2, LenIsNat DEF Uncommitted
<1>5. CASE ~(NextLine(p))
  <2>1. Leave(p)
    BY <1>5
  <2> QED BY <2>1, LeaveStep DEF MigInv, TypeOK
<1>6. CASE NextLine(p)
  <2>1. /\ at'[p] = at[p] /\ todo'[p] = todo[p] /\ line'[p] = line[p] + 1 /\ at[p] = "running"
        /\ \A q \in Runners \ {p} : at'[q] = at[q] /\ todo'[q] = todo[q] /\ line'[q] = line[q]
    BY <1>6 DEF MigInv, TypeOK, NextLine, Does, Applying
  <2>2. CASE \E o \in objects \ Columns : o \in Statement(p).makes
    <3> USE <2>2 DEF database
    <3>1. TypeOK'
      BY <2>1, <1>6 DEF MigInv, TypeOK, NextLine
    <3>2. RecordedIsApplied' /\ GrantsAreAtomic' /\ InOrder' /\ NewIsApplied'
      BY DEF MigInv, RecordedIsApplied, GrantsAreAtomic, InOrder, NewIsApplied
    <3>3. s.makes \cap Provides(c) \subseteq objects
      BY <1>1, <1>2, OneObject
    <3>4. WorksOn(p, c)'
      BY <1>1, <1>6, <3>3, Advance DEF MigInv, Sees, Recorded
    <3>5. RunnerInv(p)'
      BY <1>3, <2>1, <1>4, <3>4 DEF RunnerInv
    <3>6. ASSUME NEW q \in Runners, q # p PROVE RunnerInv(q)'
      BY <2>1, <3>6, OthersStay DEF MigInv, TypeOK
    <3>7. HolderInv'
      BY <2>1, <1>4, TransactionStays DEF MigInv, HolderInv
    <3> QED BY <3>1, <3>2, <3>5, <3>6, <3>7 DEF MigInv
  <2>3. CASE ~(\E o \in objects \ Columns : o \in Statement(p).makes)
    <3>1. CanWrite(p)
      BY <2>3
    <3>2. holder = NoHolder
      BY <1>4, <3>1 DEF CanWrite
    <3>3. \/ Leave(p)
          \/ /\ objects' = objects \cup s.makes
             /\ UNCHANGED <<versions, holder, newObjects, newVersions>>
      BY <1>1, <2>3
    <3>4. CASE Leave(p)
      BY <3>4, LeaveStep DEF MigInv, TypeOK
    <3>5. CASE /\ objects' = objects \cup s.makes
               /\ UNCHANGED <<versions, holder, newObjects, newVersions>>
      <4> USE <3>5
      <4>1. TypeOK'
        BY <2>1, <1>6, <1>2 DEF MigInv, TypeOK, NextLine
      <4>2. RecordedIsApplied' /\ InOrder' /\ NewIsApplied'
        BY DEF MigInv, RecordedIsApplied, InOrder, NewIsApplied
      <4>3. GrantsAreAtomic'
        BY <1>2 DEF MigInv, GrantsAreAtomic
      <4>4. WorksOn(p, c)'
        BY <1>1, <1>6, Advance DEF MigInv, Sees, Recorded
      <4>5. RunnerInv(p)'
        BY <1>3, <2>1, <1>4, <4>4 DEF RunnerInv
      <4>6. ASSUME NEW q \in Runners, q # p PROVE RunnerInv(q)'
        BY <2>1, <4>1, <4>6, OthersStay DEF MigInv, TypeOK
      <4>7. HolderInv'
        BY <3>2, MigrationsAssumption DEF MigrationsAssumption, HolderInv
      <4> QED BY <4>1, <4>2, <4>3, <4>5, <4>6, <4>7 DEF MigInv
    <3> QED BY <3>3, <3>4, <3>5
  <2> QED BY <2>2, <2>3
<1> QED
  BY <1>5, <1>6

\* When another runner holds the lock while p adds columns, version 3 has been recorded
\* or was about to be: the columns are there, or were missed.
LEMMA ColumnsThere ==
  ASSUME MigInv, NEW p \in Runners, NEW q \in Runners, p # q, holder = q, WorksOn(p, 3)
  PROVE  Columns \ missed \subseteq objects
<1>1. 2 \in versions
  <2>1. 2 \in 1..(3 - 1)
    OBVIOUS
  <2> QED BY <2>1 DEF WorksOn, Recorded
<1>2. PICK d \in 1..(Latest + 1) : Uncommitted(q, d)
  BY DEF MigInv, HolderInv
<1>3. RunnerInv(q)
  BY DEF MigInv
<1>4. PICK e \in 1..(Latest + 1) : WorksOn(q, e)
  BY <1>3 DEF RunnerInv
<1>5. 1..(d - 1) \subseteq versions \cup newVersions
  <2>1. (d = e) \/ (todo[q] = {} /\ d = Latest + 1 /\ e = Latest + 1)
    BY <1>2, <1>4 DEF Uncommitted, WorksOn, Latest
  <2> QED BY <1>4, <2>1 DEF WorksOn, Recorded
<1>6. PICK n \in 0..Latest : versions = 1..n
  BY DEF MigInv, InOrder
<1>7. d >= 4
  <2>1. CASE newVersions = {d - 1} /\ d > 1 /\ d - 1 \notin versions
    <3>1. d - 1 # 2 /\ d - 1 # 1
      BY <1>1, <1>6, <2>1 DEF Latest
    <3> QED BY <2>1, <3>1 DEF Latest
  <2>2. CASE newVersions = {} /\ d = 4
    BY <2>2
  <2> QED BY <1>2, <2>1, <2>2 DEF Uncommitted
<1>8. 3 \in versions \cup newVersions
  BY <1>5, <1>7 DEF Latest
<1>9. newObjects \cap Columns = {}
  BY <1>2, <1>7 DEF Uncommitted, Columns, Latest
<1>10. Provides(3) \ missed \subseteq objects \cup newObjects
  BY <1>8 DEF MigInv, RecordedIsApplied, NewIsApplied
<1> QED
  BY <1>9, <1>10, AllProvided

LEMMA AlterStep ==
  ASSUME MigInv, NEW p \in Runners, AlterTable(p)
  PROVE  MigInv'
<1> USE DEF AlterTable, bounds
<1>1. PICK c \in Versions :
        /\ WorksOn(p, c) /\ Current(p) = c /\ line[p] \in 1..Len(Script(c))
        /\ Statement(p) = Script(c)[line[p]]
  BY Position DEF Does
<1> DEFINE s == Script(c)[line[p]]
<1>2. c = 3 /\ line[p] \in {1, 2} /\ s.makes \subseteq Columns /\ s.makes \subseteq Everything
  BY <1>1, StatementKinds, StatementMakes DEF Does
<1>3. /\ at'[p] = at[p] /\ todo'[p] = todo[p] /\ line'[p] = line[p] + 1 /\ at[p] = "running"
      /\ \A q \in Runners \ {p} : at'[q] = at[q] /\ todo'[q] = todo[q] /\ line'[q] = line[q]
  BY DEF MigInv, TypeOK, NextLine, Does, Applying
<1>4. \/ /\ holder = p /\ newObjects' = newObjects \cup s.makes /\ objects' = objects
      \/ /\ holder # p /\ objects' = objects \cup s.makes /\ newObjects' = newObjects
  BY <1>1
<1>5. holder' = holder /\ versions' = versions /\ newVersions' = newVersions /\ missed' = missed
  OBVIOUS
<1>6. TypeOK'
  BY <1>2, <1>4 DEF MigInv, TypeOK, NextLine
<1>7. RecordedIsApplied' /\ InOrder' /\ NewIsApplied'
  BY <1>4, <1>5 DEF MigInv, RecordedIsApplied, InOrder, NewIsApplied
<1>8. GrantsAreAtomic'
  BY <1>2, <1>4, <1>5 DEF MigInv, GrantsAreAtomic, Columns
<1>9. RunnerInv(p)'
  <2>1. Sees(p) \subseteq Sees(p)' /\ Recorded(p) \subseteq Recorded(p)' /\ s.makes \subseteq Sees(p)'
    BY <1>4, <1>5 DEF Sees, Recorded
  <2>2. WorksOn(p, c)'
    BY <1>1, <1>5, <2>1, Advance DEF MigInv
  <2>3. c \in 1..(Latest + 1)
    BY DEF Versions, Latest
  <2> QED BY <1>3, <2>2, <2>3 DEF RunnerInv
<1>10. ASSUME NEW q \in Runners, q # p PROVE RunnerInv(q)'
  <2>1. objects \subseteq objects' /\ (holder = q => newObjects' = newObjects)
    BY <1>4, <1>10
  <2> QED BY <1>3, <1>5, <1>6, <1>10, <2>1, OthersStay DEF MigInv, TypeOK
<1>11. ASSUME NEW q \in Runners, holder' = q
       PROVE  \E d \in 1..(Latest + 1) : Uncommitted(q, d)'
  <2>1. PICK d \in 1..(Latest + 1) : Uncommitted(q, d)
    BY <1>5, <1>11 DEF MigInv, HolderInv
  <2>2. CASE q = p
    <3>1. d = c
      BY <1>1, <2>1, <2>2, CurrentIs DEF Uncommitted, Does, Applying
    <3>2. newObjects' \subseteq Columns /\ line'[p] <= 3
      BY <1>2, <1>3, <1>4, <1>5, <1>11, <2>1, <2>2, <3>1 DEF Uncommitted
    <3>3. newVersions = {c - 1} /\ c > 1 /\ c - 1 \notin versions /\ todo[p] = c..Latest
      BY <1>2, <2>1, <2>2, <3>1 DEF Uncommitted
    <3>4. Uncommitted(p, d)'
      BY <1>2, <1>3, <1>5, <3>1, <3>2, <3>3 DEF Uncommitted
    <3> QED BY <2>2, <3>4
  <2>3. CASE q # p
    BY <1>3, <1>4, <1>5, <1>11, <2>1, <2>3, TransactionStays
  <2> QED BY <2>2, <2>3
<1>12. HolderInv'
  BY <1>11 DEF HolderInv
<1> QED
  BY <1>6, <1>7, <1>8, <1>9, <1>10, <1>12 DEF MigInv

\* An ALTER given up on: either the outsider had the lock, and the column is missed, or
\* another runner had it, and had added the column before.
LEMMA SkipStep ==
  ASSUME MigInv, NEW p \in Runners, SkipColumn(p)
  PROVE  MigInv'
<1> USE DEF SkipColumn, database
<1>1. PICK c \in Versions :
        /\ WorksOn(p, c) /\ Current(p) = c /\ line[p] \in 1..Len(Script(c))
        /\ Statement(p) = Script(c)[line[p]]
  BY Position DEF Does
<1> DEFINE s == Script(c)[line[p]]
<1>2. c = 3 /\ line[p] \in {1, 2} /\ s.makes \subseteq Columns
  BY <1>1, StatementKinds DEF Does
<1>3. /\ at'[p] = at[p] /\ todo'[p] = todo[p] /\ line'[p] = line[p] + 1 /\ at[p] = "running"
      /\ \A q \in Runners \ {p} : at'[q] = at[q] /\ todo'[q] = todo[q] /\ line'[q] = line[q]
  BY DEF MigInv, TypeOK, NextLine, Does, Applying
<1>4. /\ missed \subseteq missed' /\ missed' \subseteq Columns
      /\ holder = Outsider => s.makes \subseteq missed'
  BY <1>1, <1>2 DEF MigInv, TypeOK
<1>5. TypeOK'
  BY <1>4, MigrationsAssumption DEF MigrationsAssumption, MigInv, TypeOK, NextLine, WaitedTooLong
<1>6. RecordedIsApplied' /\ GrantsAreAtomic' /\ InOrder' /\ NewIsApplied'
  BY <1>4 DEF MigInv, RecordedIsApplied, GrantsAreAtomic, InOrder, NewIsApplied
<1>7. holder # p /\ holder \in Runners \cup {Outsider}
  BY DEF MigInv, TypeOK, WaitedTooLong, CanWrite
<1>8. s.makes \ missed' \subseteq objects
  <2>1. CASE holder = Outsider
    BY <1>4, <2>1
  <2>2. CASE holder \in Runners
    BY <1>1, <1>2, <1>4, <1>7, <2>2, ColumnsThere
  <2> QED BY <1>7, <2>1, <2>2
<1>9. RunnerInv(p)'
  <2>1. WorksOn(p, c)'
    BY <1>1, <1>4, <1>8, Advance DEF MigInv, Sees, Recorded
  <2>2. c \in 1..(Latest + 1)
    BY DEF Versions, Latest
  <2> QED BY <1>3, <1>7, <2>1, <2>2 DEF RunnerInv
<1>10. ASSUME NEW q \in Runners, q # p PROVE RunnerInv(q)'
  BY <1>3, <1>4, <1>5, <1>10, OthersStay DEF MigInv, TypeOK
<1>11. HolderInv'
  BY <1>3, <1>7, TransactionStays DEF MigInv, HolderInv
<1> QED
  BY <1>5, <1>6, <1>9, <1>10, <1>11 DEF MigInv

LEMMA InsertStep ==
  ASSUME MigInv, NEW p \in Runners, InsertRows(p)
  PROVE  MigInv'
<1> USE DEF InsertRows, bounds
<1>1. PICK c \in Versions :
        /\ WorksOn(p, c) /\ Current(p) = c /\ line[p] \in 1..Len(Script(c))
        /\ Statement(p) = Script(c)[line[p]]
  BY Position DEF Does
<1> DEFINE s == Script(c)[line[p]]
<1>2. c = 4 /\ line[p] = 3 /\ s.makes = {"rbac_rows"} /\ "rbac_rows" \in Everything
  BY <1>1, StatementKinds, EverythingIs DEF Does
<1>3. /\ at'[p] = at[p] /\ todo'[p] = todo[p] /\ line'[p] = line[p] + 1 /\ at[p] = "running"
      /\ \A q \in Runners \ {p} : at'[q] = at[q] /\ todo'[q] = todo[q] /\ line'[q] = line[q]
  BY DEF MigInv, TypeOK, NextLine, Does, Applying
<1>4. holder = NoHolder
  <2>1. holder # p
    <3> SUFFICES ASSUME holder = p PROVE FALSE
      OBVIOUS
    <3>1. PICK d \in 1..(Latest + 1) : Uncommitted(p, d)
      BY DEF MigInv, HolderInv
    <3>2. d = c
      BY <1>1, <3>1, CurrentIs DEF Uncommitted, Does, Applying
    <3> QED BY <1>2, <3>1, <3>2 DEF Uncommitted
  <2> QED BY <2>1 DEF CanWrite
<1>5. newObjects = {} /\ newVersions = {} /\ newObjects' = {"rbac_rows"} /\ holder' = p
  BY <1>1, <1>2, <1>4, MigrationsAssumption DEF MigrationsAssumption, MigInv, TypeOK
<1>6. TypeOK'
  BY <1>2, <1>5 DEF MigInv, TypeOK, NextLine
<1>7. RecordedIsApplied' /\ GrantsAreAtomic' /\ InOrder' /\ NewIsApplied'
  BY <1>5 DEF MigInv, RecordedIsApplied, GrantsAreAtomic, InOrder, NewIsApplied
<1>8. WorksOn(p, c)'
  <2>1. Sees(p) \subseteq Sees(p)' /\ Recorded(p) \subseteq Recorded(p)' /\ s.makes \subseteq Sees(p)'
    BY <1>2, <1>4, <1>5, MigrationsAssumption DEF MigrationsAssumption, Sees, Recorded
  <2> QED BY <1>1, <2>1, Advance DEF MigInv
<1>9. RunnerInv(p)'
  BY <1>2, <1>3, <1>8 DEF RunnerInv, Latest
<1>10. ASSUME NEW q \in Runners, q # p PROVE RunnerInv(q)'
  <2>1. holder # q /\ holder' # q
    BY <1>4, <1>5, <1>10, MigrationsAssumption DEF MigrationsAssumption
  <2> QED BY <1>3, <1>6, <1>10, <2>1, OthersStay DEF MigInv, TypeOK
<1>11. HolderInv'
  <2>1. Uncommitted(p, c)'
    <3>1. todo'[p] = c..Latest /\ line'[p] = 4
      BY <1>1, <1>2, <1>3 DEF WorksOn
    <3> QED BY <1>2, <1>5, <3>1 DEF Uncommitted
  <2> QED BY <1>2, <1>5, <2>1 DEF HolderInv, Latest
<1> QED
  BY <1>6, <1>7, <1>9, <1>10, <1>11 DEF MigInv

\* A version is recorded after the last statement of its script.
LEMMA RecordStep ==
  ASSUME MigInv, NEW p \in Runners, RecordVersion(p)
  PROVE  MigInv'
<1> USE DEF RecordVersion, bounds
<1>1. PICK c \in 1..(Latest + 1) : WorksOn(p, c)
  BY DEF MigInv, RunnerInv
<1>2. c \in Versions /\ Current(p) = c
  BY <1>1, CurrentIs DEF WorksOn
<1>3. line[p] = Len(Script(c)) + 1
  BY <1>1, <1>2, LenIsNat DEF WorksOn
<1>4. Provides(c) \ missed \subseteq Sees(p)
  <2>1. line[p] - 1 = Len(Script(c))
    BY <1>2, <1>3, LenIsNat
  <2>2. Provides(c) \subseteq MadeBy(c, line[p] - 1)
    BY <2>1 DEF Provides, Makes
  <2> QED BY <1>1, <1>2, <2>2 DEF WorksOn
<1>5. newVersions = {} /\ newObjects \subseteq (IF c = 4 THEN {"rbac_rows"} ELSE {})
  <2>1. CASE holder = p
    <3>1. PICK d \in 1..(Latest + 1) : Uncommitted(p, d)
      BY <2>1 DEF MigInv, HolderInv
    <3>2. d = c
      <4>1. todo[p] # {} /\ todo[p] = c..Latest /\ todo[p] = d..Latest
        BY <1>1, <3>1 DEF Uncommitted, WorksOn
      <4>2. Current(p) = d
        BY <4>1, CurrentIs
      <4> QED BY <1>2, <4>2
    <3>3. line[p] > 1
      <4>1. Len(Script(c)) \in 2..4
        BY ONLY <1>2, LenIsNat
      <4> QED BY ONLY <1>3, <4>1
    <3>4. ASSUME c = 3 PROVE line[p] = 5
      <4>1. Len(Script(c)) = 4
        BY ONLY <3>4, ScriptLengths
      <4>2. line[p] = 4 + 1
        BY ONLY <1>3, <4>1, Zenon
      <4> QED BY ONLY <4>2
    <3> QED BY <3>1, <3>2, <3>3, <3>4 DEF Uncommitted
  <2>2. CASE holder # p
    BY <2>2, MigrationsAssumption DEF MigrationsAssumption, MigInv, TypeOK, CanWrite
  <2> QED BY <2>1, <2>2
<1>6. CASE c \in versions
  <2>1. Leave(p)
    BY <1>2, <1>6
  <2> QED BY <2>1, LeaveStep DEF MigInv, TypeOK
<1>7. CASE c \notin versions
  <2>1. /\ holder' = p /\ newVersions' = {c} /\ todo' = [todo EXCEPT ![p] = @ \ {c}]
        /\ line' = [line EXCEPT ![p] = 1] /\ UNCHANGED <<objects, versions, newObjects, at, missed, kills, busy, holds>>
    BY <1>2, <1>5, <1>7
  <2>2. /\ at'[p] = at[p] /\ at[p] = "running" /\ line'[p] = 1 /\ todo'[p] = (c + 1)..Latest
        /\ \A q \in Runners \ {p} : at'[q] = at[q] /\ todo'[q] = todo[q] /\ line'[q] = line[q]
    <3>1. (c..Latest) \ {c} = (c + 1)..Latest
      BY DEF Latest
    <3> QED BY <1>1, <2>1, <3>1 DEF MigInv, TypeOK, WorksOn
  <2>3. TypeOK'
    BY <1>2, <1>7, <2>1 DEF MigInv, TypeOK
  <2>4. RecordedIsApplied' /\ GrantsAreAtomic' /\ InOrder'
    BY <2>1 DEF MigInv, RecordedIsApplied, GrantsAreAtomic, InOrder
  <2>5. NewIsApplied'
    BY <1>4, <2>1 DEF NewIsApplied, Sees
  <2>6. c + 1 \in 1..(Latest + 1) /\ (c + 1) - 1 = c
    BY <1>2 DEF Versions, Latest
  <2>7. WorksOn(p, c + 1)'
    <3>1. 1..((c + 1) - 1) \subseteq Recorded(p)'
      <4>1. Recorded(p)' = versions \cup {c}
        BY <2>1 DEF Recorded
      <4>2. 1..(c - 1) \subseteq versions
        BY <1>1, <1>5 DEF WorksOn, Recorded
      <4>3. 1..c = 1..(c - 1) \cup {c}
        BY <1>2 DEF Versions
      <4> QED BY <2>6, <4>1, <4>2, <4>3
    <3>2. c + 1 \in Versions => 1 \in 1..(Len(Script(c + 1)) + 1)
      BY LenIsNat
    <3>3. MadeBy(c + 1, 1 - 1) = {}
      BY MadeByNone
    <3> QED BY <2>2, <3>1, <3>2, <3>3 DEF WorksOn
  <2>8. RunnerInv(p)'
    BY <2>2, <2>6, <2>7 DEF RunnerInv
  <2>9. ASSUME NEW q \in Runners, q # p PROVE RunnerInv(q)'
    <3>1. holder # q /\ holder' # q
      BY <2>1, <2>9, MigrationsAssumption DEF MigrationsAssumption, CanWrite
    <3> QED BY <2>1, <2>2, <2>3, <2>9, <3>1, OthersStay DEF MigInv, TypeOK
  <2>10. HolderInv'
    <3>1. newObjects' \subseteq IF c + 1 = 3 THEN Columns ELSE IF c + 1 = 5 THEN {"rbac_rows"} ELSE {}
      BY <1>2, <1>5, <2>1 DEF Versions, Latest
    <3>2. Uncommitted(p, c + 1)'
      BY <1>2, <1>7, <2>1, <2>2, <2>6, <3>1 DEF Uncommitted, Versions
    <3> QED BY <2>1, <2>6, <3>2 DEF HolderInv
  <2> QED BY <2>3, <2>4, <2>5, <2>8, <2>9, <2>10 DEF MigInv
<1> QED
  BY <1>6, <1>7

\* conn.commit(): every version is recorded now.
LEMMA FinishStep ==
  ASSUME MigInv, NEW p \in Runners, FinishMigrations(p)
  PROVE  MigInv'
<1> USE DEF FinishMigrations, bounds
<1>1. PICK c \in 1..(Latest + 1) : WorksOn(p, c)
  BY DEF MigInv, RunnerInv
<1>2. c = Latest + 1
  <2>1. c..Latest = {}
    BY <1>1 DEF WorksOn
  <2>2. ~(c \in c..Latest)
    BY ONLY <2>1
  <2> QED BY <2>2 DEF Latest
<1>3. /\ at'[p] = "ready" /\ todo' = todo /\ line' = line /\ missed' = missed
      /\ \A q \in Runners \ {p} : at'[q] = at[q]
      /\ at' \in [Runners -> {"idle", "running", "ready"}]
  BY DEF MigInv, TypeOK
<1>4. CASE holder # p
  <2> USE <1>4 DEF database
  <2>1. TypeOK'
    BY <1>3 DEF MigInv, TypeOK
  <2>2. RecordedIsApplied' /\ GrantsAreAtomic' /\ InOrder' /\ NewIsApplied'
    BY DEF MigInv, RecordedIsApplied, GrantsAreAtomic, InOrder, NewIsApplied
  <2>3. versions = Versions
    <3>1. 1..(c - 1) \subseteq versions
      BY <1>1 DEF WorksOn, Recorded
    <3>2. c - 1 = Latest
      BY <1>2 DEF Latest
    <3> QED BY <3>1, <3>2 DEF MigInv, TypeOK, Versions
  <2>4. RunnerInv(p)'
    BY <1>3, <2>3 DEF RunnerInv
  <2>5. ASSUME NEW q \in Runners, q # p PROVE RunnerInv(q)'
    BY <1>3, <2>5, OthersStay DEF MigInv, TypeOK
  <2>6. HolderInv'
    BY <1>3, TransactionStays DEF MigInv, HolderInv
  <2> QED BY <2>1, <2>2, <2>4, <2>5, <2>6 DEF MigInv
<1>5. CASE holder = p
  <2>1. CommitOpen
    BY <1>5
  <2>2. PICK d \in 1..(Latest + 1) : Uncommitted(p, d)
    BY <1>5 DEF MigInv, HolderInv
  <2>3. d = c
    BY <1>1, <1>2, <2>2 DEF Uncommitted, WorksOn, Latest
  <2>4. newVersions = {c - 1} /\ c > 1 /\ c - 1 \notin versions
    BY <1>2, <2>2, <2>3 DEF Uncommitted, Latest
  <2>5. /\ InOrder' /\ GrantsAreAtomic' /\ versions' = 1..(c - 1)
        /\ \A v \in versions' : Provides(v) \ missed \subseteq objects'
    BY <1>1, <1>5, <2>1, <2>2, <2>3, <2>4, CommitAdds
  <2>6. TypeOK'
    BY <1>3, <2>1, MigrationsAssumption DEF MigrationsAssumption, MigInv, TypeOK, CommitOpen
  <2>7. RecordedIsApplied' /\ NewIsApplied' /\ HolderInv'
    BY <1>3, <2>1, <2>5, MigrationsAssumption
    DEF MigrationsAssumption, CommitOpen, RecordedIsApplied, NewIsApplied, HolderInv
  <2>8. RunnerInv(p)'
    <3>1. versions' = Versions
      BY <1>2, <2>5 DEF Versions, Latest
    <3>2. holder' # p
      BY <2>1, MigrationsAssumption DEF MigrationsAssumption, CommitOpen
    <3> QED BY <1>3, <3>1, <3>2 DEF RunnerInv
  <2>9. ASSUME NEW q \in Runners, q # p PROVE RunnerInv(q)'
    <3>1. holder # q /\ holder' # q
      BY <1>5, <2>1, <2>9, MigrationsAssumption DEF MigrationsAssumption, CommitOpen
    <3>2. objects \subseteq objects' /\ versions \subseteq versions'
      BY <2>1 DEF CommitOpen
    <3> QED BY <1>3, <2>6, <2>9, <3>1, <3>2, OthersStay DEF MigInv, TypeOK
  <2> QED BY <2>5, <2>6, <2>7, <2>8, <2>9 DEF MigInv
<1> QED
  BY <1>4, <1>5

\* The outsider takes the lock when it is free, and gives it back.
LEMMA OutsiderStep ==
  ASSUME MigInv, OutsiderLocks \/ OutsiderUnlocks
  PROVE  MigInv'
<1> USE DEF OutsiderLocks, OutsiderUnlocks, runnerVars, bounds
<1>1. \A q \in Runners : holder # q /\ holder' # q
  BY MigrationsAssumption DEF MigrationsAssumption
<1>2. UNCHANGED <<objects, versions, newObjects, newVersions, at, todo, line, missed>>
  OBVIOUS
<1>3. TypeOK'
  BY <1>1, <1>2, MigrationsAssumption DEF MigrationsAssumption, MigInv, TypeOK
<1>4. RecordedIsApplied' /\ GrantsAreAtomic' /\ InOrder' /\ NewIsApplied'
  BY <1>2 DEF MigInv, RecordedIsApplied, GrantsAreAtomic, InOrder, NewIsApplied
<1>5. HolderInv'
  BY <1>1 DEF HolderInv
<1>6. ASSUME NEW q \in Runners PROVE RunnerInv(q)'
  BY <1>1, <1>2, <1>3, OthersStay DEF MigInv, TypeOK
<1> QED
  BY <1>3, <1>4, <1>5, <1>6 DEF MigInv

LEMMA MigInvInductive == MigInv /\ [Next]_vars => MigInv'
<1> SUFFICES ASSUME MigInv, [Next]_vars PROVE MigInv'
  OBVIOUS
<1>1. ASSUME NEW p \in Runners, RunMigrations(p) PROVE MigInv'
  <2>1. CASE EndCommand(p)
    BY <2>1, LeaveStep DEF EndCommand, bounds, MigInv, TypeOK
  <2> QED
    BY <1>1, <2>1, ReadVersionsStep, BeginScriptStep, CreateStep, AlterStep, InsertStep,
       RecordStep, FinishStep DEF RunMigrations
<1>2. ASSUME NEW p \in Runners, GiveUp(p) PROVE MigInv'
  <2>1. busy' \in 0..MaxBusy
    BY <1>2, MigrationsAssumption DEF MigrationsAssumption, GiveUp, WaitedTooLong, MigInv, TypeOK
  <2> QED BY <1>2, <2>1, LeaveStep DEF GiveUp, MigInv, TypeOK
<1>3. ASSUME NEW p \in Runners, Kill(p) PROVE MigInv'
  <2>1. kills' \in 0..MaxKills
    BY <1>3, MigrationsAssumption DEF MigrationsAssumption, Kill, MigInv, TypeOK
  <2> QED BY <1>3, <2>1, LeaveStep DEF Kill, MigInv, TypeOK
<1>4. CASE UNCHANGED vars
  <2> USE <1>4 DEF vars, database, runnerVars, bounds
  <2>1. (TypeOK /\ RecordedIsApplied /\ GrantsAreAtomic /\ InOrder /\ NewIsApplied)'
    BY DEF MigInv, TypeOK, RecordedIsApplied, GrantsAreAtomic, InOrder, NewIsApplied
  <2>2. HolderInv'
    BY TransactionStays DEF MigInv, HolderInv
  <2>3. ASSUME NEW q \in Runners PROVE RunnerInv(q)'
    BY OthersStay DEF MigInv, TypeOK
  <2> QED BY <2>1, <2>2, <2>3 DEF MigInv
<1> QED
  BY <1>1, <1>2, <1>3, <1>4, SkipStep, OutsiderStep DEF Next

\* The invariant holds throughout, whatever runs, waits too long or is killed.
THEOREM MigInvAlways == Spec => []MigInv
<1>1. Init => MigInv
  BY InitMigInv
<1>2. MigInv /\ [Next]_vars => MigInv'
  BY MigInvInductive
<1> QED
  BY <1>1, <1>2, PTL DEF Spec

-----------------------------------------------------------------------------
(***************************************************************************)
(* What the migrations promise.                                            *)
(***************************************************************************)
\* The variables of Migrations keep their types, and only the holder of the lock has
\* uncommitted writes.
THEOREM TypeCorrect == Spec => []TypeOK
<1>1. MigInv => TypeOK
  BY DEF MigInv
<1> QED
  BY <1>1, MigInvAlways, PTL

\* A version in schema_migrations was applied in full, except columns missed while another
\* program wrote, however many processes run the migrations at once and wherever they die.
THEOREM RecordedWasApplied == Spec => []RecordedIsApplied
<1>1. MigInv => RecordedIsApplied
  BY DEF MigInv
<1> QED
  BY <1>1, MigInvAlways, PTL

\* A command that got past run_migrations has the latest schema.
THEOREM ReadyIsLatest == Spec => []ReadyMeansLatest
<1>1. MigInv => ReadyMeansLatest
  BY DEF MigInv, RunnerInv, ReadyMeansLatest
<1> QED
  BY <1>1, MigInvAlways, PTL

\* Roles and grants appear together with the version that makes them.
THEOREM GrantsAtomic == Spec => []GrantsAreAtomic
<1>1. MigInv => GrantsAreAtomic
  BY DEF MigInv
<1> QED
  BY <1>1, MigInvAlways, PTL

\* The number of pending migrations that the preflight computes from the highest version
\* is the number of versions not recorded.
THEOREM PreflightIsExact == Spec => []PreflightExact
<1>1. ASSUME MigInv PROVE PreflightExact
  <2>1. PICK n \in 0..Latest : versions = 1..n
    BY <1>1 DEF MigInv, InOrder
  <2>2. Max({0} \cup versions) = n
    BY <2>1, MaxOfPrefix
  <2>3. Max({0, Latest - n}) = Latest - n
    BY DEF Max, Latest
  <2>4. Versions \ versions = (n + 1)..Latest
    BY <2>1 DEF Versions, Latest
  <2>5. Cardinality((n + 1)..Latest) = Latest - n
    <3>1. n + 1 \in Int /\ Latest \in Int
      BY DEF Latest
    <3>2. Cardinality((n + 1)..Latest) = IF n + 1 > Latest THEN 0 ELSE Latest - (n + 1) + 1
      BY <3>1, FS_Interval
    <3> QED BY <3>2 DEF Latest
  <2> QED BY <2>2, <2>3, <2>4, <2>5 DEF PreflightExact, Pending
<1> QED
  BY <1>1, MigInvAlways, PTL

\* Runners never make each other miss a column: when no other program writes, version 3
\* vouches for its columns too.
THEOREM ColumnsWithoutOutsider ==
  ASSUME MaxHolds = 0
  PROVE  Spec => []ColumnsPresent
<1> DEFINE Alone == holds = 0 /\ holder # Outsider /\ missed = {}
<1>1. Init => Alone
  BY MigrationsAssumption DEF MigrationsAssumption, Init
<1>2. Alone /\ [Next]_vars => Alone'
  <2> SUFFICES ASSUME Alone, [Next]_vars PROVE Alone'
    OBVIOUS
  <2> USE MigrationsAssumption DEF MigrationsAssumption
  <2>1. ASSUME NEW p \in Runners, RunMigrations(p) PROVE Alone'
    <3>1. holds' = holds /\ missed' = missed
      BY <2>1 DEF RunMigrations, ReadVersions, BeginScript, CreateObject, AlterTable,
                  InsertRows, RecordVersion, FinishMigrations, EndCommand, bounds
    <3>2. holder' \in {holder, p, NoHolder}
      BY <2>1 DEF RunMigrations, ReadVersions, BeginScript, CreateObject, AlterTable,
                  InsertRows, RecordVersion, FinishMigrations, EndCommand,
                  database, CommitOpen, Leave
    <3> QED BY <3>1, <3>2
  <2>2. ASSUME NEW p \in Runners, GiveUp(p) \/ SkipColumn(p) \/ Kill(p) PROVE Alone'
    BY <2>2 DEF GiveUp, SkipColumn, Kill, Leave, database
  <2>3. CASE OutsiderLocks \/ OutsiderUnlocks
    BY <2>3 DEF OutsiderLocks, OutsiderUnlocks
  <2>4. CASE UNCHANGED vars
    BY <2>4 DEF vars, database, bounds
  <2> QED BY <2>1, <2>2, <2>3, <2>4 DEF Next
<1>3. Alone /\ MigInv => ColumnsPresent
  BY AllProvided DEF MigInv, RecordedIsApplied, ColumnsPresent
<1> QED
  BY <1>1, <1>2, <1>3, MigInvAlways, PTL DEF Spec

-----------------------------------------------------------------------------
(***************************************************************************)
(* Migrations implements SchemaUpgrade.                                    *)
(***************************************************************************)
LEMMA UptoIs ==
  ASSUME NEW n \in 0..Latest
  PROVE  Upgrading!Upto(n) = Database(n)
<1>1. \A v \in 1..n : v \in Versions
  BY DEF Versions, Latest
<1> QED
  BY <1>1 DEF Upgrading!Upto, Database

LEMMA DatabaseGrows ==
  ASSUME NEW n \in Nat, NEW m \in Nat, n <= m
  PROVE  Database(n) \subseteq Database(m)
BY DEF Database

\* Objects are never dropped, and a commit records one version at the most.
LEMMA OneVersion ==
  ASSUME MigInv, [Next]_vars
  PROVE  objects \subseteq objects' /\ \E k \in Int : versions' \in {versions, versions \cup {k}}
<1> USE DEF database
<1>1. ASSUME NEW p \in Runners, BeginScript(p) \/ FinishMigrations(p), holder = p
      PROVE  objects \subseteq objects' /\ \E k \in Int : versions' \in {versions, versions \cup {k}}
  <2>1. objects' = objects \cup newObjects /\ versions' = versions \cup newVersions
    BY <1>1 DEF BeginScript, FinishMigrations, CommitOpen
  <2>2. PICK c \in 1..(Latest + 1) : newVersions = {c - 1} \/ newVersions = {}
    BY <1>1 DEF MigInv, HolderInv, Uncommitted
  <2>3. c - 1 \in Int /\ versions' \in {versions, versions \cup {c - 1}}
    BY <2>1, <2>2 DEF Latest
  <2> QED BY <2>1, <2>3
<1>2. ASSUME NEW p \in Runners, BeginScript(p) \/ FinishMigrations(p), holder # p
      PROVE  objects' = objects /\ versions' = versions
  BY <1>2 DEF BeginScript, FinishMigrations
<1>3. ASSUME NEW p \in Runners,
             ReadVersions(p) \/ CreateObject(p) \/ AlterTable(p) \/ InsertRows(p)
             \/ RecordVersion(p) \/ EndCommand(p) \/ GiveUp(p) \/ SkipColumn(p) \/ Kill(p)
      PROVE  objects \subseteq objects' /\ versions' = versions
  BY <1>3 DEF ReadVersions, CreateObject, AlterTable, InsertRows, RecordVersion, EndCommand,
              GiveUp, SkipColumn, Kill, Leave
<1>4. CASE OutsiderLocks \/ OutsiderUnlocks \/ UNCHANGED vars
  BY <1>4 DEF OutsiderLocks, OutsiderUnlocks, vars
<1>5. 0 \in Int
  OBVIOUS
<1> QED
  BY <1>1, <1>2, <1>3, <1>4, <1>5 DEF Next, RunMigrations

\* The history of missed columns grows when an ALTER gives up, and then alone.
LEMMA MissedMoves ==
  ASSUME MigInv', [Next]_vars
  PROVE  \/ missed' = missed
         \/ missed \subseteq missed' /\ missed' \subseteq Columns /\ UNCHANGED <<objects, versions>>
<1> USE DEF database, bounds
<1>1. ASSUME NEW p \in Runners, SkipColumn(p)
      PROVE  missed \subseteq missed' /\ UNCHANGED <<objects, versions>>
  BY <1>1 DEF SkipColumn
<1>2. ASSUME NEW p \in Runners, RunMigrations(p) \/ GiveUp(p) \/ Kill(p)
      PROVE  missed' = missed
  BY <1>2 DEF RunMigrations, ReadVersions, BeginScript, CreateObject, AlterTable, InsertRows,
              RecordVersion, FinishMigrations, EndCommand, GiveUp, Kill
<1>3. CASE OutsiderLocks \/ OutsiderUnlocks \/ UNCHANGED vars
  BY <1>3 DEF OutsiderLocks, OutsiderUnlocks, vars
<1> QED
  BY <1>1, <1>2, <1>3 DEF Next, MigInv, TypeOK

\* What the invariant says of the objects in use at any one moment.
LEMMA LevelIs == MigInv => Level \in 0..Latest /\ versions = 1..Level
<1> SUFFICES ASSUME InOrder PROVE Level \in 0..Latest /\ versions = 1..Level
  BY DEF MigInv
<1>1. PICK n \in 0..Latest : versions = 1..n
  BY DEF InOrder
<1>2. n \in Nat
  BY DEF Latest
<1> QED
  BY <1>1, <1>2, MaxOfPrefix DEF Level

LEMMA InUseIs ==
  MigInv => Database(Level) \ missed \subseteq InUse /\ InUse = objects \cap Database(Level)
<1> SUFFICES ASSUME MigInv
             PROVE  /\ Database(Level) \ missed \subseteq InUse
                    /\ InUse = objects \cap Database(Level)
  OBVIOUS
<1>1. Level \in 0..Latest /\ versions = 1..Level
  BY LevelIs
<1>2. Database(Level) \ missed \subseteq objects
  BY <1>1 DEF MigInv, RecordedIsApplied, Database
<1>3. "rbac_rows" \in objects => "rbac_rows" \in Database(Level)
  <2>1. "rbac_rows" \in Provides(4)
    BY AllProvided
  <2> QED BY <1>1, <2>1 DEF MigInv, GrantsAreAtomic, Database
<1> QED
  BY <1>2, <1>3 DEF InUse

LEMMA StepUpgrades ==
  MigInv /\ MigInv' /\ [Next]_vars => [Upgrading!UpgradeNext]_(Upgrading!upgradeVars)
<1> SUFFICES ASSUME MigInv, MigInv', [Next]_vars PROVE Upgrading!UpgradeNext
  OBVIOUS
<1>1. /\ Level \in 0..Latest /\ versions = 1..Level
      /\ Level' \in 0..Latest /\ versions' = 1..Level'
  <2>1. (Level \in 0..Latest /\ versions = 1..Level)'
    BY LevelIs, PTL
  <2> QED BY <2>1, LevelIs DEF Latest
<1>2. /\ Database(Level) \ missed \subseteq InUse /\ InUse = objects \cap Database(Level)
      /\ Database(Level') \ missed' \subseteq InUse' /\ InUse' = objects' \cap Database(Level')
  <2>1. (Database(Level) \ missed \subseteq InUse /\ InUse = objects \cap Database(Level))'
    BY InUseIs, PTL
  <2> QED BY <2>1, InUseIs DEF Database
<1>3. CASE missed' # missed
  <2>1. missed \subseteq missed' /\ missed' \subseteq Columns /\ UNCHANGED <<objects, versions>>
    BY <1>3, MissedMoves
  <2>2. Level' = Level /\ InUse' = InUse
    BY <2>1 DEF Level, InUse
  <2> QED BY <2>1, <2>2 DEF Upgrading!UpgradeNext, Upgrading!Lose
<1>4. CASE missed' = missed
  <2>1. objects \subseteq objects' /\ Level' \in {Level, Level + 1}
    <3>1. PICK k \in Int : versions' \in {versions, versions \cup {k}}
      BY OneVersion
    <3>2. Level \in Nat /\ Level' \in Nat
      BY <1>1 DEF Latest
    <3>3. Level \in 1..Level' \/ Level = 0
      BY <1>1, <3>1, <3>2
    <3>4. \A i, j \in 1..Level' : i \notin 1..Level /\ j \notin 1..Level => i = j
      BY <1>1, <3>1
    <3>5. Level' <= Level + 1
      <4> SUFFICES ASSUME Level' > Level + 1 PROVE FALSE
        BY <3>2
      <4>1. Level + 1 \in 1..Level' /\ Level + 2 \in 1..Level'
        BY <3>2
      <4> QED BY <3>2, <3>4, <4>1
    <3> QED BY <3>2, <3>3, <3>5, OneVersion
  <2>2. InUse \subseteq InUse'
    <3>1. Database(Level) \subseteq Database(Level')
      BY <1>1, <2>1, DatabaseGrows DEF Latest
    <3> QED BY <1>2, <2>1, <3>1
  <2>3. CASE Level' = Level
    <3>1. InUse' \subseteq InUse \cup missed
      BY <1>2, <1>4, <2>3
    <3> QED BY <1>4, <2>2, <2>3, <3>1 DEF Upgrading!UpgradeNext, Upgrading!Repair
  <2>4. CASE Level' = Level + 1
    <3>1. Upgrading!Upto(Level') = Database(Level')
      BY <1>1, UptoIs
    <3>2. Upgrading!Complete(Level', InUse', missed)
      BY <1>2, <1>4, <3>1 DEF Upgrading!Complete
    <3>3. Level < Latest
      BY <1>1, <2>4 DEF Latest
    <3> QED BY <1>4, <2>2, <2>4, <3>2, <3>3 DEF Upgrading!UpgradeNext, Upgrading!Upgrade
  <2> QED BY <2>1, <2>3, <2>4
<1> QED
  BY <1>3, <1>4

\* However many processes run the migrations at once, wait in vain or are killed, the database
\* goes up one whole version at a time, grants included, and never back.
THEOREM UpgradesAreWhole == Spec => ImplementsUpgrade
<1>1. Init => Upgrading!UpgradeInit
  <2> SUFFICES ASSUME Init PROVE Upgrading!UpgradeInit
    OBVIOUS
  <2>1. MigInv /\ missed = {}
    BY InitMigInv DEF Init
  <2>2. Level \in 0..Latest /\ InUse = objects \cap Database(Level)
        /\ Database(Level) \subseteq InUse
    BY <2>1, LevelIs, InUseIs
  <2> QED BY <2>1, <2>2, UptoIs DEF Upgrading!UpgradeInit
<1> QED
  BY <1>1, StepUpgrades, MigInvAlways, PTL DEF Spec, ImplementsUpgrade, Upgrading!UpgradeSpec
=============================================================================
