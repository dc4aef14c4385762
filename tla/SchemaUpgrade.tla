---------------------------- MODULE SchemaUpgrade ---------------------------
(***************************************************************************)
(* What schema migrations promise: the database goes from one version to   *)
(* the next, never back and never over one, and a version comes with       *)
(* everything it vouches for, except what was lost to another writer.      *)
(***************************************************************************)
EXTENDS Integers

CONSTANTS
  Latest,    \* the newest version
  Content,   \* what each version vouches for
  Losable    \* what another writer may make a migration leave out

VARIABLES
  level,     \* the version of the database
  schema,    \* what is there of the versions up to it
  lost       \* what may be missing

upgradeVars == <<level, schema, lost>>

Upto(n) == UNION {Content[v] : v \in 1..n}

\* The versions up to n, but for what was lost.
Complete(n, there, gone) == Upto(n) \ gone \subseteq there /\ there \subseteq Upto(n)

UpgradeInit ==
  level \in 0..Latest /\ schema = Upto(level) /\ lost = {}

Upgrade ==
  /\ level < Latest /\ level' = level + 1
  /\ schema \subseteq schema' /\ Complete(level', schema', lost)
  /\ UNCHANGED lost

\* What was lost may come back when a migration is repeated.
Repair ==
  /\ schema \subseteq schema' /\ schema' \subseteq schema \cup lost
  /\ UNCHANGED <<level, lost>>

Lose ==
  /\ lost \subseteq lost' /\ lost' \subseteq lost \cup Losable
  /\ UNCHANGED <<level, schema>>

UpgradeNext == Upgrade \/ Repair \/ Lose

UpgradeSpec == UpgradeInit /\ [][UpgradeNext]_upgradeVars
=============================================================================
