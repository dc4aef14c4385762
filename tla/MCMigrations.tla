---------------------------- MODULE MCMigrations ----------------------------
(* Small instances of the schema migrations. *)
EXTENDS Migrations, TLC

\* Runners are interchangeable.
RunnerSymmetry == Permutations(Runners)
=============================================================================
