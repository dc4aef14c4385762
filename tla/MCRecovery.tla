----------------------------- MODULE MCRecovery -----------------------------
(* Small instances of sessions, backups, restores and the release gate. *)
EXTENDS Recovery, TLC

\* Tokens are interchangeable.
TokenSymmetry == Permutations(Tokens)
=============================================================================
