-------------------------- MODULE MCDocumentStore --------------------------
(* Small instances of the document store. *)
EXTENDS DocumentStore, TLC

\* uuid4 names and processes are interchangeable.
StoreSymmetry ==
  Permutations(Files) \cup Permutations(Writers) \cup Permutations(Cleaners)
=============================================================================
