------------------------------ MODULE MCOutbox ------------------------------
(* Small instances of the outgoing mail queue. *)
EXTENDS Outbox, TLC

\* Workers are interchangeable, and so are clients: no action names one.
ProcessSymmetry ==
  Permutations(Workers) \cup Permutations(Clients) \cup Permutations(Keys)
=============================================================================
