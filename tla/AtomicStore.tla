---------------------------- MODULE AtomicStore ----------------------------
(***************************************************************************)
(* What storing documents promises: registering a document and having its  *)
(* content is one step, and so is exchanging a document for its            *)
(* replacement.                                                            *)
(***************************************************************************)
CONSTANT Content

VARIABLES
  registered,  \* documents the catalogue calls current
  readable     \* those whose content can be read

atomicVars == <<registered, readable>>

AtomicInit == registered = {} /\ readable = {}

Upload(new) ==
  /\ new \notin registered
  /\ registered' = registered \cup {new}
  /\ readable' = readable \cup {new}

\* The document replaced may already be an old one.
Exchange(old, new) ==
  /\ new \notin registered
  /\ registered' = (registered \ {old}) \cup {new}
  /\ readable' = (readable \ {old}) \cup {new}

AtomicNext ==
  \/ \E new \in Content : Upload(new)
  \/ \E old, new \in Content : Exchange(old, new)

AtomicSpec == AtomicInit /\ [][AtomicNext]_atomicVars
=============================================================================
