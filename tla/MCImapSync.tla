----------------------------- MODULE MCImapSync -----------------------------
(* Small instances of mailbox synchronisation. *)
EXTENDS ImapSync
=============================================================================
