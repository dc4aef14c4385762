------------------------------ MODULE ImapSync ------------------------------
(***************************************************************************)
(* IMAPSyncService.sync_account for one account: mail-sync-once commands   *)
(* copy the newest messages of INBOX into mail_messages and                *)
(* mail_attachments while mail arrives, is removed by other mail clients,  *)
(* and connections drop.                                                   *)
(*                                                                         *)
(* A message is the number of its arrival, so that a mailbox is a set: the *)
(* server's sequence number of a message is its rank in that set.  The     *)
(* code stores this number as external_uid and recognises a message by it. *)
(***************************************************************************)
EXTENDS Integers, FiniteSets

CONSTANTS
  Syncers,      \* processes that run mail-sync-once for the account
  MaxMessages,  \* bound: messages that arrive
  Plain,        \* messages without attachments
  Parts,        \* attachments of every other message
  Limit,        \* --limit
  MaxRemovals,  \* bound: messages removed from the mailbox
  MaxBreaks,    \* bound: lost connections, kills, refused requests, lock timeouts
  MaxCopies,    \* bound: the counting of equal attachment rows stops here
  None

ASSUME ImapAssumption ==
  /\ MaxMessages \in Nat /\ Parts \in Nat \ {0} /\ Limit \in Nat \ {0}
  /\ MaxRemovals \in Nat /\ MaxBreaks \in Nat /\ MaxCopies \in Nat \ {0}
  /\ None \notin Syncers \cup Nat

Messages == 1..MaxMessages
Uids == 1..MaxMessages

VARIABLES
  arrived, removals,  \* messages that came, and how many are gone again
  box,                \* INBOX
  row,                \* mail_messages: the message stored under an external_uid
  attached,           \* mail_attachments: rows for a part of a message, by external_uid
  holder,             \* the process whose transaction holds the write lock
  at,                 \* where each synchronisation is
  view,               \* INBOX as selected
  todo,               \* ids not fetched yet
  cur, part,          \* the fetched message, and its parts saved so far
  missed,             \* the server refused to deliver something
  breaks

mailbox == <<arrived, removals, box>>
tables == <<row, attached>>
sync == <<view, todo, cur, part, missed>>
vars == <<mailbox, tables, holder, at, sync, breaks>>

\* The sequence number of m in mailbox v, and the last n messages of v.
SequenceNumber(m, v) == Cardinality({k \in v : k <= m})
LastOnes(n, v) == {m \in v : SequenceNumber(m, v) > Cardinality(v) - n}

PartsOf(m) == IF m \in Plain THEN 0 ELSE Parts

Init ==
  /\ arrived = 0 /\ removals = 0 /\ box = {}
  /\ row = [u \in Uids |-> None]
  /\ attached = [u \in Uids |-> [m \in Messages |-> [n \in 1..Parts |-> 0]]]
  /\ holder = None
  /\ at = [s \in Syncers |-> "idle"]
  /\ view = [s \in Syncers |-> {}]
  /\ todo = [s \in Syncers |-> {}]
  /\ cur = [s \in Syncers |-> None]
  /\ part = [s \in Syncers |-> 0]
  /\ missed = [s \in Syncers |-> FALSE]
  /\ breaks = 0

Goto(s, place) == at' = [at EXCEPT ![s] = place]
CanWrite(s) == holder \in {None, s}
Break == breaks < MaxBreaks /\ breaks' = breaks + 1

-----------------------------------------------------------------------------
(***************************************************************************)
(* The mailbox.                                                            *)
(***************************************************************************)
Arrive ==
  /\ arrived < MaxMessages
  /\ arrived' = arrived + 1
  /\ box' = box \cup {arrived + 1}
  /\ UNCHANGED <<removals, tables, holder, at, sync, breaks>>

Expunge ==
  /\ removals < MaxRemovals
  /\ \E m \in box : box' = box \ {m}
  /\ removals' = removals + 1
  /\ UNCHANGED <<arrived, tables, holder, at, sync, breaks>>

-----------------------------------------------------------------------------
(***************************************************************************)
(* sync_account.  Numbers do not change during a session that only         *)
(* fetches, so it works on the mailbox it selected.                        *)
(***************************************************************************)
\* login, SELECT, SEARCH ALL and the slice [-limit:]; a refused search ends the loop.
StartSync(s) ==
  /\ at[s] \in {"idle", "done"}
  /\ Goto(s, "fetching")
  /\ view' = [view EXCEPT ![s] = box]
  /\ \/ /\ todo' = [todo EXCEPT ![s] = LastOnes(Limit, box)]
        /\ missed' = [missed EXCEPT ![s] = FALSE]
        /\ UNCHANGED breaks
     \/ /\ Break
        /\ todo' = [todo EXCEPT ![s] = {}]
        /\ missed' = [missed EXCEPT ![s] = TRUE]
  /\ UNCHANGED <<mailbox, tables, holder, cur, part>>

\* FETCH of the next id; the write lock may be held meanwhile.
Fetch(s) ==
  /\ at[s] = "fetching"
  /\ \E m \in todo[s] :
       /\ \A k \in todo[s] : m <= k
       /\ todo' = [todo EXCEPT ![s] = @ \ {m}]
       /\ \/ /\ cur' = [cur EXCEPT ![s] = m]
             /\ part' = [part EXCEPT ![s] = 0]
             /\ Goto(s, "storing")
             /\ UNCHANGED <<missed, breaks>>
          \/ /\ IF m \in box THEN Break ELSE UNCHANGED breaks
             /\ missed' = [missed EXCEPT ![s] = TRUE]
             /\ UNCHANGED <<at, cur, part>>
  /\ UNCHANGED <<mailbox, tables, holder, view>>

UidInSlice(s) == SequenceNumber(cur[s], LastOnes(Limit, view[s]))   \* mutant
Uid(s) == SequenceNumber(cur[s], view[s])
AfterParts(s, n) == Goto(s, IF n < PartsOf(cur[s]) THEN "attaching" ELSE "fetching")

\* save_synced_message.  An INSERT that meets the unique index returns False and leaves
\* its transaction open, and with it the write lock.
PartsOfNewRowsOnly(s) ==                                        \* mutant
  /\ at[s] = "storing" /\ CanWrite(s)
  /\ IF row[Uid(s)] = None
     THEN /\ row' = [row EXCEPT ![Uid(s)] = cur[s]]
          /\ holder' = None /\ AfterParts(s, 0)
     ELSE /\ holder' = s /\ Goto(s, "fetching") /\ UNCHANGED row
  /\ UNCHANGED <<mailbox, attached, sync, breaks>>
DuplicateRaises(s) ==                                           \* mutant
  /\ at[s] = "storing" /\ CanWrite(s)
  /\ holder' = None
  /\ IF row[Uid(s)] = None
     THEN row' = [row EXCEPT ![Uid(s)] = cur[s]] /\ AfterParts(s, 0)
     ELSE Goto(s, "idle") /\ UNCHANGED row
  /\ UNCHANGED <<mailbox, attached, sync, breaks>>
SaveSyncedMessage(s) ==
  /\ at[s] = "storing" /\ CanWrite(s)
  /\ IF row[Uid(s)] = None
     THEN row' = [row EXCEPT ![Uid(s)] = cur[s]] /\ holder' = None
     ELSE holder' = s /\ UNCHANGED row
  /\ AfterParts(s, 0)
  /\ UNCHANGED <<mailbox, attached, sync, breaks>>

\* get_message_id finds the row by account and external_uid; save_attachment_meta
\* inserts and commits, for rows that were there before as well.
SaveAttachmentMeta(s) ==
  /\ at[s] = "attaching" /\ CanWrite(s)
  /\ LET n == part[s] + 1
         copies == attached[Uid(s)][cur[s]][n]
     IN /\ attached' = [attached EXCEPT ![Uid(s)][cur[s]][n] =
                          IF copies < MaxCopies THEN copies + 1 ELSE copies]
        /\ part' = [part EXCEPT ![s] = n]
        /\ AfterParts(s, n)
  /\ holder' = None
  /\ UNCHANGED <<mailbox, row, view, todo, cur, missed, breaks>>

\* The commit of log_operation ends what transaction is open.
FinishUncommitted(s) ==                                         \* mutant
  /\ at[s] = "fetching" /\ todo[s] = {} /\ CanWrite(s)
  /\ Goto(s, "done")
  /\ UNCHANGED <<mailbox, tables, holder, sync, breaks>>
FinishSync(s) ==
  /\ at[s] = "fetching" /\ todo[s] = {} /\ CanWrite(s)
  /\ holder' = None
  /\ Goto(s, "done")
  /\ UNCHANGED <<mailbox, tables, sync, breaks>>

\* The connection drops, the process is killed, or a write has waited for the lock for
\* longer than five seconds: closing the connection to the database rolls back.
Interrupt(s) ==
  /\ at[s] \notin {"idle", "done"}
  /\ Break
  /\ Goto(s, "idle")
  /\ holder' = IF holder = s THEN None ELSE holder
  /\ UNCHANGED <<mailbox, tables, sync>>

SyncAccount(s) ==
  Fetch(s) \/ SaveSyncedMessage(s) \/ SaveAttachmentMeta(s) \/ FinishSync(s)

Next ==
  \/ Arrive \/ Expunge
  \/ \E s \in Syncers : StartSync(s) \/ SyncAccount(s) \/ Interrupt(s)

Spec == Init /\ [][Next]_vars

\* A process that can write to the database does.  Nothing is assumed of the server: imaplib
\* is opened without a timeout, so that a FETCH or the LOGOUT before the last commit need
\* never return.
FairSpec == Spec /\ \A s \in Syncers : WF_vars(SaveSyncedMessage(s) \/ SaveAttachmentMeta(s))

\* What the liveness properties assume: the server answers a FETCH and a LOGOUT, or the
\* connection breaks; and the command is run again and again and gets its list of messages.
ServerAnswers == \A s \in Syncers : WF_vars(Fetch(s)) /\ WF_vars(FinishSync(s))
SyncedAgain == \A s \in Syncers : WF_vars(StartSync(s))

-----------------------------------------------------------------------------
(***************************************************************************)
(* Correctness.                                                            *)
(***************************************************************************)

\* The variables stay within their types; only a synchronisation that runs holds the
\* write lock, and one that attaches has fetched a message of its view.
TypeOK ==
  /\ arrived \in 0..MaxMessages /\ removals \in 0..MaxRemovals /\ breaks \in 0..MaxBreaks
  /\ box \subseteq 1..arrived
  /\ row \in [Uids -> Messages \cup {None}]
  /\ attached \in [Uids -> [Messages -> [1..Parts -> 0..MaxCopies]]]
  /\ holder \in Syncers \cup {None}
  /\ at \in [Syncers -> {"idle", "fetching", "storing", "attaching", "done"}]
  /\ view \in [Syncers -> SUBSET Messages] /\ todo \in [Syncers -> SUBSET Messages]
  /\ \A s \in Syncers :
       /\ todo[s] \subseteq view[s] /\ view[s] \subseteq 1..arrived
       /\ at[s] \in {"storing", "attaching"} => cur[s] \in view[s]
       /\ at[s] = "attaching" => part[s] < PartsOf(cur[s])
       /\ at[s] = "storing" => part[s] = 0
       /\ holder = s => at[s] \in {"fetching", "attaching", "storing"}
  /\ cur \in [Syncers -> Messages \cup {None}]
  /\ part \in [Syncers -> 0..Parts]
  /\ missed \in [Syncers -> BOOLEAN]

\* As long as nothing has been removed from the mailbox, the row of an external_uid
\* describes the message of that number, every attachment is listed under the row of
\* its own message, and no message has two rows - however many synchronisations
\* overlap, and whatever arrives meanwhile.
RowsMatchMailbox ==
  removals = 0 =>
    /\ \A u \in Uids : row[u] # None => row[u] \in box /\ SequenceNumber(row[u], box) = u
    /\ \A u \in Uids, m \in Messages, n \in 1..Parts : attached[u][m][n] > 0 => row[u] = m

\* What is stored stays, also when the number of a row has passed to another message:
\* a row keeps its message and no attachment row disappears.
StoredIsKept ==
  [][/\ \A u \in Uids : row[u] # None => row'[u] = row[u]
     /\ \A u \in Uids, m \in Messages, n \in 1..Parts : attached'[u][m][n] >= attached[u][m][n]]_vars

\* As long as nothing has been removed from the mailbox, a synchronisation that ends with
\* every answer of the server has stored what it looked at: each of the newest messages has a row with all attachments, those
\* included whose rows an interrupted or a concurrent synchronisation left without.
\* After a removal this is false: a new message can get the number of a stored one, and
\* is then taken for it.
FinishedIsComplete ==
  \A s \in Syncers :
    at[s] = "done" /\ ~missed[s] /\ removals = 0 =>
      \A m \in LastOnes(Limit, view[s]) :
        /\ row[SequenceNumber(m, view[s])] = m
        /\ \A n \in 1..PartsOf(m) : attached[SequenceNumber(m, view[s])][m][n] > 0

\* If the server answers, the write lock, which an INSERT of a known message leaves with
\* the synchronisation across the following fetches, is given back.  A server that stalls
\* keeps every other writer out for as long.
LockReturned == ServerAnswers => \A s \in Syncers : holder = s ~> holder # s

\* If the server answers and the account is synchronised again and again, the newest messages
\* get stored with their attachments, once connections have stopped failing and mail
\* arriving, and unless something was removed.
NewestStored ==
  ServerAnswers /\ SyncedAgain =>
  <>[](removals > 0 \/ \A m \in LastOnes(Limit, box) :
         LET u == SequenceNumber(m, box)
         IN row[u] = m /\ \A n \in 1..PartsOf(m) : attached[u][m][n] > 0)

\* Every message is stored once, and so is each of its attachments: README.md:15 of the
\* sources.  The code does not keep this: a message whose number changes is stored
\* again, and every synchronisation adds the attachments again.
StoredOnce ==
  \A m \in Messages :
    /\ Cardinality({u \in Uids : row[u] = m}) <= 1
    /\ \A u \in Uids, n \in 1..Parts : attached[u][m][n] <= 1
=============================================================================
