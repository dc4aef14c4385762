------------------------------- MODULE Outbox -------------------------------
(***************************************************************************)
(* The outgoing mail queue: the table mail_outbox, the calls of            *)
(* MailService on it, the worker that drains it (MailWorker.run_once under *)
(* MailDaemon) and the SMTP hand-over.                                     *)
(*                                                                         *)
(* Workers are operating-system processes (the daemon, mail-worker-once),  *)
(* each with its own SQLite connection.  A step is one committed statement *)
(* or transaction, one read in autocommit mode, or one call of the         *)
(* transport; everything may happen in between.  Clients are processes     *)
(* that run mail-queue.                                                    *)
(***************************************************************************)
EXTENDS Integers, FiniteSets, FiniteSetsExt

CONSTANTS
  Workers,      \* processes that run MailWorker
  Clients,      \* processes that run queue_outgoing_message
  Keys,         \* dedup keys: (account, recipient, subject, body) up to sha256
  BatchSize,    \* --batch-size, the LIMIT of the reservation
  MaxAttempts,  \* column max_attempts
  DayLength,    \* seconds in a day
  BackoffCap,   \* the 300 s cap of the backoff
  MaxId,        \* bound: rows ever inserted
  MaxCrashes,   \* bound: worker crashes
  NoKey,        \* dedup key of a row not yet inserted, pending key of an idle client
  NoStamp       \* SQL NULL in next_attempt_at

ASSUME OutboxAssumption ==
  /\ BatchSize \in Nat \ {0} /\ MaxAttempts \in Nat \ {0}
  /\ DayLength \in Nat \ {0} /\ BackoffCap \in Nat \ {0}
  /\ MaxId \in Nat /\ MaxCrashes \in Nat
  /\ NoKey \notin Keys

VARIABLES
  lastId,    \* sqlite_sequence: id of the row inserted last (AUTOINCREMENT)
  state,     \* column state, "absent" before the insertion
  dedupKey,  \* column dedup_key
  attempts,  \* column attempts
  nextAt,    \* column next_attempt_at
  clock,     \* second of the current UTC day
  pc,        \* where each worker is in run_once
  batch,     \* ids a worker has selected or reserved and not finished
  saw,       \* attempts of the selected rows as the SELECT read them (0 for the others)
  counted,   \* attempts + 1 as read by mark_outbox_attempt
  asking,    \* key a client is about to insert, NoKey when it is idle
  handed,    \* history: times the SMTP server accepted the message
  acked,     \* history: messages whose send() returned normally
  crashes    \* history: crashes so far

table == <<lastId, state, dedupKey, attempts, nextAt>>
workerVars == <<pc, batch, saw, counted>>
history == <<handed, acked>>
vars == <<table, clock, workerVars, asking, history, crashes>>

Ids == 1..MaxId
Active == {"queued", "retry", "processing"}
Terminal == {"sent", "failed"}
Holding == {"sending", "sent", "raised", "rescheduling"}

-----------------------------------------------------------------------------
(***************************************************************************)
(* Timestamps are text.  CURRENT_TIMESTAMP is "YYYY-MM-DD HH:MM:SS"; a     *)
(* retry stores datetime.isoformat(), "YYYY-MM-DDTHH:MM:SS.ffffff+00:00".  *)
(* A stamp keeps its second relative to today's midnight (any earlier day  *)
(* is -1) and which of the two formats it has.                             *)
(***************************************************************************)
Stamp == [at : Int, iso : BOOLEAN]
SqlNow == [at |-> clock, iso |-> FALSE]

\* Text comparison stamp <= CURRENT_TIMESTAMP: the date prefix decides first; on
\* the same date the separators decide, and "T" sorts after " ".
TextLeqNow(s) == s.at < 0 \/ (~s.iso /\ s.at <= clock)

\* The same stamp seen from the next day.
FromTomorrow(s) ==
  IF s = NoStamp THEN s
  ELSE [s EXCEPT !.at = IF s.at < DayLength THEN -1 ELSE s.at - DayLength]

BackoffUncapped(n) == 2^n                                       \* mutant
\* min(300, 2 ** attempts)
Backoff(n) == LET d == 2^n IN IF d \in 1..BackoffCap THEN d ELSE BackoffCap

DueAlways(id) == TRUE                                           \* mutant
Due(id) == nextAt[id] = NoStamp \/ TextLeqNow(nextAt[id])

ReservableAnyActive(id) == state[id] \in Active                 \* mutant
ReservableFailed(id) == state[id] \in {"queued", "retry", "failed"} \* mutant
ReservableQueued(id) == state[id] = "queued"                    \* mutant
Reservable(id) == state[id] \in {"queued", "retry"}

ExhaustedLate(n) == n > MaxAttempts                             \* mutant
Exhausted(n) == n >= MaxAttempts

HasActive(k) == \E id \in Ids : dedupKey[id] = k /\ state[id] \in Active

\* The partial unique index on dedup_key over the active states.
IndexAdmitsAny(k) == TRUE                                       \* mutant
IndexAdmits(k) == ~HasActive(k)

\* ORDER BY id ASC LIMIT n
FirstRows(S, n) == {id \in S : Cardinality({j \in S : j < id}) < n}

Candidates == FirstRows({id \in Ids : Reservable(id) /\ Due(id)}, BatchSize)

\* The message the loop of run_once is at: reserved rows are taken in id order.
Current(w) == Min(batch[w])

-----------------------------------------------------------------------------
Init ==
  /\ lastId = 0
  /\ state = [id \in Ids |-> "absent"]
  /\ dedupKey = [id \in Ids |-> NoKey]
  /\ attempts = [id \in Ids |-> 0]
  /\ nextAt = [id \in Ids |-> NoStamp]
  /\ clock = 0
  /\ pc = [w \in Workers |-> "idle"]
  /\ batch = [w \in Workers |-> {}]
  /\ saw = [w \in Workers |-> [id \in Ids |-> 0]]
  /\ counted = [w \in Workers |-> 0]
  /\ asking = [c \in Clients |-> NoKey]
  /\ handed = [id \in Ids |-> 0]
  /\ acked = {}
  /\ crashes = 0

(***************************************************************************)
(* queue_outgoing_message reads in autocommit mode, then inserts in a      *)
(* transaction of its own.  When the read finds an active row its id is    *)
(* returned and nothing changes, so only the other branch is a step.       *)
(***************************************************************************)
FindNoDuplicate(c, k) ==
  /\ asking[c] = NoKey
  /\ ~HasActive(k)
  /\ asking' = [asking EXCEPT ![c] = k]
  /\ UNCHANGED <<table, clock, workerVars, history, crashes>>

InsertRow(c) ==
  /\ asking[c] # NoKey
  /\ lastId < MaxId
  /\ IndexAdmits(asking[c])
  /\ LET id == lastId + 1 IN
       /\ lastId' = id
       /\ state' = [state EXCEPT ![id] = "queued"]
       /\ dedupKey' = [dedupKey EXCEPT ![id] = asking[c]]
       /\ attempts' = [attempts EXCEPT ![id] = 0]
       /\ nextAt' = [nextAt EXCEPT ![id] = SqlNow]
  /\ asking' = [asking EXCEPT ![c] = NoKey]
  /\ UNCHANGED <<clock, workerVars, history, crashes>>

\* sqlite3.IntegrityError: the command fails, its connection closes.
InsertConflict(c) ==
  /\ asking[c] # NoKey
  /\ ~IndexAdmits(asking[c])
  /\ asking' = [asking EXCEPT ![c] = NoKey]
  /\ UNCHANGED <<table, clock, workerVars, history, crashes>>

(***************************************************************************)
(* reserve_outbox_batch: a SELECT in autocommit mode, then one transaction *)
(* of guarded UPDATEs (the first one takes the write lock until commit).   *)
(* An empty SELECT ends run_once without effect.                           *)
(***************************************************************************)
SelectBatch(w) ==
  /\ pc[w] = "idle"
  /\ Candidates # {}
  /\ batch' = [batch EXCEPT ![w] = Candidates]
  /\ saw' = [saw EXCEPT ![w] = [id \in Ids |-> IF id \in Candidates THEN attempts[id] ELSE 0]]
  /\ pc' = [pc EXCEPT ![w] = "selected"]
  /\ UNCHANGED <<table, clock, counted, asking, history, crashes>>

ReserveBatch(w) ==
  /\ pc[w] = "selected"
  /\ LET got == {id \in batch[w] : Reservable(id)} IN
       /\ state' = [id \in Ids |-> IF id \in got THEN "processing" ELSE state[id]]
       /\ batch' = [batch EXCEPT ![w] = got]
       /\ pc' = [pc EXCEPT ![w] = IF got = {} THEN "idle" ELSE "sending"]
  /\ saw' = [saw EXCEPT ![w] = [id \in Ids |-> 0]]
  /\ UNCHANGED <<lastId, dedupKey, attempts, nextAt, clock, counted, asking, history, crashes>>

(***************************************************************************)
(* transport.send: the server accepts and send() returns; it accepts but   *)
(* send() raises (the reply is lost, QUIT is refused); it does not accept  *)
(* and send() raises (no account, bad secret, no connection, rejection).   *)
(***************************************************************************)
SendAccepted(w) ==
  /\ pc[w] = "sending"
  /\ handed' = [handed EXCEPT ![Current(w)] = @ + 1]
  /\ acked' = acked \cup {Current(w)}
  /\ pc' = [pc EXCEPT ![w] = "sent"]
  /\ UNCHANGED <<table, clock, batch, saw, counted, asking, crashes>>

SendReplyLost(w) ==
  /\ pc[w] = "sending"
  /\ handed' = [handed EXCEPT ![Current(w)] = @ + 1]
  /\ pc' = [pc EXCEPT ![w] = "raised"]
  /\ UNCHANGED <<table, clock, batch, saw, counted, asking, acked, crashes>>

SendRefusedSwallowed(w) ==                                      \* mutant
  /\ pc[w] = "sending"
  /\ pc' = [pc EXCEPT ![w] = "sent"]
  /\ UNCHANGED <<table, clock, batch, saw, counted, asking, history, crashes>>
SendRefused(w) ==
  /\ pc[w] = "sending"
  /\ pc' = [pc EXCEPT ![w] = "raised"]
  /\ UNCHANGED <<table, clock, batch, saw, counted, asking, history, crashes>>

AdvanceStops(w) ==                                              \* mutant
  batch' = [batch EXCEPT ![w] = {}] /\ pc' = [pc EXCEPT ![w] = "idle"]
\* The loop goes on to the next reserved message, or run_once returns.
Advance(w) ==
  /\ batch' = [batch EXCEPT ![w] = @ \ {Current(w)}]
  /\ pc' = [pc EXCEPT ![w] = IF batch[w] = {Current(w)} THEN "idle" ELSE "sending"]

\* mark_outbox_sent
MarkSent(w) ==
  /\ pc[w] = "sent"
  /\ state' = [state EXCEPT ![Current(w)] = "sent"]
  /\ Advance(w)
  /\ UNCHANGED <<lastId, dedupKey, attempts, nextAt, clock, saw, counted, asking, history, crashes>>

\* mark_outbox_attempt(success=False): the read ...
CountAttempt(w) ==
  /\ pc[w] = "raised"
  /\ counted' = [counted EXCEPT ![w] = attempts[Current(w)] + 1]
  /\ pc' = [pc EXCEPT ![w] = "rescheduling"]
  /\ UNCHANGED <<table, clock, batch, saw, asking, history, crashes>>

\* ... and the update, from the count that was read.
Reschedule(w) ==
  /\ pc[w] = "rescheduling"
  /\ LET id == Current(w)
         n == counted[w]
     IN /\ attempts' = [attempts EXCEPT ![id] = n]
        /\ state' = [state EXCEPT ![id] = IF Exhausted(n) THEN "failed" ELSE "retry"]
        /\ nextAt' = [nextAt EXCEPT ![id] =
                        IF Exhausted(n) THEN NoStamp
                        ELSE [at |-> clock + Backoff(n), iso |-> TRUE]]
  /\ counted' = [counted EXCEPT ![w] = 0]
  /\ Advance(w)
  /\ UNCHANGED <<lastId, dedupKey, clock, saw, asking, history, crashes>>

(***************************************************************************)
(* The process dies, or an exception such as "database is locked" leaves   *)
(* run_once: an open transaction is rolled back, the batch is forgotten,   *)
(* and the service manager starts a fresh process.                         *)
(***************************************************************************)
Crash(w) ==
  /\ crashes < MaxCrashes
  /\ pc[w] # "idle"
  /\ crashes' = crashes + 1
  /\ pc' = [pc EXCEPT ![w] = "idle"]
  /\ batch' = [batch EXCEPT ![w] = {}]
  /\ saw' = [saw EXCEPT ![w] = [id \in Ids |-> 0]]
  /\ counted' = [counted EXCEPT ![w] = 0]
  /\ UNCHANGED <<table, clock, asking, history>>

\* A second passes; at midnight every stamp is seen from the new day.
Tick ==
  /\ \/ clock + 1 < DayLength /\ clock' = clock + 1 /\ UNCHANGED nextAt
     \/ /\ clock + 1 >= DayLength
        /\ clock' = 0
        /\ nextAt' = [id \in Ids |-> FromTomorrow(nextAt[id])]
  /\ UNCHANGED <<lastId, state, dedupKey, attempts, workerVars, asking, history, crashes>>

RunOnce(w) ==
  \/ SelectBatch(w)
  \/ ReserveBatch(w)
  \/ SendAccepted(w)
  \/ SendReplyLost(w)
  \/ SendRefused(w)
  \/ MarkSent(w)
  \/ CountAttempt(w)
  \/ Reschedule(w)

QueueMessage(c) ==
  \/ \E k \in Keys : FindNoDuplicate(c, k)
  \/ InsertRow(c)
  \/ InsertConflict(c)

Next ==
  \/ \E c \in Clients : QueueMessage(c)
  \/ \E w \in Workers : RunOnce(w) \/ Crash(w)
  \/ Tick

Spec == Init /\ [][Next]_vars

\* MailDaemon.run loops for ever and time passes; nobody has to queue mail.
Fairness == WF_vars(Tick) /\ \A w \in Workers : WF_vars(RunOnce(w))
FairSpec == Spec /\ Fairness

-----------------------------------------------------------------------------
(***************************************************************************)
(* Correctness.                                                            *)
(***************************************************************************)

\* Every column and every local variable of run_once has its type; ids up to
\* lastId are exactly the rows that exist; no row counts more than MaxAttempts.
TypeOK ==
  /\ lastId \in 0..MaxId
  /\ state \in [Ids -> Active \cup Terminal \cup {"absent"}]
  /\ \A id \in Ids : state[id] = "absent" <=> id > lastId
  /\ dedupKey \in [Ids -> Keys \cup {NoKey}]
  /\ attempts \in [Ids -> 0..MaxAttempts]
  /\ nextAt \in [Ids -> Stamp \cup {NoStamp}]
  /\ clock \in 0..(DayLength - 1)
  /\ pc \in [Workers -> {"idle", "selected"} \cup Holding]
  /\ batch \in [Workers -> SUBSET (1..lastId)]
  /\ saw \in [Workers -> [Ids -> 0..MaxAttempts]]
  /\ counted \in [Workers -> 0..MaxAttempts]
  /\ asking \in [Clients -> Keys \cup {NoKey}]
  /\ handed \in [Ids -> Nat]
  /\ acked \subseteq 1..lastId
  /\ crashes \in 0..MaxCrashes

\* Two workers that read the same candidates never work on the same message: the
\* state guard of the UPDATE in reserve_outbox_batch lets one of them win, and the
\* row stays 'processing' until the winner resolves it.
ReservationExclusive ==
  \A w \in Workers : pc[w] \in Holding =>
    /\ \A id \in batch[w] : state[id] = "processing"
    /\ \A v \in Workers \ {w} : pc[v] \in Holding => batch[v] \cap batch[w] = {}

\* However queue_outgoing_message calls race between their SELECT and their INSERT,
\* and whatever workers do to the rows, one dedup key has at most one active row.
OneActivePerKey ==
  \A i, j \in Ids :
    state[i] \in Active /\ state[j] \in Active /\ dedupKey[i] = dedupKey[j] => i = j

\* The counter mark_outbox_attempt writes from an earlier read stays in step with
\* the lifecycle: a fresh row has none, a row gives up at max_attempts and not
\* before or after, and a row still to be tried has attempts left.
AttemptsMatchState ==
  \A id \in Ids :
    /\ state[id] \in {"absent", "queued"} => attempts[id] = 0
    /\ state[id] = "retry" => attempts[id] \in 1..(MaxAttempts - 1)
    /\ state[id] \in {"processing", "sent"} => attempts[id] < MaxAttempts
    /\ state[id] = "failed" => attempts[id] = MaxAttempts

\* The server gets a message at most once per counted attempt, plus once for the
\* attempt in progress or the one that ended well; crashes do not add copies.
HandoverBudget ==
  \A id \in Ids :
    handed[id] <= attempts[id] + IF state[id] \in {"processing", "sent"} THEN 1 ELSE 0

\* A row marked 'sent' was accepted by the server in a call that returned: marks
\* made by one worker never land on the message of another.
SentWasAcked == \A id \in Ids : state[id] = "sent" => id \in acked

\* One worker's part of Bookkeeping, below.
KeepsBooks(w) ==
  /\ pc[w] = "idle" <=> batch[w] = {}
  /\ pc[w] = "sent" => Current(w) \in acked
  /\ pc[w] = "rescheduling" => counted[w] = attempts[Current(w)] + 1
  /\ pc[w] \in Holding => \A id \in batch[w] :
       /\ id \in acked => pc[w] = "sent" /\ id = Current(w)
       /\ handed[id] > attempts[id] => pc[w] # "sending" /\ id = Current(w)

\* What connects a worker's local variables with the rows it holds.  A worker has a
\* batch exactly while it is inside run_once; the count it read is still the row's
\* count; only its current message can have been accepted before it is marked, so
\* the rest of its batch has no copy beyond the counted attempts.
Bookkeeping ==
  /\ \A id \in acked : state[id] \in {"processing", "sent"}
  /\ \A w \in Workers : KeepsBooks(w)

\* The inductive invariant behind the safety properties above.
IInv ==
  /\ TypeOK
  /\ ReservationExclusive
  /\ AttemptsMatchState
  /\ HandoverBudget
  /\ SentWasAcked
  /\ Bookkeeping

\* 'sent' and 'failed' are final: no late mark of a slow worker revives a message.
TerminalStable ==
  [][\A id \in Ids : state[id] \in Terminal => state'[id] = state[id]]_vars

\* Once send() has returned for a message, nobody hands it over again, not even
\* after a crash between send() and mark_outbox_sent.
NoResendAfterAck ==
  [][\A id \in acked : handed'[id] = handed[id]]_vars

Reserves(w, id) ==
  /\ pc[w] = "selected" /\ pc'[w] = "sending"
  /\ id \in batch'[w] /\ state'[id] = "processing"
Early(id) == state[id] = "retry" /\ nextAt[id] # NoStamp /\ nextAt[id].at > clock

\* With any number of workers, one that reserves a message whose next_attempt_at has not
\* come was overtaken: since its SELECT another worker has reserved the message, tried it
\* and counted the attempt.  Neither a midnight nor a crash nor a lost mark brings a retry
\* forward, and comparing the attempts with those selected would rule it out.
BackoffRespected ==
  [][\A w \in Workers, id \in Ids :
       Reserves(w, id) /\ Early(id) => saw[w][id] < attempts[id]]_vars

\* A message in 'retry' is reserved only once its next_attempt_at has passed.  The code keeps
\* this with one worker only, see BackoffRespected.
RetryWaits ==
  [][\A w \in Workers, id \in Ids : Reserves(w, id) => ~Early(id)]_vars

\* Once the second of next_attempt_at has come, the WHERE clause of
\* reserve_outbox_batch selects the waiting message.
RetryDueOnTime ==
  \A id \in Ids :
    state[id] = "retry" /\ nextAt[id] # NoStamp /\ nextAt[id].at <= clock => Due(id)

\* Rows in 'processing' that no live worker is going to mark.
Stranded ==
  {id \in Ids : state[id] = "processing" /\
     \A w \in Workers : pc[w] \in Holding => id \notin batch[w]}

\* Nothing but a death strands messages, and one death at most a batch of them: as
\* long as no worker dies, every reserved row is still in the list of the worker that
\* goes on to mark it, whatever the transport does to the rows before it.
OnlyCrashesStrand == Cardinality(Stranded) <= BatchSize * crashes

\* How long the text comparison can hold a message back: a message never tried is
\* always selected, and a retry that is not lies at most the longest backoff ahead or
\* on the current UTC day, so that it is selected from the midnight after it on.
WaitBounded ==
  \A id \in Ids :
    /\ state[id] = "queued" => Due(id)
    /\ state[id] = "retry" /\ ~Due(id) => nextAt[id].at \in 0..(clock + BackoffCap)

\* Every queued message is eventually sent or given up.
AllResolved ==
  \A id \in Ids : (state[id] \in Active) ~> (state[id] \in Terminal)

\* The lifecycle a row's state stands for, once retries and processes are abstracted.
Phase(s) ==
  CASE s = "absent" -> "absent"
    [] s \in {"queued", "retry"} -> "waiting"
    [] s = "processing" -> "taken"
    [] s = "sent" -> "delivered"
    [] s = "failed" -> "abandoned"

Status == [id \in Ids |-> Phase(state[id])]

\* The table with its clock, workers, races and crashes implements the bare lifecycle
\* of OutboxContract: messages are taken by one worker, resolved only while taken, and
\* given up when the budget is spent.
Contract == INSTANCE OutboxContract WITH
  Message <- Ids, Budget <- MaxAttempts, tries <- attempts, status <- Status

ImplementsContract == Contract!ContractSpec
=============================================================================
