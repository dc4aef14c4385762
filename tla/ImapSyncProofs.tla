--------------------------- MODULE ImapSyncProofs ---------------------------
(***************************************************************************)
(* Proofs about module ImapSync, for any number of messages,               *)
(* synchronisations and attachments.                                       *)
(***************************************************************************)
EXTENDS ImapSync, FiniteSetTheorems, TLAPS

USE DEF Messages, Uids

-----------------------------------------------------------------------------
(***************************************************************************)
(* Sequence numbers.                                                       *)
(***************************************************************************)
\* The rank of a member lies between 1 and the member itself.
LEMMA RankBounded ==
  ASSUME NEW n \in Nat, NEW v \in SUBSET (1..n), NEW m \in v
  PROVE  SequenceNumber(m, v) \in 1..m
  <1> DEFINE S == {k \in v : k <= m}
  <1>0. m \in 1..n /\ m \in S
    OBVIOUS
  <1>1. S \subseteq 1..m /\ m \in S /\ m \in Nat
    <2>1. ASSUME NEW k \in S PROVE k \in 1..m
      <3>1. k \in 1..n /\ k <= m
        OBVIOUS
      <3> QED BY <3>1, <1>0
    <2> HIDE DEF S
    <2>2. S \subseteq 1..m
      BY <2>1
    <2> QED BY <1>0, <2>2
  <1>2. IsFiniteSet(1..m) /\ Cardinality(1..m) = m
    BY <1>1, FS_Interval
  <1>3. IsFiniteSet(S) /\ Cardinality(S) <= m
    BY <1>1, <1>2, FS_Subset
  <1>4. Cardinality(S) \in Nat /\ Cardinality(S) # 0
    BY <1>1, <1>3, FS_CardinalityType, FS_EmptySet
  <1> QED BY <1>1, <1>3, <1>4 DEF SequenceNumber

\* In a mailbox that never lost a message the rank is the message.
LEMMA RankOfInterval ==
  ASSUME NEW n \in Nat, NEW m \in 1..n
  PROVE  SequenceNumber(m, 1..n) = m
  <1>1. {k \in 1..n : k <= m} = 1..m
    OBVIOUS
  <1>2. Cardinality(1..m) = m
    BY FS_Interval
  <1> QED BY <1>1, <1>2 DEF SequenceNumber

LEMMA UidType ==
  ASSUME TypeOK, NEW s \in Syncers, cur[s] \in view[s]
  PROVE  Uid(s) \in Uids /\ cur[s] \in Messages
  <1>1. arrived \in Nat /\ arrived <= MaxMessages /\ view[s] \in SUBSET (1..arrived)
    BY ImapAssumption DEF TypeOK
  <1>2. SequenceNumber(cur[s], view[s]) \in 1..cur[s]
    BY <1>1, RankBounded
  <1> QED BY <1>1, <1>2, ImapAssumption DEF Uid

LEMMA PartsType == ASSUME NEW m PROVE PartsOf(m) \in 0..Parts
  BY ImapAssumption DEF PartsOf

-----------------------------------------------------------------------------
(***************************************************************************)
(* Type correctness, in three parts.                                       *)
(***************************************************************************)
TypeMail ==
  /\ arrived \in 0..MaxMessages /\ removals \in 0..MaxRemovals /\ breaks \in 0..MaxBreaks
  /\ box \subseteq 1..arrived

TypeTables ==
  /\ row \in [Uids -> Messages \cup {None}]
  /\ attached \in [Uids -> [Messages -> [1..Parts -> 0..MaxCopies]]]

TypeSync ==
  /\ at \in [Syncers -> {"idle", "fetching", "storing", "attaching", "done"}]
  /\ view \in [Syncers -> SUBSET Messages] /\ todo \in [Syncers -> SUBSET Messages]
  /\ cur \in [Syncers -> Messages \cup {None}]
  /\ part \in [Syncers -> 0..Parts]
  /\ missed \in [Syncers -> BOOLEAN]
  /\ holder \in Syncers \cup {None}

\* One synchronisation's part.
SyncTyped(s) ==
  /\ todo[s] \subseteq view[s] /\ view[s] \subseteq 1..arrived
  /\ at[s] \in {"storing", "attaching"} => cur[s] \in view[s]
  /\ at[s] = "attaching" => part[s] < PartsOf(cur[s])
  /\ at[s] = "storing" => part[s] = 0
  /\ holder = s => at[s] \in {"fetching", "attaching", "storing"}

LEMMA TypeParts ==
  TypeOK <=> TypeMail /\ TypeTables /\ TypeSync /\ \A s \in Syncers : SyncTyped(s)
  BY DEF TypeOK, TypeMail, TypeTables, TypeSync, SyncTyped

LEMMA TypeInit == Init => TypeOK
  BY ImapAssumption DEF Init, TypeOK

\* What the steps of a synchronisation leave alone.
LEMMA SyncKeeps ==
  ASSUME NEW s \in Syncers, StartSync(s) \/ SyncAccount(s) \/ Interrupt(s)
  PROVE  UNCHANGED mailbox
  BY DEF StartSync, SyncAccount, Fetch, SaveSyncedMessage, SaveAttachmentMeta, FinishSync,
         Interrupt, mailbox

LEMMA TypeMailNext == ASSUME TypeMail, Next PROVE TypeMail'
  <1>1. CASE Arrive
    BY <1>1, ImapAssumption DEF Arrive, TypeMail
  <1>2. CASE Expunge
    BY <1>2, ImapAssumption DEF Expunge, TypeMail
  <1>3. ASSUME NEW s \in Syncers, StartSync(s) \/ SyncAccount(s) \/ Interrupt(s)
        PROVE  TypeMail'
    <2>1. UNCHANGED mailbox
      BY <1>3, SyncKeeps
    <2>2. breaks' \in 0..MaxBreaks
      BY <1>3, ImapAssumption
      DEF StartSync, SyncAccount, Fetch, SaveSyncedMessage, SaveAttachmentMeta, FinishSync,
          Interrupt, Break, TypeMail
    <2> QED BY <2>1, <2>2 DEF TypeMail, mailbox
  <1> QED BY <1>1, <1>2, <1>3 DEF Next

LEMMA TypeTablesNext == ASSUME TypeOK, Next PROVE TypeTables'
  <1>0. TypeTables /\ TypeSync /\ \A s \in Syncers : SyncTyped(s)
    BY TypeParts
  <1>1. ASSUME NEW s \in Syncers, SaveSyncedMessage(s) PROVE TypeTables'
    <2>1. Uid(s) \in Uids /\ cur[s] \in Messages
      BY <1>0, <1>1, UidType DEF SaveSyncedMessage, SyncTyped
    <2> QED BY <1>0, <1>1, <2>1 DEF SaveSyncedMessage, TypeTables
  <1>2. ASSUME NEW s \in Syncers, SaveAttachmentMeta(s) PROVE TypeTables'
    <2>1. Uid(s) \in Uids /\ cur[s] \in Messages
      BY <1>0, <1>2, UidType DEF SaveAttachmentMeta, SyncTyped
    <2>2. part[s] + 1 \in 1..Parts
      BY <1>0, <1>2, PartsType, ImapAssumption DEF SaveAttachmentMeta, SyncTyped, TypeSync
    <2> DEFINE copies == attached[Uid(s)][cur[s]][part[s] + 1]
               new == IF copies < MaxCopies THEN copies + 1 ELSE copies
    <2>3. new \in 0..MaxCopies
      <3>1. attached[Uid(s)] \in [Messages -> [1..Parts -> 0..MaxCopies]]
        BY <1>0, <2>1 DEF TypeTables
      <3>2. attached[Uid(s)][cur[s]] \in [1..Parts -> 0..MaxCopies]
        BY <2>1, <3>1
      <3>3. copies \in 0..MaxCopies
        BY <2>2, <3>2
      <3> HIDE DEF copies
      <3> QED BY <3>3, ImapAssumption
    <2>4. /\ attached' = [attached EXCEPT ![Uid(s)][cur[s]][part[s] + 1] = new]
          /\ row' = row
      BY <1>2 DEF SaveAttachmentMeta
    <2> HIDE DEF new
    <2> QED BY <1>0, <2>1, <2>2, <2>3, <2>4 DEF TypeTables
  <1>3. CASE UNCHANGED tables
    BY <1>0, <1>3 DEF tables, TypeTables
  <1> QED BY <1>1, <1>2, <1>3
          DEF Next, Arrive, Expunge, StartSync, SyncAccount, Fetch, FinishSync, Interrupt

LEMMA TypeSyncNext ==
  ASSUME TypeOK, Next PROVE TypeSync' /\ \A s \in Syncers : SyncTyped(s)'
  <1>0. TypeMail /\ TypeSync /\ \A s \in Syncers : SyncTyped(s)
    BY TypeParts
  <1> USE ImapAssumption DEF TypeSync, SyncTyped, Goto, CanWrite
  <1>1. CASE Arrive \/ Expunge
    <2>1. 1..arrived \subseteq 1..arrived'
      BY <1>0, <1>1 DEF Arrive, Expunge, TypeMail
    <2> QED BY ONLY <1>0, <1>1, <2>1 DEF Arrive, Expunge, sync, TypeSync, SyncTyped
  <1>2. ASSUME NEW q \in Syncers, StartSync(q)
        PROVE  TypeSync' /\ \A s \in Syncers : SyncTyped(s)'
    <2>1. LastOnes(Limit, box) \subseteq box /\ box \in SUBSET Messages
      BY <1>0 DEF LastOnes, TypeMail
    <2>2. PICK ids \in SUBSET box, b \in BOOLEAN :
            /\ todo' = [todo EXCEPT ![q] = ids]
            /\ missed' = [missed EXCEPT ![q] = b]
      <3>1. {} \in SUBSET box /\ LastOnes(Limit, box) \in SUBSET box
        BY <2>1
      <3>2. \/ /\ todo' = [todo EXCEPT ![q] = LastOnes(Limit, box)]
               /\ missed' = [missed EXCEPT ![q] = FALSE]
            \/ /\ todo' = [todo EXCEPT ![q] = {}]
               /\ missed' = [missed EXCEPT ![q] = TRUE]
        BY <1>2 DEF StartSync
      <3> QED BY ONLY <3>1, <3>2
    <2>3. /\ UNCHANGED <<arrived, holder, cur, part>>
          /\ at' = [at EXCEPT ![q] = "fetching"]
          /\ view' = [view EXCEPT ![q] = box]
      BY <1>2 DEF StartSync, mailbox
    <2>4. TypeSync'
      BY ONLY <1>0, <2>1, <2>2, <2>3 DEF TypeSync
    <2>5. ASSUME NEW s \in Syncers, s # q PROVE SyncTyped(s)'
      BY ONLY <1>0, <2>2, <2>3, <2>5 DEF TypeSync, SyncTyped
    <2>6. SyncTyped(q)'
      BY ONLY <1>0, <2>2, <2>3 DEF TypeSync, SyncTyped, TypeMail
    <2> QED BY ONLY <2>4, <2>5, <2>6
  <1>3. ASSUME NEW q \in Syncers, Fetch(q)
        PROVE  TypeSync' /\ \A s \in Syncers : SyncTyped(s)'
    <2>1. PICK m \in todo[q] :
            /\ todo' = [todo EXCEPT ![q] = @ \ {m}]
            /\ \/ /\ cur' = [cur EXCEPT ![q] = m]
                  /\ part' = [part EXCEPT ![q] = 0]
                  /\ Goto(q, "storing")
                  /\ missed' = missed
               \/ /\ missed' = [missed EXCEPT ![q] = TRUE]
                  /\ UNCHANGED <<at, cur, part>>
      BY <1>3 DEF Fetch
    <2>2. m \in Messages /\ todo[q] \subseteq view[q] /\ UNCHANGED <<view, holder, arrived>>
      BY <1>0, <1>3 DEF Fetch, mailbox
    <2>3. TypeSync'
      <3>1. todo' \in [Syncers -> SUBSET Messages] /\ view' = view /\ holder' = holder
        BY ONLY <1>0, <2>1, <2>2 DEF TypeSync
      <3>2. 0 \in 0..Parts /\ m \in Messages \cup {None}
        BY ONLY <2>2, ImapAssumption
      <3>3. CASE UNCHANGED <<at, cur, part>>
        BY ONLY <1>0, <2>1, <3>1, <3>2, <3>3 DEF TypeSync, Goto
      <3>4. CASE /\ cur' = [cur EXCEPT ![q] = m] /\ part' = [part EXCEPT ![q] = 0]
                 /\ Goto(q, "storing") /\ missed' = missed
        BY ONLY <1>0, <3>1, <3>2, <3>4 DEF TypeSync, Goto
      <3> QED BY ONLY <2>1, <3>3, <3>4
    <2>4. ASSUME NEW s \in Syncers, s # q PROVE SyncTyped(s)'
      BY ONLY <1>0, <2>1, <2>2, <2>4 DEF TypeSync, SyncTyped, Goto
    <2>5. SyncTyped(q)'
      BY ONLY <1>0, <1>3, <2>1, <2>2 DEF TypeSync, SyncTyped, Goto, Fetch
    <2> QED BY ONLY <2>3, <2>4, <2>5
  <1>4. ASSUME NEW q \in Syncers, SaveSyncedMessage(q)
        PROVE  TypeSync' /\ \A s \in Syncers : SyncTyped(s)'
    <2>1. /\ UNCHANGED <<sync, arrived>> /\ holder' \in {None, q} /\ holder \in {None, q}
          /\ at[q] = "storing"
          /\ at' = [at EXCEPT ![q] = IF 0 < PartsOf(cur[q]) THEN "attaching" ELSE "fetching"]
      BY <1>4 DEF SaveSyncedMessage, AfterParts, mailbox
    <2>2. TypeSync'
      BY ONLY <1>0, <2>1, ImapAssumption DEF TypeSync, sync
    <2>3. part[q] \in 0..Parts
      BY <1>0
    <2>4. ASSUME NEW s \in Syncers, s # q PROVE SyncTyped(s)'
      BY ONLY <1>0, <2>1, <2>4, ImapAssumption DEF TypeSync, SyncTyped, sync
    <2>5. SyncTyped(q)'
      <3>1. /\ todo'[q] \subseteq view'[q] /\ view'[q] \subseteq 1..arrived' /\ cur'[q] \in view'[q]
            /\ part' = part /\ cur' = cur /\ at'[q] \in {"fetching", "attaching"}
        BY ONLY <1>0, <2>1 DEF TypeSync, SyncTyped, sync
      <3>2. at'[q] = "attaching" => 0 < PartsOf(cur[q])
        BY ONLY <1>0, <2>1 DEF TypeSync
      <3>3. part[q] = 0
        BY ONLY <1>0, <2>1 DEF SyncTyped
      <3>4. at'[q] = "attaching" => part'[q] < PartsOf(cur[q])'
        BY ONLY <3>1, <3>2, <3>3 DEF PartsOf
      <3> QED BY ONLY <3>1, <3>4 DEF SyncTyped
    <2> QED BY ONLY <2>2, <2>4, <2>5
  <1>5. ASSUME NEW q \in Syncers, SaveAttachmentMeta(q)
        PROVE  TypeSync' /\ \A s \in Syncers : SyncTyped(s)'
    <2>1. part[q] + 1 \in 1..Parts
      BY <1>0, <1>5, PartsType DEF SaveAttachmentMeta
    <2>2. /\ UNCHANGED <<view, todo, cur, missed, arrived>> /\ holder' = None
          /\ holder \in {None, q} /\ at[q] = "attaching"
          /\ part' = [part EXCEPT ![q] = part[q] + 1]
          /\ at' = [at EXCEPT ![q] = IF part[q] + 1 < PartsOf(cur[q])
                                     THEN "attaching" ELSE "fetching"]
      BY <1>5 DEF SaveAttachmentMeta, AfterParts, mailbox
    <2>3. TypeSync'
      BY ONLY <1>0, <2>1, <2>2, ImapAssumption DEF TypeSync
    <2>4. \A s \in Syncers : SyncTyped(s)'
      BY ONLY <1>0, <2>1, <2>2, ImapAssumption DEF TypeSync, SyncTyped
    <2> QED BY ONLY <2>3, <2>4
  <1>6. ASSUME NEW q \in Syncers, FinishSync(q) \/ Interrupt(q)
        PROVE  TypeSync' /\ \A s \in Syncers : SyncTyped(s)'
    BY <1>0, <1>6 DEF FinishSync, Interrupt, sync, mailbox
  <1> QED BY ONLY <1>1, <1>2, <1>3, <1>4, <1>5, <1>6, Next DEF Next, SyncAccount

LEMMA NextTyped == ASSUME TypeOK, [Next]_vars PROVE TypeOK'
  <1>1. CASE Next
    BY <1>1, TypeMailNext, TypeTablesNext, TypeSyncNext
    DEF TypeOK, TypeMail, TypeTables, TypeSync, SyncTyped
  <1>2. CASE UNCHANGED vars
    BY <1>2 DEF TypeOK, vars, mailbox, tables, sync
  <1> QED BY <1>1, <1>2

\* Type correctness; the write lock stays with running synchronisations.
THEOREM TypeCorrect == Spec => []TypeOK
  <1>1. TypeOK /\ [Next]_vars => TypeOK'
    BY NextTyped
  <1> QED BY TypeInit, <1>1, PTL DEF Spec

-----------------------------------------------------------------------------
(***************************************************************************)
(* What is stored stays.                                                   *)
(***************************************************************************)
Kept ==
  /\ \A u \in Uids : row[u] # None => row'[u] = row[u]
  /\ \A u \in Uids, m \in Messages, n \in 1..Parts : attached'[u][m][n] >= attached[u][m][n]

LEMMA AttachedType ==
  ASSUME TypeTables, NEW u \in Uids, NEW m \in Messages, NEW n \in 1..Parts
  PROVE  attached[u][m][n] \in 0..MaxCopies
  <1>1. attached[u] \in [Messages -> [1..Parts -> 0..MaxCopies]]
    BY DEF TypeTables
  <1>2. attached[u][m] \in [1..Parts -> 0..MaxCopies]
    BY <1>1
  <1> QED BY <1>2

LEMMA AttachedNat ==
  TypeOK => \A u \in Uids, m \in Messages, n \in 1..Parts : attached[u][m][n] \in Nat
  <1>1. TypeOK => TypeTables
    BY TypeParts
  <1> QED BY <1>1, AttachedType, ImapAssumption

\* The one row of mail_attachments a step adds.
LEMMA AttachStep ==
  ASSUME TypeOK, NEW q \in Syncers, SaveAttachmentMeta(q)
  PROVE  /\ Uid(q) \in Uids /\ cur[q] \in Messages /\ part[q] + 1 \in 1..Parts
         /\ attached'[Uid(q)][cur[q]][part[q] + 1] > 0
         /\ \A u \in Uids, m \in Messages, n \in 1..Parts :
              IF u = Uid(q) /\ m = cur[q] /\ n = part[q] + 1
              THEN attached'[u][m][n] >= attached[u][m][n]
              ELSE attached'[u][m][n] = attached[u][m][n]
  <1>0. TypeTables /\ TypeSync /\ SyncTyped(q)
    BY TypeParts
  <1>1. Uid(q) \in Uids /\ cur[q] \in Messages
    BY <1>0, UidType DEF SaveAttachmentMeta, SyncTyped
  <1>2. part[q] + 1 \in 1..Parts
    BY <1>0, PartsType, ImapAssumption DEF SaveAttachmentMeta, SyncTyped, TypeSync
  <1> DEFINE copies == attached[Uid(q)][cur[q]][part[q] + 1]
             new == IF copies < MaxCopies THEN copies + 1 ELSE copies
  <1>3. new > 0 /\ new >= copies
    <2>1. copies \in 0..MaxCopies
      BY <1>0, <1>1, <1>2, AttachedType
    <2> HIDE DEF copies
    <2> QED BY <2>1, ImapAssumption
  <1>4. attached' = [attached EXCEPT ![Uid(q)][cur[q]][part[q] + 1] = new]
    BY DEF SaveAttachmentMeta
  <1> HIDE DEF new, copies
  <1>5. ASSUME NEW u \in Uids, NEW m \in Messages, NEW n \in 1..Parts
        PROVE  attached'[u][m][n] = IF u = Uid(q) /\ m = cur[q] /\ n = part[q] + 1
                                    THEN new ELSE attached[u][m][n]
    <2>1. attached'[u] = IF u = Uid(q)
                         THEN [attached[u] EXCEPT ![cur[q]][part[q] + 1] = new]
                         ELSE attached[u]
      BY ONLY <1>0, <1>1, <1>4, u \in Uids DEF TypeTables
    <2>2. attached[u] \in [Messages -> [1..Parts -> 0..MaxCopies]]
      BY ONLY <1>0, u \in Uids DEF TypeTables
    <2>3. attached'[u][m] = IF u = Uid(q) /\ m = cur[q]
                            THEN [attached[u][m] EXCEPT ![part[q] + 1] = new]
                            ELSE attached[u][m]
      BY ONLY <1>1, <2>1, <2>2, m \in Messages
    <2>4. attached[u][m] \in [1..Parts -> 0..MaxCopies]
      BY ONLY <2>2, m \in Messages
    <2> QED BY ONLY <1>2, <2>3, <2>4, n \in 1..Parts
  <1>6. \A u \in Uids, m \in Messages, n \in 1..Parts : attached[u][m][n] \in 0..MaxCopies
    BY <1>0, AttachedType
  <1>7. \A u \in Uids, m \in Messages, n \in 1..Parts : attached[u][m][n] >= attached[u][m][n]
    BY <1>6
  <1> QED BY ONLY <1>1, <1>2, <1>3, <1>5, <1>7 DEF copies

LEMMA KeptNext == ASSUME TypeOK, [Next]_vars PROVE Kept
  <1>0. TypeTables /\ TypeSync /\ \A s \in Syncers : SyncTyped(s)
    BY TypeParts
  <1>1. \A u \in Uids, m \in Messages, n \in 1..Parts : attached[u][m][n] \in 0..MaxCopies
    BY <1>0, AttachedType
  <1>2. ASSUME NEW q \in Syncers, SaveSyncedMessage(q) PROVE Kept
    <2>1. \A u \in Uids : row[u] # None => row'[u] = row[u]
      BY <1>0, <1>2 DEF SaveSyncedMessage, TypeTables
    <2>2. attached' = attached
      BY <1>2 DEF SaveSyncedMessage
    <2> QED BY <1>1, <2>1, <2>2 DEF Kept
  <1>3. ASSUME NEW q \in Syncers, SaveAttachmentMeta(q) PROVE Kept
    <2>1. row' = row
      BY <1>3 DEF SaveAttachmentMeta
    <2>2. \A u \in Uids, m \in Messages, n \in 1..Parts : attached'[u][m][n] >= attached[u][m][n]
      BY <1>1, <1>3, AttachStep
    <2> QED BY <2>1, <2>2 DEF Kept
  <1>4. CASE UNCHANGED tables
    BY <1>1, <1>4 DEF tables, Kept
  <1> QED BY <1>2, <1>3, <1>4
          DEF Next, vars, Arrive, Expunge, StartSync, SyncAccount, Fetch, FinishSync, Interrupt

\* No row changes its message and no attachment row goes.
THEOREM StoredStays == Spec => StoredIsKept
  <1>1. TypeOK /\ [Next]_vars => Kept
    BY KeptNext
  <1> QED BY <1>1, TypeCorrect, PTL DEF Spec, StoredIsKept, Kept

-----------------------------------------------------------------------------
(***************************************************************************)
(* A mailbox that never lost a message.                                    *)
(***************************************************************************)
\* Every view is a prefix of the arrivals, so that the number of a message is the
\* message, in whatever order synchronisations store.
Prefixes ==
  removals = 0 =>
    /\ box = 1..arrived
    /\ \A s \in Syncers : \E k \in 0..arrived : view[s] = 1..k

Numbered ==
  removals = 0 =>
    /\ \A u \in Uids : row[u] # None => row[u] = u /\ u \in 1..arrived
    /\ \A u \in Uids, m \in Messages, n \in 1..Parts :
         attached[u][m][n] > 0 => u = m /\ row[u] = m
    /\ \A s \in Syncers : at[s] = "attaching" => row[cur[s]] = cur[s]

LEMMA PrefixesInit == Init => Prefixes
  BY ImapAssumption DEF Init, Prefixes

LEMMA NumberedInit == Init => Numbered
  BY DEF Init, Numbered

LEMMA RemovalsGrow ==
  ASSUME TypeOK, [Next]_vars, removals' = 0
  PROVE  removals = 0 /\ ~Expunge
  <1>1. removals \in Nat
    BY ImapAssumption DEF TypeOK
  <1> QED BY <1>1, SyncKeeps DEF Next, vars, mailbox, Arrive, Expunge

LEMMA PrefixesNext == ASSUME TypeOK, Prefixes, [Next]_vars PROVE Prefixes'
  <1> SUFFICES ASSUME removals' = 0
               PROVE  /\ box' = 1..arrived'
                      /\ \A s \in Syncers : \E k \in 0..arrived' : view'[s] = 1..k
    BY DEF Prefixes
  <1>0. /\ ~Expunge /\ arrived \in Nat /\ box = 1..arrived
        /\ \A s \in Syncers : \E k \in 0..arrived : view[s] = 1..k
    <2>1. removals = 0 /\ ~Expunge
      BY RemovalsGrow
    <2>2. arrived \in Nat
      BY ImapAssumption DEF TypeOK
    <2> QED BY <2>1, <2>2 DEF Prefixes
  <1>1. CASE Arrive
    <2>1. arrived' = arrived + 1 /\ box' = 1..arrived' /\ view' = view
      BY <1>0, <1>1 DEF Arrive, sync
    <2>2. 0..arrived \subseteq 0..arrived'
      BY <1>0, <2>1
    <2> QED BY <1>0, <2>1, <2>2
  <1>2. ASSUME NEW q \in Syncers, StartSync(q)
        PROVE  /\ box' = 1..arrived'
               /\ \A s \in Syncers : \E k \in 0..arrived' : view'[s] = 1..k
    <2>1. box' = 1..arrived' /\ arrived' = arrived /\ view' = [view EXCEPT ![q] = 1..arrived]
      BY <1>0, <1>2 DEF StartSync, mailbox
    <2>2. arrived \in 0..arrived /\ view \in [Syncers -> SUBSET Messages]
      BY <1>0 DEF TypeOK
    <2> QED BY ONLY <1>0, <2>1, <2>2
  <1>3. CASE UNCHANGED <<mailbox, view>>
    BY <1>0, <1>3 DEF mailbox
  <1> QED BY <1>0, <1>1, <1>2, <1>3
          DEF Next, vars, sync, SyncAccount, Fetch, SaveSyncedMessage, SaveAttachmentMeta,
              FinishSync, Interrupt

\* There the external_uid of a fetched message is the message.
LEMMA UidIsMessage ==
  ASSUME TypeOK, Prefixes, removals = 0, NEW s \in Syncers, NEW m \in view[s]
  PROVE  SequenceNumber(m, view[s]) = m /\ m \in 1..arrived
  <1>1. PICK k \in 0..arrived : view[s] = 1..k
    BY DEF Prefixes
  <1>2. arrived \in Nat
    BY ImapAssumption DEF TypeOK
  <1>3. k \in Nat /\ m \in 1..k /\ m \in 1..arrived
    BY <1>1, <1>2
  <1> QED BY <1>1, <1>3, RankOfInterval

LEMMA UidOfCur ==
  ASSUME TypeOK, Prefixes, removals = 0, NEW s \in Syncers, at[s] \in {"storing", "attaching"}
  PROVE  Uid(s) = cur[s] /\ cur[s] \in 1..arrived /\ cur[s] \in Messages
  <1>1. cur[s] \in view[s]
    BY DEF TypeOK
  <1>2. Uid(s) = cur[s] /\ cur[s] \in 1..arrived
    BY <1>1, UidIsMessage DEF Uid
  <1> QED BY <1>2, ImapAssumption DEF TypeOK

LEMMA NumberedNext == ASSUME TypeOK, Prefixes, Numbered, [Next]_vars PROVE Numbered'
  <1> DEFINE Rows == \A u \in Uids : row[u] # None => row[u] = u /\ u \in 1..arrived
             Attachments == \A u \in Uids, m \in Messages, n \in 1..Parts :
                              attached[u][m][n] > 0 => u = m /\ row[u] = m
             Attaching == \A s \in Syncers : at[s] = "attaching" => row[cur[s]] = cur[s]
  <1> SUFFICES ASSUME removals' = 0 PROVE Rows' /\ Attachments' /\ Attaching'
    BY DEF Numbered
  <1>0. removals = 0 /\ Rows /\ Attachments /\ Attaching
    BY RemovalsGrow DEF Numbered
  <1>1. /\ arrived \in Nat /\ arrived' \in Nat /\ 1..arrived \subseteq 1..arrived'
    <2>1. arrived \in Nat
      BY ImapAssumption DEF TypeOK
    <2>2. arrived' = arrived \/ arrived' = arrived + 1
      BY SyncKeeps DEF Next, vars, mailbox, Arrive, Expunge
    <2> QED BY <2>1, <2>2
  <1>2. /\ row \in [Uids -> Messages \cup {None}] /\ None \notin Messages
        /\ at \in [Syncers -> {"idle", "fetching", "storing", "attaching", "done"}]
    BY ImapAssumption DEF TypeOK
  <1>3. ASSUME NEW q \in Syncers, SaveSyncedMessage(q)
        PROVE  Rows' /\ Attachments' /\ Attaching'
    <2>1. Uid(q) = cur[q] /\ cur[q] \in 1..arrived /\ cur[q] \in Messages
      BY <1>0, <1>3, UidOfCur DEF SaveSyncedMessage
    <2>2. /\ UNCHANGED <<attached, cur>>
          /\ row' = IF row[cur[q]] = None THEN [row EXCEPT ![cur[q]] = cur[q]] ELSE row
          /\ \A s \in Syncers : s # q => at'[s] = at[s]
      BY <1>2, <1>3, <2>1 DEF SaveSyncedMessage, sync, AfterParts, Goto
    <2>3. row'[cur[q]] = cur[q] /\ \A u \in Uids : u # cur[q] => row'[u] = row[u]
      BY <1>0, <1>2, <2>1, <2>2
    <2> HIDE <1>3
    <2>4. Rows'
      BY <1>0, <1>1, <2>1, <2>3
    <2>5. Attachments'
      BY <1>0, <2>2, <2>3
    <2>6. \A u \in Uids : row[u] # None => row'[u] = row[u]
      BY <1>0, <2>3
    <2>7. \A s \in Syncers : at[s] = "attaching" => cur[s] \in Messages
      BY <1>0, UidOfCur
    <2>8. Attaching'
      BY <1>0, <1>2, <2>2, <2>3, <2>6, <2>7
    <2> QED BY <2>4, <2>5, <2>8
  <1>4. ASSUME NEW q \in Syncers, SaveAttachmentMeta(q)
        PROVE  Rows' /\ Attachments' /\ Attaching'
    <2>1. Uid(q) = cur[q] /\ row[cur[q]] = cur[q]
      BY <1>0, <1>4, UidOfCur DEF SaveAttachmentMeta
    <2>2. \A u \in Uids, m \in Messages, n \in 1..Parts :
            (u = cur[q] /\ m = cur[q]) \/ attached'[u][m][n] = attached[u][m][n]
      BY <1>4, <2>1, AttachStep
    <2>3. /\ UNCHANGED <<row, cur>>
          /\ \A s \in Syncers : at'[s] = "attaching" => at[s] = "attaching"
      BY <1>2, <1>4 DEF SaveAttachmentMeta, AfterParts, Goto
    <2>4. Rows'
      BY <1>0, <1>1, <2>3
    <2>5. Attachments'
      BY <1>0, <2>1, <2>2, <2>3
    <2> QED BY <1>0, <2>3, <2>4, <2>5
  <1>5. CASE /\ UNCHANGED <<row, attached>>
             /\ \A s \in Syncers : at'[s] = "attaching" => at[s] = "attaching" /\ cur'[s] = cur[s]
    BY <1>0, <1>1, <1>5
  <1>6. CASE Arrive \/ Expunge \/ UNCHANGED vars
    BY <1>5, <1>6 DEF Arrive, Expunge, vars, tables, sync
  <1>7. ASSUME NEW q \in Syncers, StartSync(q) \/ Fetch(q) \/ FinishSync(q) \/ Interrupt(q)
        PROVE  Rows' /\ Attachments' /\ Attaching'
    <2>1. CASE StartSync(q) \/ FinishSync(q) \/ Interrupt(q)
      BY <1>2, <1>5, <2>1 DEF StartSync, FinishSync, Interrupt, Goto, tables, sync
    <2>2. CASE Fetch(q)
      <3>1. UNCHANGED <<row, attached>> /\ at[q] = "fetching"
        BY <2>2 DEF Fetch, tables
      <3>2. \/ at' = at /\ cur' = cur
            \/ \E m \in todo[q] : cur' = [cur EXCEPT ![q] = m] /\ Goto(q, "storing")
        BY <2>2 DEF Fetch
      <3>3. cur \in [Syncers -> Messages \cup {None}]
        BY DEF TypeOK
      <3>4. \A s \in Syncers : at'[s] = "attaching" => at[s] = "attaching" /\ cur'[s] = cur[s]
        BY ONLY <1>2, <3>1, <3>2, <3>3 DEF Goto
      <3> QED BY <1>5, <3>1, <3>4
    <2> QED BY <1>7, <2>1, <2>2
  <1> QED BY ONLY [Next]_vars, <1>3, <1>4, <1>6, <1>7 DEF Next, SyncAccount

-----------------------------------------------------------------------------
(***************************************************************************)
(* A synchronisation on its way has, of the messages it looks at, every    *)
(* one still to fetch, in its hands, or stored with all its attachments.   *)
(***************************************************************************)
Complete(m) == row[m] = m /\ \A n \in 1..PartsOf(m) : attached[m][m][n] > 0

InHand(s, m) ==
  /\ cur[s] = m
  /\ \/ at[s] = "storing"
     \/ at[s] = "attaching" /\ \A n \in 1..part[s] : attached[m][m][n] > 0

OnItsWay(s) ==
  removals = 0 /\ ~missed[s] /\ at[s] # "idle" =>
    /\ \A m \in LastOnes(Limit, view[s]) : m \in todo[s] \/ InHand(s, m) \/ Complete(m)
    /\ at[s] = "done" => todo[s] = {}

IInv == TypeOK /\ Prefixes /\ Numbered /\ \A s \in Syncers : OnItsWay(s)

LEMMA IInvInit == Init => IInv
  BY TypeInit, PrefixesInit, NumberedInit DEF IInv, Init, OnItsWay

LEMMA LastOnesType ==
  ASSUME TypeOK, NEW s \in Syncers PROVE LastOnes(Limit, view[s]) \subseteq Messages
  BY DEF TypeOK, LastOnes

Counted == \A u \in Uids, m \in Messages, n \in 1..Parts : attached[u][m][n] \in Nat

LEMMA TypeCounted == TypeOK => Counted
  BY AttachedNat DEF Counted

LEMMA CountedNext == ASSUME TypeOK, [Next]_vars PROVE Counted /\ Counted'
  <1>1. TypeOK' => Counted'
    BY TypeCounted, PTL
  <1> QED BY <1>1, TypeCounted, NextTyped

\* What a step stores for one synchronisation takes nothing from another.
LEMMA CompleteStays ==
  ASSUME TypeOK, [Next]_vars, NEW m \in Messages, Complete(m)
  PROVE  Complete(m)'
  <1>1. Kept /\ row[m] # None
    BY KeptNext, ImapAssumption DEF Complete
  <1>2. row'[m] = m
    BY <1>1 DEF Kept, Complete
  <1>3. Counted /\ Counted'
    BY CountedNext
  <1>4. ASSUME NEW n \in 1..PartsOf(m) PROVE attached'[m][m][n] > 0
    <2>1. n \in 1..Parts
      BY PartsType, ImapAssumption
    <2>2. attached[m][m][n] \in Nat /\ attached'[m][m][n] \in Nat
      BY <1>3, <2>1 DEF Counted
    <2> QED BY <1>1, <2>1, <2>2 DEF Kept, Complete
  <1> QED BY <1>2, <1>4 DEF Complete, PartsOf

LEMMA OnItsWayOthers ==
  ASSUME TypeOK, [Next]_vars, NEW s \in Syncers, OnItsWay(s),
         UNCHANGED <<at[s], view[s], todo[s], cur[s], part[s], missed[s]>>
  PROVE  OnItsWay(s)'
  <1> SUFFICES ASSUME removals' = 0, ~missed'[s], at'[s] # "idle"
               PROVE  /\ \A m \in LastOnes(Limit, view'[s]) :
                           m \in todo'[s] \/ InHand(s, m)' \/ Complete(m)'
                      /\ at'[s] = "done" => todo'[s] = {}
    BY DEF OnItsWay
  <1>1. /\ \A m \in LastOnes(Limit, view[s]) : m \in todo[s] \/ InHand(s, m) \/ Complete(m)
        /\ at[s] = "done" => todo[s] = {}
    BY RemovalsGrow DEF OnItsWay
  <1>2. ASSUME NEW m \in Messages, InHand(s, m) PROVE InHand(s, m)'
    <2>1. Counted /\ Counted'
      BY CountedNext
    <2>2. Kept /\ part[s] \in 0..Parts
      BY KeptNext DEF TypeOK
    <2>3. ASSUME NEW n \in 1..part[s], attached[m][m][n] > 0 PROVE attached'[m][m][n] > 0
      <3>1. n \in 1..Parts
        BY <2>2, ImapAssumption
      <3> QED BY <2>1, <2>2, <2>3, <3>1 DEF Kept, Counted
    <2> QED BY <1>2, <2>3 DEF InHand
  <1> QED BY <1>1, <1>2, CompleteStays, LastOnesType

LEMMA OnItsWayNext == ASSUME IInv, [Next]_vars, NEW s \in Syncers PROVE OnItsWay(s)'
  <1> SUFFICES ASSUME removals' = 0, ~missed'[s], at'[s] # "idle"
               PROVE  /\ \A m \in LastOnes(Limit, view'[s]) :
                           m \in todo'[s] \/ InHand(s, m)' \/ Complete(m)'
                      /\ at'[s] = "done" => todo'[s] = {}
    BY DEF OnItsWay
  <1>0. /\ TypeOK /\ Prefixes /\ Numbered /\ OnItsWay(s) /\ removals = 0
        /\ TypeSync /\ TypeTables /\ LastOnes(Limit, view[s]) \subseteq Messages
    BY RemovalsGrow, TypeParts, LastOnesType DEF IInv
  <1>1. \A m \in Messages : Complete(m) => Complete(m)'
    BY <1>0, CompleteStays
  <1>2. CASE UNCHANGED <<at[s], view[s], todo[s], cur[s], part[s], missed[s]>>
    BY <1>0, <1>2, OnItsWayOthers DEF OnItsWay
  <1>3. CASE StartSync(s)
    BY <1>0, <1>3 DEF StartSync, Goto, TypeSync
  <1>4. CASE Fetch(s)
    <2>1. PICK m \in todo[s] :
            /\ todo' = [todo EXCEPT ![s] = @ \ {m}]
            /\ \/ cur' = [cur EXCEPT ![s] = m] /\ Goto(s, "storing") /\ missed' = missed
               \/ missed' = [missed EXCEPT ![s] = TRUE]
      BY <1>4 DEF Fetch
    <2>2. /\ at[s] = "fetching" /\ view' = view
          /\ cur'[s] = m /\ at'[s] = "storing" /\ missed'[s] = missed[s]
          /\ todo'[s] = todo[s] \ {m}
      BY <1>0, <1>4, <2>1 DEF Fetch, Goto, TypeSync
    <2>3. \A x \in LastOnes(Limit, view[s]) : x \in todo[s] \/ Complete(x)
      BY <1>0, <2>2 DEF OnItsWay, InHand
    <2> QED BY ONLY <1>0, <1>1, <2>2, <2>3 DEF InHand
  <1>5. CASE SaveSyncedMessage(s)
    <2>1. Uid(s) = cur[s] /\ cur[s] \in Messages
      BY <1>0, <1>5, UidOfCur DEF SaveSyncedMessage
    <2>2. /\ at[s] = "storing" /\ part[s] = 0 /\ UNCHANGED <<view, todo, cur, part, missed>>
          /\ at'[s] = IF 0 < PartsOf(cur[s]) THEN "attaching" ELSE "fetching"
      BY <1>0, <1>5 DEF SaveSyncedMessage, AfterParts, Goto, sync, TypeSync, TypeOK
    <2>3. row'[cur[s]] = cur[s]
      BY <1>0, <1>5, <2>1 DEF SaveSyncedMessage, Numbered, TypeTables
    <2>4. InHand(s, cur[s])' \/ Complete(cur[s])'
      <3>1. PartsOf(cur[s]) \in Nat /\ 1..0 = {}
        BY PartsType, ImapAssumption
      <3>2. CASE 0 < PartsOf(cur[s])
        BY <2>2, <3>1, <3>2 DEF InHand
      <3>3. CASE PartsOf(cur[s]) = 0
        BY <2>2, <2>3, <3>1, <3>3 DEF Complete, PartsOf
      <3> QED BY <3>1, <3>2, <3>3
    <2>5. \A x \in LastOnes(Limit, view[s]) : x \in todo[s] \/ x = cur[s] \/ Complete(x)
      BY <1>0, <2>2 DEF OnItsWay, InHand
    <2> QED BY ONLY <1>0, <1>1, <2>2, <2>4, <2>5
  <1>6. CASE SaveAttachmentMeta(s)
    <2> DEFINE c == cur[s]
               n == part[s] + 1
    <2>1. Uid(s) = c /\ c \in Messages /\ row[c] = c /\ PartsOf(c) \in Nat
      BY <1>0, <1>6, UidOfCur, PartsType, ImapAssumption DEF SaveAttachmentMeta, Numbered
    <2>2. /\ at[s] = "attaching" /\ UNCHANGED <<row, view, todo, cur, missed>>
          /\ part'[s] = n /\ n \in 1..Parts
          /\ at'[s] = IF n < PartsOf(c) THEN "attaching" ELSE "fetching"
          /\ n <= PartsOf(c)
      <3>1. n \in 1..Parts
        BY <1>0, <1>6, AttachStep
      <3>2. part[s] < PartsOf(c) /\ part[s] \in Nat
        BY <1>0, <1>6, ImapAssumption DEF SaveAttachmentMeta, TypeOK
      <3>3. /\ at[s] = "attaching" /\ UNCHANGED <<row, view, todo, cur, missed>>
            /\ part'[s] = n
            /\ at'[s] = IF n < PartsOf(c) THEN "attaching" ELSE "fetching"
        BY <1>0, <1>6 DEF SaveAttachmentMeta, AfterParts, Goto, TypeSync
      <3> QED BY <2>1, <3>1, <3>2, <3>3
    <2>3. /\ attached'[c][c][n] > 0
          /\ \A k \in 1..Parts : attached'[c][c][k] > 0 \/ attached'[c][c][k] = attached[c][c][k]
      BY <1>0, <1>6, <2>1, AttachStep
    <2>4. \A x \in LastOnes(Limit, view[s]) : x \in todo[s] \/ x = c \/ Complete(x)
      BY <1>0, <2>2 DEF OnItsWay, InHand
    <2>5. c \in LastOnes(Limit, view[s]) =>
            c \in todo[s] \/ Complete(c) \/ \A k \in 1..part[s] : attached[c][c][k] > 0
      BY <1>0, <2>2 DEF OnItsWay, InHand
    <2>6. ASSUME \A k \in 1..part[s] : attached[c][c][k] > 0 PROVE InHand(s, c)' \/ Complete(c)'
      <3>1. \A k \in 1..n : attached'[c][c][k] > 0
        <4>1. \A k \in 1..n : k \in 1..Parts /\ (k = n \/ k \in 1..part[s])
          <5>1. part[s] \in Nat /\ Parts \in Nat /\ n \in 1..Parts
            BY <1>0, <2>2, ImapAssumption DEF TypeSync
          <5> QED BY ONLY <5>1
        <4> HIDE DEF n, c
        <4> QED BY ONLY <2>3, <2>6, <4>1
      <3>2. CASE n < PartsOf(c)
        BY <2>2, <3>1, <3>2 DEF InHand
      <3>3. CASE n = PartsOf(c)
        BY <2>1, <2>2, <3>1, <3>3 DEF Complete, PartsOf
      <3> QED BY <2>1, <2>2, <3>2, <3>3
    <2>7. at'[s] # "done"
      BY <2>2
    <2> QED BY <1>0, <1>1, <2>2, <2>4, <2>5, <2>6, <2>7
  <1>7. CASE FinishSync(s)
    <2>1. /\ at[s] = "fetching" /\ todo[s] = {} /\ UNCHANGED <<view, todo, missed>>
      BY <1>7 DEF FinishSync, sync
    <2>2. \A x \in LastOnes(Limit, view[s]) : Complete(x)
      BY <1>0, <2>1 DEF OnItsWay, InHand
    <2> QED BY ONLY <1>0, <1>1, <2>1, <2>2
  <1>8. CASE Interrupt(s)
    BY <1>0, <1>8 DEF Interrupt, Goto, TypeSync
  <1>9. ASSUME NEW q \in Syncers, q # s, StartSync(q) \/ SyncAccount(q) \/ Interrupt(q)
        PROVE  UNCHANGED <<at[s], view[s], todo[s], cur[s], part[s], missed[s]>>
    BY <1>0, <1>9 DEF StartSync, SyncAccount, Fetch, SaveSyncedMessage, SaveAttachmentMeta,
       FinishSync, Interrupt, Goto, AfterParts, sync, TypeSync
  <1>10. CASE Arrive \/ Expunge \/ UNCHANGED vars
    BY <1>2, <1>10 DEF Arrive, Expunge, vars, sync
  <1> QED BY ONLY [Next]_vars, <1>2, <1>3, <1>4, <1>5, <1>6, <1>7, <1>8, <1>9, <1>10
          DEF Next, SyncAccount

\* The invariant all of this rests on.
THEOREM IInvAlways == Spec => []IInv
  <1>1. IInv /\ [Next]_vars => IInv'
    BY NextTyped, PrefixesNext, NumberedNext, OnItsWayNext DEF IInv
  <1> QED BY IInvInit, <1>1, PTL DEF Spec

\* Rows and attachments describe the messages their numbers name.
THEOREM RowsAreRight == Spec => []RowsMatchMailbox
  <1>1. IInv => RowsMatchMailbox
    <2> SUFFICES ASSUME IInv, removals = 0 PROVE
          /\ \A u \in Uids : row[u] # None => row[u] \in box /\ SequenceNumber(row[u], box) = u
          /\ \A u \in Uids, m \in Messages, n \in 1..Parts : attached[u][m][n] > 0 => row[u] = m
      BY DEF RowsMatchMailbox
    <2>1. box = 1..arrived /\ arrived \in Nat
      BY ImapAssumption DEF IInv, Prefixes, TypeOK
    <2>2. /\ \A u \in Uids : row[u] # None => row[u] = u /\ u \in 1..arrived
          /\ \A u \in Uids, m \in Messages, n \in 1..Parts : attached[u][m][n] > 0 => row[u] = m
      BY DEF IInv, Numbered
    <2> QED BY <2>1, <2>2, RankOfInterval
  <1> QED BY <1>1, IInvAlways, PTL

\* A finished synchronisation has stored what it looked at.
THEOREM FinishedHasAll == Spec => []FinishedIsComplete
  <1>1. IInv => FinishedIsComplete
    <2> SUFFICES ASSUME IInv, NEW s \in Syncers, at[s] = "done", ~missed[s], removals = 0,
                        NEW m \in LastOnes(Limit, view[s])
                 PROVE  /\ row[SequenceNumber(m, view[s])] = m
                        /\ \A n \in 1..PartsOf(m) : attached[SequenceNumber(m, view[s])][m][n] > 0
      BY DEF FinishedIsComplete
    <2>1. Complete(m)
      BY DEF IInv, OnItsWay, InHand
    <2>2. m \in view[s]
      BY DEF LastOnes
    <2>3. SequenceNumber(m, view[s]) = m
      BY <2>2, UidIsMessage DEF IInv
    <2> QED BY <2>1, <2>3 DEF Complete
  <1> QED BY <1>1, IInvAlways, PTL
=============================================================================
