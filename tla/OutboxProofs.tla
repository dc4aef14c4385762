---------------------------- MODULE OutboxProofs ----------------------------
(***************************************************************************)
(* Proofs about the outgoing mail queue, for any number of workers,        *)
(* clients, keys, messages, attempts and crashes.                          *)
(***************************************************************************)
EXTENDS Outbox, WellFoundedInduction, FiniteSetTheorems, TLAPS

-----------------------------------------------------------------------------
\* A nonempty set of row ids has a first one.
LEMMA LeastId ==
  ASSUME NEW S \in SUBSET Nat, S # {}
  PROVE  \E n \in S : \A m \in S : n <= m
<1> DEFINE Less == {p \in Nat \X Nat : p[1] < p[2]}
<1>1. Less = OpToRel(<, Nat)
  BY DEF OpToRel
<1>2. IsWellFoundedOn(Less, Nat)
  BY <1>1, NatLessThanWellFounded, Zenon
<1>3. PICK n \in S : \A y \in S : ~(<<y, n>> \in Less)
  <2> HIDE DEF Less
  <2> QED BY <1>2, WFMin
<1>4. ASSUME NEW y \in S PROVE n <= y
  <2>1. y \in Nat /\ n \in Nat
    OBVIOUS
  <2>2. ~(<<y, n>> \in Less)
    BY <1>3
  <2>3. ~(y < n)
    <3> DEFINE p == <<y, n>>
    <3>1. p \in Nat \X Nat /\ p[1] = y /\ p[2] = n
      BY <2>1
    <3> HIDE DEF p
    <3>2. p \notin Less
      BY <2>2 DEF p
    <3> QED BY <3>1, <3>2
  <2> QED BY <2>1, <2>3
<1> QED
  BY <1>4

\* The current message of a worker is one of those it holds.
LEMMA MinOfIds ==
  ASSUME NEW S \in SUBSET Nat, S # {}
  PROVE  Min(S) \in S
BY LeastId DEF Min

\* ... and no row of the set comes before it.
LEMMA MinIsLeast ==
  ASSUME NEW S \in SUBSET Nat, S # {}
  PROVE  \A m \in S : Min(S) <= m
<1>1. PICK n \in S : \A m \in S : n <= m
  BY LeastId
<1> QED BY <1>1 DEF Min

\* The rows that exist have ids within the bound.
LEMMA RowsAreIds ==
  ASSUME TypeOK PROVE 1..lastId \subseteq Ids /\ 1..lastId \subseteq Nat
BY OutboxAssumption DEF TypeOK, Ids, OutboxAssumption

\* Inside run_once the current message exists and is held by its worker.
LEMMA CurrentHeld ==
  ASSUME TypeOK, Bookkeeping, NEW w \in Workers, pc[w] # "idle"
  PROVE  Current(w) \in batch[w] /\ Current(w) \in Ids
<1>1. batch[w] \in SUBSET (1..lastId) /\ lastId \in 0..MaxId
  BY DEF TypeOK
<1>2. batch[w] # {}
  BY DEF Bookkeeping, KeepsBooks
<1>3. 1..lastId \subseteq Ids /\ 1..lastId \subseteq Nat
  BY RowsAreIds
<1>4. Min(batch[w]) \in batch[w]
  BY <1>1, <1>2, <1>3, MinOfIds
<1> QED
  BY <1>1, <1>3, <1>4 DEF Current

\* A step that leaves a worker and the messages it holds alone keeps its books.
LEMMA OthersKeepBooks ==
  ASSUME IInv, NEW v \in Workers,
         pc'[v] = pc[v], batch'[v] = batch[v], counted'[v] = counted[v],
         pc[v] \in Holding => \A id \in batch[v] :
           attempts'[id] = attempts[id] /\ handed'[id] = handed[id] /\ (id \in acked' <=> id \in acked)
  PROVE  KeepsBooks(v)'
<1>1. KeepsBooks(v)
  BY DEF IInv, Bookkeeping
<1>2. Current(v)' = Current(v)
  BY DEF Current
<1>3. pc[v] \in Holding => Current(v) \in batch[v]
  BY CurrentHeld DEF IInv, Holding
<1> QED
  BY <1>1, <1>2, <1>3 DEF KeepsBooks, Holding

\* A stamp seen from the next day is a stamp.
LEMMA FromTomorrowType ==
  ASSUME OutboxAssumption, NEW s \in Stamp \cup {NoStamp}
  PROVE  FromTomorrow(s) \in Stamp \cup {NoStamp}
BY DEF FromTomorrow, Stamp, OutboxAssumption

\* The wait of a failed attempt is a number of seconds.
LEMMA BackoffType ==
  ASSUME OutboxAssumption, NEW n PROVE Backoff(n) \in Nat
BY DEF Backoff, OutboxAssumption

-----------------------------------------------------------------------------
\* The initial state satisfies the inductive invariant.
LEMMA InitIInv == Init => IInv
<1> SUFFICES ASSUME Init PROVE IInv
  OBVIOUS
<1> USE OutboxAssumption DEF OutboxAssumption, Init
<1>1. TypeOK
  BY DEF TypeOK, Ids, Active, Terminal, Holding
<1>2. ReservationExclusive
  BY DEF ReservationExclusive, Holding
<1>3. AttemptsMatchState /\ HandoverBudget /\ SentWasAcked
  BY DEF AttemptsMatchState, HandoverBudget, SentWasAcked
<1>4. Bookkeeping
  BY DEF Bookkeeping, KeepsBooks, Holding
<1> QED
  BY <1>1, <1>2, <1>3, <1>4 DEF IInv

\* Steps that leave the table, the workers and the history alone keep the invariant
\* when they keep the types of the rest.
LEMMA QueueStep ==
  ASSUME IInv, NEW c \in Clients, QueueMessage(c) PROVE IInv'
<1> USE OutboxAssumption DEF OutboxAssumption
<1>1. ASSUME NEW k \in Keys, FindNoDuplicate(c, k) PROVE IInv'
  <2> USE <1>1 DEF FindNoDuplicate, table, workerVars, history
  <2>1. TypeOK'
    BY DEF IInv, TypeOK
  <2>2. (ReservationExclusive /\ AttemptsMatchState /\ HandoverBudget /\ SentWasAcked)'
    BY DEF IInv, ReservationExclusive, AttemptsMatchState, HandoverBudget, SentWasAcked
  <2>3. Bookkeeping'
    BY OthersKeepBooks DEF IInv, Bookkeeping
  <2> QED BY <2>1, <2>2, <2>3 DEF IInv
<1>2. CASE InsertConflict(c)
  <2> USE <1>2 DEF InsertConflict, table, workerVars, history
  <2>1. TypeOK'
    BY DEF IInv, TypeOK
  <2>2. (ReservationExclusive /\ AttemptsMatchState /\ HandoverBudget /\ SentWasAcked)'
    BY DEF IInv, ReservationExclusive, AttemptsMatchState, HandoverBudget, SentWasAcked
  <2>3. Bookkeeping'
    BY OthersKeepBooks DEF IInv, Bookkeeping
  <2> QED BY <2>1, <2>2, <2>3 DEF IInv
<1>3. CASE InsertRow(c)
  <2> DEFINE new == lastId + 1
  <2> USE <1>3 DEF InsertRow, workerVars, history
  <2>1. new \in Ids /\ state[new] = "absent" /\ attempts[new] = 0
    BY DEF IInv, TypeOK, AttemptsMatchState, Ids
  <2>2. new \notin acked /\ \A w \in Workers : new \notin batch[w]
    BY DEF IInv, TypeOK
  <2>3. handed[new] = 0
    BY <2>1 DEF IInv, TypeOK, HandoverBudget
  <2>4. TypeOK'
    <3>1. SqlNow \in Stamp
      BY DEF IInv, TypeOK, SqlNow, Stamp
    <3>2. nextAt' \in [Ids -> Stamp \cup {NoStamp}] /\ state' \in [Ids -> Active \cup Terminal \cup {"absent"}]
      BY <2>1, <3>1 DEF IInv, TypeOK, Active
    <3>3. \A id \in Ids : state'[id] = "absent" <=> id > lastId'
      BY <2>1 DEF IInv, TypeOK, Ids
    <3>4. batch' \in [Workers -> SUBSET (1..lastId')] /\ acked' \subseteq 1..lastId'
      BY DEF IInv, TypeOK
    <3>5. lastId' \in 0..MaxId /\ asking' \in [Clients -> Keys \cup {NoKey}]
      BY DEF IInv, TypeOK
    <3>6. dedupKey' \in [Ids -> Keys \cup {NoKey}] /\ attempts' \in [Ids -> 0..MaxAttempts]
      BY <2>1 DEF IInv, TypeOK
    <3> QED BY <3>2, <3>3, <3>4, <3>5, <3>6 DEF IInv, TypeOK
  <2>5. ReservationExclusive'
    BY <2>2 DEF IInv, ReservationExclusive, TypeOK, Ids
  <2>6. AttemptsMatchState'
    BY <2>1 DEF IInv, AttemptsMatchState, TypeOK
  <2>7. HandoverBudget' /\ SentWasAcked'
    BY <2>1, <2>3 DEF IInv, HandoverBudget, SentWasAcked, TypeOK
  <2>8. Bookkeeping'
    <3>1. \A id \in Ids : id # new => state'[id] = state[id] /\ attempts'[id] = attempts[id]
      BY DEF IInv, TypeOK
    <3>2. \A id \in acked : state'[id] \in {"processing", "sent"}
      BY <2>2, <3>1 DEF IInv, Bookkeeping, TypeOK, Ids
    <3>3. ASSUME NEW w \in Workers PROVE KeepsBooks(w)'
      <4>1. \A id \in batch[w] : id \in Ids /\ id # new
        BY <2>2 DEF IInv, TypeOK, Ids
      <4> QED BY <3>1, <4>1, OthersKeepBooks
    <3> QED BY <3>2, <3>3 DEF Bookkeeping
  <2> QED BY <2>4, <2>5, <2>6, <2>7, <2>8 DEF IInv
<1> QED
  BY <1>1, <1>2, <1>3 DEF QueueMessage

-----------------------------------------------------------------------------
\* Reading the candidates reserves nothing yet.
LEMMA SelectStep ==
  ASSUME IInv, NEW w \in Workers, SelectBatch(w) PROVE IInv'
<1> USE DEF SelectBatch, table, history
<1>1. Candidates \in SUBSET (1..lastId)
  BY DEF Candidates, FirstRows, Reservable, IInv, TypeOK, Ids
<1>2. TypeOK'
  <2>1. [id \in Ids |-> IF id \in Candidates THEN attempts[id] ELSE 0] \in [Ids -> 0..MaxAttempts]
    BY OutboxAssumption DEF IInv, TypeOK, OutboxAssumption
  <2> QED BY <1>1, <2>1 DEF IInv, TypeOK
<1>3. (ReservationExclusive /\ AttemptsMatchState /\ HandoverBudget /\ SentWasAcked)'
  BY DEF IInv, TypeOK, ReservationExclusive, AttemptsMatchState, HandoverBudget,
         SentWasAcked, Holding
<1>4. Bookkeeping'
  <2>1. ASSUME NEW v \in Workers, v # w PROVE KeepsBooks(v)'
    BY <2>1, OthersKeepBooks DEF IInv, TypeOK
  <2>2. KeepsBooks(w)'
    BY DEF IInv, TypeOK, KeepsBooks, Holding
  <2>3. \A id \in acked : state[id] \in {"processing", "sent"}
    BY DEF IInv, Bookkeeping
  <2> QED BY <2>1, <2>2, <2>3 DEF Bookkeeping
<1> QED
  BY <1>2, <1>3, <1>4 DEF IInv

\* The reserved rows were nobody's: no row that is still waiting is in the batch of
\* a worker past its reservation, has an unreported copy or was acknowledged.
LEMMA ReserveStep ==
  ASSUME IInv, NEW w \in Workers, ReserveBatch(w) PROVE IInv'
<1> DEFINE got == {id \in batch[w] : Reservable(id)}
<1> USE DEF ReserveBatch, history
<1>1. got \in SUBSET (1..lastId) /\ got \subseteq Ids
  <2>1. batch[w] \in SUBSET (1..lastId) /\ lastId \in 0..MaxId
    BY DEF IInv, TypeOK
  <2> QED BY <2>1, OutboxAssumption DEF Ids, OutboxAssumption
<1>2. \A id \in got : /\ state[id] \in {"queued", "retry"}
                      /\ id \notin acked
                      /\ handed[id] <= attempts[id]
                      /\ attempts[id] < MaxAttempts
  BY <1>1, OutboxAssumption
     DEF Reservable, IInv, Bookkeeping, HandoverBudget, AttemptsMatchState, TypeOK,
         OutboxAssumption
<1>3. \A v \in Workers : pc[v] \in Holding => batch[v] \cap got = {}
  BY <1>2 DEF IInv, ReservationExclusive
<1>4. /\ state' = [id \in Ids |-> IF id \in got THEN "processing" ELSE state[id]]
      /\ batch' = [batch EXCEPT ![w] = got]
      /\ pc' = [pc EXCEPT ![w] = IF got = {} THEN "idle" ELSE "sending"]
      /\ saw' = [saw EXCEPT ![w] = [id \in Ids |-> 0]]
  OBVIOUS
<1> HIDE DEF got
<1>5. TypeOK'
  <2>1. saw' \in [Workers -> [Ids -> 0..MaxAttempts]]
    BY <1>4, OutboxAssumption DEF IInv, TypeOK, OutboxAssumption
  <2> QED BY <1>1, <1>2, <1>4, <2>1 DEF IInv, TypeOK, Active, Holding, Ids
<1>6. ReservationExclusive'
  <2>1. \A v \in Workers : v # w => pc'[v] = pc[v] /\ batch'[v] = batch[v]
    BY <1>4 DEF IInv, TypeOK
  <2>2. pc'[w] \in Holding => batch'[w] = got /\ \A id \in got : state'[id] = "processing"
    BY <1>1, <1>4 DEF IInv, TypeOK
  <2>3. \A v \in Workers : v # w /\ pc[v] \in Holding =>
          \A id \in batch[v] : state'[id] = "processing"
    BY <1>4, RowsAreIds DEF IInv, TypeOK, ReservationExclusive
  <2> QED BY <1>3, <2>1, <2>2, <2>3 DEF IInv, ReservationExclusive
<1>7. AttemptsMatchState' /\ SentWasAcked'
  BY <1>1, <1>2, <1>4 DEF IInv, TypeOK, AttemptsMatchState, SentWasAcked
<1>8. HandoverBudget'
  BY <1>1, <1>2, <1>4 DEF IInv, TypeOK, HandoverBudget
<1>9. Bookkeeping'
  <2>1. ASSUME NEW v \in Workers, v # w PROVE KeepsBooks(v)'
    BY <2>1, OthersKeepBooks DEF IInv, TypeOK
  <2>2. KeepsBooks(w)'
    <3>1. batch'[w] = got /\ pc'[w] = IF got = {} THEN "idle" ELSE "sending"
      BY <1>4 DEF IInv, TypeOK
    <3>2. \A id \in got : id \notin acked' /\ ~(handed'[id] > attempts'[id])
      BY <1>1, <1>2 DEF IInv, TypeOK
    <3> QED BY <3>1, <3>2 DEF KeepsBooks
  <2>3. \A id \in acked : id \in Ids /\ state[id] \in {"processing", "sent"}
    BY OutboxAssumption DEF IInv, TypeOK, Bookkeeping, Ids, OutboxAssumption
  <2>4. \A id \in acked' : state'[id] \in {"processing", "sent"}
    BY <1>4, <2>3
  <2> QED BY <2>1, <2>2, <2>4 DEF Bookkeeping
<1> QED
  BY <1>5, <1>6, <1>7, <1>8, <1>9 DEF IInv

\* What the table says of the current message of a worker past its reservation.
LEMMA CurrentFacts ==
  ASSUME IInv, NEW w \in Workers, pc[w] \in Holding
  PROVE  /\ Current(w) \in batch[w] /\ Current(w) \in Ids /\ Current(w) \in 1..lastId
         /\ state[Current(w)] = "processing"
         /\ attempts[Current(w)] \in Nat /\ attempts[Current(w)] < MaxAttempts
         /\ \A v \in Workers \ {w} : pc[v] \in Holding => Current(w) \notin batch[v]
<1>1. pc[w] # "idle"
  BY DEF Holding
<1>2. Current(w) \in batch[w] /\ Current(w) \in Ids
  BY <1>1, CurrentHeld DEF IInv
<1>3. state[Current(w)] = "processing"
  BY <1>2 DEF IInv, ReservationExclusive
<1>4. attempts[Current(w)] \in Nat /\ attempts[Current(w)] < MaxAttempts
  BY <1>2, <1>3 DEF IInv, AttemptsMatchState, TypeOK
<1>5. Current(w) \in 1..lastId
  BY <1>2 DEF IInv, TypeOK
<1> QED
  BY <1>2, <1>3, <1>4, <1>5 DEF IInv, ReservationExclusive

-----------------------------------------------------------------------------
\* The three outcomes of transport.send touch the current message only.
LEMMA SendStep ==
  ASSUME IInv, NEW w \in Workers,
         SendAccepted(w) \/ SendReplyLost(w) \/ SendRefused(w)
  PROVE  IInv'
<1> DEFINE cur == Current(w)
<1>1. pc[w] = "sending" /\ pc[w] \in Holding
  BY DEF SendAccepted, SendReplyLost, SendRefused, Holding
<1>2. /\ cur \in batch[w] /\ cur \in Ids /\ cur \in 1..lastId /\ state[cur] = "processing"
      /\ attempts[cur] \in Nat /\ attempts[cur] < MaxAttempts
      /\ \A v \in Workers : v # w /\ pc[v] \in Holding => cur \notin batch[v]
  BY <1>1, CurrentFacts
<1>3. handed[cur] <= attempts[cur] /\ handed[cur] \in Nat
  BY <1>1, <1>2 DEF IInv, TypeOK, Bookkeeping, KeepsBooks
<1>4. /\ UNCHANGED <<table, clock, batch, saw, counted, asking, crashes>>
      /\ pc' \in {[pc EXCEPT ![w] = "sent"], [pc EXCEPT ![w] = "raised"]}
      /\ handed' \in {handed, [handed EXCEPT ![cur] = @ + 1]}
      /\ acked' = IF pc'[w] = "sent" THEN acked \cup {cur} ELSE acked
  <2>1. pc' \in {[pc EXCEPT ![w] = "sent"], [pc EXCEPT ![w] = "raised"]} => 
          (pc'[w] = "sent" <=> pc' = [pc EXCEPT ![w] = "sent"])
    BY DEF IInv, TypeOK
  <2> QED BY <2>1 DEF SendAccepted, SendReplyLost, SendRefused, history, IInv, TypeOK
<1>5. /\ \A v \in Workers : v # w => pc'[v] = pc[v]
      /\ pc'[w] \in {"sent", "raised"} /\ batch'[w] = batch[w] /\ Current(w)' = cur
      /\ \A id \in Ids : id # cur => handed'[id] = handed[id]
      /\ handed'[cur] \in {handed[cur], handed[cur] + 1}
      /\ \A id : id # cur => (id \in acked' <=> id \in acked)
  BY <1>2, <1>4 DEF IInv, TypeOK, Current
<1>6. pc'[w] = "sent" <=> cur \in acked'
  <2>1. cur \notin acked
    BY <1>1, <1>2 DEF IInv, Bookkeeping, KeepsBooks
  <2> QED BY <1>4, <2>1
<1> HIDE DEF cur
<1>7. TypeOK'
  <2>1. handed' \in [Ids -> Nat]
    BY <1>2, <1>3, <1>4 DEF IInv, TypeOK
  <2> QED BY <1>2, <1>4, <2>1 DEF IInv, TypeOK, table, Holding
<1>8. ReservationExclusive' /\ AttemptsMatchState'
  BY <1>1, <1>4, <1>5 DEF IInv, ReservationExclusive, AttemptsMatchState, table
<1>9. HandoverBudget' /\ SentWasAcked'
  BY <1>2, <1>3, <1>4, <1>5 DEF IInv, TypeOK, HandoverBudget, SentWasAcked, table
<1>10. Bookkeeping'
  <2>1. ASSUME NEW v \in Workers, v # w PROVE KeepsBooks(v)'
    <3>1. \A id \in batch[v] : id \in Ids
      BY RowsAreIds DEF IInv, TypeOK
    <3> QED BY <1>2, <1>4, <1>5, <2>1, <3>1, OthersKeepBooks DEF table
  <2>2. KeepsBooks(w)'
    <3>1. \A id \in batch[w] : id # cur => id \notin acked /\ ~(handed[id] > attempts[id])
      BY <1>1 DEF IInv, Bookkeeping, KeepsBooks, cur
    <3>2. \A id \in batch[w] : id # cur => id \notin acked' /\ ~(handed'[id] > attempts'[id])
      BY <1>4, <1>5, <3>1, RowsAreIds DEF table, IInv, TypeOK
    <3>3. batch[w] # {}
      BY <1>2
    <3> QED BY <1>5, <1>6, <3>2, <3>3 DEF KeepsBooks
  <2>3. \A id \in acked' : state'[id] \in {"processing", "sent"}
    BY <1>2, <1>4 DEF IInv, Bookkeeping, table
  <2> QED BY <2>1, <2>2, <2>3 DEF Bookkeeping
<1> QED
  BY <1>7, <1>8, <1>9, <1>10 DEF IInv

\* Advance gives the current message up and keeps the rest of the batch.
LEMMA AdvanceFacts ==
  ASSUME TypeOK, NEW w \in Workers, Current(w) \in batch[w], Advance(w)
  PROVE  /\ batch'[w] = batch[w] \ {Current(w)}
         /\ pc'[w] \in {"idle", "sending"}
         /\ pc'[w] = "idle" <=> batch'[w] = {}
         /\ \A v \in Workers : v # w => pc'[v] = pc[v] /\ batch'[v] = batch[v]
         /\ pc' \in [Workers -> {"idle", "selected"} \cup Holding]
         /\ batch' \in [Workers -> SUBSET (1..lastId)]
<1> DEFINE cur == Current(w)
<1>1. /\ batch' = [batch EXCEPT ![w] = @ \ {cur}]
      /\ pc' = [pc EXCEPT ![w] = IF batch[w] = {cur} THEN "idle" ELSE "sending"]
  BY DEF Advance
<1>2. batch[w] = {cur} <=> batch[w] \ {cur} = {}
  OBVIOUS
<1> HIDE DEF cur
<1>3. batch'[w] = batch[w] \ {cur} /\ \A v \in Workers : v # w => pc'[v] = pc[v] /\ batch'[v] = batch[v]
  BY <1>1 DEF TypeOK
<1>4. pc'[w] \in {"idle", "sending"} /\ (pc'[w] = "idle" <=> batch[w] = {cur})
  BY <1>1 DEF TypeOK
<1>5. pc' \in [Workers -> {"idle", "selected"} \cup Holding] /\ batch' \in [Workers -> SUBSET (1..lastId)]
  BY <1>1 DEF TypeOK, Holding
<1> QED
  BY <1>2, <1>3, <1>4, <1>5 DEF cur

\* A worker that resolves its current message, in the table and in its batch, keeps
\* every worker's books, whatever the new state of the message is.
LEMMA ResolveBooks ==
  ASSUME IInv, NEW w \in Workers, pc[w] \in Holding, Advance(w),
         UNCHANGED history,
         \A v \in Workers : v # w => counted'[v] = counted[v],
         \A id \in Ids : id # Current(w) => attempts'[id] = attempts[id] /\ state'[id] = state[id],
         Current(w) \in acked => state'[Current(w)] = "sent"
  PROVE  ReservationExclusive' /\ Bookkeeping'
<1> DEFINE cur == Current(w)
<1>1. /\ cur \in batch[w] /\ cur \in Ids
      /\ \A v \in Workers : v # w /\ pc[v] \in Holding => cur \notin batch[v]
  BY CurrentFacts
<1>2. /\ batch'[w] = batch[w] \ {cur}
      /\ pc'[w] \in {"idle", "sending"}
      /\ pc'[w] = "idle" <=> batch'[w] = {}
      /\ \A v \in Workers : v # w => pc'[v] = pc[v] /\ batch'[v] = batch[v]
  BY <1>1, AdvanceFacts DEF IInv
<1>3. \A v \in Workers : \A id \in batch[v] : id \in Ids
  BY RowsAreIds DEF IInv, TypeOK
<1>4. \A id \in Ids : id # cur => attempts'[id] = attempts[id] /\ state'[id] = state[id]
  OBVIOUS
<1>5. cur \in acked => state'[cur] = "sent"
  OBVIOUS
<1> HIDE DEF cur
<1>6. ReservationExclusive'
  <2>1. ASSUME NEW v \in Workers, pc'[v] \in Holding
        PROVE  batch'[v] \subseteq batch[v] /\ pc[v] \in Holding /\ cur \notin batch'[v]
    BY <1>1, <1>2, <2>1
  <2>2. \A v \in Workers : pc'[v] \in Holding => \A id \in batch'[v] : state'[id] = "processing"
    BY <1>3, <1>4, <2>1 DEF IInv, ReservationExclusive
  <2>3. \A u, v \in Workers : u # v /\ pc'[u] \in Holding /\ pc'[v] \in Holding
           => batch'[u] \cap batch'[v] = {}
    BY <2>1 DEF IInv, ReservationExclusive
  <2> QED BY <2>2, <2>3 DEF ReservationExclusive
<1>7. Bookkeeping'
  <2>1. ASSUME NEW v \in Workers, v # w PROVE KeepsBooks(v)'
    BY <1>1, <1>2, <1>3, <1>4, <2>1, OthersKeepBooks DEF history
  <2>2. KeepsBooks(w)'
    <3>1. \A id \in batch[w] : id # cur => id \notin acked /\ ~(handed[id] > attempts[id])
      BY DEF IInv, Bookkeeping, KeepsBooks, cur
    <3>2. \A id \in batch'[w] : id \notin acked' /\ ~(handed'[id] > attempts'[id])
      BY <1>2, <1>3, <1>4, <3>1 DEF history
    <3> QED BY <1>2, <3>2 DEF KeepsBooks
  <2>3. \A id \in acked' : state'[id] \in {"processing", "sent"}
    BY <1>4, <1>5, RowsAreIds DEF IInv, TypeOK, Bookkeeping, history
  <2> QED BY <2>1, <2>2, <2>3 DEF Bookkeeping
<1> QED
  BY <1>6, <1>7

\* mark_outbox_sent concerns a message this worker saw accepted.
LEMMA MarkSentStep ==
  ASSUME IInv, NEW w \in Workers, MarkSent(w) PROVE IInv'
<1> DEFINE cur == Current(w)
<1>1. pc[w] = "sent" /\ pc[w] \in Holding /\ Advance(w)
  BY DEF MarkSent, Holding
<1>2. /\ cur \in batch[w] /\ cur \in Ids /\ cur \in 1..lastId /\ state[cur] = "processing"
      /\ attempts[cur] < MaxAttempts
  BY <1>1, CurrentFacts
<1>3. cur \in acked
  BY <1>1 DEF IInv, Bookkeeping, KeepsBooks
<1>4. /\ state' = [state EXCEPT ![cur] = "sent"]
      /\ UNCHANGED <<lastId, dedupKey, attempts, nextAt, clock, saw, counted, asking, history,
                   crashes>>
  BY DEF MarkSent
<1>5. /\ pc' \in [Workers -> {"idle", "selected"} \cup Holding]
      /\ batch' \in [Workers -> SUBSET (1..lastId)]
  BY <1>1, <1>2, AdvanceFacts DEF IInv
<1>6. state'[cur] = "sent" /\ \A id \in Ids : id # cur => state'[id] = state[id]
  BY <1>2, <1>4 DEF IInv, TypeOK
<1>7. ReservationExclusive' /\ Bookkeeping'
  BY <1>1, <1>4, <1>6, ResolveBooks
<1> HIDE DEF cur
<1>8. TypeOK'
  <2>1. state' \in [Ids -> Active \cup Terminal \cup {"absent"}]
    BY <1>4 DEF IInv, TypeOK, Terminal
  <2>2. \A id \in Ids : state'[id] = "absent" <=> id > lastId
    BY <1>2, <1>6 DEF IInv, TypeOK
  <2> QED BY <1>4, <1>5, <2>1, <2>2 DEF IInv, TypeOK, history
<1>9. AttemptsMatchState' /\ HandoverBudget' /\ SentWasAcked'
  BY <1>2, <1>3, <1>4, <1>6
     DEF IInv, AttemptsMatchState, HandoverBudget, SentWasAcked, history
<1> QED
  BY <1>7, <1>8, <1>9 DEF IInv

\* The read of mark_outbox_attempt stays valid: the row is this worker's.
LEMMA CountStep ==
  ASSUME IInv, NEW w \in Workers, CountAttempt(w) PROVE IInv'
<1> DEFINE cur == Current(w)
<1>1. pc[w] = "raised" /\ pc[w] \in Holding
  BY DEF CountAttempt, Holding
<1>2. cur \in batch[w] /\ attempts[cur] \in Nat /\ attempts[cur] < MaxAttempts
  BY <1>1, CurrentFacts
<1>3. /\ counted' = [counted EXCEPT ![w] = attempts[cur] + 1]
      /\ pc' = [pc EXCEPT ![w] = "rescheduling"]
      /\ UNCHANGED <<table, clock, batch, saw, asking, history, crashes>>
  BY DEF CountAttempt
<1>4. Current(w)' = cur
  BY <1>3 DEF Current
<1>5. cur \notin acked /\ KeepsBooks(w)
  BY <1>1, <1>2 DEF IInv, Bookkeeping, KeepsBooks
<1>6. attempts[cur] + 1 \in 0..MaxAttempts
  BY <1>2, OutboxAssumption DEF OutboxAssumption
<1> HIDE DEF cur
<1>7. TypeOK'
  BY <1>3, <1>6 DEF IInv, TypeOK, table, history, Holding
<1>8. (ReservationExclusive /\ AttemptsMatchState /\ HandoverBudget /\ SentWasAcked)'
  BY <1>1, <1>3 DEF IInv, TypeOK, ReservationExclusive, AttemptsMatchState,
                    HandoverBudget, SentWasAcked, table, history, Holding
<1>9. Bookkeeping'
  <2>1. ASSUME NEW v \in Workers, v # w PROVE KeepsBooks(v)'
    BY <1>3, <2>1, OthersKeepBooks DEF IInv, TypeOK, table, history
  <2>2. KeepsBooks(w)'
    <3>1. counted'[w] = attempts[cur] + 1 /\ pc'[w] = "rescheduling"
      BY <1>3 DEF IInv, TypeOK
    <3>2. UNCHANGED <<attempts, handed, acked, batch>>
      BY <1>3 DEF table, history
    <3> QED BY <1>1, <1>2, <1>4, <1>5, <3>1, <3>2 DEF KeepsBooks, cur
  <2> QED BY <1>3, <2>1, <2>2 DEF IInv, Bookkeeping, table, history
<1> QED
  BY <1>7, <1>8, <1>9 DEF IInv

\* A failed attempt is counted once, and the count alone decides what follows.
LEMMA RescheduleStep ==
  ASSUME IInv, NEW w \in Workers, Reschedule(w) PROVE IInv'
<1> DEFINE cur == Current(w)
           n == counted[w]
<1>1. pc[w] = "rescheduling" /\ pc[w] \in Holding /\ Advance(w)
  BY DEF Reschedule, Holding
<1>2. /\ cur \in batch[w] /\ cur \in Ids /\ cur \in 1..lastId /\ state[cur] = "processing"
      /\ attempts[cur] \in Nat /\ attempts[cur] < MaxAttempts
  BY <1>1, CurrentFacts
<1>3. n = attempts[cur] + 1 /\ cur \notin acked
  BY <1>1, <1>2 DEF IInv, Bookkeeping, KeepsBooks
<1>4. handed[cur] \in Nat /\ handed[cur] <= attempts[cur] + 1
  BY <1>2 DEF IInv, TypeOK, HandoverBudget
<1>5. /\ attempts' = [attempts EXCEPT ![cur] = n]
      /\ state' = [state EXCEPT ![cur] = IF Exhausted(n) THEN "failed" ELSE "retry"]
      /\ nextAt' = [nextAt EXCEPT ![cur] = IF Exhausted(n) THEN NoStamp
                                           ELSE [at |-> clock + Backoff(n), iso |-> TRUE]]
      /\ counted' = [counted EXCEPT ![w] = 0]
      /\ UNCHANGED <<lastId, dedupKey, clock, saw, asking, history, crashes>>
  BY DEF Reschedule
<1>6. n \in 1..MaxAttempts /\ (Exhausted(n) <=> n = MaxAttempts)
  BY <1>2, <1>3, OutboxAssumption DEF Exhausted, OutboxAssumption
<1>7. /\ pc' \in [Workers -> {"idle", "selected"} \cup Holding]
      /\ batch' \in [Workers -> SUBSET (1..lastId)]
  BY <1>1, <1>2, AdvanceFacts DEF IInv
<1>8. /\ state'[cur] = (IF n = MaxAttempts THEN "failed" ELSE "retry") /\ attempts'[cur] = n
      /\ \A id \in Ids : id # cur => state'[id] = state[id] /\ attempts'[id] = attempts[id]
      /\ \A v \in Workers : v # w => counted'[v] = counted[v]
  BY <1>2, <1>5, <1>6 DEF IInv, TypeOK
<1>9. ReservationExclusive' /\ Bookkeeping'
  BY <1>1, <1>3, <1>5, <1>8, ResolveBooks
<1>10. clock + Backoff(n) \in Int
  BY BackoffType, OutboxAssumption DEF IInv, TypeOK, OutboxAssumption
<1> HIDE DEF cur, n
<1>11. TypeOK'
  <2>1. state' \in [Ids -> Active \cup Terminal \cup {"absent"}]
    BY <1>5 DEF IInv, TypeOK, Terminal, Active
  <2>2. \A id \in Ids : state'[id] = "absent" <=> id > lastId
    BY <1>2, <1>8 DEF IInv, TypeOK
  <2>3. attempts' \in [Ids -> 0..MaxAttempts] /\ counted' \in [Workers -> 0..MaxAttempts]
    <3>1. n \in 0..MaxAttempts /\ 0 \in 0..MaxAttempts
      BY <1>6, OutboxAssumption DEF OutboxAssumption
    <3>2. attempts \in [Ids -> 0..MaxAttempts] /\ counted \in [Workers -> 0..MaxAttempts]
      BY DEF IInv, TypeOK
    <3> QED BY <1>5, <3>1, <3>2
  <2>4. nextAt' \in [Ids -> Stamp \cup {NoStamp}]
    BY <1>5, <1>10 DEF IInv, TypeOK, Stamp
  <2> QED BY <1>5, <1>7, <2>1, <2>2, <2>3, <2>4 DEF IInv, TypeOK, history
<1>12. AttemptsMatchState' /\ SentWasAcked'
  <2>1. n = MaxAttempts \/ n \in 1..(MaxAttempts - 1)
    BY <1>6, OutboxAssumption DEF OutboxAssumption
  <2>2. AttemptsMatchState'
    BY <1>8, <2>1 DEF IInv, AttemptsMatchState
  <2>3. SentWasAcked'
    BY <1>5, <1>8 DEF IInv, SentWasAcked, history
  <2> QED BY <2>2, <2>3
<1>13. HandoverBudget'
  BY <1>2, <1>3, <1>4, <1>5, <1>8 DEF IInv, HandoverBudget, history
<1> QED
  BY <1>9, <1>11, <1>12, <1>13 DEF IInv

\* A dead worker forgets its batch; the rows and the other workers are untouched.
LEMMA CrashStep ==
  ASSUME IInv, NEW w \in Workers, Crash(w) PROVE IInv'
<1> USE DEF Crash, table, history
<1>1. TypeOK'
  BY OutboxAssumption DEF IInv, TypeOK, OutboxAssumption
<1>2. pc'[w] = "idle" /\ batch'[w] = {}
      /\ \A v \in Workers : v # w => pc'[v] = pc[v] /\ batch'[v] = batch[v] /\ counted'[v] = counted[v]
  BY DEF IInv, TypeOK
<1>3. (ReservationExclusive /\ AttemptsMatchState /\ HandoverBudget /\ SentWasAcked)'
  BY <1>2 DEF IInv, ReservationExclusive, AttemptsMatchState, HandoverBudget,
              SentWasAcked, Holding
<1>4. Bookkeeping'
  <2>1. ASSUME NEW v \in Workers, v # w PROVE KeepsBooks(v)'
    BY <1>2, <2>1, OthersKeepBooks
  <2>2. KeepsBooks(w)'
    BY <1>2 DEF KeepsBooks, Holding
  <2> QED BY <2>1, <2>2 DEF IInv, Bookkeeping
<1> QED
  BY <1>1, <1>3, <1>4 DEF IInv

\* Time changes how stamps are seen and nothing else.
LEMMA TickStep ==
  ASSUME IInv, Tick PROVE IInv'
<1>1. /\ clock' \in 0..(DayLength - 1)
      /\ nextAt' \in [Ids -> Stamp \cup {NoStamp}]
      /\ UNCHANGED <<lastId, state, dedupKey, attempts, workerVars, asking, history, crashes>>
  <2>1. \A id \in Ids : FromTomorrow(nextAt[id]) \in Stamp \cup {NoStamp}
    BY FromTomorrowType, OutboxAssumption DEF IInv, TypeOK
  <2> QED BY <2>1, OutboxAssumption DEF Tick, IInv, TypeOK, OutboxAssumption
<1>2. TypeOK'
  BY <1>1 DEF IInv, TypeOK, workerVars, history
<1>3. (ReservationExclusive /\ AttemptsMatchState /\ HandoverBudget /\ SentWasAcked)'
  BY <1>1 DEF IInv, ReservationExclusive, AttemptsMatchState, HandoverBudget,
              SentWasAcked, workerVars, history
<1>4. Bookkeeping'
  BY <1>1, OthersKeepBooks DEF IInv, Bookkeeping, workerVars, history
<1> QED
  BY <1>2, <1>3, <1>4 DEF IInv

\* A stuttering step keeps everything.
LEMMA StutterStep ==
  ASSUME IInv, UNCHANGED vars PROVE IInv'
<1>1. TypeOK'
  BY DEF IInv, TypeOK, vars, table, workerVars, history
<1>2. (ReservationExclusive /\ AttemptsMatchState /\ HandoverBudget /\ SentWasAcked)'
  BY DEF IInv, ReservationExclusive, AttemptsMatchState, HandoverBudget, SentWasAcked,
         vars, table, workerVars, history
<1>3. Bookkeeping'
  BY OthersKeepBooks DEF IInv, Bookkeeping, vars, table, workerVars, history
<1> QED
  BY <1>1, <1>2, <1>3 DEF IInv

\* Every step keeps the inductive invariant.
LEMMA NextIInv == IInv /\ [Next]_vars => IInv'
<1> SUFFICES ASSUME IInv, [Next]_vars PROVE IInv'
  OBVIOUS
<1>1. ASSUME NEW c \in Clients, QueueMessage(c) PROVE IInv'
  BY <1>1, QueueStep
<1>2. ASSUME NEW w \in Workers, RunOnce(w) PROVE IInv'
  BY <1>2, SelectStep, ReserveStep, SendStep, MarkSentStep, CountStep, RescheduleStep
     DEF RunOnce
<1>3. ASSUME NEW w \in Workers, Crash(w) PROVE IInv'
  BY <1>3, CrashStep
<1>4. CASE Tick
  BY <1>4, TickStep
<1>5. CASE UNCHANGED vars
  BY <1>5, StutterStep
<1> QED
  BY <1>1, <1>2, <1>3, <1>4, <1>5 DEF Next

\* The inductive invariant holds in every reachable state, for any instance.
THEOREM InductiveInvariant == Spec => []IInv
BY InitIInv, NextIInv, PTL DEF Spec

-----------------------------------------------------------------------------
\* Every variable of the queue and of its workers keeps its type.
THEOREM TypeCorrect == Spec => []TypeOK
<1>1. IInv => TypeOK
  BY DEF IInv
<1> QED BY <1>1, InductiveInvariant, PTL

\* However many workers read the same candidates, reserve_outbox_batch gives each
\* message to one of them, and it stays 'processing' until that one resolves it.
THEOREM Exclusive == Spec => []ReservationExclusive
<1>1. IInv => ReservationExclusive
  BY DEF IInv
<1> QED BY <1>1, InductiveInvariant, PTL

\* Attempts are counted exactly, so that a message fails at max_attempts.
THEOREM AttemptsCounted == Spec => []AttemptsMatchState
<1>1. IInv => AttemptsMatchState
  BY DEF IInv
<1> QED BY <1>1, InductiveInvariant, PTL

\* A recipient gets at most one copy per attempt, crashes and races included.
THEOREM CopiesBounded == Spec => []HandoverBudget
<1>1. IInv => HandoverBudget
  BY DEF IInv
<1> QED BY <1>1, InductiveInvariant, PTL

\* A message marked 'sent' was accepted by the server.
THEOREM SentAcknowledged == Spec => []SentWasAcked
<1>1. IInv => SentWasAcked
  BY DEF IInv
<1> QED BY <1>1, InductiveInvariant, PTL

-----------------------------------------------------------------------------
(***************************************************************************)
(* What a step of the system does to the columns state, attempts and       *)
(* dedup_key: nothing, or one of four things.                              *)
(***************************************************************************)
RowInserted(id, k) ==
  /\ state[id] = "absent" /\ IndexAdmits(k)
  /\ state' = [state EXCEPT ![id] = "queued"]
  /\ dedupKey' = [dedupKey EXCEPT ![id] = k]
  /\ attempts' = attempts

RowsReserved(S) ==
  /\ \A id \in S : state[id] \in {"queued", "retry"}
  /\ state' = [id \in Ids |-> IF id \in S THEN "processing" ELSE state[id]]
  /\ UNCHANGED <<attempts, dedupKey>>

RowSent(id) ==
  /\ state[id] = "processing"
  /\ state' = [state EXCEPT ![id] = "sent"]
  /\ UNCHANGED <<attempts, dedupKey>>

RowPutBack(id) ==
  /\ state[id] = "processing"
  /\ attempts' = [attempts EXCEPT ![id] = @ + 1]
  /\ state' = [state EXCEPT ![id] = IF attempts[id] + 1 = MaxAttempts THEN "failed" ELSE "retry"]
  /\ UNCHANGED dedupKey

RowsUntouched == UNCHANGED <<state, attempts, dedupKey>>

\* Every step of the system has one of these effects on the rows.
LEMMA TableSteps ==
  ASSUME IInv, [Next]_vars
  PROVE  \/ RowsUntouched
         \/ \E id \in Ids : RowSent(id) \/ RowPutBack(id) \/ \E k : RowInserted(id, k)
         \/ \E S \in SUBSET Ids : RowsReserved(S)
<1>1. ASSUME NEW c \in Clients, QueueMessage(c)
      PROVE  RowsUntouched \/ \E id \in Ids : \E k : RowInserted(id, k)
  <2>1. CASE InsertRow(c)
    <3>1. lastId + 1 \in Ids /\ state[lastId + 1] = "absent" /\ attempts[lastId + 1] = 0
      BY <2>1, OutboxAssumption
         DEF InsertRow, IInv, TypeOK, AttemptsMatchState, Ids, OutboxAssumption
    <3>2. attempts' = attempts
      BY <2>1, <3>1 DEF InsertRow, IInv, TypeOK
    <3>3. RowInserted(lastId + 1, asking[c])
      BY <2>1, <3>1, <3>2 DEF InsertRow, RowInserted
    <3> QED BY <3>1, <3>3
  <2>2. CASE InsertConflict(c) \/ \E k \in Keys : FindNoDuplicate(c, k)
    BY <2>2 DEF InsertConflict, FindNoDuplicate, table, RowsUntouched
  <2> QED BY <1>1, <2>1, <2>2 DEF QueueMessage
<1>2. ASSUME NEW w \in Workers, ReserveBatch(w)
      PROVE  \E S \in SUBSET Ids : RowsReserved(S)
  <2> DEFINE got == {id \in batch[w] : Reservable(id)}
  <2>1. got \in SUBSET Ids
    BY RowsAreIds DEF IInv, TypeOK
  <2>2. RowsReserved(got)
    BY <1>2 DEF ReserveBatch, RowsReserved, Reservable
  <2> QED BY <2>1, <2>2
<1>3. ASSUME NEW w \in Workers, MarkSent(w) PROVE \E id \in Ids : RowSent(id)
  <2>1. Current(w) \in Ids /\ state[Current(w)] = "processing"
    BY <1>3, CurrentFacts DEF MarkSent, Holding
  <2>2. RowSent(Current(w))
    BY <1>3, <2>1 DEF MarkSent, RowSent
  <2> QED BY <2>1, <2>2
<1>4. ASSUME NEW w \in Workers, Reschedule(w) PROVE \E id \in Ids : RowPutBack(id)
  <2>1. /\ Current(w) \in Ids /\ state[Current(w)] = "processing"
        /\ attempts[Current(w)] \in Nat /\ attempts[Current(w)] < MaxAttempts
    BY <1>4, CurrentFacts DEF Reschedule, Holding
  <2>2. counted[w] = attempts[Current(w)] + 1
    BY <1>4 DEF Reschedule, IInv, Bookkeeping, KeepsBooks
  <2>3. Exhausted(counted[w]) <=> attempts[Current(w)] + 1 = MaxAttempts
    BY <2>1, <2>2, OutboxAssumption DEF Exhausted, OutboxAssumption
  <2>4. RowPutBack(Current(w))
    BY <1>4, <2>1, <2>2, <2>3 DEF Reschedule, RowPutBack, IInv, TypeOK
  <2> QED BY <2>1, <2>4
<1>5. ASSUME NEW w \in Workers,
             \/ SelectBatch(w) \/ SendAccepted(w) \/ SendReplyLost(w) \/ SendRefused(w)
             \/ CountAttempt(w) \/ Crash(w)
      PROVE  RowsUntouched
  BY <1>5 DEF SelectBatch, SendAccepted, SendReplyLost, SendRefused, CountAttempt, Crash,
              table, RowsUntouched
<1>6. CASE Tick \/ UNCHANGED vars
  BY <1>6 DEF Tick, vars, table, RowsUntouched
<1> QED
  BY <1>1, <1>2, <1>3, <1>4, <1>5, <1>6 DEF Next, RunOnce

\* No step takes a row back from 'sent' or 'failed'.
THEOREM TerminalIsFinal == Spec => TerminalStable
<1>1. IInv /\ [Next]_vars =>
        [\A id \in Ids : state[id] \in Terminal => state'[id] = state[id]]_vars
  <2> SUFFICES ASSUME IInv, [Next]_vars, NEW id \in Ids, state[id] \in Terminal
               PROVE  state'[id] = state[id]
    OBVIOUS
  <2>1. state \in [Ids -> Active \cup Terminal \cup {"absent"}] /\ state[id] \in {"sent", "failed"}
    BY DEF IInv, TypeOK, Terminal
  <2> QED
    BY <2>1, TableSteps DEF RowsUntouched, RowSent, RowPutBack, RowInserted, RowsReserved
<1> QED BY <1>1, InductiveInvariant, PTL DEF Spec, TerminalStable

\* One dedup key has at most one active row, whatever the clients and workers race.
THEOREM DedupHolds == Spec => []OneActivePerKey
<1>1. Init => OneActivePerKey
  BY DEF Init, OneActivePerKey, Active
<1>2. IInv /\ OneActivePerKey /\ [Next]_vars => OneActivePerKey'
  <2> SUFFICES ASSUME IInv, OneActivePerKey, [Next]_vars PROVE OneActivePerKey'
    OBVIOUS
  <2>0. /\ state \in [Ids -> Active \cup Terminal \cup {"absent"}]
        /\ dedupKey \in [Ids -> Keys \cup {NoKey}]
    BY DEF IInv, TypeOK
  <2>1. ASSUME \A id \in Ids : state'[id] \in Active => state[id] \in Active,
               dedupKey' = dedupKey
        PROVE  OneActivePerKey'
    BY <2>1 DEF OneActivePerKey
  <2>2. CASE RowsUntouched
    BY <2>1, <2>2 DEF RowsUntouched
  <2>3. ASSUME NEW id \in Ids, RowSent(id) \/ RowPutBack(id) PROVE OneActivePerKey'
    BY <2>0, <2>1, <2>3 DEF RowSent, RowPutBack, Active
  <2>4. ASSUME NEW S \in SUBSET Ids, RowsReserved(S) PROVE OneActivePerKey'
    BY <2>0, <2>1, <2>4 DEF RowsReserved, Active
  <2>5. ASSUME NEW id \in Ids, NEW k, RowInserted(id, k) PROVE OneActivePerKey'
    <3>1. \A j \in Ids : j # id => state'[j] = state[j] /\ dedupKey'[j] = dedupKey[j]
      BY <2>0, <2>5 DEF RowInserted
    <3>2. dedupKey'[id] = k
      BY <2>0, <2>5 DEF RowInserted
    <3>3. \A j \in Ids : dedupKey[j] = k => state[j] \notin Active
      BY <2>5 DEF RowInserted, IndexAdmits, HasActive
    <3> QED BY <3>1, <3>2, <3>3 DEF OneActivePerKey
  <2> QED BY <2>2, <2>3, <2>4, <2>5, TableSteps
<1> QED BY <1>1, <1>2, InductiveInvariant, PTL DEF Spec

\* A message whose send() returned is never handed to the server again.
THEOREM NoDuplicateAfterAck == Spec => NoResendAfterAck
<1>1. IInv /\ [Next]_vars => [\A id \in acked : handed'[id] = handed[id]]_vars
  <2> SUFFICES ASSUME IInv, Next, NEW id \in acked PROVE handed'[id] = handed[id]
    BY DEF vars, history
  <2>1. handed \in [Ids -> Nat]
    BY DEF IInv, TypeOK
  <2>2. ASSUME NEW w \in Workers, SendAccepted(w) \/ SendReplyLost(w)
        PROVE  handed'[id] = handed[id]
    <3>1. pc[w] = "sending" /\ pc[w] \in Holding
      BY <2>2 DEF SendAccepted, SendReplyLost, Holding
    <3>2. Current(w) \in batch[w] /\ KeepsBooks(w)
      BY <3>1, CurrentFacts DEF IInv, Bookkeeping
    <3>3. id # Current(w)
      BY <3>1, <3>2 DEF KeepsBooks
    <3>4. id \in Ids
      BY RowsAreIds DEF IInv, TypeOK
    <3> QED BY <2>1, <2>2, <3>3, <3>4 DEF SendAccepted, SendReplyLost
  <2>3. CASE handed' = handed
    BY <2>3
  <2>4. (\E w \in Workers : SendAccepted(w) \/ SendReplyLost(w)) \/ handed' = handed
    BY DEF Next, QueueMessage, RunOnce, FindNoDuplicate, InsertRow, InsertConflict,
           SelectBatch, ReserveBatch, SendRefused, MarkSent, CountAttempt, Reschedule,
           Crash, Tick, history
  <2> QED BY <2>2, <2>3, <2>4
<1> QED BY <1>1, InductiveInvariant, PTL DEF Spec, NoResendAfterAck

-----------------------------------------------------------------------------
\* What a worker has selected was due, and is due until another worker counts an attempt.
SelectedDue ==
  \A w \in Workers : pc[w] = "selected" => \A id \in batch[w] :
    /\ saw[w][id] <= attempts[id]
    /\ Early(id) => saw[w][id] < attempts[id]

\* Time does not make a due message undue, not even at midnight.
LEMMA DueStays ==
  ASSUME IInv, Tick, NEW id \in Ids, Early(id)' PROVE Early(id)
<1>1. /\ nextAt \in [Ids -> Stamp \cup {NoStamp}] /\ clock \in 0..(DayLength - 1)
      /\ DayLength \in Nat
  BY OutboxAssumption DEF IInv, TypeOK, OutboxAssumption
<1>2. CASE clock' = clock + 1 /\ nextAt' = nextAt
  BY <1>1, <1>2 DEF Stamp, Early, Tick
<1>3. CASE clock' = 0 /\ nextAt' = [i \in Ids |-> FromTomorrow(nextAt[i])]
  <2>1. nextAt'[id] = FromTomorrow(nextAt[id]) /\ nextAt'[id] # NoStamp
    BY <1>3 DEF Early
  <2>2. nextAt[id] \in Stamp /\ nextAt[id] # NoStamp
    BY <1>1, <2>1 DEF FromTomorrow
  <2>3. nextAt[id].at >= DayLength
    BY <1>1, <1>3, <2>1, <2>2 DEF FromTomorrow, Stamp, Early
  <2> QED BY <1>1, <2>2, <2>3 DEF Early, Tick, Stamp
<1> QED BY <1>2, <1>3 DEF Tick

\* Of the steps that touch selected rows, only Reschedule makes one early, and it counts an
\* attempt: attempts never decrease.
LEMMA SelectedDueStep ==
  ASSUME IInv, SelectedDue, [Next]_vars PROVE SelectedDue'
<1>1. /\ pc \in [Workers -> {"idle", "selected"} \cup Holding]
      /\ batch \in [Workers -> SUBSET (1..lastId)] /\ 1..lastId \subseteq Ids
      /\ saw \in [Workers -> [Ids -> Nat]] /\ attempts \in [Ids -> Nat]
      /\ lastId \in Nat /\ clock \in Nat /\ nextAt \in [Ids -> Stamp \cup {NoStamp}]
      /\ state \in [Ids -> Active \cup Terminal \cup {"absent"}]
  BY RowsAreIds, OutboxAssumption DEF IInv, TypeOK, OutboxAssumption
\* A worker that has not selected anew keeps what it read.
<1>2. SUFFICES ASSUME NEW w \in Workers, pc'[w] = "selected", NEW id \in batch'[w]
               PROVE  saw'[w][id] <= attempts'[id] /\ (Early(id)' => saw'[w][id] < attempts'[id])
  BY DEF SelectedDue
<1>3. CASE SelectBatch(w)
  <2>1. /\ id \in Candidates /\ UNCHANGED <<table, clock>>
        /\ saw'[w] = [i \in Ids |-> IF i \in Candidates THEN attempts[i] ELSE 0]
    BY <1>1, <1>2, <1>3 DEF SelectBatch
  <2>2. id \in Ids /\ Due(id)
    BY <2>1 DEF Candidates, FirstRows
  <2>3. nextAt[id] # NoStamp => nextAt[id].at <= clock
    BY <1>1, <2>2 DEF Due, TextLeqNow, Stamp
  <2>4. nextAt[id] # NoStamp => ~(nextAt[id].at > clock)
    BY <1>1, <2>2, <2>3 DEF Stamp
  <2> QED BY <1>1, <2>1, <2>2, <2>4 DEF table, Early
<1>4. CASE ~SelectBatch(w)
  <2>1. pc[w] = "selected" /\ batch'[w] = batch[w] /\ saw'[w] = saw[w]
    <3>1. ASSUME NEW v \in Workers, RunOnce(v) \/ Crash(v)
          PROVE  pc[w] = "selected" /\ batch'[w] = batch[w] /\ saw'[w] = saw[w]
      <4>1. CASE v = w
        BY <1>1, <1>2, <1>4, <3>1, <4>1
           DEF RunOnce, ReserveBatch, SendAccepted, SendReplyLost, SendRefused, MarkSent,
               CountAttempt, Reschedule, Crash, Advance
      <4>2. CASE v # w
        BY <1>1, <1>2, <3>1, <4>2
           DEF RunOnce, SelectBatch, ReserveBatch, SendAccepted, SendReplyLost, SendRefused,
               MarkSent, CountAttempt, Reschedule, Crash, Advance
      <4> QED BY <4>1, <4>2
    <3> QED BY <1>2, <3>1 DEF Next, QueueMessage, FindNoDuplicate, InsertRow, InsertConflict, Tick,
                              vars, workerVars
  <2>2. /\ id \in 1..lastId /\ id \in Ids
        /\ saw[w][id] <= attempts[id] /\ (Early(id) => saw[w][id] < attempts[id])
    BY <1>1, <1>2, <2>1 DEF SelectedDue
  <2>3. CASE \E v \in Workers : Reschedule(v) /\ id = Current(v)
    <3>1. PICK v \in Workers : Reschedule(v) /\ id = Current(v)
      BY <2>3
    <3>2. counted[v] = attempts[id] + 1
      BY <3>1 DEF Reschedule, IInv, Bookkeeping, KeepsBooks
    <3>3. attempts'[id] = attempts[id] + 1
      BY <1>1, <2>2, <3>1, <3>2 DEF Reschedule
    <3>4. attempts[id] \in Nat /\ saw[w][id] \in Nat
      BY <1>1, <2>2
    <3> QED BY <2>1, <2>2, <3>3, <3>4
  <2>4. CASE Tick
    <3>1. UNCHANGED attempts
      BY <2>4 DEF Tick
    <3> QED BY <2>1, <2>2, <2>4, <3>1, DueStays
  <2>5. CASE ~Tick /\ \A v \in Workers : ~(Reschedule(v) /\ id = Current(v))
    <3>1. UNCHANGED clock /\ nextAt'[id] = nextAt[id] /\ attempts'[id] = attempts[id]
          /\ (state'[id] = "retry" => state[id] = "retry")
      <4>1. CASE \E c \in Clients : InsertRow(c)
        BY <1>1, <2>2, <4>1 DEF InsertRow
      <4>2. CASE \E v \in Workers : Reschedule(v)
        BY <1>1, <2>2, <2>5, <4>2 DEF Reschedule
      <4>3. CASE \E v \in Workers : MarkSent(v) \/ ReserveBatch(v)
        BY <1>1, <2>2, <4>3 DEF MarkSent, ReserveBatch
      <4> QED
        BY <2>5, <4>1, <4>2, <4>3
           DEF Next, QueueMessage, RunOnce, FindNoDuplicate, InsertConflict, SelectBatch,
               SendAccepted, SendReplyLost, SendRefused, CountAttempt, Crash, table, vars
    <3> QED BY <2>1, <2>2, <3>1 DEF Early
  <2> QED BY <2>3, <2>4, <2>5
<1> QED BY <1>3, <1>4

\* However many workers share the queue and die in it, one that reserves a waiting retry was
\* overtaken: the row has one more counted attempt than the one it selected.
THEOREM OnlyOvertakenRetryEarly == Spec => BackoffRespected
<1>1. Init => SelectedDue
  BY DEF Init, SelectedDue
<1>2. IInv /\ SelectedDue /\ [Next]_vars => SelectedDue'
  BY SelectedDueStep
<1>3. IInv /\ SelectedDue /\ [Next]_vars =>
        [\A w \in Workers, id \in Ids :
           Reserves(w, id) /\ Early(id) => saw[w][id] < attempts[id]]_vars
  <2> SUFFICES ASSUME IInv, SelectedDue, Next, NEW w \in Workers, NEW id \in Ids,
                      Reserves(w, id), Early(id)
               PROVE  saw[w][id] < attempts[id]
    OBVIOUS
  <2>1. /\ pc \in [Workers -> {"idle", "selected"} \cup Holding]
        /\ batch \in [Workers -> SUBSET (1..lastId)]
    BY DEF IInv, TypeOK
  <2>2. id \in batch[w]
    BY <2>1 DEF Reserves, Next, QueueMessage, RunOnce, FindNoDuplicate, InsertRow, InsertConflict,
                SelectBatch, ReserveBatch, SendAccepted, SendReplyLost, SendRefused, MarkSent,
                CountAttempt, Reschedule, Advance, Crash, Tick, workerVars
  <2> QED BY <2>2 DEF Reserves, SelectedDue
<1> QED
  BY <1>1, <1>2, <1>3, InductiveInvariant, PTL DEF Spec, BackoffRespected

-----------------------------------------------------------------------------
\* Time does not take a message out of the reach of the WHERE clause, and brings a
\* stamp no further away.
LEMMA DueLasts ==
  ASSUME IInv, Tick, NEW id \in Ids
  PROVE  /\ Due(id) => Due(id)'
         /\ ~Due(id)' /\ nextAt[id].at \in 0..(clock + BackoffCap)
              => nextAt'[id].at \in 0..(clock' + BackoffCap)
<1>1. /\ nextAt \in [Ids -> Stamp \cup {NoStamp}] /\ clock \in 0..(DayLength - 1)
      /\ DayLength \in Nat \ {0} /\ BackoffCap \in Nat
  BY OutboxAssumption DEF IInv, TypeOK, OutboxAssumption
<1> USE DEF Due, TextLeqNow, Stamp
<1>2. CASE clock' = clock + 1 /\ nextAt' = nextAt
  BY <1>1, <1>2
<1>3. CASE clock' = 0 /\ nextAt' = [i \in Ids |-> FromTomorrow(nextAt[i])]
  <2> DEFINE s == nextAt[id]
  <2>1. nextAt'[id] = FromTomorrow(s) /\ s \in Stamp \cup {NoStamp}
    BY <1>1, <1>3
  <2>2. CASE s = NoStamp
    BY <2>1, <2>2 DEF FromTomorrow
  <2>3. CASE s # NoStamp
    <3>1. /\ nextAt'[id].at = IF s.at < DayLength THEN -1 ELSE s.at - DayLength
          /\ nextAt'[id].iso = s.iso /\ s.at \in Int /\ s.iso \in BOOLEAN
      BY <2>1, <2>3 DEF FromTomorrow
    <3>2. Due(id) => s.at < DayLength
      BY <1>1, <2>3, <3>1
    <3> QED BY <1>1, <1>3, <3>1, <3>2
  <2> QED BY <2>2, <2>3
<1> QED BY <1>2, <1>3 DEF Tick

\* A backoff is at most the cap, and a wait counted from now lies in the future.
LEMMA BackoffCapped ==
  ASSUME OutboxAssumption, NEW n PROVE Backoff(n) \in 1..BackoffCap
BY DEF Backoff, OutboxAssumption

\* A stamp taken now in the format of CURRENT_TIMESTAMP is due at once.
LEMMA FreshRowDue ==
  ASSUME IInv, NEW c \in Clients, InsertRow(c), NEW id \in Ids, id = lastId + 1
  PROVE  Due(id)'
<1>1. nextAt'[id] = [at |-> clock, iso |-> FALSE]
  BY DEF InsertRow, SqlNow, IInv, TypeOK
<1>2. clock' = clock /\ clock \in Int
  BY OutboxAssumption DEF InsertRow, IInv, TypeOK, OutboxAssumption
<1> QED BY <1>1, <1>2 DEF Due, TextLeqNow

\* What one step does to the wait of one message.
WaitsWithinBound(id) ==
  /\ state[id] = "queued" => Due(id)
  /\ state[id] = "retry" /\ ~Due(id) => nextAt[id].at \in 0..(clock + BackoffCap)

\* Every step keeps the wait of every message within its bound.
LEMMA WaitStep ==
  ASSUME IInv, WaitBounded, [Next]_vars, NEW id \in Ids PROVE WaitsWithinBound(id)'
<1>1. /\ nextAt \in [Ids -> Stamp \cup {NoStamp}] /\ clock \in Nat
      /\ state \in [Ids -> Active \cup Terminal \cup {"absent"}]
  BY OutboxAssumption DEF IInv, TypeOK, OutboxAssumption
<1>2. WaitsWithinBound(id)
  BY DEF WaitBounded, WaitsWithinBound
<1>3. ASSUME nextAt'[id] = nextAt[id], clock' = clock,
             state'[id] = state[id] \/ state'[id] \notin {"queued", "retry"}
      PROVE  WaitsWithinBound(id)'
  BY <1>2, <1>3 DEF WaitsWithinBound, Due, TextLeqNow
<1>4. ASSUME NEW c \in Clients, QueueMessage(c) PROVE WaitsWithinBound(id)'
  <2>1. CASE InsertRow(c) /\ id = lastId + 1
    <3>1. state'[id] = "queued"
      BY <1>1, <2>1 DEF InsertRow
    <3>2. Due(id)'
      BY <2>1, FreshRowDue
    <3> QED BY <3>1, <3>2 DEF WaitsWithinBound
  <2>2. CASE InsertRow(c) /\ id # lastId + 1
    BY <1>1, <1>3, <2>2 DEF InsertRow
  <2>3. CASE InsertConflict(c) \/ \E k \in Keys : FindNoDuplicate(c, k)
    BY <1>3, <2>3 DEF InsertConflict, FindNoDuplicate, table
  <2> QED BY <1>4, <2>1, <2>2, <2>3 DEF QueueMessage
<1>5. ASSUME NEW w \in Workers, Reschedule(w) PROVE WaitsWithinBound(id)'
  <2> DEFINE n == counted[w]
  <2>1. CASE id = Current(w)
    <3>1. CASE Exhausted(n)
      <4>1. state'[id] = "failed"
        BY <1>1, <1>5, <2>1, <3>1 DEF Reschedule
      <4> QED BY <4>1 DEF WaitsWithinBound
    <3>2. CASE ~Exhausted(n)
      <4>1. state'[id] = "retry" /\ nextAt'[id] = [at |-> clock + Backoff(n), iso |-> TRUE]
            /\ clock' = clock
        BY <1>1, <1>5, <2>1, <3>2 DEF Reschedule
      <4>2. Backoff(n) \in 1..BackoffCap
        BY BackoffCapped, OutboxAssumption
      <4>3. nextAt'[id].at \in 0..(clock' + BackoffCap)
        BY <1>1, <4>1, <4>2, OutboxAssumption DEF OutboxAssumption
      <4> QED BY <4>1, <4>3 DEF WaitsWithinBound
    <3> QED BY <3>1, <3>2
  <2>2. CASE id # Current(w)
    BY <1>1, <1>3, <1>5, <2>2 DEF Reschedule
  <2> QED BY <2>1, <2>2
<1>6. ASSUME NEW w \in Workers, ReserveBatch(w) \/ MarkSent(w) PROVE WaitsWithinBound(id)'
  BY <1>1, <1>3, <1>6 DEF ReserveBatch, MarkSent
<1>7. ASSUME NEW w \in Workers,
             \/ SelectBatch(w) \/ SendAccepted(w) \/ SendReplyLost(w) \/ SendRefused(w)
             \/ CountAttempt(w) \/ Crash(w)
      PROVE  WaitsWithinBound(id)'
  BY <1>3, <1>7 DEF SelectBatch, SendAccepted, SendReplyLost, SendRefused, CountAttempt,
                    Crash, table
<1>8. CASE Tick
  <2>1. state'[id] = state[id]
    BY <1>8 DEF Tick
  <2> QED BY <1>2, <1>8, <2>1, DueLasts DEF WaitsWithinBound
<1>9. CASE UNCHANGED vars
  BY <1>3, <1>9 DEF vars, table
<1> QED
  BY <1>4, <1>5, <1>6, <1>7, <1>8, <1>9 DEF Next, RunOnce

\* A queued message is always selected, and a retry that is not waits at most the
\* longest backoff or until the midnight after its stamp.
THEOREM WaitIsBounded == Spec => []WaitBounded
<1>1. Init => WaitBounded
  BY DEF Init, WaitBounded
<1>2. IInv /\ WaitBounded /\ [Next]_vars => WaitBounded'
  <2> SUFFICES ASSUME IInv, WaitBounded, [Next]_vars PROVE WaitBounded'
    OBVIOUS
  <2> QED BY WaitStep DEF WaitBounded, WaitsWithinBound
<1> QED BY <1>1, <1>2, InductiveInvariant, PTL DEF Spec

-----------------------------------------------------------------------------
\* The LIMIT of the reservation: of any set of rows, the first n are at most n.
LEMMA FirstRowsBounded ==
  ASSUME NEW S \in SUBSET Ids, NEW n \in Nat
  PROVE  Cardinality(FirstRows(S, n)) <= n
<1> DEFINE F == FirstRows(S, n)
<1>1. IsFiniteSet(Ids) /\ Ids \subseteq Nat /\ MaxId \in Nat
  BY FS_Interval, OutboxAssumption DEF Ids, OutboxAssumption
<1>2. F \subseteq S /\ \A id \in F : Cardinality({j \in S : j < id}) < n
  BY DEF FirstRows
<1> HIDE DEF F
<1>3. CASE F = {}
  BY <1>3, FS_EmptySet DEF F
<1>4. CASE F # {}
  <2> DEFINE Mirror == {MaxId - id : id \in F}
  <2>1. Mirror \in SUBSET Nat /\ Mirror # {}
    <3>1. \A id \in F : id \in 1..MaxId
      BY <1>2 DEF Ids
    <3> QED BY <1>1, <1>4, <3>1
  <2>2. PICK last \in F : \A id \in F : id <= last
    <3>1. Min(Mirror) \in Mirror /\ \A m \in Mirror : Min(Mirror) <= m
      <4> HIDE DEF Mirror
      <4> QED BY <2>1, MinOfIds, MinIsLeast
    <3>2. PICK last \in F : Min(Mirror) = MaxId - last
      BY <3>1
    <3>3. ASSUME NEW id \in F PROVE id <= last
      <4>1. MaxId - id \in Mirror
        OBVIOUS
      <4>2. MaxId - last <= MaxId - id
        BY <3>1, <3>2, <4>1
      <4> QED BY <1>1, <1>2, <4>2
    <3> QED BY <3>3
  <2> DEFINE B == {j \in S : j < last}
  <2>3. IsFiniteSet(B) /\ Cardinality(B) \in Nat /\ Cardinality(B) < n
    <3>1. IsFiniteSet(B)
      BY <1>1, FS_Subset
    <3>2. Cardinality(B) \in Nat
      BY <3>1, FS_CardinalityType
    <3>3. Cardinality(B) < n
      BY <1>2
    <3> QED BY <3>1, <3>2, <3>3
  <2>4. F \in SUBSET (B \cup {last})
    BY <1>1, <1>2, <2>2
  <2> HIDE DEF B
  <2>5. IsFiniteSet(B \cup {last}) /\ Cardinality(B \cup {last}) <= Cardinality(B) + 1
    BY <2>3, FS_AddElement
  <2>6. Cardinality(F) <= Cardinality(B \cup {last})
    BY <2>4, <2>5, FS_Subset
  <2>7. Cardinality(F) \in Nat /\ Cardinality(B \cup {last}) \in Nat
    BY <2>4, <2>5, FS_Subset, FS_CardinalityType
  <2> QED BY <2>3, <2>5, <2>6, <2>7 DEF F
<1> QED BY <1>3, <1>4

\* A worker never has more than --batch-size messages in hand.
BatchBounded == \A w \in Workers : Cardinality(batch[w]) <= BatchSize

\* Batches and the stranded rows are finite sets.
LEMMA BatchesFinite ==
  ASSUME TypeOK
  PROVE  /\ \A w \in Workers : IsFiniteSet(batch[w]) /\ Cardinality(batch[w]) \in Nat
         /\ IsFiniteSet(Stranded) /\ Cardinality(Stranded) \in Nat
<1>1. IsFiniteSet(Ids)
  BY FS_Interval, OutboxAssumption DEF Ids, OutboxAssumption
<1>2. \A w \in Workers : batch[w] \in SUBSET Ids
  BY RowsAreIds DEF TypeOK
<1>3. Stranded \in SUBSET Ids
  BY DEF Stranded
<1> QED BY <1>1, <1>2, <1>3, FS_Subset, FS_CardinalityType

\* A set of at most n rows loses rows: it still has at most n.
LEMMA SmallerSet ==
  ASSUME NEW S, NEW T \in SUBSET S, IsFiniteSet(S), NEW n \in Nat, Cardinality(S) <= n
  PROVE  Cardinality(T) <= n
<1>1. IsFiniteSet(T) /\ Cardinality(T) <= Cardinality(S)
  BY FS_Subset
<1>2. Cardinality(S) \in Nat /\ Cardinality(T) \in Nat
  BY <1>1, FS_CardinalityType
<1> QED BY <1>1, <1>2

\* Only the selection fills a batch, and it takes the first rows only.
LEMMA BatchStep ==
  ASSUME IInv, BatchBounded, [Next]_vars PROVE BatchBounded'
<1>1. batch \in [Workers -> SUBSET (1..lastId)] /\ BatchSize \in Nat
  BY OutboxAssumption DEF IInv, TypeOK, OutboxAssumption
<1>2. \A w \in Workers : IsFiniteSet(batch[w])
  BY BatchesFinite DEF IInv
<1>3. ASSUME \A v \in Workers : batch'[v] \subseteq batch[v] PROVE BatchBounded'
  BY <1>1, <1>2, <1>3, SmallerSet DEF BatchBounded
<1>4. ASSUME NEW w \in Workers, SelectBatch(w) PROVE BatchBounded'
  <2>1. batch' = [batch EXCEPT ![w] = Candidates]
    BY <1>4 DEF SelectBatch
  <2>2. Cardinality(Candidates) <= BatchSize
    <3>1. {id \in Ids : Reservable(id) /\ Due(id)} \in SUBSET Ids
      OBVIOUS
    <3> QED BY <1>1, <3>1, FirstRowsBounded DEF Candidates
  <2> QED BY <1>1, <2>1, <2>2 DEF BatchBounded
<1>5. ASSUME NEW w \in Workers, ReserveBatch(w) \/ MarkSent(w) \/ Reschedule(w) \/ Crash(w)
      PROVE  BatchBounded'
  <2>1. \A v \in Workers : batch'[v] \subseteq batch[v]
    BY <1>1, <1>5 DEF ReserveBatch, MarkSent, Reschedule, Crash, Advance
  <2> QED BY <1>3, <2>1
<1>6. CASE batch' = batch
  BY <1>6 DEF BatchBounded
<1>7. \/ \E w \in Workers :
           SelectBatch(w) \/ ReserveBatch(w) \/ MarkSent(w) \/ Reschedule(w) \/ Crash(w)
      \/ batch' = batch
  BY DEF Next, QueueMessage, RunOnce, FindNoDuplicate, InsertRow, InsertConflict,
         SendAccepted, SendReplyLost, SendRefused, CountAttempt, Tick, workerVars, vars
<1> QED BY <1>4, <1>5, <1>6, <1>7

\* A death adds the batch of the dead worker to the stranded rows.
LEMMA CrashStrands ==
  ASSUME IInv, NEW w \in Workers, Crash(w) PROVE Stranded' \subseteq Stranded \cup batch[w]
<1>1. \A v \in Workers : v # w => pc'[v] = pc[v] /\ batch'[v] = batch[v]
  BY DEF Crash, IInv, TypeOK
<1>2. state' = state
  BY DEF Crash, table
<1> QED BY <1>1, <1>2 DEF Stranded

\* Every other step leaves each row in 'processing' with the worker that has it, or
\* gives it a worker.
LEMMA OthersStrandNothing ==
  ASSUME IInv, [Next]_vars, \A w \in Workers : ~Crash(w) PROVE Stranded' \subseteq Stranded
<1>1. /\ pc \in [Workers -> {"idle", "selected"} \cup Holding]
      /\ batch \in [Workers -> SUBSET (1..lastId)]
      /\ state \in [Ids -> Active \cup Terminal \cup {"absent"}]
  BY DEF IInv, TypeOK
<1>2. ASSUME \A id \in Ids : state'[id] = "processing" => state[id] = "processing",
             \A v \in Workers : pc[v] \in Holding =>
               \/ pc'[v] \in Holding /\ batch'[v] = batch[v]
               \/ \A id \in batch[v] : id \in Ids => state'[id] # "processing" \/
                    (pc'[v] \in Holding /\ id \in batch'[v])
      PROVE  Stranded' \subseteq Stranded
  BY <1>2 DEF Stranded
<1>3. ASSUME NEW c \in Clients, QueueMessage(c) PROVE Stranded' \subseteq Stranded
  <2>1. UNCHANGED <<pc, batch>>
    BY <1>3 DEF QueueMessage, FindNoDuplicate, InsertRow, InsertConflict, workerVars
  <2>2. \A id \in Ids : state'[id] = "processing" => state[id] = "processing"
    BY <1>1, <1>3 DEF QueueMessage, FindNoDuplicate, InsertRow, InsertConflict, table
  <2> QED BY <1>2, <2>1, <2>2
<1>4. ASSUME NEW w \in Workers,
             \/ SelectBatch(w) \/ SendAccepted(w) \/ SendReplyLost(w) \/ SendRefused(w)
             \/ CountAttempt(w)
      PROVE  Stranded' \subseteq Stranded
  <2>1. state' = state
    BY <1>4 DEF SelectBatch, SendAccepted, SendReplyLost, SendRefused, CountAttempt, table
  <2>2. \A v \in Workers : pc[v] \in Holding => pc'[v] \in Holding /\ batch'[v] = batch[v]
    BY <1>1, <1>4 DEF SelectBatch, SendAccepted, SendReplyLost, SendRefused, CountAttempt, Holding
  <2> QED BY <1>2, <2>1, <2>2
<1>5. ASSUME NEW w \in Workers, ReserveBatch(w) PROVE Stranded' \subseteq Stranded
  <2> DEFINE got == {id \in batch[w] : Reservable(id)}
  <2>1. /\ pc[w] = "selected"
        /\ state' = [id \in Ids |-> IF id \in got THEN "processing" ELSE state[id]]
        /\ batch' = [batch EXCEPT ![w] = got]
        /\ pc' = [pc EXCEPT ![w] = IF got = {} THEN "idle" ELSE "sending"]
    BY <1>5 DEF ReserveBatch
  <2> HIDE DEF got
  <2>2. \A v \in Workers : v # w => pc'[v] = pc[v] /\ batch'[v] = batch[v]
    BY <1>1, <2>1
  <2>3. got # {} => pc'[w] \in Holding /\ batch'[w] = got
    BY <1>1, <2>1 DEF Holding
  <2>4. pc[w] \notin Holding
    BY <2>1 DEF Holding
  <2>5. ASSUME NEW id \in Stranded' PROVE id \in Stranded
    <3>1. id \in Ids /\ id \notin got /\ state[id] = "processing"
      BY <2>1, <2>3 DEF Stranded
    <3>2. \A v \in Workers : pc[v] \in Holding => id \notin batch[v]
      BY <2>2, <2>4 DEF Stranded
    <3> QED BY <3>1, <3>2 DEF Stranded
  <2> QED BY <2>5
<1>6. ASSUME NEW w \in Workers, MarkSent(w) \/ Reschedule(w) PROVE Stranded' \subseteq Stranded
  <2> DEFINE cur == Current(w)
  <2>1. pc[w] \in Holding /\ Advance(w)
    BY <1>6 DEF MarkSent, Reschedule, Holding
  <2>2. cur \in batch[w] /\ cur \in Ids
    BY <2>1, CurrentFacts
  <2>3. /\ state'[cur] \in {"sent", "failed", "retry"}
        /\ \A id \in Ids : id # cur => state'[id] = state[id]
    BY <1>1, <1>6, <2>2 DEF MarkSent, Reschedule
  <2>4. /\ batch'[w] = batch[w] \ {cur}
        /\ pc'[w] \in {"idle", "sending"} /\ (pc'[w] = "idle" <=> batch'[w] = {})
        /\ \A v \in Workers : v # w => pc'[v] = pc[v] /\ batch'[v] = batch[v]
    BY <2>1, <2>2, AdvanceFacts DEF IInv
  <2> HIDE DEF cur
  <2>5. ASSUME NEW id \in Stranded' PROVE id \in Stranded
    <3>1. id \in Ids /\ id # cur /\ state[id] = "processing"
      BY <2>3 DEF Stranded
    <3>2. id \notin batch[w]
      BY <2>4, <3>1 DEF Stranded, Holding
    <3>3. \A v \in Workers : pc[v] \in Holding => id \notin batch[v]
      BY <2>4, <3>2 DEF Stranded
    <3> QED BY <3>1, <3>3 DEF Stranded
  <2> QED BY <2>5
<1>7. CASE Tick \/ UNCHANGED vars
  BY <1>7 DEF Tick, vars, table, workerVars, Stranded
<1> QED
  BY <1>3, <1>4, <1>5, <1>6, <1>7 DEF Next, RunOnce

\* One death costs at most one batch.
LEMMA StrandedStep ==
  ASSUME IInv, BatchBounded, OnlyCrashesStrand, [Next]_vars PROVE OnlyCrashesStrand'
<1>1. /\ BatchSize \in Nat /\ crashes \in Nat
      /\ IsFiniteSet(Stranded) /\ Cardinality(Stranded) \in Nat
      /\ \A w \in Workers : IsFiniteSet(batch[w]) /\ Cardinality(batch[w]) \in Nat
  BY BatchesFinite, OutboxAssumption DEF IInv, TypeOK, OutboxAssumption
<1>2. ASSUME NEW w \in Workers, Crash(w) PROVE OnlyCrashesStrand'
  <2>1. crashes' = crashes + 1 /\ Stranded' \in SUBSET (Stranded \cup batch[w])
    BY <1>2, CrashStrands DEF Crash
  <2>2. /\ IsFiniteSet(Stranded \cup batch[w])
        /\ Cardinality(Stranded \cup batch[w]) <= Cardinality(Stranded) + Cardinality(batch[w])
    <3>1. IsFiniteSet(Stranded \cap batch[w]) 
      BY <1>1, FS_Subset
    <3>2. Cardinality(Stranded \cap batch[w]) \in Nat
      BY <3>1, FS_CardinalityType
    <3>3. /\ IsFiniteSet(Stranded \cup batch[w])
          /\ Cardinality(Stranded \cup batch[w])
               = Cardinality(Stranded) + Cardinality(batch[w]) - Cardinality(Stranded \cap batch[w])
      <4> HIDE DEF Stranded
      <4> QED BY <1>1, FS_Union
    <3> QED BY <1>1, <3>2, <3>3
  <2>3. Cardinality(Stranded \cup batch[w]) \in Nat
    BY <2>2, FS_CardinalityType
  <2>4. Cardinality(Stranded) + Cardinality(batch[w]) <= BatchSize * crashes + BatchSize
    <3>1. BatchSize * crashes \in Nat
      BY <1>1
    <3> QED BY <1>1, <3>1 DEF OnlyCrashesStrand, BatchBounded
  <2>5. BatchSize * (crashes + 1) = BatchSize * crashes + BatchSize /\ BatchSize * (crashes + 1) \in Nat
    BY <1>1
  <2>6. Cardinality(Stranded \cup batch[w]) <= BatchSize * (crashes + 1)
    BY <1>1, <2>2, <2>3, <2>4, <2>5
  <2>7. Cardinality(Stranded') <= BatchSize * (crashes + 1)
    BY <2>1, <2>2, <2>5, <2>6, SmallerSet
  <2> QED BY <2>1, <2>7 DEF OnlyCrashesStrand
<1>3. CASE \A w \in Workers : ~Crash(w)
  <2>1. Stranded' \in SUBSET Stranded
    BY <1>3, OthersStrandNothing
  <2>2. crashes' = crashes
    BY <1>3 DEF Next, QueueMessage, RunOnce, FindNoDuplicate, InsertRow, InsertConflict,
                SelectBatch, ReserveBatch, SendAccepted, SendReplyLost, SendRefused, MarkSent,
                CountAttempt, Reschedule, Tick, vars
  <2>3. BatchSize * crashes \in Nat
    BY <1>1
  <2>4. Cardinality(Stranded') <= BatchSize * crashes
    BY <1>1, <2>1, <2>3, SmallerSet DEF OnlyCrashesStrand
  <2> QED BY <2>2, <2>4 DEF OnlyCrashesStrand
<1> QED BY <1>2, <1>3

\* Only deaths strand messages in 'processing', and each at most a batch of them,
\* however many workers share the queue and whatever the transport answers.
THEOREM StrandedOnlyByCrashes == Spec => []OnlyCrashesStrand
<1>1. Init => BatchBounded /\ OnlyCrashesStrand
  <2> SUFFICES ASSUME Init PROVE BatchBounded /\ OnlyCrashesStrand
    OBVIOUS
  <2>1. Stranded = {} /\ \A w \in Workers : batch[w] = {}
    BY DEF Init, Stranded
  <2> QED
    BY <2>1, FS_EmptySet, OutboxAssumption
       DEF Init, BatchBounded, OnlyCrashesStrand, OutboxAssumption
<1>2. IInv /\ BatchBounded /\ OnlyCrashesStrand /\ [Next]_vars
        => (BatchBounded /\ OnlyCrashesStrand)'
  BY BatchStep, StrandedStep
<1> QED BY <1>1, <1>2, InductiveInvariant, PTL DEF Spec

-----------------------------------------------------------------------------
\* The phases of the states a row goes through.
LEMMA Phases ==
  /\ Phase("absent") = "absent" /\ Phase("queued") = "waiting" /\ Phase("retry") = "waiting"
  /\ Phase("processing") = "taken" /\ Phase("sent") = "delivered"
  /\ Phase("failed") = "abandoned"
BY DEF Phase

\* Changing the state of one row changes the status of that message only.
LEMMA StatusExcept ==
  ASSUME state \in [Ids -> Active \cup Terminal \cup {"absent"}], NEW id \in Ids, NEW s,
         state' = [state EXCEPT ![id] = s]
  PROVE  Status' = [Status EXCEPT ![id] = Phase(s)]
BY DEF Status

\* Every effect on the rows is a step of the bare lifecycle.
LEMMA StepRefines == IInv /\ [Next]_vars => [Contract!ContractNext]_(Contract!contractVars)
<1> SUFFICES ASSUME IInv, [Next]_vars
             PROVE  Contract!ContractNext \/ UNCHANGED Contract!contractVars
  OBVIOUS
<1>0. /\ state \in [Ids -> Active \cup Terminal \cup {"absent"}]
      /\ attempts \in [Ids -> 0..MaxAttempts] /\ MaxAttempts \in Nat
      /\ \A id \in Ids : Status[id] = Phase(state[id])
  BY OutboxAssumption DEF IInv, TypeOK, OutboxAssumption, Status
<1>1. CASE RowsUntouched
  BY <1>1 DEF RowsUntouched, Contract!contractVars, Status
<1>2. ASSUME NEW id \in Ids, RowSent(id) PROVE Contract!Deliver(id)
  <2>1. Status' = [Status EXCEPT ![id] = Phase("sent")]
    BY <1>0, <1>2, StatusExcept, Zenon DEF RowSent
  <2> QED BY <1>0, <1>2, <2>1, Phases DEF RowSent, Contract!Deliver
<1>3. ASSUME NEW id \in Ids, RowPutBack(id) PROVE Contract!Retry(id) \/ Contract!GiveUp(id)
  <2>1. attempts[id] < MaxAttempts /\ attempts[id] \in Nat
    BY <1>0, <1>3 DEF RowPutBack, IInv, AttemptsMatchState
  <2>2. Status[id] = "taken" /\ attempts' = [attempts EXCEPT ![id] = @ + 1]
    BY <1>0, <1>3, Phases DEF RowPutBack
  <2>3. CASE attempts[id] + 1 = MaxAttempts
    <3>1. state' = [state EXCEPT ![id] = "failed"]
      BY <1>3, <2>3 DEF RowPutBack
    <3>2. Status' = [Status EXCEPT ![id] = Phase("failed")]
      BY <1>0, <3>1, StatusExcept, Zenon
    <3> QED BY <2>2, <2>3, <3>2, Phases DEF Contract!GiveUp
  <2>4. CASE attempts[id] + 1 < MaxAttempts
    <3>1. state' = [state EXCEPT ![id] = "retry"]
      <4>1. attempts[id] + 1 # MaxAttempts
        BY <1>0, <2>1, <2>4
      <4> QED BY <1>3, <4>1 DEF RowPutBack
    <3>2. Status' = [Status EXCEPT ![id] = Phase("retry")]
      BY <1>0, <3>1, StatusExcept, Zenon
    <3> QED BY <2>2, <2>4, <3>2, Phases DEF Contract!Retry
  <2> QED BY <1>0, <2>1, <2>3, <2>4
<1>4. ASSUME NEW id \in Ids, NEW k, RowInserted(id, k) PROVE Contract!Submit(id)
  <2>1. Status' = [Status EXCEPT ![id] = Phase("queued")]
    BY <1>0, <1>4, StatusExcept, Zenon DEF RowInserted
  <2> QED BY <1>0, <1>4, <2>1, Phases DEF RowInserted, Contract!Submit
<1>5. ASSUME NEW S \in SUBSET Ids, RowsReserved(S) PROVE Contract!Take(S)
  <2>1. \A id \in S : Status[id] = "waiting"
    BY <1>0, <1>5, Phases DEF RowsReserved
  <2>2. Status' = [id \in Ids |-> Phase(state'[id])]
    BY DEF Status
  <2>3. \A id \in Ids : Phase(state'[id]) = IF id \in S THEN "taken" ELSE Status[id]
    BY <1>0, <1>5, Phases DEF RowsReserved
  <2>4. Status' = [id \in Ids |-> IF id \in S THEN "taken" ELSE Status[id]]
    BY <2>2, <2>3
  <2> QED BY <1>5, <2>1, <2>4 DEF RowsReserved, Contract!Take
<1> QED
  BY <1>1, <1>2, <1>3, <1>4, <1>5, TableSteps DEF Contract!ContractNext

\* The outgoing mail queue implements its contract.
THEOREM Refinement == Spec => ImplementsContract
<1>1. Init => Contract!ContractInit
  BY Phases DEF Init, Contract!ContractInit, Status
<1> QED
  BY <1>1, StepRefines, InductiveInvariant, PTL
     DEF Spec, ImplementsContract, Contract!ContractSpec
=============================================================================
