--------------------------- MODULE RecoveryProofs ---------------------------
(***************************************************************************)
(* Proofs about module Recovery, for any number of users, tokens, backups  *)
(* and keys.                                                               *)
(***************************************************************************)
EXTENDS Recovery, TLAPS

USE DEF Issued, Backups, Rows, Archives

\* What each history set says of the token's row and of its key.
TokenInv ==
  \A t \in Issued :
    /\ token[t].key <= key
    /\ t \in revoked => session[t] # "live"
    /\ t \in retired => token[t].key < key
    /\ t \in sound => session[t] = "live" /\ token[t].key = key

\* The same of what an archive holds, which a restore makes the present.
ArchiveInv ==
  \A b \in Backups : archive[b] # None =>
    LET a == archive[b]
    IN /\ a.issued \subseteq Issued /\ a.revoked \subseteq a.issued /\ a.sound \subseteq a.issued
       /\ \A t \in Tokens :
            /\ t \notin a.issued => a.session[t] = None
            /\ t \in a.revoked => a.session[t] # "live"
            /\ t \in a.sound => a.session[t] = "live" /\ (token[t].key = key \/ t \in retired)
       /\ \A c \in Backups : a.backups[c] # None => made[c] # None /\ a.backups[c] <= made[c]

\* A row was inserted when a command succeeded with its archive, and nothing succeeds in
\* the future; without killed restores a name is given again only to what was not recorded.
GateInv ==
  /\ operator = "recording" => archive[stamp] # None
  /\ ~killed /\ stamp # None => made[stamp] = None
  /\ \A c \in Backups :
       /\ archive[c] # None \/ made[c] # None => c <= names
       /\ made[c] # None => made[c] <= now
       /\ backups[c] # None => made[c] # None /\ backups[c] <= made[c]
       /\ c \in fresh => backups[c] = made[c]

\* A step of the API or of the clock, which leaves backups alone.
SessionStep ==
  /\ SessionNext /\ UNCHANGED backupVars
  /\ \/ stamp' = stamp
     \/ operator = "idle" /\ stamp' = None

LEMMA NextSteps ==
  Next => SessionStep \/ StartBackup \/ WriteArchive \/ RecordBackup \/ FailBackup \/ Restore
  BY DEF Next, SessionStep, SessionNext, recoveryVars

IInv == TypeOK /\ TokenInv /\ ArchiveInv /\ GateInv

-----------------------------------------------------------------------------
LEMMA TypeInit == Init => TypeOK
  <1> SUFFICES ASSUME Init PROVE TypeOK
    OBVIOUS
  <1> USE SessionAssumption, RecoveryAssumption DEF Init
  <1>1. SessionTypeOK
    BY DEF SessionInit, SessionTypeOK
  <1>2. names \in 0..MaxBackups /\ stamp \in 1..names \cup {None}
    OBVIOUS
  <1> QED BY <1>1, <1>2 DEF TypeOK

LEMMA TypeSession ==
  ASSUME TypeOK, SessionStep PROVE TypeOK'
  <1>1. SessionTypeOK'
    <2> USE SessionAssumption, RecoveryAssumption DEF TypeOK, SessionTypeOK, historyVars
    <2>1. CASE Tick
      BY <2>1 DEF Tick
    <2>2. CASE \E u \in Users : ReadUser(u)
      BY <2>2 DEF ReadUser
    <2>3. CASE IssueToken
      BY <2>3 DEF IssueToken
    <2>4. CASE EndLogin
      BY <2>4 DEF EndLogin
    <2>5. CASE \E U \in {{u} : u \in Users} \cup {Users} : RevokeSessions(U)
      BY <2>5 DEF RevokeSessions
    <2>6. CASE DeployKey
      BY <2>6 DEF DeployKey
    <2> QED BY <2>1, <2>2, <2>3, <2>4, <2>5, <2>6
            DEF SessionStep, SessionNext, SessionReads, SessionWrites
  <1> QED BY <1>1 DEF TypeOK, SessionStep, backupVars

\* The name in use is one that was given.
LEMMA StampNamed ==
  ASSUME TypeOK PROVE stamp # None => stamp \in Backups /\ stamp \in 1..names
  BY SessionAssumption, RecoveryAssumption DEF TypeOK

LEMMA TypeBackup ==
  ASSUME TypeOK, ArchiveInv, GateInv,
         StartBackup \/ WriteArchive \/ RecordBackup \/ FailBackup \/ Restore
  PROVE  TypeOK'
  <1> USE SessionAssumption, RecoveryAssumption DEF TypeOK, SessionTypeOK, sessionVars, historyVars
  <1>1. CASE StartBackup
    <2>1. PICK b \in Backups :
            /\ b = IF stamp = None THEN names + 1 ELSE stamp
            /\ names' = IF b > names THEN b ELSE names
            /\ stamp' = b
            /\ archive' = [archive EXCEPT ![b] = None]
      BY <1>1 DEF StartBackup
    <2>2. names' \in 0..MaxBackups /\ stamp' \in 1..names'
      BY <2>1
    <2>3. ~killed => made[b] = None
      BY <2>1 DEF GateInv
    <2>4. archive' \in [Backups -> Archives \cup {None}]
      BY <2>1
    <2>5. \A c \in Backups : ~killed' /\ made'[c] # None => archive'[c] # None
      BY <1>1, <2>1, <2>3 DEF StartBackup
    <2>6. SessionTypeOK' /\ operator' = "archiving" /\ stamp' # None
      BY <1>1, <2>1, <2>2 DEF StartBackup
    <2> QED BY <1>1, <2>1, <2>2, <2>4, <2>5, <2>6 DEF StartBackup
  <1>2. CASE WriteArchive
    <2> DEFINE a == [session |-> session, backups |-> backups, issued |-> Issued,
                     revoked |-> revoked, sound |-> sound]
    <2>1. a \in Archives /\ a # None
      OBVIOUS
    <2>2. archive' = [archive EXCEPT ![stamp] = a]
      BY <1>2 DEF WriteArchive
    <2> HIDE DEF a
    <2>3. archive' \in [Backups -> Archives \cup {None}]
      BY <2>1, <2>2
    <2>4. \A c \in Backups : archive[c] # None => archive'[c] # None
      BY <2>1, <2>2
    <2>5. \A c \in Backups : ~killed' /\ made'[c] # None => archive'[c] # None
      BY <1>2, <2>4 DEF WriteArchive
    <2>6. SessionTypeOK' /\ operator' = "recording"
      BY <1>2 DEF WriteArchive
    <2> QED BY <1>2, <2>3, <2>5, <2>6 DEF WriteArchive
  <1>3. CASE RecordBackup
    <2>1. stamp \in Backups /\ archive[stamp] # None /\ now \in 0..MaxTime /\ now # None
      BY <1>3, StampNamed DEF RecordBackup, GateInv
    <2>2. backups' \in Rows /\ made' \in Rows
      BY <1>3, <2>1 DEF RecordBackup
    <2>3. \A c \in Backups : made'[c] = IF c = stamp THEN now ELSE made[c]
      BY <1>3 DEF RecordBackup
    <2>4. fresh' \subseteq {c \in Backups : made'[c] # None}
      BY <1>3, <2>1, <2>3 DEF RecordBackup
    <2>5. \A c \in Backups : ~killed' /\ made'[c] # None => archive'[c] # None
      BY <1>3, <2>1, <2>3 DEF RecordBackup
    <2>6. SessionTypeOK'
      BY <1>3 DEF RecordBackup
    <2> QED BY <1>3, <2>2, <2>4, <2>5, <2>6 DEF RecordBackup
  <1>4. CASE FailBackup
    BY <1>4 DEF FailBackup
  <1>5. CASE Restore
    <2>1. PICK b \in Backups :
            /\ archive[b] # None
            /\ session' = archive[b].session /\ backups' = archive[b].backups
            /\ revoked' = archive[b].revoked \cup (Issued \ archive[b].issued)
            /\ sound' = archive[b].sound \ retired
            /\ \/ stamp' = None /\ killed' = killed
               \/ stamp' = b /\ killed' = TRUE
      BY <1>5 DEF Restore
    <2>2. archive[b] \in Archives
      BY <2>1
    <2>3. SessionTypeOK'
      BY <1>5, <2>1, <2>2 DEF Restore, ArchiveInv
    <2>6. b \in 1..names
      BY <2>1 DEF GateInv
    <2>7. names' = names
      BY <1>5 DEF Restore
    <2>4. stamp' \in 1..names' \cup {None} /\ killed' \in BOOLEAN
      BY <2>1, <2>6, <2>7
    <2>5. \A c \in Backups : ~killed' /\ made'[c] # None => archive'[c] # None
      BY <1>5, <2>1 DEF Restore
    <2> QED BY <1>5, <2>1, <2>2, <2>3, <2>4, <2>5 DEF Restore
  <1> QED BY <1>1, <1>2, <1>3, <1>4, <1>5

-----------------------------------------------------------------------------
LEMMA TokenInvSession ==
  ASSUME TypeOK, TokenInv, SessionStep PROVE TokenInv'
  <1> USE SessionAssumption DEF TypeOK, SessionTypeOK, TokenInv, historyVars, SessionStep
  <1>1. CASE Tick
    BY <1>1 DEF Tick
  <1>2. CASE \E u \in Users : ReadUser(u)
    BY <1>2 DEF ReadUser
  <1>3. CASE IssueToken
    BY <1>3 DEF IssueToken
  <1>4. CASE EndLogin
    BY <1>4 DEF EndLogin
  <1>5. CASE \E U \in {{u} : u \in Users} \cup {Users} : RevokeSessions(U)
    BY <1>5 DEF RevokeSessions
  <1>6. CASE DeployKey
    BY <1>6 DEF DeployKey
  <1> QED BY <1>1, <1>2, <1>3, <1>4, <1>5, <1>6 DEF SessionNext, SessionReads, SessionWrites

LEMMA TokenInvRestore ==
  ASSUME TypeOK, TokenInv, ArchiveInv, Restore PROVE TokenInv'
  <1>1. PICK b \in Backups :
          /\ archive[b] # None
          /\ session' = archive[b].session /\ backups' = archive[b].backups
          /\ revoked' = archive[b].revoked \cup (Issued \ archive[b].issued)
          /\ sound' = archive[b].sound \ retired
    BY DEF Restore
  <1> QED BY <1>1, SessionAssumption DEF Restore, TypeOK, SessionTypeOK, TokenInv, ArchiveInv

LEMMA ArchiveInvSession ==
  ASSUME TypeOK, ArchiveInv, SessionStep PROVE ArchiveInv'
  <1>1. Issued \subseteq Issued' /\ \A t \in Issued : token'[t] = token[t]
    BY DEF SessionStep, SessionNext, SessionReads, SessionWrites, Tick,
           ReadUser, IssueToken, EndLogin, RevokeSessions, DeployKey,
           historyVars, TypeOK, SessionTypeOK
  <1>2. \A t \in Issued : token[t].key = key \/ t \in retired
                          => token'[t].key = key' \/ t \in retired'
    BY <1>1 DEF SessionStep, SessionNext, SessionReads, SessionWrites, Tick,
           ReadUser, IssueToken, EndLogin, RevokeSessions, DeployKey,
           historyVars, TypeOK, SessionTypeOK
  <1> QED BY <1>1, <1>2 DEF ArchiveInv, backupVars, SessionStep, TypeOK, SessionTypeOK

LEMMA ArchiveInvBackup ==
  ASSUME TypeOK, TokenInv, ArchiveInv, GateInv,
         StartBackup \/ WriteArchive \/ RecordBackup \/ FailBackup \/ Restore
  PROVE  ArchiveInv'
  <1> USE DEF sessionVars, historyVars
  <1>1. CASE StartBackup
    <2>1. \A b \in Backups : archive'[b] # None => archive'[b] = archive[b]
      BY <1>1 DEF StartBackup, TypeOK
    <2> QED BY <1>1, <2>1 DEF StartBackup, ArchiveInv
  <1>4. CASE FailBackup \/ Restore
    BY <1>4 DEF FailBackup, Restore, ArchiveInv
  <1>2. CASE WriteArchive
    BY <1>2 DEF WriteArchive, ArchiveInv, GateInv, TypeOK, SessionTypeOK, TokenInv
  <1>3. CASE RecordBackup
    <2>5. now \in Nat /\ now # None /\ made \in Rows
      BY SessionAssumption DEF TypeOK, SessionTypeOK
    <2>6. made' = [made EXCEPT ![stamp] = now]
      BY <1>3 DEF RecordBackup
    <2>7. \A c \in Backups : made'[c] = IF c = stamp THEN now ELSE made[c]
      BY <2>5, <2>6
    <2>8. \A c \in Backups : made[c] # None => made[c] \in Int /\ made[c] <= now
      BY <2>5 DEF GateInv
    <2>1. \A c \in Backups : made[c] # None => made'[c] # None /\ made[c] <= made'[c]
      BY <2>5, <2>7, <2>8
    <2>2. \A c \in Backups : made'[c] # None => made'[c] \in Int
      BY <1>3 DEF RecordBackup, TypeOK, SessionTypeOK
    <2>3. \A b, c \in Backups : archive[b] # None /\ archive[b].backups[c] # None
                                => archive[b].backups[c] \in Int
      <3> SUFFICES ASSUME NEW b \in Backups, NEW c \in Backups,
                          archive[b] # None, archive[b].backups[c] # None
                   PROVE  archive[b].backups[c] \in Int
        OBVIOUS
      <3>1. archive[b] \in Archives
        BY DEF TypeOK
      <3>2. archive[b].backups \in Rows
        BY <3>1
      <3>3. \A r \in Rows : r[c] # None => r[c] \in Int
        BY SessionAssumption
      <3> QED BY <3>2, <3>3
    <2>4. \A b, c \in Backups : archive[b] # None /\ archive[b].backups[c] # None
            => made'[c] # None /\ archive[b].backups[c] <= made'[c]
      BY <2>1, <2>2, <2>3 DEF ArchiveInv, TypeOK
    <2> QED BY <1>3, <2>4 DEF RecordBackup, ArchiveInv
  <1> QED BY <1>1, <1>2, <1>3, <1>4

LEMMA GateInvStep ==
  ASSUME TypeOK, ArchiveInv, GateInv, Next PROVE GateInv'
  <1> USE RecoveryAssumption, SessionAssumption DEF sessionVars, historyVars
  <1>1. CASE SessionStep
    <2>1. now' \in Nat /\ now \in Nat /\ now <= now'
      BY <1>1 DEF SessionStep, SessionNext, SessionReads, SessionWrites, Tick,
           ReadUser, IssueToken, EndLogin, RevokeSessions, DeployKey,
                  TypeOK, SessionTypeOK
    <2>2. UNCHANGED <<archive, backups, operator, names, made, fresh, killed>>
      BY <1>1 DEF SessionStep, backupVars
    <2>3. made \in Rows
      BY DEF TypeOK
    <2>4. \A c \in Backups : made[c] # None => made[c] \in Int /\ made[c] <= now'
      BY <2>1, <2>3 DEF GateInv
    <2> QED BY <1>1, <2>2, <2>4 DEF GateInv, SessionStep
  <1>2. CASE StartBackup
    <2>1. PICK b \in Backups :
            /\ b = IF stamp = None THEN names + 1 ELSE stamp
            /\ names' = IF b > names THEN b ELSE names
            /\ stamp' = b
            /\ archive' = [archive EXCEPT ![b] = None]
      BY <1>2 DEF StartBackup
    <2>2. names \in Nat /\ names' \in Nat /\ names <= names' /\ b <= names'
      BY <2>1 DEF TypeOK
    <2>3. ~killed => made[b] = None
      BY <2>1, <2>2 DEF GateInv
    <2>4. \A c \in Backups : archive'[c] # None => archive[c] # None
      BY <2>1 DEF TypeOK
    <2>5. \A c \in Backups : archive'[c] # None \/ made[c] # None => c <= names'
      BY <2>2, <2>4 DEF GateInv
    <2> QED BY <1>2, <2>1, <2>3, <2>5 DEF StartBackup, GateInv
  <1>3. CASE WriteArchive
    <2>1. [session |-> session, backups |-> backups, issued |-> Issued,
           revoked |-> revoked, sound |-> sound] \in Archives
      BY DEF TypeOK, SessionTypeOK
    <2> QED BY <1>3, <2>1 DEF WriteArchive, GateInv, TypeOK
  <1>4. CASE RecordBackup
    BY <1>4 DEF RecordBackup, GateInv, TypeOK, SessionTypeOK
  <1>5. CASE FailBackup
    BY <1>5 DEF FailBackup, GateInv
  <1>6. CASE Restore
    <2>1. PICK b \in Backups :
            /\ archive[b] # None /\ backups' = archive[b].backups
            /\ \/ stamp' = None /\ killed' = killed
               \/ stamp' = b /\ killed' = TRUE
      BY <1>6 DEF Restore
    <2> QED BY <1>6, <2>1 DEF Restore, GateInv, ArchiveInv, TypeOK
  <1> QED BY <1>1, <1>2, <1>3, <1>4, <1>5, <1>6, NextSteps

-----------------------------------------------------------------------------
\* The inductive invariant holds: what the history says of a session is what its row and
\* its key say, in the database in force and in every archive.
THEOREM IInvAlways == Spec => []IInv
  <1>1. Init => IInv
    BY TypeInit DEF Init, SessionInit, IInv, TokenInv, ArchiveInv, GateInv
  <1>2. IInv /\ [Next]_vars => IInv'
    <2> SUFFICES ASSUME IInv, [Next]_vars PROVE IInv'
      OBVIOUS
    <2>1. CASE Next /\ SessionStep
      <3> QED BY <2>1, TypeSession, TokenInvSession, ArchiveInvSession, GateInvStep DEF IInv
    <2>2. CASE StartBackup \/ WriteArchive \/ RecordBackup \/ FailBackup \/ Restore
      <3>1. Next
        BY <2>2 DEF Next
      <3>2. TokenInv'
        <4>1. CASE Restore
          BY <4>1, TokenInvRestore DEF IInv
        <4>2. CASE StartBackup \/ WriteArchive \/ RecordBackup \/ FailBackup
          BY <4>2 DEF IInv, TokenInv, StartBackup, WriteArchive, RecordBackup, FailBackup,
                      sessionVars, historyVars
        <4> QED BY <2>2, <4>1, <4>2
      <3> QED BY <2>2, <3>1, <3>2, TypeBackup, ArchiveInvBackup, GateInvStep DEF IInv
    <2>3. CASE UNCHANGED vars
      <3> USE <2>3 DEF IInv, vars, sessionVars, recoveryVars, backupVars, historyVars
      <3>1. TypeOK'
        BY DEF TypeOK, SessionTypeOK
      <3>2. TokenInv'
        BY DEF TokenInv
      <3>3. ArchiveInv'
        BY DEF ArchiveInv
      <3>4. GateInv'
        BY DEF GateInv
      <3> QED BY <3>1, <3>2, <3>3, <3>4
    <2> QED BY <2>1, <2>2, <2>3, NextSteps
  <1> QED BY <1>1, <1>2, PTL DEF Spec

\* Type correctness: only issued tokens have rows, and a successful backup its archive.
THEOREM TypeCorrect == Spec => []TypeOK
  <1>1. IInv => TypeOK
    BY DEF IInv
  <1> QED BY <1>1, IInvAlways, PTL

\* Expired, revoked and retired tokens are refused, through restores of any archive.
THEOREM EndedTokensAreRefused == Spec => []EndedIsRefused
  <1>1. IInv => EndedIsRefused
    BY SessionAssumption DEF IInv, TypeOK, SessionTypeOK, TokenInv, EndedIsRefused, Accepts
  <1> QED BY <1>1, IInvAlways, PTL

\* A token works from the moment it is issued until one of the events that end it.
THEOREM TokensLast == Spec => []LoginLasts
  <1>1. IInv => LoginLasts
    BY SessionAssumption DEF IInv, TypeOK, SessionTypeOK, TokenInv, LoginLasts, Accepts
  <1> QED BY <1>1, IInvAlways, PTL

\* Only a restore makes a refused token acceptable, and never one with a replaced key.
THEOREM RevivalOnlyByRestore == Spec => OnlyRestoreRevives
  <1>1. IInv /\ [Next]_vars
        => [\A t \in Issued : ~Accepts(t) /\ Accepts(t)' => Restore /\ t \notin retired]_vars
    <2> SUFFICES ASSUME IInv, Next, NEW t \in Issued, ~Accepts(t), Accepts(t)'
                 PROVE  Restore /\ t \notin retired
      OBVIOUS
    <2> USE SessionAssumption DEF IInv, TypeOK, SessionTypeOK, TokenInv, Accepts
    <2>1. CASE SessionNext
      <3> USE DEF historyVars
      <3>1. CASE Tick
        BY <3>1 DEF Tick
      <3>2. CASE \E u \in Users : ReadUser(u)
        BY <3>2 DEF ReadUser
      <3>3. CASE IssueToken
        BY <3>3 DEF IssueToken
      <3>4. CASE EndLogin
        BY <3>4 DEF EndLogin
      <3>5. CASE \E U \in {{u} : u \in Users} \cup {Users} : RevokeSessions(U)
        BY <3>5 DEF RevokeSessions
      <3>6. CASE DeployKey
        BY <3>6 DEF DeployKey
      <3> QED BY <2>1, <3>1, <3>2, <3>3, <3>4, <3>5, <3>6
              DEF SessionNext, SessionReads, SessionWrites
    <2>2. CASE StartBackup \/ WriteArchive \/ RecordBackup \/ FailBackup
      BY <2>2 DEF StartBackup, WriteArchive, RecordBackup, FailBackup, sessionVars, historyVars
    <2>3. CASE Restore
      BY <2>3 DEF Restore
    <2> QED BY <2>1, <2>2, <2>3, NextSteps DEF SessionStep
  <1> QED BY <1>1, IInvAlways, PTL DEF Spec, OnlyRestoreRevives

\* On a server whose local time is not behind UTC, the gate passes only when a backup
\* is as recent as it says and its archive is there.
THEOREM GateIsHonest == ASSUME Offset >= 0 PROVE Spec => []GateHonest
  <1>1. IInv => GateHonest
    BY RecoveryAssumption, SessionAssumption
    DEF IInv, TypeOK, SessionTypeOK, GateInv, GateHonest, GateOk, Recorded, Recent
  <1> QED BY <1>1, IInvAlways, PTL

-----------------------------------------------------------------------------
\* Once something was recorded since the last restore, the newest row is among it.
NewestFresh ==
  fresh # {} => \E c \in fresh : \A d \in Backups :
    backups[d] # None => backups[d] <= backups[c]

LEMMA NewestFreshStep ==
  ASSUME IInv, NewestFresh, [Next]_vars PROVE NewestFresh'
  <1> USE SessionAssumption DEF NewestFresh
  <1>1. CASE UNCHANGED <<backups, fresh>>
    BY <1>1
  <1>2. CASE RecordBackup
    <2>1. stamp \in Backups /\ backups \in Rows /\ now \in 0..MaxTime
      BY <1>2, StampNamed DEF RecordBackup, IInv, TypeOK, SessionTypeOK
    <2>2. \A d \in Backups : backups[d] # None => backups[d] <= now
      <3> SUFFICES ASSUME NEW d \in Backups, backups[d] # None PROVE backups[d] <= now
        OBVIOUS
      <3>1. made[d] # None /\ backups[d] <= made[d] /\ made[d] <= now
        BY DEF IInv, GateInv
      <3>2. \A r \in Rows : r[d] # None => r[d] \in Int
        OBVIOUS
      <3>3. backups[d] \in Int /\ made[d] \in Int
        BY <2>1, <3>1, <3>2 DEF IInv, TypeOK
      <3> QED BY <2>1, <3>1, <3>3
    <2>3. \A d \in Backups : backups'[d] = IF d = stamp THEN now ELSE backups[d]
      BY <1>2, <2>1 DEF RecordBackup
    <2>4. \A d \in Backups : backups'[d] # None => backups'[d] <= backups'[stamp]
      BY <2>1, <2>2, <2>3
    <2>5. stamp \in fresh'
      BY <1>2 DEF RecordBackup
    <2> QED BY <2>4, <2>5
  <1>3. CASE Restore
    BY <1>3 DEF Restore
  <1> QED BY <1>1, <1>2, <1>3
          DEF Next, StartBackup, WriteArchive, FailBackup, recoveryVars, backupVars, vars

\* On a server whose local time is not ahead of UTC, the gate passes after every
\* successful backup until it is too old or a restore takes its row away.
THEOREM GateSees == ASSUME Offset <= 0 PROVE Spec => []GateSeesBackup
  <1>1. Init => NewestFresh
    BY DEF Init, NewestFresh
  <1>2. IInv /\ NewestFresh /\ [Next]_vars => NewestFresh'
    BY NewestFreshStep
  <1>3. IInv /\ NewestFresh => GateSeesBackup
    <2> SUFFICES ASSUME IInv, NewestFresh, NEW b \in fresh, now - made[b] <= MaxAge
                 PROVE  GateOk
      BY DEF GateSeesBackup
    <2>1. PICK c \in fresh : \A d \in Backups : backups[d] # None => backups[d] <= backups[c]
      BY DEF NewestFresh
    <2>2. /\ b \in Backups /\ backups[b] = made[b] /\ backups[b] # None
          /\ c \in Backups /\ backups[c] = made[c] /\ backups[c] # None
      BY DEF IInv, TypeOK, GateInv
    <2>3. backups[b] \in Int /\ backups[c] \in Int /\ now \in Int
      BY <2>2, SessionAssumption DEF IInv, TypeOK, SessionTypeOK
    <2>4. backups[c] \in Recorded /\ \A d \in Recorded : d <= backups[c]
      BY <2>1, <2>2 DEF Recorded
    <2>5. backups[b] <= backups[c]
      BY <2>1, <2>2
    <2>6. now - (backups[c] - Offset) <= MaxAge
      BY <2>2, <2>3, <2>5, RecoveryAssumption
    <2> QED BY <2>4, <2>6 DEF GateOk, Recent
  <1> QED BY <1>1, <1>2, <1>3, IInvAlways, PTL DEF Spec
=============================================================================
