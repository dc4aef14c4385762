------------------------------ MODULE Sessions ------------------------------
(***************************************************************************)
(* Bearer sessions of the API: issue_token, authenticate_token,            *)
(* revoke_sessions, and the change of the signing key.                     *)
(*                                                                         *)
(* A token carries its owner, its expiry and a signature made with the key *)
(* of the API process; its row in api_sessions says whether it was         *)
(* revoked.  The API server answers one request at a time, the commands of *)
(* the operator run beside it.  A request with a token only reads: it is   *)
(* the operator Accepts.                                                   *)
(***************************************************************************)
EXTENDS Integers, FiniteSets

CONSTANTS
  Users,    \* active accounts
  Colons,   \* those of them whose login contains a colon
  Tokens,   \* bound: tokens issued
  Ttl,      \* ttl_seconds
  MaxTime,  \* bound: the clock stops here
  MaxKeys,  \* bound: changes of the signing key
  None

ASSUME SessionAssumption ==
  /\ Ttl \in Nat \ {0} /\ MaxTime \in Nat /\ MaxKeys \in Nat
  /\ None \notin Users \cup Tokens \cup Int \cup {"live", "revoked"}
  /\ None \notin [owner : Users, exp : Int, key : Int]

VARIABLES
  now,      \* the clock
  key,      \* BONIFACIY_API_SIGNING_KEY of the running API server
  token,    \* what each issued token says: owner, expiry, key
  session,  \* its row: "live", "revoked", or None
  login,    \* the login request in progress: None, its user, or "issued"
  revoked,  \* history: tokens revoked since, as far as the database in force knows
  retired,  \* history: tokens issued before the last change of the key
  sound     \* history: tokens that nothing has happened to since they were issued

historyVars == <<revoked, retired, sound>>
sessionVars == <<now, key, token, session, login, historyVars>>

Issued == {t \in Tokens : token[t] # None}

SessionInit ==
  /\ now = 0 /\ key = 0
  /\ token = [t \in Tokens |-> None]
  /\ session = [t \in Tokens |-> None]
  /\ login = None
  /\ revoked = {} /\ retired = {} /\ sound = {}

-----------------------------------------------------------------------------
Tick ==
  /\ now < MaxTime
  /\ now' = now + 1
  /\ UNCHANGED <<key, token, session, login, historyVars>>

\* POST /auth/login reads the row of the user and verifies the password.
ReadUser(u) ==
  /\ login = None
  /\ login' = u
  /\ UNCHANGED <<now, key, token, session, historyVars>>

\* The token is signed, its hash inserted and committed.
IssueToken ==
  /\ login \in Users
  /\ \E t \in Tokens \ Issued :
       /\ token' = [token EXCEPT ![t] = [owner |-> login, exp |-> now + Ttl, key |-> key]]
       /\ session' = [session EXCEPT ![t] = "live"]
       /\ sound' = sound \cup {t}
  /\ login' = "issued"
  /\ UNCHANGED <<now, key, revoked, retired>>

\* The response, or an exception: a locked database can fail either INSERT, the one of
\* the session and the one of the operation log behind it.
EndLogin ==
  /\ login # None
  /\ login' = None
  /\ UNCHANGED <<now, key, token, session, historyVars>>

\* authenticate_token: the payload is split at colons; then the signature, the expiry in
\* the token, which lets its very second pass, and the row with its own expiry, which
\* does not.
AcceptsAnySignature(t) == session[t] = "live" /\ token[t].exp > now        \* mutant
Accepts(t) ==
  /\ token[t].owner \notin Colons
  /\ token[t].key = key
  /\ token[t].exp >= now
  /\ session[t] = "live" /\ token[t].exp > now

\* revoke_sessions, of one user or of all.
RevokeAllAlways(U) ==                                           \* mutant
  LET theirs == {t \in Issued : token[t].owner \in U}
  IN /\ session' = [t \in Tokens |-> IF session[t] = "live" THEN "revoked" ELSE session[t]]
     /\ revoked' = revoked \cup theirs /\ sound' = sound \ theirs
     /\ UNCHANGED <<now, key, token, login, retired>>
RevokeSessions(U) ==
  LET theirs == {t \in Issued : token[t].owner \in U}
  IN /\ session' = [t \in Tokens |-> IF t \in theirs /\ session[t] = "live"
                                     THEN "revoked" ELSE session[t]]
     /\ revoked' = revoked \cup theirs
     /\ sound' = sound \ theirs
     /\ UNCHANGED <<now, key, token, login, retired>>

\* The new key reaches the server with the next deployment, which restarts it.
DeployOldKey ==                                                 \* mutant
  /\ key' \in 0..MaxKeys \ {key}
  /\ login' = None
  /\ retired' = Issued /\ sound' = {}
  /\ UNCHANGED <<now, token, session, revoked>>
DeployKey ==
  /\ key < MaxKeys /\ key' = key + 1
  /\ login' = None
  /\ retired' = Issued /\ sound' = {}
  /\ UNCHANGED <<now, token, session, revoked>>

\* Steps that leave the database alone, and those that commit.
SessionReads == EndLogin \/ DeployKey \/ \E u \in Users : ReadUser(u)
SessionWrites ==
  IssueToken \/ \E U \in {{u} : u \in Users} \cup {Users} : RevokeSessions(U)
SessionNext == Tick \/ SessionReads \/ SessionWrites

-----------------------------------------------------------------------------
(***************************************************************************)
(* Correctness, under the restores of module Recovery as well.             *)
(***************************************************************************)

\* The variables stay within their types, and only issued tokens have rows and a history.
SessionTypeOK ==
  /\ now \in 0..MaxTime /\ key \in 0..MaxKeys
  /\ token \in [Tokens -> [owner : Users, exp : Int, key : 0..MaxKeys] \cup {None}]
  /\ session \in [Tokens -> {"live", "revoked", None}]
  /\ login \in Users \cup {None, "issued"}
  /\ \A t \in Tokens : session[t] # None => t \in Issued
  /\ revoked \subseteq Issued /\ retired \subseteq Issued /\ sound \subseteq Issued

\* A token is refused once it has expired; once its owner's sessions were revoked, for
\* as long as no older database is put in force; and for good once the key that signed
\* it is replaced, whatever database is restored afterwards.
EndedIsRefused ==
  \A t \in Issued : now >= token[t].exp \/ t \in revoked \cup retired => ~Accepts(t)

\* From the moment it is issued a token works until its last second, unless a revocation
\* that concerns its owner, a new key or the restore of a database without it comes
\* between.  (A login with a colon is never accepted: its payload splits wrongly.)
LoginLasts ==
  \A t \in sound : now < token[t].exp /\ token[t].owner \notin Colons => Accepts(t)
=============================================================================
