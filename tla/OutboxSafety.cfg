\* Two workers and two clients; two keys, so two messages can wait side by side
\* and one key can be queued again after its first message was resolved.
CONSTANTS
  Workers = {w1, w2}
  Clients = {c1, c2}
  Keys = {k1, k2}
  BatchSize = 2
  MaxAttempts = 2
  DayLength = 3
  BackoffCap = 2
  MaxId = 2
  MaxCrashes = 1
  NoKey = NoKey
  NoStamp = NoStamp
SPECIFICATION Spec
SYMMETRY ProcessSymmetry
INVARIANTS TypeOK ReservationExclusive OneActivePerKey AttemptsMatchState HandoverBudget SentWasAcked OnlyCrashesStrand
PROPERTIES NoResendAfterAck BackoffRespected ImplementsContract
