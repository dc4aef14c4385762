--------------------------- MODULE OutboxContract ---------------------------
(***************************************************************************)
(* What the outgoing mail queue promises, without clock, processes or      *)
(* text: a submitted message waits until someone takes it, only a taken    *)
(* message is resolved, every failed attempt is counted, and the budget of *)
(* attempts alone decides between another try and giving up.               *)
(***************************************************************************)
EXTENDS Integers

CONSTANTS Message, Budget

VARIABLES status, tries

contractVars == <<status, tries>>

ContractInit ==
  /\ status = [m \in Message |-> "absent"]
  /\ tries = [m \in Message |-> 0]

Submit(m) ==
  /\ status[m] = "absent"
  /\ status' = [status EXCEPT ![m] = "waiting"]
  /\ UNCHANGED tries

\* One worker takes several waiting messages at once.
Take(S) ==
  /\ \A m \in S : status[m] = "waiting"
  /\ status' = [m \in Message |-> IF m \in S THEN "taken" ELSE status[m]]
  /\ UNCHANGED tries

Deliver(m) ==
  /\ status[m] = "taken"
  /\ status' = [status EXCEPT ![m] = "delivered"]
  /\ UNCHANGED tries

Retry(m) ==
  /\ status[m] = "taken"
  /\ tries[m] + 1 < Budget
  /\ tries' = [tries EXCEPT ![m] = @ + 1]
  /\ status' = [status EXCEPT ![m] = "waiting"]

GiveUp(m) ==
  /\ status[m] = "taken"
  /\ tries[m] + 1 = Budget
  /\ tries' = [tries EXCEPT ![m] = @ + 1]
  /\ status' = [status EXCEPT ![m] = "abandoned"]

ContractNext ==
  \/ \E m \in Message : Submit(m) \/ Deliver(m) \/ Retry(m) \/ GiveUp(m)
  \/ \E S \in SUBSET Message : Take(S)

ContractSpec == ContractInit /\ [][ContractNext]_contractVars
=============================================================================
