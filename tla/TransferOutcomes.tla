--------------------------- MODULE TransferOutcomes ---------------------------
(***************************************************************************)
(* What the two services promise about a transfer, without queues, caches, *)
(* handlers or balances: it is entered in the ledger after it is accepted, *)
(* its outcome is reported after it is entered, and its status is what was *)
(* reported.  Each happens once, and once more for each failed call or     *)
(* crash: the services neither undo nor repair what those leave behind.    *)
(***************************************************************************)
EXTENDS Naturals

CONSTANTS
  Requests,  \* the requests, each with a transfer of its own to propose
  KeyOf      \* the idempotency key each request carries

VARIABLES
  status,    \* of each transfer, "none" if it was not accepted
  debits,    \* entries in the ledger
  credits,
  said,      \* the outcomes the clients service has reported
  troubles   \* calls that have failed and crashes, so far

vars == <<status, debits, credits, said, troubles>>

Init ==
  /\ status = [t \in Requests |-> "none"]
  /\ debits = [t \in Requests |-> 0]
  /\ credits = [t \in Requests |-> 0]
  /\ said = [t \in Requests |-> {}]
  /\ troubles = 0

Accept(t) ==
  /\ \A u \in Requests : status[u] # "none" => KeyOf[u] # KeyOf[t]
  /\ status' = [status EXCEPT ![t] = "PENDING"]
  /\ UNCHANGED <<debits, credits, said>>

\* The clients service takes t up, for the first time unless something failed.
TakesUp(t) == status[t] # "none" /\ (said[t] = {} \/ troubles > 0)

Debit(t) ==
  /\ TakesUp(t) /\ debits[t] <= troubles
  /\ debits' = [debits EXCEPT ![t] = @ + 1]
  /\ UNCHANGED <<status, credits, said>>

Credit(t) ==
  /\ TakesUp(t) /\ credits[t] < debits[t]
  /\ credits' = [credits EXCEPT ![t] = @ + 1]
  /\ UNCHANGED <<status, debits, said>>

Succeed(t) ==
  /\ TakesUp(t) /\ credits[t] > 0
  /\ said' = [said EXCEPT ![t] = @ \cup {"SUCCESS"}]
  /\ UNCHANGED <<status, debits, credits>>

Fail(t) ==
  /\ TakesUp(t) /\ (debits[t] = 0 \/ troubles > 0)
  /\ said' = [said EXCEPT ![t] = @ \cup {"FAILED"}]
  /\ UNCHANGED <<status, debits, credits>>

Settle(t) ==
  /\ status[t] # "none" /\ (status[t] = "PENDING" \/ troubles > 0)
  /\ \E s \in said[t] : status' = [status EXCEPT ![t] = s]
  /\ UNCHANGED <<debits, credits, said>>

Next ==
  /\ troubles' \in {troubles, troubles + 1}
  /\ \/ \E t \in Requests : Accept(t) \/ Debit(t) \/ Credit(t) \/ Succeed(t) \/ Fail(t) \/ Settle(t)
     \/ UNCHANGED <<status, debits, credits, said>>

Spec == Init /\ [][Next]_vars
=============================================================================
