--------------------------- MODULE IdempotentIntake ---------------------------
(***************************************************************************)
(* What POST /transactions promises about idempotency keys, without caches,*)
(* tables or handlers: a key is bound to one transfer for ever, that       *)
(* transfer is sent to the clients service at most once, and every request *)
(* that is answered, is answered with the transfer its key is bound to.    *)
(***************************************************************************)
CONSTANTS
  Requests,  \* the requests, each with a transfer of its own to propose
  Keys,      \* idempotency keys
  KeyOf,     \* the key each request carries
  NoTx       \* no transfer

VARIABLES
  accepted,    \* the transfer each key is bound to
  dispatched,  \* the keys whose transfer was sent
  answered     \* the transfer each request was answered with

vars == <<accepted, dispatched, answered>>

Init ==
  /\ accepted = [k \in Keys |-> NoTx]
  /\ dispatched = {}
  /\ answered = [p \in Requests |-> NoTx]

Accept(p) ==
  /\ accepted[KeyOf[p]] = NoTx
  /\ accepted' = [accepted EXCEPT ![KeyOf[p]] = p]
  /\ UNCHANGED <<dispatched, answered>>

Answer(p) ==
  /\ answered[p] = NoTx
  /\ accepted[KeyOf[p]] # NoTx
  /\ answered' = [answered EXCEPT ![p] = accepted[KeyOf[p]]]
  /\ UNCHANGED <<accepted, dispatched>>

\* The transfer is sent; in the same step, or never, its proposer is answered.
Dispatch(p) ==
  /\ accepted[KeyOf[p]] = p
  /\ KeyOf[p] \notin dispatched
  /\ dispatched' = dispatched \cup {KeyOf[p]}
  /\ answered' \in {answered, [answered EXCEPT ![p] = p]}
  /\ UNCHANGED accepted

Next == \E p \in Requests : Accept(p) \/ Answer(p) \/ Dispatch(p)

Spec == Init /\ [][Next]_vars
=============================================================================
