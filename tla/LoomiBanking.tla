---------------------------- MODULE LoomiBanking ----------------------------
(***************************************************************************)
(* Both services together: TransactionsService and the money side of the   *)
(* clients service (TransferProcessing), joined by the calls and messages  *)
(* between them.                                                           *)
(*                                                                         *)
(* A POST asks the clients service for both accounts over HTTP, and each   *)
(* question is a GET /users/:id there, with all it does to the cached      *)
(* accounts.  A published transfer arrives in the queue                    *)
(* "transactions.process", a report in "transactions.completed".  The      *)
(* queues are durable but the messages are not persistent, so that the     *)
(* broker may lose any message it holds.                                   *)
(***************************************************************************)
EXTENDS Integers, Sequences, FiniteSets

CONSTANTS
  Requests,     \* POST /transactions, and the transfers they construct
  Deliveries,   \* "transaction.completed" messages
  Keys, KeyOf, NoTx,
  Users, Sender, Receiver, Amount, Balance0, MaxCents,
  MaxFaults,    \* bound: calls that may fail, in both services together
  MaxCrashes,   \* bound: crashes of either service
  MaxLosses     \* bound: messages the broker may lose

\* The GET /users/:id each POST makes of its sender and of its receiver.
Reads == Requests \X {"sender", "receiver"}
AccountOf ==
  [r \in Reads |-> IF r[2] = "sender" THEN Sender[r[1]] ELSE Receiver[r[1]]]

\* (A POST from a user to itself ends before anything that concerns the other
\* service: TransactionsService has it.)
ASSUME ConstantsAssumption ==
  /\ Requests \cap Deliveries = {} /\ Requests \cap Reads = {}
  /\ KeyOf \in [Requests -> Keys]
  /\ NoTx \notin Requests
  /\ Sender \in [Requests -> Users]
  /\ Receiver \in [Requests -> Users]
  /\ \A t \in Requests : Sender[t] # Receiver[t]
  /\ Amount \in [Requests -> Nat \ {0}]
  /\ MaxCents \in Nat
  /\ Balance0 \in [Users -> 0 .. MaxCents]
  /\ IsFiniteSet(Deliveries)
  /\ MaxFaults \in Nat /\ MaxCrashes \in Nat /\ MaxLosses \in Nat

VARIABLES
  \* of the transactions service
  row, logs, cacheTx, cacheIdem, published, outcome, txPc, phase, tx, seen,
  \* of the clients service
  bal, net, debits, credits, cache, successes, failures, clPc, side, mem, exposed,
  \* of both
  faults, crashes,
  told,   \* the balance each POST was told its sender has
  lost    \* the messages the broker has lost

txVars == <<row, logs, cacheTx, cacheIdem, published, outcome, txPc, phase, tx, seen>>
clVars == <<bal, net, debits, credits, cache, successes, failures, clPc, side, mem, exposed>>
vars == <<txVars, clVars, faults, crashes, told, lost>>

Tx == INSTANCE TransactionsService
        WITH Gets <- {}, SelfTransfers <- {}, pc <- txPc
Cl == INSTANCE TransferProcessing
        WITH Transfers <- Requests, Edits <- {}, pc <- clPc

Init == Tx!Init /\ Cl!Init /\ told = [p \in Requests |-> 0] /\ lost = {}

-----------------------------------------------------------------------------
\* The transactions service on its own.
TxStep(p) ==
  /\ \/ Tx!FindStep(p)
     \/ p \in Requests /\ (Tx!DbCreate(p) \/ Tx!LogCreated(p) \/ Tx!Publish(p))
     \/ p \in Deliveries /\ Tx!DeliveryStep(p) /\ (txPc[p] = "queued" => p \notin lost)
  /\ UNCHANGED <<clVars, told, lost>>

TxEnvironment ==
  /\ (\E p \in Requests : Tx!Post(p)) \/ Tx!Crash \/ Tx!Expire
  /\ UNCHANGED <<clVars, told, lost>>

\* The clients service on its own.
ClStep(p) ==
  /\ Cl!AccountStep(p) \/ (p \in Requests /\ Cl!TransferStep(p))
  /\ UNCHANGED <<txVars, told, lost>>

ClEnvironment ==
  /\ Cl!Crash \/ \E u \in Users : Cl!Expire(u)
  /\ UNCHANGED <<txVars, told, lost>>

-----------------------------------------------------------------------------
\* A POST's question arrives at the clients service.
Ask(p, r) ==
  /\ r = <<p, IF txPc[p] = "askSender" THEN "sender" ELSE "receiver">>
  /\ txPc[p] \in {"askSender", "askReceiver"}
  /\ Cl!Begin(r)
  /\ UNCHANGED <<txVars, told, lost>>

\* The answer to the first question, which may be an error; or none comes.
AnswerSender(p) ==
  /\ Tx!AskSender(p)
  /\ LET r == <<p, "sender">> IN
     \/ /\ clPc[r] = "done" /\ txPc'[p] = "askReceiver"
        /\ told' = [told EXCEPT ![p] = mem[r][Sender[p]]]
     \/ clPc[r] \in {"failed", "lost"} /\ txPc'[p] = "refused" /\ UNCHANGED told
     \/ faults' # faults /\ UNCHANGED told
  /\ UNCHANGED <<clVars, lost>>

\* The answer to the second, and with it the balance check.
AnswerReceiver(p) ==
  /\ Tx!AskReceiver(p)
  /\ LET r == <<p, "receiver">> IN
     \/ clPc[r] = "done" /\ told[p] >= Amount[p] /\ txPc'[p] = "getIdem"
     \/ clPc[r] = "done" /\ told[p] < Amount[p] /\ txPc'[p] = "refused"
     \/ clPc[r] \in {"failed", "lost"} /\ txPc'[p] = "refused"
     \/ faults' # faults
  /\ UNCHANGED <<clVars, told, lost>>

\* A published transfer reaches the queue of the clients service, and is
\* delivered unless the broker has lost it.
Arrive(t) ==
  /\ published[t] > 0
  /\ Cl!Arrive(t)
  /\ UNCHANGED <<txVars, told, lost>>

Deliver(t) ==
  /\ t \notin lost
  /\ Cl!Begin(t)
  /\ UNCHANGED <<txVars, told, lost>>

\* The reports of outcome s on t that were published, and that reached the queue.
Reported(t, s) == IF s = "SUCCESS" THEN successes[t] ELSE failures[t]
Received(t, s) == {d \in Deliveries : tx[d] = t /\ outcome[d] = s}

\* A report reaches the queue of the transactions service.  (Which of the
\* identical message slots it takes does not matter.)
Report(d, t, s) ==
  /\ Cardinality(Received(t, s)) < Reported(t, s)
  /\ txPc[d] = "init" /\ d = CHOOSE e \in Deliveries : txPc[e] = "init"
  /\ Tx!Send(d, t, s)
  /\ UNCHANGED <<clVars, told, lost>>

\* The broker restarts without a message it held.  One whose handler was at
\* work is lost when, and if, it would be queued again.
Lose(m) ==
  /\ Cardinality(lost) < MaxLosses
  /\ (m \in Requests /\ clPc[m] = "queued") \/ (m \in Deliveries /\ txPc[m] = "queued")
  /\ m \notin lost
  /\ lost' = lost \cup {m}
  /\ UNCHANGED <<txVars, clVars, faults, crashes, told>>

PostStep(p) ==
  AnswerSender(p) \/ AnswerReceiver(p) \/ \E r \in Reads : Ask(p, r)

Next ==
  \/ \E p \in Requests \cup Deliveries : TxStep(p)
  \/ TxEnvironment
  \/ \E p \in Requests \cup Reads : ClStep(p)
  \/ ClEnvironment
  \/ \E p \in Requests : PostStep(p)
  \/ \E t \in Requests : Arrive(t) \/ Deliver(t)
  \/ \E d \in Deliveries, t \in Requests, s \in Tx!Final : Report(d, t, s)
  \/ \E m \in Requests \cup Deliveries : Lose(m)

Spec == Init /\ [][Next]_vars

\* As in the parts: calls are answered, and the broker delivers what it has not
\* lost.
Fairness ==
  /\ \A p \in Requests \cup Deliveries : WF_vars(TxStep(p))
  /\ \A p \in Requests \cup Reads : WF_vars(ClStep(p))
  /\ \A p \in Requests : WF_vars(PostStep(p)) /\ WF_vars(Arrive(p)) /\ WF_vars(Deliver(p))
  /\ \A t \in Requests, s \in Tx!Final : WF_vars(\E d \in Deliveries : Report(d, t, s))

FairSpec == Spec /\ Fairness
-----------------------------------------------------------------------------
Broken == faults + crashes > 0

\* A transfer that clients are told SUCCESS of, by the table or by the cache of
\* the one service, is debited and credited in the ledger of the other.
SuccessIsInLedger ==
  \A t \in Requests : "SUCCESS" \in {row[t], cacheTx[t]} => debits[t] > 0 /\ credits[t] > 0

\* Unless something failed the final status says exactly what was entered in the
\* ledger: SUCCESS of a transfer entered once, FAILED of one not entered.
StatusIsTrue ==
  \A t \in Requests : row[t] \in Tx!Final /\ ~Broken =>
    debits[t] = credits[t] /\ debits[t] = (IF row[t] = "SUCCESS" THEN 1 ELSE 0)

\* Unless a call failed, u has changed a balance when it is half done, is in the
\* ledger, or has ended at the receiver's account: the credit did not fit there,
\* and the debit stays.
HasMoved(u) ==
  \/ Cl!HalfDone(u) \/ debits[u] > 0
  \/ side[u] = "receiver" /\ clPc[u] \in {"pubFail", "ack", "acked"}

\* A transfer is accepted only if its sender had the amount, and is refused for
\* want of it only when another transfer has changed that account since.
RefusedForAReason ==
  \A t \in Requests : clPc[t] = "pubShort" /\ ~Broken =>
    \E u \in Requests \ {t} : Sender[t] \in Cl!Accounts(u) /\ HasMoved(u)

\* However many POSTs share an idempotency key, the ledger is debited for it at
\* most once, and once more for each failed call or crash.
KeyIsDebitedOnce ==
  \A t, u \in Requests : KeyOf[t] = KeyOf[u] =>
    /\ t # u => debits[t] = 0 \/ debits[u] = 0
    /\ debits[t] <= 1 + faults + crashes

\* Nothing the clients service does breaks what the transactions service keeps of
\* its keys and statuses, with a POST of its own behind every message.
IntakeStaysSound == Tx!KeysInvariant /\ Tx!StatusInvariant /\ Tx!IdempotentResponses

\* Nor the other way round: through failures, crashes and lost messages of both
\* services the ledger, the reports and the undisturbed accounts agree.
TransfersStaySound ==
  /\ Cl!TypeOK /\ Cl!LedgerBeforeSuccess /\ Cl!AckedMeansAnswered
  /\ Cl!RepeatedOnlyByFailure /\ Cl!QuietAccountMatchesLedger

\* The clients service contradicts itself, and so a final status is overwritten,
\* only after a failure.
FinalStatusFlipsOnlyBroken ==
  [][\A t \in Requests : row[t] \in Tx!Final /\ row'[t] # row[t] => Broken]_vars

\* The transfer has a final status, and no message about it is left in a queue.
Settled(t) ==
  /\ row[t] \in Tx!Final
  /\ clPc[t] = "acked"
  /\ \A d \in Deliveries : tx[d] = t => txPc[d] = "acked"

\* Every transfer that was published is settled, however often messages are
\* redelivered and whichever call of a handler fails, unless a message about it
\* was lost: nobody sends it again, or notices.
PublishedEndsSettled ==
  \A t \in Requests : published[t] > 0 ~>
    Settled(t) \/ t \in lost \/ \E d \in lost \cap Deliveries : tx[d] = t
-----------------------------------------------------------------------------
\* The refinement of TransferOutcomes: a transfer's status is its row's, and it
\* is said to have each outcome that was reported of it.
said == [t \in Requests |-> {s \in Tx!Final : Reported(t, s) > 0}]

Outcomes == INSTANCE TransferOutcomes WITH status <- row, troubles <- faults + crashes

\* Queues, caches, handlers, failures, crashes and losses of both services
\* included, a transfer goes only the way TransferOutcomes allows.
ImplementsOutcomes == Outcomes!Spec
=============================================================================
