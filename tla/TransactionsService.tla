------------------------- MODULE TransactionsService -------------------------
(***************************************************************************)
(* The transactions service (apps/transactions): what POST /transactions,  *)
(* GET /transactions/:id and the consumer of "transaction.completed" do to *)
(* the PostgreSQL tables, to the Redis cache and to the broker.            *)
(*                                                                         *)
(* Node runs one handler at a time but switches handlers at every await,   *)
(* so an action is one answered call (to Redis, PostgreSQL, RabbitMQ or    *)
(* the clients service) with the local code up to the next await.  A       *)
(* process is one handler activation; pc names the call it waits for.      *)
(***************************************************************************)
EXTENDS Integers, Sequences

CONSTANTS
  Requests,       \* POST /transactions; a POST's id is also the id (a fresh
                  \* UUID) of the transaction it would construct
  Gets,           \* GET /transactions/:id
  Deliveries,     \* "transaction.completed" messages
  Keys,           \* idempotency keys
  KeyOf,          \* the key each POST carries
  SelfTransfers,  \* the POSTs whose sender and receiver are the same user
  NoTx,           \* no transaction
  MaxFaults,      \* bound: calls that may fail
  MaxCrashes      \* bound: crashes of the service

Procs == Requests \cup Gets \cup Deliveries

ASSUME ConstantsAssumption ==
  /\ KeyOf \in [Requests -> Keys]
  /\ SelfTransfers \subseteq Requests
  /\ NoTx \notin Requests
  /\ Requests \cap Gets = {}
  /\ Requests \cap Deliveries = {}
  /\ Gets \cap Deliveries = {}
  /\ MaxFaults \in Nat
  /\ MaxCrashes \in Nat

VARIABLES
  row,        \* table transactions: the status of each stored transaction
  logs,       \* table transaction_lifecycle_logs, per transaction, in order
  cacheTx,    \* Redis transaction:<id>: the status in the cached copy
  cacheIdem,  \* Redis transaction:idempotency:<key>: a transaction id
  published,  \* "transaction.process" messages handed to the broker
  outcome,    \* the status each "transaction.completed" message carries
  pc, phase,  \* per process: the call awaited, and for which find or save
  tx, seen,   \* per process: the transaction in hand and the status read
  faults, crashes

store == <<row, logs>>
cache == <<cacheTx, cacheIdem>>
bus == <<published, outcome>>
memo == <<phase, tx, seen>>
vars == <<row, logs, cacheTx, cacheIdem, published, outcome, pc, phase, tx,
          seen, faults, crashes>>

-----------------------------------------------------------------------------
Final == {"SUCCESS", "FAILED"}
Status == {"PENDING"} \cup Final

IsPending(s) == s = "PENDING"
CanTransitionToAny(s, new) == new \in Final                        \* (faulty)
CanTransitionTo(s, new) == s = "PENDING" /\ new \in Final

\* The calls each kind of handler waits for, and how it starts and ends.
Ended == {"ok", "refused", "failed", "lost"}
Resting == {"init", "queued", "acked"} \cup Ended
FindLabels == {"getTx", "dbById", "setTx", "setIdem"}
GetLabels == {"init"} \cup FindLabels \cup Ended
RequestLabels == GetLabels \cup
  {"getIdem", "dbByIdem", "setIdemFound", "askSender", "askReceiver", "dbCreate",
   "log", "publish"}
DeliveryLabels == {"init", "queued", "acked"} \cup FindLabels \cup
  {"log", "dbUpdate", "delTx", "delIdem", "ack"}
Labels ==
  {"init", "getIdem", "dbByIdem", "setIdemFound", "getTx", "dbById", "setTx", "setIdem",
   "askSender", "askReceiver", "dbCreate", "log", "publish", "dbUpdate", "delTx", "delIdem",
   "ack", "ok", "refused", "failed", "lost", "queued", "acked"}
Phases == {"check", "create", "save", "read", "reread", "get"}

Goto(p, l) == pc' = [pc EXCEPT ![p] = l]
Works == UNCHANGED faults
Fails == faults < MaxFaults /\ faults' = faults + 1

\* An exception leaves the handler: an HTTP caller gets a 5xx, the consumer
\* nacks its message with requeue.  (Faulty: every handler requeues; the
\* consumer acks; it nacks without requeue.)
OnThrowRequeues(p) == "queued"
OnThrowAcks(p) == IF p \in Deliveries THEN "acked" ELSE "failed"
OnThrowDrops(p) == IF p \in Deliveries THEN "lost" ELSE "failed"
OnThrow(p) == IF p \in Deliveries THEN "queued" ELSE "failed"

Init ==
  /\ row = [t \in Requests |-> "none"]
  /\ logs = [t \in Requests |-> <<>>]
  /\ cacheTx = [t \in Requests |-> "none"]
  /\ cacheIdem = [k \in Keys |-> NoTx]
  /\ published = [t \in Requests |-> 0]
  /\ outcome = [d \in Deliveries |-> "none"]
  /\ pc = [p \in Procs |-> "init"]
  /\ phase = [p \in Procs |-> "get"]
  /\ tx = [p \in Procs |-> NoTx]
  /\ seen = [p \in Procs |-> "none"]
  /\ faults = 0
  /\ crashes = 0

-----------------------------------------------------------------------------
\* The repository's finds.  "check" is the use case's own idempotency lookup,
\* "create" the one inside CachedTransactionRepository.create, "save" the
\* caching after the insert, "read" and "reread" the two finds of the consumer.

\* (Faulty: the new status is stored without a log entry.)
AfterFoundUnlogged(p, s) ==
  CASE phase[p] \in {"check", "get"} -> "ok"
    [] phase[p] \in {"create", "save"} -> "log"
    [] phase[p] = "read" -> IF IsPending(s) THEN "getTx" ELSE "ack"
    [] phase[p] = "reread" -> IF CanTransitionTo(s, outcome[p]) THEN "dbUpdate" ELSE "queued"

\* The call a process makes once its find returned a transaction of status s.
AfterFound(p, s) ==
  CASE phase[p] \in {"check", "get"} -> "ok"
    [] phase[p] \in {"create", "save"} -> "log"
    [] phase[p] = "read" -> IF IsPending(s) THEN "getTx" ELSE "ack"
    [] phase[p] = "reread" -> IF CanTransitionTo(s, outcome[p]) THEN "log" ELSE "queued"

\* create returns void, whatever its lookup found, and its caller goes on with
\* the transaction it constructed itself.
Found(p, s) ==
  /\ Goto(p, AfterFound(p, s))
  /\ seen' = [seen EXCEPT ![p] = s]
  /\ phase' = [phase EXCEPT ![p] = CASE @ = "create" -> "save"
                                     [] @ = "read" -> "reread"
                                     [] OTHER -> @]
  /\ tx' = IF phase[p] = "create" THEN [tx EXCEPT ![p] = p] ELSE tx

AfterMissing(p) ==
  CASE phase[p] = "check" -> "askSender"
    [] phase[p] = "create" -> "dbCreate"
    [] phase[p] = "get" -> "refused"
    [] phase[p] = "read" -> "ack"
    [] OTHER -> OnThrow(p)

Missing(p) == Goto(p, AfterMissing(p)) /\ UNCHANGED memo

Throw(p) == Goto(p, OnThrow(p)) /\ UNCHANGED memo

\* A failed cache.get is logged and answered null: a miss.
GetIdem(p) ==
  /\ pc[p] = "getIdem"
  /\ \/ /\ Works
        /\ cacheIdem[KeyOf[p]] # NoTx
        /\ tx' = [tx EXCEPT ![p] = cacheIdem[KeyOf[p]]]
        /\ Goto(p, "getTx")
     \/ /\ (Works /\ cacheIdem[KeyOf[p]] = NoTx) \/ Fails
        /\ Goto(p, "dbByIdem")
        /\ UNCHANGED tx
  /\ UNCHANGED <<store, cache, bus, phase, seen, crashes>>

DbByIdem(p) ==
  /\ pc[p] = "dbByIdem"
  /\ \/ \E t \in Requests :
          /\ Works
          /\ row[t] # "none" /\ KeyOf[t] = KeyOf[p]
          /\ tx' = [tx EXCEPT ![p] = t]
          /\ seen' = [seen EXCEPT ![p] = row[t]]
          /\ Goto(p, "setIdemFound")
          /\ UNCHANGED phase
     \/ /\ Works
        /\ \A t \in Requests : KeyOf[t] = KeyOf[p] => row[t] = "none"
        /\ Missing(p)
     \/ Fails /\ Throw(p)
  /\ UNCHANGED <<store, cache, bus, crashes>>

\* The one cache write outside a try: its failure fails the request.
SetIdemFound(p) ==
  /\ pc[p] = "setIdemFound"
  /\ \/ /\ Works
        /\ cacheIdem' = [cacheIdem EXCEPT ![KeyOf[p]] = tx[p]]
        /\ Goto(p, "setTx")
        /\ UNCHANGED memo
     \/ Fails /\ Throw(p) /\ UNCHANGED cacheIdem
  /\ UNCHANGED <<store, cacheTx, bus, crashes>>

GetTx(p) ==
  /\ pc[p] = "getTx"
  /\ \/ /\ Works
        /\ cacheTx[tx[p]] # "none"
        /\ Found(p, cacheTx[tx[p]])
     \/ /\ (Works /\ cacheTx[tx[p]] = "none") \/ Fails
        /\ Goto(p, "dbById")
        /\ UNCHANGED memo
  /\ UNCHANGED <<store, cache, bus, crashes>>

DbById(p) ==
  /\ pc[p] = "dbById"
  /\ \/ /\ Works
        /\ row[tx[p]] # "none"
        /\ seen' = [seen EXCEPT ![p] = row[tx[p]]]
        /\ Goto(p, "setTx")
        /\ UNCHANGED <<phase, tx>>
     \/ Works /\ row[tx[p]] = "none" /\ Missing(p)
     \/ Fails /\ Throw(p)
  /\ UNCHANGED <<store, cache, bus, crashes>>

\* cacheTransaction: the two writes share one try, so a failed first write
\* skips the second, and either failure is swallowed.
SetTx(p) ==
  /\ pc[p] = "setTx"
  /\ \/ /\ Works
        /\ cacheTx' = [cacheTx EXCEPT ![tx[p]] = seen[p]]
        /\ Goto(p, "setIdem")
        /\ UNCHANGED memo
     \/ Fails /\ Found(p, seen[p]) /\ UNCHANGED cacheTx
  /\ UNCHANGED <<store, cacheIdem, bus, crashes>>

\* (Faulty: the handler's own id is cached for the key.)
SetIdemOwn(p) ==
  /\ pc[p] = "setIdem"
  /\ \/ Works /\ cacheIdem' = [cacheIdem EXCEPT ![KeyOf[tx[p]]] = p]
     \/ Fails /\ UNCHANGED cacheIdem
  /\ Found(p, seen[p])
  /\ UNCHANGED <<store, cacheTx, bus, crashes>>

SetIdem(p) ==
  /\ pc[p] = "setIdem"
  /\ \/ Works /\ cacheIdem' = [cacheIdem EXCEPT ![KeyOf[tx[p]]] = tx[p]]
     \/ Fails /\ UNCHANGED cacheIdem
  /\ Found(p, seen[p])
  /\ UNCHANGED <<store, cacheTx, bus, crashes>>

-----------------------------------------------------------------------------
\* POST /transactions: the use case from the missed lookup on.

Post(p) ==
  /\ pc[p] = "init"
  /\ Goto(p, "getIdem")
  /\ phase' = [phase EXCEPT ![p] = "check"]
  /\ UNCHANGED <<store, cache, bus, tx, seen, faults, crashes>>

\* The clients service answers the sender's details, or an error.
AskSender(p) ==
  /\ pc[p] = "askSender"
  /\ \/ Works /\ Goto(p, "askReceiver")
     \/ Works /\ Goto(p, "refused")
     \/ Fails /\ Goto(p, "failed")
  /\ UNCHANGED <<store, cache, bus, memo, crashes>>

\* The entity's constructor throws when sender and receiver are the same user.
Constructs(p) == p \notin SelfTransfers

\* It answers the receiver's; then the balance check, and the constructor.
AskReceiver(p) ==
  /\ pc[p] = "askReceiver"
  /\ \/ /\ Works
        /\ Constructs(p)
        /\ Goto(p, "getIdem")
        /\ phase' = [phase EXCEPT ![p] = "create"]
     \/ Works /\ ~Constructs(p) /\ Goto(p, "failed") /\ UNCHANGED phase
     \/ Works /\ Goto(p, "refused") /\ UNCHANGED phase
     \/ Fails /\ Goto(p, "failed") /\ UNCHANGED phase
  /\ UNCHANGED <<store, cache, bus, tx, seen, crashes>>

\* The unique index on the idempotency key rejects the insert of a race's loser.
\* (Faulty: there is no such index.)
KeyTakenNever(p) == FALSE
KeyTaken(p) == \E t \in Requests : row[t] # "none" /\ KeyOf[t] = KeyOf[p]

DbCreate(p) ==
  /\ pc[p] = "dbCreate"
  /\ \/ /\ Works
        /\ ~KeyTaken(p)
        /\ row' = [row EXCEPT ![p] = "PENDING"]
        /\ tx' = [tx EXCEPT ![p] = p]
        /\ seen' = [seen EXCEPT ![p] = "PENDING"]
        /\ phase' = [phase EXCEPT ![p] = "save"]
        /\ Goto(p, "setTx")
     \/ /\ (Works /\ KeyTaken(p)) \/ Fails
        /\ Throw(p)
        /\ UNCHANGED row
  /\ UNCHANGED <<logs, cache, bus, crashes>>

\* The lifecycle log's foreign key rejects the entry of a transaction that was
\* constructed but, its key having been found taken, never stored.
\* (Faulty: there is no foreign key.)
StoredAlways(t) == TRUE
Stored(t) == row[t] # "none"

\* TransactionLifecycleLogger.logStatusChange.
Logged(t, old, new) == [logs EXCEPT ![t] = Append(@, <<old, new>>)]

LogCreated(p) ==
  /\ p \in Requests /\ pc[p] = "log"
  /\ \/ /\ Works
        /\ Stored(p)
        /\ logs' = Logged(p, "none", "PENDING")
        /\ Goto(p, "publish")
        /\ UNCHANGED memo
     \/ /\ (Works /\ ~Stored(p)) \/ Fails
        /\ Throw(p)
        /\ UNCHANGED logs
  /\ UNCHANGED <<row, cache, bus, crashes>>

\* A publish that reports an error may or may not have reached the broker.
Publish(p) ==
  /\ pc[p] = "publish"
  /\ \/ /\ Works
        /\ published' = [published EXCEPT ![p] = @ + 1]
        /\ Goto(p, "ok")
     \/ /\ Fails
        /\ \E n \in {0, 1} : published' = [published EXCEPT ![p] = @ + n]
        /\ Goto(p, "failed")
  /\ UNCHANGED <<store, cache, outcome, memo, crashes>>

-----------------------------------------------------------------------------
\* GET /transactions/:id, for an id that may or may not be stored.
GetById(g, t) ==
  /\ pc[g] = "init"
  /\ tx' = [tx EXCEPT ![g] = t]
  /\ Goto(g, "getTx")
  /\ UNCHANGED <<store, cache, bus, phase, seen, faults, crashes>>

-----------------------------------------------------------------------------
\* The consumer of "transaction.completed".

\* The clients service (external here) reports on a transfer it was sent; it
\* may report more than once and contradict itself, as its code does.
Send(d, t, s) ==
  /\ pc[d] = "init"
  /\ published[t] > 0
  /\ outcome' = [outcome EXCEPT ![d] = s]
  /\ tx' = [tx EXCEPT ![d] = t]
  /\ Goto(d, "queued")
  /\ UNCHANGED <<store, cache, published, phase, seen, faults, crashes>>

Deliver(d) ==
  /\ pc[d] = "queued"
  /\ Goto(d, "getTx")
  /\ phase' = [phase EXCEPT ![d] = "read"]
  /\ UNCHANGED <<store, cache, bus, tx, seen, faults, crashes>>

\* The log entry is written before the status it announces.  (Faulty: the new
\* status goes into the cache with it, ahead of the table.)
LogUpdatedCaching(d) ==
  /\ d \in Deliveries /\ pc[d] = "log"
  /\ Works
  /\ logs' = Logged(tx[d], seen[d], outcome[d])
  /\ cacheTx' = [cacheTx EXCEPT ![tx[d]] = outcome[d]]
  /\ Goto(d, "dbUpdate")
  /\ UNCHANGED <<row, cacheIdem, bus, memo, crashes>>

LogUpdated(d) ==
  /\ d \in Deliveries /\ pc[d] = "log"
  /\ \/ /\ Works
        /\ logs' = Logged(tx[d], seen[d], outcome[d])
        /\ Goto(d, "dbUpdate")
        /\ UNCHANGED memo
     \/ Fails /\ Throw(d) /\ UNCHANGED logs
  /\ UNCHANGED <<row, cache, bus, crashes>>

\* (Faulty: a failed update is made good by writing back the status read.)
DbUpdateUndone(d) ==
  /\ pc[d] = "dbUpdate"
  /\ \/ Works /\ row' = [row EXCEPT ![tx[d]] = outcome[d]] /\ Goto(d, "delTx")
     \/ Fails /\ row' = [row EXCEPT ![tx[d]] = seen[d]] /\ Goto(d, "queued")
  /\ UNCHANGED <<logs, cache, bus, memo, crashes>>

DbUpdate(d) ==
  /\ pc[d] = "dbUpdate"
  /\ \/ /\ Works
        /\ row' = [row EXCEPT ![tx[d]] = outcome[d]]
        /\ Goto(d, "delTx")
        /\ UNCHANGED memo
     \/ Fails /\ Throw(d) /\ UNCHANGED row
  /\ UNCHANGED <<logs, cache, bus, crashes>>

\* invalidateTransactionCache: Promise.all of two deletes, its rejection
\* swallowed.  After a rejected first delete the second may still happen, late
\* or early: Expire covers it.
DelTx(d) ==
  /\ pc[d] = "delTx"
  /\ \/ Works /\ cacheTx' = [cacheTx EXCEPT ![tx[d]] = "none"] /\ Goto(d, "delIdem")
     \/ Fails /\ UNCHANGED cacheTx /\ Goto(d, "ack")
  /\ UNCHANGED <<store, cacheIdem, bus, memo, crashes>>

DelIdem(d) ==
  /\ pc[d] = "delIdem"
  /\ \/ Works /\ cacheIdem' = [cacheIdem EXCEPT ![KeyOf[tx[d]]] = NoTx]
     \/ Fails /\ UNCHANGED cacheIdem
  /\ Goto(d, "ack")
  /\ UNCHANGED <<store, cacheTx, bus, memo, crashes>>

Ack(d) ==
  /\ pc[d] = "ack"
  /\ Goto(d, "acked")
  /\ UNCHANGED <<store, cache, bus, memo, faults, crashes>>

-----------------------------------------------------------------------------
\* The service dies: its callers get no answer, and the broker requeues the
\* messages that were delivered and not acked.
Crash ==
  /\ crashes < MaxCrashes
  /\ crashes' = crashes + 1
  /\ pc' = [p \in Procs |-> IF pc[p] \in Resting THEN pc[p]
                            ELSE IF p \in Deliveries THEN "queued" ELSE "lost"]
  /\ UNCHANGED <<store, cache, bus, memo, faults>>

\* A key's time to live ends, or Redis evicts it.
Expire ==
  /\ \/ \E t \in Requests :
          /\ cacheTx[t] # "none"
          /\ cacheTx' = [cacheTx EXCEPT ![t] = "none"]
          /\ UNCHANGED cacheIdem
     \/ \E k \in Keys :
          /\ cacheIdem[k] # NoTx
          /\ cacheIdem' = [cacheIdem EXCEPT ![k] = NoTx]
          /\ UNCHANGED cacheTx
  /\ UNCHANGED <<store, bus, pc, memo, faults, crashes>>

FindStep(p) ==
  \/ GetIdem(p) \/ DbByIdem(p) \/ SetIdemFound(p)
  \/ GetTx(p) \/ DbById(p) \/ SetTx(p) \/ SetIdem(p)

RequestStep(p) ==
  \/ AskSender(p) \/ AskReceiver(p) \/ DbCreate(p) \/ LogCreated(p) \/ Publish(p)

DeliveryStep(d) ==
  \/ Deliver(d) \/ LogUpdated(d) \/ DbUpdate(d) \/ DelTx(d) \/ DelIdem(d) \/ Ack(d)

Environment ==
  \/ \E p \in Requests : Post(p)
  \/ \E g \in Gets, t \in Requests : GetById(g, t)
  \/ \E d \in Deliveries, t \in Requests, s \in Final : Send(d, t, s)
  \/ Crash
  \/ Expire

Next ==
  \/ \E p \in Procs : FindStep(p)
  \/ \E p \in Requests : RequestStep(p)
  \/ \E d \in Deliveries : DeliveryStep(d)
  \/ Environment

Spec == Init /\ [][Next]_vars

\* The event loop answers every call in the end and the broker redelivers a
\* queued message; nothing obliges a client to call or the clients service to
\* report.
Fairness ==
  /\ \A p \in Procs : WF_vars(FindStep(p))
  /\ \A p \in Requests : WF_vars(RequestStep(p))
  /\ \A d \in Deliveries : WF_vars(DeliveryStep(d))

FairSpec == Spec /\ Fairness
-----------------------------------------------------------------------------
\* At these calls, or in its answer, a handler uses the transaction in its hand,
\* and the status it has read.
HoldsTx(p) ==
  \/ pc[p] \in FindLabels \cup {"setIdemFound", "log", "publish", "ok"}
  \/ p \in Deliveries /\ pc[p] # "init"
HoldsRead(p) ==
  \/ pc[p] \in {"setIdemFound", "setTx", "setIdem"}
  \/ p \in Deliveries /\ pc[p] \in {"log", "dbUpdate"}

\* Each kind of handler waits only for the calls it makes, in the phases it has.
Local(p) ==
  /\ p \in Requests => pc[p] \in RequestLabels
  /\ p \in Requests /\ pc[p] # "init" => phase[p] \in {"check", "create", "save"}
  /\ p \in Gets => pc[p] \in GetLabels /\ phase[p] = "get"
  /\ p \in Deliveries => pc[p] \in DeliveryLabels
  /\ p \in Deliveries /\ pc[p] \notin {"init", "queued"} => phase[p] \in {"read", "reread"}
  /\ p \in Deliveries /\ pc[p] # "init" => outcome[p] \in Final
  /\ HoldsTx(p) => tx[p] \in Requests
  /\ HoldsRead(p) => seen[p] \in Status

\* A lifecycle entry: the status before and the status after.
Entries == ({"none"} \cup Status) \X Status

TableTypes ==
  /\ row \in [Requests -> {"none"} \cup Status]
  /\ logs \in [Requests -> Seq(Entries)]
  /\ cacheTx \in [Requests -> {"none"} \cup Status]
  /\ cacheIdem \in [Keys -> Requests \cup {NoTx}]
  /\ published \in [Requests -> Nat]
  /\ outcome \in [Deliveries -> {"none"} \cup Final]

HandlerTypes ==
  /\ pc \in [Procs -> Labels]
  /\ phase \in [Procs -> Phases]
  /\ tx \in [Procs -> Requests \cup {NoTx}]
  /\ seen \in [Procs -> {"none"} \cup Status]

Budgets == faults \in 0 .. MaxFaults /\ crashes \in 0 .. MaxCrashes

\* Every variable has its type, and no handler uses a transaction or a status
\* it does not hold: the nulls the handlers of this service never meet.
TypeOK ==
  TableTypes /\ HandlerTypes /\ Budgets /\ \A p \in Procs : Local(p)

\* However POSTs with the same key interleave, and whatever the cache says,
\* they hand at most one transfer to the broker between them: the lookup, the
\* lookup in create, the unique index and the log's foreign key together.
PublishedOncePerKey ==
  /\ \A t \in Requests : published[t] <= 1
  /\ \A t, u \in Requests :
       published[t] > 0 /\ published[u] > 0 /\ KeyOf[t] = KeyOf[u] => t = u

\* Two POSTs with the same key that are both answered are answered with the
\* same transaction, one that is stored under that key: the repeatability
\* the README asks of idempotency keys.
IdempotentResponses ==
  \A p, q \in Requests :
    pc[p] = "ok" /\ pc[q] = "ok" /\ KeyOf[p] = KeyOf[q] =>
      tx[p] = tx[q] /\ row[tx[p]] # "none" /\ KeyOf[tx[p]] = KeyOf[p]

\* The clients service never hears of a transaction that is not stored, or
\* whose creation the lifecycle log does not show.
PublishedIsRecorded ==
  \A t \in Requests : published[t] > 0 =>
    row[t] # "none" /\ logs[t] # <<>> /\ logs[t][1] = <<"none", "PENDING">>

\* Through evictions, failed and late cache writes, an idempotency key in
\* Redis only ever leads to a stored transaction of that key: a POST is never
\* sent by the cache to another key's transfer or into a 404.
IdemCacheSound ==
  \A k \in Keys : cacheIdem[k] # NoTx =>
    row[cacheIdem[k]] # "none" /\ KeyOf[cacheIdem[k]] = k

\* The cached copy of a transaction may lag behind the table but never runs
\* ahead of it: no reader sees a final status while the stored one is PENDING,
\* or a transaction that is not stored.  (Two contradictory reports can leave
\* the copy with the other final status.)
CacheNotAhead ==
  \A t \in Requests :
    /\ cacheTx[t] # "none" => row[t] # "none"
    /\ cacheTx[t] \in Final => row[t] \in Final

\* A final status in the table is explained by a lifecycle entry written
\* before it, even when handlers race, fail between the two writes or crash.
FinalStatusLogged ==
  \A t \in Requests : row[t] \in Final =>
    \E i \in 2 .. Len(logs[t]) : logs[t][i] = <<"PENDING", row[t]>>

\* The statuses reported so far for a transaction.
ReportsOf(t) == {outcome[d] : d \in {e \in Deliveries : pc[e] # "init" /\ tx[e] = t}}

\* The lifecycle log of a transaction is one creation, written first, and then
\* only moves out of PENDING to a status some report on this transaction asked
\* for: no failed, redelivered or late handler logs a second creation, a move
\* out of a final status, or a status nobody reported.
LogTrue ==
  \A t \in Requests : \A i \in 1 .. Len(logs[t]) :
    IF i = 1 THEN logs[t][i] = <<"none", "PENDING">>
             ELSE logs[t][i] \in {"PENDING"} \X ReportsOf(t)

\* A report is acked only when its transaction has a final status: redelivery,
\* stale reads and failed calls never consume a report without effect.
AckedMeansFinal ==
  \A d \in Deliveries : pc[d] = "acked" => row[tx[d]] \in Final

\* A step keeps every row, and every final status final.
KeepsFinal ==
  \A t \in Requests :
    /\ row[t] # "none" => row'[t] # "none"
    /\ row[t] \in Final => row'[t] \in Final

\* No late write of a handler working on an old read takes a transaction out
\* of a final status back to PENDING, or out of the table.
NoReturnToPending == [][KeepsFinal]_vars

-----------------------------------------------------------------------------
\* The inductive invariants behind the theorems of TransactionsServiceProofs.

Announced(t) == logs[t] # <<>> /\ logs[t][1] = <<"none", "PENDING">>

\* Of the tables: a key has one row, which the cached id points to, and what is
\* published, once, is a row whose creation is logged.
KeysTables ==
  /\ \A t, u \in Requests :
       row[t] # "none" /\ row[u] # "none" /\ KeyOf[t] = KeyOf[u] => t = u
  /\ IdemCacheSound
  /\ \A t \in Requests :
       /\ published[t] <= 1
       /\ published[t] > 0 => row[t] # "none" /\ Announced(t)

\* Of each handler: what a POST holds, or answered, is its key's row; it logs
\* and publishes its own transaction, in that order and only once.
KeysLocal(p) ==
  /\ p \in Requests /\ pc[p] \in FindLabels \cup {"setIdemFound", "ok"} =>
       row[tx[p]] # "none" /\ KeyOf[tx[p]] = KeyOf[p]
  /\ p \in Requests /\ pc[p] \in {"getIdem", "dbByIdem", "setIdemFound"} => phase[p] # "save"
  /\ p \in Requests /\ pc[p] \in FindLabels /\ phase[p] = "save" => tx[p] = p
  /\ p \in Requests /\ pc[p] \in {"log", "publish"} => tx[p] = p
  /\ p \in Requests /\ pc[p] = "publish" => row[p] # "none" /\ Announced(p)
  /\ p \in Requests /\ pc[p] \notin {"publish", "ok", "failed", "lost"} => logs[p] = <<>>
  /\ p \in Requests /\ pc[p] \notin {"ok", "failed", "lost"} => published[p] = 0
  /\ p \notin Requests /\ pc[p] \in {"setTx", "setIdem"} => row[tx[p]] # "none"
  /\ p \in Deliveries /\ pc[p] # "init" => published[tx[p]] > 0

\* A key's bookkeeping is right in every table and in every handler's hands.
KeysInvariant == KeysTables /\ \A p \in Procs : KeysLocal(p)

\* The part of LogTrue that is about the log alone: what its entries say they
\* move away from.
LogLegal ==
  \A t \in Requests : \A i \in 1 .. Len(logs[t]) :
    logs[t][i][1] = (IF i = 1 THEN "none" ELSE "PENDING")

\* Of the tables: nothing cached is ahead of its row, the log starts from no
\* status and then only leaves PENDING, and it has the row's final status.
StatusTables == CacheNotAhead /\ LogLegal /\ FinalStatusLogged

\* Of each handler: what it is about to cache is not ahead either; it moves a
\* transaction only out of PENDING and after the log says so; and it acks what
\* is final.
StatusLocal(p) ==
  /\ pc[p] \in {"setIdemFound", "setTx", "setIdem"} /\ seen[p] \in Final =>
       row[tx[p]] \in Final
  /\ p \in Deliveries /\ pc[p] \in {"log", "dbUpdate"} => seen[p] = "PENDING"
  /\ p \in Deliveries /\ pc[p] = "dbUpdate" =>
       \E i \in 2 .. Len(logs[tx[p]]) : logs[tx[p]][i] = <<"PENDING", outcome[p]>>
  /\ p \in Deliveries /\ pc[p] \in {"delTx", "delIdem", "ack", "acked"} =>
       row[tx[p]] \in Final

\* Statuses agree across the table, the log, the cache and every handler.
StatusInvariant == StatusTables /\ \A p \in Procs : StatusLocal(p)

-----------------------------------------------------------------------------
\* Statements of the repository that this code does not keep.

\* "Fail silently - cache errors should not break the application"
\* (cached-transaction.repository.ts:142 and :173).
CacheErrorsHarmless ==
  [][\A p \in Requests :
       pc[p] \in {"getIdem", "setIdemFound", "getTx", "setTx", "setIdem"}
         => pc'[p] # "failed"]_vars

\* "Se ja foi processada, ignorar (idempotencia)": a transaction that has a
\* final status keeps it (process-transaction-completed.use-case.ts:31).
FinalStatusStable ==
  [][\A t \in Requests : row[t] \in Final => row'[t] = row[t]]_vars

\* "Initiate a new transfer" (transactions.controller.ts:44): a POST that is
\* answered leaves its transfer initiated, or with a POST still initiating it.
AnsweredIsInitiated ==
  \A p \in Requests : pc[p] = "ok" =>
    published[tx[p]] > 0 \/ pc[tx[p]] \notin Resting

-----------------------------------------------------------------------------
\* What the service promises of its keys, and how its state shows it: a key is
\* bound to the stored transaction that carries it.
Bound(k) == {t \in Requests : row[t] # "none" /\ KeyOf[t] = k}
TheOneIn(S) == IF S = {} THEN NoTx ELSE CHOOSE t \in S : TRUE
Accepted == [k \in Keys |-> TheOneIn(Bound(k))]
Dispatched == {KeyOf[t] : t \in {u \in Requests : published[u] > 0}}
Answered == [p \in Requests |-> IF pc[p] = "ok" THEN tx[p] ELSE NoTx]

Intake == INSTANCE IdempotentIntake
            WITH accepted <- Accepted, dispatched <- Dispatched, answered <- Answered

\* Caches, tables, races, failures and crashes included, the service does
\* nothing that IdempotentIntake does not allow.
ImplementsIntake == Intake!Spec
=============================================================================
