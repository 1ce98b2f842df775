# A TLA+ verification of the Loomi banking microservices

This directory specifies and verifies the logic of the two NestJS services of this
repository: `apps/transactions`, which takes transfer requests and keeps their status, and
`apps/clients`, which keeps users and accounts and moves the money. It holds TLA+ modules,
the TLC configurations that check them on small instances, and theorems that TLAPS proves
for every instance. Every definition is translated from the source; `PROJECT.json` gives the
lines each one stands for.

    tlc -config TxsKeys.cfg MCTransactionsService      (any run of PROJECT.json likewise)
    tlapm TransactionsKeysProofs.tla                   (any other module named *Proofs likewise)

## 1. Inventory

### Components

| component | state | operations |
|---|---|---|
| transfer intake (`create-transaction.use-case.ts`) | tables `transactions`, `transaction_lifecycle_logs`; Redis `transaction:<id>`, `transaction:idempotency:<key>` | `POST /transactions` |
| completion consumer (`process-transaction-completed`, `update-transaction-status`) | the same | `transaction.completed`: read, check, read again, log, update, invalidate, ack or nack |
| transaction reads | the same cache | `GET /transactions/:id` (fills the cache), `GET /transactions/user/:id` (one query) |
| transfer consumer (`process-transaction.use-case.ts`) | tables `banking_details`, `ledger_entries`; Redis `user:banking:<id>` | `transaction.process`: two account reads, check, two balance writes, two ledger entries, report, ack or nack |
| account reads and edits | table `banking_details`, the same cache | `GET /users/:id`, `PATCH /users/:id` with banking details |
| user profiles | table `users`; Redis `user:<id>`, `user:email:<email>`; S3 | create, update, profile picture, find by e-mail |
| login and credentials | table `users` (password hash) | `POST /api/auth/login`: find by address, compare, answer |
| audit log | an entity nothing uses | none |
| guards, DTOs, exception filters, Swagger | none | stateless |

### Interactions

The client posts a transfer with an idempotency key. The transactions service asks the
clients service over HTTP for both users' banking details, stores the transaction PENDING,
logs its creation and publishes `transaction.process`. The clients service consumes it,
moves the amount, writes the ledger and publishes `transaction.completed` with SUCCESS or
FAILED; the transactions service consumes that and stores the final status. Both consumers
ack by hand (`noAck: false`), nack with requeue when the handler throws, and set no prefetch
limit, so a service handles all the messages it has at the same time. Both repositories are
wrapped in a Redis read-through cache that is invalidated after each write. No operation
uses a database transaction or a lock.

### What is hard

* **Interleaving.** Every `await` of a handler lets every other handler run: a status or a
  balance is read, and acted on several awaits later.
* **Partial failure.** Insert, log and publish are separate effects; so are debit, credit,
  two ledger entries and the report. Nothing is rolled back.
* **Crash and redelivery.** An unacked message is processed again from the start.
* **Reports.** A publish that is not confirmed may have arrived; the error path then sends a
  contradicting report.
* **Cache.** A slow reader writes back what an invalidation just removed; failed
  invalidations are swallowed; failed reads count as misses; one cache write is unguarded.

### What makes each component correct

* Intake: per key at most one transfer, published at most once, recorded before it is
  published, and every answer of the key names it.
* Completion: a final status is stored once and for all, explained by the lifecycle log, not
  overtaken by the cache; every report is consumed only with effect.
* Transfers: the ledger explains the balance, no account is overdrawn, SUCCESS is said only
  of transfers in the ledger, every transfer is answered.
* Profiles: unique e-mails, edits not lost, e-mail lookups that lead to the right user, nothing
  left of a request that was answered with an error; a user logs in with its own address.
* Together: a status that clients are told of is true of the ledger of the other service, a key
  moves money once, a published transfer ends with a status.

`PROJECT.json` lists every hazard at its line with the properties that would catch it.

## 2. Modules

| module | what it is |
|---|---|
| `TransactionsService` | the transactions service: intake, completion consumer, reads |
| `IdempotentIntake` | abstract specification: what a client may rely on about keys |
| `MCTransactionsService` | instances for TLC |
| `TransactionsServiceProofs` | type correctness, proved |
| `TransactionsKeysProofs` | the idempotency keys and the refinement of `IdempotentIntake`, proved (extends the former) |
| `TransactionsStatusProofs` | statuses, log, cache and acks, proved (extends the former) |
| `TransferProcessing` | the money side of the clients service |
| `MCTransferProcessing` | instances for TLC |
| `TransferProofs` | its types, ledger and accounts, proved |
| `UserProfiles` | the profile side of the clients service, and login |
| `UserDirectory` | abstract specification: profiles and logins without caches, lookups and handlers |
| `MCUserProfiles` | instances for TLC |
| `UserProfilesProofs` | its types, profiles, cached copies, logins and the refinement of `UserDirectory`, proved |
| `LoomiBanking` | both services together: `TransactionsService` and `TransferProcessing` as instances, joined by HTTP and the two queues |
| `TransferOutcomes` | abstract specification: the way of a transfer from its acceptance to its final status |
| `MCLoomiBanking` | instances for TLC |
| `LoomiProofs` | the statuses of one service are true of the ledger of the other, proved |
| `LoomiKeysProofs` | an idempotency key is debited once, and the refinement of `TransferOutcomes`, proved (extends the former) |
| `LoomiPartsProofs` | what is proved of each service alone holds of both together, and why a transfer is refused, proved |

### Conventions

An **action** is one answered call (to Redis, PostgreSQL, RabbitMQ, or the other service)
together with the local code up to the next await: that is the unit in which Node interleaves
handlers. A **process** is one activation of a handler, `pc[p]` names the call it waits for.
A call either *works* or *fails*; `MaxFaults` bounds the failures and `MaxCrashes` the crashes
of a behaviour, so the bounds limit how much goes wrong, never when. A failed `cache.get` is a
miss (the adapter swallows it); a failed set or delete throws. `Expire` removes a cache entry
at any time: it stands for the time to live and for eviction, and also for a delete of
`Promise.all` that lands after its sibling was rejected.

Definitions marked "(faulty)" are not part of the model. Each is a plausible mistake in the
code the next definition models, and is there to show that the properties notice it.

### `TransactionsService`

| state | code |
|---|---|
| `row` | the status column of `transactions`; "none" is no row |
| `logs` | `transaction_lifecycle_logs`, old and new status of each entry |
| `cacheTx`, `cacheIdem` | the two kinds of Redis keys |
| `published`, `outcome` | messages sent, and the status each received message carries |
| `phase` | which of the repository's finds a handler is in |
| `tx`, `seen` | the transaction in a handler's hand and the status it read |

Identifiers, keys and statuses are the data; amounts, descriptions and times are left out.
The ids of transactions are those of the POSTs that construct them (a fresh UUID each). The
balance check of the POST and the existence of its users are external: the clients service may
answer or refuse. CANCELED, which no code path assigns, is left out. `GetIdem` .. `SetIdem`
are the finds, shared by all handlers; `AfterFound` and `AfterMissing` say where a handler goes
on. In particular `create` returns silently when it finds the key taken (`Found` in phase
"create") and the handler goes on to log and publish a transaction that was never stored; the
foreign key of the log (`Stored`) is what stops it. `Send` is the clients service: it may
report on a published transfer any number of times and contradict itself, which is what
`TransferProcessing` shows it to do. Each element of `Deliveries` is one message; a message
never sent, or never delivered, is one the broker lost.

The handler's branch "Transaction not found, ignoring message" is part of `AfterMissing` but no
behaviour reaches it: a report exists only of a published transaction, which is stored
(`PublishedIsRecorded`), and nothing deletes one.

### `IdempotentIntake`

Three variables: the transfer each key is bound to, the keys whose transfer was sent, the
answers. `TransactionsService` implements it (`ImplementsIntake`) under the refinement mapping
`Intake`: a key is bound to the row that carries it, is dispatched when that row's transfer was
published, and a POST is answered when it ended in "ok".

### `TransferProcessing`

| state | code |
|---|---|
| `bal` | `banking_details.balance_cents` |
| `net`, `debits`, `credits` | `ledger_entries`, summed by account and counted by transfer |
| `cache` | Redis `user:banking:<id>`, its balance |
| `successes`, `failures` | `transaction.completed` messages sent |
| `side`, `mem` | the account a handler is at, and the balances it has read |
| `exposed` | history: accounts on which a writer overlapped another handler, or a handler failed half way |

`Transfers` are messages, `Reads` are `GET /users/:id`, `Edits` are `PATCH /users/:id` with
banking details, which writes the balance it read back with the rest of the row.
`MaxCents` stands for the largest BIGINT: a credit beyond it is refused by the database after
the debit was committed (`Fits`). The balance is checked by the use case (`Covers`) and once more by the
entity (`Debited`), on the same copy. Sender and receiver differ, because the `Transaction` constructor
refuses the others. `exposed` exists only for the properties: it is what a proof that "nothing
else breaks a balance" has to exclude. The properties that exclude exposed accounts (and, in `UserProfiles`,
exposed users) therefore do not say that overlaps, half-done transfers and failed invalidations do no
damage. They say where the damage stops: at the accounts and users it started from, and nowhere
without one of these. That overlaps do damage is shown by `TransfersLedger` and `TransfersUncovered`.

### `UserProfiles`

| state | code |
|---|---|
| `row` | table `users`: `email`, and `home` for the other fields, which may be `Null` |
| `base`, `banking` | Redis `user:<id>` and `user:banking:<id>`, the profile in the copy |
| `emailKey` | Redis `user:email:<address>` |
| `find`, `at`, `hand` | the repository's find a handler is in, the user it is about, what it read |
| `copy` | the profile of the request's own user, that an edit writes back |
| `exposed` | history, as in `TransferProcessing` |

`Creates` are `POST /users`; `Edits` are `PATCH /users/:id` (`WithBanking` those that carry banking
details), picture uploads (`Uploads`) and the balance writes of transfers, which for a profile are
edits with banking details that ask for nothing; `Reads` are `GET /users/:id`. An address is kept as
the client wrote it and `Normal` gives its trimmed lower-case form, because `create` looks the
normal form up and `update` the address as written, which no row has unless it is normal. The three
deletes of an invalidation are one action: they are sent at once over one connection.

`Logins` are `POST /api/auth/login` by registered users with their own passwords: a query of the table,
which bypasses the cache, by the address as written, then the comparison with the hash of whoever was
found. Requests end in "done" or in the answer the code gives: 409 ("conflict"), 404 ("notFound"), 401
("unauthorized") or 500 ("failed"); `Answered` is the exception filter's table of database errors (its
400 for a malformed id is counted among the failures: neither changes anything). Left out: the unique
account number; hashing and signing; time stamps.

A null is written differently by the two writes of the repository (`Stored`): `updateProfile` stores it,
`updateFinancials`, which an edit with banking details calls, leaves the column alone
(`address ?? undefined`). So `PATCH {address: null, bankingDetails}` is answered 200 with the cleared
address while the table keeps the old one. The properties say exactly this: `UnexposedEditIsExact`
excepts the null that comes with banking details and nothing else, and in `ProfilesKeepApart` such a
null (`Dropped`) is never found in the table or in Redis.

`UserDirectory` is what clients are promised of all this: a directory of users, no two with one
e-mail, that each request changes in one step or not at all. The step of `POST /users` is the insert;
an edit is applied when its write is (`Apply`), with its invalidation still to come, and answered
after it; the fields it changes are those it carries, without a null that comes with banking details
(`HomeOf`); a login is decided when it reads the table (`Decide`), and by that moment's directory; a
request answered with 409, 404 or 500 has changed nothing (`Refuse`); a crash leaves requests without an
answer, whether they were applied or not (`Lose`). What the code does not keep of the promise is
in `Apply`: of a user whose requests overlapped or failed (`shared`) an edit may start from any profile
made of what that user ever was (`Past`), and so undo an earlier edit. The mapping (`Progress`) reads
the state of a request off its `pc`; the caches and `copy` appear nowhere in it.

### `LoomiBanking`

All variables of the two instances `Tx` (`TransactionsService`, without GETs) and `Cl`
(`TransferProcessing`, without edits), which share the budgets `faults` and `crashes`, and two of
its own: `told`, the balance a POST was told its sender has, and `lost`, the messages the broker has
lost (they are published without the persistent flag). What the parts leave open is closed here:

| environment of a part | in the composition |
|---|---|
| the users' service answers or refuses (`Tx!AskSender`, `Tx!AskReceiver`) | `Ask` starts a `GET /users/:id` in the other service; `AnswerSender` and `AnswerReceiver` take its answer, or fail without one; the balance check uses `told` |
| a transfer arrives (`Cl!Arrive`) | only one that was published (`Arrive`), delivered unless lost (`Deliver`) |
| any report on a published transfer (`Tx!Send`) | only as many reports of each outcome as the other service made (`Report`) |

`Lose` takes a message that waits in a queue. A lost message whose handler was at work is gone only
if it would have to be delivered again.

## 3. What the runs check

| run | instance | result |
|---|---|---|
| `TxsKeys` | 3 POSTs, 2 of one key, the third a self transfer; 2 failures, 1 crash | one transfer per key, published once and recorded; all answers agree; cached keys sound; refinement of `IdempotentIntake`; the inductive invariant `KeysInvariant` |
| `TxsReports` | 1 POST, 1 GET, 2 reports; 1 failure, 1 crash | types; table, log, cache and acks agree; the log is one creation and then reported moves out of PENDING; no way back to PENDING; the inductive invariant `StatusInvariant` |
| `TransfersOverlap` | 2 transfers out of one account, an edit of it; 1 failure, 1 crash | unexposed accounts match ledger and cache, and their debits are exact; balances stay in range; SUCCESS only of what the ledger holds; acked means answered; repetition only by failures; the inductive invariants `LedgerInvariant` and `AccountsInvariant` |
| `Profiles` | 2 users, a new one, 3 edits (one with banking, one upload), 2 logins, 4 addresses; 1 failure, 1 crash | e-mails unique; users never mixed up in table or cache, nothing left of refused requests; cached addresses lead to who has or had them; settled users cached right; unexposed edits exact, up to the null that is dropped; users log in with their address; refinement of `UserDirectory` |
| `LoomiKeys` | 2 POSTs of one key, 1 report; 1 failure | the ledger is debited for the key once; SUCCESS told by table or cache is in the ledger; refinement of `TransferOutcomes` |
| `LoomiDrain` | 2 POSTs for the one cent of an account, one of them to a full account, 2 reports; nothing fails | each final status says what was entered of the transfer; a transfer is refused only when the other took the money; a final status does not flip; refinement of `TransferOutcomes`; what `TransactionsService` promises of keys, statuses and answers still holds |
| `LoomiLive` | 1 POST, 2 reports; 1 failure, 1 crash, 1 lost message | every published transfer is settled in the end unless a message about it was lost; what `TransferProcessing` promises still holds |
| `TxsCacheError` | 2 POSTs, 1 failure | **violated**: a Redis error fails a POST |
| `TxsFinalFlip` | 1 POST, 2 reports, no failure | **violated**: a final status is overwritten |
| `TxsStuck` | 2 POSTs of one key, 1 failure | **violated**: a retry is answered with a transfer nobody will process |
| `TransfersLedger` | crossing transfers, no failure | **violated**: every handler has ended and the ledger does not explain the balance |
| `TransfersUncovered` | 2 transfers out of one account, no failure | **violated**: the debit is taken from money that is gone |

The violated statements are quoted from the repository's comments and documentation under
"findings" in `PROJECT.json`.

**Why the bounds are enough to be of use.** The races of the intake are between two POSTs of one
key; a third POST with a key of its own shows that keys do not mix. Two reports suffice for
duplicates, contradictions and overlap; one GET repopulates the cache at any moment. Two transfers
out of one account compete for the same money, and with an edit of it there are three handlers that
read, write and invalidate it; in `TransfersLedger` two crossing ones make each account both debited
and credited. Plain reads of an account, which change nothing but the cached copy, are in the runs
of `LoomiBanking` and in the theorems. One failure or crash reaches each error path from each state; two reach an error path of an
error path (a failed report of a failed report). In `Profiles` an address passes from user to user (u2 leaves e2, u1 follows to it from e1, the new
user asks for e1) while a second edit of u1 races the first; u2's edit, without banking details, and u1's,
with them, carry a null; a read is the first half of an edit
with banking details, which is there. What several crashes or many POSTs could add is
covered by the proofs. The composed runs are kept to one thing going
wrong at a time, or to one transfer: two POSTs with the failures of both services are beyond a run of
a few minutes, and the theorems about `LoomiBanking` have no such bound.

**Deadlock** is not checked in any run: the services end up waiting for the next request.

**Fairness.** `FairSpec` adds weak fairness for the steps of each handler (the event loop answers
every call in the end, with a result or an error) and, in `LoomiBanking`, for the arrival of a
published message and the delivery of a queued one that is not lost (the broker redelivers). Nothing
is assumed of clients, which need not call, nor of crashes, evictions and losses; in
`TransactionsService` alone nor of the clients service, which need not report. Failures, crashes and
losses are bounded: with unboundedly many a message may be requeued for ever, in the model as in the
code. `LoomiLive` is the run for liveness: its property covers the way of a transfer through both
services, from the publish to the ack of the last report about it.

## 4. What is proved

For all values of the constants that satisfy `ConstantsAssumption` (disjoint sets of handlers, a
key for every POST, natural bounds): any number of POSTs, GETs, reports, keys, failures, crashes.

* `TypeCorrect`: `Spec => []TypeOK`. `TypeOK` is inductive. Its part `Local` ties each handler's
  `pc` to what it holds, so that it also says that no handler of this service ever uses a null.
* `KeysCorrect`: `Spec => []KeysInvariant`, from which `PublishesOncePerKey`,
  `RespondsIdempotently`, `PublishesRecorded` and `CachesKeysSoundly` follow. `PublishedOncePerKey`
  is not inductive by itself: that a POST about to publish is the only one of its key to do so holds
  because its own row is stored (the log's foreign key), because a key has one row (the unique
  index), and because each POST logs and publishes once. `KeysTables` says this of the tables, and
  `KeysLocal` of each handler: what it holds is the row of its key. The proof has one lemma per group of actions
  (`KeysFind`, `KeysRequest`, `KeysDelivery`, `KeysEnvironment`), and a frame lemma, `KeysFrame`: a
  step that keeps rows and announcements keeps what the invariant says of the other handlers.

* `StatusCorrect`: `Spec => []StatusInvariant`, from which `CacheLags`, `LogExplains`, `AcksFinal` and
  the action property `NeverReturns` follow, and with it `LogIsTrue`. That an acked report leaves a final status is not
  inductive by itself: the handler acks because of a copy, so the invariant says that no copy, in
  the cache or in a hand, is final before its row is, and that a handler past its log entry has
  the entry that explains what it writes. It is inductive relative to `TypeOK` and
  `KeysInvariant`, which are therefore cited in each step. Two frame lemmas carry the other
  handlers: `StatusFrame`, for a step that keeps final rows final and existing entries in the log,
  and `LogsKept`, for the steps that append to the log. `LogIsTrue` adds that only two steps append
  (`LogWritten`), the one to an empty log, the other, with the report in its hand, to one that is
  not, and that a report once made stays made (`ReportsStay`).
* `ImplementsTheIntake`: `Spec => ImplementsIntake`. The insert of a free key is `Accept`, the
  publish that reaches the broker is `Dispatch`, the end of a POST in "ok" is `Answer`, everything
  else stutters. Two facts carry it, both from `KeysInvariant`: at most one row has a key, so the
  `CHOOSE` of the mapping is determined, and a POST about to publish finds its key accepted and not
  yet dispatched.

`TransferProofs` says for any users, accounts, amounts, transfers, reads, edits, failures and crashes:

* `TypeCorrect`. The range of balances is the point: a debit cannot make one negative, because
  (`Local`) the copy it will be computed from covers it, and a credit too large is refused.
* `LedgerCorrect`: `Spec => []LedgerInvariant`, with `SuccessIsEntered`, `AcksAnswered` and
  `RepeatsOnlyOnFailure` as consequences. `Attempted` counts, per transfer: successes are at most
  credits, credits at most debits, strictly so just before the next of them, and a new attempt, or a
  second report in one, has used up a failure or a crash.
* `AccountsCorrect`: `Spec => []AccountsInvariant`, with `QuietAccountsAgree` and the action property
  `DebitsAreExact`. `Undisturbed` says of an unexposed account that no writer has company on it, that
  balance and ledger agree up to what the one transfer at work on it has moved and not yet entered
  (`Pending`), that its cached copy is right or about to be deleted, and that whoever will still use a
  balance it has read (`Holds`) has read the right one.

`UserProfilesProofs` says for any users, addresses, requests, failures and crashes:

* `TypeCorrect`: a handler uses only what it holds (`Labelled`, `Local`), and e-mails are unique.
* `ProfilesApart`, `CachedAddressesTrue` and `LoginsTrue`, from `ProfilesInvariant`: what handlers hold
  of a user is, like what is stored of it, the user's own (`HoldsOwn`), a stored new user's POST has
  succeeded, and a login about to be refused is of a user that asked for another address (`Rejected`).
* `SettledCachedRight` and the action property `EditsAreExact`, from `SettledInvariant`: an edit is alone
  at work on an unexposed user; table, copies and what handlers hold of it agree, up to the copies
  the edit has still to delete. Both invariants were checked with TLC on the instance of `Profiles`.
* `ImplementsTheDirectory`: `Spec => ImplementsDirectory`, from both invariants. Finds, openings and
  evictions stutter or refuse (`DirectoryFind`, `DirectoryOpens`). The write of an edit is the interesting
  step (`DirectoryWrite`): the profile it starts from is the table's if the user is unexposed, by
  `Settled`, and otherwise made of what the user ever was, by `HoldsOwn` (`MadeIsPast`). A login finds
  the user itself exactly if the directory has it under that address, because e-mails are unique.

`LoomiProofs` and `LoomiKeysProofs` say for any number of POSTs, reports, failures, crashes and losses,
across both services:

* `SuccessIsFounded`: `Spec => []SuccessIsInLedger`. The inductive invariant `Truthful` has a side per
  service. `LedgerSide`: reports of SUCCESS are at most the credits, these at most the debits.
  `StatusSide`: a final status anywhere in the transactions service (row, cached copy, message, or the
  hand of a handler about to cache it) is one the other has reported (`said`). Each step moves one
  side (`LedgerAccount`, `LedgerTransfer`, `StatusFind`, `StatusRequest`, `StatusDelivery`) and only
  `StatusReport` relates the two: the messages received are fewer than the reports made. It assumes
  the messages to be finitely many, to count them.
* `StatusesAreTrue` and the action property `FlipsOnlyBroken`: as long as no call failed and nothing
  crashed, a transfer is entered and reported in one way, once (`Smooth`). With `Truthful`, what is
  stored of it was reported, so it says what was entered, and no second report can contradict it.
  Messages may be lost all the same.
* `KeysAreDebitedOnce`: `KeySide` follows a debit back to its key: what is debited or reported has
  arrived, what arrives was published, what is published is stored, and a key has one row. `Once`
  bounds the debits of one transfer by its attempts, and these by failures and crashes.

* `ImplementsTheOutcomes`: `Spec => ImplementsOutcomes`, of which the three results above are the
  parts a client sees. `TransferOutcomes` knows only the status of a transfer, its ledger entries, the
  outcomes reported of it, and how often something failed or crashed (`troubles`). The insert is
  `Accept`; the steps of the transfer consumer are `Debit`, `Credit`, `Succeed` and `Fail`
  (`OutcomesTransfer`, each with its guard out of `KeySide`, `Entered` and `Smooth`); the update of the
  row is `Settle` (`OutcomesRow`: it writes what was said, and over a final status only after trouble);
  everything else stutters (`OutcomesRest`).

`LoomiPartsProofs` carries over to both services what is proved of each, for the same constants:

* `IntakeIsSound`, `TransfersAreSound`, `FinalStaysFinal`, `ExactUnlessExposed` and
  `IntakeIsImplemented` say of the composition `IntakeStaysSound`, `TransfersStaySound`,
  `Tx!NoReturnToPending`, `Cl!UnexposedDebitIsExact` and `Tx!ImplementsIntake`. Nothing is proved twice:
  the proof modules of the parts are instantiated (`TxP`, `ClP`), and their step lemmas cited. What is
  new is `Moves`, that each step of the composition is a step of one part that leaves the other's
  variables alone, or of neither. So the environment each part was given (a users' service that may
  answer anything, reports at any time) does allow what the other service does. The parts share
  `faults` and `crashes`, and `TxRests` and `ClRests` say that the invariants of the one survive the
  budget the other uses up: their bounds grow with it.
* `RefusalsHaveReasons`: `Spec => []RefusedForAReason`. A transfer is called too small because of a copy
  of the sender's balance, and accepted because of another, read in another service at another time.
  `AcceptedSide` follows the first: only what was told a sufficient balance goes on, is published and
  arrives. `OriginalSide` is about the copies: while nothing fails, the balance of an account no transfer
  has changed is the same in the table, in Redis, in every handler that read it and in every POST that
  was told it. So if no other transfer had changed the account, the two copies would be equal, and the
  transfer not refused. Both were checked with TLC on the instance of `LoomiDrain` before they were
  proved.

  The proof also showed what "changed" has to mean (`HasMoved`): a transfer whose credit does not fit in
  the receiver's column is debited and then reported FAILED, and leaves no ledger entry although nothing
  failed. Another transfer may be refused because of it, with nothing in the ledger to explain why. The
  property names this case, and in `LoomiDrain` one of the receivers has no room left, so that it occurs.

**Only model-checked.** Liveness (`PublishedEndsSettled`), which is out of the prover's reach, as are
`ENABLED` and induction over data. Every other property of a passing run is a theorem.
The violated statements are of course TLC's only.

## 5. What is not modelled

* The audit log: an entity and an interface that nothing calls.
* Guards, DTO validation and Swagger: checks of one request in front of the handlers, without state.
* `GET /transactions/user/:id`: one uncached query, no effect. `delete` of the repositories: never
  called.
* Parsing, formatting and arithmetic of amounts and dates, and the value objects beyond the state
  machine of a transaction, the self-transfer check, credit and debit, and e-mail normalisation. No
  integer overflows: balances are `bigint` in the code, and the column's limit is `MaxCents`.
* In `TransferProcessing` an edit's e-mail lookup: it neither reads nor writes the balance or its
  cached copy (`UserProfiles` has it). In `LoomiBanking` edits, GETs of transactions and self
  transfers, which the parts have.
* The broker beyond queues that lose, repeat and reorder messages, and PostgreSQL beyond one
  statement at a time, with its unique indexes, foreign key and column range. A statement whose call
  fails is taken not to have been committed: a commit whose answer is lost is not modelled for the
  database (it is for publishes and for the questions of a POST to the clients service).

## 6. Plan

Done, in this order: `TransactionsService` with `IdempotentIntake`; its types, keys, statuses and
refinement proved; `TransferProcessing` and `UserProfiles`, both proved; `LoomiBanking`, composed of the
first two, with what it says of statuses, the ledger, keys and refusals, the refinement of
`TransferOutcomes`, and the theorems of its parts proved; `UserDirectory` and its refinement by
`UserProfiles`, proved.

What would come next: the composition of `UserProfiles` with `TransferProcessing`, whose writes of one
user meet in one row.
