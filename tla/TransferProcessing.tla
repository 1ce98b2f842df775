-------------------------- MODULE TransferProcessing --------------------------
(***************************************************************************)
(* The money side of the clients service (apps/clients): the consumer of   *)
(* "transaction.process" that moves a transfer's amount between two        *)
(* accounts and writes the ledger, and the HTTP handlers that read an      *)
(* account or write it back (GET /users/:id with banking details, PATCH    *)
(* /users/:id with banking details), over PostgreSQL, the Redis copy of    *)
(* each account and the broker.                                            *)
(*                                                                         *)
(* As in TransactionsService an action is one answered call with the code  *)
(* up to the next await, and the handlers, of which the broker starts as   *)
(* many as it has messages (no prefetch limit), interleave freely.         *)
(***************************************************************************)
EXTENDS Integers

CONSTANTS
  Users,       \* users, each with one account
  Transfers,   \* "transaction.process" messages
  Reads,       \* handlers that read an account
  Edits,       \* PATCH /users/:id with banking details
  Sender, Receiver, Amount,  \* of each transfer
  AccountOf,   \* the account of each read and edit
  Balance0,    \* the balance each account starts with
  MaxCents,    \* the largest balance a BIGINT column holds
  MaxFaults,   \* bound: calls that may fail
  MaxCrashes   \* bound: crashes of the service

Procs == Transfers \cup Reads \cup Edits

ASSUME ConstantsAssumption ==
  /\ Transfers \cap Reads = {} /\ Transfers \cap Edits = {} /\ Reads \cap Edits = {}
  /\ Sender \in [Transfers -> Users]
  /\ Receiver \in [Transfers -> Users]
  /\ \A t \in Transfers : Sender[t] # Receiver[t]
  /\ Amount \in [Transfers -> Nat \ {0}]
  /\ AccountOf \in [Reads \cup Edits -> Users]
  /\ MaxCents \in Nat
  /\ Balance0 \in [Users -> 0 .. MaxCents]
  /\ MaxFaults \in Nat
  /\ MaxCrashes \in Nat

VARIABLES
  bal,        \* table banking_details: the balance of each account
  net,        \* table ledger_entries: credits minus debits of each account
  debits, credits,      \* ledger entries of each transfer
  cache,      \* Redis user:banking:<id>: the balance in the cached copy
  successes, failures,  \* "transaction.completed" messages of each transfer
  pc, side,   \* per process: the call awaited, and for which account
  mem,        \* per process: the balance it has read of each account
  faults, crashes,
  exposed     \* history: the accounts whose handlers overlapped or failed

ledger == <<net, debits, credits>>
answers == <<successes, failures>>
vars == <<bal, net, debits, credits, cache, successes, failures, pc, side, mem,
          faults, crashes, exposed>>

-----------------------------------------------------------------------------
NoEntry == -1

Resting == {"init", "queued", "acked", "done", "failed", "lost"}
Labels == Resting \cup
  {"get", "db", "set", "write", "del", "ledgerDebit", "ledgerCredit",
   "pubSuccess", "pubShort", "pubFail", "ack"}

Active(p) == pc[p] \notin Resting
Writes(p) == p \in Transfers \cup Edits
Accounts(p) == IF p \in Transfers THEN {Sender[p], Receiver[p]} ELSE {AccountOf[p]}

\* The account p's present call is about.
At(p) == IF p \notin Transfers THEN AccountOf[p]
         ELSE IF side[p] = "sender" THEN Sender[p] ELSE Receiver[p]

Goto(p, l) == pc' = [pc EXCEPT ![p] = l]
Works == UNCHANGED faults
Fails == faults < MaxFaults /\ faults' = faults + 1

\* Between its first balance write and its second ledger entry a transfer's
\* accounts and ledger disagree.
HalfDone(p) ==
  \/ p \in Transfers /\ pc[p] \in {"del", "ledgerDebit", "ledgerCredit"}
  \/ pc[p] = "write" /\ side[p] = "receiver"

\* The use case catches everything and reports FAILED, without undoing what it
\* did; an HTTP handler answers 5xx.  (Faulty: it reports SUCCESS all the same;
\* it acks without a report.)
OnThrowSucceeds(p) == IF p \in Transfers THEN "pubSuccess" ELSE "failed"
OnThrowAcks(p) == IF p \in Transfers THEN "ack" ELSE "failed"
OnThrow(p) == IF p \in Transfers THEN "pubFail" ELSE "failed"

Throw(p) ==
  /\ Goto(p, OnThrow(p))
  /\ exposed' = IF HalfDone(p) THEN exposed \cup Accounts(p) ELSE exposed

Blank == [u \in Users |-> 0]

Init ==
  /\ bal = Balance0
  /\ net = [u \in Users |-> 0]
  /\ debits = [t \in Transfers |-> 0]
  /\ credits = [t \in Transfers |-> 0]
  /\ cache = [u \in Users |-> NoEntry]
  /\ successes = [t \in Transfers |-> 0]
  /\ failures = [t \in Transfers |-> 0]
  /\ pc = [p \in Procs |-> "init"]
  /\ side = [p \in Procs |-> "sender"]
  /\ mem = [p \in Procs |-> Blank]
  /\ faults = 0
  /\ crashes = 0
  /\ exposed = {}

-----------------------------------------------------------------------------
\* The transactions service publishes the transfer.
Arrive(t) ==
  /\ pc[t] = "init"
  /\ Goto(t, "queued")
  /\ UNCHANGED <<bal, ledger, cache, answers, side, mem, faults, crashes, exposed>>

\* A handler starts: a message is delivered, or delivered again, or an HTTP
\* request comes in.  Accounts another handler is at work on are exposed when
\* either of the two writes.
Begin(p) ==
  /\ pc[p] = IF p \in Transfers THEN "queued" ELSE "init"
  /\ Goto(p, "get")
  /\ side' = [side EXCEPT ![p] = "sender"]
  /\ mem' = [mem EXCEPT ![p] = Blank]
  /\ exposed' = exposed \cup
       {u \in Accounts(p) : \E q \in Procs \ {p} :
          Active(q) /\ u \in Accounts(q) /\ (Writes(p) \/ Writes(q))}
  /\ UNCHANGED <<bal, ledger, cache, answers, faults, crashes>>

-----------------------------------------------------------------------------
\* CachedUserRepository.findByIdWithBankingDetails.

\* The balance check.  (Faulty: it wants more than the amount.)
CoversStrict(p) == mem[p][Sender[p]] > Amount[p]
Covers(p) == mem[p][Sender[p]] >= Amount[p]

\* BankingDetails.debit makes the same check of its own and throws: where a
\* transfer that passed the first goes on.
Debited(p) == IF mem[p][Sender[p]] >= Amount[p] THEN "write" ELSE OnThrow(p)

\* The account at hand was read as balance n.  A transfer goes on to the
\* receiver's, and with both read checks that the sender's copy covers it.
Loaded(p, n) ==
  /\ mem' = [mem EXCEPT ![p][At(p)] = n]
  /\ Goto(p, IF p \in Reads THEN "done"
             ELSE IF p \in Edits THEN "write"
             ELSE IF side[p] = "sender" THEN "get"
             ELSE IF Covers(p) THEN Debited(p) ELSE "pubShort")
  /\ side' = [side EXCEPT ![p] =
       IF p \in Transfers /\ @ = "sender" THEN "receiver" ELSE "sender"]

\* A failed cache.get is logged and answered null: a miss.
CacheGet(p) ==
  /\ pc[p] = "get"
  /\ \/ Works /\ cache[At(p)] # NoEntry /\ Loaded(p, cache[At(p)])
     \/ /\ (Works /\ cache[At(p)] = NoEntry) \/ Fails
        /\ Goto(p, "db")
        /\ UNCHANGED <<side, mem>>
  /\ UNCHANGED <<bal, ledger, cache, answers, crashes, exposed>>

DbRead(p) ==
  /\ pc[p] = "db"
  /\ \/ /\ Works
        /\ mem' = [mem EXCEPT ![p][At(p)] = bal[At(p)]]
        /\ Goto(p, "set")
        /\ UNCHANGED exposed
     \/ Fails /\ Throw(p) /\ UNCHANGED mem
  /\ UNCHANGED <<bal, ledger, cache, answers, side, crashes>>

\* cacheUser: a failure of either of its writes leaves this key unset and is
\* swallowed.
CacheSet(p) ==
  /\ pc[p] = "set"
  /\ \/ Works /\ cache' = [cache EXCEPT ![At(p)] = mem[p][At(p)]]
     \/ Fails /\ UNCHANGED cache
  /\ Loaded(p, mem[p][At(p)])
  /\ UNCHANGED <<bal, ledger, answers, crashes, exposed>>

-----------------------------------------------------------------------------
\* CachedUserRepository.updateFinancials.  The row is written with the balance
\* computed from the copy, not decremented; an edit writes back what it read.
\* (Faulty: the credit is added to the sender's copy.)
NewBalanceMixed(p) ==
  IF p \in Edits THEN mem[p][At(p)]
  ELSE IF side[p] = "sender" THEN mem[p][At(p)] - Amount[p]
  ELSE mem[p][Sender[p]] + Amount[p]

NewBalance(p) ==
  IF p \in Edits THEN mem[p][At(p)]
  ELSE IF side[p] = "sender" THEN mem[p][At(p)] - Amount[p]
  ELSE mem[p][At(p)] + Amount[p]

\* The column holds the balance; the database refuses one that it does not.
\* (Faulty: whatever is computed is stored.)
FitsAlways(p) == TRUE
Fits(p) == NewBalance(p) <= MaxCents

DbWrite(p) ==
  /\ pc[p] = "write"
  /\ \/ /\ Works
        /\ Fits(p)
        /\ bal' = [bal EXCEPT ![At(p)] = NewBalance(p)]
        /\ Goto(p, "del")
        /\ UNCHANGED exposed
     \/ (Works /\ ~Fits(p)) /\ Throw(p) /\ UNCHANGED bal
     \/ Fails /\ Throw(p) /\ UNCHANGED bal
  /\ UNCHANGED <<ledger, cache, answers, side, mem, crashes>>

\* invalidateUserCache: a failed delete is swallowed and leaves a stale copy.
\* Then a transfer goes on to credit the receiver, or to the ledger.
\* (Faulty: nothing is invalidated.)
InvalidatedNone(p) == {}
Invalidated(p) == {At(p)}

CacheDel(p) ==
  /\ pc[p] = "del"
  /\ \/ /\ Works
        /\ cache' = [u \in Users |-> IF u \in Invalidated(p) THEN NoEntry ELSE cache[u]]
        /\ UNCHANGED exposed
     \/ Fails /\ exposed' = exposed \cup {At(p)} /\ UNCHANGED cache
  /\ Goto(p, IF p \in Edits THEN "done"
             ELSE IF side[p] = "sender" THEN "write" ELSE "ledgerDebit")
  /\ side' = [side EXCEPT ![p] = IF p \in Transfers THEN "receiver" ELSE @]
  /\ UNCHANGED <<bal, ledger, answers, mem, crashes>>

-----------------------------------------------------------------------------
\* PostgresLedgerEntryRepository.create: an entry of t, of amount n, on u's account.
Enter(entries, t, u, n) ==
  /\ entries' = [entries EXCEPT ![t] = @ + 1]
  /\ net' = [net EXCEPT ![u] = @ + n]

LedgerDebit(t) ==
  /\ pc[t] = "ledgerDebit"
  /\ \/ /\ Works
        /\ Enter(debits, t, Sender[t], - Amount[t])
        /\ Goto(t, "ledgerCredit")
        /\ UNCHANGED exposed
     \/ Fails /\ Throw(t) /\ UNCHANGED <<debits, net>>
  /\ UNCHANGED <<bal, credits, cache, answers, side, mem, crashes>>

LedgerCredit(t) ==
  /\ pc[t] = "ledgerCredit"
  /\ \/ /\ Works
        /\ Enter(credits, t, Receiver[t], Amount[t])
        /\ Goto(t, "pubSuccess")
        /\ UNCHANGED exposed
     \/ Fails /\ Throw(t) /\ UNCHANGED <<credits, net>>
  /\ UNCHANGED <<bal, debits, cache, answers, side, mem, crashes>>

-----------------------------------------------------------------------------
\* After a report the message is acked.  (Faulty: the report of FAILED is in a
\* finally, after whatever was reported before.)
AfterReportFinally(t) == IF pc[t] = "pubFail" THEN "ack" ELSE "pubFail"
AfterReport(t) == "ack"

\* A report is published on queue q; a publish that returns an error, after
\* which t goes on at l, may have reached the broker.
Publish(t, q, l) ==
  \/ Works /\ q' = [q EXCEPT ![t] = @ + 1] /\ Goto(t, AfterReport(t))
  \/ Fails /\ (\E n \in {0, 1} : q' = [q EXCEPT ![t] = @ + n]) /\ Goto(t, l)

\* The first two reports are inside the try; the last is its catch, and when it
\* throws the controller nacks the message, which is delivered again.
PublishSuccess(t) ==
  /\ pc[t] = "pubSuccess"
  /\ Publish(t, successes, "pubFail")
  /\ UNCHANGED <<bal, ledger, cache, failures, side, mem, crashes, exposed>>

PublishShort(t) ==
  /\ pc[t] = "pubShort"
  /\ Publish(t, failures, "pubFail")
  /\ UNCHANGED <<bal, ledger, cache, successes, side, mem, crashes, exposed>>

PublishFailure(t) ==
  /\ pc[t] = "pubFail"
  /\ Publish(t, failures, "queued")
  /\ UNCHANGED <<bal, ledger, cache, successes, side, mem, crashes, exposed>>

Ack(t) ==
  /\ pc[t] = "ack"
  /\ Goto(t, "acked")
  /\ UNCHANGED <<bal, ledger, cache, answers, side, mem, faults, crashes, exposed>>

-----------------------------------------------------------------------------
\* The service dies: HTTP callers get no answer, unacked messages are requeued.
Crash ==
  /\ crashes < MaxCrashes
  /\ crashes' = crashes + 1
  /\ pc' = [p \in Procs |-> IF ~Active(p) THEN pc[p]
                            ELSE IF p \in Transfers THEN "queued" ELSE "lost"]
  /\ mem' = [p \in Procs |-> Blank]
  /\ side' = [p \in Procs |-> "sender"]
  /\ exposed' = exposed \cup
       {u \in Users : \E t \in Transfers : HalfDone(t) /\ u \in Accounts(t)}
  /\ UNCHANGED <<bal, ledger, cache, answers, faults>>

\* A key's time to live ends, or Redis evicts it.
Expire(u) ==
  /\ cache[u] # NoEntry
  /\ cache' = [cache EXCEPT ![u] = NoEntry]
  /\ UNCHANGED <<bal, ledger, answers, pc, side, mem, faults, crashes, exposed>>

AccountStep(p) ==
  \/ CacheGet(p) \/ DbRead(p) \/ CacheSet(p) \/ DbWrite(p) \/ CacheDel(p)

TransferStep(t) ==
  \/ LedgerDebit(t) \/ LedgerCredit(t)
  \/ PublishSuccess(t) \/ PublishShort(t) \/ PublishFailure(t) \/ Ack(t)

Next ==
  \/ \E t \in Transfers : Arrive(t)
  \/ \E p \in Procs : Begin(p)
  \/ \E p \in Procs : AccountStep(p)
  \/ \E t \in Transfers : TransferStep(t)
  \/ Crash
  \/ \E u \in Users : Expire(u)

Spec == Init /\ [][Next]_vars

\* Every call is answered in the end and the broker delivers queued messages.
Fairness ==
  /\ \A p \in Procs : WF_vars(AccountStep(p))
  /\ \A t \in Transfers : WF_vars(Begin(t)) /\ WF_vars(TransferStep(t))

FairSpec == Spec /\ Fairness
-----------------------------------------------------------------------------
\* Only writers write, and the debit a transfer is about to write is covered by
\* the copy it will be computed from.
Local(p) ==
  /\ pc[p] \in {"write", "del"} => Writes(p)
  /\ p \in Transfers /\ pc[p] = "write" /\ side[p] = "sender" =>
       mem[p][Sender[p]] >= Amount[p]

TableTypes ==
  /\ bal \in [Users -> 0 .. MaxCents]
  /\ net \in [Users -> Int]
  /\ debits \in [Transfers -> Nat]
  /\ credits \in [Transfers -> Nat]
  /\ cache \in [Users -> (0 .. MaxCents) \cup {NoEntry}]
  /\ successes \in [Transfers -> Nat]
  /\ failures \in [Transfers -> Nat]

HandlerTypes ==
  /\ pc \in [Procs -> Labels]
  /\ side \in [Procs -> {"sender", "receiver"}]
  /\ mem \in [Procs -> [Users -> 0 .. MaxCents]]

Budgets == faults \in 0 .. MaxFaults /\ crashes \in 0 .. MaxCrashes

\* Every variable has its type, and every balance, stored, cached or in a
\* handler's hand, is one a BIGINT column holds and no account overdrawn:
\* however handlers overlap, fail and start again, the debit's check is made on
\* the copy the debit is computed from, and an overflowing credit is refused.
TypeOK ==
  TableTypes /\ HandlerTypes /\ Budgets /\ exposed \subseteq Users /\ \A p \in Procs : Local(p)

\* A transfer is reported a SUCCESS no more often than it has credit entries in
\* the ledger, and has no credit entry without a debit entry.
LedgerBeforeSuccess ==
  \A t \in Transfers : successes[t] <= credits[t] /\ credits[t] <= debits[t]

\* A message leaves the queue only after its outcome was reported.
AckedMeansAnswered ==
  \A t \in Transfers : pc[t] = "acked" => successes[t] + failures[t] > 0

\* A transfer is debited, or answered, again only after a failed call or a
\* crash, one more time for each of them: nothing else redelivers a message,
\* sends a second report, or makes one report contradict another.
RepeatedOnlyByFailure ==
  \A t \in Transfers :
    /\ debits[t] <= 1 + faults + crashes
    /\ successes[t] + failures[t] <= 1 + faults + crashes

\* No handler is at work on the account.
Quiet(u) == \A p \in Procs : Active(p) => u \notin Accounts(p)

\* An account no two handlers ever overlapped on (one of them writing), and
\* none failed half way, has the balance its ledger explains, and Redis holds
\* that balance or nothing: reads through the cache, invalidations, evictions,
\* redeliveries, and reports lost on the way out do not break it.
QuietAccountMatchesLedger ==
  \A u \in Users : u \notin exposed /\ Quiet(u) =>
    /\ bal[u] = Balance0[u] + net[u]
    /\ cache[u] \in {NoEntry, bal[u]}

\* A transfer between two such accounts takes its amount from what the sender
\* really has.
UnexposedDebitIsExact ==
  [][\A t \in Transfers :
       pc[t] = "write" /\ pc'[t] = "del" /\ Accounts(t) \cap exposed = {} =>
         bal'[At(t)] = bal[At(t)] + (IF side[t] = "sender" THEN - Amount[t] ELSE Amount[t])]_vars

-----------------------------------------------------------------------------
\* The inductive invariants behind the theorems of TransferProofs.

Troubles == faults + crashes

\* Each attempt at a transfer enters one debit, then one credit, and makes one
\* report; a new attempt starts only when something went wrong in the last, and
\* so does a second report in one attempt.
Attempted(t) ==
  /\ successes[t] <= credits[t] /\ credits[t] <= debits[t]
  /\ pc[t] = "pubSuccess" => successes[t] < credits[t]
  /\ pc[t] = "ledgerCredit" => credits[t] < debits[t]
  /\ debits[t] <= 1 + Troubles
  /\ pc[t] \notin {"ledgerCredit", "pubSuccess", "pubFail", "ack", "acked"} =>
       debits[t] <= Troubles
  /\ successes[t] + failures[t] <= 1 + Troubles
  /\ pc[t] \notin {"ack", "acked"} => successes[t] + failures[t] <= Troubles
  /\ pc[t] \in {"ack", "acked"} => successes[t] + failures[t] > 0

\* Ledger entries and reports agree, transfer by transfer.
LedgerInvariant == \A t \in Transfers : Attempted(t)

\* What t, if it is a transfer, has moved on u's balance and not yet entered.
Pending(t, u) ==
  IF t \notin Transfers THEN 0
  ELSE IF u = Sender[t] /\ (pc[t] \in {"del", "ledgerDebit"}
                            \/ (pc[t] = "write" /\ side[t] = "receiver"))
  THEN - Amount[t]
  ELSE IF u = Receiver[t] /\ (pc[t] \in {"ledgerDebit", "ledgerCredit"}
                              \/ (pc[t] = "del" /\ side[t] = "receiver"))
  THEN Amount[t]
  ELSE 0

\* p has read u's balance and will still use what it has read.
Holds(p, u) ==
  /\ u \in Accounts(p)
  /\ \/ pc[p] = "set" /\ At(p) = u
     \/ pc[p] = "write" /\ (side[p] = "sender" \/ At(p) = u)
     \/ p \in Transfers /\ Sender[p] = u /\ pc[p] \in {"get", "db", "set"} /\ side[p] = "receiver"
     \/ p \in Transfers /\ Receiver[p] = u /\ pc[p] = "del" /\ side[p] = "sender"

\* p is at work on u.
AtWork(p, u) == Active(p) /\ u \in Accounts(p)

\* Nobody else is at work on what a handler writes; balances, ledger, cached
\* copies and the copies in handlers' hands agree, up to the entries a transfer
\* at work has still to make and the copy it has still to delete.
Undisturbed(u) ==
  /\ \A p, q \in Procs : p # q /\ AtWork(p, u) /\ AtWork(q, u) => ~Writes(p)
  /\ (\A t \in Transfers : ~AtWork(t, u)) => bal[u] = Balance0[u] + net[u]
  /\ \A t \in Transfers : AtWork(t, u) => bal[u] = Balance0[u] + net[u] + Pending(t, u)
  /\ cache[u] \in {NoEntry, bal[u]} \/ \E t \in Transfers : pc[t] = "del" /\ At(t) = u
  /\ \A p \in Procs : Holds(p, u) => mem[p][u] = bal[u]

\* Unexposed accounts are undisturbed.
AccountsInvariant == \A u \in Users \ exposed : Undisturbed(u)

-----------------------------------------------------------------------------
\* Statements of the repository that this code does not keep.

\* "fonte da verdade" financeira (saldo via ledger) (README.md:33): once
\* every handler has ended, the ledger explains every balance.
LedgerExplainsBalance ==
  (\A p \in Procs : pc[p] \in Resting \ {"queued"}) =>
    \A u \in Users : bal[u] = Balance0[u] + net[u]

\* "Validate balance again (may have changed)"
\* (process-transaction.use-case.ts:53): a debited account had the amount.
DebitIsCovered ==
  [][\A t \in Transfers :
       pc[t] = "write" /\ pc'[t] = "del" /\ side[t] = "sender" =>
         bal[Sender[t]] >= Amount[t]]_vars
=============================================================================
