---------------------------- MODULE TransferProofs ----------------------------
(***************************************************************************)
(* Theorems about TransferProcessing, for every set of users, transfers,   *)
(* reads and edits, every amount and starting balance, and any number of   *)
(* failed calls and crashes.                                               *)
(***************************************************************************)
EXTENDS TransferProcessing, TLAPS

USE ConstantsAssumption DEF ConstantsAssumption, NoEntry

-----------------------------------------------------------------------------
\* Type correctness.

\* The account a handler is at is one of its accounts, and a user's.
LEMMA AtAccount ==
  ASSUME HandlerTypes, NEW p \in Procs
  PROVE  At(p) \in Users /\ At(p) \in Accounts(p) /\ Accounts(p) \subseteq Users
BY DEF HandlerTypes, At, Accounts, Procs

LEMMA TypeInit == Init => TypeOK
  BY DEF Init, TypeOK, TableTypes, HandlerTypes, Budgets, Local, Procs, Labels, Resting, Blank

\* One handler of another kind, or at another call, disturbs no other.
LEMMA LocalFrame ==
  ASSUME TypeOK, NEW p \in Procs,
         \A q \in Procs \ {p} : pc'[q] = pc[q] /\ side'[q] = side[q] /\ mem'[q] = mem[q],
         Local(p)'
  PROVE  \A q \in Procs : Local(q)'
<1> SUFFICES ASSUME NEW q \in Procs \ {p}
             PROVE  Local(q)'
  OBVIOUS
<1> QED
  BY DEF TypeOK, Local, Writes

\* With an account read, and the balance check made when both are.
LEMMA TypeLoaded ==
  ASSUME TypeOK, NEW p \in Procs, NEW n \in 0 .. MaxCents, Loaded(p, n)
  PROVE  HandlerTypes' /\ \A q \in Procs : Local(q)'
<1> USE DEF TypeOK, HandlerTypes, Loaded, Debited, Covers, Goto
<1>1. At(p) \in Users
  BY AtAccount
<1>2. mem' \in [Procs -> [Users -> 0 .. MaxCents]]
  BY <1>1
<1>3. pc' \in [Procs -> Labels]
  BY DEF Labels, Resting
<1>4. side' \in [Procs -> {"sender", "receiver"}]
  OBVIOUS
<1>5. ASSUME p \in Transfers, pc'[p] = "write"
      PROVE  mem'[p][Sender[p]] >= Amount[p]
  <2>1. side[p] = "receiver" /\ Covers(p)
    BY <1>5 DEF Procs
  <2>2. Sender[p] # At(p)
    BY <2>1, <1>5 DEF At
  <2>3. mem'[p][Sender[p]] = mem[p][Sender[p]]
    BY <1>1, <2>2, <1>5
  <2> QED
    BY <2>1, <2>3 DEF Covers
<1>6. Local(p)'
  BY <1>5 DEF Local, Writes, Procs
<1> QED
  BY <1>2, <1>3, <1>4, <1>6, LocalFrame

\* With an exception caught, or passed on as an HTTP error.
LEMMA TypeGoto ==
  ASSUME TypeOK, NEW p \in Procs, NEW l \in Labels, Goto(p, l), UNCHANGED <<side, mem>>,
         l = "del" => Writes(p), l # "write"
  PROVE  HandlerTypes' /\ \A q \in Procs : Local(q)'
<1>1. HandlerTypes'
  BY DEF TypeOK, HandlerTypes, Goto
<1>2. Local(p)'
  BY DEF TypeOK, HandlerTypes, Goto, Local, Writes
<1> QED
  BY <1>1, <1>2, LocalFrame DEF TypeOK, HandlerTypes, Goto

\* A balance computed from a covered copy, or checked by the database.
LEMMA NewBalanceFits ==
  ASSUME TypeOK, NEW p \in Procs, pc[p] = "write", Fits(p)
  PROVE  NewBalance(p) \in 0 .. MaxCents
<1>1. mem[p][At(p)] \in 0 .. MaxCents
  BY AtAccount DEF TypeOK, HandlerTypes
<1>2. CASE p \in Edits
  BY <1>1, <1>2 DEF NewBalance, Fits
<1>3. CASE p \notin Edits
  <2>1. p \in Transfers /\ Amount[p] \in Nat
    BY <1>3 DEF TypeOK, Local, Writes
  <2>2. side[p] = "sender" => mem[p][At(p)] >= Amount[p]
    BY <2>1 DEF TypeOK, Local, At
  <2> QED
    BY <1>1, <1>3, <2>1, <2>2 DEF NewBalance, Fits
<1> QED
  BY <1>2, <1>3

LEMMA TypeAccount ==
  ASSUME TypeOK, NEW p \in Procs, AccountStep(p)
  PROVE  TypeOK'
<1> USE DEF TypeOK, TableTypes, Budgets, Works, Fails, ledger, answers
<1>1. At(p) \in Users /\ Accounts(p) \subseteq Users
  BY AtAccount
<1>2. CASE CacheGet(p)
  <2>1. CASE Loaded(p, cache[At(p)]) /\ cache[At(p)] # NoEntry
    <3>1. cache[At(p)] \in 0 .. MaxCents
      BY <1>1, <2>1
    <3> QED
      BY <1>2, <2>1, <3>1, TypeLoaded DEF CacheGet
  <2>2. CASE Goto(p, "db") /\ UNCHANGED <<side, mem>>
    BY <1>2, <2>2, TypeGoto DEF CacheGet, Labels
  <2> QED
    BY <1>2, <2>1, <2>2 DEF CacheGet
<1>3. CASE DbRead(p)
  <2>1. CASE Goto(p, "set") /\ mem' = [mem EXCEPT ![p][At(p)] = bal[At(p)]]
             /\ UNCHANGED exposed
    <3>1. HandlerTypes'
      BY <1>1, <1>3, <2>1 DEF HandlerTypes, DbRead, Goto, Labels
    <3>2. Local(p)'
      BY <2>1 DEF Local, Goto, HandlerTypes
    <3>3. \A q \in Procs : Local(q)'
      BY <1>3, <2>1, <3>2, LocalFrame DEF DbRead, Goto, HandlerTypes
    <3> QED
      BY <1>3, <2>1, <3>1, <3>3 DEF DbRead
  <2>2. CASE Throw(p) /\ UNCHANGED mem
    <3>1. HandlerTypes' /\ \A q \in Procs : Local(q)'
      BY <1>3, <2>2, TypeGoto DEF DbRead, Throw, OnThrow, Labels, Resting
    <3> QED
      BY <1>1, <1>3, <2>2, <3>1 DEF DbRead, Throw
  <2> QED
    BY <1>3, <2>1, <2>2 DEF DbRead
<1>4. CASE CacheSet(p)
  <2>1. mem[p][At(p)] \in 0 .. MaxCents
    BY <1>1 DEF HandlerTypes
  <2>2. HandlerTypes' /\ \A q \in Procs : Local(q)'
    BY <1>4, <2>1, TypeLoaded DEF CacheSet
  <2> QED
    BY <1>1, <1>4, <2>1, <2>2 DEF CacheSet
<1>5. CASE DbWrite(p)
  <2>1. CASE Fits(p) /\ bal' = [bal EXCEPT ![At(p)] = NewBalance(p)]
             /\ Goto(p, "del") /\ UNCHANGED exposed
    <3>1. HandlerTypes' /\ \A q \in Procs : Local(q)'
      BY <1>5, <2>1, TypeGoto DEF DbWrite, Labels, Local
    <3>2. bal' \in [Users -> 0 .. MaxCents]
      BY <1>1, <1>5, <2>1, NewBalanceFits DEF DbWrite
    <3> QED
      BY <1>5, <2>1, <3>1, <3>2 DEF DbWrite
  <2>2. CASE Throw(p) /\ UNCHANGED bal
    <3>1. HandlerTypes' /\ \A q \in Procs : Local(q)'
      BY <1>5, <2>2, TypeGoto DEF DbWrite, Throw, OnThrow, Labels, Resting
    <3> QED
      BY <1>1, <1>5, <2>2, <3>1 DEF DbWrite, Throw
  <2> QED
    BY <1>5, <2>1, <2>2 DEF DbWrite
<1>6. CASE CacheDel(p)
  <2>1. HandlerTypes'
    BY <1>6 DEF CacheDel, HandlerTypes, Goto, Labels, Resting
  <2>2. Local(p)'
    BY <1>6 DEF CacheDel, HandlerTypes, Goto, Local, Writes
  <2>3. \A q \in Procs : Local(q)'
    BY <1>6, <2>2, LocalFrame DEF CacheDel, HandlerTypes, Goto
  <2> QED
    BY <1>1, <1>6, <2>1, <2>3 DEF CacheDel
<1> QED
  BY <1>2, <1>3, <1>4, <1>5, <1>6 DEF AccountStep

LEMMA TypeTransfer ==
  ASSUME TypeOK, NEW t \in Transfers, TransferStep(t)
  PROVE  TypeOK'
<1> USE DEF TypeOK, TableTypes, Budgets, Works, Fails, ledger, answers
<1>1. t \in Procs /\ Accounts(t) \subseteq Users
  BY AtAccount DEF Procs
<1>2. \E l \in Labels : Goto(t, l) /\ l \notin {"write", "del"}
  BY DEF TransferStep, LedgerDebit, LedgerCredit, PublishSuccess, PublishShort, PublishFailure, Ack,
         Publish, Throw, OnThrow, AfterReport, Labels, Resting
<1>3. UNCHANGED <<side, mem, bal, cache>>
  BY DEF TransferStep, LedgerDebit, LedgerCredit, PublishSuccess, PublishShort, PublishFailure, Ack
<1>4. HandlerTypes' /\ \A q \in Procs : Local(q)'
  BY <1>1, <1>2, <1>3, TypeGoto
<1>5. CASE LedgerDebit(t)
  BY <1>1, <1>3, <1>4, <1>5 DEF LedgerDebit, Enter, Throw
<1>6. CASE LedgerCredit(t)
  BY <1>1, <1>3, <1>4, <1>6 DEF LedgerCredit, Enter, Throw
<1>7. CASE PublishSuccess(t)
  BY <1>3, <1>4, <1>7 DEF PublishSuccess, Publish
<1>8. CASE PublishShort(t)
  BY <1>3, <1>4, <1>8 DEF PublishShort, Publish
<1>9. CASE PublishFailure(t)
  BY <1>3, <1>4, <1>9 DEF PublishFailure, Publish
<1>10. CASE Ack(t)
  BY <1>3, <1>4, <1>10 DEF Ack
<1> QED
  BY <1>5, <1>6, <1>7, <1>8, <1>9, <1>10 DEF TransferStep

LEMMA TypeStep == TypeOK /\ [Next]_vars => TypeOK'
<1> SUFFICES ASSUME TypeOK, [Next]_vars
             PROVE  TypeOK'
  OBVIOUS
<1> USE DEF TypeOK, TableTypes, Budgets, ledger, answers
<1>1. CASE UNCHANGED vars
  BY <1>1 DEF vars, HandlerTypes, Local
<1>2. ASSUME NEW t \in Transfers, Arrive(t)
      PROVE  TypeOK'
  <2>1. HandlerTypes' /\ \A q \in Procs : Local(q)'
    BY <1>2, TypeGoto DEF Arrive, Procs, Labels, Resting
  <2> QED
    BY <1>2, <2>1 DEF Arrive
<1>3. ASSUME NEW p \in Procs, Begin(p)
      PROVE  TypeOK'
  <2>1. HandlerTypes'
    BY <1>3 DEF Begin, HandlerTypes, Goto, Labels, Blank
  <2>2. Local(p)'
    BY <1>3 DEF Begin, HandlerTypes, Goto, Local
  <2>3. \A q \in Procs : Local(q)'
    BY <1>3, <2>2, LocalFrame DEF Begin, HandlerTypes, Goto
  <2> QED
    BY <1>3, <2>1, <2>3, AtAccount DEF Begin
<1>4. ASSUME Crash
      PROVE  TypeOK'
  BY <1>4 DEF Crash, HandlerTypes, Local, Active, Resting, Labels, Blank
<1>5. ASSUME NEW u \in Users, Expire(u)
      PROVE  TypeOK'
  BY <1>5 DEF Expire, HandlerTypes, Local
<1> QED
  BY <1>1, <1>2, <1>3, <1>4, <1>5, TypeAccount, TypeTransfer DEF Next

\* No balance, stored, cached or in a handler's hand, ever leaves its range, and
\* no handler writes what the balance check has not passed.
THEOREM TypeCorrect == Spec => []TypeOK
<1>1. Init => TypeOK
  BY TypeInit
<1>2. TypeOK /\ [Next]_vars => TypeOK'
  BY TypeStep
<1> QED
  BY <1>1, <1>2, PTL DEF Spec

-----------------------------------------------------------------------------
\* Reports and ledger entries.

LEMMA LedgerInit == Init => LedgerInvariant
  BY DEF Init, LedgerInvariant, Attempted, Troubles, Procs

\* A step that goes wrong no less often than before and keeps the entries and
\* reports of t, and its call, keeps what is said of t.
LEMMA AttemptFrame ==
  ASSUME TypeOK, NEW t \in Transfers, Attempted(t), Troubles' \in Int, Troubles <= Troubles',
         debits'[t] = debits[t], credits'[t] = credits[t],
         successes'[t] = successes[t], failures'[t] = failures[t],
         \/ pc'[t] = pc[t]
         \/ /\ pc[t] \notin {"pubSuccess", "pubFail", "ledgerCredit", "ack", "acked"}
            /\ pc'[t] \notin {"pubSuccess", "ledgerCredit", "ack", "acked"}
         \/ Troubles < Troubles' /\ pc[t] \notin {"ack", "acked"} /\ pc'[t] \in {"pubFail", "queued"}
         \/ Troubles < Troubles' /\ pc'[t] = "queued"
  PROVE  Attempted(t)'
BY DEF TypeOK, TableTypes, Budgets, Attempted, Troubles

LEMMA SumsGrow ==
  ASSUME NEW a \in Nat, NEW b \in Nat, NEW c \in Nat, NEW d \in Nat, a <= c, b <= d
  PROVE  a + b \in Nat /\ c + d \in Nat /\ a + b <= c + d
OBVIOUS

LEMMA TroublesGrow ==
  ASSUME TypeOK, [Next]_vars
  PROVE  Troubles' \in Nat /\ Troubles \in Nat /\ Troubles <= Troubles'
<1>1. TypeOK'
  BY TypeStep
<1>2. faults <= faults' /\ crashes <= crashes'
  BY DEF Next, vars, Arrive, Begin, AccountStep, TransferStep, Crash, Expire, CacheGet, DbRead, CacheSet,
         DbWrite, CacheDel, LedgerDebit, LedgerCredit, PublishSuccess, PublishShort, PublishFailure,
         Publish, Ack, Works, Fails, TypeOK, Budgets
<1>3. faults \in Nat /\ crashes \in Nat
  BY DEF TypeOK, Budgets
<1>4. faults' \in Nat /\ crashes' \in Nat
  BY <1>1 DEF TypeOK, Budgets
<1> QED
  BY <1>2, <1>3, <1>4, SumsGrow DEF Troubles

\* Nothing an attempt does before its ledger entries matters to them.
LEMMA LedgerAccount ==
  ASSUME TypeOK, LedgerInvariant, NEW p \in Procs, AccountStep(p)
  PROVE  LedgerInvariant'
<1> SUFFICES ASSUME NEW t \in Transfers
             PROVE  Attempted(t)'
  BY DEF LedgerInvariant
<1>1. Troubles' \in Int /\ Troubles <= Troubles'
  BY TroublesGrow DEF Next
<1>2. UNCHANGED <<debits, credits, successes, failures>>
  BY DEF AccountStep, CacheGet, DbRead, CacheSet, DbWrite, CacheDel, ledger, answers
<1>3. \/ pc'[t] = pc[t]
      \/ /\ pc[t] \notin {"pubSuccess", "pubFail", "ledgerCredit", "ack", "acked"}
         /\ pc'[t] \notin {"pubSuccess", "ledgerCredit", "ack", "acked"}
  BY DEF AccountStep, CacheGet, DbRead, CacheSet, DbWrite, CacheDel, Loaded, Debited, Covers, Goto, Throw, OnThrow,
         TypeOK, HandlerTypes, Procs
<1> QED
  BY <1>1, <1>2, <1>3, AttemptFrame DEF LedgerInvariant

LEMMA LedgerTransfer ==
  ASSUME TypeOK, LedgerInvariant, NEW t \in Transfers, TransferStep(t)
  PROVE  LedgerInvariant'
<1> USE DEF TypeOK, TableTypes, HandlerTypes, Budgets, ledger, answers, Goto
<1>1. Troubles' \in Int /\ Troubles \in Int /\ Troubles <= Troubles' /\ t \in Procs
  BY TroublesGrow DEF Next, Procs
<1>2. \A u \in Transfers \ {t} : Attempted(u)'
  <2> SUFFICES ASSUME NEW u \in Transfers \ {t}
               PROVE  Attempted(u)'
    OBVIOUS
  <2>1. pc'[u] = pc[u] /\ debits'[u] = debits[u] /\ credits'[u] = credits[u]
        /\ successes'[u] = successes[u] /\ failures'[u] = failures[u]
    BY DEF TransferStep, LedgerDebit, LedgerCredit, PublishSuccess, PublishShort, PublishFailure, Ack,
           Publish, Enter, Throw, Procs
  <2> QED
    BY <1>1, <2>1, AttemptFrame DEF LedgerInvariant
<1>3. Attempted(t)
  BY DEF LedgerInvariant
<1>4. Attempted(t)'
  <2> USE DEF Works, Fails, Troubles
  <2>1. CASE LedgerDebit(t)
    BY <1>1, <1>3, <2>1 DEF Attempted, LedgerDebit, Enter, Throw, OnThrow
  <2>2. CASE LedgerCredit(t)
    BY <1>1, <1>3, <2>2 DEF Attempted, LedgerCredit, Enter, Throw, OnThrow
  <2>3. CASE PublishSuccess(t)
    BY <1>1, <1>3, <2>3 DEF Attempted, PublishSuccess, Publish, AfterReport
  <2>4. CASE PublishShort(t)
    BY <1>1, <1>3, <2>4 DEF Attempted, PublishShort, Publish, AfterReport
  <2>5. CASE PublishFailure(t)
    BY <1>1, <1>3, <2>5 DEF Attempted, PublishFailure, Publish, AfterReport
  <2>6. CASE Ack(t)
    BY <1>1, <1>3, <2>6 DEF Attempted, Ack
  <2> QED
    BY <2>1, <2>2, <2>3, <2>4, <2>5, <2>6 DEF TransferStep
<1> QED
  BY <1>2, <1>4 DEF LedgerInvariant

LEMMA LedgerStep == TypeOK /\ LedgerInvariant /\ [Next]_vars => LedgerInvariant'
<1> SUFFICES ASSUME TypeOK, LedgerInvariant, [Next]_vars
             PROVE  LedgerInvariant'
  OBVIOUS
<1>1. Troubles' \in Int /\ Troubles <= Troubles'
  BY TroublesGrow
<1>2. CASE UNCHANGED vars
  BY <1>1, <1>2, AttemptFrame DEF LedgerInvariant, vars
<1>3. ASSUME NEW p \in Transfers, Arrive(p)
      PROVE  LedgerInvariant'
  BY <1>1, <1>3, AttemptFrame DEF LedgerInvariant, Arrive, Goto, ledger, answers, TypeOK, HandlerTypes, Procs
<1>4. ASSUME NEW p \in Procs, Begin(p)
      PROVE  LedgerInvariant'
  BY <1>1, <1>4, AttemptFrame DEF LedgerInvariant, Begin, Goto, ledger, answers, TypeOK, HandlerTypes, Procs
<1>5. ASSUME Crash
      PROVE  LedgerInvariant'
  <2>1. Troubles < Troubles'
    BY <1>5 DEF Crash, Troubles, TypeOK, Budgets
  <2>2. \A t \in Transfers : pc'[t] \in {pc[t], "queued"}
    BY <1>5 DEF Crash, Procs
  <2> QED
    BY <1>1, <1>5, <2>1, <2>2, AttemptFrame DEF LedgerInvariant, Crash, ledger, answers
<1>6. ASSUME NEW u \in Users, Expire(u)
      PROVE  LedgerInvariant'
  BY <1>1, <1>6, AttemptFrame DEF LedgerInvariant, Expire, ledger, answers
<1> QED
  BY <1>2, <1>3, <1>4, <1>5, <1>6, LedgerAccount, LedgerTransfer DEF Next

\* Attempt by attempt, entries and reports agree, and repeat only after trouble.
THEOREM LedgerCorrect == Spec => []LedgerInvariant
<1>1. Init => LedgerInvariant
  BY LedgerInit
<1>2. TypeOK /\ LedgerInvariant /\ [Next]_vars => LedgerInvariant'
  BY LedgerStep
<1> QED
  BY <1>1, <1>2, TypeCorrect, PTL DEF Spec

\* A SUCCESS is reported only of what the ledger holds.
THEOREM SuccessIsEntered == Spec => []LedgerBeforeSuccess
<1>1. LedgerInvariant => LedgerBeforeSuccess
  BY DEF LedgerInvariant, Attempted, LedgerBeforeSuccess
<1> QED
  BY <1>1, LedgerCorrect, PTL

\* No message leaves the queue before its outcome was reported.
THEOREM AcksAnswered == Spec => []AckedMeansAnswered
<1>1. LedgerInvariant => AckedMeansAnswered
  BY DEF LedgerInvariant, Attempted, AckedMeansAnswered
<1> QED
  BY <1>1, LedgerCorrect, PTL

\* Entries and reports are repeated at most once per failed call or crash.
LEMMA RepeatsAgree == TypeOK /\ LedgerInvariant => RepeatedOnlyByFailure
BY DEF LedgerInvariant, Attempted, Troubles, RepeatedOnlyByFailure, TypeOK, TableTypes, Budgets

\* No other step redelivers a message or repeats a report.
THEOREM RepeatsOnlyOnFailure == Spec => []RepeatedOnlyByFailure
BY RepeatsAgree, TypeCorrect, LedgerCorrect, PTL

-----------------------------------------------------------------------------
\* Balances, cached copies and the ledger.

\* What Undisturbed says of an account whose only handler is p.
Alone(p, u) ==
  /\ bal[u] = Balance0[u] + net[u] + Pending(p, u)
  /\ cache[u] \in {NoEntry, bal[u]} \/ (p \in Transfers /\ pc[p] = "del" /\ At(p) = u)
  /\ Holds(p, u) => mem[p][u] = bal[u]

LEMMA AccountsInit == Init => AccountsInvariant
<1> SUFFICES ASSUME Init, NEW u \in Users
             PROVE  Undisturbed(u)
  BY DEF AccountsInvariant
<1>1. \A p \in Procs : ~AtWork(p, u) /\ ~Holds(p, u) /\ pc[p] # "del"
  BY DEF Init, AtWork, Active, Resting, Holds
<1>2. bal[u] = Balance0[u] + net[u] /\ cache[u] = NoEntry
  BY DEF Init
<1> QED
  BY <1>1, <1>2 DEF Undisturbed, Procs

\* Who holds a copy, has a balance to settle, or a cached copy to delete is at work.
LEMMA HoldersWork ==
  ASSUME HandlerTypes, NEW q \in Procs, NEW u \in Users
  PROVE  /\ Holds(q, u) => AtWork(q, u)
         /\ Pending(q, u) # 0 => AtWork(q, u)
         /\ pc[q] = "del" /\ At(q) = u => AtWork(q, u)
<1>1. At(q) \in Accounts(q)
  BY AtAccount
<1> QED
  BY <1>1 DEF Holds, Pending, AtWork, Active, Resting, Accounts

LEMMA AloneHave ==
  ASSUME HandlerTypes, NEW u \in Users, Undisturbed(u), NEW p \in Procs, AtWork(p, u), Writes(p),
         Balance0[u] + net[u] \in Int
  PROVE  Alone(p, u) /\ \A q \in Procs \ {p} : ~AtWork(q, u)
<1>1. \A q \in Procs \ {p} : ~AtWork(q, u)
  BY DEF Undisturbed
<1>2. Transfers \subseteq Procs
  BY DEF Procs
<1>3. bal[u] = Balance0[u] + net[u] + Pending(p, u)
  <2>1. CASE p \in Transfers
    BY <2>1 DEF Undisturbed
  <2>2. CASE p \notin Transfers
    <3>1. bal[u] = Balance0[u] + net[u]
      BY <1>1, <1>2, <2>2 DEF Undisturbed
    <3> QED
      BY <2>2, <3>1 DEF Pending
  <2> QED
    BY <2>1, <2>2
<1>4. cache[u] \in {NoEntry, bal[u]} \/ (p \in Transfers /\ pc[p] = "del" /\ At(p) = u)
  BY <1>1, <1>2, HoldersWork DEF Undisturbed
<1> QED
  BY <1>1, <1>3, <1>4 DEF Undisturbed, Alone

LEMMA AloneGive ==
  ASSUME NEW u \in Users, NEW p \in Procs, Alone(p, u)', \A q \in Procs \ {p} : ~AtWork(q, u)',
         (Balance0[u] + net[u])' \in Int
  PROVE  Undisturbed(u)'
<1>1. Transfers \subseteq Procs
  BY DEF Procs
<1>2. \A q \in Procs \ {p} : ~Holds(q, u)'
  BY DEF Holds, AtWork, Active, Resting
<1>3. (\A t \in Transfers : ~AtWork(t, u)') => Pending(p, u)' = 0
  BY DEF Pending, AtWork, Active, Resting, Accounts
<1>4. (\A t \in Transfers : ~AtWork(t, u)') => bal'[u] = Balance0[u] + net'[u]
  BY <1>3 DEF Alone
<1>5. \A t \in Transfers : AtWork(t, u)' => bal'[u] = Balance0[u] + net'[u] + Pending(t, u)'
  BY <1>1 DEF Alone
<1>6. cache'[u] \in {NoEntry, bal'[u]} \/ \E t \in Transfers : pc'[t] = "del" /\ At(t)' = u
  BY DEF Alone
<1>7. \A q \in Procs : Holds(q, u)' => mem'[q][u] = bal'[u]
  BY <1>2 DEF Alone
<1>8. \A q, r \in Procs : q # r /\ AtWork(q, u)' /\ AtWork(r, u)' => ~Writes(q)'
  OBVIOUS
<1> QED
  BY <1>4, <1>5, <1>6, <1>7, <1>8 DEF Undisturbed

\* A sum of an integer balance and an integer is one: the entries explain it.
LEMMA LedgerSum ==
  ASSUME TableTypes, NEW u \in Users
  PROVE  /\ Balance0[u] \in Int /\ net[u] \in Int /\ bal[u] \in Int
         /\ Balance0[u] + net[u] \in Int
BY DEF TableTypes

\* The account's only handler reads it.
LEMMA AloneLoaded ==
  ASSUME HandlerTypes, NEW p \in Transfers \cup Edits, NEW u \in Accounts(p), Alone(p, u),
         pc[p] \in {"get", "set"}, UNCHANGED <<bal, net>>, Loaded(p, bal[u]), At(p) = u,
         cache'[u] \in {NoEntry, bal[u]}
  PROVE  Alone(p, u)'
BY DEF HandlerTypes, Alone, Loaded, Debited, Covers, Goto, Holds, Pending, At, Accounts, Procs

\* Or it reads its other account.
LEMMA AloneOther ==
  ASSUME HandlerTypes, NEW p \in Transfers \cup Edits, NEW u \in Accounts(p), Alone(p, u),
         pc[p] \in {"get", "set"}, UNCHANGED <<bal, net>>, NEW n \in Int, Loaded(p, n), At(p) # u,
         cache'[u] = cache[u]
  PROVE  Alone(p, u)'
BY DEF HandlerTypes, Alone, Loaded, Debited, Covers, Goto, Holds, Pending, At, Accounts, Procs

\* An exception leaves nothing pending on an account it does not expose.
LEMMA AloneThrow ==
  ASSUME HandlerTypes, NEW p \in Transfers \cup Edits, NEW u \in Accounts(p), Alone(p, u),
         pc[p] # "del", Throw(p), UNCHANGED <<bal, net, cache, side, mem>>, u \notin exposed'
  PROVE  Alone(p, u)'
<1>1. ~HalfDone(p)
  BY DEF Throw
<1>2. Pending(p, u) = 0
  BY <1>1 DEF HalfDone, Pending
<1>3. Pending(p, u)' = 0 /\ ~Holds(p, u)'
  BY DEF Throw, OnThrow, Goto, Pending, Holds, HandlerTypes, Procs
<1>4. pc[p] # "del" /\ pc'[p] # "del"
  BY DEF Throw, OnThrow, Goto, HandlerTypes, Procs
<1> QED
  BY <1>2, <1>3, <1>4 DEF Alone

LEMMA AloneAccount ==
  ASSUME TypeOK, NEW p \in Transfers \cup Edits, NEW u \in Accounts(p), Alone(p, u),
         AccountStep(p), u \notin exposed'
  PROVE  Alone(p, u)'
<1> USE DEF TypeOK, ledger
<1>1. p \in Procs /\ u \in Users /\ At(p) \in Users
  BY AtAccount DEF Procs
<1>2. CASE CacheGet(p)
  <2>1. CASE Loaded(p, cache[At(p)]) /\ cache[At(p)] # NoEntry
    <3>1. At(p) = u => cache[u] = bal[u]
      BY <1>2, <2>1 DEF CacheGet, Alone
    <3>2. cache[At(p)] \in Int
      BY <1>1 DEF TableTypes
    <3>3. UNCHANGED <<bal, net, cache>> /\ pc[p] \in {"get", "set"}
      BY <1>2 DEF CacheGet
    <3>4. CASE At(p) = u
      BY <2>1, <3>1, <3>3, <3>4, AloneLoaded
    <3>5. CASE At(p) # u
      BY <2>1, <3>2, <3>3, <3>5, AloneOther
    <3> QED
      BY <3>4, <3>5
  <2>2. CASE Goto(p, "db") /\ UNCHANGED <<side, mem>>
    BY <1>1, <1>2, <2>2 DEF CacheGet, Goto, HandlerTypes, Alone, Holds, Pending, At
  <2> QED
    BY <1>2, <2>1, <2>2 DEF CacheGet
<1>3. CASE DbRead(p)
  <2>1. CASE Goto(p, "set") /\ mem' = [mem EXCEPT ![p][At(p)] = bal[At(p)]]
    BY <1>1, <1>3, <2>1 DEF DbRead, Goto, HandlerTypes, Alone, Holds, Pending, At, Accounts
  <2>2. CASE Throw(p) /\ UNCHANGED mem
    BY <1>3, <2>2, AloneThrow DEF DbRead
  <2> QED
    BY <1>3, <2>1, <2>2 DEF DbRead
<1>4. CASE CacheSet(p)
  <2>1. mem[p][At(p)] \in Int
    BY <1>1 DEF HandlerTypes
  <2>2. UNCHANGED <<bal, net>> /\ pc[p] \in {"get", "set"} /\ Loaded(p, mem[p][At(p)])
    BY <1>4 DEF CacheSet
  <2>3. CASE At(p) = u
    <3>1. mem[p][u] = bal[u]
      BY <1>4, <2>3 DEF CacheSet, Alone, Holds
    <3>2. cache[u] \in {NoEntry, bal[u]}
      BY <1>4 DEF CacheSet, Alone
    <3>3. cache'[u] \in {NoEntry, bal[u]}
      BY <1>1, <1>4, <2>3, <3>1, <3>2 DEF CacheSet, TableTypes
    <3> QED
      BY <2>2, <2>3, <3>1, <3>3, AloneLoaded
  <2>4. CASE At(p) # u
    <3>1. cache'[u] = cache[u]
      BY <1>1, <1>4, <2>4 DEF CacheSet, TableTypes
    <3> QED
      BY <2>1, <2>2, <2>4, <3>1, AloneOther
  <2> QED
    BY <2>3, <2>4
<1>5. CASE DbWrite(p)
  <2>1. CASE bal' = [bal EXCEPT ![At(p)] = NewBalance(p)] /\ Goto(p, "del")
    <3>1. mem[p][u] = bal[u] \/ At(p) # u
      BY <1>5 DEF DbWrite, Alone, Holds
    <3>2. pc'[p] = "del" /\ side'[p] = side[p] /\ At(p)' = At(p)
          /\ UNCHANGED <<net, cache, mem>> /\ pc[p] = "write"
      BY <1>1, <1>5, <2>1 DEF DbWrite, Goto, HandlerTypes, At
    <3>3. Balance0[u] + net[u] \in Int /\ bal[u] \in Int
      BY <1>1, LedgerSum
    <3>4. bal'[u] = IF At(p) = u THEN NewBalance(p) ELSE bal[u]
      BY <1>1, <2>1 DEF TableTypes
    <3>5. CASE p \in Edits
      <4>1. p \notin Transfers /\ At(p) = u
        BY <3>5 DEF At, Accounts
      <4>2. bal'[u] = bal[u]
        BY <3>1, <3>4, <3>5, <4>1 DEF NewBalance
      <4>3. Pending(p, u) = 0 /\ Pending(p, u)' = 0 /\ ~Holds(p, u)'
        BY <3>2, <4>1 DEF Pending, Holds
      <4> QED
        BY <3>2, <4>1, <4>2, <4>3 DEF Alone
    <3>6. CASE p \in Transfers
      <4>1. p \notin Edits /\ Amount[p] \in Int /\ Sender[p] # Receiver[p]
            /\ side[p] \in {"sender", "receiver"}
        BY <1>1, <3>6 DEF HandlerTypes
      <4>2. bal'[u] = Balance0[u] + net[u] + Pending(p, u)'
        <5>1. CASE side[p] = "sender"
          BY <3>1, <3>2, <3>3, <3>4, <3>6, <4>1, <5>1 DEF Alone, Pending, NewBalance, At, Accounts
        <5>2. CASE side[p] = "receiver"
          BY <3>1, <3>2, <3>3, <3>4, <3>6, <4>1, <5>2 DEF Alone, Pending, NewBalance, At, Accounts
        <5> QED
          BY <4>1, <5>1, <5>2
      <4>3. cache'[u] \in {NoEntry, bal'[u]} \/ (pc'[p] = "del" /\ At(p)' = u)
        BY <3>2, <3>4 DEF Alone
      <4>4. Holds(p, u)' => mem'[p][u] = bal'[u]
        BY <3>1, <3>2, <3>4, <3>6, <4>1 DEF Alone, Holds, At, Accounts
      <4> QED
        BY <3>2, <3>6, <4>2, <4>3, <4>4 DEF Alone
    <3> QED
      BY <3>5, <3>6
  <2>2. CASE Throw(p) /\ UNCHANGED bal
    BY <1>5, <2>2, AloneThrow DEF DbWrite
  <2> QED
    BY <1>5, <2>1, <2>2 DEF DbWrite
<1>6. CASE CacheDel(p)
  <2>1. At(p) = u => cache'[u] = NoEntry
    BY <1>1, <1>6 DEF CacheDel, Invalidated
  <2>2. At(p) # u => cache'[u] = cache[u]
    BY <1>1, <1>6 DEF CacheDel, Invalidated, TableTypes
  <2>3. UNCHANGED <<bal, net, mem>> /\ pc[p] = "del"
    BY <1>6 DEF CacheDel
  <2>4. Pending(p, u)' = Pending(p, u)
    BY <1>1, <1>6 DEF CacheDel, Goto, HandlerTypes, Pending
  <2>5. Holds(p, u)' => Holds(p, u)
    BY <1>1, <1>6 DEF CacheDel, Goto, HandlerTypes, Holds, At, Accounts
  <2>6. cache'[u] \in {NoEntry, bal[u]}
    BY <2>1, <2>2 DEF Alone
  <2> QED
    BY <2>3, <2>4, <2>5, <2>6 DEF Alone
<1> QED
  BY <1>2, <1>3, <1>4, <1>5, <1>6 DEF AccountStep

LEMMA AloneTransfer ==
  ASSUME TypeOK, NEW t \in Transfers, NEW u \in Accounts(t), Alone(t, u),
         TransferStep(t), u \notin exposed'
  PROVE  Alone(t, u)'
<1> USE DEF TypeOK, ledger
<1>1. t \in Procs /\ u \in Users /\ Sender[t] \in Users /\ Receiver[t] \in Users
      /\ Sender[t] # Receiver[t] /\ Amount[t] \in Int
  BY AtAccount DEF Procs
<1>2. Balance0[u] \in Int /\ net[u] \in Int /\ bal[u] \in Int
  BY <1>1, LedgerSum
<1>3. CASE LedgerDebit(t)
  <2>1. CASE Enter(debits, t, Sender[t], - Amount[t]) /\ Goto(t, "ledgerCredit")
    <3>1. net'[u] = IF u = Sender[t] THEN net[u] - Amount[t] ELSE net[u]
      BY <1>1, <2>1 DEF Enter, TableTypes
    <3>2. pc[t] = "ledgerDebit" /\ pc'[t] = "ledgerCredit" /\ UNCHANGED <<bal, cache, side, mem>>
      BY <1>1, <1>3, <2>1 DEF LedgerDebit, Goto, HandlerTypes
    <3> QED
      BY <1>1, <1>2, <3>1, <3>2 DEF Alone, Pending, Holds
  <2>2. CASE Throw(t) /\ UNCHANGED <<debits, net>>
    BY <1>3, <2>2, AloneThrow DEF LedgerDebit
  <2> QED
    BY <1>3, <2>1, <2>2 DEF LedgerDebit
<1>4. CASE LedgerCredit(t)
  <2>1. CASE Enter(credits, t, Receiver[t], Amount[t]) /\ Goto(t, "pubSuccess")
    <3>1. net'[u] = IF u = Receiver[t] THEN net[u] + Amount[t] ELSE net[u]
      BY <1>1, <2>1 DEF Enter, TableTypes
    <3>2. pc[t] = "ledgerCredit" /\ pc'[t] = "pubSuccess" /\ UNCHANGED <<bal, cache, side, mem>>
      BY <1>1, <1>4, <2>1 DEF LedgerCredit, Goto, HandlerTypes
    <3> QED
      BY <1>1, <1>2, <3>1, <3>2 DEF Alone, Pending, Holds
  <2>2. CASE Throw(t) /\ UNCHANGED <<credits, net>>
    BY <1>4, <2>2, AloneThrow DEF LedgerCredit
  <2> QED
    BY <1>4, <2>1, <2>2 DEF LedgerCredit
<1>5. CASE PublishSuccess(t) \/ PublishShort(t) \/ PublishFailure(t) \/ Ack(t)
  <2>1. UNCHANGED <<bal, net, cache, side, mem>>
    BY <1>5 DEF PublishSuccess, PublishShort, PublishFailure, Ack
  <2>2. /\ pc[t] \in {"pubSuccess", "pubShort", "pubFail", "ack"}
        /\ pc'[t] \in {"pubFail", "queued", "ack", "acked"}
    BY <1>1, <1>5 DEF PublishSuccess, PublishShort, PublishFailure, Ack, Publish, AfterReport, Goto,
                     HandlerTypes
  <2> QED
    BY <2>1, <2>2 DEF Alone, Pending, Holds
<1> QED
  BY <1>3, <1>4, <1>5 DEF TransferStep

\* What the step of one handler leaves of every other.
Others(p) == \A q \in Procs \ {p} : pc'[q] = pc[q] /\ side'[q] = side[q] /\ mem'[q] = mem[q]

LEMMA OthersFrame ==
  ASSUME NEW p \in Procs, Others(p), NEW q \in Procs \ {p}, NEW u \in Users
  PROVE  /\ AtWork(q, u)' <=> AtWork(q, u)
         /\ Holds(q, u)' <=> Holds(q, u)
         /\ Pending(q, u)' = Pending(q, u)
         /\ At(q)' = At(q)
         /\ pc'[q] = pc[q] /\ mem'[q] = mem[q]
BY DEF Others, AtWork, Active, Resting, Holds, Pending, At, Accounts

\* A step of a handler on other accounts.
LEMMA OutsideFrame ==
  ASSUME HandlerTypes, HandlerTypes', NEW p \in Procs, Others(p), NEW u \in Users \ Accounts(p),
         Undisturbed(u), bal'[u] = bal[u], net'[u] = net[u], cache'[u] = cache[u]
  PROVE  Undisturbed(u)'
<1>1. ~AtWork(p, u) /\ ~AtWork(p, u)' /\ ~Holds(p, u) /\ ~Holds(p, u)'
  BY DEF AtWork, Holds, Accounts
<1>2. At(p) # u
  BY AtAccount
<1>3. \A q \in Procs : (AtWork(q, u)' <=> AtWork(q, u)) /\ (Holds(q, u)' <=> Holds(q, u))
  <2> SUFFICES ASSUME NEW q \in Procs
               PROVE  (AtWork(q, u)' <=> AtWork(q, u)) /\ (Holds(q, u)' <=> Holds(q, u))
    OBVIOUS
  <2>1. CASE q = p
    BY <1>1, <2>1
  <2>2. CASE q # p
    BY <2>2, OthersFrame
  <2> QED
    BY <2>1, <2>2
<1>4. \A t \in Transfers \ {p} : /\ Pending(t, u)' = Pending(t, u)
                                 /\ pc'[t] = pc[t] /\ At(t)' = At(t)
  BY OthersFrame DEF Procs
<1>5. \A q \in Procs \ {p} : mem'[q] = mem[q]
  BY OthersFrame
<1>6. \A q, r \in Procs : q # r /\ AtWork(q, u)' /\ AtWork(r, u)' => ~Writes(q)'
  BY <1>3 DEF Undisturbed, Writes
<1>7. (\A t \in Transfers : ~AtWork(t, u)') => bal'[u] = Balance0[u] + net'[u]
  BY <1>3 DEF Undisturbed, Procs
<1>8. \A t \in Transfers : AtWork(t, u)' => bal'[u] = Balance0[u] + net'[u] + Pending(t, u)'
  BY <1>1, <1>3, <1>4 DEF Undisturbed, Procs
<1>9. cache'[u] \in {NoEntry, bal'[u]} \/ \E t \in Transfers : pc'[t] = "del" /\ At(t)' = u
  BY <1>2, <1>4 DEF Undisturbed
<1>10. \A q \in Procs : Holds(q, u)' => mem'[q][u] = bal'[u]
  BY <1>1, <1>3, <1>5 DEF Undisturbed
<1> QED
  BY <1>6, <1>7, <1>8, <1>9, <1>10 DEF Undisturbed

\* A read at work on the account: nobody writes it.
LEMMA ReaderHave ==
  ASSUME HandlerTypes, NEW u \in Users, Undisturbed(u), NEW p \in Reads, AtWork(p, u)
  PROVE  /\ \A t \in Transfers : ~AtWork(t, u)
         /\ \A q \in Procs : AtWork(q, u) => ~Writes(q)
         /\ cache[u] \in {NoEntry, bal[u]}
         /\ bal[u] = Balance0[u] + net[u]
<1>1. p \in Procs /\ Transfers \subseteq Procs /\ p \notin Transfers /\ ~Writes(p)
  BY DEF Procs, Writes
<1>2. \A q \in Procs : AtWork(q, u) => ~Writes(q)
  BY <1>1 DEF Undisturbed
<1>3. \A t \in Transfers : ~AtWork(t, u)
  BY <1>1, <1>2 DEF Writes
<1> QED
  BY <1>1, <1>2, <1>3, HoldersWork DEF Undisturbed

LEMMA ReaderStep ==
  ASSUME TypeOK, TypeOK', NEW u \in Users, Undisturbed(u), NEW p \in Reads, Others(p), AtWork(p, u),
         AccountStep(p)
  PROVE  Undisturbed(u)'
<1> USE DEF TypeOK, ledger
<1>1. p \in Procs /\ At(p) = u /\ At(p)' = u /\ p \notin Transfers /\ p \notin Edits /\ ~Writes(p)
  BY DEF Procs, AtWork, Accounts, At, Writes
<1>2. UNCHANGED <<bal, net>>
  BY <1>1 DEF AccountStep, CacheGet, DbRead, CacheSet, DbWrite, CacheDel, Local
<1>3. cache[u] \in {NoEntry, bal[u]} /\ bal[u] = Balance0[u] + net[u]
  BY ReaderHave
<1>4. cache'[u] \in {NoEntry, bal[u]} /\ (Holds(p, u)' => mem'[p][u] = bal[u])
  <2>1. CASE CacheGet(p)
    BY <1>1, <1>3, <2>1 DEF CacheGet, Loaded, Debited, Covers, Goto, Holds, HandlerTypes
  <2>2. CASE DbRead(p)
    BY <1>1, <1>3, <2>2 DEF DbRead, Throw, OnThrow, Goto, Holds, HandlerTypes
  <2>3. CASE CacheSet(p)
    <3>1. mem[p][u] = bal[u]
      BY <1>1, <2>3 DEF CacheSet, Undisturbed, Holds, AtWork
    <3> QED
      BY <1>1, <1>3, <2>3, <3>1 DEF CacheSet, Loaded, Debited, Covers, Goto, Holds, HandlerTypes, TableTypes
  <2>4. CASE DbWrite(p) \/ CacheDel(p)
    BY <1>1, <2>4 DEF DbWrite, CacheDel, Local
  <2> QED
    BY <2>1, <2>2, <2>3, <2>4 DEF AccountStep
<1>5. \A q \in Procs : AtWork(q, u)' => AtWork(q, u)
  BY <1>1, OthersFrame
<1>6. \A q \in Procs \ {p} : (Holds(q, u)' <=> Holds(q, u)) /\ mem'[q] = mem[q]
  BY <1>1, OthersFrame
<1>7. \A t \in Transfers : ~AtWork(t, u)'
  BY <1>5, ReaderHave DEF Procs
<1>8. \A q \in Procs : AtWork(q, u)' => ~Writes(q)'
  BY <1>5, ReaderHave DEF Writes
<1>9. \A q \in Procs : Holds(q, u)' => mem'[q][u] = bal'[u]
  BY <1>2, <1>4, <1>6 DEF Undisturbed
<1> QED
  BY <1>2, <1>3, <1>4, <1>7, <1>8, <1>9 DEF Undisturbed

\* One handler's call, about an account it is at work on or not.
LEMMA AccountsHandler ==
  ASSUME TypeOK, TypeOK', AccountsInvariant, NEW p \in Procs, Others(p), exposed \subseteq exposed',
         \/ AccountStep(p)
         \/ p \in Transfers /\ TransferStep(p)
  PROVE  AccountsInvariant'
<1> USE DEF TypeOK
<1> SUFFICES ASSUME NEW u \in Users \ exposed'
             PROVE  Undisturbed(u)'
  BY DEF AccountsInvariant
<1>1. Undisturbed(u)
  BY DEF AccountsInvariant
<1>2. AtWork(p, u) <=> u \in Accounts(p)
  BY DEF AtWork, Active, Resting, AccountStep, TransferStep, CacheGet, DbRead, CacheSet, DbWrite,
         CacheDel, LedgerDebit, LedgerCredit, PublishSuccess, PublishShort, PublishFailure, Ack
<1>3. CASE u \notin Accounts(p)
  <2>1. At(p) # u
    BY <1>3, AtAccount
  <2>2. bal'[u] = bal[u] /\ net'[u] = net[u] /\ cache'[u] = cache[u]
    <3>1. CASE AccountStep(p)
      BY <2>1, <3>1 DEF AccountStep, CacheGet, DbRead, CacheSet, DbWrite, CacheDel, TableTypes,
                        Invalidated, ledger
    <3>2. CASE p \in Transfers /\ TransferStep(p)
      BY <1>3, <3>2 DEF TransferStep, LedgerDebit, LedgerCredit, PublishSuccess, PublishShort,
                        PublishFailure, Ack, Enter, TableTypes, Accounts, ledger
    <3> QED
      BY <3>1, <3>2
  <2> QED
    BY <1>1, <1>3, <2>2, OutsideFrame
<1>4. CASE u \in Accounts(p) /\ p \in Reads
  BY <1>1, <1>2, <1>4, ReaderStep
<1>5. CASE u \in Accounts(p) /\ p \in Transfers \cup Edits
  <2>1. Writes(p) /\ AtWork(p, u)
    BY <1>2, <1>5 DEF Writes
  <2>2. Balance0[u] + net[u] \in Int /\ (Balance0[u] + net[u])' \in Int
    BY LedgerSum DEF TableTypes
  <2>3. Alone(p, u) /\ \A q \in Procs \ {p} : ~AtWork(q, u)
    BY <1>1, <2>1, <2>2, AloneHave
  <2>4. Alone(p, u)'
    BY <1>5, <2>3, AloneAccount, AloneTransfer DEF Procs
  <2>5. \A q \in Procs \ {p} : ~AtWork(q, u)'
    BY <2>3, OthersFrame
  <2> QED
    BY <2>2, <2>4, <2>5, AloneGive
<1> QED
  BY <1>3, <1>4, <1>5 DEF Procs

LEMMA AccountsBegin ==
  ASSUME TypeOK, TypeOK', AccountsInvariant, NEW p \in Procs, Begin(p)
  PROVE  AccountsInvariant'
<1> USE DEF TypeOK
<1> SUFFICES ASSUME NEW u \in Users \ exposed'
             PROVE  Undisturbed(u)'
  BY DEF AccountsInvariant
<1>1. Undisturbed(u) /\ UNCHANGED <<bal, net, cache>> /\ Others(p)
  BY DEF AccountsInvariant, Begin, ledger, Others, Goto, HandlerTypes
<1>2. ~AtWork(p, u) /\ ~Holds(p, u)' /\ pc[p] # "del"
  BY DEF Begin, AtWork, Active, Resting, Holds, Goto, HandlerTypes, At, Accounts
<1>3. CASE u \notin Accounts(p)
  BY <1>1, <1>3, OutsideFrame
<1>4. CASE u \in Accounts(p)
  <2>1. \A q \in Procs \ {p} : AtWork(q, u) => ~Writes(p) /\ ~Writes(q)
    BY <1>4 DEF Begin, AtWork
  <2>2. \A t \in Transfers : ~AtWork(t, u)
    BY <1>2, <2>1 DEF Writes, Procs
  <2>3. cache[u] \in {NoEntry, bal[u]} /\ bal[u] = Balance0[u] + net[u]
    BY <1>1, <2>2, HoldersWork DEF Undisturbed, Procs
  <2>4. \A q, r \in Procs : q # r /\ AtWork(q, u)' /\ AtWork(r, u)' => ~Writes(q)'
    <3> SUFFICES ASSUME NEW q \in Procs, NEW r \in Procs, q # r, AtWork(q, u)', AtWork(r, u)'
                 PROVE  ~Writes(q)
      BY DEF Writes
    <3>1. CASE q = p
      BY <1>1, <2>1, <3>1, OthersFrame
    <3>2. CASE q # p
      BY <1>1, <2>1, <3>2, OthersFrame
    <3> QED
      BY <3>1, <3>2
  <2>5. \A t \in Transfers : AtWork(t, u)' => bal'[u] = Balance0[u] + net'[u] + Pending(t, u)'
    <3> SUFFICES ASSUME NEW t \in Transfers, AtWork(t, u)'
                 PROVE  bal'[u] = Balance0[u] + net'[u] + Pending(t, u)'
      OBVIOUS
    <3>1. t = p
      BY <1>1, <2>2, OthersFrame DEF Procs
    <3>2. Pending(t, u)' = 0
      BY <3>1 DEF Begin, Goto, HandlerTypes, Pending
    <3>3. Balance0[u] + net[u] \in Int
      BY LedgerSum
    <3> QED
      BY <1>1, <2>3, <3>2, <3>3
  <2>6. \A q \in Procs : Holds(q, u)' => mem'[q][u] = bal'[u]
    BY <1>1, <1>2, OthersFrame DEF Undisturbed
  <2> QED
    BY <1>1, <2>3, <2>4, <2>5, <2>6 DEF Undisturbed
<1> QED
  BY <1>3, <1>4

LEMMA AccountsCrash ==
  ASSUME TypeOK, AccountsInvariant, Crash
  PROVE  AccountsInvariant'
<1> USE DEF TypeOK
<1> SUFFICES ASSUME NEW u \in Users \ exposed'
             PROVE  Undisturbed(u)'
  BY DEF AccountsInvariant
<1>1. Undisturbed(u) /\ UNCHANGED <<bal, net, cache>>
  BY DEF AccountsInvariant, Crash, ledger
<1>2. \A t \in Transfers : u \in Accounts(t) => ~HalfDone(t)
  BY DEF Crash
<1>3. \A t \in Transfers : AtWork(t, u) => Pending(t, u) = 0
  BY <1>2 DEF AtWork, HalfDone, Pending
<1>4. Balance0[u] + net[u] \in Int
  BY LedgerSum
<1>5. bal[u] = Balance0[u] + net[u]
  BY <1>1, <1>3, <1>4 DEF Undisturbed
<1>6. \A t \in Transfers : ~(pc[t] = "del" /\ At(t) = u)
  BY <1>2, AtAccount DEF HalfDone, Procs
<1>7. cache[u] \in {NoEntry, bal[u]}
  BY <1>1, <1>6 DEF Undisturbed
<1>8. \A q \in Procs : pc'[q] \in Resting
  BY DEF Crash, Active, Resting
<1>9. \A q \in Procs : ~AtWork(q, u)' /\ ~Holds(q, u)'
  BY <1>8 DEF AtWork, Active, Holds, Resting
<1> QED
  BY <1>1, <1>5, <1>7, <1>9 DEF Undisturbed, Procs

LEMMA AccountsStep == TypeOK /\ AccountsInvariant /\ [Next]_vars => AccountsInvariant'
<1> SUFFICES ASSUME TypeOK, AccountsInvariant, [Next]_vars
             PROVE  AccountsInvariant'
  OBVIOUS
<1>1. TypeOK'
  BY TypeStep
<1>2. CASE UNCHANGED vars
  BY <1>2 DEF vars, AccountsInvariant, Undisturbed, AtWork, Active, Holds, Pending, At
<1>3. ASSUME NEW t \in Transfers, Arrive(t)
      PROVE  AccountsInvariant'
  <2> SUFFICES ASSUME NEW u \in Users \ exposed
               PROVE  Undisturbed(u)'
    BY <1>3 DEF AccountsInvariant, Arrive
  <2>1. Undisturbed(u)
    BY DEF AccountsInvariant
  <2>2. \A q \in Procs : /\ AtWork(q, u)' <=> AtWork(q, u)
                         /\ Holds(q, u)' <=> Holds(q, u)
                         /\ Pending(q, u)' = Pending(q, u)
                         /\ pc'[q] = "del" <=> pc[q] = "del"
                         /\ At(q)' = At(q)
    BY <1>3 DEF Arrive, Goto, TypeOK, HandlerTypes, AtWork, Active, Resting, Holds, Pending, At, Accounts
  <2>3. UNCHANGED <<bal, net, cache, mem>>
    BY <1>3 DEF Arrive, ledger
  <2>4. \A q, r \in Procs : q # r /\ AtWork(q, u)' /\ AtWork(r, u)' => ~Writes(q)'
    BY <2>1, <2>2 DEF Undisturbed, Writes
  <2>5. \A q \in Procs : Holds(q, u)' => mem'[q][u] = bal'[u]
    BY <2>1, <2>2, <2>3 DEF Undisturbed
  <2>6. cache'[u] \in {NoEntry, bal'[u]} \/ \E q \in Transfers : pc'[q] = "del" /\ At(q)' = u
    BY <2>1, <2>2, <2>3 DEF Undisturbed, Procs
  <2>7. /\ (\A q \in Transfers : ~AtWork(q, u)') => bal'[u] = Balance0[u] + net'[u]
        /\ \A q \in Transfers : AtWork(q, u)' => bal'[u] = Balance0[u] + net'[u] + Pending(q, u)'
    BY <2>1, <2>2, <2>3 DEF Undisturbed, Procs
  <2> QED
    BY <2>4, <2>5, <2>6, <2>7 DEF Undisturbed
<1>4. ASSUME NEW p \in Procs, AccountStep(p)
      PROVE  AccountsInvariant'
  <2>1. Others(p) /\ exposed \subseteq exposed'
    BY <1>4 DEF AccountStep, CacheGet, DbRead, CacheSet, DbWrite, CacheDel, Loaded, Debited, Covers, Goto, Throw,
                Others, TypeOK, HandlerTypes
  <2> QED
    BY <1>1, <1>4, <2>1, AccountsHandler
<1>5. ASSUME NEW t \in Transfers, TransferStep(t)
      PROVE  AccountsInvariant'
  <2>1. t \in Procs /\ Others(t) /\ exposed \subseteq exposed'
    BY <1>5 DEF TransferStep, LedgerDebit, LedgerCredit, PublishSuccess, PublishShort,
                PublishFailure, Ack, Publish, Goto, Throw, Others, TypeOK, HandlerTypes, Procs
  <2> QED
    BY <1>1, <1>5, <2>1, AccountsHandler
<1>6. ASSUME NEW u \in Users, Expire(u)
      PROVE  AccountsInvariant'
  <2> SUFFICES ASSUME NEW v \in Users \ exposed
               PROVE  Undisturbed(v)'
    BY <1>6 DEF AccountsInvariant, Expire
  <2>1. Undisturbed(v)
    BY DEF AccountsInvariant
  <2>2. cache'[v] \in {NoEntry, cache[v]}
    BY <1>6 DEF Expire, TypeOK, TableTypes
  <2> QED
    BY <1>6, <2>1, <2>2 DEF Expire, ledger, Undisturbed, AtWork, Active, Holds, Pending, At
<1> QED
  BY <1>1, <1>2, <1>3, <1>4, <1>5, <1>6, AccountsBegin, AccountsCrash DEF Next

\* Accounts never exposed stay undisturbed, whatever the others go through.
THEOREM AccountsCorrect == Spec => []AccountsInvariant
<1>1. Init => AccountsInvariant
  BY AccountsInit
<1>2. TypeOK /\ AccountsInvariant /\ [Next]_vars => AccountsInvariant'
  BY AccountsStep
<1> QED
  BY <1>1, <1>2, TypeCorrect, PTL DEF Spec

\* A quiet account no two handlers overlapped on, and none failed half way, has
\* the balance its ledger explains, and Redis holds that or nothing.
LEMMA QuietAgrees == TypeOK /\ AccountsInvariant => QuietAccountMatchesLedger
<1> SUFFICES ASSUME TypeOK, AccountsInvariant, NEW u \in Users \ exposed, Quiet(u)
             PROVE  /\ bal[u] = Balance0[u] + net[u]
                    /\ cache[u] \in {NoEntry, bal[u]}
  BY DEF QuietAccountMatchesLedger
<1>1. \A t \in Transfers : ~AtWork(t, u)
  BY DEF Quiet, AtWork, Procs
<1>2. \A t \in Transfers : ~(pc[t] = "del" /\ At(t) = u)
  BY <1>1, HoldersWork DEF TypeOK, Procs
<1> QED
  BY <1>1, <1>2 DEF AccountsInvariant, Undisturbed

\* Nothing but an overlap or a half-done transfer that fails sets an account and
\* its ledger apart.
THEOREM QuietAccountsAgree == Spec => []QuietAccountMatchesLedger
BY QuietAgrees, TypeCorrect, AccountsCorrect, PTL

\* What UnexposedDebitIsExact says of one step.
ExactStep ==
  \A t \in Transfers :
    pc[t] = "write" /\ pc'[t] = "del" /\ Accounts(t) \cap exposed = {} =>
      bal'[At(t)] = bal[At(t)] + (IF side[t] = "sender" THEN - Amount[t] ELSE Amount[t])

LEMMA ExactHere ==
  ASSUME TypeOK, AccountsInvariant, [Next]_vars
  PROVE  ExactStep
<1> USE DEF TypeOK, HandlerTypes
<1> SUFFICES ASSUME NEW t \in Transfers, pc[t] = "write", pc'[t] = "del",
                    Accounts(t) \cap exposed = {}
             PROVE  bal'[At(t)] = bal[At(t)] + (IF side[t] = "sender" THEN - Amount[t] ELSE Amount[t])
  BY DEF ExactStep
<1>1. t \in Procs /\ At(t) \in Users /\ At(t) \in Accounts(t) /\ t \notin Edits
  BY AtAccount DEF Procs
<1>2. DbWrite(t) /\ Goto(t, "del")
  BY <1>1 DEF Next, vars, Arrive, Begin, AccountStep, TransferStep, Crash, Expire, CacheGet, DbRead,
              CacheSet, Loaded, Debited, Covers, DbWrite, CacheDel, LedgerDebit, LedgerCredit, PublishSuccess,
              PublishShort, PublishFailure, Publish, AfterReport, Ack, Goto, Throw, OnThrow, Active,
              Procs
<1>3. bal' = [bal EXCEPT ![At(t)] = NewBalance(t)]
  BY <1>1, <1>2 DEF DbWrite, Throw, OnThrow, Goto
<1>4. bal'[At(t)] = NewBalance(t)
  BY <1>1, <1>3 DEF TableTypes
<1>5. mem[t][At(t)] = bal[At(t)]
  BY <1>1 DEF AccountsInvariant, Undisturbed, Holds
<1>6. Amount[t] \in Int /\ bal[At(t)] \in Int
  BY <1>1 DEF TableTypes
<1> QED
  BY <1>1, <1>4, <1>5, <1>6 DEF NewBalance

\* On such accounts a transfer's writes change the balances really there.
THEOREM DebitsAreExact == Spec => UnexposedDebitIsExact
<1>1. TypeOK /\ AccountsInvariant /\ [Next]_vars => [ExactStep]_vars
  BY ExactHere
<1>2. UnexposedDebitIsExact <=> [][ExactStep]_vars
  BY DEF UnexposedDebitIsExact, ExactStep
<1> QED
  BY <1>1, <1>2, TypeCorrect, AccountsCorrect, PTL DEF Spec

===============================================================================
