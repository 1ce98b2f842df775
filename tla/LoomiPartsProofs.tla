--------------------------- MODULE LoomiPartsProofs ---------------------------
(***************************************************************************)
(* What is proved of each service alone, carried over to both together,    *)
(* and why a transfer is refused.  The theorems of the parts are cited     *)
(* through the instances TxP and ClP of their modules: a step of both       *)
(* services is a step of one of them, or of neither.                       *)
(***************************************************************************)
EXTENDS LoomiBanking, TLAPS

\* The parts with their invariants and proofs, over the variables of both: no
\* GETs or self transfers in the one, no edits in the other.
TxP == INSTANCE TransactionsStatusProofs
         WITH Gets <- {}, SelfTransfers <- {}, pc <- txPc
ClP == INSTANCE TransferProofs
         WITH Transfers <- Requests, Edits <- {}, pc <- clPc

\* What the parts assume of their constants follows from what both assume.
LEMMA TxConstants == TxP!ConstantsAssumption
BY ConstantsAssumption DEF ConstantsAssumption, TxP!ConstantsAssumption

LEMMA ClConstants == ClP!ConstantsAssumption
<1>1. AccountOf \in [Reads -> Users]
  BY ConstantsAssumption DEF ConstantsAssumption, AccountOf, Reads
<1> QED
  BY <1>1, ConstantsAssumption DEF ConstantsAssumption, ClP!ConstantsAssumption

-----------------------------------------------------------------------------
\* A step of both services is a step of a part.

\* Tx and TxP, and Cl and ClP, are one specification over the same variables: an
\* action of the one, defined as in the other, is an action of the other.
LEMMA TxFind ==
  ASSUME NEW p, Tx!FindStep(p)
  PROVE  TxP!FindStep(p)
BY DEF Tx!FindStep, TxP!FindStep, Tx!GetIdem, TxP!GetIdem, Tx!DbByIdem, TxP!DbByIdem,
   Tx!SetIdemFound, TxP!SetIdemFound, Tx!GetTx, TxP!GetTx, Tx!DbById, TxP!DbById,
   Tx!SetTx, TxP!SetTx, Tx!SetIdem, TxP!SetIdem, Tx!store, TxP!store, Tx!cache, TxP!cache,
   Tx!bus, TxP!bus, Tx!memo, TxP!memo, Tx!Goto, TxP!Goto, Tx!Works, TxP!Works, Tx!Fails,
   TxP!Fails, Tx!Found, TxP!Found, Tx!AfterFound, TxP!AfterFound, Tx!IsPending,
   TxP!IsPending, Tx!CanTransitionTo, TxP!CanTransitionTo, Tx!Final, TxP!Final,
   Tx!Missing, TxP!Missing, Tx!AfterMissing, TxP!AfterMissing, Tx!OnThrow, TxP!OnThrow,
   Tx!Throw, TxP!Throw

LEMMA TxRequest ==
  ASSUME NEW p,
     Tx!DbCreate(p) \/ Tx!LogCreated(p) \/ Tx!Publish(p) \/ Tx!AskSender(p) \/ Tx!AskReceiver(p)
  PROVE  TxP!RequestStep(p)
BY DEF TxP!RequestStep, Tx!DbCreate, TxP!DbCreate, Tx!LogCreated, TxP!LogCreated,
   Tx!Publish, TxP!Publish, Tx!AskSender, TxP!AskSender, Tx!AskReceiver, TxP!AskReceiver,
   Tx!store, TxP!store, Tx!cache, TxP!cache, Tx!bus, TxP!bus, Tx!memo, TxP!memo, Tx!Goto,
   TxP!Goto, Tx!Works, TxP!Works, Tx!Fails, TxP!Fails, Tx!OnThrow, TxP!OnThrow, Tx!Throw,
   TxP!Throw, Tx!KeyTaken, TxP!KeyTaken, Tx!Stored, TxP!Stored, Tx!Logged, TxP!Logged,
   Tx!Constructs, TxP!Constructs

LEMMA TxDelivery ==
  ASSUME NEW d, Tx!DeliveryStep(d)
  PROVE  TxP!DeliveryStep(d)
BY DEF Tx!DeliveryStep, TxP!DeliveryStep, Tx!Deliver, TxP!Deliver, Tx!LogUpdated,
   TxP!LogUpdated, Tx!DbUpdate, TxP!DbUpdate, Tx!DelTx, TxP!DelTx, Tx!DelIdem,
   TxP!DelIdem, Tx!Ack, TxP!Ack, Tx!store, TxP!store, Tx!cache, TxP!cache, Tx!bus,
   TxP!bus, Tx!memo, TxP!memo, Tx!Goto, TxP!Goto, Tx!Works, TxP!Works, Tx!Fails,
   TxP!Fails, Tx!OnThrow, TxP!OnThrow, Tx!Throw, TxP!Throw, Tx!Logged, TxP!Logged

LEMMA TxEnv ==
  ASSUME \/ \E p \in Requests : Tx!Post(p)
         \/ Tx!Crash
         \/ Tx!Expire
         \/ \E d \in Deliveries, t \in Requests, s \in Tx!Final : Tx!Send(d, t, s)
  PROVE  TxP!Environment
BY DEF TxP!Environment, Tx!Post, TxP!Post, Tx!Crash, TxP!Crash, Tx!Expire, TxP!Expire,
   Tx!Send, TxP!Send, Tx!Final, TxP!Final, Tx!store, TxP!store, Tx!cache, TxP!cache,
   Tx!bus, TxP!bus, Tx!memo, TxP!memo, Tx!Goto, TxP!Goto, Tx!Resting, TxP!Resting,
   Tx!Ended, TxP!Ended, Tx!Procs, TxP!Procs

LEMMA ClAccount ==
  ASSUME NEW p, Cl!AccountStep(p)
  PROVE  ClP!AccountStep(p)
BY DEF Cl!AccountStep, ClP!AccountStep, Cl!CacheGet, ClP!CacheGet, Cl!DbRead, ClP!DbRead,
   Cl!CacheSet, ClP!CacheSet, Cl!DbWrite, ClP!DbWrite, Cl!CacheDel, ClP!CacheDel,
   Cl!ledger, ClP!ledger, Cl!answers, ClP!answers, Cl!Goto, ClP!Goto, Cl!Works, ClP!Works,
   Cl!Fails, ClP!Fails, Cl!Throw, ClP!Throw, Cl!OnThrow, ClP!OnThrow, Cl!HalfDone,
   ClP!HalfDone, Cl!Accounts, ClP!Accounts, Cl!At, ClP!At, Cl!Loaded, ClP!Loaded,
   Cl!Debited, ClP!Debited, Cl!Fits, ClP!Fits, Cl!Covers, ClP!Covers, Cl!NewBalance, ClP!NewBalance, Cl!Invalidated, ClP!Invalidated,
   Cl!NoEntry, ClP!NoEntry

LEMMA ClTransfer ==
  ASSUME NEW t, Cl!TransferStep(t)
  PROVE  ClP!TransferStep(t)
BY DEF Cl!TransferStep, ClP!TransferStep, Cl!LedgerDebit, ClP!LedgerDebit,
   Cl!LedgerCredit, ClP!LedgerCredit, Cl!PublishSuccess, ClP!PublishSuccess,
   Cl!PublishShort, ClP!PublishShort, Cl!PublishFailure, ClP!PublishFailure, Cl!Ack,
   ClP!Ack, Cl!Publish, ClP!Publish, Cl!AfterReport, ClP!AfterReport, Cl!Enter, ClP!Enter,
   Cl!ledger, ClP!ledger, Cl!answers, ClP!answers, Cl!Goto, ClP!Goto, Cl!Works, ClP!Works,
   Cl!Fails, ClP!Fails, Cl!Throw, ClP!Throw, Cl!OnThrow, ClP!OnThrow, Cl!HalfDone,
   ClP!HalfDone, Cl!Accounts, ClP!Accounts

LEMMA ClRest ==
  ASSUME \/ \E t \in Requests : Cl!Arrive(t)
         \/ \E p \in Requests \cup Reads : Cl!Begin(p)
         \/ Cl!Crash
         \/ \E u \in Users : Cl!Expire(u)
  PROVE  ClP!Next
BY DEF ClP!Next, Cl!Arrive, ClP!Arrive, Cl!Begin, ClP!Begin, Cl!Crash, ClP!Crash,
   Cl!Expire, ClP!Expire, Cl!ledger, ClP!ledger, Cl!answers, ClP!answers, Cl!Goto,
   ClP!Goto, Cl!Blank, ClP!Blank, Cl!Active, ClP!Active, Cl!Resting, ClP!Resting,
   Cl!Accounts, ClP!Accounts, Cl!Writes, ClP!Writes, Cl!HalfDone, ClP!HalfDone,
   Cl!NoEntry, ClP!NoEntry, Cl!Procs, ClP!Procs

\* Each step is one of the transactions service, which leaves the clients service
\* as it was, or the reverse, or of the broker, which leaves both.
LEMMA Moves ==
  ASSUME [Next]_vars
  PROVE  \/ TxP!Next /\ UNCHANGED clVars
         \/ ClP!Next /\ UNCHANGED txVars
         \/ UNCHANGED <<txVars, clVars, faults, crashes>>
<1>1. CASE \E p \in Requests \cup Deliveries : TxStep(p)
  BY <1>1, TxFind, TxRequest, TxDelivery DEF TxStep, TxP!Next, TxP!Procs
<1>2. CASE TxEnvironment
  BY <1>2, TxEnv DEF TxEnvironment, TxP!Next
<1>3. CASE \E p \in Requests \cup Reads : ClStep(p)
  BY <1>3, ClAccount, ClTransfer DEF ClStep, ClP!Next, ClP!Procs
<1>4. CASE ClEnvironment
  BY <1>4, ClRest DEF ClEnvironment
<1>5. CASE \E p \in Requests : PostStep(p)
  BY <1>5, TxRequest, ClRest DEF PostStep, AnswerSender, AnswerReceiver, Ask, TxP!Next
<1>6. CASE \E t \in Requests : Arrive(t) \/ Deliver(t)
  BY <1>6, ClRest DEF Arrive, Deliver
<1>7. CASE \E d \in Deliveries, t \in Requests, s \in Tx!Final : Report(d, t, s)
  BY <1>7, TxEnv DEF Report, TxP!Next
<1>8. CASE (\E m \in Requests \cup Deliveries : Lose(m)) \/ UNCHANGED vars
  BY <1>8 DEF Lose, vars
<1> QED
  BY <1>1, <1>2, <1>3, <1>4, <1>5, <1>6, <1>7, <1>8 DEF Next

-----------------------------------------------------------------------------
\* The invariants of the parts.

\* What is proved inductive of each part alone.
TxSide == TxP!TypeOK /\ TxP!KeysInvariant /\ TxP!StatusInvariant
ClSide == ClP!TypeOK /\ ClP!LedgerInvariant /\ ClP!AccountsInvariant

\* A step of a part preserves its invariants, by its own proof.
LEMMA TxWorks ==
  ASSUME TxSide, TxP!Next
  PROVE  TxSide'
BY TxConstants, TxP!TypeStep, TxP!KeysStep, TxP!StatusStep DEF TxSide

LEMMA ClWorks ==
  ASSUME ClSide, ClP!Next
  PROVE  ClSide'
BY ClConstants, ClP!TypeStep, ClP!LedgerStep, ClP!AccountsStep DEF ClSide

\* A step of the other part uses up some of the budgets they share: the types and
\* every count bounded by failures and crashes allow for that.
LEMMA TxRests ==
  ASSUME TxSide, UNCHANGED txVars, ClP!Budgets'
  PROVE  TxSide'
<1> USE DEF txVars
<1>1. TxP!TypeOK'
  <2>1. TxP!TableTypes' /\ TxP!HandlerTypes'
    BY DEF TxSide, TxP!TypeOK, TxP!TableTypes, TxP!HandlerTypes
  <2>2. TxP!Budgets'
    BY DEF TxP!Budgets, ClP!Budgets
  <2>3. ASSUME NEW p \in TxP!Procs PROVE TxP!Local(p)'
    BY DEF TxSide, TxP!TypeOK, TxP!Local, TxP!HoldsTx, TxP!HoldsRead
  <2> QED
    BY <2>1, <2>2, <2>3 DEF TxP!TypeOK
<1>2. TxP!KeysInvariant'
  <2>1. TxP!KeysTables'
    BY DEF TxSide, TxP!KeysInvariant, TxP!KeysTables, TxP!IdemCacheSound, TxP!Announced
  <2>2. ASSUME NEW p \in TxP!Procs PROVE TxP!KeysLocal(p)'
    BY DEF TxSide, TxP!KeysInvariant, TxP!KeysLocal, TxP!Announced
  <2> QED
    BY <2>1, <2>2 DEF TxP!KeysInvariant
<1>3. TxP!StatusInvariant'
  <2>1. TxP!StatusTables'
    BY DEF TxSide, TxP!StatusInvariant, TxP!StatusTables, TxP!CacheNotAhead, TxP!LogLegal,
       TxP!FinalStatusLogged
  <2>2. ASSUME NEW p \in TxP!Procs PROVE TxP!StatusLocal(p)'
    BY DEF TxSide, TxP!StatusInvariant, TxP!StatusLocal
  <2> QED
    BY <2>1, <2>2 DEF TxP!StatusInvariant
<1> QED
  BY <1>1, <1>2, <1>3 DEF TxSide

\* A step of the transactions service uses up at most one failure and one crash.
LEMMA TxBudgets ==
  ASSUME TxP!TypeOK, TxP!Next
  PROVE  /\ faults \in Nat /\ crashes \in Nat
         /\ faults' \in {faults, faults + 1} /\ crashes' \in {crashes, crashes + 1}
<1>1. faults \in Nat /\ crashes \in Nat
  BY TxConstants DEF TxP!TypeOK, TxP!Budgets, TxP!ConstantsAssumption
<1> QED
  BY <1>1 DEF TxP!Next, TxP!FindStep, TxP!GetIdem, TxP!DbByIdem, TxP!SetIdemFound,
     TxP!GetTx, TxP!DbById, TxP!SetTx, TxP!SetIdem, TxP!RequestStep, TxP!DbCreate,
     TxP!LogCreated, TxP!Publish, TxP!AskSender, TxP!AskReceiver, TxP!DeliveryStep,
     TxP!Deliver, TxP!LogUpdated, TxP!DbUpdate, TxP!DelTx, TxP!DelIdem, TxP!Ack,
     TxP!Environment, TxP!Post, TxP!GetById, TxP!Send, TxP!Crash, TxP!Expire, TxP!Works,
     TxP!Fails

\* Failures and crashes are only ever added to, which bounds grow with.
LEMMA SumsGrow ==
  ASSUME NEW a \in Nat, NEW b \in Nat, NEW c \in {a, a + 1}, NEW d \in {b, b + 1}
  PROVE  c + d \in Nat /\ a + b <= c + d
OBVIOUS

LEMMA MoreTrouble ==
  ASSUME faults \in Nat, crashes \in Nat,
         faults' \in {faults, faults + 1}, crashes' \in {crashes, crashes + 1}
  PROVE  ClP!Troubles' \in Nat /\ ClP!Troubles <= ClP!Troubles'
BY SumsGrow DEF ClP!Troubles

\* A step of the transactions service preserves what the clients service keeps.
LEMMA ClRests ==
  ASSUME ClSide, UNCHANGED clVars, TxP!Budgets',
         faults \in Nat, crashes \in Nat,
         faults' \in {faults, faults + 1}, crashes' \in {crashes, crashes + 1}
  PROVE  ClSide'
<1> USE DEF clVars
<1>1. ClP!TypeOK'
  <2>1. ClP!TableTypes' /\ ClP!HandlerTypes' /\ exposed' \subseteq Users
    BY DEF ClSide, ClP!TypeOK, ClP!TableTypes, ClP!HandlerTypes
  <2>2. ClP!Budgets'
    BY DEF TxP!Budgets, ClP!Budgets
  <2>3. ASSUME NEW p \in ClP!Procs PROVE ClP!Local(p)'
    BY DEF ClSide, ClP!TypeOK, ClP!Local, ClP!Writes
  <2> QED
    BY <2>1, <2>2, <2>3 DEF ClP!TypeOK
<1>2. ClP!LedgerInvariant'
  <2>1. ClP!Troubles' \in Nat /\ ClP!Troubles <= ClP!Troubles'
    BY MoreTrouble
  <2>2. ASSUME NEW t \in Requests PROVE ClP!Attempted(t)'
    BY <2>1, ClConstants, ClP!AttemptFrame DEF ClSide, ClP!LedgerInvariant
  <2> QED
    BY <2>2 DEF ClP!LedgerInvariant
<1>3. ClP!AccountsInvariant'
  <2>1. ASSUME NEW u \in Users \ exposed PROVE ClP!Undisturbed(u)'
    BY DEF ClSide, ClP!AccountsInvariant, ClP!Undisturbed, ClP!AtWork, ClP!Active,
       ClP!Accounts, ClP!Writes, ClP!Pending, ClP!At, ClP!Holds
  <2> QED
    BY <2>1 DEF ClP!AccountsInvariant
<1> QED
  BY <1>1, <1>2, <1>3 DEF ClSide

\* So each step preserves what both parts keep, whichever takes it.
LEMMA PartsStep ==
  ASSUME TxSide, ClSide, [Next]_vars
  PROVE  TxSide' /\ ClSide'
<1>1. CASE TxP!Next /\ UNCHANGED clVars
  <2>1. TxSide'
    BY <1>1, TxWorks
  <2> QED
    BY <1>1, <2>1, TxBudgets, ClRests DEF TxSide, TxP!TypeOK
<1>2. CASE ClP!Next /\ UNCHANGED txVars
  <2>1. ClSide'
    BY <1>2, ClWorks
  <2> QED
    BY <1>2, <2>1, TxRests DEF ClSide, ClP!TypeOK
<1>3. CASE UNCHANGED <<txVars, clVars, faults, crashes>>
  <2>1. ClP!Budgets' /\ TxP!Budgets'
    BY <1>3 DEF ClSide, ClP!TypeOK, ClP!Budgets, TxP!Budgets
  <2>2. faults \in Nat /\ crashes \in Nat
    BY ClConstants DEF ClP!ConstantsAssumption, ClSide, ClP!TypeOK, ClP!Budgets
  <2> QED
    BY <1>3, <2>1, <2>2, TxRests, ClRests
<1> QED
  BY <1>1, <1>2, <1>3, Moves

\* It holds of both parts when they start.
LEMMA PartsInit == Init => TxSide /\ ClSide
<1> SUFFICES ASSUME Init PROVE TxSide /\ ClSide
  OBVIOUS
<1>1. TxP!Init
  BY DEF Init, Tx!Init, TxP!Init, Tx!Procs, TxP!Procs
<1>2. ClP!Init
  BY DEF Init, Cl!Init, ClP!Init, Cl!Procs, ClP!Procs, Cl!Blank, ClP!Blank, Cl!NoEntry,
     ClP!NoEntry
<1> QED
  BY <1>1, <1>2, TxConstants, ClConstants, TxP!TypeInit, TxP!KeysInit, TxP!StatusInit,
     ClP!TypeInit, ClP!LedgerInit, ClP!AccountsInit DEF TxSide, ClSide

\* Together the services keep the invariants each has alone.
LEMMA PartsSound == Spec => [](TxSide /\ ClSide)
<1>1. TxSide /\ ClSide /\ [Next]_vars => (TxSide /\ ClSide)'
  BY PartsStep
<1> QED
  BY <1>1, PartsInit, PTL DEF Spec

-----------------------------------------------------------------------------
\* What the parts promise alone, they promise together.

\* With the clients service behind every question and every report, keys, statuses
\* and answers are sound: neither its failures nor its repeated reports reach them.
THEOREM IntakeIsSound == Spec => []IntakeStaysSound
<1>1. ASSUME TxSide PROVE IntakeStaysSound
  <2> USE <1>1 DEF TxSide
  <2>1. Tx!KeysInvariant
    <3>1. Tx!KeysTables
      BY DEF TxP!KeysInvariant, Tx!KeysTables, TxP!KeysTables, Tx!IdemCacheSound,
         TxP!IdemCacheSound, Tx!Announced, TxP!Announced
    <3>2. ASSUME NEW p \in Tx!Procs PROVE Tx!KeysLocal(p)
      BY DEF TxP!KeysInvariant, Tx!KeysLocal, TxP!KeysLocal, Tx!Announced, TxP!Announced,
         Tx!FindLabels, TxP!FindLabels, Tx!Procs, TxP!Procs
    <3> QED
      BY <3>1, <3>2 DEF Tx!KeysInvariant
  <2>2. Tx!StatusInvariant
    <3>1. Tx!StatusTables
      BY DEF TxP!StatusInvariant, Tx!StatusTables, TxP!StatusTables, Tx!CacheNotAhead,
         TxP!CacheNotAhead, Tx!LogLegal, TxP!LogLegal, Tx!FinalStatusLogged,
         TxP!FinalStatusLogged, Tx!Final, TxP!Final
    <3>2. ASSUME NEW p \in Tx!Procs PROVE Tx!StatusLocal(p)
      BY DEF TxP!StatusInvariant, Tx!StatusLocal, TxP!StatusLocal, Tx!Final, TxP!Final,
         Tx!Procs, TxP!Procs
    <3> QED
      BY <3>1, <3>2 DEF Tx!StatusInvariant
  <2>3. Tx!IdempotentResponses
    BY TxConstants, TxP!ResponsesAgree DEF Tx!IdempotentResponses, TxP!IdempotentResponses
  <2> QED
    BY <2>1, <2>2, <2>3 DEF IntakeStaysSound
<1> QED
  BY <1>1, PartsSound, PTL

\* With POSTs and a broker that loses messages in front of it, the clients service
\* reports SUCCESS only of what is in its ledger, acks only what it has reported,
\* repeats itself only after a failure, and its quiet accounts match the ledger.
THEOREM TransfersAreSound == Spec => []TransfersStaySound
<1>1. ASSUME ClSide PROVE TransfersStaySound
  <2> USE <1>1 DEF ClSide
  <2>1. Cl!TypeOK
    BY DEF Cl!TypeOK, ClP!TypeOK, Cl!TableTypes, ClP!TableTypes, Cl!HandlerTypes,
       ClP!HandlerTypes, Cl!Budgets, ClP!Budgets, Cl!Local, ClP!Local, Cl!Procs,
       ClP!Procs, Cl!NoEntry, ClP!NoEntry, Cl!Labels, ClP!Labels, Cl!Resting, ClP!Resting,
       Cl!Writes, ClP!Writes
  <2>2. Cl!LedgerBeforeSuccess /\ Cl!AckedMeansAnswered
    BY DEF ClP!LedgerInvariant, ClP!Attempted, Cl!LedgerBeforeSuccess,
       Cl!AckedMeansAnswered
  <2>3. Cl!RepeatedOnlyByFailure
    BY ClConstants, ClP!RepeatsAgree DEF Cl!RepeatedOnlyByFailure,
       ClP!RepeatedOnlyByFailure
  <2>4. Cl!QuietAccountMatchesLedger
    BY ClConstants, ClP!QuietAgrees DEF Cl!QuietAccountMatchesLedger,
       ClP!QuietAccountMatchesLedger, Cl!Quiet, ClP!Quiet, Cl!Active, ClP!Active,
       Cl!Resting, ClP!Resting, Cl!Accounts, ClP!Accounts, Cl!Procs, ClP!Procs,
       Cl!NoEntry, ClP!NoEntry
  <2> QED
    BY <2>1, <2>2, <2>3, <2>4 DEF TransfersStaySound
<1> QED
  BY <1>1, PartsSound, PTL

\* No report of the clients service takes a transaction out of a final status back
\* to PENDING, in whatever order reports are handled.
THEOREM FinalStaysFinal == Spec => Tx!NoReturnToPending
<1>1. TxSide /\ [Next]_vars => [Tx!KeepsFinal]_(Tx!vars)
  <2>1. ASSUME TxSide, TxP!Next PROVE Tx!KeepsFinal
    BY <2>1, TxConstants, TxP!StepKeepsFinal DEF TxSide, Tx!KeepsFinal, TxP!KeepsFinal,
       Tx!Final, TxP!Final
  <2>2. ASSUME UNCHANGED row PROVE Tx!KeepsFinal
    BY <2>2 DEF Tx!KeepsFinal
  <2> QED
    BY <2>1, <2>2, Moves DEF txVars
<1> QED
  BY <1>1, PartsSound, PTL DEF Spec, Tx!NoReturnToPending

\* A debit or credit between accounts no two handlers overlapped on changes the
\* balance by the amount, with POSTs reading and caching those accounts meanwhile.
THEOREM ExactUnlessExposed == Spec => Cl!UnexposedDebitIsExact
<1> DEFINE Exact == \A t \in Requests :
       clPc[t] = "write" /\ clPc'[t] = "del" /\ Cl!Accounts(t) \cap exposed = {} =>
         bal'[Cl!At(t)] = bal[Cl!At(t)] + (IF side[t] = "sender" THEN - Amount[t] ELSE Amount[t])
<1>1. ClSide /\ [Next]_vars => Exact
  <2>1. ASSUME ClSide, ClP!Next PROVE Exact
    <3>1. ClP!ExactStep
      BY <2>1, ClConstants, ClP!ExactHere DEF ClSide
    <3> QED
      BY <3>1 DEF ClP!ExactStep, Cl!Accounts, ClP!Accounts, Cl!At, ClP!At
  <2>2. ASSUME UNCHANGED clPc PROVE Exact
    BY <2>2
  <2> QED
    BY <2>1, <2>2, Moves DEF clVars
<1>2. Cl!UnexposedDebitIsExact <=> [][Exact]_(Cl!vars)
  BY DEF Cl!UnexposedDebitIsExact
<1> QED
  BY <1>1, <1>2, PartsSound, PTL DEF Spec

\* Both services together are an IdempotentIntake to the client: a key is accepted
\* once, dispatched once, and answered with what it was accepted as.
THEOREM IntakeIsImplemented == Spec => Tx!ImplementsIntake
<1> USE DEF TxSide
<1>1. Init => TxP!Intake!Init
  <2>1. Init => TxP!Init
    BY DEF Init, Tx!Init, TxP!Init, Tx!Procs, TxP!Procs
  <2> QED
    BY <2>1, TxConstants, TxP!IntakeInit
<1>2. TxSide /\ TxSide' /\ [Next]_vars => [TxP!Intake!Next]_(TxP!Intake!vars)
  <2>1. ASSUME TxSide, TxSide', TxP!Next PROVE [TxP!Intake!Next]_(TxP!Intake!vars)
    BY <2>1, TxConstants, TxP!IntakeStep
  <2>2. ASSUME UNCHANGED txVars PROVE UNCHANGED TxP!Intake!vars
    BY <2>2, TxConstants, TxP!IntakeRests DEF txVars
  <2> QED
    BY <2>1, <2>2, Moves
<1>3. TxP!Intake!Init => Tx!Intake!Init
  BY DEF Tx!Intake!Init, TxP!Intake!Init, Tx!Accepted, TxP!Accepted, Tx!Dispatched,
     TxP!Dispatched, Tx!Answered, TxP!Answered, Tx!Bound, TxP!Bound, Tx!TheOneIn,
     TxP!TheOneIn
<1>4. [TxP!Intake!Next]_(TxP!Intake!vars) => [Tx!Intake!Next]_(Tx!Intake!vars)
  BY DEF Tx!Intake!Next, TxP!Intake!Next, Tx!Intake!vars, TxP!Intake!vars,
     Tx!Intake!Accept, TxP!Intake!Accept, Tx!Intake!Answer, TxP!Intake!Answer,
     Tx!Intake!Dispatch, TxP!Intake!Dispatch, Tx!Accepted, TxP!Accepted, Tx!Dispatched,
     TxP!Dispatched, Tx!Answered, TxP!Answered, Tx!Bound, TxP!Bound, Tx!TheOneIn,
     TxP!TheOneIn
<1> QED
  BY <1>1, <1>2, <1>3, <1>4, PartsSound, PTL DEF Spec, Tx!ImplementsIntake, Tx!Intake!Spec

-----------------------------------------------------------------------------
\* Why a transfer is refused.

\* t was told a balance, and has not been refused for it.
Told(t) == txPc[t] = "askReceiver" \/ phase[t] \in {"create", "save"}

\* A POST asks only in its first phase, and goes on only with what it was told
\* covering the amount; the clients service gets, and calls too small, only what
\* went on.
Accepted(t) ==
  /\ txPc[t] \in {"askSender", "askReceiver"} => phase[t] = "check"
  /\ txPc[t] \in {"dbCreate", "log", "publish"} \/ published[t] > 0 =>
       phase[t] \in {"create", "save"}
  /\ phase[t] \in {"create", "save"} => told[t] >= Amount[t]
  /\ clPc[t] # "init" => published[t] > 0
  /\ clPc[t] = "pubShort" => mem[t][Sender[t]] < Amount[t]

\* What is told are balances.
AcceptedSide == told \in [Requests -> Int] /\ \A t \in Requests : Accepted(t)

\* No transfer has changed the balance of a.
Unmoved(a) == \A u \in Requests : a \in Cl!Accounts(u) => ~HasMoved(u)

\* p has read a's balance, and uses or answers what it has read.
Knows(p, a) ==
  \/ clPc[p] = "set" /\ Cl!At(p) = a
  \/ p \in Reads /\ AccountOf[p] = a /\ clPc[p] = "done"
  \/ /\ p \in Requests /\ Sender[p] = a
     /\ \/ clPc[p] = "pubShort"
        \/ clPc[p] \in {"get", "db", "set"} /\ side[p] = "receiver"

\* Every copy of a's balance, and every balance told of it, is the one it started
\* with.
Copies(a) ==
  /\ bal[a] = Balance0[a] /\ cache[a] \in {Cl!NoEntry, Balance0[a]}
  /\ \A p \in Requests \cup Reads : Knows(p, a) => mem[p][a] = Balance0[a]

\* Every POST for money of a that was told a balance was told the first one.
ToldOf(a) == \A t \in Requests : Sender[t] = a /\ Told(t) => told[t] = Balance0[a]

\* Nobody has, holds or was told any other balance of a.
Original(a) == Copies(a) /\ ToldOf(a)

\* While nothing fails, an account no transfer has changed is known by its first
\* balance everywhere: in the table, in Redis, and to handlers of both services.
OriginalSide == ~Broken => \A a \in Users : Unmoved(a) => Original(a)

\* Nothing has been told, sent or changed when the services start.
LEMMA RefusalInit == Init => AcceptedSide /\ OriginalSide
<1> SUFFICES ASSUME Init PROVE AcceptedSide /\ OriginalSide
  OBVIOUS
<1>1. AcceptedSide
  BY DEF Init, Tx!Init, Tx!Procs, Cl!Init, Cl!Procs, AcceptedSide, Accepted
<1>2. ASSUME NEW a \in Users PROVE Original(a)
  BY DEF Init, Tx!Init, Tx!Procs, Cl!Init, Cl!Procs, Original, Copies, ToldOf, Knows,
     Told, Cl!NoEntry
<1> QED
  BY <1>1, <1>2 DEF OriginalSide

-----------------------------------------------------------------------------
\* What a POST was told.

\* The types of the handlers of the transactions service.
LEMMA TxTypes ==
  ASSUME TxSide
  PROVE  /\ txPc = [p \in Requests \cup Deliveries |-> txPc[p]]
         /\ phase = [p \in Requests \cup Deliveries |-> phase[p]]
         /\ tx = [p \in Requests \cup Deliveries |-> tx[p]]
         /\ published \in [Requests -> Nat]
         /\ \A p \in Requests : txPc[p] # "init" => phase[p] \in {"check", "create",
            "save"}
BY DEF TxSide, TxP!TypeOK, TxP!TableTypes, TxP!HandlerTypes, TxP!Procs, TxP!Local

\* The phase and the next call of a POST whose find ended.
LEMMA FindAccepted ==
  ASSUME TxSide, AcceptedSide, NEW p \in Requests, Tx!FindStep(p)
  PROVE  /\ txPc'[p] \in {"askSender", "askReceiver"} => phase'[p] = "check"
         /\ txPc'[p] # "askReceiver"
         /\ txPc'[p] \in {"dbCreate", "log", "publish"} => phase'[p] \in {"create",
            "save"}
         /\ phase'[p] \in {"create", "save"} => phase[p] \in {"create", "save"}
         /\ phase[p] \in {"create", "save"} => phase'[p] \in {"create", "save"}
         /\ \A q \in Requests \ {p} : txPc'[q] = txPc[q] /\ phase'[q] = phase[q]
<1> USE TxTypes DEF Tx!Goto, Tx!memo
<1>1. phase[p] \in {"check", "create", "save"} /\ p \notin Deliveries
  BY ConstantsAssumption DEF ConstantsAssumption, Tx!FindStep, Tx!GetIdem, Tx!DbByIdem,
     Tx!SetIdemFound, Tx!GetTx, Tx!DbById, Tx!SetTx, Tx!SetIdem
<1>2. ASSUME NEW s, Tx!Found(p, s)
      PROVE  /\ txPc' = [txPc EXCEPT ![p] = IF phase[p] = "check" THEN "ok" ELSE "log"]
             /\ phase' = [phase EXCEPT ![p] = IF phase[p] = "check" THEN "check" ELSE "save"]
  BY <1>1, <1>2 DEF Tx!Found, Tx!AfterFound
<1>3. ASSUME Tx!Missing(p) \/ Tx!Throw(p)
      PROVE  /\ phase' = phase
             /\ \E l : /\ txPc' = [txPc EXCEPT ![p] = l]
                       /\ \/ l = "failed"
                          \/ l = "askSender" /\ phase[p] = "check"
                          \/ l = "dbCreate" /\ phase[p] = "create"
  BY <1>1, <1>3 DEF Tx!Missing, Tx!Throw, Tx!AfterMissing, Tx!OnThrow
<1>4. \/ \E s : Tx!Found(p, s)
      \/ Tx!Missing(p) \/ Tx!Throw(p)
      \/ /\ phase' = phase
         /\ \E l \in {"getTx", "dbByIdem", "setIdemFound", "setTx", "dbById",
            "setIdem"} :
              txPc' = [txPc EXCEPT ![p] = l]
  BY DEF Tx!FindStep, Tx!GetIdem, Tx!DbByIdem, Tx!SetIdemFound, Tx!GetTx, Tx!DbById,
     Tx!SetTx, Tx!SetIdem
<1> QED
  BY <1>1, <1>2, <1>3, <1>4

\* Handlers of the transactions service send on only what was told a balance.
LEMMA AcceptedTx ==
  ASSUME TxSide, AcceptedSide, NEW p \in Requests \cup Deliveries, TxStep(p),
     NEW t \in Requests
  PROVE  Accepted(t)' /\ (Told(t)' => Told(t))
<1> USE TxTypes DEF AcceptedSide, Accepted, Told, clVars, Tx!Goto, Tx!memo
<1>1. UNCHANGED <<told, clPc, mem>> /\ published[t] \in Nat
  BY DEF TxStep
<1>2. CASE t # p
  <2>1. UNCHANGED <<txPc[t], phase[t], published[t]>>
    BY <1>2 DEF TxStep, Tx!FindStep, Tx!GetIdem, Tx!DbByIdem, Tx!SetIdemFound, Tx!GetTx,
       Tx!DbById, Tx!SetTx, Tx!SetIdem, Tx!Found, Tx!Missing, Tx!Throw, Tx!DbCreate,
       Tx!LogCreated, Tx!Publish, Tx!DeliveryStep, Tx!Deliver, Tx!LogUpdated, Tx!DbUpdate,
       Tx!DelTx, Tx!DelIdem, Tx!Ack, Tx!bus
  <2> QED
    BY <1>1, <2>1
<1>3. CASE t = p /\ Tx!FindStep(p)
  <2>1. published' = published
    BY <1>3 DEF Tx!FindStep, Tx!GetIdem, Tx!DbByIdem, Tx!SetIdemFound, Tx!GetTx,
       Tx!DbById, Tx!SetTx, Tx!SetIdem, Tx!bus
  <2> QED
    BY <1>1, <1>3, <2>1, FindAccepted
<1>4. CASE t = p /\ Tx!DbCreate(p)
  BY <1>1, <1>4 DEF Tx!DbCreate, Tx!Throw, Tx!OnThrow, Tx!bus
<1>5. CASE t = p /\ Tx!LogCreated(p)
  BY <1>1, <1>5 DEF Tx!LogCreated, Tx!Throw, Tx!OnThrow, Tx!bus
<1>6. CASE t = p /\ Tx!Publish(p)
  BY <1>1, <1>6 DEF Tx!Publish
<1> QED
  BY <1>2, <1>3, <1>4, <1>5, <1>6, ConstantsAssumption DEF ConstantsAssumption, TxStep

\* The two answers of the clients service.
LEMMA AcceptedAnswer ==
  ASSUME TxSide, ClSide, AcceptedSide, NEW p \in Requests,
     AnswerSender(p) \/ AnswerReceiver(p)
  PROVE  AcceptedSide'
<1> USE TxTypes DEF AcceptedSide, Accepted, clVars, Tx!Goto, Tx!memo, Tx!bus
<1>1. UNCHANGED <<clPc, mem, published>>
  BY DEF AnswerSender, AnswerReceiver, Tx!AskSender, Tx!AskReceiver
<1>2. CASE AnswerSender(p)
  <2>1. /\ txPc[p] = "askSender" /\ UNCHANGED phase
        /\ \E l \in {"askReceiver", "refused",
           "failed"} : txPc' = [txPc EXCEPT ![p] = l]
        /\ told' = told \/ told' = [told EXCEPT ![p] = mem[<<p, "sender">>][Sender[p]]]
    BY <1>2 DEF AnswerSender, Tx!AskSender
  <2>2. mem[<<p, "sender">>][Sender[p]] \in Int
    BY ConstantsAssumption DEF ConstantsAssumption, ClSide, ClP!TypeOK, ClP!HandlerTypes,
       ClP!Procs, Reads
  <2>3. told' \in [Requests -> Int] /\ \A t \in Requests \ {p} : told'[t] = told[t]
    BY <2>1, <2>2
  <2>4. phase[p] = "check"
    BY <2>1
  <2> QED
    BY <1>1, <2>1, <2>3, <2>4
<1>3. CASE AnswerReceiver(p)
  <2>1. /\ txPc[p] = "askReceiver" /\ UNCHANGED told
        /\ \/ /\ txPc' = [txPc EXCEPT ![p] = "getIdem"] /\ phase' = [phase EXCEPT ![p] = "create"]
              /\ told[p] >= Amount[p]
           \/ UNCHANGED phase /\ \E l \in {"refused",
              "failed"} : txPc' = [txPc EXCEPT ![p] = l]
    BY <1>3 DEF AnswerReceiver, Tx!AskReceiver, Tx!Works
  <2> QED
    BY <1>1, <2>1
<1> QED
  BY <1>2, <1>3

\* The types of the handlers of the clients service.
LEMMA ClTypes ==
  ASSUME ClSide
  PROVE  /\ clPc = [p \in Requests \cup Reads |-> clPc[p]]
         /\ side \in [Requests \cup Reads -> {"sender", "receiver"}]
         /\ mem \in [Requests \cup Reads -> [Users -> Int]]
         /\ bal \in [Users -> Int] /\ cache \in [Users -> Int]
         /\ debits \in [Requests -> Nat]
         /\ \A p \in Reads : clPc[p] # "write"
         /\ \A p \in Requests \cup Reads : Cl!At(p) \in Cl!Accounts(p) /\ Cl!At(p) \in Users
         /\ \A t \in Requests : Sender[t] \in Users /\ Receiver[t] \in Users /\ Sender[t] # Receiver[t]
         /\ \A r \in Reads : AccountOf[r] \in Users /\ r \notin Requests
<1> USE ConstantsAssumption DEF ConstantsAssumption
<1>1. /\ clPc = [p \in Requests \cup Reads |-> clPc[p]]
      /\ side \in [Requests \cup Reads -> {"sender", "receiver"}]
      /\ mem \in [Requests \cup Reads -> [Users -> Int]]
  BY DEF ClSide, ClP!TypeOK, ClP!HandlerTypes, ClP!Procs
<1>2. /\ bal \in [Users -> Int] /\ cache \in [Users -> Int]
      /\ debits \in [Requests -> Nat]
  BY DEF ClSide, ClP!TypeOK, ClP!TableTypes, ClP!NoEntry
<1>3. \A r \in Reads : AccountOf[r] \in Users /\ r \notin Requests
  BY DEF AccountOf, Reads
<1>4. \A t \in Requests : Sender[t] \in Users /\ Receiver[t] \in Users /\ Sender[t] # Receiver[t]
  OBVIOUS
<1>5. \A p \in Requests \cup Reads : Cl!At(p) \in Cl!Accounts(p) /\ Cl!At(p) \in Users
  BY <1>3, <1>4 DEF Cl!At, Cl!Accounts
<1>6. \A p \in Reads : clPc[p] # "write"
  BY <1>3 DEF ClSide, ClP!TypeOK, ClP!Procs, ClP!Local, ClP!Writes
<1> QED
  BY <1>1, <1>2, <1>3, <1>4, <1>5, <1>6

\* A transfer whose accounts are both read is called too small by what was read.
LEMMA LoadedShort ==
  ASSUME ClSide, NEW p \in Requests, NEW n, Cl!Loaded(p, n), clPc'[p] = "pubShort"
  PROVE  mem'[p][Sender[p]] < Amount[p]
<1>1. p \notin Reads
  BY ConstantsAssumption DEF ConstantsAssumption
<1>2. side[p] = "receiver" /\ ~Cl!Covers(p)
  BY <1>1, ClTypes DEF Cl!Loaded, Cl!Debited, Cl!Covers, Cl!Goto
<1>3. Cl!At(p) = Receiver[p]
  BY <1>2 DEF Cl!At
<1>4. mem'[p][Sender[p]] = mem[p][Sender[p]]
  BY <1>3, ClTypes DEF Cl!Loaded, Cl!Debited, Cl!Covers
<1>5. mem[p][Sender[p]] \in Int /\ Amount[p] \in Int
  BY ClTypes, ConstantsAssumption DEF ConstantsAssumption
<1> QED
  BY <1>2, <1>4, <1>5 DEF Cl!Covers

\* Handlers of the clients service.
LEMMA AcceptedCl ==
  ASSUME ClSide, AcceptedSide, NEW p \in Requests \cup Reads, ClStep(p),
     NEW t \in Requests
  PROVE  /\ clPc'[t] # "init" => clPc[t] # "init"
         /\ clPc'[t] = "pubShort" => mem'[t][Sender[t]] < Amount[t]
<1> USE ClTypes DEF AcceptedSide, Accepted, Cl!Goto
<1>1. CASE t # p
  <2>1. UNCHANGED <<clPc[t], mem[t]>>
    BY <1>1 DEF ClStep, Cl!AccountStep, Cl!CacheGet, Cl!DbRead, Cl!CacheSet, Cl!DbWrite,
       Cl!CacheDel, Cl!TransferStep, Cl!LedgerDebit, Cl!LedgerCredit, Cl!PublishSuccess,
       Cl!PublishShort, Cl!PublishFailure, Cl!Ack, Cl!Publish, Cl!Loaded, Cl!Debited, Cl!Covers, Cl!Throw
  <2> QED
    BY <2>1
<1>2. CASE t = p /\ \E n : Cl!Loaded(p, n)
  <2>1. clPc[p] # "init"
    BY <1>2 DEF ClStep, Cl!AccountStep, Cl!CacheGet, Cl!DbRead, Cl!CacheSet, Cl!DbWrite,
       Cl!CacheDel, Cl!TransferStep, Cl!LedgerDebit, Cl!LedgerCredit, Cl!PublishSuccess,
       Cl!PublishShort, Cl!PublishFailure, Cl!Ack
  <2> QED
    BY <1>2, <2>1, LoadedShort
<1>3. CASE t = p /\ Cl!AccountStep(p)
  <2>1. clPc[p] # "init"
    BY <1>3 DEF Cl!AccountStep, Cl!CacheGet, Cl!DbRead, Cl!CacheSet, Cl!DbWrite,
       Cl!CacheDel
  <2>2. (\E n : Cl!Loaded(p, n)) \/ clPc'[p] # "pubShort"
    BY <1>3 DEF Cl!AccountStep, Cl!CacheGet, Cl!DbRead, Cl!CacheSet, Cl!DbWrite,
       Cl!CacheDel, Cl!Throw, Cl!OnThrow
  <2> QED
    BY <1>2, <1>3, <2>1, <2>2
<1>4. CASE t = p /\ Cl!TransferStep(p)
  BY <1>4 DEF Cl!TransferStep, Cl!LedgerDebit, Cl!LedgerCredit, Cl!PublishSuccess,
     Cl!PublishShort, Cl!PublishFailure, Cl!Ack, Cl!Publish, Cl!AfterReport, Cl!Throw,
     Cl!OnThrow
<1> QED
  BY <1>1, <1>3, <1>4 DEF ClStep

\* All else neither tells a POST anything nor lets it go on.
LEMMA AcceptedRest ==
  ASSUME TxSide, ClSide, AcceptedSide,
         \/ TxEnvironment
         \/ \E p \in Requests \cup Reads : ClStep(p)
         \/ ClEnvironment
         \/ \E p \in Requests, r \in Reads : Ask(p, r)
         \/ \E t \in Requests : Arrive(t) \/ Deliver(t)
         \/ \E d \in Deliveries, t \in Requests, s \in Tx!Final : Report(d, t, s)
         \/ \E m \in Requests \cup Deliveries : Lose(m)
         \/ UNCHANGED vars
  PROVE  /\ AcceptedSide' /\ UNCHANGED told
         /\ \A t \in Requests : Told(t)' => Told(t)
<1>1. UNCHANGED <<told, published>>
  BY DEF TxEnvironment, ClStep, ClEnvironment, Ask, Arrive, Deliver, Report, Lose, vars,
     txVars, Tx!Post, Tx!Crash, Tx!Expire, Tx!Send, Tx!bus
<1>2. ASSUME NEW t \in Requests
      PROVE  \/ UNCHANGED <<txPc[t], phase[t]>>
             \/ txPc[t] = "init" /\ txPc'[t] = "getIdem" /\ phase'[t] = "check"
             \/ txPc'[t] = "lost" /\ UNCHANGED phase[t]
  <2>1. CASE UNCHANGED txVars
    BY <2>1 DEF txVars
  <2>2. ASSUME NEW p \in Requests, Tx!Post(p)
        PROVE  \/ UNCHANGED <<txPc[t], phase[t]>>
               \/ txPc[t] = "init" /\ txPc'[t] = "getIdem" /\ phase'[t] = "check"
    BY <2>2, TxTypes DEF Tx!Post, Tx!Goto
  <2>3. CASE Tx!Crash \/ Tx!Expire
    BY <2>3, TxTypes, ConstantsAssumption DEF ConstantsAssumption, Tx!Crash, Tx!Expire,
       Tx!memo, Tx!Procs
  <2>4. ASSUME NEW d \in Deliveries, NEW u, NEW s, Tx!Send(d, u, s)
        PROVE  UNCHANGED <<txPc[t], phase[t]>>
    BY <2>4, TxTypes, ConstantsAssumption DEF ConstantsAssumption, Tx!Send, Tx!Goto
  <2> QED
    BY <2>1, <2>2, <2>3, <2>4 DEF TxEnvironment, ClStep, ClEnvironment, Ask, Arrive,
       Deliver, Report, Lose, vars
<1>3. ASSUME NEW t \in Requests
      PROVE  /\ clPc'[t] # "init" => clPc[t] # "init" \/ published[t] > 0
             /\ clPc'[t] = "pubShort" => mem'[t][Sender[t]] < Amount[t]
  <2> USE DEF AcceptedSide, Accepted
  <2>1. CASE UNCHANGED clVars
    BY <2>1 DEF clVars
  <2>2. CASE \E p \in Requests \cup Reads : ClStep(p)
    BY <2>2, AcceptedCl
  <2>3. ASSUME NEW p \in Requests \cup Reads, Cl!Begin(p)
        PROVE  /\ clPc'[t] # "init" => clPc[t] # "init"
               /\ clPc'[t] = "pubShort" => mem'[t][Sender[t]] < Amount[t]
    BY <2>3, ClTypes DEF Cl!Begin, Cl!Goto
  <2>4. ASSUME NEW u \in Requests, published[u] > 0, Cl!Arrive(u)
        PROVE  /\ clPc'[t] # "init" => clPc[t] # "init" \/ published[t] > 0
               /\ clPc'[t] = "pubShort" => mem'[t][Sender[t]] < Amount[t]
    BY <2>4, ClTypes DEF Cl!Arrive, Cl!Goto
  <2>5. CASE Cl!Crash \/ \E u \in Users : Cl!Expire(u)
    BY <2>5, ClTypes DEF Cl!Crash, Cl!Expire, Cl!Procs, Cl!Active, Cl!Resting
  <2> QED
    BY <2>1, <2>2, <2>3, <2>4, <2>5 DEF TxEnvironment, ClEnvironment, Ask, Arrive,
       Deliver, Report, Lose, vars
<1>4. ASSUME NEW t \in Requests, txPc[t] = "init" PROVE published[t] = 0
  BY <1>4 DEF TxSide, TxP!KeysInvariant, TxP!KeysLocal, TxP!Procs
<1>5. \A t \in Requests : Accepted(t)'
  BY <1>1, <1>2, <1>3, <1>4 DEF AcceptedSide, Accepted
<1>6. \A t \in Requests : Told(t)' => Told(t)
  BY <1>2 DEF Told
<1> QED
  BY <1>1, <1>5, <1>6 DEF AcceptedSide

\* No step lets a transfer through, or calls it too small, on another ground.
LEMMA AcceptedStep ==
  ASSUME TxSide, ClSide, AcceptedSide, [Next]_vars
  PROVE  AcceptedSide'
<1>1. CASE \E p \in Requests \cup Deliveries : TxStep(p)
  BY <1>1, AcceptedTx DEF AcceptedSide, TxStep
<1>2. CASE \E p \in Requests : AnswerSender(p) \/ AnswerReceiver(p)
  BY <1>2, AcceptedAnswer
<1> QED
  BY <1>1, <1>2, AcceptedRest DEF Next, PostStep

-----------------------------------------------------------------------------
\* While nothing fails.

\* Counts that add up to nothing, and were no more before, were and are zero.
LEMMA NoTrouble ==
  ASSUME NEW a \in Nat, NEW b \in Nat, NEW c \in Nat, NEW d \in Nat, a + b <= c + d,
     ~(c + d > 0)
  PROVE  a = 0 /\ b = 0 /\ c = 0 /\ d = 0
OBVIOUS

\* A call that fails uses up the budget.
LEMMA NothingFails ==
  ASSUME ClSide, UNCHANGED faults
  PROVE  ~Cl!Fails
<1>1. faults \in Int
  BY ClConstants DEF ClSide, ClP!TypeOK, ClP!Budgets, ClP!ConstantsAssumption
<1> QED
  BY <1>1 DEF Cl!Fails

\* A step that leaves nothing broken neither failed nor crashed.
LEMMA CalmStep ==
  ASSUME TxSide, ClSide, [Next]_vars, ~Broken'
  PROVE  UNCHANGED <<faults, crashes>> /\ faults = 0 /\ crashes = 0
<1>1. faults \in Nat /\ crashes \in Nat /\ faults' \in Nat /\ crashes' \in Nat
  <2>1. ClSide'
    BY PartsStep
  <2> QED
    BY <2>1, ClConstants DEF ClSide, ClP!TypeOK, ClP!Budgets, ClP!ConstantsAssumption
<1>2. faults + crashes <= faults' + crashes'
  <2>1. CASE TxP!Next
    BY <1>1, <2>1, TxBudgets, SumsGrow DEF TxSide
  <2>2. CASE ClP!Next
    BY <2>2, ClConstants, ClP!TroublesGrow DEF ClSide, ClP!Troubles
  <2>3. CASE UNCHANGED <<faults, crashes>>
    BY <1>1, <2>3
  <2> QED
    BY <2>1, <2>2, <2>3, Moves
<1>3. ~(faults' + crashes' > 0)
  BY DEF Broken
<1> QED
  BY <1>1, <1>2, <1>3, NoTrouble

\* What has moved a balance has moved it.
LEMMA MovedStays ==
  ASSUME ClSide, NEW u \in Requests, HasMoved(u), UNCHANGED <<faults, crashes>>,
         \/ \E p \in Requests \cup Reads : Cl!AccountStep(p)
         \/ \E p \in Requests : Cl!TransferStep(p)
         \/ \E p \in Requests \cup Reads : Cl!Begin(p)
         \/ \E t \in Requests : Cl!Arrive(t)
         \/ \E a \in Users : Cl!Expire(a)
         \/ UNCHANGED clVars
  PROVE  HasMoved(u)'
<1> USE ClTypes DEF HasMoved, Cl!HalfDone, Cl!Goto, Cl!ledger
<1>1. CASE UNCHANGED <<clPc[u], side[u], debits[u]>>
  BY <1>1
<1>2. ASSUME NEW p \in Requests \cup Reads, p # u,
             \/ Cl!AccountStep(p)
             \/ p \in Requests /\ Cl!TransferStep(p)
             \/ Cl!Begin(p) \/ Cl!Arrive(p)
      PROVE  UNCHANGED <<clPc[u], side[u], debits[u]>>
  BY <1>2 DEF Cl!AccountStep, Cl!CacheGet, Cl!DbRead, Cl!CacheSet, Cl!DbWrite,
     Cl!CacheDel, Cl!TransferStep, Cl!LedgerDebit, Cl!LedgerCredit, Cl!PublishSuccess,
     Cl!PublishShort, Cl!PublishFailure, Cl!Ack, Cl!Publish, Cl!Loaded, Cl!Debited, Cl!Covers, Cl!Throw,
     Cl!Enter, Cl!Begin, Cl!Arrive
<1>3. CASE Cl!AccountStep(u)
  <2>1. u \notin Reads
    OBVIOUS
  <2>2. CASE Cl!CacheGet(u) \/ Cl!DbRead(u) \/ Cl!CacheSet(u)
    BY <2>2 DEF Cl!CacheGet, Cl!DbRead, Cl!CacheSet
  <2>3. CASE Cl!DbWrite(u)
    BY <2>3 DEF Cl!DbWrite, Cl!Throw, Cl!OnThrow
  <2>4. CASE Cl!CacheDel(u)
    BY <2>4 DEF Cl!CacheDel
  <2> QED
    BY <1>3, <2>2, <2>3, <2>4 DEF Cl!AccountStep
<1>4. CASE Cl!TransferStep(u)
  <2>1. clPc[u] = "ledgerCredit" => debits[u] > 0
    BY DEF ClSide, ClP!LedgerInvariant, ClP!Attempted, ClP!TypeOK, ClP!TableTypes
  <2>2. CASE Cl!LedgerDebit(u)
    BY <2>2, NothingFails DEF Cl!LedgerDebit, Cl!Enter
  <2>3. CASE Cl!LedgerCredit(u)
    BY <2>1, <2>3, NothingFails DEF Cl!LedgerCredit
  <2>4. CASE Cl!PublishSuccess(u) \/ Cl!PublishShort(u)
    BY <2>4 DEF Cl!PublishSuccess, Cl!PublishShort
  <2>5. CASE Cl!PublishFailure(u)
    BY <2>5, NothingFails DEF Cl!PublishFailure, Cl!Publish, Cl!AfterReport
  <2>6. CASE Cl!Ack(u)
    BY <2>6 DEF Cl!Ack
  <2> QED
    BY <1>4, <2>2, <2>3, <2>4, <2>5, <2>6 DEF Cl!TransferStep
<1>5. CASE Cl!Begin(u) \/ Cl!Arrive(u)
  BY <1>5 DEF Cl!Begin, Cl!Arrive
<1>6. CASE (\E a \in Users : Cl!Expire(a)) \/ UNCHANGED clVars
  BY <1>6 DEF Cl!Expire, clVars
<1> QED
  BY <1>1, <1>2, <1>3, <1>4, <1>5, <1>6

\* A step of a handler that moves nothing on a leaves every copy of a's balance
\* original.
LEMMA CopiesAccount ==
  ASSUME ClSide, NEW p \in Requests \cup Reads, Cl!AccountStep(p), UNCHANGED faults,
         NEW a \in Users, Copies(a),
            p \in Requests /\ a \in Cl!Accounts(p) => ~HasMoved(p)'
  PROVE  Copies(a)'
<1> USE ClTypes, NothingFails
<1>1. ASSUME NEW q \in (Requests \cup Reads) \ {p}
      PROVE  UNCHANGED <<clPc[q], side[q], mem[q]>>
  BY DEF Cl!AccountStep, Cl!CacheGet, Cl!DbRead, Cl!CacheSet, Cl!DbWrite, Cl!CacheDel,
     Cl!Loaded, Cl!Debited, Cl!Covers, Cl!Throw, Cl!Goto
<1>2. ASSUME NEW q \in (Requests \cup Reads) \ {p}
      PROVE  (Knows(q, a)' <=> Knows(q, a)) /\ mem'[q][a] = mem[q][a]
  BY <1>1 DEF Knows, Cl!At
<1>3. ASSUME NEW n, Cl!Loaded(p, n), clPc[p] \in {"get", "set"},
             Cl!At(p) = a => n = Balance0[a], Knows(p, a)'
      PROVE  mem'[p][a] = Balance0[a]
  <2>1. mem' = [mem EXCEPT ![p][Cl!At(p)] = n]
    BY <1>3 DEF Cl!Loaded, Cl!Debited, Cl!Covers
  <2>2. CASE Cl!At(p) = a
    BY <1>3, <2>1, <2>2
  <2>3. CASE Cl!At(p) # a
    <3>1. mem'[p][a] = mem[p][a]
      BY <2>1, <2>3
    <3>2. p \in Requests
      BY <1>3, <2>3 DEF Knows, Cl!Loaded, Cl!Debited, Cl!Covers, Cl!Goto, Cl!At
    <3>3. clPc'[p] # "set"
      BY <1>3 DEF Cl!Loaded, Cl!Debited, Cl!Covers, Cl!Goto
    <3>4. Sender[p] = a /\ side[p] = "receiver"
      BY <1>3, <2>3, <3>2, <3>3 DEF Knows, Cl!Loaded, Cl!Debited, Cl!Covers, Cl!Goto, Cl!At
    <3> QED
      BY <1>3, <3>1, <3>2, <3>4 DEF Copies, Knows
  <2> QED
    BY <2>2, <2>3
<1>4. CASE Cl!CacheGet(p)
  <2>1. UNCHANGED <<bal, cache>>
    BY <1>4 DEF Cl!CacheGet
  <2>2. ASSUME Knows(p, a)' PROVE mem'[p][a] = Balance0[a]
    <3>1. CASE Cl!Loaded(p, cache[Cl!At(p)]) /\ cache[Cl!At(p)] # Cl!NoEntry
      BY <1>3, <1>4, <2>2, <3>1 DEF Cl!CacheGet, Copies
    <3>2. CASE UNCHANGED <<side, mem>> /\ Cl!Goto(p, "db")
      BY <1>4, <2>2, <3>2 DEF Cl!CacheGet, Cl!Goto, Knows, Copies
    <3> QED
      BY <1>4, <3>1, <3>2 DEF Cl!CacheGet
  <2> QED
    BY <1>2, <2>1, <2>2 DEF Copies
<1>5. CASE Cl!DbRead(p)
  <2>1. /\ UNCHANGED <<bal, cache, side>> /\ clPc[p] = "db"
        /\ mem' = [mem EXCEPT ![p][Cl!At(p)] = bal[Cl!At(p)]]
        /\ clPc' = [clPc EXCEPT ![p] = "set"]
    BY <1>5 DEF Cl!DbRead, Cl!Goto
  <2>2. ASSUME Knows(p, a)' PROVE mem'[p][a] = Balance0[a]
    <3>1. CASE Cl!At(p) = a
      BY <2>1, <3>1 DEF Copies
    <3>2. CASE Cl!At(p) # a
      <4>1. Knows(p, a)
        BY <2>1, <2>2, <3>2 DEF Knows, Cl!At
      <4> QED
        BY <2>1, <3>2, <4>1 DEF Copies
    <3> QED
      BY <3>1, <3>2
  <2> QED
    BY <1>2, <2>1, <2>2 DEF Copies
<1>6. CASE Cl!CacheSet(p)
  <2>1. /\ UNCHANGED bal /\ clPc[p] = "set"
        /\ cache' = [cache EXCEPT ![Cl!At(p)] = mem[p][Cl!At(p)]]
        /\ Cl!Loaded(p, mem[p][Cl!At(p)])
    BY <1>6 DEF Cl!CacheSet
  <2>2. Cl!At(p) = a => mem[p][a] = Balance0[a]
    BY <2>1 DEF Copies, Knows
  <2>3. cache'[a] \in {Cl!NoEntry, Balance0[a]}
    BY <2>1, <2>2 DEF Copies
  <2> QED
    BY <1>2, <1>3, <2>1, <2>2, <2>3 DEF Copies
<1>7. CASE Cl!DbWrite(p)
  <2>1. p \in Requests /\ clPc[p] = "write" /\ UNCHANGED <<cache, side, mem>>
    BY <1>7 DEF Cl!DbWrite
  <2>2. bal'[a] = bal[a] /\ clPc'[p] \in {"del", "pubFail"}
    <3>1. CASE bal' = [bal EXCEPT ![Cl!At(p)] = Cl!NewBalance(p)] /\ Cl!Goto(p, "del")
      <4>1. HasMoved(p)' /\ clPc'[p] = "del"
        BY <2>1, <3>1 DEF HasMoved, Cl!HalfDone, Cl!Goto
      <4>2. Cl!At(p) # a
        BY <2>1, <4>1
      <4> QED
        BY <3>1, <4>1, <4>2
    <3>2. CASE UNCHANGED bal /\ Cl!Throw(p)
      BY <2>1, <3>2 DEF Cl!Throw, Cl!OnThrow, Cl!Goto
    <3> QED
      BY <1>7, <3>1, <3>2 DEF Cl!DbWrite
  <2>3. ~Knows(p, a)'
    BY <2>1, <2>2 DEF Knows
  <2> QED
    BY <1>2, <2>1, <2>2, <2>3 DEF Copies
<1>8. CASE Cl!CacheDel(p)
  <2>1. UNCHANGED bal /\ cache'[a] \in {Cl!NoEntry, cache[a]}
    BY <1>8 DEF Cl!CacheDel, Cl!ledger
  <2>2. ~Knows(p, a)'
    BY <1>8 DEF Cl!CacheDel, Cl!Goto, Knows
  <2> QED
    BY <1>2, <2>1, <2>2 DEF Copies
<1> QED
  BY <1>4, <1>5, <1>6, <1>7, <1>8 DEF Cl!AccountStep

\* Neither do other steps touch a balance or a copy of it.
LEMMA CopiesRest ==
  ASSUME ClSide, NEW a \in Users, Copies(a),
         \/ \E p \in Requests : Cl!TransferStep(p)
         \/ \E p \in Requests \cup Reads : Cl!Begin(p)
         \/ \E t \in Requests : Cl!Arrive(t)
         \/ \E u \in Users : Cl!Expire(u)
         \/ UNCHANGED clVars
  PROVE  Copies(a)'
<1> USE ClTypes
<1>1. bal' = bal /\ cache'[a] \in {Cl!NoEntry, cache[a]}
  BY DEF Cl!TransferStep, Cl!LedgerDebit, Cl!LedgerCredit, Cl!PublishSuccess,
     Cl!PublishShort, Cl!PublishFailure, Cl!Ack, Cl!Begin, Cl!Arrive, Cl!Expire, clVars
<1>2. ASSUME NEW p \in Requests \cup Reads, Knows(p, a)'
      PROVE  Knows(p, a) /\ mem'[p][a] = mem[p][a]
  <2>1. CASE UNCHANGED <<clPc[p], side[p], mem[p]>>
    BY <1>2, <2>1 DEF Knows, Cl!At
  <2>2. ASSUME NEW q \in Requests \cup Reads, q # p,
               (q \in Requests /\ Cl!TransferStep(q)) \/ Cl!Begin(q) \/ Cl!Arrive(q)
        PROVE  UNCHANGED <<clPc[p], side[p], mem[p]>>
    BY <2>2 DEF Cl!TransferStep, Cl!LedgerDebit, Cl!LedgerCredit, Cl!PublishSuccess,
       Cl!PublishShort, Cl!PublishFailure, Cl!Ack, Cl!Publish, Cl!Throw, Cl!Goto,
       Cl!Begin, Cl!Arrive
  <2>3. CASE (\E u \in Users : Cl!Expire(u)) \/ UNCHANGED clVars
    BY <2>1, <2>3 DEF Cl!Expire, clVars
  <2>4. CASE p \in Requests /\ Cl!TransferStep(p)
    BY <1>2, <2>4 DEF Cl!TransferStep, Cl!LedgerDebit, Cl!LedgerCredit, Cl!PublishSuccess,
       Cl!PublishShort, Cl!PublishFailure, Cl!Ack, Cl!Publish, Cl!AfterReport, Cl!Throw,
       Cl!OnThrow, Cl!Goto, Knows
  <2>5. CASE Cl!Begin(p) \/ Cl!Arrive(p)
    BY <1>2, <2>5 DEF Cl!Begin, Cl!Arrive, Cl!Goto, Knows
  <2> QED
    BY <2>1, <2>2, <2>3, <2>4, <2>5
<1> QED
  BY <1>1, <1>2 DEF Copies

\* What a POST is told of an original balance is original.
LEMMA ToldStep ==
  ASSUME TxSide, ClSide, AcceptedSide, [Next]_vars, UNCHANGED faults,
         NEW a \in Users, Original(a)
  PROVE  ToldOf(a)'
<1> USE DEF Original, ToldOf
<1>1. CASE UNCHANGED told /\ \A t \in Requests : Told(t)' => Told(t)
  BY <1>1
<1>2. CASE \E p \in Requests \cup Deliveries : TxStep(p)
  BY <1>1, <1>2, AcceptedTx DEF TxStep
<1>3. ASSUME NEW p \in Requests, AnswerSender(p)
      PROVE  ToldOf(a)'
  <2> DEFINE r == <<p, "sender">>
  <2>1. /\ UNCHANGED phase /\ txPc[p] = "askSender" /\ phase[p] = "check"
        /\ \/ /\ clPc[r] = "done" /\ txPc' = [txPc EXCEPT ![p] = "askReceiver"]
              /\ told' = [told EXCEPT ![p] = mem[r][Sender[p]]]
           \/ UNCHANGED told /\ txPc' = [txPc EXCEPT ![p] = "refused"]
    BY <1>3, TxTypes DEF AnswerSender, Tx!AskSender, Tx!Goto, Tx!memo, AcceptedSide,
       Accepted
  <2>2. r \in Reads /\ AccountOf[r] = Sender[p]
    BY DEF Reads, AccountOf
  <2>3. clPc[r] = "done" /\ Sender[p] = a => mem[r][Sender[p]] = Balance0[a]
    BY <2>2 DEF Copies, Knows
  <2>4. ASSUME NEW t \in Requests \ {p}, Told(t)'
        PROVE  Told(t) /\ told'[t] = told[t]
    BY <2>1, <2>4, TxTypes DEF Told, AcceptedSide
  <2>5. ASSUME Sender[p] = a, Told(p)'
        PROVE  told'[p] = Balance0[a]
    BY <2>1, <2>3, <2>5, TxTypes DEF Told, AcceptedSide
  <2> QED
    BY <2>4, <2>5
<1>4. ASSUME NEW p \in Requests, AnswerReceiver(p)
      PROVE  UNCHANGED told /\ \A t \in Requests : Told(t)' => Told(t)
  <2>1. /\ UNCHANGED told /\ txPc[p] = "askReceiver"
        /\ \E l \in {"getIdem", "refused", "failed"} : txPc' = [txPc EXCEPT ![p] = l]
        /\ UNCHANGED phase \/ phase' = [phase EXCEPT ![p] = "create"]
    BY <1>4 DEF AnswerReceiver, Tx!AskReceiver, Tx!Goto, Tx!memo
  <2> QED
    BY <2>1, TxTypes DEF Told
<1> QED
  BY <1>1, <1>2, <1>3, <1>4, AcceptedRest DEF Next, PostStep

\* An account no transfer has changed after a step had been changed by none before
\* it, so its copies were the original ones, and are still.
LEMMA OriginalStep ==
  ASSUME TxSide, ClSide, AcceptedSide, OriginalSide, [Next]_vars
  PROVE  OriginalSide'
<1> SUFFICES ASSUME ~Broken', NEW a \in Users, Unmoved(a)'
             PROVE  Original(a)'
  BY DEF OriginalSide
<1>1. UNCHANGED <<faults, crashes>> /\ ~Broken
  BY CalmStep DEF Broken
<1>2. \/ \E p \in Requests \cup Reads : Cl!AccountStep(p)
      \/ \E p \in Requests : Cl!TransferStep(p)
      \/ \E p \in Requests \cup Reads : Cl!Begin(p)
      \/ \E t \in Requests : Cl!Arrive(t)
      \/ \E u \in Users : Cl!Expire(u)
      \/ UNCHANGED clVars
  <2>1. ~Cl!Crash
    BY <1>1, CalmStep DEF Cl!Crash
  <2>2. CASE \E p \in Requests \cup Deliveries : TxStep(p)
    BY <2>2 DEF TxStep
  <2>3. CASE \E p \in Requests : PostStep(p)
    BY <2>3 DEF PostStep, AnswerSender, AnswerReceiver, Ask
  <2>4. CASE \E p \in Requests \cup Reads : ClStep(p)
    BY <2>4 DEF ClStep
  <2>5. CASE TxEnvironment \/ ClEnvironment
    BY <2>1, <2>5 DEF TxEnvironment, ClEnvironment
  <2>6. CASE \E t \in Requests : Arrive(t) \/ Deliver(t)
    BY <2>6 DEF Arrive, Deliver
  <2>7. CASE \/ \E d \in Deliveries, t \in Requests, s \in Tx!Final : Report(d, t, s)
             \/ \E m \in Requests \cup Deliveries : Lose(m)
             \/ UNCHANGED vars
    BY <2>7 DEF Report, Lose, vars
  <2> QED
    BY <2>2, <2>3, <2>4, <2>5, <2>6, <2>7 DEF Next
<1>3. Unmoved(a)
  <2>1. ASSUME NEW u \in Requests, a \in Cl!Accounts(u), HasMoved(u)
        PROVE  FALSE
    <3>1. HasMoved(u)'
      BY <1>1, <1>2, <2>1, MovedStays
    <3>2. Cl!Accounts(u)' = Cl!Accounts(u)
      BY DEF Cl!Accounts
    <3> QED
      BY <2>1, <3>1, <3>2 DEF Unmoved
  <2> QED
    BY <2>1 DEF Unmoved
<1>4. Original(a)
  BY <1>1, <1>3 DEF OriginalSide
<1>5. ToldOf(a)'
  BY <1>1, <1>4, ToldStep
<1>6. Copies(a)'
  <2>1. Copies(a)
    BY <1>4 DEF Original
  <2>2. ASSUME NEW p \in Requests \cup Reads, Cl!AccountStep(p)
        PROVE  Copies(a)'
    <3>1. p \in Requests /\ a \in Cl!Accounts(p) => ~HasMoved(p)'
      BY DEF Unmoved, Cl!Accounts
    <3> QED
      BY <1>1, <2>1, <2>2, <3>1, CopiesAccount
  <2> QED
    BY <1>2, <2>1, <2>2, CopiesRest
<1> QED
  BY <1>5, <1>6 DEF Original

\* Both invariants hold, on top of those of the parts.
LEMMA RefusalSound == Spec => [](TxSide /\ ClSide /\ AcceptedSide /\ OriginalSide)
<1>1. /\ TxSide /\ ClSide /\ AcceptedSide /\ OriginalSide /\ [Next]_vars
      => AcceptedSide' /\ OriginalSide'
  BY AcceptedStep, OriginalStep
<1> QED
  BY <1>1, RefusalInit, PartsSound, PTL DEF Spec

\* While nothing fails a transfer the transactions service found covered is called
\* too small only when another one has taken from, or paid to, the account since:
\* no cached copy, race or redelivery alone makes a balance look too small.
THEOREM RefusalsHaveReasons == Spec => []RefusedForAReason
<1>1. ASSUME TxSide, ClSide, AcceptedSide, OriginalSide
      PROVE  RefusedForAReason
  <2> SUFFICES ASSUME NEW t \in Requests, clPc[t] = "pubShort", ~Broken,
                      \A u \in Requests \ {t} : Sender[t] \in Cl!Accounts(u) => ~HasMoved(u)
               PROVE  FALSE
    BY DEF RefusedForAReason
  <2> DEFINE a == Sender[t]
  <2> USE <1>1
  <2>1. a \in Users /\ debits[t] \in Nat
    BY ClTypes
  <2>2. ~HasMoved(t)
    <3>1. faults \in Nat /\ crashes \in Nat
      BY ClConstants DEF ClSide, ClP!TypeOK, ClP!Budgets, ClP!ConstantsAssumption
    <3>2. debits[t] <= faults + crashes /\ ~(faults + crashes > 0)
      BY DEF ClSide, ClP!LedgerInvariant, ClP!Attempted, ClP!Troubles, Broken
    <3> QED
      BY <2>1, <3>1, <3>2 DEF HasMoved, Cl!HalfDone
  <2>3. Original(a)
    BY <2>1, <2>2 DEF Unmoved, OriginalSide
  <2>4. mem[t][a] = Balance0[a] /\ mem[t][a] < Amount[t]
    BY <2>3 DEF Original, Copies, Knows, AcceptedSide, Accepted
  <2>5. told[t] = Balance0[a] /\ told[t] >= Amount[t]
    <3>1. phase[t] \in {"create", "save"}
      BY DEF AcceptedSide, Accepted
    <3> QED
      BY <2>3, <3>1 DEF Original, ToldOf, Told, AcceptedSide, Accepted
  <2>6. Balance0[a] \in Int /\ Amount[t] \in Int
    BY <2>1, ConstantsAssumption DEF ConstantsAssumption
  <2> QED
    BY <2>4, <2>5, <2>6
<1> QED
  BY <1>1, RefusalSound, PTL
=============================================================================
