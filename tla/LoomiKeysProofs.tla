--------------------------- MODULE LoomiKeysProofs ---------------------------
(***************************************************************************)
(* An idempotency key moves money once: from the unique index of the one   *)
(* service to the ledger of the other.  And a transfer goes only the way   *)
(* TransferOutcomes allows.                                                *)
(***************************************************************************)
EXTENDS LoomiProofs

LEMMA MoreTrouble ==
  ASSUME NEW a \in Nat, NEW b \in Nat, NEW c \in {a, a + 1}, NEW d \in {b, b + 1}
  PROVE  c + d >= a + b /\ a + b \in Nat
OBVIOUS

LEMMA OneMore ==
  ASSUME NEW a \in Nat, NEW b \in Nat, NEW c \in {a, a + 1}, NEW d \in {b, b + 1},
         c = a + 1 \/ d = b + 1
  PROVE  c + d >= 1 + a + b
OBVIOUS

\* A count within its bound stays there when the bound does not shrink.
LEMMA StillBounded ==
  ASSUME NEW n \in Nat, NEW a \in Nat, NEW b \in Nat, NEW c \in {a, a + 1}, NEW d \in {b, b + 1}
  PROVE  /\ n <= 1 + a + b => n <= 1 + c + d
         /\ n <= a + b => n <= c + d
         /\ n <= 1 + a + b /\ c + d >= 1 + a + b => n <= c + d
OBVIOUS

USE ConstantsAssumption DEF ConstantsAssumption, Tx!Final

-----------------------------------------------------------------------------
\* A transfer is debited only if it arrived, arrives only if it was published, is
\* published only if it is stored, and is stored alone of its key.
Stored(t) == row[t] # "none"
Arrived(t) == clPc[t] # "init"

Once(t) ==
  /\ debits[t] <= 1 + faults + crashes
  /\ clPc[t] \notin {"ledgerCredit", "pubSuccess", "pubFail", "ack", "acked"} =>
       debits[t] <= faults + crashes

OneRow ==
  /\ \A t \in Requests : Stored(t) => row[t] \in {"PENDING"} \cup Tx!Final
  /\ \A t, u \in Requests : Stored(t) /\ Stored(u) /\ KeyOf[t] = KeyOf[u] => t = u

Sent ==
  /\ published \in [Requests -> Nat]
  /\ \A t \in Requests : published[t] > 0 \/ txPc[t] = "publish" => Stored(t)
  /\ \A t \in Requests : Arrived(t) => published[t] > 0

Spent ==
  /\ \A t \in Requests : debits[t] > 0 \/ said[t] # {} => Arrived(t)
  /\ \A t \in Requests : Once(t)

KeySide == OneRow /\ Sent /\ Spent

LEMMA KeyInit == Init => KeySide
<1> SUFFICES ASSUME Init PROVE KeySide
  OBVIOUS
<1>1. OneRow /\ Sent
  BY DEF Init, Tx!Init, Tx!Procs, Cl!Init, Cl!Procs, OneRow, Sent, Stored, Arrived
<1>2. Spent
  BY DEF Init, Cl!Init, Cl!Procs, Spent, Once, Arrived, said, Reported
<1> QED
  BY <1>1, <1>2 DEF KeySide

\* The ways the table changes: an insert of a free key, or an update of a row to
\* what was reported.
LEMMA RowStep ==
  ASSUME Truthful, KeySide, NEW p \in TxProcs, TxStep(p)
  PROVE  \/ row' = row
         \/ p \in Requests /\ row' = [row EXCEPT ![p] = "PENDING"] /\ ~Tx!KeyTaken(p)
         \/ \E t \in Requests, s \in Tx!Final :
              Stored(t) /\ s \in said[t] /\ row' = [row EXCEPT ![t] = s]
<1>1. CASE Tx!FindStep(p)
  BY <1>1 DEF Tx!FindStep, Tx!GetIdem, Tx!DbByIdem, Tx!SetIdemFound, Tx!GetTx, Tx!DbById,
     Tx!SetTx, Tx!SetIdem, Tx!store
<1>2. CASE p \in Requests /\ (Tx!DbCreate(p) \/ Tx!LogCreated(p) \/ Tx!Publish(p))
  BY <1>2 DEF Tx!DbCreate, Tx!LogCreated, Tx!Publish, Tx!store
<1>3. CASE p \in Deliveries /\ Tx!DbUpdate(p)
  <2>1. row' = row \/ (row' = [row EXCEPT ![tx[p]] = outcome[p]] /\ txPc[p] = "dbUpdate")
    BY <1>3 DEF Tx!DbUpdate
  <2>2. CASE tx[p] \in Requests /\ txPc[p] = "dbUpdate"
    <3>1. outcome[p] \in Tx!Final /\ outcome[p] \in said[tx[p]]
      BY <1>3, <2>2 DEF Truthful, StatusSide, Local, TxProcs
    <3>2. Stored(tx[p])
      BY <2>2, <3>1 DEF KeySide, Spent, Sent
    <3> QED
      BY <2>1, <2>2, <3>1, <3>2
  <2>3. CASE tx[p] \notin Requests
    BY <2>1, <2>3 DEF Truthful, StatusSide, Maps
  <2> QED
    BY <2>1, <2>2, <2>3
<1>4. CASE p \in Deliveries /\ Tx!DeliveryStep(p) /\ ~Tx!DbUpdate(p)
  BY <1>4 DEF Tx!DeliveryStep, Tx!Deliver, Tx!LogUpdated, Tx!DelTx, Tx!DelIdem, Tx!Ack, Tx!store
<1> QED
  BY <1>1, <1>2, <1>3, <1>4 DEF TxStep

\* A handler is about to publish only what it found stored when it logged it.
LEMMA PublishStep ==
  ASSUME Truthful, KeySide, NEW p \in TxProcs, TxStep(p), NEW t \in Requests
  PROVE  /\ txPc'[t] = "publish" => txPc[t] = "publish" \/ Stored(t)
         /\ published' \in [Requests -> Nat] /\ published'[t] >= published[t]
         /\ published'[t] > 0 => Stored(t)
<1> USE DEF Truthful, StatusSide
<1>1. Maps(txPc, TxProcs) /\ t \in TxProcs
  BY DEF TxProcs
<1>2. ASSUME NEW l, Tx!Goto(p, l)
      PROVE  txPc'[p] = l /\ \A q \in TxProcs \ {p} : txPc'[q] = txPc[q]
  BY <1>1, <1>2 DEF Tx!Goto, Maps
<1>3. CASE Tx!FindStep(p)
  <2>1. \E l : Tx!Goto(p, l) /\ l # "publish"
    <3>1. ASSUME NEW s, Tx!Found(p, s) PROVE Tx!AfterFound(p, s) # "publish"
      BY DEF Tx!AfterFound, Local, Tx!Phases
    <3>2. Tx!AfterMissing(p) # "publish" /\ Tx!OnThrow(p) # "publish"
      BY DEF Tx!AfterMissing, Tx!OnThrow, Local, Tx!Phases
    <3> QED
      BY <1>3, <3>1, <3>2 DEF Tx!FindStep, Tx!GetIdem, Tx!DbByIdem, Tx!SetIdemFound, Tx!GetTx,
         Tx!DbById, Tx!SetTx, Tx!SetIdem, Tx!Found, Tx!Missing, Tx!Throw
  <2>2. published' = published
    BY <1>3 DEF Tx!FindStep, Tx!GetIdem, Tx!DbByIdem, Tx!SetIdemFound, Tx!GetTx,
         Tx!DbById, Tx!SetTx, Tx!SetIdem, Tx!bus
  <2> QED
    BY <1>1, <1>2, <2>1, <2>2 DEF KeySide, Sent
<1>4. CASE p \in Requests /\ (Tx!DbCreate(p) \/ Tx!LogCreated(p))
  <2>1. published' = published
    BY <1>4 DEF Tx!DbCreate, Tx!LogCreated, Tx!bus
  <2>2. \E l : Tx!Goto(p, l) /\ (l = "publish" => Stored(p))
    BY <1>4 DEF Tx!DbCreate, Tx!LogCreated, Tx!Stored, Stored, Tx!Throw, Tx!OnThrow
  <2> QED
    BY <1>1, <1>2, <2>1, <2>2 DEF KeySide, Sent
<1>5. CASE p \in Requests /\ Tx!Publish(p)
  <2>1. txPc[p] = "publish" /\ (Tx!Goto(p, "ok") \/ Tx!Goto(p, "failed"))
    BY <1>5 DEF Tx!Publish
  <2>2. \E n \in {0, 1} : published' = [published EXCEPT ![p] = @ + n]
    BY <1>5 DEF Tx!Publish
  <2> QED
    BY <1>1, <1>2, <1>5, <2>1, <2>2 DEF KeySide, Sent
<1>6. CASE p \in Deliveries /\ Tx!DeliveryStep(p)
  <2>1. published' = published
    BY <1>6 DEF Tx!DeliveryStep, Tx!Deliver, Tx!LogUpdated, Tx!DbUpdate, Tx!DelTx, Tx!DelIdem,
       Tx!Ack, Tx!bus
  <2>2. \E l : Tx!Goto(p, l)
    BY <1>6 DEF Tx!DeliveryStep, Tx!Deliver, Tx!LogUpdated, Tx!DbUpdate, Tx!DelTx, Tx!DelIdem,
       Tx!Ack, Tx!Throw
  <2> QED
    BY <1>1, <1>2, <1>6, <2>1, <2>2 DEF KeySide, Sent
<1> QED
  BY <1>3, <1>4, <1>5, <1>6 DEF TxStep

\* A step of a handler of the transactions service keeps one row per key, and
\* every message's transfer stored.
LEMMA KeyTx ==
  ASSUME Truthful, KeySide, NEW p \in TxProcs, TxStep(p)
  PROVE  OneRow' /\ Sent'
<1>1. Maps(row, Requests) /\ clPc' = clPc
  BY DEF Truthful, StatusSide, TxStep, clVars
<1>2. OneRow' /\ \A t \in Requests : Stored(t) => Stored(t)'
  <2>1. CASE row' = row
    BY <2>1 DEF KeySide, OneRow, Stored
  <2>2. CASE p \in Requests /\ row' = [row EXCEPT ![p] = "PENDING"] /\ ~Tx!KeyTaken(p)
    BY <1>1, <2>2 DEF KeySide, OneRow, Stored, Maps, Tx!KeyTaken
  <2>3. CASE \E t \in Requests, s \in Tx!Final : Stored(t) /\ row' = [row EXCEPT ![t] = s]
    BY <1>1, <2>3 DEF KeySide, OneRow, Stored, Maps
  <2> QED
    BY <2>1, <2>2, <2>3, RowStep
<1>3. Sent'
  <2>1. published' \in [Requests -> Nat]
    <3>1. CASE Requests = {}
      <4>1. published' = published \/ \E x, v : published' = [published EXCEPT ![x] = v]
        BY DEF TxStep, Tx!FindStep, Tx!GetIdem, Tx!DbByIdem, Tx!SetIdemFound, Tx!GetTx,
           Tx!DbById, Tx!SetTx, Tx!SetIdem, Tx!DbCreate, Tx!LogCreated, Tx!Publish,
           Tx!DeliveryStep, Tx!Deliver, Tx!LogUpdated, Tx!DbUpdate, Tx!DelTx, Tx!DelIdem,
           Tx!Ack, Tx!bus
      <4> QED
        BY <3>1, <4>1 DEF KeySide, Sent
    <3>2. CASE Requests # {}
      BY <3>2, PublishStep
    <3> QED
      BY <3>1, <3>2
  <2>2. ASSUME NEW t \in Requests
        PROVE  /\ published'[t] > 0 \/ txPc'[t] = "publish" => Stored(t)'
               /\ Arrived(t)' => published'[t] > 0
    <3>1. /\ txPc'[t] = "publish" => txPc[t] = "publish" \/ Stored(t)
          /\ published'[t] \in Nat /\ published'[t] >= published[t]
          /\ published'[t] > 0 => Stored(t)
      BY <2>1, PublishStep
    <3>2. /\ txPc[t] = "publish" => Stored(t)
          /\ Arrived(t) => published[t] > 0
          /\ published[t] \in Nat
      BY DEF KeySide, Sent
    <3>3. Arrived(t)' = Arrived(t)
      BY <1>1 DEF Arrived
    <3> QED
      BY <1>2, <3>1, <3>2, <3>3
  <2> QED
    BY <2>1, <2>2 DEF Sent
<1> QED
  BY <1>2, <1>3

\* Steps that neither store nor publish.
LEMMA KeyRest ==
  ASSUME KeySide, UNCHANGED <<row, published>>,
         \A t \in Requests : txPc'[t] = "publish" => txPc[t] = "publish",
         \A t \in Requests : Arrived(t)' => Arrived(t) \/ published[t] > 0
  PROVE  OneRow' /\ Sent'
BY DEF KeySide, OneRow, Sent, Stored, Arrived

\* Debits, by the steps of the clients service.
LEMMA SpentAccount ==
  ASSUME KeySide, LedgerSide, Smooth, NEW p \in ClProcs, Cl!AccountStep(p),
         faults' \in {faults, faults + 1}, crashes' \in {crashes, crashes + 1}
  PROVE  Spent' /\ \A t \in Requests : Arrived(t)' => Arrived(t)
<1>1. UNCHANGED <<successes, failures, credits, debits>>
  BY DEF Cl!AccountStep, Cl!CacheGet, Cl!DbRead, Cl!CacheSet, Cl!DbWrite, Cl!CacheDel,
         Cl!ledger, Cl!answers
<1>2. /\ \E l \in Cl!Labels \ {"init"} : clPc' = [clPc EXCEPT ![p] = l]
      /\ clPc[p] \in {"get", "db", "set", "write", "del"}
  BY DEF Cl!AccountStep, Cl!CacheGet, Cl!DbRead, Cl!CacheSet, Cl!DbWrite, Cl!CacheDel,
         Cl!Goto, Cl!Throw, Cl!OnThrow, Cl!Loaded, Cl!Debited, Cl!Covers, Cl!Labels, Cl!Resting
<1>3. Maps(clPc, ClProcs)
  BY DEF LedgerSide
<1>4. \A t \in Requests : \/ clPc'[t] = clPc[t]
                          \/ /\ clPc[t] \in {"get", "db", "set", "write", "del"}
                             /\ clPc'[t] # "init"
  BY <1>2, <1>3 DEF Maps, ClProcs
<1>5. said' = said
  BY <1>1, SaidKept
<1>6. ASSUME NEW t \in Requests
      PROVE  Once(t)' /\ (debits'[t] > 0 \/ said'[t] # {} => Arrived(t)')
  <2>1. debits'[t] = debits[t] /\ debits[t] \in Nat
    BY <1>1 DEF LedgerSide
  <2>2. faults' + crashes' >= faults + crashes /\ faults + crashes \in Nat
    BY MoreTrouble DEF Smooth
  <2>3. Once(t)'
    BY <1>4, <2>1, <2>2 DEF KeySide, Spent, Once, Smooth
  <2> QED
    BY <1>4, <1>5, <2>1, <2>3 DEF KeySide, Spent, Arrived
<1> QED
  BY <1>4, <1>6 DEF Spent, Arrived

LEMMA SpentTransfer ==
  ASSUME KeySide, LedgerSide, Smooth, NEW p \in Requests, Cl!TransferStep(p),
         faults' \in {faults, faults + 1}, crashes' \in {crashes, crashes + 1}
  PROVE  Spent' /\ \A t \in Requests : Arrived(t)' => Arrived(t)
<1> USE DEF LedgerSide
<1>1. Maps(clPc, ClProcs) /\ p \in ClProcs
  BY DEF ClProcs
<1>2. ASSUME NEW l, Cl!Goto(p, l)
      PROVE  clPc'[p] = l /\ \A t \in Requests \ {p} : clPc'[t] = clPc[t]
  BY <1>1, <1>2 DEF Cl!Goto, Maps, ClProcs
<1>3. /\ faults \in Nat /\ crashes \in Nat
      /\ faults' + crashes' >= faults + crashes /\ faults + crashes \in Nat
  BY MoreTrouble DEF Smooth
<1>4. \A t \in Requests \ {p} :
        /\ debits'[t] = debits[t] /\ clPc'[t] = clPc[t]
        /\ successes'[t] = successes[t] /\ failures'[t] = failures[t]
  BY <1>2 DEF Cl!TransferStep, Cl!LedgerDebit, Cl!LedgerCredit, Cl!PublishSuccess,
     Cl!PublishShort, Cl!PublishFailure, Cl!Ack, Cl!Publish, Cl!Enter, Cl!Throw, Cl!OnThrow,
     Cl!AfterReport, Cl!ledger, Cl!answers
<1>5. ASSUME NEW t \in Requests \ {p}
      PROVE  /\ Once(t)' /\ (debits'[t] > 0 \/ said'[t] # {} => Arrived(t)')
             /\ Arrived(t)' = Arrived(t)
  <2>1. said'[t] = said[t]
    BY <1>4 DEF said, Reported
  <2>2. debits[t] \in Nat
    OBVIOUS
  <2>3. Once(t)'
    BY <1>3, <1>4, <2>2 DEF KeySide, Spent, Once
  <2> QED
    BY <1>4, <2>1, <2>3 DEF KeySide, Spent, Arrived
<1>6. clPc[p] # "init" /\ clPc'[p] # "init"
  BY <1>2 DEF Cl!TransferStep, Cl!LedgerDebit, Cl!LedgerCredit, Cl!PublishSuccess,
     Cl!PublishShort, Cl!PublishFailure, Cl!Ack, Cl!Publish, Cl!Throw, Cl!OnThrow,
     Cl!AfterReport
<1>7. Once(p)'
  <2>1. debits[p] \in Nat /\ Once(p)
    BY DEF KeySide, Spent
  <2> USE <1>2, <1>3, <2>1 DEF Once, Cl!Throw, Cl!OnThrow, Cl!Publish, Cl!AfterReport, Cl!ledger
  <2>2. CASE Cl!LedgerDebit(p)
    BY <2>2 DEF Cl!LedgerDebit, Cl!Enter
  <2>3. CASE Cl!LedgerCredit(p)
    BY <2>3 DEF Cl!LedgerCredit
  <2>4. CASE Cl!PublishSuccess(p)
    BY <2>4 DEF Cl!PublishSuccess
  <2>5. CASE Cl!PublishShort(p)
    BY <2>5 DEF Cl!PublishShort
  <2>6. CASE Cl!PublishFailure(p)
    <3>1. debits'[p] = debits[p]
      BY <2>6 DEF Cl!PublishFailure
    <3>2. clPc'[p] = "ack" \/ (clPc'[p] = "queued" /\ Cl!Fails)
      BY <2>6 DEF Cl!PublishFailure
    <3>3. Cl!Fails => faults' + crashes' >= 1 + faults + crashes
      BY OneMore DEF Cl!Fails
    <3>4. /\ debits'[p] <= 1 + faults' + crashes'
          /\ Cl!Fails => debits'[p] <= faults' + crashes'
      BY <3>1, <3>3, StillBounded
    <3> QED
      BY <3>2, <3>4
  <2>7. CASE Cl!Ack(p)
    BY <2>7 DEF Cl!Ack
  <2> QED
    BY <2>2, <2>3, <2>4, <2>5, <2>6, <2>7 DEF Cl!TransferStep
<1> QED
  BY <1>5, <1>6, <1>7 DEF Spent, Arrived

\* Messages, deliveries, crashes, and all that leaves the clients service alone.
LEMMA SpentRest ==
  ASSUME KeySide, LedgerSide, Smooth,
         \/ \E t \in Requests : published[t] > 0 /\ Cl!Arrive(t)
         \/ \E p \in ClProcs : Cl!Begin(p)
         \/ Cl!Crash
         \/ \E u \in Users : Cl!Expire(u)
         \/ UNCHANGED clVars,
         faults' \in {faults, faults + 1}, crashes' \in {crashes, crashes + 1}
  PROVE  Spent' /\ \A t \in Requests : Arrived(t)' => Arrived(t) \/ published[t] > 0
<1>1. UNCHANGED <<successes, failures, credits, debits>>
  BY DEF Cl!Arrive, Cl!Begin, Cl!Crash, Cl!Expire, Cl!ledger, Cl!answers, clVars
<1>2. said' = said
  BY <1>1, SaidKept
<1>3. /\ faults \in Nat /\ crashes \in Nat
      /\ faults' + crashes' >= faults + crashes /\ faults + crashes \in Nat
  BY MoreTrouble DEF Smooth
<1>4. \A t \in Requests :
        \/ clPc'[t] = clPc[t]
        \/ clPc[t] = "init" /\ clPc'[t] = "queued" /\ published[t] > 0
        \/ clPc[t] = "queued" /\ clPc'[t] = "get"
        \/ clPc[t] # "init" /\ clPc'[t] = "queued" /\ Cl!Crash
  <2>1. Maps(clPc, ClProcs)
    BY DEF LedgerSide
  <2>2. ASSUME NEW t \in Requests, published[t] > 0, Cl!Arrive(t)
        PROVE  clPc[t] = "init" /\ clPc' = [clPc EXCEPT ![t] = "queued"]
    BY <2>2 DEF Cl!Arrive, Cl!Goto
  <2>3. ASSUME NEW p \in ClProcs, Cl!Begin(p)
        PROVE  (p \in Requests => clPc[p] = "queued") /\ clPc' = [clPc EXCEPT ![p] = "get"]
    BY <2>3 DEF Cl!Begin, Cl!Goto
  <2>4. ASSUME Cl!Crash
        PROVE  \A t \in Requests : \/ clPc'[t] = clPc[t]
                                   \/ clPc[t] # "init" /\ clPc'[t] = "queued"
    BY <2>4 DEF Cl!Crash, Cl!Active, Cl!Resting, Cl!Procs
  <2>5. ASSUME (\E u \in Users : Cl!Expire(u)) \/ UNCHANGED clVars
        PROVE  clPc' = clPc
    BY <2>5 DEF Cl!Expire, clVars
  <2> QED
    BY <2>1, <2>2, <2>3, <2>4, <2>5 DEF Maps, ClProcs
<1>5. Cl!Crash => faults' + crashes' >= 1 + faults + crashes
  BY <1>3, OneMore DEF Cl!Crash
<1>6. ASSUME NEW t \in Requests
      PROVE  Once(t)' /\ (debits'[t] > 0 \/ said'[t] # {} => Arrived(t)')
  <2>1. debits'[t] = debits[t] /\ debits[t] \in Nat
    BY <1>1 DEF LedgerSide
  <2>2. Once(t)'
    <3>1. Once(t)
      BY DEF KeySide, Spent
    <3>2. debits'[t] <= 1 + faults' + crashes'
      BY <1>3, <2>1, <3>1, StillBounded DEF Once
    <3>3. debits[t] <= faults + crashes => debits'[t] <= faults' + crashes'
      BY <1>3, <2>1, StillBounded
    <3>4. Cl!Crash => debits'[t] <= faults' + crashes'
      BY <1>3, <1>5, <2>1, <3>1, StillBounded DEF Once
    <3> QED
      BY <1>4, <3>1, <3>2, <3>3, <3>4 DEF Once
  <2> QED
    BY <1>2, <1>4, <2>1, <2>2 DEF KeySide, Spent, Arrived
<1> QED
  BY <1>4, <1>6 DEF Spent, Arrived

LEMMA KeyStep ==
  ASSUME Truthful, Smooth, KeySide, [Next]_vars
  PROVE  KeySide'
<1>1. faults' \in {faults, faults + 1} /\ crashes' \in {crashes, crashes + 1}
  BY Budgets
<1>2. LedgerSide
  BY DEF Truthful
<1>3. CASE \E p \in Requests \cup Deliveries : TxStep(p)
  <2>1. UNCHANGED clVars
    BY <1>3 DEF TxStep
  <2> QED
    BY <1>1, <1>2, <1>3, <2>1, KeyTx, SpentRest DEF KeySide, TxProcs
<1>4. CASE \E p \in Requests \cup Reads : ClStep(p)
  <2>1. UNCHANGED <<row, published, txPc>>
    BY <1>4 DEF ClStep, txVars
  <2>2. Spent' /\ \A t \in Requests : Arrived(t)' => Arrived(t)
    BY <1>1, <1>2, <1>4, SpentAccount, SpentTransfer DEF ClStep, ClProcs
  <2> QED
    BY <2>1, <2>2, KeyRest DEF KeySide
<1>5. CASE \/ TxEnvironment
           \/ ClEnvironment
           \/ \E p \in Requests : PostStep(p)
           \/ \E t \in Requests : Arrive(t) \/ Deliver(t)
           \/ \E d \in Deliveries, t \in Requests, s \in Tx!Final : Report(d, t, s)
           \/ \E m \in Requests \cup Deliveries : Lose(m)
           \/ UNCHANGED vars
  <2>1. UNCHANGED <<row, published>>
    BY <1>5 DEF TxEnvironment, Tx!Post, Tx!Crash, Tx!Expire, ClEnvironment, PostStep,
       AnswerSender, AnswerReceiver, Tx!AskSender, Tx!AskReceiver, Ask, Arrive, Deliver, Report,
       Tx!Send, Lose, Tx!store, Tx!bus, txVars, vars
  <2>2. \A t \in Requests : txPc'[t] = "publish" => txPc[t] = "publish"
    <3>1. ASSUME Tx!Crash, NEW t \in Requests, txPc'[t] = "publish"
          PROVE  txPc[t] = "publish"
      BY <3>1 DEF Tx!Crash, Tx!Procs
    <3>2. ~Tx!Crash => txPc' = txPc \/ \E p, l : l # "publish" /\ txPc' = [txPc EXCEPT ![p] = l]
      BY <1>5 DEF TxEnvironment, Tx!Post, Tx!Expire, ClEnvironment, PostStep,
         AnswerSender, AnswerReceiver, Tx!AskSender, Tx!AskReceiver, Ask, Arrive, Deliver, Report,
         Tx!Send, Tx!Goto, Lose, txVars, vars
    <3>3. Maps(txPc, TxProcs) /\ Requests \subseteq TxProcs
      BY DEF Truthful, StatusSide, TxProcs
    <3> QED
      BY <3>1, <3>2, <3>3 DEF Maps
  <2>3. \/ \E t \in Requests : published[t] > 0 /\ Cl!Arrive(t)
        \/ \E p \in ClProcs : Cl!Begin(p)
        \/ Cl!Crash
        \/ \E u \in Users : Cl!Expire(u)
        \/ UNCHANGED clVars
    BY <1>5 DEF TxEnvironment, ClEnvironment, PostStep, AnswerSender, AnswerReceiver, Ask, Arrive,
       Deliver, Report, Lose, vars, ClProcs
  <2> QED
    BY <1>1, <1>2, <2>1, <2>2, <2>3, SpentRest, KeyRest DEF KeySide
<1> QED
  BY <1>3, <1>4, <1>5 DEF Next

\* However many POSTs carry a key, however often their messages are delivered and
\* whatever fails, one of them at most is debited, once, and once more for each
\* failure or crash of either service.
THEOREM KeysAreDebitedOnce == Spec => []KeyIsDebitedOnce
<1>1. Truthful /\ Smooth /\ KeySide => KeyIsDebitedOnce
  <2> SUFFICES ASSUME Truthful, Smooth, KeySide, NEW t \in Requests, NEW u \in Requests,
                      KeyOf[t] = KeyOf[u]
               PROVE  /\ t # u => debits[t] = 0 \/ debits[u] = 0
                      /\ debits[t] <= 1 + faults + crashes
    BY DEF KeyIsDebitedOnce
  <2>1. debits[t] \in Nat /\ debits[u] \in Nat
    BY DEF Truthful, LedgerSide
  <2>2. \A x \in Requests : debits[x] > 0 => Stored(x)
    BY DEF KeySide, Spent, Sent
  <2> QED
    BY <2>1, <2>2 DEF KeySide, OneRow, Spent, Once
<1>2. Truthful /\ Smooth /\ KeySide /\ [Next]_vars => KeySide'
  BY KeyStep
<1> QED
  BY <1>1, <1>2, KeyInit, TruthfulSmooth, PTL DEF Spec

-----------------------------------------------------------------------------
\* Every step of both services is a step of a transfer in TransferOutcomes, or
\* none.

LEMMA OutcomesInit == Init => Outcomes!Init
<1> SUFFICES ASSUME Init PROVE Outcomes!Init
  OBVIOUS
<1>1. said = [t \in Requests |-> {}]
  BY DEF Init, Cl!Init, said, Reported
<1> QED
  BY <1>1 DEF Init, Tx!Init, Cl!Init, Outcomes!Init

LEMMA OneTrouble ==
  ASSUME NEW a \in Nat, NEW b \in Nat, NEW c \in {a, a + 1}, NEW d \in {b, b + 1}, c = a \/ d = b
  PROVE  c + d \in {a + b, a + b + 1}
OBVIOUS

\* What the transactions service does to the table.
LEMMA OutcomesRow ==
  ASSUME Truthful, Smooth, KeySide, NEW p \in TxProcs, TxStep(p)
  PROVE  \/ UNCHANGED <<row, debits, credits, said>>
         \/ \E t \in Requests : Outcomes!Accept(t) \/ Outcomes!Settle(t)
<1>1. UNCHANGED <<debits, credits, said>>
  BY SaidKept DEF TxStep, clVars
<1>2. CASE p \in Requests /\ row' = [row EXCEPT ![p] = "PENDING"] /\ ~Tx!KeyTaken(p)
  BY <1>1, <1>2 DEF Outcomes!Accept, Tx!KeyTaken
<1>3. ASSUME NEW t \in Requests, NEW s \in Tx!Final,
             Stored(t), s \in said[t], row' = [row EXCEPT ![t] = s], row' # row
      PROVE  Outcomes!Settle(t)
  <2>1. Maps(row, Requests)
    BY DEF Truthful, StatusSide
  <2>2. row[t] # row'[t]
    BY <1>3, <2>1 DEF Maps
  <2>3. row[t] \in Tx!Final => Broken
    BY <2>2, FlipStep DEF Next, TxProcs
  <2> QED
    BY <1>1, <1>3, <2>3 DEF KeySide, OneRow, Stored, Outcomes!Settle, Broken
<1> QED
  BY <1>1, <1>2, <1>3, RowStep

\* What the clients service does to the ledger and to its reports.
LEMMA OutcomesTransfer ==
  ASSUME Truthful, Smooth, KeySide, NEW t \in Requests, Cl!TransferStep(t), UNCHANGED row
  PROVE  \/ UNCHANGED <<row, debits, credits, said>>
         \/ Outcomes!Debit(t) \/ Outcomes!Credit(t) \/ Outcomes!Succeed(t) \/ Outcomes!Fail(t)
<1> USE DEF Truthful, LedgerSide
<1>1. clPc[t] # "init" => Stored(t)
  BY DEF KeySide, Spent, Sent, Arrived
<1>2. ~Broken => TriedOnce(t)
  BY DEF Smooth
<1>3. clPc[t] \in {"ledgerDebit", "ledgerCredit", "pubSuccess", "pubShort", "pubFail"}
      => Outcomes!TakesUp(t)
  BY <1>1, <1>2 DEF Outcomes!TakesUp, Stored, Broken, TriedOnce, Counts, said, Reported
<1>4. ASSUME NEW s \in Tx!Final, NEW n \in {0, 1},
             IF s = "SUCCESS" THEN successes' = [successes EXCEPT ![t] = @ + n] /\ failures' = failures
                              ELSE failures' = [failures EXCEPT ![t] = @ + n] /\ successes' = successes
      PROVE  said' = said \/ said' = [said EXCEPT ![t] = @ \cup {s}]
  <2>1. CASE n = 0
    BY <1>4, <2>1 DEF said, Reported
  <2>2. CASE n = 1
    <3>1. \A u \in Requests, r \in Tx!Final :
            Reported(u, r)' = Reported(u, r) + IF u = t /\ r = s THEN 1 ELSE 0
      BY <1>4, <2>2 DEF Reported
    <3>2. \A u \in Requests, r \in Tx!Final : Reported(u, r) \in Nat
      BY DEF Reported
    <3>3. \A u \in Requests : said'[u] = IF u = t THEN said[u] \cup {s} ELSE said[u]
      BY <3>1, <3>2 DEF said
    <3> QED
      BY <3>3 DEF said
  <2> QED
    BY <2>1, <2>2
<1>5. CASE Cl!LedgerDebit(t)
  <2>1. clPc[t] = "ledgerDebit" /\ said' = said
    BY <1>5, SaidKept DEF Cl!LedgerDebit, Cl!answers
  <2>2. debits[t] <= faults + crashes
    BY <2>1 DEF KeySide, Spent, Once
  <2> QED
    BY <1>3, <1>5, <2>1, <2>2 DEF Cl!LedgerDebit, Cl!Enter, Outcomes!Debit
<1>6. CASE Cl!LedgerCredit(t)
  <2>1. clPc[t] = "ledgerCredit" /\ said' = said
    BY <1>6, SaidKept DEF Cl!LedgerCredit, Cl!answers
  <2> QED
    BY <1>3, <1>6, <2>1 DEF Cl!LedgerCredit, Cl!Enter, Outcomes!Credit, Entered
<1>7. CASE Cl!PublishSuccess(t)
  <2>1. clPc[t] = "pubSuccess" /\ UNCHANGED <<debits, credits>> /\ credits[t] > 0
    BY <1>7 DEF Cl!PublishSuccess, Cl!ledger, Entered
  <2>2. said' = said \/ said' = [said EXCEPT ![t] = @ \cup {"SUCCESS"}]
    BY <1>4, <1>7 DEF Cl!PublishSuccess, Cl!Publish
  <2> QED
    BY <1>3, <2>1, <2>2 DEF Outcomes!Succeed
<1>8. CASE Cl!PublishShort(t) \/ Cl!PublishFailure(t)
  <2>1. clPc[t] \in {"pubShort", "pubFail"} /\ UNCHANGED <<debits, credits>>
    BY <1>8 DEF Cl!PublishShort, Cl!PublishFailure, Cl!ledger
  <2>2. said' = said \/ said' = [said EXCEPT ![t] = @ \cup {"FAILED"}]
    BY <1>4, <1>8 DEF Cl!PublishShort, Cl!PublishFailure, Cl!Publish
  <2>3. debits[t] = 0 \/ faults + crashes > 0
    BY <1>2, <2>1 DEF TriedOnce, Counts, Broken
  <2> QED
    BY <1>3, <2>1, <2>2, <2>3 DEF Outcomes!Fail
<1>9. CASE Cl!Ack(t)
  BY <1>9, SaidKept DEF Cl!Ack, Cl!ledger, Cl!answers
<1> QED
  BY <1>5, <1>6, <1>7, <1>8, <1>9 DEF Cl!TransferStep

\* All else, of either service, of the broker and of the caches, is out of sight.
LEMMA OutcomesRest ==
  ASSUME \/ \E p \in ClProcs : Cl!AccountStep(p) /\ UNCHANGED row
         \/ TxEnvironment
         \/ ClEnvironment
         \/ \E p \in Requests : PostStep(p)
         \/ \E t \in Requests : Arrive(t) \/ Deliver(t)
         \/ \E d \in Deliveries, t \in Requests, s \in Tx!Final : Report(d, t, s)
         \/ \E m \in Requests \cup Deliveries : Lose(m)
         \/ UNCHANGED vars
  PROVE  UNCHANGED <<row, debits, credits, said>>
<1>1. UNCHANGED <<row, debits, credits, successes, failures>>
  BY DEF Cl!AccountStep, Cl!CacheGet, Cl!DbRead, Cl!CacheSet, Cl!DbWrite, Cl!CacheDel, Cl!ledger,
     Cl!answers, TxEnvironment, Tx!Post, Tx!Crash, Tx!Expire, Tx!store, ClEnvironment, Cl!Crash,
     Cl!Expire, PostStep, AnswerSender, AnswerReceiver, Tx!AskSender, Tx!AskReceiver, Ask,
     Cl!Begin, Arrive, Cl!Arrive, Deliver, Report, Tx!Send, Lose, txVars, clVars, vars
<1> QED
  BY <1>1, SaidKept

LEMMA OutcomesStep ==
  ASSUME Truthful, Smooth, KeySide, [Next]_vars
  PROVE  [Outcomes!Next]_(Outcomes!vars)
<1>1. faults' + crashes' \in {faults + crashes, faults + crashes + 1}
  BY Budgets, OneTrouble DEF Smooth
<1>2. \/ UNCHANGED <<row, debits, credits, said>>
      \/ \E t \in Requests : \/ Outcomes!Accept(t) \/ Outcomes!Debit(t) \/ Outcomes!Credit(t)
                             \/ Outcomes!Succeed(t) \/ Outcomes!Fail(t) \/ Outcomes!Settle(t)
  <2>1. CASE \E p \in Requests \cup Deliveries : TxStep(p)
    BY <2>1, OutcomesRow DEF TxProcs
  <2>2. CASE \E p \in Requests \cup Reads : ClStep(p)
    BY <2>2, OutcomesTransfer, OutcomesRest DEF ClStep, txVars, ClProcs
  <2> QED
    BY <2>1, <2>2, OutcomesRest DEF Next
<1> QED
  BY <1>1, <1>2 DEF Outcomes!Next

\* Through both services a transfer is accepted, entered, reported and settled in
\* this order, each of them once, and once more for each failure or crash.
THEOREM ImplementsTheOutcomes == Spec => ImplementsOutcomes
<1>1. Truthful /\ Smooth /\ KeySide /\ [Next]_vars => KeySide' /\ [Outcomes!Next]_(Outcomes!vars)
  BY KeyStep, OutcomesStep
<1> QED
  BY <1>1, KeyInit, OutcomesInit, TruthfulSmooth, PTL DEF Spec, ImplementsOutcomes, Outcomes!Spec
=============================================================================
