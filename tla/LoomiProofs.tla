----------------------------- MODULE LoomiProofs -----------------------------
(***************************************************************************)
(* Theorems about both services together, for any number of POSTs,         *)
(* reports, failures, crashes and lost messages: what the one says of a    *)
(* transfer is what the other has entered in its ledger.                   *)
(***************************************************************************)
EXTENDS LoomiBanking, FiniteSetTheorems, TLAPS

USE ConstantsAssumption DEF ConstantsAssumption, Tx!Final

-----------------------------------------------------------------------------
\* The inductive invariant.

TxProcs == Requests \cup Deliveries
ClProcs == Requests \cup Reads

\* f is a function with domain S, whatever its values.
Maps(f, S) == f = [x \in S |-> f[x]]

\* No report is taken back.
Grows == \A t \in Requests : said[t] \subseteq said'[t]

\* A report is entered before it is made.
Entered(t) ==
  /\ successes[t] <= credits[t] /\ credits[t] <= debits[t]
  /\ clPc[t] = "pubSuccess" => successes[t] < credits[t]
  /\ clPc[t] = "ledgerCredit" => credits[t] < debits[t]

LedgerSide ==
  /\ successes \in [Requests -> Nat] /\ failures \in [Requests -> Nat]
  /\ debits \in [Requests -> Nat] /\ credits \in [Requests -> Nat]
  /\ Maps(clPc, ClProcs)
  /\ \A t \in Requests : Entered(t)

\* A handler of the transactions service that is about to cache what it has seen
\* has seen it of the transaction at hand; the consumer has its message's.
Local(p) ==
  /\ /\ txPc[p] \in {"setIdemFound", "setTx", "setIdem"}
     /\ seen[p] \in Tx!Final /\ tx[p] \in Requests
     => seen[p] \in said[tx[p]]
  /\ phase[p] \in Tx!Phases
  /\ p \in Deliveries =>
       /\ txPc[p] \notin {"getIdem", "dbByIdem", "setIdemFound", "dbCreate"}
       /\ phase[p] \in {"get", "read", "reread"}
       /\ txPc[p] # "init" => outcome[p] \in Tx!Final
       /\ outcome[p] \in Tx!Final /\ tx[p] \in Requests => outcome[p] \in said[tx[p]]

\* A final status in the table or in the cache has been reported.
TruthTold == \A t \in Requests : {row[t], cacheTx[t]} \cap Tx!Final \subseteq said[t]

StatusSide ==
  /\ Maps(row, Requests) /\ Maps(cacheTx, Requests) /\ Maps(outcome, Deliveries)
  /\ Maps(txPc, TxProcs) /\ Maps(phase, TxProcs) /\ Maps(tx, TxProcs) /\ Maps(seen, TxProcs)
  /\ TruthTold
  /\ \A p \in TxProcs : Local(p)

Truthful == LedgerSide /\ StatusSide

LEMMA TruthfulInit == Init => Truthful
<1> SUFFICES ASSUME Init PROVE Truthful
  OBVIOUS
<1>1. LedgerSide
  BY DEF Init, Cl!Init, Cl!Procs, LedgerSide, Entered, Maps, ClProcs
<1>2. StatusSide
  BY DEF Init, Tx!Init, Tx!Procs, Tx!Phases, StatusSide, TruthTold, Local, Maps, TxProcs
<1> QED
  BY <1>1, <1>2 DEF Truthful

LEMMA SaidKept ==
  ASSUME UNCHANGED <<successes, failures>>
  PROVE  said' = said /\ Grows
BY DEF said, Grows, Reported

-----------------------------------------------------------------------------
\* Steps of the clients service keep the ledger ahead of the reports.

LEMMA LedgerAccount ==
  ASSUME LedgerSide, NEW p \in ClProcs, Cl!AccountStep(p)
  PROVE  LedgerSide' /\ said' = said
<1> USE DEF LedgerSide
<1>1. UNCHANGED <<successes, failures, credits, debits>>
  BY DEF Cl!AccountStep, Cl!CacheGet, Cl!DbRead, Cl!CacheSet, Cl!DbWrite, Cl!CacheDel,
         Cl!ledger, Cl!answers
<1>2. \E l \in Cl!Labels \ {"pubSuccess", "ledgerCredit"} : clPc' = [clPc EXCEPT ![p] = l]
  BY DEF Cl!AccountStep, Cl!CacheGet, Cl!DbRead, Cl!CacheSet, Cl!DbWrite, Cl!CacheDel,
         Cl!Goto, Cl!Throw, Cl!OnThrow, Cl!Loaded, Cl!Debited, Cl!Covers, Cl!Labels, Cl!Resting
<1>3. Maps(clPc, ClProcs)'
  BY <1>2 DEF Maps
<1>4. \A t \in Requests : Entered(t)'
  BY <1>1, <1>2 DEF Entered, Maps, ClProcs
<1> QED
  BY <1>1, <1>3, <1>4, SaidKept

LEMMA LedgerTransfer ==
  ASSUME LedgerSide, NEW p \in Requests, Cl!TransferStep(p)
  PROVE  LedgerSide' /\ Grows
<1> USE DEF LedgerSide
<1>1. \E l \in Cl!Labels : clPc' = [clPc EXCEPT ![p] = l]
  BY DEF Cl!TransferStep, Cl!LedgerDebit, Cl!LedgerCredit, Cl!PublishSuccess,
         Cl!PublishShort, Cl!PublishFailure, Cl!Ack, Cl!Publish, Cl!Goto, Cl!Throw,
         Cl!OnThrow, Cl!AfterReport, Cl!Labels, Cl!Resting
<1>2. Maps(clPc, ClProcs)' /\ p \in ClProcs
  BY <1>1 DEF Maps, ClProcs
<1>3. \A t \in Requests \ {p} :
        UNCHANGED <<successes[t], failures[t], credits[t], debits[t], clPc[t]>>
  BY <1>1 DEF Maps, ClProcs, Cl!TransferStep, Cl!LedgerDebit, Cl!LedgerCredit,
         Cl!PublishSuccess, Cl!PublishShort, Cl!PublishFailure, Cl!Ack, Cl!Publish,
         Cl!Enter, Cl!ledger, Cl!answers
<1>4. \A t \in Requests \ {p} : Entered(t)'
  BY <1>3 DEF Entered
<1> DEFINE Kept == /\ successes' \in [Requests -> Nat] /\ credits' \in [Requests -> Nat]
                   /\ debits' \in [Requests -> Nat] /\ failures' \in [Requests -> Nat]
                   /\ successes[p] <= successes'[p] /\ failures[p] <= failures'[p]
<1>g. ASSUME NEW l, Cl!Goto(p, l)
      PROVE  clPc'[p] = l
  BY <1>g, <1>2 DEF Cl!Goto, Maps
<1>5. Kept /\ Entered(p)'
  <2> USE <1>g DEF Entered, Cl!Enter, Cl!Publish, Cl!Throw, Cl!OnThrow,
                   Cl!AfterReport, Cl!ledger, Cl!answers
  <2>1. CASE Cl!LedgerDebit(p)
    BY <2>1 DEF Cl!LedgerDebit
  <2>2. CASE Cl!LedgerCredit(p)
    BY <2>2 DEF Cl!LedgerCredit
  <2>3. CASE Cl!PublishSuccess(p)
    BY <2>3 DEF Cl!PublishSuccess
  <2>4. CASE Cl!PublishShort(p)
    BY <2>4 DEF Cl!PublishShort
  <2>5. CASE Cl!PublishFailure(p)
    BY <2>5 DEF Cl!PublishFailure
  <2>6. CASE Cl!Ack(p)
    BY <2>6 DEF Cl!Ack
  <2> QED
    BY <2>1, <2>2, <2>3, <2>4, <2>5, <2>6 DEF Cl!TransferStep
<1>6. Grows
  BY <1>3, <1>5 DEF Grows, said, Reported
<1> QED
  BY <1>2, <1>3, <1>4, <1>5, <1>6

\* Messages, deliveries, crashes and evictions make no entry and no report.
LEMMA LedgerRest ==
  ASSUME LedgerSide,
         \/ \E t \in Requests : Cl!Arrive(t)
         \/ \E p \in ClProcs : Cl!Begin(p)
         \/ Cl!Crash
         \/ \E u \in Users : Cl!Expire(u)
  PROVE  LedgerSide' /\ said' = said
<1> USE DEF LedgerSide
<1>1. UNCHANGED <<successes, failures, credits, debits>>
  BY DEF Cl!Arrive, Cl!Begin, Cl!Crash, Cl!Expire, Cl!ledger, Cl!answers
<1>2. Maps(clPc, ClProcs)'
  BY DEF Cl!Arrive, Cl!Begin, Cl!Crash, Cl!Expire, Cl!Goto, Cl!Procs, Maps, ClProcs
<1>3. ASSUME NEW t \in Requests
      PROVE  clPc'[t] = clPc[t] \/ clPc'[t] \notin {"pubSuccess", "ledgerCredit"}
  BY DEF Cl!Arrive, Cl!Begin, Cl!Crash, Cl!Expire, Cl!Goto, Cl!Procs, Maps, ClProcs
<1>4. \A t \in Requests : Entered(t)'
  BY <1>1, <1>3 DEF Entered
<1> QED
  BY <1>1, <1>2, <1>4, SaidKept
-----------------------------------------------------------------------------
\* Steps of the transactions service say nothing the reports have not said.

\* f may differ from the function g with domain S at x only.
Moves(f, g, S, x) == Maps(f, S) /\ \A y \in S \ {x} : f[y] = g[y]

LEMMA MovesTo ==
  ASSUME NEW f, NEW g, NEW S, NEW x \in S, NEW v, Maps(g, S), f = [g EXCEPT ![x] = v]
  PROVE  Moves(f, g, S, x) /\ f[x] = v
BY DEF Moves, Maps

LEMMA MovesNot ==
  ASSUME NEW f, NEW g, NEW S, NEW x, Maps(g, S), f = g
  PROVE  Moves(f, g, S, x) /\ f[x] = g[x]
BY DEF Moves, Maps

\* One handler's step leaves the others alone.
LEMMA StatusFrame ==
  ASSUME StatusSide, NEW p \in TxProcs, said' = said,
         Maps(row, Requests)', Maps(cacheTx, Requests)',
         Moves(outcome', outcome, Deliveries, p), Moves(txPc', txPc, TxProcs, p),
         Moves(phase', phase, TxProcs, p), Moves(tx', tx, TxProcs, p),
         Moves(seen', seen, TxProcs, p),
         TruthTold', Local(p)'
  PROVE  StatusSide'
<1>1. \A q \in TxProcs : Local(q)'
  BY DEF StatusSide, Local, Moves
<1> QED
  BY <1>1 DEF StatusSide, Moves, TruthTold

LEMMA StatusFind ==
  ASSUME StatusSide, NEW p \in TxProcs, Tx!FindStep(p), said' = said
  PROVE  StatusSide'
<1> USE DEF StatusSide
<1>1. outcome' = outcome /\ row' = row
  BY DEF Tx!FindStep, Tx!GetIdem, Tx!DbByIdem, Tx!SetIdemFound, Tx!GetTx, Tx!DbById, Tx!SetTx,
         Tx!SetIdem, Tx!store, Tx!bus
<1>2. \E l : txPc' = [txPc EXCEPT ![p] = l]
  BY DEF Tx!FindStep, Tx!GetIdem, Tx!DbByIdem, Tx!SetIdemFound, Tx!GetTx, Tx!DbById, Tx!SetTx,
         Tx!SetIdem, Tx!Goto, Tx!Found, Tx!Missing, Tx!Throw
<1>3. (\E l : seen' = [seen EXCEPT ![p] = l]) \/ seen' = seen
  BY DEF Tx!FindStep, Tx!GetIdem, Tx!DbByIdem, Tx!SetIdemFound, Tx!GetTx, Tx!DbById, Tx!SetTx,
         Tx!SetIdem, Tx!Goto, Tx!Found, Tx!Missing, Tx!Throw, Tx!memo
<1>4. (\E l : phase' = [phase EXCEPT ![p] = l]) \/ phase' = phase
  BY DEF Tx!FindStep, Tx!GetIdem, Tx!DbByIdem, Tx!SetIdemFound, Tx!GetTx, Tx!DbById, Tx!SetTx,
         Tx!SetIdem, Tx!Goto, Tx!Found, Tx!Missing, Tx!Throw, Tx!memo
<1>5. (\E l : tx' = [tx EXCEPT ![p] = l]) \/ tx' = tx
  BY DEF Tx!FindStep, Tx!GetIdem, Tx!DbByIdem, Tx!SetIdemFound, Tx!GetTx, Tx!DbById, Tx!SetTx,
         Tx!SetIdem, Tx!Goto, Tx!Found, Tx!Missing, Tx!Throw, Tx!memo
<1>6. /\ Moves(txPc', txPc, TxProcs, p) /\ Moves(seen', seen, TxProcs, p)
      /\ Moves(phase', phase, TxProcs, p) /\ Moves(tx', tx, TxProcs, p)
      /\ Moves(outcome', outcome, Deliveries, p) /\ Maps(row, Requests)'
  BY <1>1, <1>2, <1>3, <1>4, <1>5 DEF Moves, Maps
<1>7. /\ \A l : Tx!Goto(p, l) => txPc'[p] = l
      /\ \A v : seen' = [seen EXCEPT ![p] = v] => seen'[p] = v
      /\ \A v : phase' = [phase EXCEPT ![p] = v] => phase'[p] = v
      /\ \A v : tx' = [tx EXCEPT ![p] = v] => tx'[p] = v
  BY DEF Tx!Goto, Maps
\* Where a find that is over leads, and which phase it leaves.
<1>8. ASSUME NEW s, Tx!Found(p, s), txPc[p] \in {"getTx", "setTx", "setIdem"}
      PROVE  Local(p)'
  <2>1. /\ txPc'[p] \in {"ok", "log", "getTx", "ack", "queued"}
        /\ phase'[p] \in Tx!Phases
        /\ p \in Deliveries => phase'[p] \in {"get", "read", "reread"} /\ tx'[p] = tx[p]
    BY <1>7, <1>8 DEF Tx!Found, Tx!AfterFound, Tx!Phases, Local
  <2> QED
    BY <2>1, <1>1, <1>8 DEF Local
<1>9. ASSUME Tx!Missing(p) \/ Tx!Throw(p), p \in Deliveries => txPc[p] # "init"
      PROVE  Local(p)'
  <2>1. /\ txPc'[p] \in {"askSender", "dbCreate", "refused", "ack", "queued", "failed"}
        /\ p \in Deliveries => txPc'[p] # "dbCreate"
    BY <1>7, <1>9 DEF Tx!Missing, Tx!Throw, Tx!AfterMissing, Tx!OnThrow, Local
  <2>2. phase'[p] = phase[p] /\ tx'[p] = tx[p]
    BY <1>9 DEF Tx!Missing, Tx!Throw, Tx!memo
  <2> QED
    BY <2>1, <2>2, <1>1, <1>9 DEF Local
<1>10. Local(p)' /\ Maps(cacheTx, Requests)' /\ TruthTold'
  <2> USE <1>1, <1>7, <1>8, <1>9 DEF TruthTold
  <2>1. CASE Tx!GetIdem(p)
    BY <2>1 DEF Tx!GetIdem, Tx!cache, Local
  <2>2. CASE Tx!DbByIdem(p)
    BY <2>2 DEF Tx!DbByIdem, Tx!cache, Local
  <2>3. CASE Tx!SetIdemFound(p)
    BY <2>3 DEF Tx!SetIdemFound, Tx!memo, Local
  <2>4. CASE Tx!GetTx(p)
    BY <2>4 DEF Tx!GetTx, Tx!cache, Tx!memo, Local
  <2>5. CASE Tx!DbById(p)
    BY <2>5 DEF Tx!DbById, Tx!cache, Local
  <2>6. CASE Tx!SetTx(p)
    <3>1. CASE Tx!Found(p, seen[p]) /\ UNCHANGED cacheTx
      BY <2>6, <3>1 DEF Tx!SetTx
    <3>2. CASE cacheTx' = [cacheTx EXCEPT ![tx[p]] = seen[p]] /\ Tx!Goto(p, "setIdem")
               /\ UNCHANGED Tx!memo
      <4>1. Local(p) /\ txPc[p] = "setTx" /\ txPc'[p] = "setIdem"
        BY <2>6, <3>2 DEF Tx!SetTx
      <4>2. Local(p)'
        BY <3>2, <4>1 DEF Local, Tx!memo
      <4>3. \A t \in Requests : cacheTx'[t] = IF t = tx[p] THEN seen[p] ELSE cacheTx[t]
        BY <3>2 DEF Maps
      <4>4. TruthTold'
        BY <4>1, <4>3 DEF Local
      <4>5. Maps(cacheTx, Requests)'
        BY <3>2 DEF Maps
      <4> QED
        BY <4>2, <4>4, <4>5
    <3> QED
      BY <2>6, <3>1, <3>2 DEF Tx!SetTx
  <2>7. CASE Tx!SetIdem(p)
    BY <2>7 DEF Tx!SetIdem, Local
  <2> QED
    BY <2>1, <2>2, <2>3, <2>4, <2>5, <2>6, <2>7 DEF Tx!FindStep
<1> QED
  BY <1>6, <1>10, StatusFrame

\* The POST's other steps, a question of its included.
LEMMA StatusRequest ==
  ASSUME StatusSide, NEW p \in Requests, Tx!Post(p) \/ Tx!RequestStep(p),
         said' = said
  PROVE  StatusSide'
<1> USE DEF StatusSide
<1>0. p \in TxProcs /\ p \notin Deliveries
  BY DEF TxProcs
<1>1. outcome' = outcome /\ cacheTx' = cacheTx
  BY DEF Tx!Post, Tx!RequestStep, Tx!AskSender, Tx!AskReceiver, Tx!DbCreate, Tx!LogCreated,
         Tx!Publish, Tx!cache, Tx!bus
<1>2. \E l \in Tx!Labels \ {"setIdemFound", "setIdem"} : txPc' = [txPc EXCEPT ![p] = l]
  BY DEF Tx!Post, Tx!RequestStep, Tx!AskSender, Tx!AskReceiver, Tx!DbCreate, Tx!LogCreated,
         Tx!Publish, Tx!Goto, Tx!Throw, Tx!OnThrow, Tx!Labels
<1>3. (\E l \in Tx!Phases : phase' = [phase EXCEPT ![p] = l]) \/ phase' = phase
  BY DEF Tx!Post, Tx!RequestStep, Tx!AskSender, Tx!AskReceiver, Tx!DbCreate, Tx!LogCreated,
         Tx!Publish, Tx!Goto, Tx!Throw, Tx!Phases, Tx!memo
<1>4. \/ seen' = seen /\ tx' = tx /\ row' = row /\ txPc' # [txPc EXCEPT ![p] = "setTx"]
      \/ /\ seen' = [seen EXCEPT ![p] = "PENDING"] /\ tx' = [tx EXCEPT ![p] = p]
         /\ row' = [row EXCEPT ![p] = "PENDING"]
  <2>1. \A l : txPc' = [txPc EXCEPT ![p] = l] => txPc'[p] = l
    BY <1>0 DEF Maps
  <2>2. ASSUME Tx!Throw(p)
        PROVE  seen' = seen /\ tx' = tx /\ txPc' # [txPc EXCEPT ![p] = "setTx"]
    BY <1>0, <2>1, <2>2 DEF Tx!Throw, Tx!OnThrow, Tx!Goto, Tx!memo
  <2>3. CASE Tx!DbCreate(p)
    BY <2>2, <2>3 DEF Tx!DbCreate
  <2>4. CASE Tx!LogCreated(p)
    BY <2>1, <2>2, <2>4 DEF Tx!LogCreated, Tx!Goto, Tx!memo
  <2>5. CASE Tx!Post(p) \/ Tx!AskSender(p) \/ Tx!AskReceiver(p) \/ Tx!Publish(p)
    BY <2>1, <2>5 DEF Tx!Post, Tx!AskSender, Tx!AskReceiver, Tx!Publish, Tx!Goto, Tx!memo,
         Tx!store
  <2> QED
    BY <2>3, <2>4, <2>5 DEF Tx!RequestStep
<1>5. /\ Moves(txPc', txPc, TxProcs, p) /\ Moves(seen', seen, TxProcs, p)
      /\ Moves(phase', phase, TxProcs, p) /\ Moves(tx', tx, TxProcs, p)
      /\ Moves(outcome', outcome, Deliveries, p)
      /\ Maps(row, Requests)' /\ Maps(cacheTx, Requests)'
  BY <1>0, <1>1, <1>2, <1>3, <1>4 DEF Moves, Maps
<1>6. TruthTold'
  BY <1>1, <1>4 DEF TruthTold, Maps
<1>7. Local(p)'
  <2>1. phase'[p] \in Tx!Phases
    BY <1>0, <1>3 DEF Local, Maps
  <2>2. txPc'[p] = "setTx" => seen'[p] = "PENDING"
    BY <1>0, <1>2, <1>4 DEF Maps
  <2>3. txPc'[p] \notin {"setIdemFound", "setIdem"}
    BY <1>0, <1>2 DEF Maps
  <2> QED
    BY <1>0, <2>1, <2>2, <2>3 DEF Local
<1> QED
  BY <1>0, <1>5, <1>6, <1>7, StatusFrame

\* The consumer's.
LEMMA StatusDelivery ==
  ASSUME StatusSide, NEW d \in Deliveries, Tx!DeliveryStep(d), said' = said
  PROVE  StatusSide'
<1> USE DEF StatusSide
<1>0. d \in TxProcs
  BY DEF TxProcs
<1>1. outcome' = outcome /\ seen' = seen /\ tx' = tx
  BY DEF Tx!DeliveryStep, Tx!Deliver, Tx!LogUpdated, Tx!DbUpdate, Tx!DelTx, Tx!DelIdem, Tx!Ack,
         Tx!Throw, Tx!memo, Tx!bus
<1>2. \E l \in {"getTx", "dbUpdate", "delTx", "delIdem", "ack", "acked", "queued"} :
        txPc' = [txPc EXCEPT ![d] = l]
  BY DEF Tx!DeliveryStep, Tx!Deliver, Tx!LogUpdated, Tx!DbUpdate, Tx!DelTx, Tx!DelIdem, Tx!Ack,
         Tx!Goto, Tx!Throw, Tx!OnThrow
<1>3. phase' = [phase EXCEPT ![d] = "read"] \/ phase' = phase
  BY DEF Tx!DeliveryStep, Tx!Deliver, Tx!LogUpdated, Tx!DbUpdate, Tx!DelTx, Tx!DelIdem, Tx!Ack,
         Tx!Throw, Tx!memo
<1>4. row' = row \/ row' = [row EXCEPT ![tx[d]] = outcome[d]]
  BY DEF Tx!DeliveryStep, Tx!Deliver, Tx!LogUpdated, Tx!DbUpdate, Tx!DelTx, Tx!DelIdem, Tx!Ack,
         Tx!store
<1>5. cacheTx' = cacheTx \/ cacheTx' = [cacheTx EXCEPT ![tx[d]] = "none"]
  BY DEF Tx!DeliveryStep, Tx!Deliver, Tx!LogUpdated, Tx!DbUpdate, Tx!DelTx, Tx!DelIdem, Tx!Ack,
         Tx!cache
<1>6. /\ Moves(txPc', txPc, TxProcs, d) /\ Moves(seen', seen, TxProcs, d)
      /\ Moves(phase', phase, TxProcs, d) /\ Moves(tx', tx, TxProcs, d)
      /\ Moves(outcome', outcome, Deliveries, d)
      /\ Maps(row, Requests)' /\ Maps(cacheTx, Requests)'
  BY <1>0, <1>1, <1>2, <1>3, <1>4, <1>5 DEF Moves, Maps
<1>7. TruthTold'
  BY <1>0, <1>4, <1>5 DEF TruthTold, Local, Maps
<1>8. Local(d)'
  <2>1. phase'[d] \in Tx!Phases /\ phase'[d] \in {"get", "read", "reread"}
    BY <1>0, <1>3 DEF Local, Maps, Tx!Phases
  <2>2. txPc'[d] \in {"getTx", "dbUpdate", "delTx", "delIdem", "ack", "acked", "queued"}
    BY <1>0, <1>2 DEF Maps
  <2>3. txPc[d] # "init"
    BY DEF Tx!DeliveryStep, Tx!Deliver, Tx!LogUpdated, Tx!DbUpdate, Tx!DelTx, Tx!DelIdem, Tx!Ack
  <2> QED
    BY <1>0, <1>1, <2>1, <2>2, <2>3 DEF Local
<1> QED
  BY <1>0, <1>6, <1>7, <1>8, StatusFrame

LEMMA StatusEnvironment ==
  ASSUME StatusSide, Tx!Crash \/ Tx!Expire, said' = said
  PROVE  StatusSide'
<1> USE DEF StatusSide
<1>1. UNCHANGED <<row, outcome, phase, tx, seen>>
  BY DEF Tx!Crash, Tx!Expire, Tx!store, Tx!bus, Tx!memo
<1>2. Maps(cacheTx, Requests)' /\ \A t \in Requests : cacheTx'[t] \in {cacheTx[t], "none"}
  BY DEF Tx!Crash, Tx!Expire, Tx!cache, Maps
<1>3. /\ Maps(txPc, TxProcs)'
      /\ \A p \in TxProcs : \/ txPc'[p] = txPc[p]
                            \/ txPc[p] # "init" /\ txPc'[p] \in {"queued", "lost"}
  <2>1. CASE Tx!Crash
    <3>1. /\ txPc' = [p \in TxProcs |-> txPc'[p]]
          /\ \A p \in TxProcs : txPc'[p] = IF txPc[p] \in Tx!Resting THEN txPc[p]
                                        ELSE IF p \in Deliveries THEN "queued" ELSE "lost"
      BY <2>1 DEF Tx!Crash, Tx!Procs, TxProcs
    <3> QED
      BY <3>1 DEF Tx!Resting, Tx!Ended, Maps
  <2>2. CASE Tx!Expire
    BY <2>2 DEF Tx!Expire
  <2> QED
    BY <2>1, <2>2
<1>4. \A p \in TxProcs : Local(p)'
  BY <1>1, <1>3 DEF Local
<1>5. TruthTold'
  BY <1>1, <1>2 DEF TruthTold
<1> QED
  BY <1>1, <1>2, <1>3, <1>4, <1>5

\* A report is made before it is received.
LEMMA StatusReport ==
  ASSUME StatusSide, LedgerSide,
         NEW d \in Deliveries, NEW t \in Requests, NEW s \in Tx!Final, Report(d, t, s)
  PROVE  StatusSide' /\ said' = said
<1> USE DEF StatusSide
<1>1. said' = said
  BY SaidKept DEF Report, clVars
<1>2. s \in said[t]
  <2>1. IsFiniteSet(Received(t, s))
    BY FS_Subset DEF Received
  <2>2. Cardinality(Received(t, s)) \in Nat
    BY <2>1, FS_CardinalityType
  <2> QED
    BY <2>2 DEF Report, Reported, said, LedgerSide
<1>3. /\ outcome' = [outcome EXCEPT ![d] = s] /\ tx' = [tx EXCEPT ![d] = t]
      /\ txPc' = [txPc EXCEPT ![d] = "queued"]
      /\ UNCHANGED <<row, cacheTx, phase, seen>>
  BY DEF Report, Tx!Send, Tx!Goto, Tx!store, Tx!cache
<1>4. d \in TxProcs
  BY DEF TxProcs
<1>5. /\ Moves(txPc', txPc, TxProcs, d) /\ Moves(seen', seen, TxProcs, d)
      /\ Moves(phase', phase, TxProcs, d) /\ Moves(tx', tx, TxProcs, d)
      /\ Moves(outcome', outcome, Deliveries, d)
      /\ Maps(row, Requests)' /\ Maps(cacheTx, Requests)'
  BY <1>3, <1>4 DEF Moves, Maps
<1>6. TruthTold'
  BY <1>1, <1>3 DEF TruthTold
<1>7. outcome'[d] = s /\ tx'[d] = t /\ txPc'[d] = "queued" /\ phase'[d] = phase[d]
  BY <1>3, <1>4 DEF Maps
<1>8. Local(d)'
  BY <1>1, <1>2, <1>4, <1>7 DEF Local
<1> QED
  BY <1>1, <1>4, <1>5, <1>6, <1>8, StatusFrame

-----------------------------------------------------------------------------
\* Each service's steps leave the other's side as it is, or the better founded.

LEMMA StatusApart ==
  ASSUME StatusSide, UNCHANGED txVars, Grows
  PROVE  StatusSide'
<1>1. UNCHANGED <<row, cacheTx, outcome, txPc, phase, tx, seen>>
  BY DEF txVars
<1>2. \A p \in TxProcs : Local(p)'
  BY <1>1 DEF StatusSide, Local, Grows
<1>3. TruthTold'
  BY <1>1 DEF StatusSide, TruthTold, Grows
<1> QED
  BY <1>1, <1>2, <1>3 DEF StatusSide

LEMMA LedgerApart ==
  ASSUME LedgerSide, UNCHANGED clVars
  PROVE  LedgerSide' /\ said' = said /\ Grows
BY SaidKept DEF LedgerSide, Entered, clVars

LEMMA TruthfulTx ==
  ASSUME Truthful,
         \/ \E p \in Requests \cup Deliveries : TxStep(p)
         \/ TxEnvironment
         \/ \E p \in Requests : AnswerSender(p) \/ AnswerReceiver(p)
         \/ \E d \in Deliveries, t \in Requests, s \in Tx!Final : Report(d, t, s)
  PROVE  Truthful'
<1>1. UNCHANGED clVars
  BY DEF TxStep, TxEnvironment, AnswerSender, AnswerReceiver, Report
<1>2. LedgerSide' /\ said' = said
  BY <1>1, LedgerApart DEF Truthful
<1>3. StatusSide'
  <2>1. CASE \E p \in Requests \cup Deliveries : TxStep(p)
    <3>1. PICK p \in Requests \cup Deliveries : TxStep(p)
      BY <2>1
    <3>2. CASE Tx!FindStep(p)
      BY <3>2, <1>2, StatusFind DEF Truthful, TxProcs
    <3>3. CASE p \in Requests /\ (Tx!DbCreate(p) \/ Tx!LogCreated(p) \/ Tx!Publish(p))
      BY <3>3, <1>2, StatusRequest DEF Truthful, Tx!RequestStep
    <3>4. CASE p \in Deliveries /\ Tx!DeliveryStep(p)
      BY <3>4, <1>2, StatusDelivery DEF Truthful
    <3> QED
      BY <3>1, <3>2, <3>3, <3>4 DEF TxStep
  <2>2. CASE TxEnvironment
    BY <2>2, <1>2, StatusRequest, StatusEnvironment DEF Truthful, TxEnvironment
  <2>3. CASE \E p \in Requests : AnswerSender(p) \/ AnswerReceiver(p)
    BY <2>3, <1>2, StatusRequest
       DEF Truthful, AnswerSender, AnswerReceiver, Tx!RequestStep
  <2>4. CASE \E d \in Deliveries, t \in Requests, s \in Tx!Final : Report(d, t, s)
    BY <2>4, StatusReport DEF Truthful, LedgerSide
  <2> QED
    BY <2>1, <2>2, <2>3, <2>4
<1> QED
  BY <1>2, <1>3 DEF Truthful

LEMMA TruthfulCl ==
  ASSUME Truthful,
         \/ \E p \in Requests \cup Reads : ClStep(p)
         \/ ClEnvironment
         \/ \E p \in Requests, r \in Reads : Ask(p, r)
         \/ \E t \in Requests : Arrive(t) \/ Deliver(t)
  PROVE  Truthful'
<1>1. UNCHANGED txVars
  BY DEF ClStep, ClEnvironment, Ask, Arrive, Deliver
<1>2. LedgerSide' /\ Grows
  <2>1. CASE \E p \in Requests \cup Reads : ClStep(p)
    <3>1. PICK p \in ClProcs : ClStep(p)
      BY <2>1 DEF ClProcs
    <3>2. CASE Cl!AccountStep(p)
      BY <3>2, LedgerAccount DEF Truthful, Grows
    <3>3. CASE p \in Requests /\ Cl!TransferStep(p)
      BY <3>3, LedgerTransfer DEF Truthful
    <3> QED
      BY <3>1, <3>2, <3>3 DEF ClStep
  <2>2. ASSUME ~ \E p \in Requests \cup Reads : ClStep(p)
        PROVE  LedgerSide' /\ said' = said
    BY <2>2, LedgerRest DEF Truthful, ClEnvironment, Ask, Arrive, Deliver, ClProcs
  <2> QED
    BY <2>1, <2>2 DEF Grows
<1> QED
  BY <1>1, <1>2, StatusApart DEF Truthful

LEMMA TruthfulStep == Truthful /\ [Next]_vars => Truthful'
<1> SUFFICES ASSUME Truthful, [Next]_vars PROVE Truthful'
  OBVIOUS
<1>1. CASE \E p \in Requests \cup Deliveries : TxStep(p)
  BY <1>1, TruthfulTx
<1>2. CASE TxEnvironment
  BY <1>2, TruthfulTx
<1>3. CASE \E p \in Requests \cup Reads : ClStep(p)
  BY <1>3, TruthfulCl
<1>4. CASE ClEnvironment
  BY <1>4, TruthfulCl
<1>5. CASE \E p \in Requests : PostStep(p)
  BY <1>5, TruthfulTx, TruthfulCl DEF PostStep
<1>6. CASE \E t \in Requests : Arrive(t) \/ Deliver(t)
  BY <1>6, TruthfulCl
<1>7. CASE \E d \in Deliveries, t \in Requests, s \in Tx!Final : Report(d, t, s)
  BY <1>7, TruthfulTx
<1>8. CASE (\E m \in Requests \cup Deliveries : Lose(m)) \/ UNCHANGED vars
  <2>1. UNCHANGED <<txVars, clVars>>
    BY <1>8 DEF Lose, vars
  <2> QED
    BY <2>1, LedgerApart, StatusApart DEF Truthful
<1> QED
  BY <1>1, <1>2, <1>3, <1>4, <1>5, <1>6, <1>7, <1>8 DEF Next

\* Whoever is told SUCCESS of a transfer, by the table or by the cache of the
\* transactions service, is told of one whose debit and credit the clients
\* service has entered: through failures and crashes of either, lost and
\* repeated messages, and reports that contradict each other.
THEOREM SuccessIsFounded == Spec => []SuccessIsInLedger
<1>1. Truthful => SuccessIsInLedger
  <2> SUFFICES ASSUME Truthful, NEW t \in Requests, "SUCCESS" \in {row[t], cacheTx[t]}
               PROVE  debits[t] > 0 /\ credits[t] > 0
    BY DEF SuccessIsInLedger
  <2>1. "SUCCESS" \in said[t]
    BY DEF Truthful, StatusSide, TruthTold
  <2>2. successes[t] > 0
    BY <2>1 DEF said, Reported
  <2> QED
    BY <2>2 DEF Truthful, LedgerSide, Entered
<1> QED
  BY <1>1, TruthfulInit, TruthfulStep, PTL DEF Spec

-----------------------------------------------------------------------------
\* As long as nothing has failed, a transfer is tried once and reported once.

\* What the clients service has entered for t, and reported of it.
Counts(t, d, c, s, f) ==
  debits[t] = d /\ credits[t] = c /\ successes[t] = s /\ failures[t] = f

TriedOnce(t) ==
  /\ clPc[t] = "ledgerCredit" => Counts(t, 1, 0, 0, 0)
  /\ clPc[t] = "pubSuccess" => Counts(t, 1, 1, 0, 0)
  /\ clPc[t] \in {"ack", "acked"} => Counts(t, 1, 1, 1, 0) \/ Counts(t, 0, 0, 0, 1)
  /\ clPc[t] \notin {"ledgerCredit", "pubSuccess", "ack", "acked"} => Counts(t, 0, 0, 0, 0)

Smooth ==
  /\ faults \in Nat /\ crashes \in Nat
  /\ ~Broken => \A t \in Requests : TriedOnce(t)

LEMMA SmoothInit == Init => Smooth
BY DEF Init, Cl!Init, Cl!Procs, Smooth, TriedOnce, Counts

LEMMA Budgets ==
  ASSUME Smooth, [Next]_vars
  PROVE  /\ faults' \in {faults, faults + 1} /\ crashes' \in {crashes, crashes + 1}
         /\ faults' = faults \/ crashes' = crashes
<1>1. CASE \E p \in Requests \cup Deliveries : TxStep(p)
  BY <1>1 DEF TxStep, Tx!FindStep, Tx!GetIdem, Tx!DbByIdem, Tx!SetIdemFound, Tx!GetTx, Tx!DbById,
     Tx!SetTx, Tx!SetIdem, Tx!DbCreate, Tx!LogCreated, Tx!Publish, Tx!DeliveryStep,
     Tx!Deliver, Tx!LogUpdated, Tx!DbUpdate, Tx!DelTx, Tx!DelIdem, Tx!Ack, Tx!Works, Tx!Fails
<1>2. CASE TxEnvironment
  BY <1>2 DEF TxEnvironment, Tx!Post, Tx!Crash, Tx!Expire
<1>3. CASE \E p \in Requests \cup Reads : ClStep(p)
  BY <1>3 DEF ClStep, Cl!AccountStep, Cl!CacheGet, Cl!DbRead, Cl!CacheSet, Cl!DbWrite,
     Cl!CacheDel, Cl!TransferStep, Cl!LedgerDebit, Cl!LedgerCredit, Cl!PublishSuccess,
     Cl!PublishShort, Cl!PublishFailure, Cl!Publish, Cl!Ack, Cl!Works, Cl!Fails
<1>4. CASE ClEnvironment
  BY <1>4 DEF ClEnvironment, Cl!Crash, Cl!Expire
<1>5. CASE \E p \in Requests : PostStep(p)
  BY <1>5 DEF PostStep, AnswerSender, AnswerReceiver, Ask, Tx!AskSender, Tx!AskReceiver,
     Tx!Works, Tx!Fails, Cl!Begin
<1>6. CASE \E t \in Requests : Arrive(t) \/ Deliver(t)
  BY <1>6 DEF Arrive, Deliver, Cl!Arrive, Cl!Begin
<1>7. CASE \E d \in Deliveries, t \in Requests, s \in Tx!Final : Report(d, t, s)
  BY <1>7 DEF Report, Tx!Send
<1>8. CASE (\E m \in Requests \cup Deliveries : Lose(m)) \/ UNCHANGED vars
  BY <1>8 DEF Lose, vars
<1> QED
  BY <1>1, <1>2, <1>3, <1>4, <1>5, <1>6, <1>7, <1>8 DEF Next

\* Nothing fails in a step.
Calm ==
  /\ faults \in Nat /\ crashes \in Nat
  /\ faults' = faults /\ crashes' = crashes
  /\ LedgerSide
  /\ \A t \in Requests : TriedOnce(t)

LEMMA TriedAccount ==
  ASSUME Calm, NEW p \in ClProcs, Cl!AccountStep(p)
  PROVE  \A t \in Requests : TriedOnce(t)'
<1>1. UNCHANGED <<successes, failures, credits, debits>>
  BY DEF Cl!AccountStep, Cl!CacheGet, Cl!DbRead, Cl!CacheSet, Cl!DbWrite, Cl!CacheDel,
         Cl!ledger, Cl!answers
<1>2. /\ \E l \in Cl!Labels \ {"pubSuccess", "ledgerCredit", "ack", "acked"} :
           clPc' = [clPc EXCEPT ![p] = l]
      /\ clPc[p] \in {"get", "db", "set", "write", "del"}
  BY DEF Cl!AccountStep, Cl!CacheGet, Cl!DbRead, Cl!CacheSet, Cl!DbWrite, Cl!CacheDel,
         Cl!Goto, Cl!Throw, Cl!OnThrow, Cl!Loaded, Cl!Debited, Cl!Covers, Cl!Labels, Cl!Resting
<1>3. Maps(clPc, ClProcs)
  BY DEF Calm, LedgerSide
<1>4. \A t \in Requests : \/ clPc'[t] = clPc[t]
                          \/ /\ clPc[t] \in {"get", "db", "set", "write", "del"}
                             /\ clPc'[t] \notin {"pubSuccess", "ledgerCredit", "ack", "acked"}
  BY <1>2, <1>3 DEF Maps, ClProcs
<1> QED
  BY <1>1, <1>4 DEF Calm, TriedOnce, Counts

LEMMA TriedTransfer ==
  ASSUME Calm, NEW p \in Requests, Cl!TransferStep(p)
  PROVE  \A t \in Requests : TriedOnce(t)'
<1> USE DEF Calm, LedgerSide
<1>1. ~Cl!Fails
  BY DEF Cl!Fails
<1>2. Maps(clPc, ClProcs) /\ p \in ClProcs
  BY DEF ClProcs
<1>3. ASSUME NEW l, Cl!Goto(p, l)
      PROVE  clPc'[p] = l /\ \A t \in Requests \ {p} : clPc'[t] = clPc[t]
  BY <1>2, <1>3 DEF Cl!Goto, Maps, ClProcs
<1> USE <1>1, <1>3 DEF TriedOnce, Counts, Cl!ledger, Cl!answers, Cl!Enter, Cl!Publish,
        Cl!AfterReport
<1>4. CASE Cl!LedgerDebit(p)
  BY <1>4 DEF Cl!LedgerDebit
<1>5. CASE Cl!LedgerCredit(p)
  BY <1>5 DEF Cl!LedgerCredit
<1>6. CASE Cl!PublishSuccess(p)
  BY <1>6 DEF Cl!PublishSuccess
<1>7. CASE Cl!PublishShort(p)
  BY <1>7 DEF Cl!PublishShort
<1>8. CASE Cl!PublishFailure(p)
  BY <1>8 DEF Cl!PublishFailure
<1>9. CASE Cl!Ack(p)
  BY <1>9 DEF Cl!Ack
<1> QED
  BY <1>4, <1>5, <1>6, <1>7, <1>8, <1>9 DEF Cl!TransferStep

LEMMA TriedRest ==
  ASSUME Calm,
         \/ \E t \in Requests : Cl!Arrive(t)
         \/ \E p \in ClProcs : Cl!Begin(p)
         \/ Cl!Crash
         \/ \E u \in Users : Cl!Expire(u)
         \/ UNCHANGED clVars
  PROVE  \A t \in Requests : TriedOnce(t)'
<1>1. UNCHANGED <<successes, failures, credits, debits>>
  BY DEF Cl!Arrive, Cl!Begin, Cl!Crash, Cl!Expire, Cl!ledger, Cl!answers, clVars
<1>2. Maps(clPc, ClProcs)
  BY DEF Calm, LedgerSide
<1>3. \A t \in Requests : \/ clPc'[t] = clPc[t]
                          \/ clPc[t] \in {"init", "queued"} /\ clPc'[t] \in {"queued", "get"}
  <2>1. ASSUME NEW t \in Requests, Cl!Arrive(t)
        PROVE  clPc[t] = "init" /\ clPc' = [clPc EXCEPT ![t] = "queued"]
    BY <2>1 DEF Cl!Arrive, Cl!Goto
  <2>2. ASSUME NEW p \in ClProcs, Cl!Begin(p)
        PROVE  clPc[p] \in {"init", "queued"} /\ clPc' = [clPc EXCEPT ![p] = "get"]
    BY <2>2 DEF Cl!Begin, Cl!Goto
  <2>3. ~Cl!Crash
    BY DEF Cl!Crash, Calm
  <2>4. ASSUME (\E u \in Users : Cl!Expire(u)) \/ UNCHANGED clVars
        PROVE  clPc' = clPc
    BY <2>4 DEF Cl!Expire, clVars
  <2> QED
    BY <1>2, <2>1, <2>2, <2>3, <2>4 DEF Maps, ClProcs
<1> QED
  BY <1>1, <1>3 DEF Calm, TriedOnce, Counts

LEMMA SmoothStep == Truthful /\ Smooth /\ [Next]_vars => Smooth'
<1> SUFFICES ASSUME Truthful, Smooth, [Next]_vars PROVE Smooth'
  OBVIOUS
<1>1. faults' \in Nat /\ crashes' \in Nat
  BY Budgets DEF Smooth
<1>2. ASSUME ~Broken'
      PROVE  \A t \in Requests : TriedOnce(t)'
  <2>1. Calm
    BY <1>2, Budgets DEF Smooth, Broken, Calm, Truthful
  <2>2. CASE UNCHANGED clVars
    BY <2>1, <2>2, TriedRest
  <2>3. CASE \E p \in Requests \cup Reads : ClStep(p)
    BY <2>1, <2>3, TriedAccount, TriedTransfer DEF ClStep, ClProcs
  <2>4. CASE ClEnvironment
    BY <2>1, <2>4, TriedRest DEF ClEnvironment
  <2>5. CASE \E t \in Requests : Arrive(t) \/ Deliver(t)
    BY <2>1, <2>5, TriedRest DEF Arrive, Deliver, ClProcs
  <2>6. CASE \E p \in Requests, r \in Reads : Ask(p, r)
    BY <2>1, <2>6, TriedRest DEF Ask, ClProcs
  <2>7. \/ UNCHANGED clVars
        \/ \E p \in Requests \cup Reads : ClStep(p)
        \/ ClEnvironment
        \/ \E t \in Requests : Arrive(t) \/ Deliver(t)
        \/ \E p \in Requests, r \in Reads : Ask(p, r)
    BY DEF Next, TxStep, TxEnvironment, PostStep, AnswerSender, AnswerReceiver, Report, Lose, vars
  <2> QED
    BY <2>2, <2>3, <2>4, <2>5, <2>6, <2>7
<1> QED
  BY <1>1, <1>2 DEF Smooth

LEMMA TruthfulSmooth == Spec => [](Truthful /\ Smooth)
BY TruthfulInit, SmoothInit, TruthfulStep, SmoothStep, PTL DEF Spec

\* What was reported of a transfer, and stored of it, is what was entered.
LEMMA StatusOfEntries ==
  ASSUME Truthful, Smooth, ~Broken, NEW t \in Requests, NEW s \in said[t]
  PROVE  debits[t] = credits[t] /\ debits[t] = IF s = "SUCCESS" THEN 1 ELSE 0
<1>1. Reported(t, s) > 0
  BY DEF said
<1>2. s \in Tx!Final
  BY DEF said
<1> QED
  BY <1>1, <1>2 DEF Smooth, TriedOnce, Counts, Reported

\* Unless something failed, in either service or on the way, the final status of
\* a transfer in the one service is what the ledger of the other says of it.
THEOREM StatusesAreTrue == Spec => []StatusIsTrue
<1>1. Truthful /\ Smooth => StatusIsTrue
  BY StatusOfEntries DEF Truthful, StatusSide, TruthTold, StatusIsTrue
<1> QED
  BY <1>1, TruthfulSmooth, PTL

LEMMA FlipStep ==
  ASSUME Truthful, Smooth, [Next]_vars, NEW t \in Requests, row[t] \in Tx!Final, ~Broken
  PROVE  row'[t] = row[t]
<1>1. Maps(row, Requests) /\ row[t] \in said[t]
  BY DEF Truthful, StatusSide, TruthTold
<1>2. CASE \E p \in Requests \cup Deliveries : TxStep(p)
  <2>1. PICK p \in Requests \cup Deliveries : TxStep(p)
    BY <1>2
  <2>2. CASE Tx!FindStep(p)
    BY <2>2 DEF Tx!FindStep, Tx!GetIdem, Tx!DbByIdem, Tx!SetIdemFound, Tx!GetTx, Tx!DbById,
       Tx!SetTx, Tx!SetIdem, Tx!store
  <2>3. CASE p \in Requests /\ (Tx!DbCreate(p) \/ Tx!LogCreated(p) \/ Tx!Publish(p))
    BY <2>3, <1>1 DEF Tx!DbCreate, Tx!KeyTaken, Tx!LogCreated, Tx!Publish, Tx!store, Maps
  <2>4. CASE p \in Deliveries /\ Tx!DbUpdate(p)
    <3>1. row' = row \/ (row' = [row EXCEPT ![tx[p]] = outcome[p]] /\ txPc[p] = "dbUpdate")
      BY <2>4 DEF Tx!DbUpdate
    <3>2. tx[p] = t /\ txPc[p] = "dbUpdate" => outcome[p] \in said[t]
      BY <2>4 DEF Truthful, StatusSide, Local, TxProcs
    <3>3. outcome[p] \in said[t] => outcome[p] = row[t]
      BY <1>1, StatusOfEntries DEF said
    <3> QED
      BY <3>1, <3>2, <3>3, <1>1 DEF Maps
  <2>5. CASE p \in Deliveries /\ Tx!DeliveryStep(p) /\ ~Tx!DbUpdate(p)
    BY <2>5 DEF Tx!DeliveryStep, Tx!Deliver, Tx!LogUpdated, Tx!DelTx, Tx!DelIdem, Tx!Ack, Tx!store
  <2> QED
    BY <2>1, <2>2, <2>3, <2>4, <2>5 DEF TxStep
<1>3. CASE ~ \E p \in Requests \cup Deliveries : TxStep(p)
  BY <1>3 DEF Next, TxEnvironment, Tx!Post, Tx!Crash, Tx!Expire, Tx!store, ClStep,
     ClEnvironment, PostStep, AnswerSender, AnswerReceiver, Tx!AskSender, Tx!AskReceiver, Ask,
     Arrive, Deliver, Report, Tx!Send, Lose, vars, txVars
<1> QED
  BY <1>2, <1>3

\* A final status that a client was told may be replaced by the other one only
\* after a failure or a crash.
THEOREM FlipsOnlyBroken == Spec => FinalStatusFlipsOnlyBroken
<1>1. Truthful /\ Smooth /\ [Next]_vars
      => [\A t \in Requests : row[t] \in Tx!Final /\ row'[t] # row[t] => Broken]_vars
  BY FlipStep
<1> QED
  BY <1>1, TruthfulSmooth, PTL DEF Spec, FinalStatusFlipsOnlyBroken
=============================================================================
