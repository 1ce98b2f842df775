----------------------- MODULE TransactionsServiceProofs -----------------------
(***************************************************************************)
(* Theorems about TransactionsService, for every set of requests, messages *)
(* and keys, and any number of failed calls and crashes.                   *)
(***************************************************************************)
EXTENDS TransactionsService, TLAPS

USE ConstantsAssumption DEF ConstantsAssumption, Logged

-----------------------------------------------------------------------------
\* Type correctness.

LEMMA TypeInit == Init => TypeOK
  BY DEF Init, TypeOK, TableTypes, HandlerTypes, Budgets, Local, HoldsTx, HoldsRead, Procs,
      Status, Final, Labels, RequestLabels, DeliveryLabels, GetLabels, FindLabels, Ended, Phases

\* Only POSTs wait for these calls, and only messages for those.
LEMMA Kinds ==
  ASSUME TypeOK, NEW p \in Procs
  PROVE  /\ pc[p] \in {"getIdem", "dbByIdem", "setIdemFound", "askSender", "askReceiver",
                       "dbCreate", "publish"} => p \in Requests
         /\ pc[p] \in {"queued", "dbUpdate", "delTx", "delIdem", "ack", "acked"}
              => p \in Deliveries
         /\ pc[p] = "log" => p \notin Gets
         /\ pc[p] \in FindLabels /\ phase[p] = "create" => p \in Requests
         /\ pc[p] \in FindLabels \cup {"setIdemFound", "log", "publish", "ok"} => tx[p] \in Requests
         /\ pc[p] \in {"setIdemFound", "setTx", "setIdem"} => seen[p] \in Status
         /\ p \in Deliveries /\ pc[p] # "init" => tx[p] \in Requests /\ outcome[p] \in Final
         /\ p \in Deliveries /\ pc[p] \in {"log", "dbUpdate"} => seen[p] \in Status
BY DEF TypeOK, HoldsTx, HoldsRead, Local, Procs, RequestLabels, DeliveryLabels, GetLabels, FindLabels, Ended

\* The lifecycle log has its type after an entry was appended.
LEMMA LogGrows ==
  ASSUME logs \in [Requests -> Seq(Entries)], NEW t \in Requests, NEW e \in Entries,
         logs' = [logs EXCEPT ![t] = Append(@, e)]
  PROVE  logs' \in [Requests -> Seq(Entries)]
<1>1. Append(logs[t], e) \in Seq(Entries)
  OBVIOUS
<1> QED
  BY <1>1

\* What a handler looks like when its find has returned a transaction.
LEMMA FoundTypes ==
  ASSUME TypeOK, NEW p \in Procs, NEW s \in Status, pc[p] \in FindLabels, Found(p, s),
         outcome' = outcome
  PROVE  HandlerTypes' /\ \A q \in Procs : Local(q)'
<1> USE DEF TypeOK, HandlerTypes, Found, Goto
<1>1. AfterFound(p, s) \in {"ok", "log", "getTx", "ack", "queued"}
  BY DEF AfterFound, Local, FindLabels, Procs
<1>2. pc' \in [Procs -> Labels]
  BY <1>1 DEF Labels
<1>3. phase' \in [Procs -> Phases] /\ seen' \in [Procs -> {"none"} \cup Status]
  BY DEF Phases
<1>4. tx' \in [Procs -> Requests \cup {NoTx}]
  BY Kinds
<1>5. Local(p)'
  BY <1>1, <1>2, <1>3, <1>4, Kinds
  DEF AfterFound, IsPending, CanTransitionTo, Local, HoldsTx, HoldsRead, Procs, Final,
      RequestLabels, GetLabels, DeliveryLabels, FindLabels, Ended
<1>6. \A q \in Procs \ {p} : Local(q)'
  BY DEF Local, HoldsTx, HoldsRead
<1> QED
  BY <1>2, <1>3, <1>4, <1>5, <1>6

\* The steps of a find keep the types.
LEMMA TypeFind ==
  ASSUME TypeOK, NEW p \in Procs, FindStep(p)
  PROVE  TypeOK'
<1> USE DEF TypeOK, Goto, Works, Fails, OnThrow, store, cache, bus, memo
<1>1. CASE GetIdem(p)
  <2>0. Budgets'
    BY <1>1 DEF GetIdem, Budgets
  <2>1. TableTypes'
    BY <1>1, Kinds DEF GetIdem, TableTypes, HandlerTypes, FindLabels
  <2>2. HandlerTypes'
    BY <1>1, Kinds DEF GetIdem, TableTypes, HandlerTypes, Labels, Phases, FindLabels
  <2>3. Local(p)'
    BY <1>1, Kinds DEF GetIdem, TableTypes, HandlerTypes, Local, HoldsTx, HoldsRead, Procs,
      Final, RequestLabels, GetLabels, DeliveryLabels, FindLabels, Ended
  <2>4. \A q \in Procs \ {p} : Local(q)'
    BY <1>1 DEF GetIdem, HandlerTypes, Local, HoldsTx, HoldsRead
  <2> QED
    BY <2>0, <2>1, <2>2, <2>3, <2>4
<1>2. CASE DbByIdem(p)
  <2>0. Budgets'
    BY <1>2 DEF DbByIdem, Missing, AfterMissing, Throw, Budgets
  <2>1. TableTypes'
    BY <1>2, Kinds DEF DbByIdem, Missing, AfterMissing, Throw, TableTypes, HandlerTypes, FindLabels
  <2>2. HandlerTypes'
    <3>1. CASE \E t \in Requests : /\ row[t] # "none" /\ UNCHANGED phase
                                  /\ tx' = [tx EXCEPT ![p] = t]
                                  /\ seen' = [seen EXCEPT ![p] = row[t]]
                                  /\ Goto(p, "setIdemFound")
      BY <3>1 DEF TableTypes, HandlerTypes, Labels
    <3>2. CASE Missing(p) \/ Throw(p)
      BY <3>2 DEF Missing, AfterMissing, Throw, HandlerTypes, Labels
    <3> QED
      BY <1>2, <3>1, <3>2 DEF DbByIdem
  <2>3. Local(p)'
    BY <1>2, Kinds DEF DbByIdem, Missing, AfterMissing, Throw, TableTypes, HandlerTypes, Local, HoldsTx, HoldsRead, Procs,
      Final, RequestLabels, GetLabels, DeliveryLabels, FindLabels, Ended
  <2>4. \A q \in Procs \ {p} : Local(q)'
    BY <1>2 DEF DbByIdem, Missing, AfterMissing, Throw, HandlerTypes, Local, HoldsTx, HoldsRead
  <2> QED
    BY <2>0, <2>1, <2>2, <2>3, <2>4
<1>3. CASE SetIdemFound(p)
  <2>0. Budgets'
    BY <1>3 DEF SetIdemFound, Throw, Budgets
  <2>1. TableTypes'
    BY <1>3, Kinds DEF SetIdemFound, Throw, TableTypes, HandlerTypes, FindLabels
  <2>2. HandlerTypes'
    BY <1>3, Kinds DEF SetIdemFound, Throw, TableTypes, HandlerTypes, Labels, Phases, FindLabels
  <2>3. Local(p)'
    BY <1>3, Kinds DEF SetIdemFound, Throw, TableTypes, HandlerTypes, Local, HoldsTx, HoldsRead, Procs,
      Final, RequestLabels, GetLabels, DeliveryLabels, FindLabels, Ended
  <2>4. \A q \in Procs \ {p} : Local(q)'
    BY <1>3 DEF SetIdemFound, Throw, HandlerTypes, Local, HoldsTx, HoldsRead
  <2> QED
    BY <2>0, <2>1, <2>2, <2>3, <2>4
<1>4. CASE GetTx(p)
  <2>1. TableTypes' /\ Budgets'
    BY <1>4 DEF GetTx, TableTypes, Budgets
  <2>2. CASE Found(p, cacheTx[tx[p]]) /\ cacheTx[tx[p]] # "none"
    BY <1>4, <2>1, <2>2, Kinds, FoundTypes DEF GetTx, TableTypes, FindLabels
  <2>3. CASE Goto(p, "dbById") /\ UNCHANGED memo
    <3>1. HandlerTypes'
      BY <2>3 DEF HandlerTypes, Labels
    <3>2. \A q \in Procs : Local(q)'
      BY <1>4, <2>3 DEF GetTx, HandlerTypes, Local, HoldsTx, HoldsRead,
        RequestLabels, GetLabels, DeliveryLabels, FindLabels, Ended
    <3> QED
      BY <2>1, <3>1, <3>2
  <2> QED
    BY <1>4, <2>2, <2>3 DEF GetTx
<1>5. CASE DbById(p)
  <2>0. Budgets'
    BY <1>5 DEF DbById, Missing, AfterMissing, Throw, Budgets
  <2>1. TableTypes'
    BY <1>5, Kinds DEF DbById, Missing, AfterMissing, Throw, TableTypes, HandlerTypes, FindLabels
  <2>2. HandlerTypes'
    BY <1>5, Kinds DEF DbById, Missing, AfterMissing, Throw, TableTypes, HandlerTypes, Labels, Phases, FindLabels
  <2>3. Local(p)'
    BY <1>5, Kinds DEF DbById, Missing, AfterMissing, Throw, TableTypes, HandlerTypes, Local, HoldsTx, HoldsRead, Procs,
      Final, RequestLabels, GetLabels, DeliveryLabels, FindLabels, Ended
  <2>4. \A q \in Procs \ {p} : Local(q)'
    BY <1>5 DEF DbById, Missing, AfterMissing, Throw, HandlerTypes, Local, HoldsTx, HoldsRead
  <2> QED
    BY <2>0, <2>1, <2>2, <2>3, <2>4
<1>6. CASE SetTx(p)
  <2>0. Budgets'
    BY <1>6 DEF SetTx, Budgets
  <2>1. TableTypes'
    BY <1>6, Kinds DEF SetTx, TableTypes, FindLabels
  <2>2. CASE Found(p, seen[p])
    BY <1>6, <2>0, <2>1, <2>2, Kinds, FoundTypes DEF SetTx, FindLabels
  <2>3. CASE Goto(p, "setIdem") /\ UNCHANGED memo
    <3>1. HandlerTypes'
      BY <2>3 DEF HandlerTypes, Labels
    <3>2. \A q \in Procs : Local(q)'
      BY <1>6, <2>3 DEF SetTx, HandlerTypes, Local, HoldsTx, HoldsRead,
        RequestLabels, GetLabels, DeliveryLabels, FindLabels, Ended
    <3> QED
      BY <2>0, <2>1, <3>1, <3>2
  <2> QED
    BY <1>6, <2>2, <2>3 DEF SetTx
<1>7. CASE SetIdem(p)
  <2>0. Budgets'
    BY <1>7 DEF SetIdem, Budgets
  <2>1. TableTypes'
    BY <1>7, Kinds DEF SetIdem, TableTypes, FindLabels
  <2> QED
    BY <1>7, <2>0, <2>1, Kinds, FoundTypes DEF SetIdem, FindLabels
<1> QED
  BY <1>1, <1>2, <1>3, <1>4, <1>5, <1>6, <1>7 DEF FindStep

\* The other steps of a POST keep the types.
LEMMA TypeRequest ==
  ASSUME TypeOK, NEW p \in Requests, RequestStep(p)
  PROVE  TypeOK'
<1> USE DEF TypeOK, Goto, Works, Fails, OnThrow, store, cache, bus, memo
<1>0. p \in Procs
  BY DEF Procs
<1>1. CASE AskSender(p)
  <2>0. Budgets'
    BY <1>1 DEF AskSender, Budgets
  <2>1. TableTypes'
    BY <1>1, <1>0, Kinds DEF AskSender, TableTypes, HandlerTypes, FindLabels
  <2>2. HandlerTypes'
    BY <1>1, <1>0, Kinds DEF AskSender, TableTypes, HandlerTypes, Labels, Phases, FindLabels
  <2>3. Local(p)'
    BY <1>1, <1>0, Kinds DEF AskSender, TableTypes, HandlerTypes, Local, HoldsTx, HoldsRead, Procs,
      Final, RequestLabels, GetLabels, DeliveryLabels, FindLabels, Ended
  <2>4. \A q \in Procs \ {p} : Local(q)'
    BY <1>1 DEF AskSender, HandlerTypes, Local, HoldsTx, HoldsRead
  <2> QED
    BY <2>0, <2>1, <2>2, <2>3, <2>4
<1>2. CASE AskReceiver(p)
  <2>0. Budgets'
    BY <1>2 DEF AskReceiver, Budgets
  <2>1. TableTypes'
    BY <1>2, <1>0, Kinds DEF AskReceiver, TableTypes, HandlerTypes, FindLabels
  <2>2. HandlerTypes'
    BY <1>2, <1>0, Kinds DEF AskReceiver, TableTypes, HandlerTypes, Labels, Phases, FindLabels
  <2>3. Local(p)'
    BY <1>2, <1>0, Kinds DEF AskReceiver, TableTypes, HandlerTypes, Local, HoldsTx, HoldsRead, Procs,
      Final, RequestLabels, GetLabels, DeliveryLabels, FindLabels, Ended
  <2>4. \A q \in Procs \ {p} : Local(q)'
    BY <1>2 DEF AskReceiver, HandlerTypes, Local, HoldsTx, HoldsRead
  <2> QED
    BY <2>0, <2>1, <2>2, <2>3, <2>4
<1>3. CASE DbCreate(p)
  <2>0. Budgets'
    BY <1>3 DEF DbCreate, Throw, Budgets
  <2>1. TableTypes'
    BY <1>3 DEF DbCreate, TableTypes, Status
  <2>2. CASE /\ tx' = [tx EXCEPT ![p] = p]
             /\ seen' = [seen EXCEPT ![p] = "PENDING"]
             /\ phase' = [phase EXCEPT ![p] = "save"]
             /\ Goto(p, "setTx")
    <3>1. HandlerTypes'
      BY <1>0, <2>2 DEF HandlerTypes, Labels, Phases, Status
    <3>2. Local(p)'
      BY <1>0, <2>2 DEF HandlerTypes, Local, HoldsTx, HoldsRead, Status,
        RequestLabels, GetLabels, FindLabels
    <3>3. \A q \in Procs \ {p} : Local(q)'
      BY <1>3, <2>2 DEF DbCreate, HandlerTypes, Local, HoldsTx, HoldsRead
    <3> QED
      BY <2>0, <2>1, <3>1, <3>2, <3>3
  <2>3. CASE Throw(p)
    <3>1. HandlerTypes'
      BY <1>0, <2>3 DEF Throw, HandlerTypes, Labels
    <3>2. \A q \in Procs : Local(q)'
      BY <1>0, <1>3, <2>3 DEF DbCreate, Throw, HandlerTypes, Local, HoldsTx, HoldsRead,
        RequestLabels, GetLabels, FindLabels, Ended
    <3> QED
      BY <2>0, <2>1, <3>1, <3>2
  <2> QED
    BY <1>3, <2>2, <2>3 DEF DbCreate
<1>4. CASE LogCreated(p)
  <2>0. Budgets'
    BY <1>4 DEF LogCreated, Throw, Stored, Budgets
  <2>1. TableTypes'
    <3>1. <<"none", "PENDING">> \in Entries
      BY DEF Entries, Status
    <3>2. logs' \in [Requests -> Seq(Entries)]
      BY <1>4, <3>1, LogGrows DEF LogCreated, TableTypes
    <3> QED
      BY <1>4, <3>2 DEF LogCreated, TableTypes
  <2>2. HandlerTypes'
    BY <1>4, <1>0, Kinds DEF LogCreated, Throw, Stored, TableTypes, HandlerTypes, Labels, Phases, FindLabels
  <2>3. Local(p)'
    BY <1>4, <1>0, Kinds DEF LogCreated, Throw, Stored, TableTypes, HandlerTypes, Local, HoldsTx, HoldsRead, Procs,
      Final, RequestLabels, GetLabels, DeliveryLabels, FindLabels, Ended
  <2>4. \A q \in Procs \ {p} : Local(q)'
    BY <1>4 DEF LogCreated, Throw, Stored, HandlerTypes, Local, HoldsTx, HoldsRead
  <2> QED
    BY <2>0, <2>1, <2>2, <2>3, <2>4
<1>5. CASE Publish(p)
  <2>0. Budgets'
    BY <1>5 DEF Publish, Budgets
  <2>1. TableTypes'
    <3>1. PICK n \in {0, 1} : published' = [published EXCEPT ![p] = @ + n]
      BY <1>5 DEF Publish
    <3>2. published' \in [Requests -> Nat]
      BY <3>1 DEF TableTypes
    <3> QED
      BY <1>5, <3>2 DEF Publish, TableTypes
  <2>2. HandlerTypes'
    BY <1>5, <1>0, Kinds DEF Publish, TableTypes, HandlerTypes, Labels, Phases, FindLabels
  <2>3. Local(p)'
    BY <1>5, <1>0, Kinds DEF Publish, TableTypes, HandlerTypes, Local, HoldsTx, HoldsRead, Procs,
      Final, RequestLabels, GetLabels, DeliveryLabels, FindLabels, Ended
  <2>4. \A q \in Procs \ {p} : Local(q)'
    BY <1>5 DEF Publish, HandlerTypes, Local, HoldsTx, HoldsRead
  <2> QED
    BY <2>0, <2>1, <2>2, <2>3, <2>4
<1> QED
  BY <1>1, <1>2, <1>3, <1>4, <1>5 DEF RequestStep

\* The steps of the consumer keep the types.
LEMMA TypeDelivery ==
  ASSUME TypeOK, NEW d \in Deliveries, DeliveryStep(d)
  PROVE  TypeOK'
<1> USE DEF TypeOK, Goto, Works, Fails, OnThrow, store, cache, bus, memo
<1>0. d \in Procs
  BY DEF Procs
<1>1. CASE Deliver(d)
  <2>0. Budgets'
    BY <1>1 DEF Deliver, Budgets
  <2>1. TableTypes'
    BY <1>1, <1>0, Kinds DEF Deliver, TableTypes, HandlerTypes, FindLabels
  <2>2. HandlerTypes'
    BY <1>1, <1>0, Kinds DEF Deliver, TableTypes, HandlerTypes, Labels, Phases, FindLabels
  <2>3. Local(d)'
    BY <1>1, <1>0, Kinds DEF Deliver, TableTypes, HandlerTypes, Local, HoldsTx, HoldsRead, Procs,
      Final, RequestLabels, GetLabels, DeliveryLabels, FindLabels, Ended
  <2>4. \A q \in Procs \ {d} : Local(q)'
    BY <1>1 DEF Deliver, HandlerTypes, Local, HoldsTx, HoldsRead
  <2> QED
    BY <2>0, <2>1, <2>2, <2>3, <2>4
<1>2. CASE LogUpdated(d)
  <2>0. Budgets'
    BY <1>2 DEF LogUpdated, Throw, Budgets
  <2>1. TableTypes'
    <3>1. tx[d] \in Requests /\ <<seen[d], outcome[d]>> \in Entries
      BY <1>2, <1>0, Kinds DEF LogUpdated, Entries, Status
    <3>2. logs' \in [Requests -> Seq(Entries)]
      BY <1>2, <3>1, LogGrows DEF LogUpdated, TableTypes
    <3> QED
      BY <1>2, <3>2 DEF LogUpdated, TableTypes
  <2>2. HandlerTypes'
    BY <1>2, <1>0, Kinds DEF LogUpdated, Throw, TableTypes, HandlerTypes, Labels, Phases, FindLabels
  <2>3. Local(d)'
    BY <1>2, <1>0, Kinds DEF LogUpdated, Throw, TableTypes, HandlerTypes, Local, HoldsTx, HoldsRead, Procs,
      Final, RequestLabels, GetLabels, DeliveryLabels, FindLabels, Ended
  <2>4. \A q \in Procs \ {d} : Local(q)'
    BY <1>2 DEF LogUpdated, Throw, HandlerTypes, Local, HoldsTx, HoldsRead
  <2> QED
    BY <2>0, <2>1, <2>2, <2>3, <2>4
<1>3. CASE DbUpdate(d)
  <2>0. Budgets'
    BY <1>3 DEF DbUpdate, Throw, Budgets
  <2>1. TableTypes'
    BY <1>3, <1>0, Kinds DEF DbUpdate, Throw, TableTypes, Status
  <2>2. HandlerTypes'
    BY <1>3, <1>0, Kinds DEF DbUpdate, Throw, TableTypes, HandlerTypes, Labels, Phases, FindLabels
  <2>3. Local(d)'
    BY <1>3, <1>0, Kinds DEF DbUpdate, Throw, TableTypes, HandlerTypes, Local, HoldsTx, HoldsRead, Procs,
      Final, RequestLabels, GetLabels, DeliveryLabels, FindLabels, Ended
  <2>4. \A q \in Procs \ {d} : Local(q)'
    BY <1>3 DEF DbUpdate, Throw, HandlerTypes, Local, HoldsTx, HoldsRead
  <2> QED
    BY <2>0, <2>1, <2>2, <2>3, <2>4
<1>4. CASE DelTx(d)
  <2>0. Budgets'
    BY <1>4 DEF DelTx, Budgets
  <2>1. TableTypes'
    BY <1>4, <1>0, Kinds DEF DelTx, TableTypes, HandlerTypes, FindLabels
  <2>2. HandlerTypes'
    BY <1>4, <1>0, Kinds DEF DelTx, TableTypes, HandlerTypes, Labels, Phases, FindLabels
  <2>3. Local(d)'
    BY <1>4, <1>0, Kinds DEF DelTx, TableTypes, HandlerTypes, Local, HoldsTx, HoldsRead, Procs,
      Final, RequestLabels, GetLabels, DeliveryLabels, FindLabels, Ended
  <2>4. \A q \in Procs \ {d} : Local(q)'
    BY <1>4 DEF DelTx, HandlerTypes, Local, HoldsTx, HoldsRead
  <2> QED
    BY <2>0, <2>1, <2>2, <2>3, <2>4
<1>5. CASE DelIdem(d)
  <2>0. Budgets'
    BY <1>5 DEF DelIdem, Budgets
  <2>1. TableTypes'
    BY <1>5, <1>0, Kinds DEF DelIdem, TableTypes, HandlerTypes, FindLabels
  <2>2. HandlerTypes'
    BY <1>5, <1>0, Kinds DEF DelIdem, TableTypes, HandlerTypes, Labels, Phases, FindLabels
  <2>3. Local(d)'
    BY <1>5, <1>0, Kinds DEF DelIdem, TableTypes, HandlerTypes, Local, HoldsTx, HoldsRead, Procs,
      Final, RequestLabels, GetLabels, DeliveryLabels, FindLabels, Ended
  <2>4. \A q \in Procs \ {d} : Local(q)'
    BY <1>5 DEF DelIdem, HandlerTypes, Local, HoldsTx, HoldsRead
  <2> QED
    BY <2>0, <2>1, <2>2, <2>3, <2>4
<1>6. CASE Ack(d)
  <2>0. Budgets'
    BY <1>6 DEF Ack, Budgets
  <2>1. TableTypes'
    BY <1>6, <1>0, Kinds DEF Ack, TableTypes, HandlerTypes, FindLabels
  <2>2. HandlerTypes'
    BY <1>6, <1>0, Kinds DEF Ack, TableTypes, HandlerTypes, Labels, Phases, FindLabels
  <2>3. Local(d)'
    BY <1>6, <1>0, Kinds DEF Ack, TableTypes, HandlerTypes, Local, HoldsTx, HoldsRead, Procs,
      Final, RequestLabels, GetLabels, DeliveryLabels, FindLabels, Ended
  <2>4. \A q \in Procs \ {d} : Local(q)'
    BY <1>6 DEF Ack, HandlerTypes, Local, HoldsTx, HoldsRead
  <2> QED
    BY <2>0, <2>1, <2>2, <2>3, <2>4
<1> QED
  BY <1>1, <1>2, <1>3, <1>4, <1>5, <1>6 DEF DeliveryStep

\* What clients, the broker, crashes and evictions do keeps the types.
LEMMA TypeEnvironment ==
  ASSUME TypeOK, Environment
  PROVE  TypeOK'
<1> USE DEF TypeOK, Goto, store, cache, bus, memo
<1>1. ASSUME NEW p \in Requests, Post(p)
      PROVE  TypeOK'
  <2>1. TableTypes' /\ Budgets'
    BY <1>1 DEF Post, TableTypes, Budgets
  <2>2. HandlerTypes'
    BY <1>1 DEF Post, HandlerTypes, Labels, Phases
  <2>3. \A q \in Procs : Local(q)'
    BY <1>1 DEF Post, HandlerTypes, Local, HoldsTx, HoldsRead, Procs, RequestLabels, FindLabels
  <2> QED
    BY <2>1, <2>2, <2>3
<1>2. ASSUME NEW g \in Gets, NEW t \in Requests, GetById(g, t)
      PROVE  TypeOK'
  <2>1. TableTypes' /\ Budgets'
    BY <1>2 DEF GetById, TableTypes, Budgets
  <2>2. HandlerTypes'
    BY <1>2 DEF GetById, HandlerTypes, Labels
  <2>3. \A q \in Procs : Local(q)'
    BY <1>2 DEF GetById, HandlerTypes, Local, HoldsTx, HoldsRead, Procs, GetLabels, FindLabels
  <2> QED
    BY <2>1, <2>2, <2>3
<1>3. ASSUME NEW d \in Deliveries, NEW t \in Requests, NEW s \in Final, Send(d, t, s)
      PROVE  TypeOK'
  <2>1. TableTypes' /\ Budgets'
    BY <1>3 DEF Send, TableTypes, Budgets
  <2>2. HandlerTypes'
    BY <1>3 DEF Send, HandlerTypes, Labels
  <2>3. \A q \in Procs : Local(q)'
    BY <1>3 DEF Send, TableTypes, HandlerTypes, Local, HoldsTx, HoldsRead, Procs, DeliveryLabels,
      FindLabels
  <2> QED
    BY <2>1, <2>2, <2>3
<1>4. ASSUME Crash
      PROVE  TypeOK'
  <2>1. TableTypes' /\ Budgets'
    BY <1>4 DEF Crash, TableTypes, Budgets
  <2>2. HandlerTypes'
    BY <1>4 DEF Crash, HandlerTypes, Labels
  <2>3. \A q \in Procs : Local(q)'
    BY <1>4 DEF Crash, HandlerTypes, Local, HoldsTx, HoldsRead, Procs, Resting,
      RequestLabels, GetLabels, DeliveryLabels, FindLabels, Ended
  <2> QED
    BY <2>1, <2>2, <2>3
<1>5. ASSUME Expire
      PROVE  TypeOK'
  <2>1. TableTypes' /\ Budgets'
    BY <1>5 DEF Expire, TableTypes, Budgets
  <2>2. HandlerTypes' /\ \A q \in Procs : Local(q)'
    BY <1>5 DEF Expire, HandlerTypes, Local, HoldsTx, HoldsRead
  <2> QED
    BY <2>1, <2>2
<1> QED
  BY <1>1, <1>2, <1>3, <1>4, <1>5 DEF Environment

LEMMA TypeStep == TypeOK /\ [Next]_vars => TypeOK'
<1> SUFFICES ASSUME TypeOK, [Next]_vars
             PROVE  TypeOK'
  OBVIOUS
<1>1. CASE UNCHANGED vars
  BY <1>1 DEF vars, TypeOK, TableTypes, HandlerTypes, Budgets, Local, HoldsTx, HoldsRead
<1>2. CASE Next
  BY <1>2, TypeFind, TypeRequest, TypeDelivery, TypeEnvironment DEF Next
<1> QED
  BY <1>1, <1>2

\* The service keeps its types and no handler uses a transaction, or a status,
\* it does not hold.
THEOREM TypeCorrect == Spec => []TypeOK
<1>1. Init => TypeOK
  BY TypeInit
<1>2. TypeOK /\ [Next]_vars => TypeOK'
  BY TypeStep
<1> QED
  BY <1>1, <1>2, PTL DEF Spec
=============================================================================
