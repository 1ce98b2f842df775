------------------------ MODULE TransactionsStatusProofs ------------------------
(***************************************************************************)
(* Statuses, proved: however reports, reads, failures and crashes          *)
(* interleave, the table, the lifecycle log, the cache and the acks agree. *)
(***************************************************************************)
EXTENDS TransactionsKeysProofs

USE ConstantsAssumption DEF ConstantsAssumption, Logged

-----------------------------------------------------------------------------
LEMMA StatusInit == Init => StatusInvariant
  BY DEF Init, StatusInvariant, StatusTables, StatusLocal, CacheNotAhead, LogLegal,
      FinalStatusLogged, Final, Procs

\* No log entry is ever changed.
LogsKept ==
  \A t \in Requests :
    /\ Len(logs[t]) \in Nat /\ Len(logs'[t]) \in Nat /\ Len(logs[t]) <= Len(logs'[t])
    /\ \A i \in 1 .. Len(logs[t]) : logs'[t][i] = logs[t][i]

LEMMA LogsSame ==
  ASSUME TypeOK, UNCHANGED logs
  PROVE  LogsKept
BY DEF TypeOK, TableTypes, LogsKept

LEMMA LogsAppended ==
  ASSUME TypeOK, NEW t \in Requests, NEW e \in Entries,
         logs' = [logs EXCEPT ![t] = Append(@, e)]
  PROVE  /\ LogsKept
         /\ Len(logs'[t]) = Len(logs[t]) + 1 /\ logs'[t][Len(logs[t]) + 1] = e
         /\ Len(logs[t]) \in Nat
         /\ \A u \in Requests \ {t} : logs'[u] = logs[u]
<1>1. \A u \in Requests : logs[u] \in Seq(Entries) /\ Len(logs[u]) \in Nat
  BY DEF TypeOK, TableTypes
<1>2. logs'[t] = Append(logs[t], e) /\ \A u \in Requests \ {t} : logs'[u] = logs[u]
  BY DEF TypeOK, TableTypes
<1>3. /\ Len(logs'[t]) = Len(logs[t]) + 1 /\ logs'[t][Len(logs[t]) + 1] = e
      /\ \A i \in 1 .. Len(logs[t]) : logs'[t][i] = logs[t][i]
  BY <1>1, <1>2, AppendFacts
<1> QED
  BY <1>1, <1>2, <1>3 DEF LogsKept

\* A step of p that takes no row out of a final status and changes no log entry
\* leaves the other handlers' part of the invariant alone.
LEMMA StatusFrame ==
  ASSUME TypeOK, StatusInvariant, NEW p \in Procs, LogsKept,
         \A t \in Requests : row[t] \in Final => row'[t] \in Final,
         \A q \in Procs \ {p} : pc'[q] = pc[q] /\ tx'[q] = tx[q] /\ seen'[q] = seen[q],
         \A q \in Deliveries \ {p} : outcome'[q] = outcome[q]
  PROVE  \A q \in Procs \ {p} : StatusLocal(q)'
<1> SUFFICES ASSUME NEW q \in Procs \ {p}
             PROVE  StatusLocal(q)'
  OBVIOUS
<1>1. StatusLocal(q)
  BY DEF StatusInvariant
<1>2. pc[q] \in {"setIdemFound", "setTx", "setIdem"} => tx[q] \in Requests
  BY Kinds DEF FindLabels
<1>3. q \in Deliveries /\ pc[q] # "init" => tx[q] \in Requests
  BY Kinds
<1>4. q \in Deliveries /\ pc[q] = "dbUpdate" =>
        \E i \in 2 .. Len(logs'[tx[q]]) : logs'[tx[q]][i] = <<"PENDING", outcome[q]>>
  BY <1>1, <1>3 DEF StatusLocal, LogsKept
<1> QED
  BY <1>1, <1>2, <1>3, <1>4 DEF StatusLocal

\* So does, for every handler, a step that touches no row, log or report and
\* goes on to a call of which the invariant says nothing new.
LEMMA StatusMove ==
  ASSUME TypeOK, StatusInvariant, NEW p \in Procs,
         UNCHANGED <<row, logs, tx, seen, outcome>>,
         NEW l \in Labels, Goto(p, l),
         l \in {"setIdemFound", "setTx", "setIdem"} => pc[p] \in {"setIdemFound", "setTx"},
         p \in Deliveries => l \notin {"log", "dbUpdate", "delTx"},
         p \in Deliveries /\ l \in {"delIdem", "ack", "acked"} => pc[p] \in {"delTx", "delIdem", "ack"}
  PROVE  \A q \in Procs : StatusLocal(q)'
<1>1. pc'[p] = l /\ \A q \in Procs \ {p} : pc'[q] = pc[q]
  BY DEF Goto, TypeOK, HandlerTypes
<1>2. \A q \in Procs \ {p} : StatusLocal(q)'
  BY <1>1, LogsSame, StatusFrame
<1>3. StatusLocal(p)'
  BY <1>1 DEF StatusInvariant, StatusLocal
<1> QED
  BY <1>2, <1>3

\* A find that returned a status not ahead of the table keeps its handler's
\* part: the consumer goes on to log only from PENDING, to ack only what is
\* final.
LEMMA StatusFound ==
  ASSUME TypeOK, StatusInvariant, NEW p \in Procs, NEW s \in Status, pc[p] \in FindLabels,
         Found(p, s), s \in Final => row[tx[p]] \in Final, UNCHANGED <<row, logs, outcome>>
  PROVE  \A q \in Procs : StatusLocal(q)'
<1>1. /\ AfterFound(p, s) \in {"ok", "log", "getTx", "ack", "queued"}
      /\ p \in Deliveries /\ AfterFound(p, s) = "log" => s = "PENDING"
      /\ p \in Deliveries /\ AfterFound(p, s) = "ack" => s \in Final
  BY DEF AfterFound, TypeOK, Local, FindLabels, Procs, Status, CanTransitionTo, IsPending
<1>2. \A q \in Procs \ {p} : StatusLocal(q)'
  BY LogsSame, StatusFrame DEF Found, Goto, TypeOK, HandlerTypes
<1>3. p \in Deliveries => tx'[p] = tx[p]
  BY DEF Found, TypeOK, Local, FindLabels
<1>4. pc'[p] = AfterFound(p, s) /\ seen'[p] = s
  BY DEF Found, Goto, TypeOK, HandlerTypes
<1>5. StatusLocal(p)'
  BY <1>1, <1>3, <1>4 DEF StatusLocal
<1> QED
  BY <1>2, <1>5

\* What is cached of one transaction may change, to nothing or to a status that
\* is not ahead of its row.
LEMMA StatusCached ==
  ASSUME TypeOK, StatusTables, UNCHANGED <<row, logs>>,
         NEW t \in Requests, NEW s \in Status \cup {"none"},
         s # "none" => row[t] # "none", s \in Final => row[t] \in Final,
         cacheTx' = [cacheTx EXCEPT ![t] = s]
  PROVE  StatusTables'
BY DEF StatusTables, CacheNotAhead, LogLegal, FinalStatusLogged, TypeOK, TableTypes

LEMMA StatusSame ==
  ASSUME StatusTables, UNCHANGED <<row, logs, cacheTx>>
  PROVE  StatusTables'
BY DEF StatusTables, CacheNotAhead, LogLegal, FinalStatusLogged

\* The row a find is about exists once it is in the handler's hand to cache;
\* the row of a report always does.
LEMMA HeldRows ==
  ASSUME TypeOK, KeysInvariant, NEW p \in Procs
  PROVE  /\ pc[p] \in {"setIdemFound", "setTx", "setIdem"} =>
              tx[p] \in Requests /\ seen[p] \in Status /\ row[tx[p]] # "none"
         /\ p \in Deliveries /\ pc[p] # "init" =>
              tx[p] \in Requests /\ row[tx[p]] # "none" /\ Announced(tx[p])
<1>1. pc[p] \in {"setIdemFound", "setTx", "setIdem"} => tx[p] \in Requests /\ seen[p] \in Status
  BY Kinds DEF FindLabels, TypeOK, Local, HoldsRead
<1>2. pc[p] \in {"setIdemFound", "setTx", "setIdem"} => row[tx[p]] # "none"
  BY Kinds DEF KeysInvariant, KeysLocal, FindLabels
<1>3. p \in Deliveries /\ pc[p] # "init" => tx[p] \in Requests
  BY Kinds
<1>4. p \in Deliveries /\ pc[p] # "init" => row[tx[p]] # "none" /\ Announced(tx[p])
  BY <1>3 DEF KeysInvariant, KeysTables, KeysLocal
<1> QED
  BY <1>1, <1>2, <1>3, <1>4

-----------------------------------------------------------------------------
\* The steps of a find keep the invariant.
LEMMA StatusFind ==
  ASSUME TypeOK, KeysInvariant, StatusInvariant, NEW p \in Procs, FindStep(p)
  PROVE  StatusInvariant'
<1> USE DEF StatusInvariant, store, cache, bus, memo
<1>1. CASE GetIdem(p)
  <2>1. p \in Requests /\ p \notin Deliveries /\ StatusTables'
    BY <1>1, Kinds, StatusSame DEF GetIdem
  <2>2. pc'[p] \in {"getTx", "dbByIdem"} /\ \A q \in Procs \ {p} : pc'[q] = pc[q] /\ tx'[q] = tx[q]
    BY <1>1 DEF GetIdem, Goto, TypeOK, HandlerTypes
  <2>3. StatusLocal(p)'
    BY <2>1, <2>2 DEF StatusLocal
  <2>4. \A q \in Procs \ {p} : StatusLocal(q)'
    BY <1>1, <2>2, LogsSame, StatusFrame DEF GetIdem
  <2> QED
    BY <2>1, <2>3, <2>4
<1>2. CASE DbByIdem(p)
  <2>1. p \in Requests /\ p \notin Deliveries /\ StatusTables'
    BY <1>2, Kinds, StatusSame DEF DbByIdem
  <2>2. ASSUME NEW t \in Requests, tx' = [tx EXCEPT ![p] = t], seen' = [seen EXCEPT ![p] = row[t]],
               Goto(p, "setIdemFound")
        PROVE  StatusInvariant'
    <3>1. pc'[p] = "setIdemFound" /\ tx'[p] = t /\ seen'[p] = row[t]
      BY <2>2 DEF Goto, TypeOK, HandlerTypes
    <3>2. StatusLocal(p)'
      BY <1>2, <2>1, <3>1 DEF DbByIdem, StatusLocal
    <3>3. \A q \in Procs \ {p} : StatusLocal(q)'
      BY <1>2, <2>2, LogsSame, StatusFrame DEF DbByIdem, Goto, TypeOK, HandlerTypes
    <3> QED
      BY <2>1, <3>2, <3>3
  <2>3. CASE Missing(p)
    BY <1>2, <2>1, <2>3, StatusMove DEF DbByIdem, Missing, AfterMissing, OnThrow, Labels
  <2>4. CASE Throw(p)
    BY <1>2, <2>1, <2>4, StatusMove DEF DbByIdem, Throw, OnThrow, Labels
  <2> QED
    BY <1>2, <2>2, <2>3, <2>4 DEF DbByIdem
<1>3. CASE SetIdemFound(p)
  <2>1. p \in Requests /\ p \notin Deliveries /\ StatusTables'
    BY <1>3, Kinds, StatusSame DEF SetIdemFound
  <2>2. CASE Goto(p, "setTx") /\ UNCHANGED memo
    BY <1>3, <2>1, <2>2, StatusMove DEF SetIdemFound, Labels
  <2>3. CASE Throw(p)
    BY <1>3, <2>1, <2>3, StatusMove DEF SetIdemFound, Throw, OnThrow, Labels
  <2> QED
    BY <1>3, <2>2, <2>3 DEF SetIdemFound
<1>4. CASE GetTx(p)
  <2>1. StatusTables'
    BY <1>4, StatusSame DEF GetTx
  <2>2. CASE Found(p, cacheTx[tx[p]]) /\ cacheTx[tx[p]] # "none"
    <3>1. tx[p] \in Requests
      BY <1>4, Kinds DEF GetTx, FindLabels
    <3>2. cacheTx[tx[p]] \in Status /\ (cacheTx[tx[p]] \in Final => row[tx[p]] \in Final)
      BY <2>2, <3>1 DEF TypeOK, TableTypes, StatusTables, CacheNotAhead
    <3> QED
      BY <1>4, <2>1, <2>2, <3>2, StatusFound DEF GetTx, FindLabels
  <2>3. CASE Goto(p, "dbById") /\ UNCHANGED memo
    BY <1>4, <2>1, <2>3, StatusMove DEF GetTx, Labels
  <2> QED
    BY <1>4, <2>2, <2>3 DEF GetTx
<1>5. CASE DbById(p)
  <2>1. StatusTables'
    BY <1>5, StatusSame DEF DbById
  <2>2. CASE seen' = [seen EXCEPT ![p] = row[tx[p]]] /\ Goto(p, "setTx") /\ UNCHANGED tx
    <3>1. pc'[p] = "setTx" /\ seen'[p] = row[tx[p]]
      BY <2>2 DEF Goto, TypeOK, HandlerTypes
    <3>2. StatusLocal(p)'
      BY <1>5, <2>2, <3>1 DEF DbById, StatusLocal
    <3>3. \A q \in Procs \ {p} : StatusLocal(q)'
      BY <1>5, <2>2, LogsSame, StatusFrame DEF DbById, Goto, TypeOK, HandlerTypes
    <3> QED
      BY <2>1, <3>2, <3>3
  <2>3. CASE Missing(p) /\ row[tx[p]] = "none"
    <3>1. p \notin Deliveries
      BY <1>5, <2>3, HeldRows DEF DbById
    <3> QED
      BY <1>5, <2>1, <2>3, <3>1, StatusMove DEF DbById, Missing, AfterMissing, OnThrow, Labels
  <2>4. CASE Throw(p)
    BY <1>5, <2>1, <2>4, StatusMove DEF DbById, Throw, OnThrow, Labels
  <2> QED
    BY <1>5, <2>2, <2>3, <2>4 DEF DbById
<1>6. CASE SetTx(p)
  <2>1. /\ tx[p] \in Requests /\ seen[p] \in Status /\ row[tx[p]] # "none"
        /\ seen[p] \in Final => row[tx[p]] \in Final
    BY <1>6, HeldRows DEF SetTx, StatusLocal
  <2>2. StatusTables'
    BY <1>6, <2>1, StatusSame, StatusCached DEF SetTx
  <2>3. CASE Found(p, seen[p])
    BY <1>6, <2>1, <2>2, <2>3, StatusFound DEF SetTx, FindLabels
  <2>4. CASE Goto(p, "setIdem") /\ UNCHANGED memo
    BY <1>6, <2>2, <2>4, StatusMove DEF SetTx, Labels
  <2> QED
    BY <1>6, <2>3, <2>4 DEF SetTx
<1>7. CASE SetIdem(p)
  <2>1. seen[p] \in Status /\ (seen[p] \in Final => row[tx[p]] \in Final)
    BY <1>7, HeldRows DEF SetIdem, StatusLocal
  <2>2. StatusTables'
    BY <1>7, StatusSame DEF SetIdem
  <2> QED
    BY <1>7, <2>1, <2>2, StatusFound DEF SetIdem, FindLabels
<1> QED
  BY <1>1, <1>2, <1>3, <1>4, <1>5, <1>6, <1>7 DEF FindStep

\* The other steps of a POST keep the invariant.
LEMMA StatusRequest ==
  ASSUME TypeOK, KeysInvariant, StatusInvariant, NEW p \in Requests, RequestStep(p)
  PROVE  StatusInvariant'
<1> USE DEF StatusInvariant, store, cache, bus, memo
<1>0. p \in Procs /\ p \notin Deliveries
  BY DEF Procs
<1>1. CASE AskSender(p)
  BY <1>0, <1>1, StatusSame, StatusMove DEF AskSender, Labels
<1>2. CASE AskReceiver(p)
  BY <1>0, <1>2, StatusSame, StatusMove DEF AskReceiver, Labels
<1>3. CASE DbCreate(p)
  <2>1. CASE /\ ~KeyTaken(p) /\ row' = [row EXCEPT ![p] = "PENDING"]
             /\ tx' = [tx EXCEPT ![p] = p]
             /\ seen' = [seen EXCEPT ![p] = "PENDING"]
             /\ Goto(p, "setTx")
    <3>1. row[p] = "none" /\ \A t \in Requests : row'[t] = IF t = p THEN "PENDING" ELSE row[t]
      BY <2>1 DEF KeyTaken, TypeOK, TableTypes
    <3>2. StatusTables'
      <4>1. LogLegal'
        BY <1>3 DEF DbCreate, StatusTables, LogLegal
      <4>2. CacheNotAhead'
        BY <1>3, <3>1 DEF DbCreate, StatusTables, CacheNotAhead, Final
      <4>3. \A t \in Requests : row'[t] \in Final => row'[t] = row[t]
        BY <3>1 DEF Final
      <4>4. FinalStatusLogged'
        BY <1>3, <4>3 DEF DbCreate, StatusTables, FinalStatusLogged
      <4> QED
        BY <4>1, <4>2, <4>4 DEF StatusTables
    <3>3. pc'[p] = "setTx" /\ seen'[p] = "PENDING"
      BY <1>0, <2>1 DEF Goto, TypeOK, HandlerTypes
    <3>4. StatusLocal(p)'
      BY <1>0, <3>3 DEF StatusLocal, Final
    <3>5. \A t \in Requests : row[t] \in Final => row'[t] \in Final
      BY <3>1 DEF Final
    <3>6. \A q \in Procs \ {p} : StatusLocal(q)'
      BY <1>0, <1>3, <2>1, <3>5, LogsSame, StatusFrame DEF DbCreate, Goto, TypeOK, HandlerTypes
    <3> QED
      BY <3>2, <3>4, <3>6
  <2>2. CASE Throw(p) /\ UNCHANGED row
    BY <1>0, <1>3, <2>2, StatusSame, StatusMove DEF DbCreate, Throw, OnThrow, Labels
  <2> QED
    BY <1>3, <2>1, <2>2 DEF DbCreate
<1>4. CASE LogCreated(p)
  <2>1. CASE /\ logs' = [logs EXCEPT ![p] = Append(@, <<"none", "PENDING">>)]
             /\ Goto(p, "publish") /\ UNCHANGED memo
    <3>1. logs[p] = <<>> /\ Len(logs[p]) = 0 /\ <<"none", "PENDING">> \in Entries
      BY <1>0, <1>4 DEF LogCreated, KeysInvariant, KeysLocal, Entries, Status
    <3>2. /\ LogsKept /\ Len(logs'[p]) = 1 /\ logs'[p][1] = <<"none", "PENDING">>
          /\ \A t \in Requests \ {p} : logs'[t] = logs[t]
      <4>1. /\ LogsKept /\ Len(logs'[p]) = Len(logs[p]) + 1
            /\ logs'[p][Len(logs[p]) + 1] = <<"none", "PENDING">>
            /\ \A t \in Requests \ {p} : logs'[t] = logs[t]
        BY <2>1, <3>1, LogsAppended
      <4> QED
        BY <3>1, <4>1
    <3>3. row[p] \notin Final
      BY <3>1 DEF StatusTables, FinalStatusLogged
    <3>4. StatusTables'
      <4>1. LogLegal'
        BY <3>2 DEF StatusTables, LogLegal
      <4>2. CacheNotAhead' /\ FinalStatusLogged'
        BY <1>4, <3>2, <3>3 DEF LogCreated, StatusTables, CacheNotAhead, FinalStatusLogged
      <4> QED
        BY <4>1, <4>2 DEF StatusTables
    <3>5. StatusLocal(p)'
      BY <1>0, <2>1 DEF Goto, TypeOK, HandlerTypes, StatusLocal
    <3>6. \A q \in Procs \ {p} : StatusLocal(q)'
      BY <1>0, <1>4, <2>1, <3>2, StatusFrame DEF LogCreated, Goto, TypeOK, HandlerTypes
    <3> QED
      BY <3>4, <3>5, <3>6
  <2>2. CASE Throw(p) /\ UNCHANGED logs
    BY <1>0, <1>4, <2>2, StatusSame, StatusMove DEF LogCreated, Throw, OnThrow, Labels
  <2> QED
    BY <1>4, <2>1, <2>2 DEF LogCreated
<1>5. CASE Publish(p)
  BY <1>0, <1>5, StatusSame, StatusMove DEF Publish, Labels
<1> QED
  BY <1>1, <1>2, <1>3, <1>4, <1>5 DEF RequestStep

\* The steps of the consumer keep the invariant.
LEMMA StatusDelivery ==
  ASSUME TypeOK, KeysInvariant, StatusInvariant, NEW d \in Deliveries, DeliveryStep(d)
  PROVE  StatusInvariant'
<1> USE DEF StatusInvariant, store, cache, bus, memo
<1>0. d \in Procs
  BY DEF Procs
<1>1. CASE Deliver(d)
  <2>1. pc'[d] = "getTx" /\ \A q \in Procs \ {d} : pc'[q] = pc[q]
    BY <1>0, <1>1 DEF Deliver, Goto, TypeOK, HandlerTypes
  <2>2. StatusLocal(d)'
    BY <2>1 DEF StatusLocal
  <2>3. \A q \in Procs \ {d} : StatusLocal(q)'
    BY <1>0, <1>1, <2>1, LogsSame, StatusFrame DEF Deliver
  <2> QED
    BY <1>1, <2>2, <2>3, StatusSame DEF Deliver
<1>2. CASE LogUpdated(d)
  <2>1. CASE /\ logs' = [logs EXCEPT ![tx[d]] = Append(@, <<seen[d], outcome[d]>>)]
             /\ Goto(d, "dbUpdate") /\ UNCHANGED memo
    <3>1. /\ tx[d] \in Requests /\ outcome[d] \in Final /\ seen[d] = "PENDING"
          /\ logs[tx[d]] # <<>> /\ logs[tx[d]] \in Seq(Entries)
      BY <1>0, <1>2, HeldRows DEF LogUpdated, Announced, StatusLocal, TypeOK, TableTypes, Local
    <3>2. <<seen[d], outcome[d]>> \in Entries
      BY <3>1 DEF Entries, Status
    <3>3. /\ LogsKept
          /\ Len(logs'[tx[d]]) = Len(logs[tx[d]]) + 1
          /\ logs'[tx[d]][Len(logs[tx[d]]) + 1] = <<seen[d], outcome[d]>>
          /\ \A t \in Requests \ {tx[d]} : logs'[t] = logs[t]
      BY <2>1, <3>1, <3>2, LogsAppended
    <3>4. Len(logs[tx[d]]) \in Nat /\ Len(logs[tx[d]]) > 0
      BY <3>1
    <3>5. LogLegal'
      <4> SUFFICES ASSUME NEW t \in Requests, NEW i \in 1 .. Len(logs'[t])
                   PROVE  logs'[t][i][1] = (IF i = 1 THEN "none" ELSE "PENDING")
        BY DEF LogLegal
      <4>1. LogLegal
        BY DEF StatusTables
      <4>2. CASE t # tx[d]
        BY <3>3, <4>1, <4>2 DEF LogLegal
      <4>3. CASE t = tx[d] /\ i \in 1 .. Len(logs[t])
        BY <3>3, <4>1, <4>3 DEF LogLegal, LogsKept
      <4>4. CASE t = tx[d] /\ i = Len(logs[t]) + 1
        BY <3>1, <3>3, <3>4, <4>4
      <4> QED
        BY <3>3, <3>4, <4>2, <4>3, <4>4
    <3>6. FinalStatusLogged'
      <4> SUFFICES ASSUME NEW t \in Requests, row[t] \in Final
                   PROVE  \E i \in 2 .. Len(logs'[t]) : logs'[t][i] = <<"PENDING", row[t]>>
        BY <1>2 DEF LogUpdated, FinalStatusLogged
      <4>1. PICK i \in 2 .. Len(logs[t]) : logs[t][i] = <<"PENDING", row[t]>>
        BY DEF StatusTables, FinalStatusLogged
      <4> QED
        BY <3>3, <4>1 DEF LogsKept
    <3>7. CacheNotAhead'
      BY <1>2 DEF LogUpdated, StatusTables, CacheNotAhead
    <3>8. \E i \in 2 .. Len(logs'[tx[d]]) : logs'[tx[d]][i] = <<"PENDING", outcome[d]>>
      BY <3>1, <3>3, <3>4
    <3>9. pc'[d] = "dbUpdate" /\ tx'[d] = tx[d] /\ seen'[d] = seen[d] /\ outcome'[d] = outcome[d]
      BY <1>0, <1>2, <2>1 DEF LogUpdated, Goto, TypeOK, HandlerTypes
    <3>10. StatusLocal(d)'
      BY <3>1, <3>8, <3>9 DEF StatusLocal
    <3>11. \A q \in Procs \ {d} : StatusLocal(q)'
      BY <1>0, <1>2, <2>1, <3>3, StatusFrame DEF LogUpdated, Goto, TypeOK, HandlerTypes
    <3> QED
      BY <3>5, <3>6, <3>7, <3>10, <3>11 DEF StatusTables
  <2>2. CASE Throw(d) /\ UNCHANGED logs
    BY <1>0, <1>2, <2>2, StatusSame, StatusMove DEF LogUpdated, Throw, OnThrow, Labels
  <2> QED
    BY <1>2, <2>1, <2>2 DEF LogUpdated
<1>3. CASE DbUpdate(d)
  <2>1. CASE row' = [row EXCEPT ![tx[d]] = outcome[d]] /\ Goto(d, "delTx") /\ UNCHANGED memo
    <3>1. /\ tx[d] \in Requests /\ outcome[d] \in Final
          /\ \E i \in 2 .. Len(logs[tx[d]]) : logs[tx[d]][i] = <<"PENDING", outcome[d]>>
      BY <1>0, <1>3, HeldRows DEF DbUpdate, StatusLocal, TypeOK, Local
    <3>2. \A t \in Requests : row'[t] = IF t = tx[d] THEN outcome[d] ELSE row[t]
      BY <2>1, <3>1 DEF TypeOK, TableTypes
    <3>3. FinalStatusLogged'
      BY <1>3, <3>1, <3>2 DEF DbUpdate, StatusTables, FinalStatusLogged
    <3>4. CacheNotAhead' /\ LogLegal'
      BY <1>3, <3>1, <3>2 DEF DbUpdate, StatusTables, CacheNotAhead, LogLegal, Final
    <3>5. pc'[d] = "delTx" /\ tx'[d] = tx[d]
      BY <1>0, <2>1 DEF Goto, TypeOK, HandlerTypes
    <3>6. row'[tx[d]] \in Final /\ \A t \in Requests : row[t] \in Final => row'[t] \in Final
      BY <3>1, <3>2
    <3>7. StatusLocal(d)'
      BY <3>5, <3>6 DEF StatusLocal
    <3>8. \A q \in Procs \ {d} : StatusLocal(q)'
      BY <1>0, <1>3, <2>1, <3>6, LogsSame, StatusFrame DEF DbUpdate, Goto, TypeOK, HandlerTypes
    <3> QED
      BY <3>3, <3>4, <3>7, <3>8 DEF StatusTables
  <2>2. CASE Throw(d) /\ UNCHANGED row
    BY <1>0, <1>3, <2>2, StatusSame, StatusMove DEF DbUpdate, Throw, OnThrow, Labels
  <2> QED
    BY <1>3, <2>1, <2>2 DEF DbUpdate
<1>4. CASE DelTx(d)
  <2>1. tx[d] \in Requests
    BY <1>0, <1>4, HeldRows DEF DelTx
  <2>2. StatusTables'
    BY <1>4, <2>1, StatusSame, StatusCached DEF DelTx, Final
  <2> QED
    BY <1>0, <1>4, <2>2, StatusMove DEF DelTx, Labels
<1>5. CASE DelIdem(d)
  BY <1>0, <1>5, StatusSame, StatusMove DEF DelIdem, Labels
<1>6. CASE Ack(d)
  BY <1>0, <1>6, StatusSame, StatusMove DEF Ack, Labels
<1> QED
  BY <1>1, <1>2, <1>3, <1>4, <1>5, <1>6 DEF DeliveryStep

\* What clients, the broker, crashes and evictions do keeps the invariant.
LEMMA StatusEnvironment ==
  ASSUME TypeOK, KeysInvariant, StatusInvariant, Environment
  PROVE  StatusInvariant'
<1> USE DEF StatusInvariant, store, cache, bus, memo
<1>1. ASSUME NEW p \in Requests, Post(p)
      PROVE  StatusInvariant'
  <2>0. p \in Procs /\ p \notin Deliveries
    BY DEF Procs
  <2> QED
    BY <1>1, <2>0, StatusSame, StatusMove DEF Post, Labels
<1>2. ASSUME NEW g \in Gets, NEW t \in Requests, GetById(g, t)
      PROVE  StatusInvariant'
  <2>0. g \in Procs /\ g \notin Deliveries
    BY DEF Procs
  <2>1. pc'[g] = "getTx" /\ \A q \in Procs \ {g} : pc'[q] = pc[q] /\ tx'[q] = tx[q]
    BY <1>2, <2>0 DEF GetById, Goto, TypeOK, HandlerTypes
  <2>2. StatusLocal(g)'
    BY <2>0, <2>1 DEF StatusLocal
  <2>3. \A q \in Procs \ {g} : StatusLocal(q)'
    BY <1>2, <2>0, <2>1, LogsSame, StatusFrame DEF GetById
  <2> QED
    BY <1>2, <2>2, <2>3, StatusSame DEF GetById
<1>3. ASSUME NEW d \in Deliveries, NEW t \in Requests, NEW s \in Final, Send(d, t, s)
      PROVE  StatusInvariant'
  <2>0. d \in Procs
    BY DEF Procs
  <2>1. pc'[d] = "queued" /\ \A q \in Procs \ {d} : pc'[q] = pc[q] /\ tx'[q] = tx[q]
    BY <1>3, <2>0 DEF Send, Goto, TypeOK, HandlerTypes
  <2>2. \A q \in Deliveries \ {d} : outcome'[q] = outcome[q]
    BY <1>3 DEF Send, TypeOK, TableTypes
  <2>3. StatusLocal(d)'
    BY <2>0, <2>1 DEF StatusLocal
  <2>4. \A q \in Procs \ {d} : StatusLocal(q)'
    BY <1>3, <2>0, <2>1, <2>2, LogsSame, StatusFrame DEF Send
  <2> QED
    BY <1>3, <2>3, <2>4, StatusSame DEF Send
<1>4. ASSUME Crash
      PROVE  StatusInvariant'
  <2>1. ASSUME NEW q \in Procs
        PROVE  StatusLocal(q)'
    <3>1. pc'[q] \in {pc[q], "queued", "lost"}
      BY <1>4 DEF Crash
    <3>2. StatusLocal(q)
      OBVIOUS
    <3> QED
      BY <1>4, <3>1, <3>2 DEF Crash, StatusLocal
  <2> QED
    BY <1>4, <2>1, StatusSame DEF Crash
<1>5. ASSUME Expire
      PROVE  StatusInvariant'
  <2>1. StatusTables'
    BY <1>5, StatusSame, StatusCached DEF Expire, Final
  <2>2. \A q \in Procs : StatusLocal(q)'
    BY <1>5 DEF Expire, StatusLocal
  <2> QED
    BY <2>1, <2>2
<1> QED
  BY <1>1, <1>2, <1>3, <1>4, <1>5 DEF Environment

LEMMA StatusStep == TypeOK /\ KeysInvariant /\ StatusInvariant /\ [Next]_vars => StatusInvariant'
<1> SUFFICES ASSUME TypeOK, KeysInvariant, StatusInvariant, [Next]_vars
             PROVE  StatusInvariant'
  OBVIOUS
<1>1. CASE UNCHANGED vars
  BY <1>1
  DEF vars, StatusInvariant, StatusTables, StatusLocal, CacheNotAhead, LogLegal, FinalStatusLogged
<1>2. CASE Next
  BY <1>2, StatusFind, StatusRequest, StatusDelivery, StatusEnvironment DEF Next
<1> QED
  BY <1>1, <1>2

-----------------------------------------------------------------------------
\* In every reachable state the table, the lifecycle log, the cache and every
\* handler agree on statuses.
THEOREM StatusCorrect == Spec => []StatusInvariant
<1>1. Init => StatusInvariant
  BY StatusInit
<1>2. TypeOK /\ KeysInvariant /\ StatusInvariant /\ [Next]_vars => StatusInvariant'
  BY StatusStep
<1> QED
  BY <1>1, <1>2, TypeCorrect, KeysCorrect, PTL DEF Spec

\* No reader of the cache sees a final status while the stored one is PENDING.
THEOREM CacheLags == Spec => []CacheNotAhead
<1>1. StatusInvariant => CacheNotAhead
  BY DEF StatusInvariant, StatusTables
<1> QED
  BY <1>1, StatusCorrect, PTL

\* The lifecycle log explains every final status.
THEOREM LogExplains == Spec => []FinalStatusLogged
<1>1. StatusInvariant => FinalStatusLogged
  BY DEF StatusInvariant, StatusTables
<1> QED
  BY <1>1, StatusCorrect, PTL

\* A report is acked only when its transaction has a final status.
THEOREM AcksFinal == Spec => []AckedMeansFinal
<1>1. StatusInvariant => AckedMeansFinal
  BY DEF StatusInvariant, StatusLocal, AckedMeansFinal, Procs
<1> QED
  BY <1>1, StatusCorrect, PTL

\* What was reported stays reported: a report in hand keeps its transaction and
\* its status through every step.
LEMMA ReportsStay ==
  ASSUME TypeOK, Next, NEW d \in Deliveries, pc[d] # "init"
  PROVE  pc'[d] # "init" /\ tx'[d] = tx[d] /\ outcome'[d] = outcome[d]
<1> USE DEF store, cache, bus, memo, Goto
<1>0. d \in Procs /\ d \notin Requests /\ d \notin Gets
  BY DEF Procs
<1>1. ASSUME NEW p \in Procs, FindStep(p)
      PROVE  pc'[d] # "init" /\ tx'[d] = tx[d] /\ outcome'[d] = outcome[d]
  <2>1. UNCHANGED outcome
    BY <1>1 DEF FindStep, GetIdem, DbByIdem, SetIdemFound, GetTx, DbById, SetTx, SetIdem
  <2>2. CASE p # d
    BY <1>0, <1>1, <2>1, <2>2 DEF FindStep, GetIdem, DbByIdem, SetIdemFound, GetTx, DbById, SetTx,
        SetIdem, Found, Missing, Throw, TypeOK, HandlerTypes
  <2>3. CASE p = d
    <3>1. pc[d] \in {"getTx", "dbById", "setTx", "setIdem"} /\ phase[d] \in {"read", "reread"}
      BY <1>0, <1>1, <2>3 DEF FindStep, GetIdem, DbByIdem, SetIdemFound, GetTx, DbById, SetTx,
          SetIdem, TypeOK, Local, DeliveryLabels, FindLabels
    <3>2. \A s : AfterFound(d, s) # "init"
      BY <3>1 DEF AfterFound
    <3>3. AfterMissing(d) # "init" /\ OnThrow(d) # "init"
      BY <3>1 DEF AfterMissing, OnThrow
    <3>4. GetTx(d) \/ DbById(d) \/ SetTx(d) \/ SetIdem(d)
      BY <1>1, <2>3, <3>1 DEF FindStep, GetIdem, DbByIdem, SetIdemFound
    <3> QED
      BY <1>0, <2>1, <3>1, <3>2, <3>3, <3>4 DEF GetTx, DbById, SetTx, SetIdem, Found, Missing, Throw,
          TypeOK, HandlerTypes
  <2> QED
    BY <2>2, <2>3
<1>2. ASSUME NEW p \in Requests, RequestStep(p)
      PROVE  pc'[d] = pc[d] /\ tx'[d] = tx[d] /\ outcome'[d] = outcome[d]
  BY <1>0, <1>2 DEF RequestStep, AskSender, AskReceiver, DbCreate, LogCreated, Publish, Throw,
      TypeOK, HandlerTypes
<1>3. ASSUME NEW e \in Deliveries, DeliveryStep(e)
      PROVE  pc'[d] # "init" /\ tx'[d] = tx[d] /\ outcome'[d] = outcome[d]
  BY <1>0, <1>3 DEF DeliveryStep, Deliver, LogUpdated, DbUpdate, DelTx, DelIdem, Ack, Throw, OnThrow,
      TypeOK, HandlerTypes
<1>4. ASSUME Environment
      PROVE  pc'[d] # "init" /\ tx'[d] = tx[d] /\ outcome'[d] = outcome[d]
  BY <1>0, <1>4 DEF Environment, Post, GetById, Send, Crash, Expire, TypeOK, HandlerTypes, TableTypes
<1> QED
  BY <1>1, <1>2, <1>3, <1>4 DEF Next

LEMMA ReportsGrow ==
  ASSUME TypeOK, Next, NEW t \in Requests
  PROVE  ReportsOf(t) \subseteq ReportsOf(t)'
BY ReportsStay DEF ReportsOf

\* A step that writes to a log writes one entry: a creation into an empty log,
\* or the report in its handler's hand after one.
LEMMA LogWritten ==
  ASSUME TypeOK, KeysInvariant, StatusInvariant, Next
  PROVE  \/ UNCHANGED logs
         \/ \E p \in Requests :
              /\ logs[p] = <<>>
              /\ logs' = [logs EXCEPT ![p] = Append(@, <<"none", "PENDING">>)]
         \/ \E d \in Deliveries :
              /\ tx[d] \in Requests /\ pc[d] # "init" /\ outcome[d] \in Final
              /\ logs[tx[d]] # <<>>
              /\ logs' = [logs EXCEPT ![tx[d]] = Append(@, <<"PENDING", outcome[d]>>)]
<1> USE DEF store, cache, bus, memo
<1>1. ASSUME NEW p \in Procs, FindStep(p)
      PROVE  UNCHANGED logs
  BY <1>1 DEF FindStep, GetIdem, DbByIdem, SetIdemFound, GetTx, DbById, SetTx, SetIdem
<1>2. ASSUME NEW p \in Requests, RequestStep(p)
      PROVE  UNCHANGED logs \/ LogCreated(p)
  BY <1>2 DEF RequestStep, AskSender, AskReceiver, DbCreate, Publish
<1>3. ASSUME NEW p \in Requests, LogCreated(p)
      PROVE  \/ UNCHANGED logs
             \/ /\ logs[p] = <<>>
                /\ logs' = [logs EXCEPT ![p] = Append(@, <<"none", "PENDING">>)]
  BY <1>3 DEF LogCreated, KeysInvariant, KeysLocal, Procs
<1>4. ASSUME NEW d \in Deliveries, DeliveryStep(d)
      PROVE  UNCHANGED logs \/ LogUpdated(d)
  BY <1>4 DEF DeliveryStep, Deliver, DbUpdate, DelTx, DelIdem, Ack
<1>5. ASSUME NEW d \in Deliveries, LogUpdated(d)
      PROVE  \/ UNCHANGED logs
             \/ /\ tx[d] \in Requests /\ pc[d] # "init" /\ outcome[d] \in Final
                /\ logs[tx[d]] # <<>>
                /\ logs' = [logs EXCEPT ![tx[d]] = Append(@, <<"PENDING", outcome[d]>>)]
  <2>1. /\ pc[d] = "log" /\ d \in Procs
        /\ UNCHANGED logs \/ logs' = [logs EXCEPT ![tx[d]] = Append(@, <<seen[d], outcome[d]>>)]
    BY <1>5 DEF LogUpdated, Procs
  <2>2. tx[d] \in Requests /\ logs[tx[d]] # <<>>
    BY <2>1, HeldRows DEF Announced
  <2>3. seen[d] = "PENDING" /\ outcome[d] \in Final
    BY <2>1 DEF StatusInvariant, StatusLocal, TypeOK, Local
  <2> QED
    BY <2>1, <2>2, <2>3
<1>6. ASSUME Environment
      PROVE  UNCHANGED logs
  BY <1>6 DEF Environment, Post, GetById, Send, Crash, Expire
<1> QED
  BY <1>1, <1>2, <1>3, <1>4, <1>5, <1>6 DEF Next

LEMMA LogTrueStep ==
  TypeOK /\ KeysInvariant /\ StatusInvariant /\ LogTrue /\ [Next]_vars => LogTrue'
<1> SUFFICES ASSUME TypeOK, KeysInvariant, StatusInvariant, LogTrue, [Next]_vars
             PROVE  LogTrue'
  OBVIOUS
<1>1. CASE UNCHANGED vars
  BY <1>1 DEF vars, LogTrue, ReportsOf
<1>2. CASE Next
  <2> DEFINE True(t, i, e) == IF i = 1 THEN e = <<"none", "PENDING">>
                                       ELSE e \in {"PENDING"} \X ReportsOf(t)'
  <2> SUFFICES ASSUME NEW t \in Requests
               PROVE  \A i \in 1 .. Len(logs'[t]) : True(t, i, logs'[t][i])
    BY DEF LogTrue
  <2>1. \A i \in 1 .. Len(logs[t]) : True(t, i, logs[t][i])
    BY <1>2, ReportsGrow DEF LogTrue
  <2>2. CASE logs'[t] = logs[t]
    BY <2>1, <2>2
  <2>3. ASSUME NEW e \in Entries, LogsKept, Len(logs'[t]) = Len(logs[t]) + 1,
               logs'[t][Len(logs[t]) + 1] = e, True(t, Len(logs[t]) + 1, e)
        PROVE  \A i \in 1 .. Len(logs'[t]) : True(t, i, logs'[t][i])
    <3>1. Len(logs[t]) \in Nat /\ \A i \in 1 .. Len(logs[t]) : logs'[t][i] = logs[t][i]
      BY <2>3 DEF LogsKept
    <3> SUFFICES ASSUME NEW i \in 1 .. Len(logs'[t])
                 PROVE  True(t, i, logs'[t][i])
      OBVIOUS
    <3>2. i \in 1 .. Len(logs[t]) \/ i = Len(logs[t]) + 1
      BY <2>3, <3>1
    <3> QED
      BY <2>1, <2>3, <3>1, <3>2
  <2>4. ASSUME NEW p \in Requests, logs[p] = <<>>,
               logs' = [logs EXCEPT ![p] = Append(@, <<"none", "PENDING">>)]
        PROVE  \A i \in 1 .. Len(logs'[t]) : True(t, i, logs'[t][i])
    <3>1. <<"none", "PENDING">> \in Entries
      BY DEF Entries, Status
    <3>2. CASE t = p
      <4>1. /\ LogsKept /\ Len(logs'[t]) = Len(logs[t]) + 1
            /\ logs'[t][Len(logs[t]) + 1] = <<"none", "PENDING">>
        BY <2>4, <3>1, <3>2, LogsAppended
      <4>2. Len(logs[t]) + 1 = 1
        BY <2>4, <3>2
      <4> QED
        BY <2>3, <3>1, <4>1, <4>2
    <3>3. CASE t # p
      BY <2>2, <2>4, <3>1, <3>3, LogsAppended
    <3> QED
      BY <3>2, <3>3
  <2>5. ASSUME NEW d \in Deliveries, tx[d] \in Requests, pc[d] # "init", outcome[d] \in Final,
               logs[tx[d]] # <<>>,
               logs' = [logs EXCEPT ![tx[d]] = Append(@, <<"PENDING", outcome[d]>>)]
        PROVE  \A i \in 1 .. Len(logs'[t]) : True(t, i, logs'[t][i])
    <3>1. <<"PENDING", outcome[d]>> \in Entries
      BY <2>5 DEF Entries, Status
    <3>2. CASE t = tx[d]
      <4>1. /\ LogsKept /\ Len(logs'[t]) = Len(logs[t]) + 1
            /\ logs'[t][Len(logs[t]) + 1] = <<"PENDING", outcome[d]>>
        BY <2>5, <3>1, <3>2, LogsAppended
      <4>2. Len(logs[t]) + 1 # 1
        BY <2>5, <3>2 DEF TypeOK, TableTypes
      <4>3. outcome[d] \in ReportsOf(t)'
        BY <1>2, <2>5, <3>2, ReportsStay DEF ReportsOf
      <4> QED
        BY <2>3, <3>1, <4>1, <4>2, <4>3
    <3>3. CASE t # tx[d]
      BY <2>2, <2>5, <3>1, <3>3, LogsAppended
    <3> QED
      BY <3>2, <3>3
  <2>6. UNCHANGED logs => logs'[t] = logs[t]
    OBVIOUS
  <2> HIDE DEF True
  <2> QED
    BY <1>2, <2>2, <2>4, <2>5, <2>6, LogWritten
<1> QED
  BY <1>1, <1>2

\* The lifecycle log of a transaction is one creation and then moves out of
\* PENDING, each to a status that was reported on this transaction.
THEOREM LogIsTrue == Spec => []LogTrue
<1>1. Init => LogTrue
  BY DEF Init, LogTrue
<1>2. TypeOK /\ KeysInvariant /\ StatusInvariant /\ LogTrue /\ [Next]_vars => LogTrue'
  BY LogTrueStep
<1> QED
  BY <1>1, <1>2, TypeCorrect, KeysCorrect, StatusCorrect, PTL DEF Spec

\* No step takes a transaction out of a final status, or out of the table.
LEMMA StepKeepsFinal ==
  ASSUME TypeOK, KeysInvariant, Next
  PROVE  KeepsFinal
<1> USE DEF store, memo
<1>1. ASSUME NEW p \in Requests, DbCreate(p)
      PROVE  KeepsFinal
  BY <1>1 DEF DbCreate, KeyTaken, KeepsFinal, TypeOK, TableTypes, Final
<1>2. ASSUME NEW d \in Deliveries, DbUpdate(d)
      PROVE  KeepsFinal
  <2>1. tx[d] \in Requests /\ outcome[d] \in Final
    BY <1>2, HeldRows DEF DbUpdate, TypeOK, Local, Procs
  <2> QED
    BY <1>2, <2>1 DEF DbUpdate, KeepsFinal, TypeOK, TableTypes, Final
<1>3. ASSUME NEW p \in Procs, FindStep(p)
      PROVE  UNCHANGED row
  BY <1>3 DEF FindStep, GetIdem, DbByIdem, SetIdemFound, GetTx, DbById, SetTx, SetIdem
<1>4. ASSUME NEW p \in Requests, RequestStep(p)
      PROVE  DbCreate(p) \/ UNCHANGED row
  BY <1>4 DEF RequestStep, AskSender, AskReceiver, LogCreated, Publish
<1>5. ASSUME NEW d \in Deliveries, DeliveryStep(d)
      PROVE  DbUpdate(d) \/ UNCHANGED row
  BY <1>5 DEF DeliveryStep, Deliver, LogUpdated, DelTx, DelIdem, Ack
<1>6. ASSUME Environment
      PROVE  UNCHANGED row
  BY <1>6 DEF Environment, Post, GetById, Send, Crash, Expire
<1> QED
  BY <1>1, <1>2, <1>3, <1>4, <1>5, <1>6 DEF Next, KeepsFinal

\* However old the reads behind a write, no transaction loses its final status.
THEOREM NeverReturns == Spec => NoReturnToPending
<1>1. TypeOK /\ KeysInvariant /\ [Next]_vars => [KeepsFinal]_vars
  BY StepKeepsFinal
<1> QED
  BY <1>1, TypeCorrect, KeysCorrect, PTL DEF Spec, NoReturnToPending
=============================================================================
