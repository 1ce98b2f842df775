------------------------- MODULE TransactionsKeysProofs -------------------------
(***************************************************************************)
(* Idempotency keys, proved: however many POSTs share a key, they publish  *)
(* one stored transfer and are all answered with it, as IdempotentIntake   *)
(* says.                                                                   *)
(***************************************************************************)
EXTENDS TransactionsServiceProofs

USE ConstantsAssumption DEF ConstantsAssumption, Logged

-----------------------------------------------------------------------------
LEMMA KeysInit == Init => KeysInvariant
  BY DEF Init, KeysInvariant, KeysTables, KeysLocal, IdemCacheSound, Announced, Procs, FindLabels

\* What appending does to a log's ends.
LEMMA AppendFacts ==
  ASSUME NEW s \in Seq(Entries), NEW e \in Entries
  PROVE  /\ Append(s, e) # <<>>
         /\ Append(s, e)[1] = (IF s = <<>> THEN e ELSE s[1])
         /\ Len(Append(s, e)) = Len(s) + 1
         /\ \A i \in 1 .. Len(s) : Append(s, e)[i] = s[i]
         /\ Append(s, e)[Len(s) + 1] = e
  OBVIOUS

\* A step of p that keeps the tables' rows, publications and announcements
\* leaves the other handlers' part of the invariant alone.
LEMMA KeysFrame ==
  ASSUME TypeOK, KeysInvariant, NEW p \in Procs,
         \A q \in Procs \ {p} : pc'[q] = pc[q] /\ phase'[q] = phase[q] /\ tx'[q] = tx[q],
         \A t \in Requests : /\ row[t] # "none" => row'[t] # "none"
                             /\ Announced(t) => Announced(t)'
                             /\ published[t] > 0 => published'[t] > 0,
         \A t \in Requests \ {p} : published'[t] = published[t] /\ (logs[t] = <<>> => logs'[t] = <<>>)
  PROVE  \A q \in Procs \ {p} : KeysLocal(q)'
<1> SUFFICES ASSUME NEW q \in Procs \ {p}
             PROVE  KeysLocal(q)'
  OBVIOUS
<1>1. KeysLocal(q)
  BY DEF KeysInvariant
<1>2. pc[q] \in FindLabels \cup {"setIdemFound", "ok"} => tx[q] \in Requests
  BY Kinds
<1>3. q \in Deliveries /\ pc[q] # "init" => tx[q] \in Requests
  BY Kinds
<1> QED
  BY <1>1, <1>2, <1>3 DEF KeysLocal, FindLabels

\* So does, for every handler, a step that touches none of that and only goes
\* on to a call of which the invariant says nothing new.
LEMMA KeysMove ==
  ASSUME TypeOK, KeysInvariant, NEW p \in Procs,
         UNCHANGED <<row, logs, published, phase, tx>>,
         p \in Requests => pc[p] \notin {"ok", "failed", "lost"}, p \in Deliveries => pc[p] # "init",
         NEW l \in {"getTx", "dbByIdem", "dbById", "askSender", "askReceiver", "dbCreate",
                    "refused", "failed", "queued", "delTx", "delIdem", "ack", "acked"},
         p \in Requests /\ l \in {"getTx", "dbById"} => pc[p] \in FindLabels,
         l = "dbByIdem" => pc[p] = "getIdem",
         pc[p] = "publish" => l = "failed",
         Goto(p, l)
  PROVE  \A q \in Procs : KeysLocal(q)'
<1>1. pc'[p] = l /\ \A q \in Procs \ {p} : pc'[q] = pc[q]
  BY DEF Goto, TypeOK, HandlerTypes
<1>2. \A q \in Procs \ {p} : KeysLocal(q)'
  BY <1>1, KeysFrame DEF Announced
<1>3. KeysLocal(p)'
  BY <1>1 DEF KeysInvariant, KeysLocal, Announced, FindLabels
<1> QED
  BY <1>2, <1>3

\* A find that returned a transaction keeps its handler's part: after "create"
\* a POST goes on with its own transaction, after "save" it still holds it.
LEMMA KeysFound ==
  ASSUME TypeOK, KeysInvariant, NEW p \in Procs, NEW s \in Status, pc[p] \in FindLabels,
         Found(p, s), UNCHANGED <<row, logs, published>>
  PROVE  \A q \in Procs : KeysLocal(q)'
<1>1. AfterFound(p, s) \in {"ok", "log", "getTx", "ack", "queued"}
  BY DEF AfterFound, TypeOK, Local, FindLabels, Procs
<1>2. \A q \in Procs \ {p} : KeysLocal(q)'
  BY KeysFrame DEF Found, Goto, TypeOK, HandlerTypes, Announced
<1>3. KeysLocal(p)'
  BY <1>1, Kinds
  DEF Found, Goto, TypeOK, HandlerTypes, Local, KeysInvariant, KeysLocal, AfterFound, Announced,
    FindLabels, Procs
<1> QED
  BY <1>2, <1>3

\* A step that changes no row, log, publication or cached id keeps the tables'
\* part of the invariant.
LEMMA KeysSame ==
  ASSUME KeysTables, UNCHANGED <<row, logs, published, cacheIdem>>
  PROVE  KeysTables'
BY DEF KeysTables, IdemCacheSound, Announced

\* So does caching an id for its own key, once it has a row, or none.
LEMMA KeysCached ==
  ASSUME TypeOK, KeysTables, UNCHANGED <<row, logs, published>>,
         NEW k \in Keys, NEW t \in Requests \cup {NoTx},
         t # NoTx => row[t] # "none" /\ KeyOf[t] = k,
         cacheIdem' = [cacheIdem EXCEPT ![k] = t]
  PROVE  KeysTables'
<1>1. IdemCacheSound'
  BY DEF TypeOK, TableTypes, KeysTables, IdemCacheSound
<1> QED
  BY <1>1 DEF KeysTables, Announced

\* The steps of a find keep the invariant.
LEMMA KeysFind ==
  ASSUME TypeOK, KeysInvariant, NEW p \in Procs, FindStep(p)
  PROVE  KeysInvariant'
<1> USE DEF KeysInvariant, store, cache, bus, memo
<1>1. CASE GetIdem(p)
  <2>1. p \in Requests /\ KeysTables'
    BY <1>1, Kinds, KeysSame DEF GetIdem
  <2>2. CASE cacheIdem[KeyOf[p]] # NoTx /\ tx' = [tx EXCEPT ![p] = cacheIdem[KeyOf[p]]] /\ Goto(p, "getTx")
    <3>0. /\ pc'[p] = "getTx" /\ tx'[p] \in Requests /\ phase'[p] # "save"
          /\ row[tx'[p]] # "none" /\ KeyOf[tx'[p]] = KeyOf[p]
      BY <1>1, <2>1, <2>2
      DEF GetIdem, Goto, TypeOK, TableTypes, HandlerTypes, KeysTables, KeysLocal, IdemCacheSound
    <3>1. KeysLocal(p)'
      BY <1>1, <2>1, <3>0 DEF GetIdem, KeysLocal, FindLabels, Announced
    <3>2. \A q \in Procs \ {p} : KeysLocal(q)'
      BY <1>1, <2>2, KeysFrame DEF GetIdem, Goto, TypeOK, HandlerTypes, Announced
    <3> QED
      BY <2>1, <3>1, <3>2
  <2>3. CASE Goto(p, "dbByIdem") /\ UNCHANGED tx
    BY <1>1, <2>1, <2>3, KeysMove DEF GetIdem
  <2> QED
    BY <1>1, <2>2, <2>3 DEF GetIdem
<1>2. CASE DbByIdem(p)
  <2>1. p \in Requests /\ KeysTables'
    BY <1>2, Kinds, KeysSame DEF DbByIdem
  <2>2. ASSUME NEW t \in Requests, row[t] # "none", KeyOf[t] = KeyOf[p], UNCHANGED phase,
               tx' = [tx EXCEPT ![p] = t], Goto(p, "setIdemFound")
        PROVE  KeysInvariant'
    <3>0. pc'[p] = "setIdemFound" /\ tx'[p] = t /\ phase'[p] # "save"
      BY <1>2, <2>1, <2>2 DEF DbByIdem, Goto, TypeOK, HandlerTypes, KeysLocal
    <3>1. KeysLocal(p)'
      BY <1>2, <2>1, <2>2, <3>0 DEF DbByIdem, KeysLocal, FindLabels, Announced
    <3>2. \A q \in Procs \ {p} : KeysLocal(q)'
      BY <1>2, <2>2, KeysFrame DEF DbByIdem, Goto, TypeOK, HandlerTypes, Announced
    <3> QED
      BY <2>1, <3>1, <3>2
  <2>3. CASE Missing(p)
    BY <1>2, <2>1, <2>3, KeysMove DEF DbByIdem, Missing, AfterMissing, OnThrow, TypeOK, Local
  <2>4. CASE Throw(p)
    BY <1>2, <2>1, <2>4, KeysMove DEF DbByIdem, Throw, OnThrow
  <2> QED
    BY <1>2, <2>2, <2>3, <2>4 DEF DbByIdem
<1>3. CASE SetIdemFound(p)
  <2>1. p \in Requests /\ tx[p] \in Requests
    BY <1>3, Kinds DEF SetIdemFound
  <2>a. row[tx[p]] # "none" /\ KeyOf[tx[p]] = KeyOf[p]
    BY <1>3, <2>1 DEF SetIdemFound, KeysLocal
  <2>2. KeysTables'
    BY <1>3, <2>1, <2>a, KeysCached, KeysSame DEF SetIdemFound
  <2>3. CASE Goto(p, "setTx") /\ UNCHANGED memo
    <3>1. KeysLocal(p)'
      BY <1>3, <2>1, <2>3 DEF SetIdemFound, Goto, TypeOK, HandlerTypes, Local, KeysLocal, FindLabels
    <3>2. \A q \in Procs \ {p} : KeysLocal(q)'
      BY <1>3, <2>3, KeysFrame DEF SetIdemFound, Goto, TypeOK, HandlerTypes, Announced
    <3> QED
      BY <2>2, <3>1, <3>2
  <2>4. CASE Throw(p)
    BY <1>3, <2>1, <2>2, <2>4, KeysMove DEF SetIdemFound, Throw, OnThrow
  <2> QED
    BY <1>3, <2>3, <2>4 DEF SetIdemFound
<1>4. CASE GetTx(p)
  <2>1. KeysTables'
    BY <1>4, KeysSame DEF GetTx
  <2>2. CASE Found(p, cacheTx[tx[p]]) /\ cacheTx[tx[p]] # "none"
    BY <1>4, <2>1, <2>2, Kinds, KeysFound DEF GetTx, TypeOK, TableTypes, FindLabels
  <2>3. CASE Goto(p, "dbById") /\ UNCHANGED memo
    BY <1>4, <2>1, <2>3, KeysMove DEF GetTx, FindLabels
  <2> QED
    BY <1>4, <2>2, <2>3 DEF GetTx
<1>5. CASE DbById(p)
  <2>1. KeysTables'
    BY <1>5, KeysSame DEF DbById
  <2>2. CASE row[tx[p]] # "none" /\ Goto(p, "setTx") /\ UNCHANGED <<phase, tx>>
    <3>1. KeysLocal(p)'
      BY <1>5, <2>2 DEF DbById, Goto, TypeOK, HandlerTypes, KeysLocal, Announced, FindLabels
    <3>2. \A q \in Procs \ {p} : KeysLocal(q)'
      BY <1>5, <2>2, KeysFrame DEF DbById, Goto, TypeOK, HandlerTypes, Announced
    <3> QED
      BY <2>1, <3>1, <3>2
  <2>3. CASE Missing(p)
    BY <1>5, <2>1, <2>3, KeysMove
    DEF DbById, Missing, AfterMissing, OnThrow, TypeOK, Local, Procs, FindLabels
  <2>4. CASE Throw(p)
    BY <1>5, <2>1, <2>4, KeysMove DEF DbById, Throw, OnThrow, FindLabels
  <2> QED
    BY <1>5, <2>2, <2>3, <2>4 DEF DbById
<1>6. CASE SetTx(p)
  <2>1. KeysTables'
    BY <1>6, KeysSame DEF SetTx
  <2>2. CASE Found(p, seen[p])
    BY <1>6, <2>1, <2>2, Kinds, KeysFound DEF SetTx, FindLabels
  <2>3. CASE Goto(p, "setIdem") /\ UNCHANGED memo
    <3>1. KeysLocal(p)'
      BY <1>6, <2>3 DEF SetTx, Goto, TypeOK, HandlerTypes, KeysLocal, Announced, FindLabels
    <3>2. \A q \in Procs \ {p} : KeysLocal(q)'
      BY <1>6, <2>3, KeysFrame DEF SetTx, Goto, TypeOK, HandlerTypes, Announced
    <3> QED
      BY <2>1, <3>1, <3>2
  <2> QED
    BY <1>6, <2>2, <2>3 DEF SetTx
<1>7. CASE SetIdem(p)
  <2>1. KeysTables'
    <3>1. tx[p] \in Requests /\ row[tx[p]] # "none"
      BY <1>7, Kinds DEF SetIdem, KeysLocal, FindLabels
    <3> QED
      BY <1>7, <3>1, KeysCached, KeysSame DEF SetIdem
  <2> QED
    BY <1>7, <2>1, Kinds, KeysFound DEF SetIdem, FindLabels
<1> QED
  BY <1>1, <1>2, <1>3, <1>4, <1>5, <1>6, <1>7 DEF FindStep

\* The other steps of a POST keep the invariant.
LEMMA KeysRequest ==
  ASSUME TypeOK, KeysInvariant, NEW p \in Requests, RequestStep(p)
  PROVE  KeysInvariant'
<1> USE DEF KeysInvariant, store, cache, bus, memo
<1>0. p \in Procs /\ p \notin Deliveries
  BY DEF Procs
<1>1. CASE AskSender(p)
  BY <1>0, <1>1, KeysSame, KeysMove DEF AskSender
<1>2. CASE AskReceiver(p)
  <2>1. CASE UNCHANGED phase /\ (Goto(p, "refused") \/ Goto(p, "failed"))
    BY <1>0, <1>2, <2>1, KeysSame, KeysMove DEF AskReceiver
  <2>2. CASE Goto(p, "getIdem") /\ phase' = [phase EXCEPT ![p] = "create"]
    <3>1. KeysLocal(p)'
      BY <1>0, <1>2, <2>2
      DEF AskReceiver, Goto, TypeOK, HandlerTypes, KeysLocal, FindLabels, Announced
    <3>2. \A q \in Procs \ {p} : KeysLocal(q)'
      BY <1>0, <1>2, <2>2, KeysFrame DEF AskReceiver, Goto, TypeOK, HandlerTypes, Announced
    <3> QED
      BY <1>2, <3>1, <3>2, KeysSame DEF AskReceiver
  <2> QED
    BY <1>2, <2>1, <2>2 DEF AskReceiver
<1>3. CASE DbCreate(p)
  <2>1. CASE /\ ~KeyTaken(p) /\ row' = [row EXCEPT ![p] = "PENDING"]
             /\ tx' = [tx EXCEPT ![p] = p]
             /\ phase' = [phase EXCEPT ![p] = "save"]
             /\ Goto(p, "setTx")
    <3>1. row[p] = "none" /\ \A t \in Requests : row[t] # "none" => KeyOf[t] # KeyOf[p]
      BY <2>1 DEF KeyTaken
    <3>2. \A t \in Requests : row'[t] = IF t = p THEN "PENDING" ELSE row[t]
      BY <2>1 DEF TypeOK, TableTypes
    <3>3. KeysTables'
      BY <1>3, <3>1, <3>2 DEF DbCreate, TypeOK, TableTypes, KeysTables, IdemCacheSound, Announced
    <3>4. KeysLocal(p)'
      BY <1>0, <1>3, <2>1, <3>2
      DEF DbCreate, TypeOK, HandlerTypes, Goto, KeysLocal, FindLabels, Announced
    <3>5. \A q \in Procs \ {p} : KeysLocal(q)'
      BY <1>0, <1>3, <2>1, <3>2, KeysFrame DEF DbCreate, Goto, TypeOK, HandlerTypes, Announced
    <3> QED
      BY <3>3, <3>4, <3>5
  <2>2. CASE Throw(p) /\ UNCHANGED row
    BY <1>0, <1>3, <2>2, KeysSame, KeysMove DEF DbCreate, Throw, OnThrow
  <2> QED
    BY <1>3, <2>1, <2>2 DEF DbCreate
<1>4. CASE LogCreated(p)
  <2>1. CASE /\ row[p] # "none"
             /\ logs' = [logs EXCEPT ![p] = Append(@, <<"none", "PENDING">>)]
             /\ Goto(p, "publish") /\ UNCHANGED memo
    <3>1. logs[p] = <<>> /\ tx[p] = p
      BY <1>0, <1>4 DEF LogCreated, KeysLocal
    <3>2. \A t \in Requests \ {p} : logs'[t] = logs[t]
      BY <2>1 DEF TypeOK, TableTypes
    <3>3. Announced(p)'
      BY <2>1, <3>1 DEF Announced, TypeOK, TableTypes
    <3>4. KeysTables'
      BY <1>4, <3>2, <3>3 DEF LogCreated, KeysTables, IdemCacheSound, Announced
    <3>5. KeysLocal(p)'
      BY <1>0, <1>4, <2>1, <3>1, <3>3
      DEF LogCreated, TypeOK, HandlerTypes, Goto, KeysLocal, FindLabels
    <3>6. \A q \in Procs \ {p} : KeysLocal(q)'
      BY <1>0, <1>4, <2>1, <3>2, <3>3, KeysFrame
      DEF LogCreated, Goto, TypeOK, HandlerTypes, Announced
    <3> QED
      BY <3>4, <3>5, <3>6
  <2>2. CASE Throw(p) /\ UNCHANGED logs
    BY <1>0, <1>4, <2>2, KeysSame, KeysMove DEF LogCreated, Throw, OnThrow
  <2> QED
    BY <1>4, <2>1, <2>2 DEF LogCreated, Stored
<1>5. CASE Publish(p)
  <2>1. PICK n \in {0, 1} : published' = [published EXCEPT ![p] = @ + n]
    BY <1>5 DEF Publish
  <2>a. published[p] = 0 /\ tx[p] = p /\ row[p] # "none" /\ Announced(p)
    BY <1>0, <1>5 DEF Publish, KeysLocal
  <2>2. \A t \in Requests : published'[t] = IF t = p THEN n ELSE published[t]
    BY <2>1, <2>a DEF TypeOK, TableTypes
  <2>3. KeysTables'
    BY <1>5, <2>a, <2>2 DEF Publish, KeysTables, IdemCacheSound, Announced
  <2>4. KeysLocal(p)'
    BY <1>0, <1>5, <2>a, <2>2 DEF Publish, Goto, TypeOK, HandlerTypes, KeysLocal, FindLabels
  <2>5. \A q \in Procs \ {p} : KeysLocal(q)'
    BY <1>0, <1>5, <2>a, <2>2, KeysFrame DEF Publish, Goto, TypeOK, HandlerTypes, Announced
  <2> QED
    BY <2>3, <2>4, <2>5
<1> QED
  BY <1>1, <1>2, <1>3, <1>4, <1>5 DEF RequestStep

\* The steps of the consumer keep the invariant.
LEMMA KeysDelivery ==
  ASSUME TypeOK, KeysInvariant, NEW d \in Deliveries, DeliveryStep(d)
  PROVE  KeysInvariant'
<1> USE DEF KeysInvariant, store, cache, bus, memo
<1>0. d \in Procs /\ d \notin Requests
  BY DEF Procs
<1>1. CASE Deliver(d)
  <2>1. KeysLocal(d)'
    BY <1>0, <1>1 DEF Deliver, Goto, TypeOK, HandlerTypes, KeysLocal
  <2>2. \A q \in Procs \ {d} : KeysLocal(q)'
    BY <1>0, <1>1, KeysFrame DEF Deliver, Goto, TypeOK, HandlerTypes, Announced
  <2> QED
    BY <1>1, <2>1, <2>2, KeysSame DEF Deliver
<1>2. CASE LogUpdated(d)
  <2>1. CASE /\ logs' = [logs EXCEPT ![tx[d]] = Append(@, <<seen[d], outcome[d]>>)]
             /\ Goto(d, "dbUpdate") /\ UNCHANGED memo
    <3>1. /\ tx[d] \in Requests /\ <<seen[d], outcome[d]>> \in Entries
          /\ published[tx[d]] > 0 /\ Announced(tx[d])
      BY <1>0, <1>2, Kinds DEF LogUpdated, Entries, Status, KeysTables, KeysLocal
    <3>2. \A t \in Requests \ {tx[d]} : logs'[t] = logs[t]
      BY <2>1, <3>1 DEF TypeOK, TableTypes
    <3>3. Announced(tx[d])'
      <4>1. logs[tx[d]] \in Seq(Entries) /\ logs[tx[d]] # <<>>
        BY <3>1 DEF Announced, TypeOK, TableTypes
      <4>2. logs'[tx[d]] = Append(logs[tx[d]], <<seen[d], outcome[d]>>)
        BY <2>1, <3>1 DEF TypeOK, TableTypes
      <4>3. tx' = tx
        BY <2>1
      <4> QED
        BY <3>1, <4>1, <4>2, <4>3, AppendFacts DEF Announced
    <3>4. KeysTables'
      BY <1>2, <3>2, <3>3 DEF LogUpdated, KeysTables, IdemCacheSound, Announced
    <3>5. KeysLocal(d)'
      BY <1>0, <1>2, <2>1, <3>1 DEF LogUpdated, Goto, TypeOK, HandlerTypes, KeysLocal
    <3>6. \A q \in Procs \ {d} : KeysLocal(q)'
      BY <1>0, <1>2, <2>1, <3>1, <3>2, <3>3, KeysFrame
      DEF LogUpdated, Goto, TypeOK, HandlerTypes, Announced
    <3> QED
      BY <3>4, <3>5, <3>6
  <2>2. CASE Throw(d) /\ UNCHANGED logs
    BY <1>0, <1>2, <2>2, KeysSame, KeysMove DEF LogUpdated, Throw, OnThrow
  <2> QED
    BY <1>2, <2>1, <2>2 DEF LogUpdated
<1>3. CASE DbUpdate(d)
  <2>1. CASE row' = [row EXCEPT ![tx[d]] = outcome[d]] /\ Goto(d, "delTx") /\ UNCHANGED memo
    <3>1. tx[d] \in Requests /\ outcome[d] # "none" /\ row[tx[d]] # "none"
      BY <1>0, <1>3, Kinds DEF DbUpdate, Final, KeysTables, KeysLocal
    <3>2. \A t \in Requests : row'[t] # "none" <=> row[t] # "none"
      BY <2>1, <3>1 DEF TypeOK, TableTypes
    <3>3. KeysTables'
      BY <1>3, <3>2 DEF DbUpdate, TypeOK, TableTypes, KeysTables, IdemCacheSound, Announced
    <3>4. KeysLocal(d)'
      BY <1>0, <1>3, <2>1, <3>1 DEF DbUpdate, Goto, TypeOK, HandlerTypes, KeysLocal
    <3>5. \A q \in Procs \ {d} : KeysLocal(q)'
      BY <1>0, <1>3, <2>1, <3>2, KeysFrame DEF DbUpdate, Goto, TypeOK, HandlerTypes, Announced
    <3> QED
      BY <3>3, <3>4, <3>5
  <2>2. CASE Throw(d) /\ UNCHANGED row
    BY <1>0, <1>3, <2>2, KeysSame, KeysMove DEF DbUpdate, Throw, OnThrow
  <2> QED
    BY <1>3, <2>1, <2>2 DEF DbUpdate
<1>4. CASE DelTx(d)
  BY <1>0, <1>4, KeysSame, KeysMove DEF DelTx
<1>5. CASE DelIdem(d)
  <2>1. KeysTables'
    BY <1>0, <1>5, Kinds, KeysSame, KeysCached DEF DelIdem
  <2> QED
    BY <1>0, <1>5, <2>1, KeysMove DEF DelIdem
<1>6. CASE Ack(d)
  BY <1>0, <1>6, KeysSame, KeysMove DEF Ack
<1> QED
  BY <1>1, <1>2, <1>3, <1>4, <1>5, <1>6 DEF DeliveryStep

\* What clients, the broker, crashes and evictions do keeps the invariant.
LEMMA KeysEnvironment ==
  ASSUME TypeOK, KeysInvariant, Environment
  PROVE  KeysInvariant'
<1> USE DEF KeysInvariant, store, cache, bus, memo
<1>1. ASSUME NEW p \in Requests, Post(p)
      PROVE  KeysInvariant'
  <2>0. p \in Procs /\ p \notin Deliveries
    BY DEF Procs
  <2>1. KeysLocal(p)'
    BY <1>1, <2>0 DEF Post, Goto, TypeOK, HandlerTypes, KeysLocal, FindLabels, Announced
  <2>2. \A q \in Procs \ {p} : KeysLocal(q)'
    BY <1>1, <2>0, KeysFrame DEF Post, Goto, TypeOK, HandlerTypes, Announced
  <2> QED
    BY <1>1, <2>1, <2>2, KeysSame DEF Post
<1>2. ASSUME NEW g \in Gets, NEW t \in Requests, GetById(g, t)
      PROVE  KeysInvariant'
  <2>0. g \in Procs /\ g \notin Deliveries /\ g \notin Requests
    BY DEF Procs
  <2>1. KeysLocal(g)'
    BY <1>2, <2>0 DEF GetById, Goto, TypeOK, HandlerTypes, KeysLocal
  <2>2. \A q \in Procs \ {g} : KeysLocal(q)'
    BY <1>2, <2>0, KeysFrame DEF GetById, Goto, TypeOK, HandlerTypes, Announced
  <2> QED
    BY <1>2, <2>1, <2>2, KeysSame DEF GetById
<1>3. ASSUME NEW d \in Deliveries, NEW t \in Requests, NEW s \in Final, Send(d, t, s)
      PROVE  KeysInvariant'
  <2>0. d \in Procs /\ d \notin Requests
    BY DEF Procs
  <2>1. KeysLocal(d)'
    BY <1>3, <2>0 DEF Send, Goto, TypeOK, HandlerTypes, KeysLocal
  <2>2. \A q \in Procs \ {d} : KeysLocal(q)'
    BY <1>3, <2>0, KeysFrame DEF Send, Goto, TypeOK, HandlerTypes, Announced
  <2> QED
    BY <1>3, <2>1, <2>2, KeysSame DEF Send
<1>4. ASSUME Crash
      PROVE  KeysInvariant'
  <2>1. ASSUME NEW q \in Procs
        PROVE  KeysLocal(q)'
    <3>1. \/ pc'[q] = pc[q]
          \/ pc'[q] = "lost" /\ q \notin Deliveries
          \/ pc'[q] = "queued" /\ q \in Deliveries /\ pc[q] # "init"
      BY <1>4 DEF Crash, Resting, Ended
    <3>2. KeysLocal(q) /\ (q \in Deliveries => q \notin Requests)
      OBVIOUS
    <3> QED
      BY <1>4, <3>1, <3>2 DEF Crash, KeysLocal, Announced, FindLabels
  <2> QED
    BY <1>4, <2>1, KeysSame DEF Crash
<1>5. ASSUME Expire
      PROVE  KeysInvariant'
  <2>1. KeysTables'
    BY <1>5, KeysSame, KeysCached DEF Expire
  <2>2. \A q \in Procs : KeysLocal(q)'
    BY <1>5 DEF Expire, KeysLocal, Announced
  <2> QED
    BY <2>1, <2>2
<1> QED
  BY <1>1, <1>2, <1>3, <1>4, <1>5 DEF Environment

LEMMA KeysStep == TypeOK /\ KeysInvariant /\ [Next]_vars => KeysInvariant'
<1> SUFFICES ASSUME TypeOK, KeysInvariant, [Next]_vars
             PROVE  KeysInvariant'
  OBVIOUS
<1>1. CASE UNCHANGED vars
  BY <1>1 DEF vars, KeysInvariant, KeysTables, KeysLocal, IdemCacheSound, Announced
<1>2. CASE Next
  BY <1>2, KeysFind, KeysRequest, KeysDelivery, KeysEnvironment DEF Next
<1> QED
  BY <1>1, <1>2

-----------------------------------------------------------------------------
\* Every reachable state keeps the books of its idempotency keys right.
THEOREM KeysCorrect == Spec => []KeysInvariant
<1>1. Init => KeysInvariant
  BY KeysInit
<1>2. TypeOK /\ KeysInvariant /\ [Next]_vars => KeysInvariant'
  BY KeysStep
<1> QED
  BY <1>1, <1>2, TypeCorrect, PTL DEF Spec

\* Whatever races, caches and failures do, POSTs with one key hand at most one
\* transfer to the broker.
THEOREM PublishesOncePerKey == Spec => []PublishedOncePerKey
<1>1. TypeOK /\ KeysInvariant => PublishedOncePerKey
  BY DEF TypeOK, TableTypes, KeysInvariant, KeysTables, PublishedOncePerKey
<1> QED
  BY <1>1, TypeCorrect, KeysCorrect, PTL

\* Answered POSTs with one key are answered with one stored transaction of it.
LEMMA ResponsesAgree == TypeOK /\ KeysInvariant => IdempotentResponses
<1> SUFFICES ASSUME TypeOK, KeysInvariant, NEW p \in Requests, NEW q \in Requests,
                    pc[p] = "ok", pc[q] = "ok", KeyOf[p] = KeyOf[q]
             PROVE  tx[p] = tx[q] /\ row[tx[p]] # "none" /\ KeyOf[tx[p]] = KeyOf[p]
  BY DEF IdempotentResponses
<1>1. p \in Procs /\ q \in Procs
  BY DEF Procs
<1>2. tx[p] \in Requests /\ tx[q] \in Requests
  BY <1>1, Kinds
<1> QED
  BY <1>1, <1>2 DEF KeysInvariant, KeysTables, KeysLocal

\* However POSTs with one key race, fail and are answered, their answers agree.
THEOREM RespondsIdempotently == Spec => []IdempotentResponses
BY ResponsesAgree, TypeCorrect, KeysCorrect, PTL

\* What is published is stored, and its creation logged first.
THEOREM PublishesRecorded == Spec => []PublishedIsRecorded
<1>1. KeysInvariant => PublishedIsRecorded
  BY DEF KeysInvariant, KeysTables, PublishedIsRecorded, Announced
<1> QED
  BY <1>1, KeysCorrect, PTL

\* A key in Redis leads to a stored transaction of that key.
THEOREM CachesKeysSoundly == Spec => []IdemCacheSound
<1>1. KeysInvariant => IdemCacheSound
  BY DEF KeysInvariant, KeysTables
<1> QED
  BY <1>1, KeysCorrect, PTL

-----------------------------------------------------------------------------
\* The service implements IdempotentIntake: every step of every handler is a step
\* of the abstract intake, or no step.

\* A stored transaction is what its key is bound to.
LEMMA BoundIs ==
  ASSUME KeysTables, NEW t \in Requests, row[t] # "none"
  PROVE  Accepted[KeyOf[t]] = t
<1>1. KeyOf[t] \in Keys /\ Bound(KeyOf[t]) = {t}
  BY DEF KeysTables, Bound
<1>2. TheOneIn({t}) = t
  BY DEF TheOneIn
<1> QED
  BY <1>1, <1>2 DEF Accepted

\* Rows that stay stored, or not stored, stay bound as they are.
LEMMA BoundSame ==
  ASSUME \A t \in Requests : row'[t] # "none" <=> row[t] # "none"
  PROVE  Accepted' = Accepted
<1>1. \A k : Bound(k)' = Bound(k)
  BY DEF Bound
<1> QED
  BY <1>1 DEF Accepted

LEMMA IntakeInit == Init => Intake!Init
<1> SUFFICES ASSUME Init
             PROVE  Intake!Init
  OBVIOUS
<1>1. \A k : Bound(k) = {}
  BY DEF Init, Bound
<1>2. Accepted = [k \in Keys |-> NoTx]
  BY <1>1 DEF Accepted, TheOneIn
<1>3. Dispatched = {}
  BY DEF Init, Dispatched
<1>4. Answered = [p \in Requests |-> NoTx]
  BY DEF Init, Answered, Procs
<1> QED
  BY <1>2, <1>3, <1>4 DEF Intake!Init

\* A step of p that stores and publishes nothing, and does not answer p, is no
\* step of the intake.
LEMMA IntakeStutters ==
  ASSUME TypeOK, NEW p \in Procs, UNCHANGED published,
         \A t \in Requests : row'[t] # "none" <=> row[t] # "none",
         \A q \in Procs \ {p} : pc'[q] = pc[q] /\ tx'[q] = tx[q],
         p \in Requests => pc[p] # "ok" /\ pc'[p] # "ok"
  PROVE  UNCHANGED <<Accepted, Dispatched, Answered>>
<1>1. Accepted' = Accepted
  BY BoundSame
<1>2. Dispatched' = Dispatched
  BY DEF Dispatched
<1>3. Answered' = Answered
  BY DEF Answered, Procs
<1> QED
  BY <1>1, <1>2, <1>3

\* A step of the POST p that stores and publishes nothing and answers p, does so
\* with what p's key is bound to.
LEMMA IntakeAnswers ==
  ASSUME TypeOK, KeysInvariant, KeysInvariant', NEW p \in Requests, UNCHANGED <<row, published>>,
         \A q \in Procs \ {p} : pc'[q] = pc[q] /\ tx'[q] = tx[q],
         pc[p] # "ok", pc'[p] = "ok", tx'[p] \in Requests
  PROVE  Intake!Answer(p)
<1>1. Accepted' = Accepted
  BY BoundSame
<1>2. Dispatched' = Dispatched
  BY DEF Dispatched
<1>3. row[tx'[p]] # "none" /\ KeyOf[tx'[p]] = KeyOf[p]
  BY DEF KeysInvariant, KeysLocal, Procs
<1>4. Accepted[KeyOf[p]] = tx'[p]
  BY <1>3, BoundIs DEF KeysInvariant
<1>5. Answered' = [Answered EXCEPT ![p] = Accepted[KeyOf[p]]]
  BY <1>4 DEF Answered, Procs
<1>6. Answered[p] = NoTx
  BY DEF Answered
<1> QED
  BY <1>1, <1>2, <1>4, <1>5, <1>6 DEF Intake!Answer

-----------------------------------------------------------------------------
\* The steps of a find answer a POST or nobody.
LEMMA IntakeFind ==
  ASSUME TypeOK, TypeOK', KeysInvariant, KeysInvariant', NEW p \in Procs, FindStep(p)
  PROVE  [Intake!Next]_(Intake!vars)
<1>1. /\ UNCHANGED <<row, published>> /\ pc[p] # "ok"
      /\ \A q \in Procs \ {p} : pc'[q] = pc[q] /\ tx'[q] = tx[q]
  BY DEF FindStep, GetIdem, DbByIdem, SetIdemFound, GetTx, DbById, SetTx, SetIdem,
    Found, Missing, Throw, Goto, TypeOK, HandlerTypes, store, cache, bus, memo
<1>2. CASE p \in Requests /\ pc'[p] = "ok"
  <2>1. tx'[p] \in Requests
    BY <1>2 DEF TypeOK, Local, HoldsTx
  <2> QED
    BY <1>1, <1>2, <2>1, IntakeAnswers DEF Intake!Next
<1>3. CASE ~(p \in Requests /\ pc'[p] = "ok")
  BY <1>1, <1>3, IntakeStutters DEF Intake!vars
<1> QED
  BY <1>2, <1>3

\* The other steps of a POST bind its key, dispatch its transfer, or do nothing.
LEMMA IntakeRequest ==
  ASSUME TypeOK, TypeOK', KeysInvariant, KeysInvariant', NEW p \in Requests, RequestStep(p)
  PROVE  [Intake!Next]_(Intake!vars)
<1> USE DEF store, cache, bus, memo
<1>0. p \in Procs /\ p \notin Deliveries
  BY DEF Procs
<1>1. CASE AskSender(p)
  BY <1>0, <1>1, IntakeStutters DEF AskSender, Goto, TypeOK, HandlerTypes, Intake!vars
<1>2. CASE AskReceiver(p)
  BY <1>0, <1>2, IntakeStutters DEF AskReceiver, Goto, TypeOK, HandlerTypes, Intake!vars
<1>3. CASE DbCreate(p)
  <2>1. CASE /\ ~KeyTaken(p) /\ row' = [row EXCEPT ![p] = "PENDING"]
             /\ tx' = [tx EXCEPT ![p] = p] /\ Goto(p, "setTx")
    <3>1. \A t \in Requests : row'[t] = IF t = p THEN "PENDING" ELSE row[t]
      BY <2>1 DEF TypeOK, TableTypes
    <3>2. KeyOf[p] \in Keys /\ Bound(KeyOf[p]) = {}
      BY <2>1 DEF KeyTaken, Bound
    <3>3. Bound(KeyOf[p])' = {p} /\ \A k \in Keys \ {KeyOf[p]} : Bound(k)' = Bound(k)
      BY <3>1, <3>2 DEF Bound
    <3>4. TheOneIn({}) = NoTx /\ TheOneIn({p}) = p
      BY DEF TheOneIn
    <3>5. Accepted[KeyOf[p]] = NoTx /\ Accepted' = [Accepted EXCEPT ![KeyOf[p]] = p]
      BY <3>2, <3>3, <3>4 DEF Accepted
    <3>6. Dispatched' = Dispatched
      BY <1>3 DEF DbCreate, Dispatched
    <3>7. Answered' = Answered
      BY <1>0, <1>3, <2>1 DEF DbCreate, Goto, TypeOK, HandlerTypes, Answered, Procs
    <3> QED
      BY <3>5, <3>6, <3>7 DEF Intake!Next, Intake!Accept
  <2>2. CASE Throw(p) /\ UNCHANGED row
    BY <1>0, <1>3, <2>2, IntakeStutters
    DEF DbCreate, Throw, OnThrow, Goto, TypeOK, HandlerTypes, Intake!vars
  <2> QED
    BY <1>3, <2>1, <2>2 DEF DbCreate
<1>4. CASE LogCreated(p)
  BY <1>0, <1>4, IntakeStutters
  DEF LogCreated, Throw, OnThrow, Goto, TypeOK, HandlerTypes, Intake!vars
<1>5. CASE Publish(p)
  <2>1. PICK n \in {0, 1} : published' = [published EXCEPT ![p] = @ + n]
    BY <1>5 DEF Publish
  <2>2. published[p] = 0 /\ tx[p] = p /\ row[p] # "none" /\ pc[p] = "publish"
    BY <1>0, <1>5 DEF Publish, KeysInvariant, KeysLocal
  <2>3. /\ UNCHANGED <<row, tx>>
        /\ pc'[p] \in {"ok", "failed"} /\ (pc'[p] = "ok" => n = 1)
        /\ \A q \in Procs \ {p} : pc'[q] = pc[q]
    BY <1>0, <1>5, <2>1, <2>2 DEF Publish, Goto, TypeOK, HandlerTypes, TableTypes
  <2>4. CASE n = 0
    <3>1. published' = published
      BY <2>1, <2>4 DEF TypeOK, TableTypes
    <3> QED
      BY <1>0, <2>2, <2>3, <2>4, <3>1, IntakeStutters DEF Intake!vars
  <2>5. CASE n = 1
    <3>1. \A t \in Requests : published'[t] > 0 <=> published[t] > 0 \/ t = p
      BY <2>1, <2>2, <2>5 DEF TypeOK, TableTypes
    <3>2. Dispatched' = Dispatched \cup {KeyOf[p]}
      BY <3>1 DEF Dispatched
    <3>3. KeyOf[p] \notin Dispatched
      BY <2>2 DEF Dispatched, KeysInvariant, KeysTables
    <3>4. Accepted' = Accepted /\ Accepted[KeyOf[p]] = p
      BY <2>2, <2>3, BoundSame, BoundIs DEF KeysInvariant
    <3>5. Answered' \in {Answered, [Answered EXCEPT ![p] = p]}
      BY <2>2, <2>3 DEF Answered, Procs
    <3> QED
      BY <3>2, <3>3, <3>4, <3>5 DEF Intake!Next, Intake!Dispatch
  <2> QED
    BY <2>4, <2>5
<1> QED
  BY <1>1, <1>2, <1>3, <1>4, <1>5 DEF RequestStep

\* Nothing the consumer or the environment does is a step of the intake.
LEMMA IntakeOthers ==
  ASSUME TypeOK, KeysInvariant,
         (\E d \in Deliveries : DeliveryStep(d)) \/ Environment
  PROVE  UNCHANGED Intake!vars
<1> USE DEF store, cache, bus, memo
<1>1. ASSUME NEW d \in Deliveries, DeliveryStep(d)
      PROVE  UNCHANGED Intake!vars
  <2>0. d \in Procs /\ d \notin Requests
    BY DEF Procs
  <2>1. UNCHANGED published /\ \A q \in Procs \ {d} : pc'[q] = pc[q] /\ tx'[q] = tx[q]
    BY <1>1 DEF DeliveryStep, Deliver, LogUpdated, DbUpdate, DelTx, DelIdem, Ack,
      Throw, Goto, TypeOK, HandlerTypes
  <2>2. \A t \in Requests : row'[t] # "none" <=> row[t] # "none"
    <3>1. CASE DbUpdate(d)
      <4>1. tx[d] \in Requests /\ row[tx[d]] # "none" /\ outcome[d] # "none"
        BY <2>0, <3>1, Kinds DEF DbUpdate, Final, KeysInvariant, KeysTables, KeysLocal
      <4> QED
        BY <3>1, <4>1 DEF DbUpdate, TypeOK, TableTypes
    <3>2. CASE UNCHANGED row
      BY <3>2
    <3> QED
      BY <1>1, <3>1, <3>2 DEF DeliveryStep, Deliver, LogUpdated, DelTx, DelIdem, Ack
  <2> QED
    BY <2>0, <2>1, <2>2, IntakeStutters DEF Intake!vars
<1>2. ASSUME NEW p \in Requests, Post(p)
      PROVE  UNCHANGED Intake!vars
  BY <1>2, IntakeStutters DEF Post, Goto, TypeOK, HandlerTypes, Procs, Intake!vars
<1>3. ASSUME NEW g \in Gets, NEW t \in Requests, GetById(g, t)
      PROVE  UNCHANGED Intake!vars
  BY <1>3, IntakeStutters DEF GetById, Goto, TypeOK, HandlerTypes, Procs, Intake!vars
<1>4. ASSUME NEW d \in Deliveries, NEW t \in Requests, NEW s \in Final, Send(d, t, s)
      PROVE  UNCHANGED Intake!vars
  BY <1>4, IntakeStutters DEF Send, Goto, TypeOK, HandlerTypes, Procs, Intake!vars
<1>5. ASSUME Crash
      PROVE  UNCHANGED Intake!vars
  <2>1. Accepted' = Accepted
    BY <1>5, BoundSame DEF Crash
  <2>2. \A p \in Requests : pc'[p] = "ok" <=> pc[p] = "ok"
    BY <1>5 DEF Crash, Resting, Ended, Procs
  <2>3. Dispatched' = Dispatched /\ Answered' = Answered
    BY <1>5, <2>2 DEF Crash, Dispatched, Answered
  <2> QED
    BY <2>1, <2>3 DEF Intake!vars
<1>6. ASSUME Expire
      PROVE  UNCHANGED Intake!vars
  <2>1. Accepted' = Accepted
    BY <1>6, BoundSame DEF Expire
  <2>2. Dispatched' = Dispatched /\ Answered' = Answered
    BY <1>6 DEF Expire, Dispatched, Answered
  <2> QED
    BY <2>1, <2>2 DEF Intake!vars
<1> QED
  BY <1>1, <1>2, <1>3, <1>4, <1>5, <1>6 DEF Environment

\* What changes none of these changes nothing of the intake.
LEMMA IntakeRests ==
  ASSUME UNCHANGED <<row, published, pc, tx>>
  PROVE  UNCHANGED Intake!vars
<1>1. Accepted' = Accepted
  BY BoundSame
<1>2. Dispatched' = Dispatched /\ Answered' = Answered
  BY DEF Dispatched, Answered
<1> QED
  BY <1>1, <1>2 DEF Intake!vars

LEMMA IntakeStep ==
  TypeOK /\ TypeOK' /\ KeysInvariant /\ KeysInvariant' /\ [Next]_vars => [Intake!Next]_(Intake!vars)
<1> SUFFICES ASSUME TypeOK, TypeOK', KeysInvariant, KeysInvariant', [Next]_vars
             PROVE  [Intake!Next]_(Intake!vars)
  OBVIOUS
<1>1. CASE UNCHANGED vars
  BY <1>1, IntakeRests DEF vars
<1>2. CASE Next
  BY <1>2, IntakeFind, IntakeRequest, IntakeOthers DEF Next
<1> QED
  BY <1>1, <1>2

\* Through its caches, tables, races, failures and crashes the service does
\* nothing a client who relies on IdempotentIntake could object to.
THEOREM ImplementsTheIntake == Spec => ImplementsIntake
<1>1. Init => Intake!Init
  BY IntakeInit
<1>2. TypeOK /\ TypeOK' /\ KeysInvariant /\ KeysInvariant' /\ [Next]_vars
        => [Intake!Next]_(Intake!vars)
  BY IntakeStep
<1> QED
  BY <1>1, <1>2, TypeCorrect, KeysCorrect, PTL DEF Spec, ImplementsIntake, Intake!Spec
=============================================================================
