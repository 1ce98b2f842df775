-------------------------- MODULE UserProfilesProofs --------------------------
(***************************************************************************)
(* Theorems about UserProfiles, for every set of users, addresses and      *)
(* requests, and any number of failed calls and crashes.                   *)
(***************************************************************************)
EXTENDS UserProfiles, TLAPS

USE ConstantsAssumption DEF ConstantsAssumption

-----------------------------------------------------------------------------
\* Type correctness.

LEMMA Answers ==
  /\ Answered("P2002") = "conflict" /\ Answered("P2025") = "notFound"
  /\ Answered("other") = "failed"
  BY DEF Answered

\* One step of the handler p.
Step(p) ==
  \/ FindStep(p)
  \/ p \in Edits /\ EditStep(p)
  \/ p \in Creates /\ (Create(p) \/ Insert(p))
  \/ p \in Edits \cup Reads /\ Open(p)
  \/ p \in Logins /\ (LoginFind(p) \/ LoginCompare(p))

\* What the step of one handler leaves of every other.
Same(q) ==
  /\ pc'[q] = pc[q] /\ find'[q] = find[q] /\ at'[q] = at[q]
  /\ hand'[q] = hand[q] /\ copy'[q] = copy[q]
Others(p) == \A q \in Procs \ {p} : Same(q)

LEMMA LocalFrame ==
  ASSUME TypeOK, NEW p \in Procs, Others(p), Labelled(p)', Local(p)'
  PROVE  \A q \in Procs : Labelled(q)' /\ Local(q)'
<1> SUFFICES ASSUME NEW q \in Procs \ {p}
             PROVE  Labelled(q)' /\ Local(q)'
  OBVIOUS
<1>1. Labelled(q) /\ Local(q)
  BY DEF TypeOK
<1>2. Labelled(q)'
  BY <1>1 DEF Others, Same, Labelled
<1> QED
  BY <1>1, <1>2 DEF Others, Same, Local, Active, Finding, Caching, KeepsCopy

\* A step that keeps what handlers hold and ends the request of p.
LEMMA TypeEnds ==
  ASSUME TypeOK, NEW p \in Procs, NEW l \in Resting \ {"init"}, Goto(p, l),
         find' = find, at' \in [Procs -> Users \cup {None}], UNCHANGED <<hand, copy>>,
         \A q \in Procs \ {p} : at'[q] = at[q]
  PROVE  HandlerTypes' /\ \A q \in Procs : Labelled(q)' /\ Local(q)'
<1>1. HandlerTypes'
  BY DEF TypeOK, HandlerTypes, Goto, Labels
<1>2. pc'[p] \in Resting \ {"init"} /\ find'[p] = find[p]
  BY DEF TypeOK, HandlerTypes, Goto
<1>3. ~Active(p)' /\ ~Finding(p)' /\ ~Caching(p)' /\ ~KeepsCopy(p)'
  BY <1>2 DEF Active, Finding, Caching, KeepsCopy, Resting, Errors
<1>4. Labelled(p)'
  BY <1>2 DEF Labelled, Resting, Errors
<1>5. Local(p)'
  BY <1>2, <1>3 DEF TypeOK, Local, Resting, Errors
<1>6. Others(p)
  BY DEF TypeOK, HandlerTypes, Goto, Others, Same
<1> QED
  BY <1>1, <1>4, <1>5, <1>6, LocalFrame

LEMMA TypeLoaded ==
  ASSUME TypeOK, NEW p \in Procs, NEW d \in Profile, Finding(p), Loaded(p, d), UNCHANGED find
  PROVE  HandlerTypes' /\ Others(p) /\ \A q \in Procs : Labelled(q)' /\ Local(q)'
<1> USE DEF TypeOK, HandlerTypes, Loaded, Goto
<1>1. p \notin Logins /\ Active(p) /\ Local(p) /\ Labelled(p)
  BY DEF Labelled, Finding, Resting, Errors, Active
<1>2. copy' \in [Procs -> Profile \cup {None}] /\ hand' \in [Procs -> Profile \cup {None}]
      /\ at' \in [Procs -> Users \cup {None}]
  BY DEF Kept
<1>3. pc' \in [Procs -> Labels]
  BY DEF WithOwn, WithHolder, Labels, Resting, Errors
<1>4. Others(p)
  BY DEF Others, Same
<1>5. at'[p] = None /\ find'[p] = find[p] /\ copy'[p] = Kept(p, d)
  OBVIOUS
<1>6. CASE find[p] = "own"
  <2>1. pc'[p] = WithOwn(p) /\ p \in Reads \cup Edits
    BY <1>1, <1>6 DEF Procs, Local
  <2>2. p \in Edits => copy'[p] = d /\ d # None
    BY <1>5, <1>6 DEF Kept
  <2>3. p \in Reads => pc'[p] = "done"
    BY <2>1 DEF WithOwn
  <2>4. p \in Edits => pc'[p] \in {"upload", "getEmail", "write"}
                       /\ (pc'[p] = "getEmail" => NewEmail[p] # None)
    BY <2>1 DEF WithOwn
  <2>5. Labelled(p)'
    BY <2>1, <2>3, <2>4 DEF Labelled, Resting
  <2>6. Local(p)'
    BY <1>5, <1>6, <2>1, <2>2, <2>3, <2>4 DEF Local, Active, Finding, Caching, KeepsCopy, Resting
  <2> QED
    BY <1>2, <1>3, <1>4, <2>5, <2>6, LocalFrame
<1>7. CASE find[p] # "own"
  <2>1. pc'[p] = WithHolder(p) /\ p \in Creates \cup Edits /\ NewEmail[p] # None
    BY <1>1, <1>7 DEF Procs, Local
  <2>2. p \in Edits => copy'[p] = copy[p] /\ copy[p] # None
    BY <1>1, <1>5, <1>7 DEF Kept, Local, KeepsCopy
  <2>3. p \in Creates => pc'[p] = "conflict"
    BY <2>1 DEF WithHolder
  <2>4. p \in Edits => pc'[p] \in {"write", "failed"}
    BY <2>1 DEF WithHolder
  <2>5. Labelled(p)'
    BY <2>1, <2>3, <2>4 DEF Labelled, Resting, Errors
  <2>6. Local(p)'
    BY <1>5, <1>7, <2>1, <2>2, <2>3, <2>4
       DEF Local, Active, Finding, Caching, KeepsCopy, Resting, Errors
  <2> QED
    BY <1>2, <1>3, <1>4, <2>5, <2>6, LocalFrame
<1> QED
  BY <1>6, <1>7

LEMMA TypeNotFound ==
  ASSUME TypeOK, NEW p \in Procs, pc[p] \in {"dbEmail", "db"}, NotFound(p), UNCHANGED find
  PROVE  HandlerTypes' /\ Others(p) /\ \A q \in Procs : Labelled(q)' /\ Local(q)'
<1> USE DEF TypeOK, HandlerTypes, NotFound, Goto
<1>1. p \notin Logins /\ Active(p) /\ Local(p) /\ Labelled(p)
  BY DEF Labelled, Resting, Errors, Active
<1>2. at' \in [Procs -> Users \cup {None}] /\ pc' \in [Procs -> Labels]
  BY DEF Labels, Resting, Errors
<1>3. Others(p) /\ at'[p] = None /\ find'[p] = find[p] /\ copy'[p] = copy[p]
  BY DEF Others, Same
<1>4. CASE find[p] = "own"
  <2>1. pc'[p] = "notFound"
    BY <1>4
  <2>2. Labelled(p)' /\ Local(p)'
    BY <1>1, <1>3, <1>4, <2>1
       DEF Labelled, Local, Active, Finding, Caching, KeepsCopy, Resting, Errors
  <2> QED
    BY <1>2, <1>3, <2>2, LocalFrame
<1>5. CASE find[p] # "own"
  <2>1. p \in Creates \cup Edits /\ NewEmail[p] # None /\ (p \in Edits => copy[p] # None)
    BY <1>1, <1>5 DEF Procs, Local, KeepsCopy
  <2>2. pc'[p] = IF p \in Creates THEN "insert" ELSE "write"
    BY <1>5
  <2>3. Labelled(p)'
    BY <2>1, <2>2 DEF Labelled
  <2>4. Local(p)'
    BY <1>1, <1>3, <1>5, <2>1, <2>2 DEF Local, Active, Finding, Caching, KeepsCopy, Resting, Errors
  <2> QED
    BY <1>2, <1>3, <2>3, <2>4, LocalFrame
<1> QED
  BY <1>4, <1>5

\* The address a find is about.
LEMMA LookedUpAddress ==
  ASSUME TypeOK, NEW p \in Procs, pc[p] \in {"getEmail", "dbEmail", "setEmail"}
  PROVE  LookedUp(p) \in Addresses /\ p \in Creates \cup Edits
<1>1. p \notin Logins /\ p \notin Reads /\ Active(p) /\ Local(p)
  BY DEF TypeOK, Labelled, Local, Resting, Errors, Active
<1>2. p \in Creates \cup Edits /\ NewEmail[p] # None
  BY <1>1 DEF Procs, Local
<1> QED
  BY <1>2 DEF LookedUp

\* What the proofs below show of each handler step.
HandlersTyped == HandlerTypes' /\ \A q \in Procs : Labelled(q)' /\ Local(q)'

\* A step of p that keeps its find going.
LEMMA TypeGoesOn ==
  ASSUME TypeOK, NEW p \in Procs, HandlerTypes', Others(p), Labelled(p)', Local(p)'
  PROVE  HandlersTyped
BY LocalFrame DEF HandlersTyped

LEMMA TypeGetEmail ==
  ASSUME TypeOK, NEW p \in Procs, GetEmail(p)
  PROVE  HandlersTyped
<1> USE DEF TypeOK, HandlerTypes, TableTypes, GetEmail, Goto
<1>1. LookedUp(p) \in Addresses /\ p \in Creates \cup Edits /\ Local(p) /\ Labelled(p)
  BY LookedUpAddress
<1>2. NewEmail[p] # None /\ (p \in Edits => copy[p] # None) /\ p \notin Reads /\ p \notin Logins
  BY <1>1 DEF Local, KeepsCopy, Active, Resting, Errors
<1>3. Others(p) /\ copy' = copy /\ hand' = hand
  BY DEF Others, Same
<1>4. CASE pc' = [pc EXCEPT ![p] = "get"]
  <2>1. at'[p] # None /\ find'[p] = "cachedHolder" /\ pc'[p] = "get" /\ HandlerTypes'
    BY <1>1, <1>4 DEF Labels, Finds
  <2>2. Labelled(p)' /\ Local(p)'
    BY <1>1, <1>2, <1>3, <2>1
       DEF Labelled, Local, Active, Finding, Caching, KeepsCopy, Resting, Errors
  <2> QED
    BY <1>3, <2>1, <2>2, TypeGoesOn
<1>5. CASE pc' = [pc EXCEPT ![p] = "dbEmail"]
  <2>1. find'[p] = "holder" /\ pc'[p] = "dbEmail" /\ HandlerTypes'
    BY <1>1, <1>5 DEF Labels, Finds
  <2>2. Labelled(p)' /\ Local(p)'
    BY <1>1, <1>2, <1>3, <2>1
       DEF Labelled, Local, Active, Finding, Caching, KeepsCopy, Resting, Errors
  <2> QED
    BY <1>3, <2>1, <2>2, TypeGoesOn
<1> QED
  BY <1>4, <1>5

LEMMA TypeFails ==
  ASSUME TypeOK, NEW p \in Procs, Goto(p, "failed"), UNCHANGED <<find, at, hand, copy>>
  PROVE  HandlersTyped
BY TypeEnds DEF HandlersTyped, TypeOK, HandlerTypes, Resting, Errors

LEMMA TypeDbEmail ==
  ASSUME TypeOK, NEW p \in Procs, DbEmail(p)
  PROVE  HandlersTyped
<1> USE DEF TypeOK, HandlerTypes, TableTypes, DbEmail
<1>1. p \in Creates \cup Edits /\ Local(p) /\ Labelled(p)
  BY LookedUpAddress
<1>2. NewEmail[p] # None /\ find[p] = "holder" /\ (p \in Edits => copy[p] # None)
      /\ p \notin Reads /\ p \notin Logins
  BY <1>1 DEF Local, KeepsCopy, Active, Resting, Errors
<1>3. CASE NotFound(p)
  BY <1>3, TypeNotFound DEF HandlersTyped
<1>4. CASE Goto(p, "failed") /\ UNCHANGED <<at, hand, copy>>
  BY <1>4, TypeFails
<1>5. CASE \E u \in {v \in Users : row[v] # None} :
             /\ Goto(p, "setBase") /\ at' = [at EXCEPT ![p] = u]
             /\ hand' = [hand EXCEPT ![p] = row[u]] /\ UNCHANGED copy
  <2> USE DEF Goto
  <2>1. Others(p) /\ HandlerTypes'
    BY <1>5 DEF Others, Same, Labels
  <2>2. at'[p] # None /\ hand'[p] # None /\ find'[p] = "holder" /\ pc'[p] = "setBase"
        /\ copy'[p] = copy[p]
    BY <1>2, <1>5
  <2>3. Labelled(p)' /\ Local(p)'
    BY <1>1, <1>2, <2>2 DEF Labelled, Local, Active, Finding, Caching, KeepsCopy, Resting, Errors
  <2> QED
    BY <2>1, <2>3, TypeGoesOn
<1> QED
  BY <1>3, <1>4, <1>5

LEMMA TypeGet ==
  ASSUME TypeOK, NEW p \in Procs, Get(p)
  PROVE  HandlersTyped
<1> USE DEF TypeOK, HandlerTypes, TableTypes, Get
<1>1. Finding(p) /\ Local(p) /\ Labelled(p) /\ at[p] \in Users
  BY DEF Local, Finding
<1>2. CASE Loaded(p, IF Full(p) THEN banking[at[p]] ELSE base[at[p]])
           /\ (IF Full(p) THEN banking[at[p]] ELSE base[at[p]]) # None
  BY <1>1, <1>2, TypeLoaded DEF HandlersTyped
<1>3. CASE Goto(p, "db") /\ UNCHANGED <<at, hand, copy>>
  <2> USE DEF Goto
  <2>1. Others(p) /\ HandlerTypes'
    BY <1>3 DEF Others, Same, Labels
  <2>2. Labelled(p)' /\ Local(p)'
    BY <1>1, <1>3 DEF Labelled, Local, Active, Finding, Caching, KeepsCopy, Resting, Errors
  <2> QED
    BY <2>1, <2>2, TypeGoesOn
<1> QED
  BY <1>2, <1>3

LEMMA TypeDb ==
  ASSUME TypeOK, NEW p \in Procs, Db(p)
  PROVE  HandlersTyped
<1> USE DEF TypeOK, HandlerTypes, TableTypes, Db
<1>1. Finding(p) /\ Local(p) /\ Labelled(p) /\ at[p] \in Users
  BY DEF Local, Finding
<1>2. CASE NotFound(p)
  BY <1>2, TypeNotFound DEF HandlersTyped
<1>3. CASE Goto(p, "failed") /\ UNCHANGED <<at, hand, copy>>
  BY <1>3, TypeFails
<1>4. CASE /\ row[at[p]] # None
           /\ hand' = [hand EXCEPT ![p] = row[at[p]]]
           /\ Goto(p, "setBase") /\ UNCHANGED <<at, copy>>
  <2> USE DEF Goto
  <2>1. Others(p) /\ HandlerTypes'
    BY <1>1, <1>4 DEF Others, Same, Labels
  <2>2. hand'[p] # None /\ pc'[p] = "setBase"
    BY <1>1, <1>4
  <2>3. Labelled(p)' /\ Local(p)'
    BY <1>1, <1>4, <2>2 DEF Labelled, Local, Active, Finding, Caching, KeepsCopy, Resting, Errors
  <2> QED
    BY <2>1, <2>3, TypeGoesOn
<1> QED
  BY <1>2, <1>3, <1>4

LEMMA TypeSets ==
  ASSUME TypeOK, NEW p \in Procs, SetBase(p) \/ SetBanking(p) \/ SetEmail(p)
  PROVE  HandlersTyped
<1> USE DEF TypeOK, HandlerTypes
<1>1. Finding(p) /\ Local(p) /\ Labelled(p) /\ hand[p] \in Profile /\ UNCHANGED find
  BY DEF Local, Finding, Caching, SetBase, SetBanking, SetEmail
<1>2. CASE Loaded(p, hand[p])
  BY <1>1, <1>2, TypeLoaded DEF HandlersTyped
<1>3. CASE Goto(p, "failed") /\ UNCHANGED <<at, hand, copy>>
  BY <1>1, <1>3, TypeFails
<1>4. CASE SetBase(p) /\ Full(p) /\ Goto(p, "setBanking") /\ UNCHANGED <<at, hand, copy>>
  <2> USE DEF Goto
  <2>1. Others(p) /\ HandlerTypes' /\ pc'[p] = "setBanking" /\ find[p] = "own"
        /\ p \notin Creates /\ p \notin Logins
    BY <1>1, <1>4 DEF Others, Same, Labels, Full
  <2>2. Labelled(p)' /\ Local(p)'
    BY <1>1, <1>4, <2>1
       DEF Labelled, Local, Active, Finding, Caching, KeepsCopy, Resting, Errors, SetBase
  <2> QED
    BY <2>1, <2>2, TypeGoesOn
<1>5. CASE SetBase(p) /\ find[p] = "holder" /\ Goto(p, "setEmail") /\ UNCHANGED <<at, hand, copy>>
  <2> USE DEF Goto
  <2>1. Others(p) /\ HandlerTypes' /\ pc'[p] = "setEmail" /\ p \notin Logins /\ p \notin Reads
    BY <1>1, <1>5 DEF Others, Same, Labels, Labelled, Local, SetBase, Resting, Errors
  <2>2. Labelled(p)' /\ Local(p)'
    BY <1>1, <1>5, <2>1
       DEF Labelled, Local, Active, Finding, Caching, KeepsCopy, Resting, Errors, SetBase
  <2> QED
    BY <2>1, <2>2, TypeGoesOn
<1> QED
  BY <1>2, <1>3, <1>4, <1>5 DEF SetBase, SetBanking, SetEmail, AfterCaching

LEMMA TypeOpens ==
  ASSUME TypeOK, NEW p \in Procs, (p \in Creates /\ Create(p)) \/ (p \in Edits \cup Reads /\ Open(p))
  PROVE  HandlersTyped
<1> USE DEF TypeOK, HandlerTypes, Create, Open, Goto
<1>1. Others(p) /\ HandlerTypes' /\ find'[p] = "own" /\ copy' = copy
  BY DEF Others, Same, Labels, Local
<1>2. CASE p \in Creates
  <2>1. pc'[p] = "getEmail" /\ NewEmail[p] # None
    BY <1>2
  <2>2. Labelled(p)' /\ Local(p)'
    BY <1>1, <1>2, <2>1 DEF Labelled, Local, Active, Finding, Caching, KeepsCopy
  <2> QED
    BY <1>1, <2>2, TypeGoesOn
<1>3. CASE p \in Edits \cup Reads
  <2>1. pc'[p] = "get" /\ at'[p] = UserOf[p] /\ at'[p] # None /\ p \notin Creates
    BY <1>3
  <2>2. Labelled(p)' /\ Local(p)'
    BY <1>1, <1>3, <2>1 DEF Labelled, Local, Active, Finding, Caching, KeepsCopy
  <2> QED
    BY <1>1, <2>2, TypeGoesOn
<1> QED
  BY <1>2, <1>3

LEMMA TypeEditing ==
  ASSUME TypeOK, NEW p \in Edits, EditStep(p)
  PROVE  HandlersTyped
<1> USE DEF TypeOK, HandlerTypes
<1>1. p \in Procs /\ UserOf[p] \in Users /\ Local(p) /\ Labelled(p)
  BY DEF Procs
<1>2. copy[p] \in Profile \cup {None} /\ pc[p] \in {"upload", "write", "del"}
  BY <1>1 DEF EditStep, Upload, Write, Del
<1>3. copy[p] \in Profile
  BY <1>1, <1>2 DEF Local, KeepsCopy, Active, Resting, Errors
<1> DEFINE
      Ends == \E l \in {"conflict", "notFound", "failed", "done"} :
                Goto(p, l) /\ UNCHANGED <<find, at, hand, copy>>
      Uploaded == Upload(p) /\ Goto(p, "write") /\ UNCHANGED <<find, at, hand, copy>>
      Written == /\ Write(p) /\ copy' = [copy EXCEPT ![p] = Edited(p, copy[p])]
                 /\ Goto(p, "del") /\ UNCHANGED <<find, at, hand>>
<1>4. CASE Ends
  BY <1>1, <1>4, TypeEnds DEF HandlersTyped, Resting, Errors
<1>5. CASE Uploaded
  <2> USE DEF Goto
  <2>1. Others(p) /\ HandlerTypes' /\ pc'[p] = "write" /\ p \notin Creates /\ p \notin Reads
        /\ p \notin Logins
    BY <1>1, <1>5 DEF Others, Same, Labels
  <2>2. Labelled(p)' /\ Local(p)'
    BY <1>1, <1>3, <1>5, <2>1
       DEF Upload, Labelled, Local, Active, Finding, Caching, KeepsCopy, Resting, Errors
  <2> QED
    BY <1>1, <2>1, <2>2, TypeGoesOn
<1>6. CASE Written
  <2> USE DEF Goto
  <2>1. Edited(p, copy[p]) \in Profile
    BY <1>1, <1>3 DEF Edited, Profile, Emails
  <2>2. Others(p) /\ HandlerTypes' /\ pc'[p] = "del" /\ copy'[p] \in Profile
        /\ p \notin Creates /\ p \notin Reads /\ p \notin Logins
    BY <1>1, <1>6, <2>1 DEF Others, Same, Labels
  <2>3. copy'[p] # None
    BY <2>2
  <2>4. Labelled(p)' /\ Local(p)'
    BY <1>1, <1>6, <2>2, <2>3
       DEF Write, Labelled, Local, Active, Finding, Caching, KeepsCopy, Resting, Errors
  <2> QED
    BY <1>1, <2>2, <2>4, TypeGoesOn
<1>7. Upload(p) => Ends \/ Uploaded
  BY DEF Upload
<1>8. Write(p) => Ends \/ Written
  BY Answers DEF Write
<1>9. Del(p) => Ends
  BY DEF Del, AfterDel
<1> QED
  BY <1>4, <1>5, <1>6, <1>7, <1>8, <1>9 DEF EditStep

LEMMA TypeInsert ==
  ASSUME TypeOK, NEW c \in Creates, Insert(c)
  PROVE  HandlersTyped
<1>1. \E l \in {"conflict", "failed", "done"} : Goto(c, l) /\ UNCHANGED <<find, at, hand, copy>>
  BY Answers DEF Insert
<1> QED
  BY <1>1, TypeEnds DEF HandlersTyped, TypeOK, HandlerTypes, Resting, Errors, Procs

LEMMA TypeLogin ==
  ASSUME TypeOK, NEW l \in Logins, LoginFind(l) \/ LoginCompare(l)
  PROVE  HandlersTyped
<1> USE DEF TypeOK, HandlerTypes
<1>1. l \in Procs
  BY DEF Procs
<1> DEFINE
      Ends == \E m \in {"unauthorized", "failed", "done"} :
                Goto(l, m) /\ UNCHANGED <<find, at, hand, copy>>
      Found == /\ LoginFind(l) /\ Goto(l, "compare")
               /\ \E u \in Users : at' = [at EXCEPT ![l] = u]
               /\ UNCHANGED <<find, hand, copy>>
<1>2. CASE Ends
  BY <1>1, <1>2, TypeEnds DEF HandlersTyped, Resting, Errors
<1>3. CASE Found
  <2> USE DEF Goto
  <2>1. Others(l) /\ HandlerTypes' /\ pc'[l] = "compare" /\ find'[l] = "own"
    BY <1>1, <1>3 DEF Others, Same, Labels, LoginFind, Local
  <2>2. l \notin Creates /\ l \notin Edits /\ l \notin Reads
    OBVIOUS
  <2>3. Labelled(l)' /\ Local(l)'
    BY <2>1, <2>2 DEF Labelled, Local, Active, Finding, Caching, KeepsCopy
  <2> QED
    BY <1>1, <2>1, <2>3, TypeGoesOn
<1>4. LoginCompare(l) => Ends
  BY DEF LoginCompare
<1>5. LoginFind(l) => Ends \/ Found
  BY Answers DEF LoginFind, Holder
<1> QED
  BY <1>2, <1>3, <1>4, <1>5

LEMMA TypeCrash ==
  ASSUME TypeOK, Crash
  PROVE  HandlersTyped
<1> USE DEF TypeOK, HandlerTypes, Crash
<1>1. HandlerTypes' /\ \A p \in Procs : find'[p] = find[p] /\ at'[p] = None
  BY DEF Labels, Resting
<1>2. SUFFICES ASSUME NEW p \in Procs PROVE Labelled(p)' /\ Local(p)'
  BY <1>1 DEF HandlersTyped
<1>3. pc'[p] = IF Active(p) THEN "lost" ELSE pc[p]
  OBVIOUS
<1>4. pc'[p] \in Resting /\ (pc'[p] = "init" => pc[p] = "init")
  BY <1>3 DEF Active, Resting
<1> QED
  BY <1>1, <1>4 DEF Labelled, Local, Active, Finding, Caching, KeepsCopy, Resting, Errors

\* The table keeps e-mails apart.
LEMMA UniqueWritten ==
  ASSUME TypeOK, NEW u \in Users, NEW d \in Profile, Free(d.email, u),
         row' = [row EXCEPT ![u] = d]
  PROVE  row' \in [Users -> Profile \cup {None}] /\ UniqueEmails'
<1>1. row \in [Users -> Profile \cup {None}] /\ UniqueEmails
  BY DEF TypeOK, TableTypes
<1> QED
  BY <1>1 DEF UniqueEmails, Free

\* What an edit makes of its copy, and what of that is stored.
LEMMA StoredTyped ==
  ASSUME TypeOK, NEW p \in Edits, NEW d \in Profile
  PROVE  /\ Edited(p, d) \in Profile
         /\ row[UserOf[p]] # None =>
              Stored(p, d) \in Profile /\ Stored(p, d).email = d.email
<1>1. Edited(p, d) \in Profile
  BY DEF Edited, Profile, Emails
<1>2. ASSUME row[UserOf[p]] # None
      PROVE  Stored(p, d) \in Profile /\ Stored(p, d).email = d.email
  <2>1. row[UserOf[p]] \in Profile
    BY <1>2 DEF TypeOK, TableTypes
  <2> QED
    BY <2>1 DEF Stored, Profile
<1> QED
  BY <1>1, <1>2

LEMMA TablesTyped ==
  ASSUME TypeOK, NEW p \in Procs, Step(p)
  PROVE  TableTypes' /\ UniqueEmails'
<1> USE DEF TypeOK, TableTypes, HandlerTypes
<1>1. Labelled(p) /\ Local(p)
  OBVIOUS
<1>2. CASE /\ \/ GetEmail(p) \/ DbEmail(p) \/ Get(p) \/ Db(p)
              \/ p \in Creates /\ Create(p)
              \/ p \in Edits \cup Reads /\ Open(p)
              \/ p \in Edits /\ Upload(p)
              \/ p \in Logins /\ (LoginFind(p) \/ LoginCompare(p))
  <2>1. UNCHANGED <<row, redis>>
    BY <1>2 DEF GetEmail, DbEmail, Get, Db, Create, Open, Upload, LoginFind, LoginCompare
  <2> QED
    BY <2>1 DEF redis, UniqueEmails
<1>3. CASE SetBase(p) \/ SetBanking(p) \/ SetEmail(p)
  <2>1. at[p] \in Users /\ hand[p] \in Profile
    BY <1>1, <1>3 DEF Local, Finding, Caching, SetBase, SetBanking, SetEmail
  <2> QED
    BY <1>3, <2>1 DEF SetBase, SetBanking, SetEmail, LeadsTo, UniqueEmails
<1>4. CASE p \in Creates /\ Insert(p)
  <2>1. [email |-> Normal[NewEmail[p]], home |-> NewHome[p]] \in Profile /\ p \in Users
    BY <1>4 DEF Profile, Emails, Users
  <2>2. UNCHANGED <<redis>>
    BY <1>4 DEF Insert
  <2>3. CASE row' = row
    BY <2>2, <2>3 DEF redis, UniqueEmails
  <2>4. CASE row' # row
    BY <1>4, <2>1, <2>2, <2>4, UniqueWritten DEF Insert, redis
  <2> QED
    BY <2>3, <2>4
<1>5. CASE p \in Edits /\ Write(p)
  <2>1. copy[p] \in Profile /\ UserOf[p] \in Users
    BY <1>1, <1>5 DEF Write, Local, KeepsCopy, Active, Resting, Errors
  <2>2. UNCHANGED <<redis>>
    BY <1>5 DEF Write
  <2>3. CASE row' = row
    BY <2>2, <2>3 DEF redis, UniqueEmails
  <2>4. CASE row' # row
    <3> DEFINE s == Stored(p, Edited(p, copy[p]))
    <3>1. /\ row[UserOf[p]] # None /\ Free(Edited(p, copy[p]).email, UserOf[p])
          /\ row' = [row EXCEPT ![UserOf[p]] = s]
      BY <1>5, <2>4 DEF Write
    <3>2. s \in Profile /\ s.email = Edited(p, copy[p]).email
      BY <1>5, <2>1, <3>1, StoredTyped
    <3>3. row' \in [Users -> Profile \cup {None}] /\ UniqueEmails'
      <4> HIDE DEF s
      <4> QED
        BY <2>1, <3>1, <3>2, UniqueWritten
    <3> QED
      BY <2>2, <3>3 DEF redis
  <2> QED
    BY <2>3, <2>4
<1>6. CASE p \in Edits /\ Del(p)
  <2>1. copy[p] \in Profile /\ UserOf[p] \in Users
    BY <1>1, <1>6 DEF Del, Local, KeepsCopy, Active, Resting, Errors
  <2>2. row' = row /\ UniqueEmails'
    BY <1>6 DEF Del, UniqueEmails
  <2>3. base' \in [Users -> Profile \cup {None}] /\ banking' \in [Users -> Profile \cup {None}]
    <3>1. /\ base' = base \/ base' = [base EXCEPT ![UserOf[p]] = None]
          /\ banking' = banking \/ banking' = [banking EXCEPT ![UserOf[p]] = None]
      BY <1>6 DEF Del
    <3> QED
      BY <2>1, <3>1
  <2>4. emailKey' \in [Addresses -> Users \cup {None}]
    <3>1. emailKey' = emailKey \/ emailKey' = [emailKey EXCEPT ![copy[p].email] = None]
      BY <1>6 DEF Del
    <3> QED
      BY <3>1
  <2> QED
    BY <2>2, <2>3, <2>4
<1> QED
  BY <1>2, <1>3, <1>4, <1>5, <1>6 DEF Step, FindStep, EditStep

LEMMA TypeStep ==
  ASSUME TypeOK, [Next]_vars
  PROVE  TypeOK'
<1>1. CASE UNCHANGED vars
  BY <1>1 DEF vars, TypeOK, TableTypes, HandlerTypes, Budgets, UniqueEmails, Labelled, Local,
              Active, Finding, Caching, KeepsCopy
<1>2. ASSUME NEW p \in Procs, Step(p)
      PROVE  TypeOK'
  <2>1. HandlersTyped
    BY <1>2, TypeGetEmail, TypeDbEmail, TypeGet, TypeDb, TypeSets, TypeOpens, TypeEditing,
       TypeInsert, TypeLogin DEF Step, FindStep
  <2>2. TableTypes' /\ UniqueEmails'
    BY <1>2, TablesTyped
  <2>3. (Works \/ Fails) /\ crashes' = crashes
    BY <1>2 DEF Step, FindStep, EditStep, GetEmail, DbEmail, Get, Db, SetBase, SetBanking, SetEmail,
                Upload, Write, Del, Create, Insert, Open, LoginFind, LoginCompare, Works
  <2>4. Budgets'
    BY <2>3 DEF TypeOK, Budgets, Works, Fails
  <2>5. exposed' \subseteq Users
    <3>1. \/ exposed' = exposed
          \/ \E u \in Users : Expose(p, u) \/ exposed' = exposed \cup {u}
      BY <1>2, LookedUpAddress
         DEF Step, FindStep, EditStep, GetEmail, DbEmail, Get, Db, SetBase, SetBanking, SetEmail,
             Upload, Write, Del, Create, Insert, Open, LoginFind, LoginCompare,
             TypeOK, TableTypes
    <3> QED
      BY <3>1 DEF Expose, TypeOK
  <2> QED
    BY <2>1, <2>2, <2>4, <2>5 DEF HandlersTyped, TypeOK
<1>3. CASE Crash
  <2>1. HandlersTyped
    BY <1>3, TypeCrash
  <2>2. TableTypes' /\ UniqueEmails' /\ Budgets' /\ exposed' \subseteq Users
    BY <1>3 DEF Crash, redis, TypeOK, TableTypes, UniqueEmails, Budgets
  <2> QED
    BY <2>1, <2>2 DEF HandlersTyped, TypeOK
<1>4. CASE (\E u \in Users : ExpireCopy(u)) \/ (\E a \in Addresses : ExpireEmail(a))
  <2>1. UNCHANGED <<row, pc, find, at, hand, copy, faults, crashes, exposed>> /\ TableTypes'
    BY <1>4 DEF ExpireCopy, ExpireEmail, TypeOK, TableTypes
  <2> QED
    BY <2>1 DEF TypeOK, HandlerTypes, Budgets, UniqueEmails, Labelled, Local,
                Active, Finding, Caching, KeepsCopy
<1> QED
  BY <1>1, <1>2, <1>3, <1>4 DEF Next, Procs, Step

LEMMA TypeInit == Init => TypeOK
<1> SUFFICES ASSUME Init PROVE TypeOK
  OBVIOUS
<1> USE DEF Init
<1>1. TableTypes /\ UniqueEmails
  BY DEF TableTypes, UniqueEmails, Users
<1>2. HandlerTypes /\ Budgets
  BY DEF HandlerTypes, Budgets, Labels, Resting, Finds
<1>3. \A p \in Procs : Labelled(p) /\ Local(p)
  BY DEF Labelled, Local, Active, Finding, Caching, KeepsCopy, Resting
<1> QED
  BY <1>1, <1>2, <1>3 DEF TypeOK

\* No handler ever uses a profile or a user it does not hold, and however edits
\* and new users overlap, fail or die, no two users come to share an e-mail.
THEOREM TypeCorrect == Spec => []TypeOK
BY TypeInit, TypeStep, PTL DEF Spec

-----------------------------------------------------------------------------
\* Profiles and addresses are never mixed up.

LEMMA StepsAlone ==
  ASSUME TypeOK, NEW p \in Procs, Step(p)
  PROVE  Others(p)
<1> USE DEF TypeOK, HandlerTypes, Others, Same, Goto, Loaded, NotFound, AfterCaching
<1>1. CASE GetEmail(p) \/ DbEmail(p) \/ Get(p) \/ Db(p)
  BY <1>1 DEF GetEmail, DbEmail, Get, Db
<1>2. CASE SetBase(p) \/ SetBanking(p) \/ SetEmail(p)
  BY <1>2 DEF SetBase, SetBanking, SetEmail
<1>3. CASE Upload(p) \/ Write(p) \/ Del(p)
  BY <1>3 DEF Upload, Write, Del
<1>4. CASE Create(p) \/ Insert(p) \/ Open(p) \/ LoginFind(p) \/ LoginCompare(p)
  BY <1>4 DEF Create, Insert, Open, LoginFind, LoginCompare
<1> QED
  BY <1>1, <1>2, <1>3, <1>4 DEF Step, FindStep, EditStep

Wrote == {"del", "done", "lost"}

\* Users stay, and so does what was asked of them.
Grown ==
  /\ \A u \in Users : row[u] # None => row'[u] # None
  /\ \A q \in Edits \cup Creates : pc[q] \in Wrote => pc'[q] \in Wrote

LEMMA AskedGrows ==
  ASSUME Grown, NEW u \in Users
  PROVE  /\ AskedEmails(u) \subseteq AskedEmails(u)'
         /\ AskedHomes(u) \subseteq AskedHomes(u)'
         /\ \A d : Made(d, u) => Made(d, u)'
<1>1. Asking(u) \subseteq Asking(u)'
  BY DEF Asking, Grown, Wrote
<1>2. AskedEmails(u) \subseteq AskedEmails(u)'
  BY <1>1 DEF AskedEmails
<1>3. AskedHomes(u) \subseteq AskedHomes(u)'
  BY <1>1 DEF AskedHomes
<1> QED
  BY <1>2, <1>3 DEF Made

LEMMA StepsGrow ==
  ASSUME TypeOK, NEW p \in Procs, Step(p)
  PROVE  Grown
<1> USE DEF TypeOK, HandlerTypes, TableTypes
<1>1. \A q \in Procs \ {p} : pc'[q] = pc[q]
  BY StepsAlone DEF Others, Same
<1>2. ASSUME pc[p] \in Wrote, p \in Edits \cup Creates
      PROVE  pc'[p] \in Wrote
  <2>1. p \in Edits /\ Del(p)
    BY <1>2 DEF Wrote, Step, FindStep, EditStep, GetEmail, DbEmail, Get, Db, SetBase,
                SetBanking, SetEmail, Upload, Write, Create, Insert, Open, Labelled, Resting, Errors
  <2> QED
    BY <2>1 DEF Del, Goto, AfterDel, Wrote
<1>3. ASSUME NEW u \in Users, row[u] # None
      PROVE  row'[u] # None
  <2>1. CASE row' = row
    BY <1>3, <2>1
  <2>2. CASE p \in Creates /\ Insert(p)
    <3>1. [email |-> Normal[NewEmail[p]], home |-> NewHome[p]] \in Profile
      BY <2>2 DEF Profile, Emails
    <3> QED
      BY <1>3, <2>2, <3>1 DEF Insert
  <2>3. CASE p \in Edits /\ Write(p)
    <3>1. copy[p] \in Profile
      BY <2>3 DEF Write, Local, KeepsCopy, Active, Resting, Errors
    <3>2. Edited(p, copy[p]) \in Profile
      BY <2>3, <3>1, StoredTyped
    <3>3. row[UserOf[p]] # None => Stored(p, Edited(p, copy[p])) # None
      BY <2>3, <3>2, StoredTyped
    <3> QED
      BY <1>3, <2>3, <3>3 DEF Write
  <2> QED
    BY <2>1, <2>2, <2>3
       DEF Step, FindStep, EditStep, GetEmail, DbEmail, Get, Db, SetBase, SetBanking, SetEmail,
           Upload, Del, Create, Open, LoginFind, LoginCompare
<1> QED
  BY <1>1, <1>2, <1>3 DEF Grown, Procs

\* What a step leaves true of a handler that does not take it.
LEMMA OthersHold ==
  ASSUME TypeOK, ProfilesInvariant, Grown, NEW q \in Procs, Same(q)
  PROVE  HoldsOwn(q)' /\ (q \in Logins => Rejected(q)')
<1>1. HoldsOwn(q)'
  <2>1. HoldsOwn(q) /\ (q \in Edits => UserOf[q] \in Users)
    BY DEF ProfilesInvariant
  <2>2. Caching(q) => at[q] \in Users
    BY DEF TypeOK, HandlerTypes, Local, Caching, Finding
  <2>3. (Caching(q)' <=> Caching(q)) /\ (KeepsCopy(q)' <=> KeepsCopy(q))
    BY DEF Same, Caching, KeepsCopy, Active
  <2>4. ASSUME NEW u \in Users, NEW d, row[u] # None, Made(d, u)
        PROVE  row'[u] # None /\ Made(d, u)'
    BY <2>4, AskedGrows DEF Grown
  <2>5. Caching(q) => \E u \in Users : \E d :
          /\ at[q] = u /\ hand[q] = d /\ at'[q] = u /\ hand'[q] = d
          /\ row'[u] # None /\ Made(d, u)'
    BY <2>1, <2>2, <2>4 DEF HoldsOwn, Same
  <2>6. KeepsCopy(q) => \E d :
          copy[q] = d /\ copy'[q] = d /\ row'[UserOf[q]] # None /\ Made(d, UserOf[q])'
    BY <2>1, <2>4 DEF HoldsOwn, Same, KeepsCopy
  <2>7. Caching(q)' => row'[at'[q]] # None /\ Made(hand[q], at[q])'
    BY <2>3, <2>5
  <2>8. KeepsCopy(q)' => row'[UserOf[q]] # None /\ Made(copy[q], UserOf[q])'
    BY <2>3, <2>6
  <2> QED
    BY <2>1, <2>3, <2>7, <2>8 DEF HoldsOwn, Same, LookedUp
<1>2. ASSUME NEW l \in Logins, l = q
      PROVE  Rejected(l)'
  <2>1. Rejected(l) /\ UserOf[l] \in Users /\ pc'[l] = pc[l] /\ at'[l] = at[l]
    BY <1>2 DEF ProfilesInvariant, Same
  <2>2. AskedEmails(UserOf[l]) \subseteq AskedEmails(UserOf[l])'
    BY <2>1, AskedGrows
  <2>3. row[UserOf[l]] # None => AskedEmails(UserOf[l]) # {}
    BY <2>1 DEF ProfilesInvariant, ProfilesKeepApart, Made
  <2>4. row[UserOf[l]] # None => row'[UserOf[l]] # None
    BY <2>1 DEF Grown
  <2> QED
    BY <2>1, <2>2, <2>3, <2>4 DEF Rejected
<1> QED
  BY <1>1, <1>2

TablesApart ==
  /\ ProfilesKeepApart /\ EmailKeysTrue
  /\ \A u \in Users : base[u] # None \/ banking[u] # None => row[u] # None
  /\ \A c \in Creates : row[c] # None => pc[c] = "done"

\* A step that only forgets.
LEMMA TablesForget ==
  ASSUME TypeOK, ProfilesInvariant, Grown, row' = row,
         \A u \in Users : base'[u] \in {None, base[u]} /\ banking'[u] \in {None, banking[u]},
         \A a \in Addresses : emailKey'[a] \in {None, emailKey[a]},
         \A c \in Creates : pc[c] = "done" => pc'[c] = "done"
  PROVE  TablesApart'
<1>1. ProfilesKeepApart'
  BY AskedGrows DEF ProfilesInvariant, ProfilesKeepApart
<1>2. EmailKeysTrue'
  BY AskedGrows DEF ProfilesInvariant, EmailKeysTrue
<1> QED
  BY <1>1, <1>2 DEF ProfilesInvariant, TablesApart

\* p goes on with no more in hand than it had.
LEMMA NoMoreHeld ==
  ASSUME TypeOK, ProfilesInvariant, Grown, NEW p \in Procs, ~Caching(p)',
         KeepsCopy(p)' => KeepsCopy(p), copy'[p] = copy[p]
  PROVE  HoldsOwn(p)'
<1>1. HoldsOwn(p)
  BY DEF ProfilesInvariant
<1>2. KeepsCopy(p) => \E d : copy[p] = d /\ row'[UserOf[p]] # None /\ Made(d, UserOf[p])'
  BY <1>1, AskedGrows DEF HoldsOwn, Grown, KeepsCopy
<1>3. KeepsCopy(p)' => row'[UserOf[p]] # None /\ Made(copy[p], UserOf[p])'
  BY <1>2
<1> QED
  BY <1>3 DEF HoldsOwn

LEMMA LoadedHeld ==
  ASSUME TypeOK, ProfilesInvariant, Grown, NEW p \in Procs, NEW d \in Profile, Finding(p),
         find[p] = "own" => row[UserOf[p]] # None /\ Made(d, UserOf[p]),
         Loaded(p, d), UNCHANGED find
  PROVE  HoldsOwn(p)'
<1> USE DEF TypeOK, HandlerTypes, Loaded, Goto
<1>1. Local(p) /\ Active(p) /\ p \notin Logins
  BY DEF Labelled, Finding, Resting, Errors, Active
<1>2. pc'[p] \in {"done", "upload", "getEmail", "write", "conflict", "failed"}
      /\ copy'[p] = Kept(p, d) /\ find'[p] = find[p]
  BY DEF WithOwn, WithHolder
<1>3. ~Caching(p)'
  BY <1>2 DEF Caching
<1>4. CASE find[p] = "own" /\ p \in Edits
  <2>1. row'[UserOf[p]] # None /\ Made(d, UserOf[p])'
    BY <1>4, AskedGrows DEF Grown
  <2>2. copy'[p] = d
    BY <1>2, <1>4 DEF Kept
  <2>3. Made(copy[p], UserOf[p])'
    BY <2>1, <2>2 DEF Made
  <2> QED
    BY <1>3, <2>1, <2>3 DEF HoldsOwn
<1>5. CASE find[p] # "own" \/ p \notin Edits
  <2>1. copy'[p] = copy[p] /\ (p \in Edits => KeepsCopy(p))
    BY <1>1, <1>2, <1>5 DEF Kept, KeepsCopy, Finding
  <2>2. KeepsCopy(p)' => KeepsCopy(p)
    BY <2>1 DEF KeepsCopy
  <2> QED
    BY <1>3, <2>1, <2>2, NoMoreHeld
<1> QED
  BY <1>4, <1>5

\* The steps that read, and those of the table, keep what is held the user's own.
LEMMA FindsHold ==
  ASSUME TypeOK, ProfilesInvariant, Grown, NEW p \in Procs, FindStep(p)
  PROVE  HoldsOwn(p)'
<1> USE DEF TypeOK, HandlerTypes, TableTypes
<1>1. Local(p) /\ Labelled(p) /\ HoldsOwn(p)
  BY DEF ProfilesInvariant
<1>2. CASE GetEmail(p)
  <2>1. Local(p)' /\ pc'[p] \in {"get", "dbEmail"} /\ copy' = copy
        /\ p \in Creates \cup Edits /\ pc[p] = "getEmail"
    BY <1>2, LookedUpAddress, TypeGetEmail DEF GetEmail, Goto, HandlersTyped
  <2>2. ~Caching(p)' /\ (KeepsCopy(p)' => KeepsCopy(p))
    BY <2>1 DEF Caching, KeepsCopy, Active, Resting, Errors
  <2> QED
    BY <2>1, <2>2, NoMoreHeld
<1>3. CASE /\ DbEmail(p) \/ Get(p) \/ Db(p) \/ SetEmail(p)
           /\ pc'[p] \in {"failed", "notFound", "insert", "write", "db"}
           /\ copy' = copy
           /\ pc'[p] = "write" => find[p] # "own"
  <2>1. find' = find
    BY <1>3 DEF DbEmail, Get, Db, SetEmail
  <2>2. p \in Edits => pc[p] \notin Resting \cup {"del"}
    BY <1>3 DEF DbEmail, Get, Db, SetEmail, Resting, Errors
  <2>3. ~Caching(p)' /\ (KeepsCopy(p)' => KeepsCopy(p))
    BY <1>3, <2>1, <2>2 DEF Caching, KeepsCopy, Active, Resting, Errors
  <2> QED
    BY <1>3, <2>3, NoMoreHeld
<1>4. CASE \E u \in Users :
             /\ DbEmail(p) \/ Db(p)
             /\ row[u] # None /\ at'[p] = u /\ hand'[p] = row[u] /\ pc'[p] = "setBase"
             /\ copy' = copy
             /\ find[p] = "holder" => row[u].email = LookedUp(p)
  <2>1. PICK u \in Users :
          /\ row[u] # None /\ at'[p] = u /\ hand'[p] = row[u] /\ pc'[p] = "setBase"
          /\ copy' = copy
          /\ find[p] = "holder" => row[u].email = LookedUp(p)
    BY <1>4
  <2>2. find' = find /\ Active(p) /\ pc[p] # "del"
    BY <1>4 DEF DbEmail, Db, Active, Resting, Errors
  <2>3. row'[u] # None /\ Made(row[u], u) /\ Made(row[u], u)'
    <3>1. Made(row[u], u) /\ row[u] # None
      BY <2>1 DEF ProfilesInvariant, ProfilesKeepApart
    <3>2. ASSUME NEW d, d = row[u] PROVE row'[u] # None /\ Made(d, u)'
      BY <3>1, <3>2, AskedGrows DEF Grown
    <3>3. row' = row
      BY <1>4 DEF DbEmail, Db
    <3> QED
      BY <3>1, <3>2, <3>3
  <2>4. row'[at'[p]] # None /\ Made(hand[p], at[p])'
    BY <1>4, <2>1, <2>3 DEF DbEmail, Db, Made, AskedEmails, AskedHomes, Asking
  <2>5. Caching(p)' /\ find'[p] = "holder" => hand'[p].email = LookedUp(p)
    BY <2>1, <2>2
  <2>6. KeepsCopy(p)' => KeepsCopy(p)
    BY <2>1, <2>2 DEF KeepsCopy
  <2>7. KeepsCopy(p)' => row'[UserOf[p]] # None /\ Made(copy[p], UserOf[p])'
    <3>1. ASSUME NEW d, KeepsCopy(p), d = copy[p]
          PROVE  row'[UserOf[p]] # None /\ Made(d, UserOf[p])'
      BY <1>1, <3>1, AskedGrows DEF HoldsOwn, Grown, KeepsCopy
    <3> QED
      BY <2>1, <2>6, <3>1
  <2> QED
    BY <2>4, <2>5, <2>7 DEF HoldsOwn, LookedUp
<1>5. ASSUME NEW d \in Profile, Finding(p), Loaded(p, d), UNCHANGED find,
             \/ Caching(p) /\ d = hand[p]
             \/ at[p] \in Users /\ d \in {base[at[p]], banking[at[p]]}
      PROVE  HoldsOwn(p)'
  <2>1. ASSUME find[p] = "own" PROVE row[UserOf[p]] # None /\ Made(d, UserOf[p])
    <3>1. at[p] = UserOf[p]
      BY <1>1, <1>5, <2>1 DEF Local
    <3>2. CASE Caching(p) /\ d = hand[p]
      BY <1>1, <3>1, <3>2 DEF HoldsOwn
    <3>3. CASE at[p] \in Users /\ d \in {base[at[p]], banking[at[p]]}
      BY <3>1, <3>3 DEF ProfilesInvariant, ProfilesKeepApart
    <3> QED
      BY <1>5, <3>2, <3>3
  <2> QED
    BY <1>5, <2>1, LoadedHeld
<1>6. CASE SetBase(p) /\ pc'[p] \in {"setBanking", "setEmail"} /\ UNCHANGED <<at, hand, copy>>
  <2>1. Caching(p) /\ at[p] \in Users /\ UNCHANGED <<find, row>> /\ Active(p)
    BY <1>1, <1>6 DEF SetBase, Caching, Finding, Local, Active, Resting, Errors
  <2>2. ASSUME NEW u \in Users, u = at[p], NEW d, d = hand[p]
        PROVE  Made(d, u)'
    BY <1>1, <2>1, <2>2, AskedGrows DEF HoldsOwn
  <2>3. Made(hand[p], at[p])' /\ row'[at'[p]] # None
    BY <1>1, <1>6, <2>1, <2>2 DEF HoldsOwn
  <2>4. ~KeepsCopy(p)' \/ KeepsCopy(p)
    BY <1>6, <2>1 DEF KeepsCopy, Caching
  <2>5. KeepsCopy(p) => row'[UserOf[p]] # None /\ \A d : d = copy[p] => Made(d, UserOf[p])'
    BY <1>1, <2>1, AskedGrows DEF HoldsOwn, KeepsCopy
  <2>6. KeepsCopy(p)' => row'[UserOf[p]] # None /\ Made(copy[p], UserOf[p])'
    BY <1>6, <2>4, <2>5
  <2> QED
    BY <1>1, <1>6, <2>1, <2>3, <2>6 DEF HoldsOwn, LookedUp
<1>7. CASE DbEmail(p)
  <2>1. CASE NotFound(p)
    BY <1>1, <1>3, <1>7, <2>1 DEF DbEmail, NotFound, Goto
  <2>2. CASE ~NotFound(p) /\ pc'[p] = "failed"
    BY <1>3, <1>7, <2>2 DEF DbEmail, Goto
  <2>3. CASE ~NotFound(p) /\ pc'[p] # "failed"
    BY <1>4, <1>7, <2>3 DEF DbEmail, Goto
  <2> QED
    BY <2>1, <2>2, <2>3
<1>8. CASE Db(p)
  <2>1. CASE NotFound(p)
    BY <1>1, <1>3, <1>8, <2>1 DEF Db, NotFound, Goto
  <2>2. CASE ~NotFound(p) /\ pc'[p] = "failed"
    BY <1>3, <1>8, <2>2 DEF Db, Goto
  <2>3. CASE ~NotFound(p) /\ pc'[p] # "failed"
    BY <1>1, <1>4, <1>8, <2>3 DEF Db, Goto, Local, Finding
  <2> QED
    BY <2>1, <2>2, <2>3
<1>9. CASE Get(p)
  <2>1. Finding(p) /\ at[p] \in Users /\ UNCHANGED find
    BY <1>1, <1>9 DEF Get, Finding, Local
  <2>2. CASE Goto(p, "db") /\ UNCHANGED copy
    BY <1>3, <1>9, <2>2 DEF Goto
  <2> QED
    BY <1>5, <1>9, <2>1, <2>2 DEF Get
<1>10. CASE SetBase(p) \/ SetBanking(p) \/ SetEmail(p)
  <2>1. Caching(p) /\ Finding(p) /\ hand[p] \in Profile /\ UNCHANGED find
    BY <1>1, <1>10 DEF SetBase, SetBanking, SetEmail, Finding, Caching, Local
  <2>2. CASE Loaded(p, hand[p])
    BY <1>5, <2>1, <2>2
  <2>3. CASE SetEmail(p) /\ Goto(p, "failed") /\ UNCHANGED copy
    BY <1>3, <2>3 DEF Goto
  <2>4. CASE SetBase(p) /\ ~Loaded(p, hand[p])
    BY <1>6, <2>4 DEF SetBase, AfterCaching, Goto
  <2> QED
    BY <1>10, <2>2, <2>3, <2>4 DEF SetBanking, SetEmail
<1> QED
  BY <1>2, <1>7, <1>8, <1>9, <1>10 DEF FindStep

LEMMA StoredAsked ==
  ASSUME TypeOK, ProfilesInvariant, Grown, NEW p \in Edits, NEW c \in Profile,
         Made(c, UserOf[p]), row[UserOf[p]] # None, p \in Asking(UserOf[p])'
  PROVE  /\ Stored(p, Edited(p, c)).email \in AskedEmails(UserOf[p])'
         /\ Stored(p, Edited(p, c)).home \in AskedHomes(UserOf[p])'
<1> DEFINE u == UserOf[p]
<1>1. u \in Users /\ row[u] \in Profile /\ Made(row[u], u)
  BY DEF TypeOK, TableTypes, ProfilesInvariant, ProfilesKeepApart
<1>2. /\ c.email \in AskedEmails(u)' /\ c.home \in AskedHomes(u)'
      /\ \A d : d = row[u] => d.home \in AskedHomes(u)'
  BY <1>1, AskedGrows DEF Made
<1>3. /\ NewEmail[p] # None => Normal[NewEmail[p]] \in AskedEmails(u)'
      /\ ~Dropped(p) => NewHome[p] \in AskedHomes(u)'
  BY DEF AskedEmails, AskedHomes, Dropped
<1>4. Edited(p, c) \in Profile /\ Stored(p, Edited(p, c)).email = Edited(p, c).email
  BY StoredTyped
<1>5. Edited(p, c).email \in AskedEmails(u)'
  BY <1>2, <1>3 DEF Edited
<1>6. CASE p \in WithBanking /\ Edited(p, c).home = Null
  <2>1. Stored(p, Edited(p, c)).home = row[u].home
    BY <1>4, <1>6 DEF Stored, Profile
  <2> QED
    BY <1>2, <1>4, <1>5, <2>1
<1>7. CASE ~(p \in WithBanking /\ Edited(p, c).home = Null)
  <2>1. Stored(p, Edited(p, c)) = Edited(p, c)
    BY <1>7 DEF Stored
  <2>2. Edited(p, c).home = IF NewHome[p] = None THEN c.home ELSE NewHome[p]
    BY DEF Edited
  <2>3. NewHome[p] # None => ~Dropped(p)
    BY <1>7, <2>2 DEF Dropped
  <2> QED
    BY <1>2, <1>3, <1>5, <2>1, <2>2, <2>3
<1> QED
  BY <1>6, <1>7

LEMMA StepsHold ==
  ASSUME TypeOK, ProfilesInvariant, Grown, NEW p \in Procs, Step(p)
  PROVE  HoldsOwn(p)'
<1> USE DEF TypeOK, HandlerTypes, TableTypes
<1>1. Local(p) /\ Labelled(p) /\ HoldsOwn(p)
  BY DEF ProfilesInvariant
<1>2. CASE FindStep(p)
  BY <1>2, FindsHold
<1>3. CASE p \in Edits /\ Write(p) /\ pc'[p] = "del"
  BY <1>3 DEF HoldsOwn, Caching, KeepsCopy
<1>4. CASE ~FindStep(p) /\ ~(p \in Edits /\ Write(p) /\ pc'[p] = "del")
  <2>1. \/ p \in Edits /\ pc'[p] \in {"get", "write", "conflict", "notFound", "failed", "done"}
           /\ (pc'[p] = "get" => find'[p] = "own") /\ (pc'[p] = "write" => pc[p] = "upload" /\ find' = find)
           /\ copy'[p] = copy[p]
        \/ p \notin Edits /\ copy'[p] = copy[p] /\ ~Caching(p)'
    BY <1>1, <1>4, Answers
       DEF Step, EditStep, Upload, Write, Del, AfterDel, Create, Insert, Open, LoginFind,
           LoginCompare, Goto, Caching, Local
  <2>2. ~Caching(p)' /\ (KeepsCopy(p)' => KeepsCopy(p))
    BY <2>1 DEF Caching, KeepsCopy, Active, Resting, Errors
  <2> QED
    BY <2>1, <2>2, NoMoreHeld
<1> QED
  BY <1>2, <1>3, <1>4

\* A login that is turned away has looked for another address.
LEMMA LoginsRejected ==
  ASSUME TypeOK, ProfilesInvariant, Grown, NEW l \in Logins, Step(l)
  PROVE  Rejected(l)'
<1> USE DEF TypeOK, HandlerTypes, TableTypes
<1> DEFINE u == UserOf[l]
<1>1. l \in Procs /\ u \in Users /\ Labelled(l) /\ Rejected(l) /\ UniqueEmails
  BY DEF Procs, ProfilesInvariant
<1>2. LoginFind(l) \/ LoginCompare(l)
  BY <1>1 DEF Step, FindStep, GetEmail, DbEmail, Get, Db, SetBase, SetBanking, SetEmail,
              Labelled, Resting, Errors
<1>3. row[u] # None /\ row' = row
  BY <1>1, <1>2 DEF LoginFind, LoginCompare, Rejected
<1>4. row[u].email \in AskedEmails(u) /\ AskedEmails(u) \subseteq AskedEmails(u)'
  BY <1>1, <1>3, AskedGrows DEF ProfilesInvariant, ProfilesKeepApart, Made
<1>5. CASE LoginFind(l)
  <2>1. ASSUME pc'[l] = "unauthorized" \/ (pc'[l] = "compare" /\ at'[l] # u)
        PROVE  row[u].email # NewEmail[l]
    BY <1>1, <1>3, <1>5, <2>1, Answers DEF LoginFind, Holder, Goto, UniqueEmails
  <2> QED
    BY <1>1, <1>3, <1>4, <2>1 DEF Rejected
<1>6. CASE LoginCompare(l)
  <2>1. pc'[l] = "unauthorized" => pc[l] = "compare" /\ at[l] # u
    BY <1>1, <1>6 DEF LoginCompare, Goto
  <2>2. pc'[l] # "compare"
    BY <1>1, <1>6 DEF LoginCompare, Goto
  <2> QED
    BY <1>1, <1>3, <1>4, <2>1, <2>2 DEF Rejected
<1> QED
  BY <1>2, <1>5, <1>6

LEMMA TablesWritten ==
  ASSUME TypeOK, ProfilesInvariant, Grown, NEW p \in Procs, Step(p), HoldsOwn(p)'
  PROVE  TablesApart'
<1> USE DEF TypeOK, HandlerTypes, TableTypes
<1>1. Local(p) /\ Labelled(p) /\ HoldsOwn(p)
  BY DEF ProfilesInvariant
<1>2. \A c \in Creates : pc[c] = "done" => pc'[c] = "done"
  <2>1. p \in Creates => pc[p] # "done"
    BY DEF Step, FindStep, GetEmail, DbEmail, Get, Db, SetBase, SetBanking, SetEmail, Create, Insert
  <2> QED
    BY <2>1, StepsAlone DEF Others, Same, Procs
<1>3. CASE \/ GetEmail(p) \/ DbEmail(p) \/ Get(p) \/ Db(p)
           \/ p \in Edits \cup Reads /\ Open(p)
           \/ p \in Edits /\ (Upload(p) \/ Del(p))
           \/ p \in Creates /\ Create(p)
           \/ p \in Logins /\ (LoginFind(p) \/ LoginCompare(p))
  <2>1. CASE UNCHANGED <<row, redis>>
    BY <1>2, <2>1, TablesForget DEF redis
  <2>2. CASE p \in Edits /\ Del(p)
    <3>1. row' = row
      BY <2>2 DEF Del
    <3>2. \A u \in Users : base'[u] \in {None, base[u]} /\ banking'[u] \in {None, banking[u]}
      BY <2>2 DEF Del
    <3>3. \A a \in Addresses : emailKey'[a] \in {None, emailKey[a]}
      BY <2>2 DEF Del
    <3> QED
      BY <1>2, <3>1, <3>2, <3>3, TablesForget
  <2> QED
    BY <1>3, <2>1, <2>2
       DEF GetEmail, DbEmail, Get, Db, Create, Open, Upload, LoginFind, LoginCompare
<1>4. \A u \in Users : \A d \in {row[u], base[u], banking[u]} \ {None} : Made(d, u)'
  BY AskedGrows DEF ProfilesInvariant, ProfilesKeepApart
<1>5. \A a \in Addresses : \A u \in Users :
        emailKey[a] = u => row'[u] # None /\ a \in AskedEmails(u)'
  BY AskedGrows DEF ProfilesInvariant, EmailKeysTrue, Grown
<1>6. CASE SetBase(p) \/ SetBanking(p)
  <2>1. Caching(p) /\ row' = row /\ emailKey' = emailKey /\ at[p] \in Users
    BY <1>1, <1>6 DEF SetBase, SetBanking, Caching, Finding, Local
  <2>2. row[at[p]] # None /\ \A u \in Users : \A d : at[p] = u /\ d = hand[p] => Made(d, u)'
    BY <1>1, <2>1, AskedGrows DEF HoldsOwn
  <2>3. \A u \in Users : /\ base'[u] = base[u] \/ (at[p] = u /\ base'[u] = hand[p])
                         /\ banking'[u] = banking[u] \/ (at[p] = u /\ banking'[u] = hand[p])
    <3>1. \/ base' = base
          \/ base' = [base EXCEPT ![at[p]] = hand[p]]
      BY <1>6 DEF SetBase, SetBanking
    <3>2. \/ banking' = banking
          \/ banking' = [banking EXCEPT ![at[p]] = hand[p]]
      BY <1>6 DEF SetBase, SetBanking
    <3> QED
      BY <3>1, <3>2
  <2>4. ProfilesKeepApart'
    BY <1>4, <2>1, <2>2, <2>3 DEF ProfilesKeepApart
  <2>5. EmailKeysTrue'
    BY <1>5, <2>1 DEF EmailKeysTrue
  <2>6. \A u \in Users : base'[u] # None \/ banking'[u] # None => row'[u] # None
    BY <2>1, <2>2, <2>3 DEF ProfilesInvariant
  <2> QED
    BY <1>2, <2>1, <2>4, <2>5, <2>6 DEF TablesApart, ProfilesInvariant
<1>7. CASE SetEmail(p)
  <2>1. Caching(p) /\ UNCHANGED <<row, base, banking>> /\ at[p] \in Users /\ find[p] = "holder"
    BY <1>1, <1>7 DEF SetEmail, Caching, Finding, Local
  <2>2. row[at[p]] # None /\ \A u \in Users : at[p] = u => LookedUp(p) \in AskedEmails(u)'
    BY <1>1, <2>1, AskedGrows DEF HoldsOwn, Made
  <2>3. ProfilesKeepApart'
    BY <1>4, <2>1 DEF ProfilesKeepApart
  <2>4. \A a \in Addresses : emailKey'[a] = emailKey[a] \/ (a = LookedUp(p) /\ emailKey'[a] = at[p])
    BY <1>7 DEF SetEmail, LeadsTo
  <2>5. EmailKeysTrue'
    BY <1>5, <2>1, <2>2, <2>4 DEF EmailKeysTrue
  <2> QED
    BY <1>2, <2>1, <2>3, <2>5 DEF TablesApart, ProfilesInvariant
<1>8. CASE p \in Creates /\ Insert(p)
  <2> DEFINE d == [email |-> Normal[NewEmail[p]], home |-> NewHome[p]]
  <2>1. UNCHANGED <<base, banking, emailKey>>
    BY <1>8 DEF Insert, redis
  <2>2. CASE row' = row
    BY <1>2, <2>1, <2>2, TablesForget
  <2>3. CASE row' # row
    <3>1. row' = [row EXCEPT ![p] = d] /\ pc'[p] = "done" /\ p \in Users
      BY <1>8, <2>3 DEF Insert, Goto, Users
    <3>2. p \in Asking(p)'
      BY <1>8, <3>1 DEF Asking
    <3>3. d.email \in AskedEmails(p)' /\ d.home \in AskedHomes(p)'
      BY <1>8, <3>2 DEF AskedEmails, AskedHomes, Dropped
    <3>4. \A u \in Users : row'[u] = row[u] \/ (u = p /\ row'[u] = d)
      BY <3>1
    <3>5. ProfilesKeepApart'
      BY <1>4, <2>1, <3>3, <3>4 DEF ProfilesKeepApart, Made
    <3>6. EmailKeysTrue'
      BY <1>5, <2>1 DEF EmailKeysTrue
    <3>7. \A c \in Creates : row'[c] # None => pc'[c] = "done"
      BY <1>2, <3>1, <3>4 DEF ProfilesInvariant, Users
    <3>8. \A u \in Users : base'[u] # None \/ banking'[u] # None => row'[u] # None
      BY <2>1 DEF ProfilesInvariant, Grown
    <3> QED
      BY <3>5, <3>6, <3>7, <3>8 DEF TablesApart
  <2> QED
    BY <2>2, <2>3
<1>9. CASE p \in Edits /\ Write(p)
  <2> DEFINE v == UserOf[p]
  <2>1. UNCHANGED <<base, banking, emailKey>>
    BY <1>9 DEF Write, redis
  <2>2. CASE row' = row
    BY <1>2, <2>1, <2>2, TablesForget
  <2>3. CASE row' # row
    <3> DEFINE d == Stored(p, Edited(p, copy[p]))
    <3>1. row' = [row EXCEPT ![v] = d] /\ pc'[p] = "del" /\ row[v] # None
      BY <1>9, <2>3 DEF Write, Goto
    <3>2. v \in Users /\ KeepsCopy(p) /\ copy[p] \in Profile /\ p \in Asking(v)'
      BY <1>1, <1>9, <3>1 DEF Write, Local, KeepsCopy, Active, Resting, Errors, Asking
    <3>3. d.email \in AskedEmails(v)' /\ d.home \in AskedHomes(v)'
      BY <1>1, <1>9, <3>1, <3>2, StoredAsked DEF HoldsOwn
    <3> HIDE DEF d
    <3>4. \A u \in Users : row'[u] = row[u] \/ (u = v /\ row'[u] = d)
      BY <3>1
    <3>5. ProfilesKeepApart'
      BY <1>4, <2>1, <3>3, <3>4 DEF ProfilesKeepApart, Made
    <3>6. EmailKeysTrue'
      BY <1>5, <2>1 DEF EmailKeysTrue
    <3>7. \A c \in Creates : row'[c] # None => pc'[c] = "done"
      BY <1>2, <3>1, <3>4 DEF ProfilesInvariant, Users
    <3>8. \A u \in Users : base'[u] # None \/ banking'[u] # None => row'[u] # None
      BY <2>1 DEF ProfilesInvariant, Grown
    <3> QED
      BY <3>5, <3>6, <3>7, <3>8 DEF TablesApart
  <2> QED
    BY <2>2, <2>3
<1> QED
  BY <1>3, <1>6, <1>7, <1>8, <1>9 DEF Step, FindStep, EditStep

LEMMA ProfilesStep ==
  ASSUME TypeOK, ProfilesInvariant, [Next]_vars
  PROVE  ProfilesInvariant'
<1>1. CASE UNCHANGED vars
  <2>1. Grown /\ \A q \in Procs : Same(q)
    BY <1>1 DEF vars, Grown, Same
  <2>2. TablesApart'
    BY <1>1, <2>1, TablesForget DEF vars
  <2> QED
    BY <2>1, <2>2, OthersHold DEF ProfilesInvariant, TablesApart, Procs
<1>2. ASSUME NEW p \in Procs, Step(p)
      PROVE  ProfilesInvariant'
  <2>1. Others(p) /\ Grown
    BY <1>2, StepsAlone, StepsGrow
  <2>2. \A q \in Procs : HoldsOwn(q)'
    BY <1>2, <2>1, OthersHold, StepsHold DEF Others
  <2>3. \A l \in Logins : Rejected(l)'
    BY <1>2, <2>1, OthersHold, LoginsRejected DEF Others, Procs
  <2>4. TablesApart'
    BY <1>2, <2>1, <2>2, TablesWritten
  <2> QED
    BY <2>2, <2>3, <2>4 DEF ProfilesInvariant, TablesApart
<1>3. CASE Crash
  <2>1. \A q \in Procs : pc'[q] \in Resting /\ (~Active(q) => pc'[q] = pc[q])
                         /\ (Active(q) => pc'[q] = "lost")
    BY <1>3 DEF Crash, Active, Resting
  <2>2. Grown /\ \A c \in Creates : pc[c] = "done" => pc'[c] = "done"
    BY <1>3, <2>1 DEF Crash, Grown, Wrote, Active, Resting, Procs
  <2>3. TablesApart'
    BY <1>3, <2>2, TablesForget DEF Crash, redis
  <2>4. \A q \in Procs : HoldsOwn(q)'
    BY <2>1 DEF HoldsOwn, Caching, KeepsCopy, Active, Resting, Errors
  <2>5. ASSUME NEW l \in Logins PROVE Rejected(l)'
    <3>1. Rejected(l) /\ UserOf[l] \in Users /\ l \in Procs /\ row' = row
      BY <1>3 DEF ProfilesInvariant, Procs, Crash
    <3>2. AskedEmails(UserOf[l]) \subseteq AskedEmails(UserOf[l])'
      BY <2>2, <3>1, AskedGrows
    <3>3. row[UserOf[l]] # None => AskedEmails(UserOf[l]) # {}
      BY <3>1 DEF ProfilesInvariant, ProfilesKeepApart, Made
    <3> QED
      BY <2>1, <3>1, <3>2, <3>3 DEF Rejected, Active, Resting, Errors
  <2> QED
    BY <2>3, <2>4, <2>5 DEF ProfilesInvariant, TablesApart
<1>4. CASE (\E u \in Users : ExpireCopy(u)) \/ (\E a \in Addresses : ExpireEmail(a))
  <2>1. UNCHANGED <<row, pc, find, at, hand, copy>>
    BY <1>4 DEF ExpireCopy, ExpireEmail
  <2>2. Grown
    BY <2>1 DEF Grown
  <2>3. \A u \in Users : base'[u] \in {None, base[u]} /\ banking'[u] \in {None, banking[u]}
    BY <1>4 DEF ExpireCopy, ExpireEmail, TypeOK, TableTypes
  <2>4. \A a \in Addresses : emailKey'[a] \in {None, emailKey[a]}
    BY <1>4 DEF ExpireCopy, ExpireEmail, TypeOK, TableTypes
  <2>5. TablesApart'
    BY <2>1, <2>2, <2>3, <2>4, TablesForget
  <2> QED
    BY <2>1, <2>2, <2>5, OthersHold DEF ProfilesInvariant, TablesApart, Procs, Same
<1> QED
  BY <1>1, <1>2, <1>3, <1>4 DEF Next, Procs, Step

LEMMA ProfilesInit == Init => ProfilesInvariant
<1> SUFFICES ASSUME Init PROVE ProfilesInvariant
  OBVIOUS
<1> USE DEF Init
<1>1. ProfilesKeepApart
  BY DEF ProfilesKeepApart, Made, AskedEmails, AskedHomes, Users
<1>2. EmailKeysTrue
  BY DEF EmailKeysTrue
<1>3. \A p \in Procs : HoldsOwn(p)
  BY DEF HoldsOwn, Caching, KeepsCopy, Active, Resting
<1>4. \A l \in Logins : Rejected(l)
  BY DEF Rejected, Procs
<1>5. \A c \in Creates : row[c] = None
  BY DEF Users
<1> QED
  BY <1>1, <1>2, <1>3, <1>4, <1>5 DEF ProfilesInvariant

LEMMA ProfilesCorrect == Spec => [](TypeOK /\ ProfilesInvariant)
BY TypeInit, TypeStep, ProfilesInit, ProfilesStep, PTL DEF Spec

\* Whatever copies handlers hold, cache and write back, a stored or cached
\* profile is made of its own user's data, and nothing of a request answered
\* with an error is left in it.
THEOREM ProfilesApart == Spec => []ProfilesKeepApart
BY ProfilesCorrect, PTL DEF ProfilesInvariant

\* A cached address leads to a stored user who has, or had, that address.
THEOREM CachedAddressesTrue == Spec => []EmailKeysTrue
BY ProfilesCorrect, PTL DEF ProfilesInvariant

\* Nobody who registered under one address only is turned away from it.
THEOREM LoginsTrue == Spec => []OnlyAddressLogsIn
<1>1. ProfilesInvariant => OnlyAddressLogsIn
  BY DEF ProfilesInvariant, Rejected, OnlyAddressLogsIn
<1> QED
  BY <1>1, ProfilesCorrect, PTL

-----------------------------------------------------------------------------
\* Users whose handlers do not overlap.

LEMMA ExposedGrows ==
  ASSUME NEW p \in Procs, Step(p)
  PROVE  exposed \subseteq exposed'
BY DEF Step, FindStep, EditStep, GetEmail, DbEmail, Get, Db, SetBase, SetBanking, SetEmail,
       Upload, Write, Del, Create, Insert, Open, LoginFind, LoginCompare, Expose

\* A handler starts work on a user only by meeting the others at work on it.
LEMMA TouchedStep ==
  ASSUME TypeOK, NEW p \in Procs, Step(p), NEW u \in Users \ exposed', u \in Touched(p)'
  PROVE  u \in Touched(p) \/ ~Meets(p, u)
<1> USE DEF TypeOK, HandlerTypes
<1>1. Local(p) /\ Labelled(p) /\ pc'[p] \notin Resting /\ p \notin Logins
  BY DEF Touched, Active
<1>2. u = at'[p] \/ (p \notin Creates /\ u = UserOf[p])
  BY DEF Touched
<1>3. CASE p \in Edits \cup Reads /\ Open(p)
  <2>1. u = UserOf[p]
    BY <1>2, <1>3 DEF Open
  <2> QED
    BY <1>3, <2>1 DEF Open, Expose
<1>4. CASE p \in Creates /\ Create(p)
  BY <1>1, <1>2, <1>4 DEF Create, Local
<1>5. CASE FindStep(p) \/ (p \in Edits /\ EditStep(p)) \/ (p \in Creates /\ Insert(p))
  <2>1. Active(p)
    BY <1>5 DEF Active, Resting, Errors, FindStep, EditStep, GetEmail, DbEmail, Get, Db, SetBase,
                SetBanking, SetEmail, Upload, Write, Del, Insert
  <2>2. CASE u # at'[p] \/ at'[p] = at[p]
    BY <1>1, <1>2, <2>1, <2>2 DEF Touched
  <2>3. CASE u = at'[p] /\ at'[p] # at[p]
    <3>1. GetEmail(p) \/ DbEmail(p)
      BY <1>5, <2>3 DEF FindStep, EditStep, Get, Db, SetBase, SetBanking, SetEmail, Upload, Write,
                        Del, Insert, Loaded, NotFound, AfterCaching
    <3>2. exposed' = exposed \/ Expose(p, u)
      BY <2>3, <3>1 DEF GetEmail, DbEmail
    <3>3. Expose(p, u)
      BY <2>3, <3>1 DEF GetEmail, DbEmail, NotFound
    <3> QED
      BY <3>3 DEF Expose
  <2> QED
    BY <2>2, <2>3
<1> QED
  BY <1>1, <1>3, <1>4, <1>5 DEF Step

LEMMA AloneStep ==
  ASSUME TypeOK, NEW u \in Users \ exposed', Settled(u), NEW p \in Procs, Step(p)
  PROVE  \A q, r \in Procs : q # r /\ u \in Touched(q)' /\ u \in Touched(r)' => ~EditOf(q, u)
<1>1. \A q \in Procs \ {p} : u \in Touched(q)' => u \in Touched(q)
  BY StepsAlone DEF Others, Same, Touched, Active
<1>2. u \in Touched(p)' => u \in Touched(p) \/ ~Meets(p, u)
  BY TouchedStep
<1>3. ASSUME ~Meets(p, u), NEW q \in Procs \ {p}, u \in Touched(q)
      PROVE  ~EditOf(q, u) /\ ~EditOf(p, u)
  BY <1>3 DEF Meets, EditOf
<1> QED
  BY <1>1, <1>2, <1>3 DEF Settled

\* What becomes of the row of u.
LEMMA RowStep ==
  ASSUME TypeOK, ProfilesInvariant, NEW u \in Users, NEW p \in Procs, Step(p)
  PROVE  \/ row'[u] = row[u]
         \/ row[u] = None
         \/ EditOf(p, u) /\ Active(p) /\ pc'[p] = "del"
<1> USE DEF TypeOK, HandlerTypes, TableTypes
<1>1. CASE row' = row
  BY <1>1
<1>2. CASE p \in Creates /\ Insert(p)
  BY <1>2 DEF Insert, ProfilesInvariant
<1>3. CASE p \in Edits /\ Write(p) /\ row' # row
  BY <1>3 DEF Write, Goto, EditOf, Active, Resting, Errors
<1> QED
  BY <1>1, <1>2, <1>3
     DEF Step, FindStep, EditStep, GetEmail, DbEmail, Get, Db, SetBase, SetBanking, SetEmail,
         Upload, Del, Create, Open, LoginFind, LoginCompare

\* What another handler holds of u is not written meanwhile.
LEMMA OthersSettled ==
  ASSUME TypeOK, ProfilesInvariant, NEW u \in Users \ exposed', Settled(u), NEW p \in Procs, Step(p),
         NEW q \in Procs \ {p}
  PROVE  /\ Caching(q)' /\ at'[q] = u => hand'[q] = row'[u]
         /\ KeepsCopy(q)' /\ UserOf[q] = u => copy'[q] = row'[u]
<1> USE DEF TypeOK, HandlerTypes
<1>1. Same(q) /\ Labelled(q) /\ Local(q) /\ HoldsOwn(q)
  BY StepsAlone DEF Others, ProfilesInvariant
<1>2. (Caching(q)' <=> Caching(q)) /\ (KeepsCopy(q)' <=> KeepsCopy(q))
  BY <1>1 DEF Same, Caching, KeepsCopy, Active
<1>3. ASSUME (Caching(q) /\ at[q] = u) \/ (KeepsCopy(q) /\ UserOf[q] = u)
      PROVE  row'[u] = row[u]
  <2>1. u \in Touched(q) /\ row[u] # None
    BY <1>1, <1>3 DEF Touched, Caching, KeepsCopy, Active, Labelled, HoldsOwn, Resting, Errors
  <2>2. EditOf(p, u) /\ Active(p) => u \in Touched(p)
    BY DEF EditOf, Touched
  <2> QED
    BY <2>1, <2>2, RowStep DEF Settled
<1> QED
  BY <1>1, <1>2, <1>3 DEF Same, Settled

\* An edit that is at work on u is the only one: no other has a copy of it to
\* delete, and what is cached of it is right.
LEMMA AloneIsRight ==
  ASSUME TypeOK, NEW u \in Users, Settled(u), NEW p \in Procs, EditOf(p, u), Active(p), pc[p] # "del"
  PROVE  base[u] \in {None, row[u]} /\ banking[u] \in {None, row[u]}
<1>1. u \in Touched(p)
  BY DEF Touched, EditOf
<1>2. ASSUME NEW q \in Edits, UserOf[q] = u, pc[q] = "del"
      PROVE  FALSE
  <2>1. u \in Touched(q) /\ q # p
    BY <1>2 DEF Touched, Active, Resting, Errors
  <2> QED
    BY <1>1, <2>1 DEF Settled, Procs
<1> QED
  BY <1>2 DEF Settled

LEMMA LoadedSettled ==
  ASSUME TypeOK, NEW u \in Users, Settled(u), NEW p \in Procs, NEW d \in Profile, Finding(p),
         Loaded(p, d), UNCHANGED <<find, row>>,
         find[p] = "own" /\ EditOf(p, u) => d = row[u]
  PROVE  ~Caching(p)' /\ (KeepsCopy(p)' /\ UserOf[p] = u => copy'[p] = row'[u])
<1> USE DEF TypeOK, HandlerTypes
<1>1. Active(p) /\ Local(p)
  BY DEF Finding, Active, Resting, Errors
<1>2. copy'[p] = Kept(p, d) /\ pc'[p] \in {"done", "upload", "getEmail", "write", "conflict", "failed"}
  BY DEF Loaded, Goto, WithOwn, WithHolder
<1>3. CASE find[p] = "own" /\ p \in Edits
  BY <1>2, <1>3 DEF Kept, EditOf, Caching
<1>4. CASE find[p] # "own" \/ p \notin Edits
  BY <1>1, <1>2, <1>4 DEF Kept, KeepsCopy, Settled, Caching, Finding
<1> QED
  BY <1>3, <1>4

LEMMA FindSettled ==
  ASSUME TypeOK, NEW u \in Users, Settled(u), NEW p \in Procs, FindStep(p)
  PROVE  /\ Caching(p)' /\ at'[p] = u => hand'[p] = row'[u]
         /\ KeepsCopy(p)' /\ UserOf[p] = u => copy'[p] = row'[u]
<1> USE DEF TypeOK, HandlerTypes, TableTypes
<1>1. Local(p) /\ Labelled(p) /\ Active(p) /\ row' = row
  BY DEF FindStep, GetEmail, DbEmail, Get, Db, SetBase, SetBanking, SetEmail, Active, Resting, Errors
<1>2. ASSUME copy'[p] = copy[p], KeepsCopy(p)' => KeepsCopy(p),
             Caching(p)' => \/ at'[p] = at[p] /\ hand'[p] = hand[p] /\ Caching(p)
                            \/ hand'[p] = row[at'[p]]
      PROVE  /\ Caching(p)' /\ at'[p] = u => hand'[p] = row'[u]
             /\ KeepsCopy(p)' /\ UserOf[p] = u => copy'[p] = row'[u]
  BY <1>1, <1>2 DEF Settled
<1>3. CASE GetEmail(p)
  <2>1. copy' = copy /\ pc'[p] \in {"get", "dbEmail"}
    BY <1>3 DEF GetEmail, Goto
  <2> QED
    BY <1>1, <1>2, <1>3, <2>1 DEF GetEmail, Caching, KeepsCopy
<1>4. CASE DbEmail(p)
  <2>1. copy' = copy /\ find' = find /\ pc'[p] \in {"setBase", "notFound", "insert", "write", "failed"}
        /\ (pc'[p] = "setBase" => hand'[p] = row[at'[p]])
    BY <1>4 DEF DbEmail, Goto, NotFound
  <2> QED
    BY <1>1, <1>2, <1>4, <2>1 DEF DbEmail, Caching, KeepsCopy
<1>5. CASE Db(p)
  <2>1. copy' = copy /\ find' = find /\ pc'[p] \in {"setBase", "notFound", "insert", "write", "failed"}
        /\ (pc'[p] = "setBase" => hand'[p] = row[at'[p]])
        /\ (pc'[p] \in {"insert", "write"} => find[p] # "own")
    BY <1>5 DEF Db, Goto, NotFound
  <2> QED
    BY <1>1, <1>2, <1>5, <2>1 DEF Db, Caching, KeepsCopy, Active, Resting, Errors
<1>6. CASE Get(p)
  <2>1. Finding(p) /\ find' = find
    BY <1>6 DEF Get, Finding
  <2>2. CASE Goto(p, "db") /\ UNCHANGED copy
    BY <1>1, <1>2, <1>6, <2>1, <2>2 DEF Goto, Finding, Caching, KeepsCopy
  <2>3. ASSUME NEW d \in Profile, d \in {base[at[p]], banking[at[p]]}, Loaded(p, d)
        PROVE  /\ Caching(p)' /\ at'[p] = u => hand'[p] = row'[u]
               /\ KeepsCopy(p)' /\ UserOf[p] = u => copy'[p] = row'[u]
    <3>1. find[p] = "own" /\ EditOf(p, u) => d = row[u]
      BY <1>1, <1>6, <2>1, <2>3, AloneIsRight DEF Get, Local, EditOf
    <3> QED
      BY <1>1, <2>1, <2>3, <3>1, LoadedSettled
  <2>4. at[p] \in Users
    BY <1>1, <2>1 DEF Local
  <2> QED
    BY <1>6, <2>2, <2>3, <2>4 DEF Get
<1>7. CASE SetBase(p) \/ SetBanking(p) \/ SetEmail(p)
  <2>1. Finding(p) /\ Caching(p) /\ hand[p] \in Profile /\ find' = find
    BY <1>1, <1>7 DEF SetBase, SetBanking, SetEmail, Finding, Caching, Local
  <2>2. CASE Loaded(p, hand[p])
    <3>1. find[p] = "own" /\ EditOf(p, u) => hand[p] = row[u]
      BY <1>1, <2>1 DEF Local, EditOf, Settled
    <3> QED
      BY <1>1, <2>1, <2>2, <3>1, LoadedSettled
  <2>3. CASE ~Loaded(p, hand[p])
    <3>1. UNCHANGED <<at, hand, copy>> /\ pc'[p] \in {"setBanking", "setEmail", "failed"}
      BY <1>7, <2>3 DEF SetBase, SetBanking, SetEmail, AfterCaching, Goto
    <3> QED
      BY <1>1, <1>2, <2>1, <3>1 DEF Caching, KeepsCopy, Active, Resting, Errors
  <2> QED
    BY <2>2, <2>3
<1> QED
  BY <1>3, <1>4, <1>5, <1>6, <1>7 DEF FindStep

LEMMA OwnSettled ==
  ASSUME TypeOK, ProfilesInvariant, NEW u \in Users, Settled(u), NEW p \in Procs, Step(p)
  PROVE  /\ Caching(p)' /\ at'[p] = u => hand'[p] = row'[u]
         /\ KeepsCopy(p)' /\ UserOf[p] = u => copy'[p] = row'[u]
<1> USE DEF TypeOK, HandlerTypes
<1>1. Local(p) /\ Labelled(p)
  OBVIOUS
<1>2. CASE FindStep(p)
  BY <1>2, FindSettled
<1>3. CASE p \in Edits /\ Write(p)
  <2>1. CASE pc'[p] = "del"
    BY <2>1 DEF Caching, KeepsCopy
  <2>2. CASE pc'[p] # "del"
    BY <1>3, <2>2, Answers DEF Write, Goto, Caching, KeepsCopy, Active, Resting, Errors
  <2> QED
    BY <2>1, <2>2
<1>4. CASE p \in Edits /\ (Upload(p) \/ Del(p) \/ Open(p))
  <2>1. row' = row /\ copy' = copy /\ ~Caching(p)' /\ (KeepsCopy(p)' => KeepsCopy(p))
    BY <1>1, <1>4 DEF Upload, Del, Open, Goto, AfterDel, Caching, KeepsCopy, Active, Resting, Errors, Local
  <2> QED
    BY <2>1 DEF Settled
<1>5. CASE p \notin Edits /\ ~FindStep(p)
  <2>1. ~Caching(p)' /\ ~KeepsCopy(p)'
    BY <1>5, Answers DEF Step, Create, Insert, Open, LoginFind, LoginCompare, Goto, Caching, KeepsCopy
  <2> QED
    BY <2>1
<1> QED
  BY <1>2, <1>3, <1>4, <1>5 DEF Step, EditStep

CachedRight(u) ==
  \/ base[u] \in {None, row[u]} /\ banking[u] \in {None, row[u]}
  \/ \E p \in Edits : UserOf[p] = u /\ pc[p] = "del"

\* Redis stays right, up to the copies an edit has still to delete.
LEMMA CachedStep ==
  ASSUME TypeOK, ProfilesInvariant, NEW u \in Users \ exposed', Settled(u), NEW p \in Procs, Step(p)
  PROVE  CachedRight(u)'
<1> USE DEF TypeOK, HandlerTypes, TableTypes
<1>1. Local(p) /\ Labelled(p) /\ HoldsOwn(p) /\ Others(p)
  BY StepsAlone DEF ProfilesInvariant
<1>2. CASE p \in Edits /\ Del(p) /\ UserOf[p] = u
  <2>1. base'[u] = None /\ banking'[u] = None
    BY <1>2 DEF Del, Invalidated
  <2> QED
    BY <2>1 DEF CachedRight
<1>3. CASE p \in Edits /\ Write(p) /\ row' # row /\ UserOf[p] = u
  <2>1. pc'[p] = "del"
    BY <1>3 DEF Write, Goto
  <2> QED
    BY <1>3, <2>1 DEF CachedRight
<1>4. CASE p \in Creates /\ Insert(p) /\ p = u
  <2>1. row[u] = None /\ base[u] = None /\ banking[u] = None
    BY <1>4 DEF Insert, ProfilesInvariant
  <2> QED
    BY <1>4, <2>1 DEF Insert, redis, CachedRight
<1>5. CASE \/ SetBase(p) \/ SetBanking(p)
           \/ /\ ~(p \in Edits /\ Del(p) /\ UserOf[p] = u)
              /\ ~(p \in Edits /\ Write(p) /\ row' # row /\ UserOf[p] = u)
              /\ ~(p \in Creates /\ Insert(p) /\ p = u)
  <2>1. row'[u] = row[u]
    BY <1>5 DEF Step, FindStep, EditStep, GetEmail, DbEmail, Get, Db, SetBase, SetBanking,
                SetEmail, Upload, Write, Del, Create, Insert, Open, LoginFind, LoginCompare
  <2>2. /\ base'[u] \in {None, base[u], row[u]}
        /\ banking'[u] \in {None, banking[u], row[u]}
    <3>1. CASE SetBase(p) \/ SetBanking(p)
      <4>1. Caching(p)
        BY <3>1 DEF SetBase, SetBanking, Caching
      <4>2. at[p] = u => hand[p] = row[u]
        BY <4>1 DEF Settled
      <4> QED
        BY <3>1, <4>2 DEF SetBase, SetBanking
    <3>2. CASE p \in Edits /\ Del(p)
      BY <3>2 DEF Del
    <3>3. CASE UNCHANGED <<base, banking>>
      BY <3>3
    <3> QED
      BY <3>1, <3>2, <3>3
         DEF Step, FindStep, EditStep, GetEmail, DbEmail, Get, Db, SetEmail, Upload, Write,
             Create, Insert, Open, LoginFind, LoginCompare, redis
  <2>3. \A q \in Edits : UserOf[q] = u /\ pc[q] = "del" => pc'[q] = "del"
    <3>1. p \in Edits /\ UserOf[p] = u => pc[p] # "del"
      BY <1>1, <1>5
         DEF Step, FindStep, EditStep, GetEmail, DbEmail, Get, Db, SetBase, SetBanking,
             SetEmail, Upload, Write, Del, Create, Insert, Open, LoginFind, LoginCompare
    <3> QED
      BY <1>1, <3>1 DEF Others, Same, Procs
  <2> QED
    BY <2>1, <2>2, <2>3 DEF Settled, CachedRight
<1> QED
  BY <1>2, <1>3, <1>4, <1>5

LEMMA SettledStep ==
  ASSUME TypeOK, ProfilesInvariant, SettledInvariant, [Next]_vars
  PROVE  SettledInvariant'
<1>1. CASE UNCHANGED vars
  <2>1. ASSUME NEW u \in Users \ exposed' PROVE Settled(u)'
    <3>1. Settled(u)
      BY <1>1 DEF vars, SettledInvariant
    <3> QED
      BY <1>1, <3>1 DEF vars, Settled, Touched, Active, EditOf, Caching, KeepsCopy
  <2> QED
    BY <2>1 DEF SettledInvariant
<1>2. ASSUME NEW p \in Procs, Step(p)
      PROVE  SettledInvariant'
  <2>1. ASSUME NEW u \in Users \ exposed' PROVE Settled(u)'
    <3>1. Settled(u)
      BY <1>2, <2>1, ExposedGrows DEF SettledInvariant
    <3>2. \A q, r \in Procs : q # r /\ u \in Touched(q)' /\ u \in Touched(r)' => ~EditOf(q, u)
      BY <1>2, <3>1, AloneStep
    <3>3. CachedRight(u)'
      BY <1>2, <3>1, CachedStep
    <3>4. \A q \in Procs : /\ Caching(q)' /\ at'[q] = u => hand'[q] = row'[u]
                           /\ KeepsCopy(q)' /\ UserOf[q] = u => copy'[q] = row'[u]
      BY <1>2, <3>1, OthersSettled, OwnSettled
    <3> QED
      BY <3>2, <3>3, <3>4 DEF Settled, CachedRight, EditOf
  <2> QED
    BY <2>1 DEF SettledInvariant
<1>3. CASE Crash
  <2>1. \A q \in Procs : pc'[q] \in Resting /\ pc'[q] # "del"
    BY <1>3 DEF Crash, Active, Resting, Errors
  <2>2. ASSUME NEW u \in Users \ exposed' PROVE Settled(u)'
    <3>1. Settled(u) /\ \A p \in Edits : UserOf[p] = u => pc[p] # "del"
      BY <1>3 DEF Crash, SettledInvariant
    <3>2. base'[u] \in {None, row'[u]} /\ banking'[u] \in {None, row'[u]}
      BY <1>3, <3>1 DEF Crash, redis, Settled
    <3>3. \A q \in Procs : Touched(q)' = {} /\ ~Caching(q)' /\ ~KeepsCopy(q)'
      BY <2>1 DEF Touched, Active, Caching, KeepsCopy, Resting, Errors
    <3> QED
      BY <3>2, <3>3 DEF Settled
  <2> QED
    BY <2>2 DEF SettledInvariant
<1>4. CASE (\E u \in Users : ExpireCopy(u)) \/ (\E a \in Addresses : ExpireEmail(a))
  <2>1. UNCHANGED <<row, pc, find, at, hand, copy, exposed>>
    BY <1>4 DEF ExpireCopy, ExpireEmail
  <2>2. \A u \in Users : base'[u] \in {None, base[u]} /\ banking'[u] \in {None, banking[u]}
    BY <1>4 DEF ExpireCopy, ExpireEmail, TypeOK, TableTypes
  <2>3. ASSUME NEW u \in Users \ exposed' PROVE Settled(u)'
    <3>1. Settled(u)
      BY <2>1 DEF SettledInvariant
    <3> QED
      BY <2>1, <2>2, <3>1 DEF Settled, Touched, Active, EditOf, Caching, KeepsCopy
  <2> QED
    BY <2>3 DEF SettledInvariant
<1> QED
  BY <1>1, <1>2, <1>3, <1>4 DEF Next, Procs, Step

LEMMA SettledInit == Init => SettledInvariant
<1> SUFFICES ASSUME Init, NEW u \in Users PROVE Settled(u)
  BY DEF SettledInvariant
<1>1. \A q \in Procs : ~Active(q) /\ ~Caching(q) /\ ~KeepsCopy(q)
  BY DEF Init, Active, Caching, KeepsCopy, Resting
<1> QED
  BY <1>1 DEF Init, Settled, Touched

LEMMA SettledCorrect == Spec => [](TypeOK /\ ProfilesInvariant /\ SettledInvariant)
BY TypeInit, TypeStep, ProfilesInit, ProfilesStep, SettledInit, SettledStep, PTL DEF Spec

\* What Redis has of a user whose handlers never overlapped is what the table
\* has, whenever no edit is at work on it.
THEOREM SettledCachedRight == Spec => []SettledProfileIsCachedRight
<1>1. TypeOK /\ SettledInvariant => SettledProfileIsCachedRight
  BY DEF SettledInvariant, Settled, SettledProfileIsCachedRight, Active, Resting, Errors
<1> QED
  BY <1>1, SettledCorrect, PTL

\* What UnexposedEditIsExact says of one step.
ExactStep ==
  \A p \in Edits :
    pc[p] = "write" /\ pc'[p] = "del" /\ UserOf[p] \notin exposed =>
      LET d == row[UserOf[p]] IN
      row'[UserOf[p]] = [Edited(p, d) EXCEPT !.home = IF Dropped(p) THEN d.home ELSE @]

\* Written from what is stored, an edit drops a null of its own or none.
LEMMA StoredExact ==
  ASSUME NEW p \in Edits, row[UserOf[p]] \in Profile
  PROVE  LET d == row[UserOf[p]] IN
         Stored(p, Edited(p, d)) = [Edited(p, d) EXCEPT !.home = IF Dropped(p) THEN d.home ELSE @]
<1> DEFINE d == row[UserOf[p]]
           s == Stored(p, Edited(p, d))
           x == [Edited(p, d) EXCEPT !.home = IF Dropped(p) THEN d.home ELSE @]
<1>1. d \in Profile /\ Edited(p, d) \in Profile
  BY DEF Edited, Profile, Emails
<1>2. Edited(p, d).home = IF NewHome[p] = None THEN d.home ELSE NewHome[p]
  BY DEF Edited
<1>3. s \in Profile /\ x \in [email : Emails, home : {s.home}] /\ s.email = x.email
  BY <1>1, <1>2 DEF Stored, Profile, Dropped
<1>4. s = x
  BY <1>3 DEF Profile
<1> QED
  BY <1>4

LEMMA ExactHere ==
  ASSUME TypeOK, SettledInvariant, [Next]_vars
  PROVE  ExactStep
<1> USE DEF TypeOK, HandlerTypes, TableTypes
<1> SUFFICES ASSUME NEW p \in Edits, pc[p] = "write", pc'[p] = "del", UserOf[p] \notin exposed
             PROVE  LET d == row[UserOf[p]] IN
                    row'[UserOf[p]] = [Edited(p, d) EXCEPT !.home = IF Dropped(p) THEN d.home ELSE @]
  BY DEF ExactStep
<1>1. p \in Procs /\ UserOf[p] \in Users
  BY DEF Procs
<1>2. KeepsCopy(p)
  BY <1>1 DEF KeepsCopy, Active, Resting, Errors
<1>3. copy[p] = row[UserOf[p]]
  BY <1>1, <1>2 DEF SettledInvariant, Settled
<1>4. PICK q \in Procs : Step(q)
  BY <1>1 DEF Next, Step, Procs, vars, Crash, ExpireCopy, ExpireEmail, Active, Resting, Errors
<1>5. q = p
  BY <1>1, <1>4, StepsAlone DEF Others, Same
<1>6. Write(p)
  BY <1>1, <1>4, <1>5
     DEF Step, FindStep, EditStep, GetEmail, DbEmail, Get, Db, SetBase, SetBanking, SetEmail,
         Upload, Del, Create, Insert, Open, LoginFind, LoginCompare
<1>7. /\ row[UserOf[p]] # None
      /\ row' = [row EXCEPT ![UserOf[p]] = Stored(p, Edited(p, copy[p]))]
  BY <1>1, <1>6, Answers DEF Write, Goto
<1>8. row'[UserOf[p]] = Stored(p, Edited(p, row[UserOf[p]])) /\ row[UserOf[p]] \in Profile
  BY <1>1, <1>3, <1>7
<1> QED
  BY <1>8, StoredExact

\* An edit of such a user changes what it was asked to change and nothing else.
THEOREM EditsAreExact == Spec => UnexposedEditIsExact
<1>1. TypeOK /\ SettledInvariant /\ [Next]_vars => [ExactStep]_vars
  BY ExactHere
<1>2. UnexposedEditIsExact <=> [][ExactStep]_vars
  BY DEF UnexposedEditIsExact, ExactStep
<1> QED
  BY <1>1, <1>2, SettledCorrect, PTL DEF Spec
-----------------------------------------------------------------------------
\* The refinement of UserDirectory.

Requests == Creates \cup Edits \cup Logins
Progresses == [q \in Creates \cup Edits \cup Logins |-> Progress(q)]

\* A step of p moves no other request, and moves p to where its label says.
LEMMA ProgressMoves ==
  ASSUME TypeOK, NEW p \in Requests, Step(p)
  PROVE  Directory!Goes(p, Progress(p)')
<1>1. \A q \in Requests \ {p} : Progress(q)' = Progress(q)
  BY StepsAlone DEF Others, Same, Progress, Requests, Procs
<1>2. Progresses' = [Progresses EXCEPT ![p] = Progress(p)']
  BY <1>1 DEF Progresses, Requests
<1> QED
  BY <1>2 DEF Directory!Goes, Progresses

LEMMA ProgressStays ==
  ASSUME TypeOK, NEW p \in Procs, Step(p), p \in Requests => Progress(p)' = Progress(p)
  PROVE  Progresses' = Progresses
<1>1. \A q \in Requests : Progress(q)' = Progress(q)
  BY StepsAlone DEF Others, Same, Progress, Requests, Procs
<1> QED
  BY <1>1 DEF Progresses, Requests

\* A find leaves its request open, or ends it with an error; a read is none of
\* the directory's requests.
LEMMA DirectoryFind ==
  ASSUME TypeOK, NEW p \in Procs, FindStep(p)
  PROVE  UNCHANGED row /\ (Progresses' = Progresses \/ (p \in Requests /\ Directory!Refuse(p)))
<1> USE DEF TypeOK, HandlerTypes
<1>1. row' = row /\ Step(p) /\ p \notin Logins /\ Labelled(p) /\ Local(p)
  BY DEF Step, FindStep, GetEmail, DbEmail, Get, Db, SetBase, SetBanking, SetEmail, Labelled,
         Resting, Errors
<1>2. CASE p \notin Requests
  BY <1>1, <1>2, ProgressStays
<1>3. CASE p \in Requests
  <2>1. Progress(p) = "open"
    BY <1>3 DEF Progress, Errors, FindStep, GetEmail, DbEmail, Get, Db, SetBase, SetBanking, SetEmail
  <2>2. p \notin Reads
    BY <1>1, <1>3 DEF Requests
  <2>3. pc'[p] \in {"get", "dbEmail", "setBase", "notFound", "insert", "write", "failed", "db",
                    "setBanking", "setEmail", "upload", "getEmail", "conflict"}
    BY <2>2 DEF FindStep, GetEmail, DbEmail, Get, Db, SetBase, SetBanking, SetEmail, AfterCaching,
                NotFound, Loaded, WithOwn, WithHolder, Goto
  <2>4. Progress(p)' \in {"open", "refused"}
    BY <2>3 DEF Progress, Errors
  <2>5. CASE Progress(p)' = "open"
    BY <1>1, <2>1, <2>5, ProgressStays
  <2>6. CASE Progress(p)' = "refused"
    <3>1. Directory!Goes(p, "refused")
      BY <1>1, <1>3, <2>6, ProgressMoves
    <3> QED
      BY <1>1, <1>3, <2>1, <3>1 DEF Directory!Refuse, Requests
  <2> QED
    BY <2>4, <2>5, <2>6
<1> QED
  BY <1>1, <1>2, <1>3

\* The insert of POST /users.
LEMMA DirectoryInsert ==
  ASSUME TypeOK, NEW c \in Creates, Insert(c)
  PROVE  Directory!Register(c) \/ Directory!Refuse(c)
<1> USE DEF TypeOK, HandlerTypes
<1>1. c \in Requests /\ c \in Procs /\ Step(c) /\ Progress(c) = "open"
  BY DEF Requests, Procs, Step, Insert, Progress, Errors
<1>2. CASE pc'[c] = "done"
  <2>1. Directory!Goes(c, "done")
    <3>1. Progress(c)' = "done"
      BY <1>2 DEF Progress, Errors
    <3> QED
      BY <1>1, <3>1, ProgressMoves
  <2>2. /\ Free(Normal[NewEmail[c]], c)
        /\ row' = [row EXCEPT ![c] = [email |-> Normal[NewEmail[c]], home |-> NewHome[c]]]
    BY <1>1, <1>2, Answers DEF Insert, Goto
  <2> QED
    BY <1>1, <2>1, <2>2 DEF Directory!Register, Directory!Free, Directory!Users, Free, Users, Requests
<1>3. CASE pc'[c] # "done"
  <2>1. pc'[c] \in {"conflict", "failed"} /\ row' = row
    BY <1>1, <1>3, Answers DEF Insert, Goto
  <2>2. Directory!Goes(c, "refused")
    <3>1. Progress(c)' = "refused"
      BY <2>1 DEF Progress, Errors
    <3> QED
      BY <1>1, <3>1, ProgressMoves
  <2> QED
    BY <1>1, <2>1, <2>2 DEF Directory!Refuse, Requests
<1> QED
  BY <1>2, <1>3

\* What a handler holds of an exposed user is made of what that user ever was.
LEMMA MadeIsPast ==
  ASSUME TypeOK, NEW u \in Users, NEW d \in Profile, Made(d, u)
  PROVE  d \in Directory!Past(u)
<1>1. ASSUME NEW q \in Asking(u)
      PROVE  q \in Directory!Applied(u) \/ (q = u /\ u \in Creates)
  <2>1. CASE q \in Edits /\ UserOf[q] = u
    <3>1. Progress(q) \in {"applied", "done", "lost"}
      BY <1>1, <2>1 DEF Asking, Progress, Errors
    <3> QED
      BY <2>1, <3>1 DEF Directory!Applied
  <2> QED
    BY <1>1, <2>1 DEF Asking
<1>2. d.email \in Directory!PastEmails(u)
  <2>1. CASE \E q \in Asking(u) : NewEmail[q] # None /\ d.email = Normal[NewEmail[q]]
    BY <1>1, <2>1 DEF Directory!PastEmails
  <2>2. CASE u \in Existing /\ d.email = Profile0[u].email
    BY <2>2 DEF Directory!PastEmails
  <2> QED
    BY <2>1, <2>2 DEF Made, AskedEmails
<1>3. d.home \in Directory!PastHomes(u)
  <2>1. d.home # None
    BY DEF Profile
  <2>2. CASE \E q \in Asking(u) : ~Dropped(q) /\ d.home = NewHome[q]
    <3>1. PICK q \in Asking(u) : ~Dropped(q) /\ d.home = NewHome[q]
      BY <2>2
    <3>2. CASE q \in Directory!Applied(u)
      <4>1. Directory!HomeOf(q) = d.home
        BY <3>1 DEF Directory!HomeOf, Dropped
      <4> QED
        BY <2>1, <3>2, <4>1 DEF Directory!PastHomes
    <3>3. CASE q = u /\ u \in Creates
      BY <3>1, <3>3 DEF Directory!PastHomes
    <3> QED
      BY <1>1, <3>2, <3>3
  <2>3. CASE u \in Existing /\ d.home = Profile0[u].home
    BY <2>3 DEF Directory!PastHomes
  <2> QED
    BY <2>2, <2>3 DEF Made, AskedHomes
<1> QED
  BY <1>2, <1>3 DEF Directory!Past, Profile

\* The write of an edit: of the profile the table has, or of one it had.
LEMMA DirectoryWrite ==
  ASSUME TypeOK, ProfilesInvariant, SettledInvariant, NEW p \in Edits, Write(p)
  PROVE  Directory!Apply(p) \/ Directory!Refuse(p)
<1> USE DEF TypeOK, HandlerTypes, TableTypes
<1> DEFINE u == UserOf[p]
<1>1. p \in Requests /\ p \in Procs /\ u \in Users /\ Step(p) /\ Progress(p) = "open"
  BY DEF Requests, Procs, Step, EditStep, Write, Progress, Errors
<1>2. KeepsCopy(p) /\ copy[p] \in Profile
  <2>1. KeepsCopy(p)
    BY <1>1 DEF Write, KeepsCopy, Active, Resting, Errors
  <2> QED
    BY <1>1, <2>1 DEF Local
<1>3. row[u] # None /\ Made(copy[p], u)
  BY <1>1, <1>2 DEF ProfilesInvariant, HoldsOwn
<1> DEFINE c == copy[p]
           e == Edited(p, c)
           d == IF p \in WithBanking /\ e.home = Null
                THEN [email |-> c.email, home |-> row[u].home] ELSE c
<1>4. row[u] \in Profile /\ Made(row[u], u) /\ d \in Profile /\ Made(d, u) /\ e \in Profile
  <2>1. row[u] \in Profile /\ Made(row[u], u) /\ e \in Profile
    BY <1>1, <1>2, <1>3, StoredTyped DEF ProfilesInvariant, ProfilesKeepApart
  <2>2. d \in Profile /\ Made(d, u)
    BY <1>2, <1>3, <2>1 DEF Made, Profile
  <2> QED
    BY <2>1, <2>2
<1>5. d \in IF u \in exposed THEN Directory!Past(u) ELSE {row[u]}
  <2>1. CASE u \in exposed
    BY <1>1, <1>4, <2>1, MadeIsPast
  <2>2. CASE u \notin exposed
    <3>1. c = row[u]
      BY <1>1, <1>2, <2>2 DEF SettledInvariant, Settled
    <3>2. d = row[u]
      BY <1>4, <3>1 DEF Profile
    <3> QED
      BY <2>2, <3>2
  <2> QED
    BY <2>1, <2>2
<1>6. Stored(p, e) = Directory!Edited(p, d) /\ Directory!Edited(p, d).email = e.email
  <2>1. e = [email |-> IF NewEmail[p] = None THEN c.email ELSE Normal[NewEmail[p]],
             home |-> IF NewHome[p] = None THEN c.home ELSE NewHome[p]]
    BY DEF Edited
  <2>2. Directory!Edited(p, d) =
          [email |-> e.email,
           home |-> IF NewHome[p] = None \/ Dropped(p) THEN d.home ELSE NewHome[p]]
    BY <2>1 DEF Directory!Edited, Directory!HomeOf, Dropped
  <2>3. CASE p \in WithBanking /\ e.home = Null
    <3>1. Stored(p, e) = [email |-> e.email, home |-> row[u].home]
      BY <2>1, <2>3 DEF Stored
    <3>2. NewHome[p] = None \/ Dropped(p)
      BY <2>1, <2>3 DEF Dropped
    <3> QED
      BY <2>2, <2>3, <3>1, <3>2
  <2>4. CASE ~(p \in WithBanking /\ e.home = Null)
    <3>1. Stored(p, e) = e /\ d = c
      BY <2>4 DEF Stored
    <3>2. NewHome[p] # None => ~Dropped(p)
      BY <2>1, <2>4 DEF Dropped
    <3>3. Dropped(p) => NewHome[p] # None
      BY DEF Dropped
    <3> QED
      BY <2>1, <2>2, <3>1, <3>2, <3>3
  <2> QED
    BY <2>2, <2>3, <2>4
<1>7. CASE pc'[p] = "del"
  <2>1. Directory!Goes(p, "applied")
    <3>1. Progress(p)' = "applied"
      BY <1>7 DEF Progress, Errors
    <3> QED
      BY <1>1, <3>1, ProgressMoves
  <2>2. Free(e.email, u) /\ row' = [row EXCEPT ![u] = Stored(p, e)]
    BY <1>1, <1>7, Answers DEF Write, Goto
  <2> HIDE DEF d, e
  <2>3. Directory!Free(Directory!Edited(p, d).email, u)
    BY <1>6, <2>2 DEF Free, Directory!Free, Directory!Users, Users
  <2>4. row' = [row EXCEPT ![u] = Directory!Edited(p, d)]
    BY <1>6, <2>2
  <2> QED
    BY <1>1, <1>3, <1>5, <2>1, <2>3, <2>4 DEF Directory!Apply, Requests
<1>8. CASE pc'[p] # "del"
  <2>1. pc'[p] \in {"conflict", "notFound", "failed"} /\ row' = row
    BY <1>1, <1>8, Answers DEF Write, Goto
  <2>2. Directory!Goes(p, "refused")
    <3>1. Progress(p)' = "refused"
      BY <2>1 DEF Progress, Errors
    <3> QED
      BY <1>1, <3>1, ProgressMoves
  <2> QED
    BY <1>1, <2>1, <2>2 DEF Directory!Refuse, Requests
<1> QED
  BY <1>7, <1>8

\* Opening a request, and uploading a picture.
LEMMA DirectoryOpens ==
  ASSUME TypeOK, NEW p \in Procs,
         \/ p \in Creates /\ Create(p)
         \/ p \in Edits \cup Reads /\ Open(p)
         \/ p \in Edits /\ Upload(p)
  PROVE  UNCHANGED row /\ (Progresses' = Progresses \/ (p \in Requests /\ Directory!Refuse(p)))
<1> USE DEF TypeOK, HandlerTypes
<1>1. row' = row /\ Step(p) /\ Progress(p) = "open"
  BY DEF Step, EditStep, Create, Open, Upload, Progress, Errors
<1>2. pc'[p] \in {"getEmail", "get", "write", "failed"}
  BY DEF Create, Open, Upload, Goto
<1>3. CASE pc'[p] # "failed"
  <2>1. Progress(p)' = "open"
    BY <1>2, <1>3 DEF Progress, Errors
  <2> QED
    BY <1>1, <2>1, ProgressStays
<1>4. CASE pc'[p] = "failed"
  <2>1. p \in Requests
    BY <1>4 DEF Requests, Create, Open, Goto
  <2>2. Directory!Goes(p, "refused")
    <3>1. Progress(p)' = "refused"
      BY <1>4 DEF Progress, Errors
    <3> QED
      BY <1>1, <2>1, <3>1, ProgressMoves
  <2> QED
    BY <1>1, <2>1, <2>2 DEF Directory!Refuse, Requests
<1> QED
  BY <1>3, <1>4

LEMMA DirectoryDel ==
  ASSUME TypeOK, NEW p \in Edits, Del(p)
  PROVE  Directory!Answer(p)
<1>1. p \in Requests /\ p \in Procs /\ Step(p) /\ Progress(p) = "applied" /\ row' = row
  BY DEF Requests, Procs, Step, EditStep, Del, Progress, Errors
<1>2. pc'[p] = "done"
  BY <1>1 DEF TypeOK, HandlerTypes, Del, Goto, AfterDel
<1>3. Directory!Goes(p, "done")
  <2>1. Progress(p)' = "done"
    BY <1>2 DEF Progress, Errors
  <2> QED
    BY <1>1, <2>1, ProgressMoves
<1> QED
  BY <1>1, <1>3 DEF Directory!Answer, Requests

\* A login finds the user of its address, the only one, or nobody.
LEMMA DirectoryLogin ==
  ASSUME TypeOK, NEW l \in Logins, LoginFind(l) \/ LoginCompare(l)
  PROVE  Directory!Decide(l) \/ Directory!Answer(l) \/ Directory!Refuse(l)
<1> USE DEF TypeOK, HandlerTypes
<1>1. l \in Requests /\ l \in Procs /\ Step(l) /\ row' = row /\ UserOf[l] \in Users
  BY DEF Requests, Procs, Step, LoginFind, LoginCompare
<1>2. Directory!Goes(l, Progress(l)')
  BY <1>1, ProgressMoves
<1>3. CASE LoginFind(l)
  <2>1. Progress(l) = "open"
    BY <1>3 DEF LoginFind, Progress, Errors
  <2>2. CASE pc'[l] = "compare"
    <3>1. PICK u \in Holder(l) : at'[l] = u
      BY <1>1, <1>3, <2>2, Answers DEF LoginFind, Goto
    <3>2. u = UserOf[l] <=> UserOf[l] \in Holder(l)
      BY <1>1, <3>1 DEF Holder, UniqueEmails
    <3>3. Directory!Has(l) <=> UserOf[l] \in Holder(l)
      BY <1>1 DEF Directory!Has, Holder
    <3>4. Progress(l)' = IF Directory!Has(l) THEN "admitted" ELSE "rejected"
      BY <2>2, <3>1, <3>2, <3>3 DEF Progress, Errors
    <3> QED
      BY <1>1, <1>2, <2>1, <3>4 DEF Directory!Decide, Requests
  <2>3. CASE pc'[l] = "unauthorized"
    <3>1. ~Directory!Has(l)
      BY <1>1, <1>3, <2>3, Answers DEF LoginFind, Goto, Holder, Directory!Has
    <3>2. Progress(l)' = "unauthorized"
      BY <2>3 DEF Progress
    <3> QED
      BY <1>1, <1>2, <2>1, <3>1, <3>2 DEF Directory!Decide, Requests
  <2>4. CASE pc'[l] = "failed"
    <3>1. Progress(l)' = "refused"
      BY <2>4 DEF Progress, Errors
    <3> QED
      BY <1>1, <1>2, <2>1, <3>1 DEF Directory!Refuse, Requests
  <2> QED
    BY <1>1, <1>3, <2>2, <2>3, <2>4, Answers DEF LoginFind, Goto
<1>4. CASE LoginCompare(l)
  <2>1. Progress(l) = IF at[l] = UserOf[l] THEN "admitted" ELSE "rejected"
    BY <1>4 DEF LoginCompare, Progress, Errors
  <2>2. Progress(l)' = IF at[l] = UserOf[l] THEN "done" ELSE "unauthorized"
    <3>1. pc'[l] = IF at[l] = UserOf[l] THEN "done" ELSE "unauthorized"
      BY <1>1, <1>4 DEF LoginCompare, Goto
    <3> QED
      BY <3>1 DEF Progress, Errors
  <2> QED
    BY <1>1, <1>2, <2>1, <2>2 DEF Directory!Answer, Requests
<1> QED
  BY <1>3, <1>4

LEMMA DirectoryCrash ==
  ASSUME TypeOK, Crash
  PROVE  Directory!Lose
<1>1. row' = row /\ Progresses' = [q \in Requests |-> Progresses'[q]]
  BY DEF Crash, Progresses, Requests
<1>2. ASSUME NEW q \in Requests
      PROVE  Progresses'[q] # Progresses[q] =>
               /\ Progresses'[q] = "lost"
               /\ Progresses[q] \in {"open", "applied", "admitted", "rejected"}
  <2>1. Progresses[q] = Progress(q) /\ Progresses'[q] = Progress(q)' /\ q \in Procs
    BY <1>2 DEF Progresses, Requests, Procs
  <2>2. CASE Active(q)
    <3>1. Progress(q)' = "lost"
      <4>1. pc'[q] = "lost"
        BY <2>1, <2>2 DEF Crash
      <4> QED
        BY <4>1 DEF Progress, Errors
    <3>2. Progress(q) \in {"open", "applied", "admitted", "rejected"}
      BY <2>2 DEF Active, Resting, Errors, Progress
    <3> QED
      BY <2>1, <3>1, <3>2
  <2>3. CASE ~Active(q)
    <3>1. pc'[q] = pc[q] /\ pc[q] # "compare"
      BY <2>1, <2>3 DEF Crash, Active, Resting, Errors
    <3>2. Progress(q)' = Progress(q)
      BY <3>1 DEF Progress
    <3> QED
      BY <2>1, <3>2
  <2> QED
    BY <2>2, <2>3
<1> QED
  BY <1>1, <1>2 DEF Directory!Lose, Directory!Requests, Progresses, Requests

LEMMA DirectoryStep ==
  ASSUME TypeOK, TypeOK', ProfilesInvariant, SettledInvariant, [Next]_vars
  PROVE  [Directory!Next]_(Directory!vars)
<1>1. CASE UNCHANGED vars
  <2>1. Progresses' = Progresses
    BY <1>1 DEF vars, Progresses, Progress
  <2> QED
    BY <1>1, <2>1 DEF vars, Directory!vars, Progresses
<1>2. exposed' \subseteq Users
  BY DEF TypeOK
<1>3. ASSUME NEW p \in Procs, Step(p)
      PROVE  Directory!Next
  <2>1. exposed \subseteq exposed'
    BY <1>3, ExposedGrows
  <2>2. \/ UNCHANGED <<row, Progresses>>
        \/ p \in Creates /\ Directory!Register(p)
        \/ p \in Edits /\ Directory!Apply(p)
        \/ p \in Logins /\ Directory!Decide(p)
        \/ p \in Requests /\ (Directory!Answer(p) \/ Directory!Refuse(p))
    BY <1>3, DirectoryFind, DirectoryInsert, DirectoryWrite, DirectoryOpens, DirectoryDel,
       DirectoryLogin DEF Step, EditStep, Requests
  <2> QED
    BY <1>2, <2>1, <2>2 DEF Directory!Next, Directory!Users, Users, Directory!Requests, Requests,
                            Progresses
<1>4. CASE Crash
  BY <1>2, <1>4, DirectoryCrash DEF Crash, Directory!Next, Directory!Users, Users
<1>5. CASE (\E u \in Users : ExpireCopy(u)) \/ (\E a \in Addresses : ExpireEmail(a))
  <2>1. UNCHANGED <<row, pc, at, exposed>>
    BY <1>5 DEF ExpireCopy, ExpireEmail
  <2>2. Progresses' = Progresses
    BY <2>1 DEF Progresses, Progress
  <2> QED
    BY <2>1, <2>2 DEF Directory!vars, Progresses
<1> QED
  BY <1>1, <1>3, <1>4, <1>5 DEF Next, Procs, Step

LEMMA DirectoryInit == Init => Directory!Init
<1> SUFFICES ASSUME Init PROVE Directory!Init
  OBVIOUS
<1>1. \A q \in Requests : Progress(q) = "open"
  BY DEF Init, Requests, Procs, Progress, Errors
<1> QED
  BY <1>1 DEF Init, Directory!Init, Directory!Users, Users, Directory!Requests, Requests

\* Behind its caches, and with its handlers overlapping, failing and dying, the
\* clients service is a directory that each request changes once, or not at all.
THEOREM ImplementsTheDirectory == Spec => ImplementsDirectory
<1>1. /\ TypeOK /\ TypeOK' /\ ProfilesInvariant /\ SettledInvariant /\ [Next]_vars
      => [Directory!Next]_(Directory!vars)
  BY DirectoryStep
<1> QED
  BY <1>1, DirectoryInit, SettledCorrect, PTL DEF Spec, ImplementsDirectory, Directory!Spec
=============================================================================
