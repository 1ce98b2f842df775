----------------------------- MODULE UserProfiles -----------------------------
(***************************************************************************)
(* The profile side of the clients service (apps/clients): creating users, *)
(* reading them, PATCHing them with or without banking details, uploading  *)
(* a picture and logging in, over the table users and three kinds of Redis *)
(* keys: user:<id>, user:banking:<id> and user:email:<address>.            *)
(*                                                                         *)
(* A profile is an e-mail and a home.  The home is the postal address, which *)
(* a PATCH may set to null; full name and picture are written with it and  *)
(* are homes that no PATCH sets to null.  Balances are TransferProcessing's; *)
(* the write of a transfer is updateFinancials of an unchanged profile, so *)
(* here it is an edit with banking details that asks for nothing.          *)
(*                                                                         *)
(* As in the other modules an action is one answered call with the code up *)
(* to the next await.                                                      *)
(***************************************************************************)
EXTENDS Integers

CONSTANTS
  Existing,    \* users there from the start
  Creates,     \* POST /users; each constructs the user of its own name
  Edits,       \* PATCH /users/:id, picture uploads, balance writes of transfers
  Reads,       \* GET /users/:id
  WithBanking, \* the edits that load banking details and write them back
  Uploads,     \* the edits that upload a picture
  Logins,      \* POST /api/auth/login, with the password of a user
  UserOf,      \* the user each edit, read or login is about
  Addresses,   \* e-mail addresses as clients write them
  Normal,      \* the trimmed, lower-case form of each
  Homes,       \* postal addresses, full names, pictures
  Null,        \* the null a home may be
  NewEmail,    \* the address a request carries, or None
  NewHome,     \* the home a request carries, which may be Null, or None
  Profile0,    \* the profile of each existing user
  None,
  MaxFaults,   \* bound: calls that may fail
  MaxCrashes   \* bound: crashes of the service

Procs == Creates \cup Edits \cup Reads \cup Logins
Users == Existing \cup Creates
Emails == {Normal[a] : a \in Addresses}
Profile == [email : Emails, home : Homes \cup {Null}]

ASSUME ConstantsAssumption ==
  /\ Creates \cap Edits = {} /\ Creates \cap Reads = {} /\ Edits \cap Reads = {}
  /\ Logins \cap (Creates \cup Edits \cup Reads) = {}
  /\ Existing \cap Creates = {}
  /\ WithBanking \subseteq Edits /\ Uploads \subseteq Edits \ WithBanking
  /\ UserOf \in [Edits \cup Reads \cup Logins -> Users]
  /\ Normal \in [Addresses -> Addresses]
  /\ \A e \in Emails : Normal[e] = e
  /\ NewEmail \in [Creates \cup Edits \cup Logins -> Addresses \cup {None}]
  /\ NewHome \in [Creates \cup Edits -> Homes \cup {Null, None}]
  /\ \A c \in Creates : NewEmail[c] # None /\ NewHome[c] # None
  /\ \A l \in Logins : NewEmail[l] # None
  /\ \A p \in Uploads : NewEmail[p] = None /\ NewHome[p] # Null
  /\ Profile0 \in [Existing -> Profile]
  /\ \A u, v \in Existing : Profile0[u].email = Profile0[v].email => u = v
  /\ None \notin Users \cup Addresses \cup Homes \cup {Null} \cup Profile
  /\ MaxFaults \in Nat
  /\ MaxCrashes \in Nat

VARIABLES
  row,        \* table users: the profile of each user, or None
  base, banking,  \* Redis user:<id> and user:banking:<id>: the profile in the copy
  emailKey,   \* Redis user:email:<address>: the user it leads to
  pc,         \* per process: the call awaited
  find,       \* per process: the find it is in
  at, hand,   \* per process: the user its find is about, and what it read of it
  copy,       \* per process: the profile of its own user
  faults, crashes,
  exposed     \* history: the users whose handlers overlapped or failed

redis == <<base, banking, emailKey>>
vars == <<row, base, banking, emailKey, pc, find, at, hand, copy, faults, crashes,
          exposed>>

-----------------------------------------------------------------------------
\* Answers of 409, 404, 401 and 500; a crash leaves a request without one.
Errors == {"conflict", "notFound", "unauthorized", "failed"}
Resting == {"init", "done", "lost"} \cup Errors
Labels == Resting \cup
  {"getEmail", "dbEmail", "get", "db", "setBase", "setBanking", "setEmail",
   "upload", "insert", "write", "del", "compare"}

\* Loading the user of the request; looking up the holder of an address in the
\* table; loading the holder a cached address leads to.
Finds == {"own", "holder", "cachedHolder"}

Active(p) == pc[p] \notin Resting

Goto(p, l) == pc' = [pc EXCEPT ![p] = l]
Works == UNCHANGED faults
Fails == faults < MaxFaults /\ faults' = faults + 1

\* The user of p's find is loaded with its banking details.
Full(p) == find[p] = "own" /\ (p \in Reads \/ p \in WithBanking)

\* PrismaClientExceptionFilter, by the code of the database's error: a unique
\* index, a missing row, and anything else.  (P2023, of an id that is no UUID, would
\* be a 400; no request of the model has one.)
Answered(code) ==
  CASE code = "P2002" -> "conflict" [] code = "P2025" -> "notFound" [] OTHER -> "failed"

\* The address p looks up: create normalises it first, update does not.
LookedUp(p) == IF p \in Creates THEN Normal[NewEmail[p]] ELSE NewEmail[p]

\* The users p is at work on.
Touched(p) ==
  IF ~Active(p) \/ p \in Logins THEN {}
  ELSE ({at[p]} \ {None}) \cup (IF p \in Creates THEN {} ELSE {UserOf[p]})

\* p starts work on u: u is exposed when someone else is at work on it and one
\* of the two edits it.
Meets(p, u) ==
  \E q \in Procs \ {p} :
    /\ u \in Touched(q)
    /\ \E w \in {p, q} \cap Edits : UserOf[w] = u

Expose(p, u) == exposed' = IF Meets(p, u) THEN exposed \cup {u} ELSE exposed

Init ==
  /\ row = [u \in Users |-> IF u \in Existing THEN Profile0[u] ELSE None]
  /\ base = [u \in Users |-> None]
  /\ banking = [u \in Users |-> None]
  /\ emailKey = [a \in Addresses |-> None]
  /\ pc = [p \in Procs |-> "init"]
  /\ find = [p \in Procs |-> "own"]
  /\ at = [p \in Procs |-> None]
  /\ hand = [p \in Procs |-> None]
  /\ copy = [p \in Procs |-> None]
  /\ faults = 0
  /\ crashes = 0
  /\ exposed = {}

-----------------------------------------------------------------------------
\* A request comes in.  POST looks its address up, the others load their user.
Create(c) ==
  /\ pc[c] = "init"
  /\ Goto(c, "getEmail")
  /\ UNCHANGED <<row, redis, find, at, hand, copy, faults, crashes, exposed>>

Open(p) ==
  /\ pc[p] = "init"
  /\ Goto(p, "get")
  /\ at' = [at EXCEPT ![p] = UserOf[p]]
  /\ Expose(p, UserOf[p])
  /\ UNCHANGED <<row, redis, find, hand, copy, faults, crashes>>

-----------------------------------------------------------------------------
\* The finds of CachedUserRepository.

\* An edit keeps the copy of its own user.
Kept(p, d) == IF find[p] = "own" /\ p \in Edits THEN d ELSE copy[p]

\* Where p goes with its own user loaded: a read ends, an edit asks who holds
\* its new address, uploads, or writes.
WithOwn(p) ==
  IF p \in Reads THEN "done"
  ELSE IF p \in Uploads THEN "upload"
  ELSE IF NewEmail[p] # None THEN "getEmail" ELSE "write"

\* Where it goes with the holder of its address found, unless that is the user
\* itself: create throws a ConflictException, update an Error.
WithHolder(p) ==
  IF p \in Creates THEN "conflict"
  ELSE IF UserOf[p] = at[p] THEN "write" ELSE "failed"

\* The find of p has the user at[p], with profile d.
Loaded(p, d) ==
  /\ copy' = [copy EXCEPT ![p] = Kept(p, d)]
  /\ Goto(p, IF find[p] = "own" THEN WithOwn(p) ELSE WithHolder(p))
  /\ at' = [at EXCEPT ![p] = None]
  /\ hand' = [hand EXCEPT ![p] = None]

\* Nobody is found: a request for an unknown user ends in 404, a new address
\* is free.
NotFound(p) ==
  /\ Goto(p, IF find[p] = "own" THEN "notFound"
             ELSE IF p \in Creates THEN "insert" ELSE "write")
  /\ at' = [at EXCEPT ![p] = None]
  /\ UNCHANGED <<hand, copy>>

\* findByEmail.  A failed cache.get counts as a miss.
GetEmail(p) ==
  /\ pc[p] = "getEmail"
  /\ LET u == emailKey[LookedUp(p)] IN
     \/ /\ Works /\ u # None
        /\ Goto(p, "get")
        /\ find' = [find EXCEPT ![p] = "cachedHolder"]
        /\ at' = [at EXCEPT ![p] = u]
        /\ Expose(p, u)
     \/ /\ (Works /\ u = None) \/ Fails
        /\ Goto(p, "dbEmail")
        /\ find' = [find EXCEPT ![p] = "holder"]
        /\ UNCHANGED <<at, exposed>>
  /\ UNCHANGED <<row, redis, hand, copy, crashes>>

DbEmail(p) ==
  /\ pc[p] = "dbEmail"
  /\ LET holders == {u \in Users : row[u] # None /\ row[u].email = LookedUp(p)} IN
     \/ /\ Works
        /\ \E u \in holders :
             /\ Goto(p, "setBase")
             /\ at' = [at EXCEPT ![p] = u]
             /\ hand' = [hand EXCEPT ![p] = row[u]]
             /\ Expose(p, u)
        /\ UNCHANGED copy
     \/ Works /\ holders = {} /\ NotFound(p) /\ UNCHANGED exposed
     \/ Fails /\ Goto(p, "failed") /\ UNCHANGED <<at, hand, copy, exposed>>
  /\ UNCHANGED <<row, redis, find, crashes>>

\* findById, and findByIdWithBankingDetails.
Get(p) ==
  /\ pc[p] = "get"
  /\ LET d == IF Full(p) THEN banking[at[p]] ELSE base[at[p]] IN
     \/ Works /\ d # None /\ Loaded(p, d)
     \/ /\ (Works /\ d = None) \/ Fails
        /\ Goto(p, "db")
        /\ UNCHANGED <<at, hand, copy>>
  /\ UNCHANGED <<row, redis, find, crashes, exposed>>

Db(p) ==
  /\ pc[p] = "db"
  /\ \/ /\ Works /\ row[at[p]] # None
        /\ hand' = [hand EXCEPT ![p] = row[at[p]]]
        /\ Goto(p, "setBase")
        /\ UNCHANGED <<at, copy>>
     \/ Works /\ row[at[p]] = None /\ NotFound(p)
     \/ Fails /\ Goto(p, "failed") /\ UNCHANGED <<at, hand, copy>>
  /\ UNCHANGED <<row, redis, find, crashes, exposed>>

\* cacheUser.  Its first failure is swallowed and skips the second key; the
\* address is cached by findByEmail itself, and only when it read the table.
AfterCaching(p) ==
  IF find[p] = "holder" THEN Goto(p, "setEmail") /\ UNCHANGED <<at, hand, copy>>
  ELSE Loaded(p, hand[p])

SetBase(p) ==
  /\ pc[p] = "setBase"
  /\ \/ /\ Works
        /\ base' = [base EXCEPT ![at[p]] = hand[p]]
        /\ IF Full(p) THEN Goto(p, "setBanking") /\ UNCHANGED <<at, hand, copy>>
           ELSE AfterCaching(p)
     \/ Fails /\ AfterCaching(p) /\ UNCHANGED base
  /\ UNCHANGED <<row, banking, emailKey, find, crashes, exposed>>

SetBanking(p) ==
  /\ pc[p] = "setBanking"
  /\ \/ Works /\ banking' = [banking EXCEPT ![at[p]] = hand[p]]
     \/ Fails /\ UNCHANGED banking
  /\ Loaded(p, hand[p])
  /\ UNCHANGED <<row, base, emailKey, find, crashes, exposed>>

\* Whom the address is made to lead to.  (Faulty: to the user of the request.)
LeadsToOwn(p) == IF p \in Edits THEN UserOf[p] ELSE p
LeadsTo(p) == at[p]

\* This write is outside any try: its failure fails the request.
SetEmail(p) ==
  /\ pc[p] = "setEmail"
  /\ \/ /\ Works
        /\ emailKey' = [emailKey EXCEPT ![LookedUp(p)] = LeadsTo(p)]
        /\ Loaded(p, hand[p])
     \/ Fails /\ Goto(p, "failed") /\ UNCHANGED <<emailKey, at, hand, copy>>
  /\ UNCHANGED <<row, base, banking, find, crashes, exposed>>

-----------------------------------------------------------------------------
\* uploadFile.  The key in S3 is made of the user's id and the type of the file,
\* so nothing of it has to be kept.
Upload(p) ==
  /\ pc[p] = "upload"
  /\ \/ Works /\ Goto(p, "write")
     \/ Fails /\ Goto(p, "failed")
  /\ UNCHANGED <<row, redis, find, at, hand, copy, crashes, exposed>>

\* The unique index on users.email.  (Faulty: there is none.)
FreeNever(e, u) == TRUE
Free(e, u) == \A v \in Users \ {u} : row[v] # None => row[v].email # e

Insert(c) ==
  /\ pc[c] = "insert"
  /\ LET d == [email |-> Normal[NewEmail[c]], home |-> NewHome[c]] IN
     \/ /\ Works /\ Free(d.email, c)
        /\ row' = [row EXCEPT ![c] = d]
        /\ Goto(c, "done")
     \/ Works /\ ~Free(d.email, c) /\ Goto(c, Answered("P2002")) /\ UNCHANGED row
     \/ Fails /\ Goto(c, Answered("other")) /\ UNCHANGED row
  /\ UNCHANGED <<redis, find, at, hand, copy, crashes, exposed>>

\* User.updateProfile: the fields the request carries replace those of d.  (Faulty:
\* the address is stored as the client wrote it.)
EditedAsWritten(p, d) ==
  [email |-> IF NewEmail[p] = None THEN d.email ELSE NewEmail[p],
   home |-> IF NewHome[p] = None THEN d.home ELSE NewHome[p]]
Edited(p, d) ==
  [email |-> IF NewEmail[p] = None THEN d.email ELSE Normal[NewEmail[p]],
   home |-> IF NewHome[p] = None THEN d.home ELSE NewHome[p]]

\* The row after p's write of d.  updateProfile writes every field, a null too;
\* updateFinancials, which edits with banking details call, leaves the column of a
\* null alone.
Stored(p, d) ==
  IF p \in WithBanking /\ d.home = Null
  THEN [d EXCEPT !.home = row[UserOf[p]].home] ELSE d

\* updateProfile and updateFinancials write the fields of the edited copy, those
\* the request did not ask for included.  The copy itself, with its null, is what
\* the request is answered with.
Write(p) ==
  /\ pc[p] = "write"
  /\ LET u == UserOf[p]
         d == Edited(p, copy[p])
     IN
     \/ /\ Works /\ row[u] # None /\ Free(d.email, u)
        /\ row' = [row EXCEPT ![u] = Stored(p, d)]
        /\ copy' = [copy EXCEPT ![p] = d]
        /\ Goto(p, "del")
     \/ /\ Works
        /\ row[u] = None \/ ~Free(d.email, u)
        /\ Goto(p, Answered(IF row[u] = None THEN "P2025" ELSE "P2002"))
        /\ UNCHANGED <<row, copy>>
     \/ Fails /\ Goto(p, Answered("other")) /\ UNCHANGED <<row, copy>>
  /\ UNCHANGED <<redis, find, at, hand, crashes, exposed>>

\* invalidateUserCache sends three deletes at once over one connection, for the
\* id and for the address just written; any of them may fail, and that is
\* swallowed.  (Faulty: the copy without banking details is forgotten; a failed
\* delete fails the request.)
InvalidatedBanking(p) == {"email", "banking"}
Invalidated(p) == {"base", "email", "banking"}
AfterDelStrict(p) == IF faults' > faults THEN "failed" ELSE "done"
AfterDel(p) == "done"

Del(p) ==
  /\ pc[p] = "del"
  /\ LET u == UserOf[p] IN
     \E gone \in SUBSET Invalidated(p) :
       /\ \/ Works /\ gone = Invalidated(p) /\ UNCHANGED exposed
          \/ Fails /\ gone # Invalidated(p) /\ exposed' = exposed \cup {u}
       /\ base' = IF "base" \in gone THEN [base EXCEPT ![u] = None] ELSE base
       /\ banking' = IF "banking" \in gone THEN [banking EXCEPT ![u] = None] ELSE banking
       /\ emailKey' = IF "email" \in gone
                      THEN [emailKey EXCEPT ![copy[p].email] = None] ELSE emailKey
  /\ Goto(p, AfterDel(p))
  /\ UNCHANGED <<row, find, at, hand, copy, crashes>>

-----------------------------------------------------------------------------
\* POST /api/auth/login, by a user that has registered, with its password.  The
\* address is looked up as the client wrote it, and in the table: the cached
\* addresses are for the other finds.
Holder(l) == {u \in Users : row[u] # None /\ row[u].email = NewEmail[l]}

LoginFind(l) ==
  /\ pc[l] = "init" /\ row[UserOf[l]] # None
  /\ \/ /\ Works
        /\ \E u \in Holder(l) : at' = [at EXCEPT ![l] = u]
        /\ Goto(l, "compare")
     \/ Works /\ Holder(l) = {} /\ Goto(l, "unauthorized") /\ UNCHANGED at
     \/ Fails /\ Goto(l, Answered("other")) /\ UNCHANGED at
  /\ UNCHANGED <<row, redis, find, hand, copy, crashes, exposed>>

\* The password is compared with the hash found, and a token is signed for the
\* user it belongs to.
LoginCompare(l) ==
  /\ pc[l] = "compare"
  /\ Goto(l, IF at[l] = UserOf[l] THEN "done" ELSE "unauthorized")
  /\ UNCHANGED <<row, redis, find, at, hand, copy, faults, crashes, exposed>>

-----------------------------------------------------------------------------
\* The service dies: no handler goes on, callers get no answer.
Crash ==
  /\ crashes < MaxCrashes
  /\ crashes' = crashes + 1
  /\ pc' = [p \in Procs |-> IF Active(p) THEN "lost" ELSE pc[p]]
  /\ at' = [p \in Procs |-> None]
  /\ hand' = [p \in Procs |-> None]
  /\ copy' = [p \in Procs |-> None]
  /\ exposed' = exposed \cup {UserOf[p] : p \in {q \in Edits : pc[q] = "del"}}
  /\ UNCHANGED <<row, redis, find, faults>>

\* A key's time to live ends, or Redis evicts it.
ExpireCopy(u) ==
  /\ \/ /\ base[u] # None
        /\ base' = [base EXCEPT ![u] = None]
        /\ UNCHANGED banking
     \/ /\ banking[u] # None
        /\ banking' = [banking EXCEPT ![u] = None]
        /\ UNCHANGED base
  /\ UNCHANGED <<row, emailKey, pc, find, at, hand, copy, faults, crashes, exposed>>

ExpireEmail(a) ==
  /\ emailKey[a] # None
  /\ emailKey' = [emailKey EXCEPT ![a] = None]
  /\ UNCHANGED <<row, base, banking, pc, find, at, hand, copy, faults, crashes, exposed>>

FindStep(p) ==
  \/ GetEmail(p) \/ DbEmail(p) \/ Get(p) \/ Db(p)
  \/ SetBase(p) \/ SetBanking(p) \/ SetEmail(p)

EditStep(p) == Upload(p) \/ Write(p) \/ Del(p)

Next ==
  \/ \E c \in Creates : Create(c) \/ Insert(c)
  \/ \E p \in Edits \cup Reads : Open(p)
  \/ \E p \in Procs : FindStep(p)
  \/ \E p \in Edits : EditStep(p)
  \/ \E l \in Logins : LoginFind(l) \/ LoginCompare(l)
  \/ Crash
  \/ \E u \in Users : ExpireCopy(u)
  \/ \E a \in Addresses : ExpireEmail(a)

Spec == Init /\ [][Next]_vars
-----------------------------------------------------------------------------
\* The finds of a process are about its own user, then about the holder of the
\* address it carries; an edit keeps the copy of its own user until it is written,
\* and then what it wrote.
Labelled(p) ==
  /\ p \in Creates =>
       pc[p] \in Resting \cup {"getEmail", "dbEmail", "get", "db", "setBase", "setEmail", "insert"}
  /\ p \in Edits => pc[p] \notin {"insert", "compare"}
  /\ p \in Reads => pc[p] \in Resting \cup {"get", "db", "setBase", "setBanking"}
  /\ p \in Logins => pc[p] \in Resting \cup {"compare"}

Finding(p) == pc[p] \in {"get", "db", "setBase", "setBanking", "setEmail"}
Caching(p) == pc[p] \in {"setBase", "setBanking", "setEmail"}
KeepsCopy(p) ==
  /\ p \in Edits /\ Active(p) /\ pc[p] # "del"
  /\ find[p] # "own" \/ pc[p] \in {"getEmail", "dbEmail", "upload", "write"}

Local(p) ==
  /\ p \in Reads => find[p] = "own"
  /\ pc[p] = "init" => at[p] = None /\ find[p] = "own"
  /\ pc[p] \in {"getEmail", "setBanking"} => find[p] = "own"
  /\ pc[p] \in {"dbEmail", "setEmail"} => find[p] = "holder"
  /\ pc[p] \in {"get", "db"} => find[p] # "holder"
  /\ (Active(p) /\ find[p] # "own") \/ pc[p] = "getEmail" => NewEmail[p] # None
  /\ Finding(p) /\ find[p] = "own" => p \notin Creates /\ at[p] = UserOf[p]
  /\ Finding(p) => at[p] # None
  /\ Caching(p) => hand[p] # None
  /\ KeepsCopy(p) \/ pc[p] = "del" => copy[p] # None

TableTypes ==
  /\ row \in [Users -> Profile \cup {None}]
  /\ base \in [Users -> Profile \cup {None}]
  /\ banking \in [Users -> Profile \cup {None}]
  /\ emailKey \in [Addresses -> Users \cup {None}]

HandlerTypes ==
  /\ pc \in [Procs -> Labels]
  /\ find \in [Procs -> Finds]
  /\ at \in [Procs -> Users \cup {None}]
  /\ hand \in [Procs -> Profile \cup {None}]
  /\ copy \in [Procs -> Profile \cup {None}]

Budgets == faults \in 0 .. MaxFaults /\ crashes \in 0 .. MaxCrashes

UniqueEmails ==
  \A u, v \in Users :
    row[u] # None /\ row[v] # None /\ row[u].email = row[v].email => u = v

\* Every variable has its type, no handler uses a profile or a user it does not
\* hold, and no two users share an e-mail.
TypeOK ==
  /\ TableTypes /\ HandlerTypes /\ Budgets /\ exposed \subseteq Users
  /\ \A p \in Procs : Labelled(p) /\ Local(p)
  /\ UniqueEmails

\* A null that comes with banking details never gets to the table.
Dropped(p) == p \in WithBanking /\ NewHome[p] = Null

\* What u was asked to be: its first profile and what the requests about it
\* carry that wrote it, or that nobody answered.
Asking(u) ==
  {p \in {q \in Edits : UserOf[q] = u} \cup ({u} \cap Creates) :
     pc[p] \in {"del", "done", "lost"}}
AskedEmails(u) ==
  {Normal[NewEmail[p]] : p \in {q \in Asking(u) : NewEmail[q] # None}}
    \cup (IF u \in Existing THEN {Profile0[u].email} ELSE {})
AskedHomes(u) ==
  {NewHome[p] : p \in {q \in Asking(u) : ~Dropped(q)}}
    \cup (IF u \in Existing THEN {Profile0[u].home} ELSE {})

\* Users are never mixed up: whatever copies handlers hold, cache and write
\* back, and whichever lookup they took to find them, a stored or cached profile
\* of a user is made of that user's own data.  And an error is an error: nothing
\* of a request that was answered with one is left in the table or in Redis, nor
\* is a null that came with banking details.
Made(d, u) == d.email \in AskedEmails(u) /\ d.home \in AskedHomes(u)
ProfilesKeepApart ==
  \A u \in Users : \A d \in {row[u], base[u], banking[u]} \ {None} : Made(d, u)

\* A cached address leads to a stored user who has, or had, that address, and
\* only normalised addresses are ever cached.
EmailKeysTrue ==
  \A a \in Addresses : \A u \in Users :
    emailKey[a] = u => row[u] # None /\ a \in AskedEmails(u)

\* A user no edit is at work on, whose handlers never overlapped and none of
\* whose invalidations failed, is in Redis as in the table, under both keys:
\* reads, lookups by address, evictions and failed cache writes do not break it.
SettledProfileIsCachedRight ==
  \A u \in Users :
    u \notin exposed /\ (\A p \in Edits : Active(p) => UserOf[p] # u) =>
      base[u] \in {None, row[u]} /\ banking[u] \in {None, row[u]}

\* An edit of such a user changes the fields it was asked to change, except for
\* a null that comes with banking details, and no others: it does not bring back
\* what an earlier edit replaced.
UnexposedEditIsExact ==
  [][\A p \in Edits :
       pc[p] = "write" /\ pc'[p] = "del" /\ UserOf[p] \notin exposed =>
         LET d == row[UserOf[p]] IN
         row'[UserOf[p]] = [Edited(p, d) EXCEPT !.home = IF Dropped(p) THEN d.home ELSE @]]_vars

\* A registered user is let in with its password and the only address it ever
\* asked for, in normal form, whoever had that address before and whatever is
\* still cached about it.  (In the form it was registered in it may not be.)
OnlyAddressLogsIn ==
  \A l \in Logins : pc[l] = "unauthorized" => AskedEmails(UserOf[l]) # {NewEmail[l]}

-----------------------------------------------------------------------------
\* The inductive invariants behind the theorems of UserProfilesProofs.

\* What handlers hold of a user is, like what is stored of it, the user's own.
HoldsOwn(p) ==
  /\ Caching(p) => row[at[p]] # None /\ Made(hand[p], at[p])
  /\ Caching(p) /\ find[p] = "holder" => hand[p].email = LookedUp(p)
  /\ KeepsCopy(p) => row[UserOf[p]] # None /\ Made(copy[p], UserOf[p])

\* A login that will fail, or has, is of a user that asked for another address.
Rejected(l) ==
  /\ pc[l] # "init" => row[UserOf[l]] # None
  /\ pc[l] = "unauthorized" \/ (pc[l] = "compare" /\ at[l] # UserOf[l]) =>
       AskedEmails(UserOf[l]) # {NewEmail[l]}

ProfilesInvariant ==
  /\ ProfilesKeepApart /\ EmailKeysTrue
  /\ \A u \in Users : base[u] # None \/ banking[u] # None => row[u] # None
  /\ \A c \in Creates : row[c] # None => pc[c] = "done"
  /\ \A p \in Procs : HoldsOwn(p)
  /\ \A l \in Logins : Rejected(l)

EditOf(p, u) == p \in Edits /\ UserOf[p] = u

\* An edit of the user is alone at work on it; table, cached copies and what
\* handlers hold agree, up to the copies an edit has still to delete.
Settled(u) ==
  /\ \A p, q \in Procs : p # q /\ u \in Touched(p) /\ u \in Touched(q) => ~EditOf(p, u)
  /\ \/ base[u] \in {None, row[u]} /\ banking[u] \in {None, row[u]}
     \/ \E p \in Edits : UserOf[p] = u /\ pc[p] = "del"
  /\ \A p \in Procs : Caching(p) /\ at[p] = u => hand[p] = row[u]
  /\ \A p \in Procs : KeepsCopy(p) /\ UserOf[p] = u => copy[p] = row[u]

\* Unexposed users are settled.
SettledInvariant == \A u \in Users \ exposed : Settled(u)

-----------------------------------------------------------------------------
\* The refinement of UserDirectory: the directory is the table, an edit has been
\* applied when it is left to invalidate, a login is decided when it has found who
\* has its address.
Progress(p) ==
  CASE pc[p] \in {"done", "lost", "unauthorized"} -> pc[p]
    [] pc[p] \in Errors \ {"unauthorized"} -> "refused"
    [] pc[p] = "del" -> "applied"
    [] pc[p] = "compare" -> IF at[p] = UserOf[p] THEN "admitted" ELSE "rejected"
    [] OTHER -> "open"

Directory == INSTANCE UserDirectory
               WITH profile <- row, state <- [p \in Creates \cup Edits \cup Logins |-> Progress(p)],
                    shared <- exposed

\* Lookups, copies, caches, overlaps, failures and crashes included, profiles and
\* logins are those of a UserDirectory.
ImplementsDirectory == Directory!Spec
=============================================================================
