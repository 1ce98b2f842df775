----------------------------- MODULE UserDirectory -----------------------------
(***************************************************************************)
(* What the clients service promises about profiles, without caches,       *)
(* lookups or handlers: a directory of users, no two with one e-mail.  A   *)
(* request changes it in one step, before it is answered and once at most, *)
(* and not at all if it is answered with an error.  An edit changes the    *)
(* fields it carries (but a null that comes with banking details is not    *)
(* one of them); the others it leaves alone, except of a user whose        *)
(* requests overlapped or failed, where it may bring back earlier values   *)
(* of that same user.  A login is decided by the directory at one moment.  *)
(***************************************************************************)
CONSTANTS
  Existing, Creates, Edits, WithBanking, Logins,  \* as in UserProfiles
  UserOf, Normal, NewEmail, NewHome, Profile0, Null, None

Users == Existing \cup Creates
Requests == Creates \cup Edits \cup Logins

VARIABLES
  profile,  \* of each user, None if it is not registered
  state,    \* of each request: "open", then what was decided and answered
  shared    \* the users whose requests overlapped or failed

vars == <<profile, state, shared>>

Init ==
  /\ profile = [u \in Users |-> IF u \in Existing THEN Profile0[u] ELSE None]
  /\ state = [p \in Requests |-> "open"]
  /\ shared = {}

Goes(p, s) == state' = [state EXCEPT ![p] = s]

Free(e, u) == \A v \in Users \ {u} : profile[v] # None => profile[v].email # e

Register(c) ==
  /\ state[c] = "open" /\ Goes(c, "done")
  /\ Free(Normal[NewEmail[c]], c)
  /\ profile' = [profile EXCEPT ![c] = [email |-> Normal[NewEmail[c]], home |-> NewHome[c]]]

\* The home p carries, to any effect.
HomeOf(p) == IF p \in WithBanking /\ NewHome[p] = Null THEN None ELSE NewHome[p]

\* The edits of u that have changed it, or may have; and what u has ever been.
Applied(u) ==
  {p \in Edits : UserOf[p] = u /\ state[p] \in {"applied", "done", "lost"}}
PastEmails(u) ==
  {Normal[NewEmail[p]] : p \in {q \in Applied(u) : NewEmail[q] # None}}
    \cup (IF u \in Existing THEN {Profile0[u].email} ELSE {Normal[NewEmail[u]]})
PastHomes(u) ==
  {HomeOf(p) : p \in {q \in Applied(u) : HomeOf(q) # None}}
    \cup (IF u \in Existing THEN {Profile0[u].home} ELSE {NewHome[u]})
Past(u) == [email : PastEmails(u), home : PastHomes(u)]

Edited(p, d) ==
  [email |-> IF NewEmail[p] = None THEN d.email ELSE Normal[NewEmail[p]],
   home |-> IF HomeOf(p) = None THEN d.home ELSE HomeOf(p)]

Apply(p) ==
  LET u == UserOf[p] IN
  /\ state[p] = "open" /\ Goes(p, "applied")
  /\ profile[u] # None
  /\ \E d \in IF u \in shared THEN Past(u) ELSE {profile[u]} :
       /\ Free(Edited(p, d).email, u)
       /\ profile' = [profile EXCEPT ![u] = Edited(p, d)]

Has(l) == profile[UserOf[l]] # None /\ profile[UserOf[l]].email = NewEmail[l]

\* A login is decided, and may be turned away at once.
Decide(l) ==
  /\ state[l] = "open"
  /\ IF Has(l) THEN Goes(l, "admitted") ELSE Goes(l, "rejected") \/ Goes(l, "unauthorized")
  /\ UNCHANGED profile

Answer(p) ==
  /\ \/ state[p] \in {"applied", "admitted"} /\ Goes(p, "done")
     \/ state[p] = "rejected" /\ Goes(p, "unauthorized")
  /\ UNCHANGED profile

\* An answer of 409, 404 or 500.
Refuse(p) == state[p] = "open" /\ Goes(p, "refused") /\ UNCHANGED profile

\* The service dies; the requests it was at work on are not answered.
Lose ==
  /\ state' = [p \in Requests |-> state'[p]]
  /\ \A p \in Requests : state'[p] # state[p] =>
       state'[p] = "lost" /\ state[p] \in {"open", "applied", "admitted", "rejected"}
  /\ UNCHANGED profile

Next ==
  /\ shared \subseteq shared' /\ shared' \subseteq Users
  /\ \/ UNCHANGED <<profile, state>>
     \/ \E c \in Creates : Register(c)
     \/ \E p \in Edits : Apply(p)
     \/ \E l \in Logins : Decide(l)
     \/ \E p \in Requests : Answer(p) \/ Refuse(p)
     \/ Lose

Spec == Init /\ [][Next]_vars
=============================================================================
