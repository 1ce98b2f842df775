---------------------------- MODULE MCUserProfiles ----------------------------
(***************************************************************************)
(* Instances of UserProfiles for TLC.  User u2 moves from e2 to e3, which  *)
(* it spells in capitals, and gives up its home; user u1 moves from e1 to  *)
(* e2, writing its banking details too, if it finds e2 free, and asks for  *)
(* its home to be given up; a new user asks for e1; and a picture of u1 is *)
(* uploaded (which counts as a home).  The new user then logs in, and u2   *)
(* tries to under E3.                                                      *)
(***************************************************************************)
EXTENDS UserProfiles

CONSTANTS u1, u2, new, leave, follow, picture, login, shouted,
          e1, e2, e3, E3, h1, h2, h3

MCExisting == {u1, u2}
MCUserOf == [p \in Edits \cup Reads \cup Logins |->
  CASE p \in {leave, shouted} -> u2 [] p = login -> new [] OTHER -> u1]
MCNormal == [a \in Addresses |-> IF a = E3 THEN e3 ELSE a]
MCNewEmail == [p \in Creates \cup Edits \cup Logins |->
  CASE p \in {new, login} -> e1 [] p \in {leave, shouted} -> E3 [] p = follow -> e2 [] OTHER -> None]
MCNewHome == [p \in Creates \cup Edits |->
  CASE p = new -> h2 [] p = picture -> h3 [] p \in {leave, follow} -> Null [] OTHER -> None]
MCProfile0 == [u \in Existing |-> IF u = u1 THEN [email |-> e1, home |-> h1]
                                   ELSE [email |-> e2, home |-> h2]]
=============================================================================
