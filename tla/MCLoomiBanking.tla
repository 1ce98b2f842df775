--------------------------- MODULE MCLoomiBanking ---------------------------
(***************************************************************************)
(* Instances of LoomiBanking for TLC: users "a", "b" and "c".              *)
(***************************************************************************)
EXTENDS LoomiBanking

CONSTANTS p1, p2, k1, k2

\* Both POSTs carry one key, or each its own.
SameKey == [p \in Requests |-> k1]
OwnKey == [p \in Requests |-> IF p = p1 THEN k1 ELSE k2]

FromA == [p \in Requests |-> "a"]
ToB == [p \in Requests |-> "b"]
ToBAndC == [p \in Requests |-> IF p = p1 THEN "b" ELSE "c"]
OneEach == [p \in Requests |-> 1]
OneInA == [u \in Users |-> IF u = "a" THEN 1 ELSE 0]

\* Nothing more fits on the account of "b".
OneInAFullB == [u \in Users |-> CASE u = "a" -> 1 [] u = "b" -> MaxCents [] OTHER -> 0]
=============================================================================
