------------------------ MODULE MCTransactionsService ------------------------
(***************************************************************************)
(* Instances of TransactionsService for TLC.                               *)
(***************************************************************************)
EXTENDS TransactionsService

CONSTANTS p1, p2, p3, k1, k2

\* p1 and p2 race for one key; p3 has a key of its own.
MCKeyOf == [p \in Requests |-> IF p = p3 THEN k2 ELSE k1]
=============================================================================
