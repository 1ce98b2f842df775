------------------------- MODULE MCTransferProcessing -------------------------
(***************************************************************************)
(* Instances of TransferProcessing for TLC: two users, "a" and "b".        *)
(***************************************************************************)
EXTENDS TransferProcessing

CONSTANTS t1, t2

\* Two transfers crossing, a to b and b to a, or both draining a.
CrossingSender == [t \in Transfers |-> IF t = t1 THEN "a" ELSE "b"]
CrossingReceiver == [t \in Transfers |-> IF t = t1 THEN "b" ELSE "a"]
DrainSender == [t \in Transfers |-> "a"]
DrainReceiver == [t \in Transfers |-> "b"]

OneEach == [t \in Transfers |-> 1]
AccountA == [p \in Reads \cup Edits |-> "a"]
Start == [u \in Users |-> IF u = "a" THEN 1 ELSE 2]
=============================================================================
