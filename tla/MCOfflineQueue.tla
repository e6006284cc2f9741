--------------------------- MODULE MCOfflineQueue ---------------------------
(***************************************************************************)
(* Small instances of OfflineQueue.                                        *)
(***************************************************************************)
EXTENDS OfflineQueue, TLC

CONSTANTS u1, u2, p1, p2, d1, d2, c1, c2

AllAccepted == [p \in Play |-> "accept"]
FirstUnprocessable == [p \in Play |-> IF p = p1 THEN "unprocessable" ELSE "accept"]
FirstBadlySigned == [p \in Play |-> IF p = p1 THEN "badSignature" ELSE "accept"]

CycleSymmetry == Permutations(Cycle)
UserSymmetry == Permutations(Player) \union Permutations(Device)
=============================================================================
