--------------------------- MODULE MCCommandStore ---------------------------
(* Small instances of CommandStore for TLC. *)
EXTENDS CommandStore, TLC

CONSTANTS b1, b2, n1

MCBatches == {b1, b2}
MCCount == [b \in Batches |-> IF b = b1 THEN 1 ELSE 2]
MCTarget == [b \in Batches |-> n1]
NoBatches == {}

ReplicaSymmetry == Permutations(Replicas)
=============================================================================
