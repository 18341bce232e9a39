-------------------------- MODULE MCTopicMetadata --------------------------
(* TopicMetadata on small instances.                                       *)
EXTENDS TopicMetadata, TLC

CONSTANTS n1, n2

\* The two placements of one replica per partition on the nodes n1 and n2.
Placed(n) == [p \in Partition |-> [leader |-> n, replicas |-> {n}, isr |-> {n}]]
Placements == {Placed(n1), Placed(n2)}
OnePlacement == {Placed(n1)}

Symmetry == Permutations(Caller)
=============================================================================
