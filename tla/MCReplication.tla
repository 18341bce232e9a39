--------------------------- MODULE MCReplication ---------------------------
(* PartitionReplication on small instances.                                *)
EXTENDS PartitionReplication, TLC

\* Followers and requests are interchangeable wherever the initial topic
\* record treats all followers alike.
Symmetry == Permutations(Follower) \cup Permutations(Request)
RequestSymmetry == Permutations(Request)

\* The values of InitReplicas and InitIsr the configurations choose from.
AllNodes == Node
LeaderOnly == {Leader}

\* Bound: two faults in all, and none beside two reassignments.  No fair action
\* needs one.
FewFaults ==
    (MaxDiskErrors - budget.disk) + (MaxRestarts - budget.restart)
       + (MaxCallErrors - budget.call)
        <= IF budget.assign > 0 THEN 2 ELSE 0
=============================================================================
