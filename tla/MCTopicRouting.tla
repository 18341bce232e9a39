--------------------------- MODULE MCTopicRouting ---------------------------
(* TopicRouting on small instances.                                        *)
EXTENDS TopicRouting, TLC

Symmetry == Permutations(Node)
=============================================================================
