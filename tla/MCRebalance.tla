---------------------------- MODULE MCRebalance ----------------------------
(* Rebalance on small instances.                                           *)
EXTENDS Rebalance

OnePartition == {[number |-> 1, rf |-> 1]}
Requests == {[number |-> 2, rf |-> 1], [number |-> 1, rf |-> 2]}
=============================================================================
