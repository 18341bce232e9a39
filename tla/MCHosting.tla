----------------------------- MODULE MCHosting ------------------------------
(* PartitionHosting on small instances: a node that hosts nothing at first,  *)
(* with every fault and change; and one that hosts all of the topic, with    *)
(* one change less and no fault.                                             *)
EXTENDS PartitionHosting, TLC

MCInit ==
    /\ Init
    /\ \/ /\ versions = <<Assigned({})>>
          /\ budget = [change |-> MaxChanges, fault |-> MaxFaults]
       \/ /\ versions = <<Assigned(Partition)>>
          /\ budget = [change |-> MaxChanges - 1, fault |-> 0]

MCSpec == MCInit /\ [][Next]_vars /\ Fairness
=============================================================================
