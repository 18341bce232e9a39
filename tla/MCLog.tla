------------------------------- MODULE MCLog -------------------------------
(* PartitionLog on small instances.                                        *)
EXTENDS PartitionLog

Faults(w, s, ro, re, c) ==
    [k \in FaultKind |-> CASE k = "write" -> w [] k = "sync" -> s
                           [] k = "rotate" -> ro [] k = "remove" -> re
                           [] k = "crash" -> c]

EveryFault == Faults(1, 1, 1, 1, 2)
=============================================================================
