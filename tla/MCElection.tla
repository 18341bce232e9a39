----------------------------- MODULE MCElection -----------------------------
(* ControllerElection on small instances.                                  *)
EXTENDS ControllerElection, TLC

Symmetry == Permutations(Node)

\* Bound: two faults in all.  No fair action spends one.
FewFaults == (MaxCrashes - budget.crash) + (MaxSessionLosses - budget.session)
                 + (MaxCallErrors - budget.call) <= 2
=============================================================================
