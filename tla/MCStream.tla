------------------------------ MODULE MCStream ------------------------------
(* PartitionStream on small instances.                                     *)
EXTENDS PartitionStream
=============================================================================
