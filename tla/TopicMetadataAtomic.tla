------------------------ MODULE TopicMetadataAtomic ------------------------
(***************************************************************************)
(* What the callers of TopicMetaStore rely on: each operation takes effect *)
(* at one instant, on the record as it is at that instant, at most once.   *)
(* PartitionReplication assumes this of its writes to the topic record.    *)
(***************************************************************************)
EXTENDS TopicRecord

CONSTANT Caller   \* concurrent calls: the controller's workers, the replicas

VARIABLES
    record,   \* the topic record, or NoTopic
    op,       \* what each call asks for
    outcome   \* how it stands

vars == <<record, op, outcome>>

Init == /\ record = NoTopic
        /\ op \in [Caller -> Operation]
        /\ outcome = [c \in Caller |-> "pending"]

\* The operation takes effect, and the caller knows.
Effect(c) ==
    /\ outcome[c] = "pending"
    /\ Applicable(op[c], record)
    /\ record' = Apply(op[c], record)
    /\ outcome' = [outcome EXCEPT ![c] = "ok"]
    /\ UNCHANGED op

\* The topic is missing, exists already, or the node is no replica.
Refuse(c) ==
    /\ outcome[c] = "pending"
    /\ ~Applicable(op[c], record)
    /\ outcome' = [outcome EXCEPT ![c] = "refused"]
    /\ UNCHANGED <<record, op>>

\* The caller gets an error: the operation may have taken effect, once.
Fail(c) ==
    /\ outcome[c] = "pending"
    /\ \/ UNCHANGED record
       \/ Applicable(op[c], record) /\ record' = Apply(op[c], record)
    /\ outcome' = [outcome EXCEPT ![c] = "error"]
    /\ UNCHANGED op

\* The caller lost too many races: the operation had no effect.
GiveUp(c) ==
    /\ outcome[c] = "pending"
    /\ outcome' = [outcome EXCEPT ![c] = "contention"]
    /\ UNCHANGED <<record, op>>

Next == \E c \in Caller : Effect(c) \/ Refuse(c) \/ Fail(c) \/ GiveUp(c)

Spec == Init /\ [][Next]_vars

=============================================================================
