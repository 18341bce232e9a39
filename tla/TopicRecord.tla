---------------------------- MODULE TopicRecord ----------------------------
(***************************************************************************)
(* The value stored in etcd under /kafka/topic/<name> (TopicParams) and    *)
(* the operations of TopicMetaStore on it, as pure operators.  Node lists  *)
(* are sets: AddReplicaToPartition and MarkNodeInSync check for the node   *)
(* before they append it, and nothing depends on the order.                *)
(***************************************************************************)

CONSTANTS
    Node,       \* broker nodes
    Partition,  \* partitions of the topic
    NoTopic,    \* "the key does not exist"
    NewRecords  \* the records CreateTopic may come up with

\* PartitionsParams
Part == [leader : Node, replicas : SUBSET Node, isr : SUBSET Node]

Record == [Partition -> Part]

\* Each partition CreateTopic places has its leader among its replicas, and
\* the leader alone is in sync.
IsNew(record) == \A p \in Partition : /\ record[p].leader \in record[p].replicas
                                      /\ record[p].isr = {record[p].leader}

ASSUME NoTopicIsNoRecord == NoTopic \notin Record
ASSUME NewRecordsAssumption == /\ NewRecords \subseteq Record
                               /\ \A record \in NewRecords : IsNew(record)

Operation ==
    [kind : {"create"}, record : NewRecords]
        \cup [kind : {"add", "mark", "remove"}, partition : Partition, node : Node]

-----------------------------------------------------------------------------
\* The mutation an operation passes to mutateTopic, on the partition it names.
AddTo(part, node) == [part EXCEPT !.replicas = @ \cup {node}]

MarkIn(part, node) == [part EXCEPT !.isr = @ \cup {node}]

\* Slip: the node stays in the ISR.
RemoveFromReplicas(part, node) == [part EXCEPT !.replicas = @ \ {node}]

RemoveFrom(part, node) == [part EXCEPT !.replicas = @ \ {node},
                                       !.isr = @ \ {node}]

\* CreateTopic wants no such topic; the others want the topic, and MarkNodeInSync
\* wants its node to be a replica.
Applicable(op, record) ==
    \/ op.kind = "create" /\ record = NoTopic
    \/ /\ op.kind \in {"add", "remove"}
       /\ record # NoTopic
    \/ /\ op.kind = "mark"
       /\ record # NoTopic
       /\ op.node \in record[op.partition].replicas

\* The record after an applicable operation.
Apply(op, record) ==
    CASE op.kind = "create" -> op.record
      [] op.kind = "add" ->
           [record EXCEPT ![op.partition] = AddTo(@, op.node)]
      [] op.kind = "mark" ->
           [record EXCEPT ![op.partition] = MarkIn(@, op.node)]
      [] op.kind = "remove" ->
           [record EXCEPT ![op.partition] = RemoveFrom(@, op.node)]

=============================================================================
