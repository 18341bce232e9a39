--------------------------- MODULE TopicMetadata ---------------------------
(***************************************************************************)
(* TopicMetaStore: read-modify-write of one topic key in etcd with a       *)
(* compare-and-swap on its revision (mutateTopic, PutTopicCAS), called     *)
(* concurrently by the controller's rebalance worker and reconcile loop,   *)
(* by the replicas that finished their catch-up and by CreateTopic.        *)
(*                                                                         *)
(* rev counts the writes of the key; etcd's ModRevision grows by other     *)
(* keys as well, but it is only compared for equality.  Nothing in the     *)
(* code deletes the key, so "version = 0" means it was never written.      *)
(***************************************************************************)
EXTENDS TopicRecord, Naturals

CONSTANTS
    Caller,     \* concurrent calls, one operation each
    MaxRetries  \* maxRetries of mutateTopic (5 in the code)

ASSUME MaxRetriesAssumption == MaxRetries \in Nat \ {0}

VARIABLES
    record,   \* value of the key, or NoTopic
    rev,      \* its revision; 0 = never written
    op,       \* operation of each call
    pc,       \* where the call stands
    read,     \* value GetTopic returned
    readRev,  \* revision GetTopic returned
    attempt   \* lost races

vars == <<record, rev, op, pc, read, readRev, attempt>>

Outcome == {"ok", "refused", "error", "contention"}

Init ==
    /\ record = NoTopic
    /\ rev = 0
    /\ op \in [Caller -> Operation]
    /\ pc = [c \in Caller |-> "get"]
    /\ read = [c \in Caller |-> NoTopic]
    /\ readRev = [c \in Caller |-> 0]
    /\ attempt = [c \in Caller |-> 0]

-----------------------------------------------------------------------------
Goto(c, label) == pc' = [pc EXCEPT ![c] = label]

\* GetTopic and, on what it returned, the checks before the write: the topic
\* exists (CreateTopic: does not), the mutation accepts it.
GetTopic(c) ==
    /\ pc[c] = "get"
    /\ IF Applicable(op[c], record)
       THEN /\ Goto(c, "put")
            /\ read' = [read EXCEPT ![c] = record]
            /\ readRev' = [readRev EXCEPT ![c] = rev]
       ELSE /\ Goto(c, "refused")
            /\ UNCHANGED <<read, readRev>>
    /\ UNCHANGED <<record, rev, op, attempt>>

\* Slip: a Put without the comparison.
Always(c) == TRUE

\* The If of the transaction: the key's revision is the one that was read; for
\* CreateTopic, which read none, the key does not exist.
Unchanged(c) == readRev[c] = rev

\* The Then of the transaction.
Write(c) == /\ record' = Apply(op[c], read[c])
            /\ rev' = rev + 1

PutSucceeds(c) ==
    /\ pc[c] = "put"
    /\ Unchanged(c)
    /\ Write(c)
    /\ Goto(c, "ok")
    /\ UNCHANGED <<op, read, readRev, attempt>>

\* The comparison failed: mutateTopic waits, CreateTopic gives up at once.
PutFails(c) ==
    /\ pc[c] = "put"
    /\ ~Unchanged(c)
    /\ attempt' = [attempt EXCEPT ![c] = @ + 1]
    /\ Goto(c, IF op[c].kind = "create" THEN "contention" ELSE "wait")
    /\ UNCHANGED <<record, rev, op, read, readRev>>

\* Slip: the retry writes what it read the first time.
RetryPut(c) ==
    /\ pc[c] = "wait"
    /\ Goto(c, IF attempt[c] = MaxRetries THEN "contention" ELSE "put")
    /\ UNCHANGED <<record, rev, op, read, readRev, attempt>>

\* After 100 ms the loop goes on, if it has a round left.
Retry(c) ==
    /\ pc[c] = "wait"
    /\ Goto(c, IF attempt[c] = MaxRetries THEN "contention" ELSE "get")
    /\ UNCHANGED <<record, rev, op, read, readRev, attempt>>

\* The etcd call fails, or the caller's context is done.
CallFails(c) ==
    /\ pc[c] \in {"get", "put", "wait"}
    /\ Goto(c, "error")
    /\ UNCHANGED <<record, rev, op, read, readRev, attempt>>

\* etcd commits the transaction and the answer is lost.
PutUnanswered(c) ==
    /\ pc[c] = "put"
    /\ Unchanged(c)
    /\ Write(c)
    /\ Goto(c, "error")
    /\ UNCHANGED <<op, read, readRev, attempt>>

Step(c) ==
    \/ GetTopic(c) \/ PutSucceeds(c) \/ PutFails(c) \/ Retry(c)
    \/ CallFails(c) \/ PutUnanswered(c)

Next == \E c \in Caller : Step(c)

Spec == Init /\ [][Next]_vars

-----------------------------------------------------------------------------
(* Properties.                                                             *)

TypeOK ==
    /\ record \in Record \cup {NoTopic}
    /\ rev \in Nat
    /\ op \in [Caller -> Operation]
    /\ pc \in [Caller -> {"get", "put", "wait"} \cup Outcome]
    /\ read \in [Caller -> Record \cup {NoTopic}]
    /\ readRev \in [Caller -> Nat]
    /\ attempt \in [Caller -> 0..MaxRetries]

\* TopicMetaStore behaves as if each operation were one atomic step: no update
\* of one partition undoes a concurrent update of another, a topic is created
\* once, and a call that reports contention or refusal had no effect.
outcome == [c \in Caller |-> IF pc[c] \in Outcome THEN pc[c] ELSE "pending"]
Atomic == INSTANCE TopicMetadataAtomic
              WITH record <- record, op <- op, outcome <- outcome
IsAtomic == Atomic!Spec

\* The ISR of every partition is part of its replicas (PartitionsParams says
\* so), although a node marks itself in sync while the controller removes it.
IsrWithinReplicas ==
    record # NoTopic =>
        \A p \in Partition : record[p].isr \subseteq record[p].replicas

\* mutateTopic reports contention only to a caller that was overtaken by
\* MaxRetries writes of others; CreateTopic to one overtaken by a creation.
GivesUpOnlyOvertaken ==
    \A c \in Caller : pc[c] = "contention" =>
        IF op[c].kind = "create" THEN rev > 0 ELSE rev > MaxRetries

\* What PartitionsParams says of ReplicasNodeId: the leader is one of them.
LeaderIsReplica ==
    record # NoTopic =>
        \A p \in Partition : record[p].leader \in record[p].replicas

=============================================================================
