----------------------------- MODULE Rebalance -----------------------------
(***************************************************************************)
(* The controller's side of the cluster: one NodeCoordinator, `self', that *)
(* follows the registrations of all nodes (WatchNodes and its handlers),   *)
(* queues the lost ones (enqueueRebalance), repairs the partitions they    *)
(* took part in (runRebalanceWorker), fills up partitions every five       *)
(* seconds (runControllerReconcileLoop) and places new topics              *)
(* (CreateTopic).  The four run concurrently; etcd is shared by all.       *)
(*                                                                         *)
(* The updates of a topic are atomic (what TopicMetadata shows of          *)
(* mutateTopic).  Who is elected is left to ControllerElection: here self  *)
(* wins and loses the role at any time.  The gRPC connections to the peers *)
(* follow members and are left out.                                        *)
(***************************************************************************)
EXTENDS Placement

CONSTANTS
    self,          \* this node
    Request,       \* what a client may ask of CreateTopic: [number, rf]
    QueueCap,      \* capacity of rebalanceCh (64 in the code)
    MaxLosses,     \* bound: registrations that expire
    MaxReturns,    \* bound: nodes that register again
    MaxFaults      \* bound: broken watches, lost elections and failed etcd calls

ASSUME SelfAssumption == self \in Node
ASSUME TopicAssumption == Topic \subseteq Nat
ASSUME RequestAssumption ==
    Request \subseteq [number : Nat \ {0}, rf : Nat \ {0}]
ASSUME BoundsAssumption ==
    /\ QueueCap \in Nat /\ MaxLosses \in Nat
    /\ MaxReturns \in Nat /\ MaxFaults \in Nat

VARIABLES
    registered, \* etcd: nodes with a key under /kafka/nodes/
    table,      \* etcd: the topics
    held,       \* nodes that were ever assigned a partition: they may report data
    watching,   \* watchNodesOnce is past its snapshot
    events,     \* events of the watch not handled yet
    calls,      \* handler calls the snapshot still has to make
    members,    \* n.members
    queue,      \* n.rebalanceCh
    controller, \* Broker.role is Controller
    paused,     \* n.paused: the session is lost and not recovered yet
    worker,     \* runRebalanceWorker
    filler,     \* runControllerReconcileLoop
    plan,       \* placements CreateTopic has made and not written
    budget      \* faults that may still happen

etcdVars  == <<registered, table, held>>
watchVars == <<watching, events, calls, members>>
roleVars  == <<controller, paused>>
vars == <<etcdVars, watchVars, queue, roleVars, worker, filler, plan, budget>>

Event == [kind : {"join", "leave", "missing"}, node : Node]
Ev(kind, n) == [kind |-> kind, node |-> n]

Idle == [pc |-> "idle", dead |-> 0, todo |-> {}, candidate |-> 0]
Key == Topic \X (Nat \ {0})

Init ==
    /\ registered = Node
    /\ table = [t \in Topic |-> NoTopic]
    /\ held = {}
    /\ watching = FALSE /\ events = <<>> /\ calls = <<>> /\ members = {}
    /\ queue = <<>>
    /\ controller = FALSE /\ paused = FALSE
    /\ worker = Idle
    /\ filler = Idle
    /\ plan = [t \in Topic |-> NoTopic]
    /\ budget = [loss |-> MaxLosses, return |-> MaxReturns, fault |-> MaxFaults]

Spend(what) == /\ budget[what] > 0
               /\ budget' = [budget EXCEPT ![what] = @ - 1]

\* The first of a set of partitions in the order ListTopics returns them.
First(keys) == CHOOSE k \in keys : \A l \in keys :
                   k[1] < l[1] \/ (k[1] = l[1] /\ k[2] <= l[2])

-----------------------------------------------------------------------------
(* Registrations in etcd, and the watch on them.                           *)

\* etcd sends an event to a watch that stands.
Notify(kind, n) ==
    events' = IF watching THEN Append(events, Ev(kind, n)) ELSE events

\* The lease of a node runs out: it crashed, or is slow.
Expire(n) ==
    /\ n \in registered
    /\ Spend("loss")
    /\ registered' = registered \ {n}
    /\ Notify("leave", n)
    /\ UNCHANGED <<table, held, watching, calls, members, queue, roleVars,
                   worker, filler, plan>>

\* Another node registers again.
Return(n) ==
    /\ n \notin registered /\ n # self
    /\ Spend("return")
    /\ registered' = registered \cup {n}
    /\ Notify("join", n)
    /\ UNCHANGED <<table, held, watching, calls, members, queue, roleVars,
                   worker, filler, plan>>

\* Slip: the events of the broken watch are still handled.
WatchBreaksLate ==
    /\ watching /\ calls = <<>>
    /\ Spend("fault")
    /\ watching' = FALSE
    /\ UNCHANGED <<etcdVars, events, calls, members, queue, roleVars, worker, filler, plan>>

\* The watch is cancelled, or its revision is compacted; the calls of the
\* snapshot come before the watch and are not lost.
WatchBreaks ==
    /\ watching /\ calls = <<>>
    /\ Spend("fault")
    /\ watching' = FALSE
    /\ events' = <<>>
    /\ UNCHANGED <<etcdVars, calls, members, queue, roleVars, worker, filler, plan>>

\* A call for each node of a set, in the order of the ids.
CallsFor(kind, nodes) ==
    [i \in 1..Cardinality(nodes) |->
        Ev(kind, CHOOSE n \in nodes : Cardinality({m \in nodes : m <= n}) = i)]

\* Slip: the snapshot is a set of joins.
JoinCalls(snapshot) ==
    CallsFor("join", snapshot \ members)
        \o (IF self \in snapshot THEN <<>> ELSE <<Ev("missing", self)>>)

\* onNodesSnapshot: diffMembers, the members that are gone before the new ones,
\* and at last the question whether this node is there.
SnapshotCalls(snapshot) ==
    CallsFor("leave", members \ snapshot) \o CallsFor("join", snapshot \ members)
        \o (IF self \in snapshot THEN <<>> ELSE <<Ev("missing", self)>>)

\* watchNodesOnce: read all registrations, watch from the next revision on.
Bootstrap ==
    /\ ~watching
    /\ watching' = TRUE
    /\ calls' = SnapshotCalls(registered)
    /\ UNCHANGED <<etcdVars, events, members, queue, roleVars, worker, filler,
                   plan, budget>>

-----------------------------------------------------------------------------
(* The handlers of the watch.                                              *)

\* handleSessionLoss: once; the node leaves the election and its role.
LoseSession ==
    IF paused THEN UNCHANGED roleVars
    ELSE paused' = TRUE /\ controller' = FALSE

\* Slip: the queue has no end.
EnqueueAlways(n) == queue' = Append(queue, n)

\* enqueueRebalance: a full queue drops the node.
Enqueue(n) == queue' = IF Len(queue) < QueueCap THEN Append(queue, n) ELSE queue

\* onNodeJoin, onNodeLeave, the end of onNodesSnapshot.
Handle(e) ==
    \/ /\ e.kind = "join"
       /\ members' = members \cup {e.node}
       /\ UNCHANGED <<queue, roleVars>>
    \/ /\ e.kind = "leave"
       /\ members' = members \ {e.node}
       /\ IF controller THEN Enqueue(e.node) ELSE UNCHANGED queue
       /\ UNCHANGED roleVars
    \/ /\ e.kind = "missing"
       /\ LoseSession
       /\ UNCHANGED <<members, queue>>

HandleSnapshot ==
    /\ calls # <<>>
    /\ Handle(Head(calls))
    /\ calls' = Tail(calls)
    /\ UNCHANGED <<etcdVars, watching, events, worker, filler, plan, budget>>

HandleEvent ==
    /\ calls = <<>> /\ events # <<>>
    /\ Handle(Head(events))
    /\ events' = Tail(events)
    /\ UNCHANGED <<etcdVars, watching, calls, worker, filler, plan, budget>>

-----------------------------------------------------------------------------
(* The role and the session of this node.                                  *)

\* At any time: ControllerElection shows that even a paused node may win.
Elected ==
    /\ ~controller
    /\ controller' = TRUE
    /\ UNCHANGED <<etcdVars, watchVars, queue, paused, worker, filler, plan, budget>>

Deposed ==
    /\ controller
    /\ Spend("fault")
    /\ controller' = FALSE
    /\ UNCHANGED <<etcdVars, watchVars, queue, paused, worker, filler, plan>>

\* The keepalive goroutine finds its lease gone.
KeepaliveEnds ==
    /\ self \notin registered /\ ~paused
    /\ LoseSession
    /\ UNCHANGED <<etcdVars, watchVars, queue, worker, filler, plan, budget>>

\* recoveryLoop: the node registers under a new lease.
Recover ==
    /\ paused
    /\ paused' = FALSE
    /\ registered' = registered \cup {self}
    /\ Notify("join", self)
    /\ UNCHANGED <<table, held, watching, calls, members, queue, controller,
                   worker, filler, plan, budget>>

-----------------------------------------------------------------------------
(* Updates of one partition in etcd.                                       *)

AddReplica(k, n) ==
    /\ table' = [table EXCEPT ![k[1]].parts[k[2]].replicas = @ \cup {n}]
    /\ held' = held \cup {<<k, n>>}

RemoveNode(k, n) ==
    table' = [table EXCEPT ![k[1]].parts[k[2]].replicas = @ \ {n}]

\* Nodes whose reports show data of a partition.  Every node reports what it
\* holds every five seconds and its last report outlives it; ListAll may fail.
Reports(k) == SUBSET {n \in Node : <<k, n>> \in held}

\* Slip: the nodes to leave out are forgotten.
PickAnyone(k, exclude, candidate) ==
    \E holders \in Reports(k) :
        candidate \in CandidatesAmongAll(Load(table), members, exclude, holders)

\* pickReplicaCandidate, on the loads and members of the moment; 0 = nobody.
Pick(k, exclude, candidate) ==
    \E holders \in Reports(k) :
        candidate \in Candidates(Load(table), members, exclude, holders)

-----------------------------------------------------------------------------
(* rebalanceAfterNodeLoss, on the next node of the queue.                  *)

\* The worker turns to the next partition of its list, or is done.
NextPart(w) ==
    LET rest == w.todo \ {First(w.todo)} IN
    IF rest = {} THEN Idle
    ELSE [w EXCEPT !.pc = "remove", !.todo = rest, !.candidate = 0]

\* The role may have changed while the node waited in the queue.
Take ==
    /\ worker.pc = "idle" /\ queue # <<>>
    /\ queue' = Tail(queue)
    /\ worker' = IF controller THEN [Idle EXCEPT !.pc = "list", !.dead = Head(queue)]
                 ELSE Idle
    /\ UNCHANGED <<etcdVars, watchVars, roleVars, filler, plan, budget>>

\* ListTopics: the partitions the node takes part in.
List ==
    /\ worker.pc = "list"
    /\ LET lost == {k \in KeysOf(table) : worker.dead \in PartAt(table, k).replicas}
       IN  worker' = IF lost = {} THEN Idle
                     ELSE [worker EXCEPT !.pc = "remove", !.todo = lost]
    /\ UNCHANGED <<etcdVars, watchVars, queue, roleVars, filler, plan, budget>>

\* RemoveNodeFromPartition.
Remove ==
    /\ worker.pc = "remove"
    /\ RemoveNode(First(worker.todo), worker.dead)
    /\ worker' = [worker EXCEPT !.pc = "choose"]
    /\ UNCHANGED <<registered, held, watchVars, queue, roleVars, filler, plan, budget>>

\* Slip: one more replica than asked for counts as enough.
MoreThanEnough(k) == Cardinality(PartAt(table, k).replicas) > FactorAt(table, k)

\* Are there enough replicas without one more?
Enough(k) == Cardinality(PartAt(table, k).replicas) >= FactorAt(table, k)

\* GetTopic again; if replicas are missing and somebody is free, go on with it.
Choose ==
    /\ worker.pc = "choose"
    /\ LET k == First(worker.todo) IN
       IF Enough(k) THEN worker' = NextPart(worker)
       ELSE \E candidate \in Node \cup {0} :
              /\ Pick(k, PartAt(table, k).replicas, candidate)
              /\ worker' = IF candidate = 0 THEN NextPart(worker)
                           ELSE [worker EXCEPT !.pc = "add", !.candidate = candidate]
    /\ UNCHANGED <<etcdVars, watchVars, queue, roleVars, filler, plan, budget>>

\* AddReplicaToPartition.
Add ==
    /\ worker.pc = "add"
    /\ AddReplica(First(worker.todo), worker.candidate)
    /\ worker' = NextPart(worker)
    /\ UNCHANGED <<registered, watchVars, queue, roleVars, filler, plan, budget>>

\* A failed listing ends the work on the node, another failed call the work on
\* the partition.
WorkerCallFails ==
    /\ worker.pc # "idle"
    /\ Spend("fault")
    /\ worker' = IF worker.pc = "list" THEN Idle ELSE NextPart(worker)
    /\ UNCHANGED <<etcdVars, watchVars, queue, roleVars, filler, plan>>

-----------------------------------------------------------------------------
(* reconcileReplication, every five seconds.                               *)

FillerNext(f) ==
    LET rest == {i \in f.todo : i.key # First({j.key : j \in f.todo})} IN
    IF rest = {} THEN Idle
    ELSE [f EXCEPT !.pc = "choose", !.todo = rest, !.candidate = 0]

Current(f) == LET k == First({j.key : j \in f.todo}) IN
              CHOOSE i \in f.todo : i.key = k

\* ListTopics: the partitions short of replicas, with the replicas they had.
Tick ==
    /\ filler.pc = "idle" /\ controller
    /\ LET short == {k \in KeysOf(table) : ~Enough(k)} IN
       /\ short # {}
       /\ filler' = [Idle EXCEPT !.pc = "choose", !.todo =
                        {[key |-> k, replicas |-> PartAt(table, k).replicas] : k \in short}]
    /\ UNCHANGED <<etcdVars, watchVars, queue, roleVars, worker, plan, budget>>

\* The candidate is not among the replicas the list showed.
FillerChoose ==
    /\ filler.pc = "choose"
    /\ \E candidate \in Node \cup {0} :
         /\ Pick(Current(filler).key, Current(filler).replicas, candidate)
         /\ filler' = IF candidate = 0 THEN FillerNext(filler)
                      ELSE [filler EXCEPT !.pc = "add", !.candidate = candidate]
    /\ UNCHANGED <<etcdVars, watchVars, queue, roleVars, worker, plan, budget>>

FillerAdd ==
    /\ filler.pc = "add"
    /\ AddReplica(Current(filler).key, filler.candidate)
    /\ filler' = FillerNext(filler)
    /\ UNCHANGED <<registered, watchVars, queue, roleVars, worker, plan, budget>>

FillerCallFails ==
    /\ filler.pc # "idle"
    /\ Spend("fault")
    /\ filler' = FillerNext(filler)
    /\ UNCHANGED <<etcdVars, watchVars, queue, roleVars, worker, plan>>

-----------------------------------------------------------------------------
(* CreateTopic.                                                            *)

\* The role, the absence of the topic and the number of registered nodes are
\* checked, and the partitions placed, on one fresh view of the cluster.
CreateTopic(t, request) ==
    /\ controller /\ plan[t] = NoTopic /\ table[t] = NoTopic
    /\ Cardinality(registered) >= request.rf
    /\ plan' = [plan EXCEPT ![t] =
                   PlaceTopic(table, registered, request.number, request.rf)]
    /\ UNCHANGED <<etcdVars, watchVars, queue, roleVars, worker, filler, budget>>

\* PutTopicCAS with revision 0.
PutTopic(t) ==
    /\ plan[t] # NoTopic
    /\ table' = [table EXCEPT ![t] = plan[t]]
    /\ held' = held \cup UNION {{<<t, i>>} \X plan[t].parts[i].replicas :
                                  i \in DOMAIN plan[t].parts}
    /\ plan' = [plan EXCEPT ![t] = NoTopic]
    /\ UNCHANGED <<registered, watchVars, queue, roleVars, worker, filler, budget>>

\* The call of etcd fails.
CreateFails(t) ==
    /\ plan[t] # NoTopic
    /\ Spend("fault")
    /\ plan' = [plan EXCEPT ![t] = NoTopic]
    /\ UNCHANGED <<etcdVars, watchVars, queue, roleVars, worker, filler>>

-----------------------------------------------------------------------------
Cluster == (\E n \in Node : Expire(n) \/ Return(n)) \/ WatchBreaks

Watch == Bootstrap \/ HandleSnapshot \/ HandleEvent

Session == Elected \/ Deposed \/ KeepaliveEnds \/ Recover

Worker == Take \/ List \/ Remove \/ Choose \/ Add

Filler == Tick \/ FillerChoose \/ FillerAdd

Create == \E t \in Topic : \/ \E request \in Request : CreateTopic(t, request)
                           \/ PutTopic(t) \/ CreateFails(t)

Next == Cluster \/ Watch \/ Session \/ Worker \/ WorkerCallFails
        \/ Filler \/ FillerCallFails \/ Create

Spec == Init /\ [][Next]_vars

\* The goroutines of the node run, etcd answers them (a call fails a bounded
\* number of times) and a lost session is recovered.
FairSpec == /\ Spec
            /\ WF_vars(Watch) /\ WF_vars(Worker) /\ WF_vars(Filler)
            /\ WF_vars(KeepaliveEnds \/ Recover)

-----------------------------------------------------------------------------
(* Properties.                                                             *)

TypeOK ==
    /\ registered \subseteq Node
    /\ \A t \in Topic : /\ table[t] = NoTopic \/ IsTopic(table[t])
                        /\ plan[t] = NoTopic \/ IsTopic(plan[t])
    /\ held \subseteq Key \X Node
    /\ watching \in BOOLEAN
    /\ events \in Seq(Event)
    /\ calls \in Seq(Event)
    /\ members \subseteq Node
    /\ queue \in Seq(Node) /\ Len(queue) <= QueueCap
    /\ controller \in BOOLEAN
    /\ paused \in BOOLEAN
    /\ worker.pc \in {"idle", "list", "remove", "choose", "add"}
    /\ worker.todo \subseteq KeysOf(table)
    /\ worker.dead \in Node \cup {0} /\ worker.candidate \in Node \cup {0}
    /\ filler.pc \in {"idle", "choose", "add"}
    /\ {i.key : i \in filler.todo} \subseteq KeysOf(table)
    /\ filler.candidate \in Node \cup {0}
    /\ budget \in [loss : 0..MaxLosses, return : 0..MaxReturns,
                   fault : 0..MaxFaults]

\* The worker and the reconcile loop fill up the same partition side by side,
\* each after a check of its own; together they exceed the replication factor by
\* one replica and no more.
OneReplicaTooMany ==
    \A k \in KeysOf(table) :
        Cardinality(PartAt(table, k).replicas) <= FactorAt(table, k) + 1

\* CreateTopic counts the loads on one view of the cluster and writes the topic
\* later, so it is even only if the clients ask for one topic at a time, which
\* nothing enforces: then, as long as no registration was lost, two nodes take
\* part in numbers of partitions that differ by one at most.
OneAtATime ==
    \A t, u \in Topic : plan[t] # NoTopic /\ plan[u] # NoTopic => t = u
Even(count) == \A m, n \in Node : count[m] <= count[n] + 1
PlacedEvenly ==
    []OneAtATime => [](budget.loss = MaxLosses => Even(Load(table)))

\* A watch that stands and is handled to its end has made the members the
\* registered nodes: what is still queued, of the snapshot or of the watch, makes
\* up for every difference, and nothing of an earlier watch is left.
MembersSettle == watching /\ calls = <<>> /\ events = <<>> => members = registered

\* Through every broken watch, what the node knows of the cluster becomes right
\* again: in the end the members are the registered nodes.
MembersConverge == <>[](members = registered)

\* If the node stays controller, no partition stays short of replicas while a
\* node that is no replica of it is a member.
ShortageEnds ==
    <>[]controller =>
        <>[]\A k \in KeysOf(table) :
              Enough(k) \/ members \subseteq PartAt(table, k).replicas

\* onNodesSnapshot: this node has no right to rebalance the cluster on its own
\* loss; so it never queues itself.
NeverLosesItself == \A i \in DOMAIN queue : queue[i] # self

\* enqueueRebalance: a node the full queue dropped is repaired by the reconcile
\* loop; so if this node stays controller, no lost node stays a replica.
LostNodesReplaced ==
    <>[]controller =>
        \A n \in Node : <>[](n \notin members) =>
            <>[]\A k \in KeysOf(table) : n \notin PartAt(table, k).replicas

=============================================================================
