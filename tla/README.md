# kafka-clone: a verification project

TLA+ models of the broker of this repository (`src/server`), the TLC runs that
check them and the theorems TLAPS proves about them. Paths below are relative to
`src/server/` unless they begin with `src/`.

1. [The system](#1-the-system): components, state, operations, what is hard
2. [Modules](#2-modules) and how they correspond to the code
3. [Runs](#3-runs): what each shows, bounds, fairness
4. [Where the code does something else than its comments say](#4-disagreements)
5. [Proofs](#5-proofs)
6. [What is not modelled](#6-what-is-not-modelled)
7. [Plan](#7-plan)

## 1. The system

A cluster of brokers stores topics. A topic has partitions; a partition is an
append-only log of records on the disks of its replicas. One replica is the
partition's leader. etcd holds all shared metadata: the registration of each
node under a lease (`/kafka/nodes/<id>`), the controller and its epoch
(`/kafka/controller/state`), one JSON value per topic (`/kafka/topic/<name>`),
and reports of local data. One broker is elected controller; it places new
topics and replaces lost replicas. Clients speak a framed TCP protocol (produce,
consume) and a gRPC/HTTP control protocol.

### Components

| component | state | operations | correct if |
|---|---|---|---|
| Produce path, `broker/topic_proccessor.go` | replica list of each partition | `ReplicateAndAppend`, `invalidateReplicas` | an accepted record is on every in-sync replica, at one offset; a producer is always answered |
| Partition, `broker/partition_proccessor.go` | `nextOffset`, `baseOffset`, `syncState`, active and closed segments, lifecycle state, condition variable | `AppendEntry`, `TryApplyPush`, `InvalidateOffset`, `ReadBatch`, `TryFinalizeInSync`, `readFrom`/`getStream`, `CleanOldMessages`, `recoverSegments`, `StopAndRemove` | the log is what was appended and not rolled back; readers see it in order |
| Segment, `persistent/aol/segment.go` | file, index, size, next offset | `Append`, `TruncateFrom`, `Read`, `recoverIndex` | index and file agree, through failures and crashes |
| Broker, `broker/broker.go` | role, peers, pool | handlers of the above, `CatchUpPartition`, `DeleteTopicPartition` | a replica that joined the ISR has the leader's log |
| Topic metadata, `cluster/topic_metadata.go` | the topic keys | `PutTopicCAS`, `mutateTopic`, three mutators | concurrent updates are atomic; ISR within replicas |
| Coordinator, `cluster/etcd.go`, `cluster/node.go` | lease, role, epoch, election context, `paused`, watches | `PutNodeState`, `electionLoop`, `watchMetadataLoop`, `handleSessionLoss`, `recoveryLoop`, `watchTopicLoop`, `watchNodesOnce` | one controller per epoch; a dead one is replaced; nobody registered is deposed |
| Controller, `cluster/controller.go`, `control_api.go` | `members`, `rebalanceCh` | snapshot diff, join/leave, rebalance worker, reconcile loop, `CreateTopic` | members follow the registrations; shortages end; no over-replication; even placement |
| Local reports, `cluster/local_state.go` | one key per node | `Put`, `ListAll` | prefer a node that has data |
| Pool, `broker/pool.go`, `broker/topic_proccessor.go` | processors by topic and partition | `EnsureTopic`, `EnsurePartition`, `DeletePartition`, `RemoveTopic`, `RestoreData` | a node hosts what it is assigned; a partition's files survive being taken away and given back |
| Cluster view and routing, `cluster/cluster_view.go`, `control_forward.go`, `grpc/control_server.go`, `http/handler.go` | a cached view under a lock | `readClusterView`, `CreateTopicRouted`, `CreateTopic`, describe and overview calls | the answer to a creation is true; views do not go back |
| TCP server, `broker/tcp.go` | connections, a pool of buffers | accept, frame, dispatch, respond | each connection runs and answers its own command |
| Event streams, `http/command_context.go`, `http/handler.go` | a writer, its lock, a context | stream writer, heartbeat | an abandoned stream ends; writer and heartbeat end each other |
| Process, `main.go`, `helper/lifecycle.go` | contexts | start, signal, stops in order | clients are told; that the process ends is promised by nothing (two stops have no limit) |
| Event bus, `cluster/eventbus.go` | bounded channels, subscribers | `Publish`, `run`, `Subscribe`, `Unsubscribe` | a gap disconnects the subscriber |
| Client, `src/client` | one request | `produce`, `consume`, `topic` | it hears of its request |
| Mock store, `persistent/db` | none | | |

### Interaction

* A producer's command runs in its own goroutine on the partition leader:
  read the replica list, read the next offset, push to all replicas in parallel
  (one second), count the ISR, append locally; if the append fails, send
  roll-backs (three seconds).
* The topic watch of every node turns the topic value into local state: leader
  and members of the ISR go straight to `InSync`, other replicas start a
  catch-up goroutine, nodes no longer listed delete the processor (not the data).
* The catch-up goroutine fetches batches from the leader until it has reached
  the high watermark of an answer, flips the partition to `InSync`, and writes
  the ISR with a compare-and-swap.
* The node watch feeds `members`; on the controller a leave event queues the node
  for the worker; the reconcile loop looks for shortages every five seconds.
* Election and session recovery share the role, the lease id and a cancellable
  context.
* A command-line client asks any node for the leader or an in-sync replica, then
  sends one framed request on one connection; a browser talks to one node, which
  forwards a topic creation to the controller.
* After a signal the process cancels its contexts, stops the two gRPC servers, the
  coordinator, the web server and the broker, in this order. The first three have no limit
  of time.

### What is hard

No lock spans a produce, so producers, pushes, roll-backs, catch-up and topic
events interleave freely; every RPC may be lost or arrive after its sender has
given up; every broker may restart with its disk only; every etcd call may fail
or be executed without an answer; watches deliver late. `PROJECT.json` lists each
hazard at its line, with the properties that cover it or the reason why none
does.

## 2. Modules

| module | models | kind |
|---|---|---|
| `PartitionReplication` | one partition on its leader and followers: produce, push, roll-back, catch-up, topic watch, assignment, restart | system |
| `TopicRecord` | the value of a topic key and the mutators as operators | data |
| `TopicMetadataAtomic` | what the store promises: each operation atomic | abstract specification |
| `TopicMetadata` | `GetTopic` / `PutTopicCAS` with revisions, retries, failed and unanswered calls | implements the above |
| `ControllerElection` | registration, leases, election, metadata watch, session loss and recovery | system |
| `Segment` | one segment file with its index, as operators | data |
| `PartitionLog` | closed and active segments on a disk that fails; rotation, roll-back, retention, recovery | system, built on `Segment` |
| `ConsumerPromise` | what a live consumer is promised, over the variables it takes to say it | properties |
| `PartitionStream` | consumers that read the history and then follow the log | system, keeps the above |
| `Placement` | loads, placement of a topic, choice of a replacement, as operators | data |
| `Rebalance` | the controller: node watch, queue, worker, reconcile loop, `CreateTopic` | system, built on `Placement` |
| `PartitionHosting` | one broker's pool: the topic watch, pushes and catch-ups against processors that come and go | system |
| `TopicRouting` | topic creation through any node, and the cached views of the nodes | system |
| `AnswerPromise` | what the clients of the TCP server are promised of their requests | properties |
| `Connections` | TCP connections with their buffers, event streams, clients, shutdown | system, keeps the above |
| `EventFeed` | what the event bus promises: one feed, no gaps | abstract specification |
| `EventBus` | the dispatcher with its bounded channels | implements the above |
| `MC*` | instances for TLC | |
| `PartitionReplicationProofs`, `TopicMetadataProofs`, `ControllerElectionProofs`, `PartitionLogProofs`, `RebalanceProofs`, `PartitionHostingProofs`, `TopicRoutingProofs` | theorems about the module each is named after | proofs |
| `ClientProofs` | theorems about `EventBus`, `PartitionStream` and `Connections` | proofs |

How they fit: `PartitionReplication` takes the log as a sequence, `PartitionLog`
shows that segments on disk implement such a sequence (`ReadsBackStored`).
`PartitionReplication` and `Rebalance` take an update of a topic as one step;
`TopicMetadata` shows that the compare-and-swap loop implements it (`IsAtomic`).
`Rebalance` lets its node win and lose the controller role at any time, which
includes everything `ControllerElection` allows.

`PartitionReplication` takes a processor as a flag of the node; `PartitionHosting`
keeps the processors apart as instances, several partitions to a topic, with the
leaders reduced to a log of fixed length. `TopicRouting` takes the controller and
the registrations as given (`ControllerElection`), `Connections` takes the produce
and the read behind a command as one step.

Definitions named `Slip:` in their comments are deliberate errors, used by no
specification; each property is tried against one of them, and must fail.

### PartitionReplication

`log[n]` is the sequence of the records on the disk of `n`; the record of offset
`o` is `log[n][o + 1]`, `nextOffset` is its length, and a record is named by the
produce request it came from. `hosted` and `syncState` are the processor of the
partition; `view` is the replica list of the leader's processor (followers have
one too and never read it). `versions` is every value the topic key had, `seen`
the last one a node's watch has applied. `pushes`, `acks` and `invals` are calls
on the way; nothing forces one to arrive. `pc`, `snapshot`, `target` are the
local state of `ReplicateAndAppend`, `catchUp` that of `CatchUpPartition`; `stopped` are
the requests whose processor was deleted under them: they go on with its `nextOffset`,
push, and are refused at the commit (`CommitRefused`).

Granularity: a step is what the code does under one lock or between two
blocking calls. Reading the replica list (`:203`) and reading the offset
(`:206`) are two steps, the pushes a third, counting (`CollectAcks`) and
`Commit` are separate. The wait for pushes ends after any subset of the sent
calls has been answered, because of its one-second limit. `FetchLog` request and
answer are one step: the follower applies one answer before it sends the next
request.

The leader's identity never changes, because no code writes `LeaderNodeId` after
`CreateTopic`; but the leader may be taken from the replicas, and deletes its processor
then (`LeaderTakenAway`), and may be added again. A catch-up that finds no client for the
leader ends for good (`CatchUpFindsNoClient`): the watch of the nodes starts beside the
watch of the topics, also after a restart, and may not have brought the leader yet.

Simplifications: to a push or a roll-back a peer without a gRPC client is one whose call is not
delivered; a follower's handler that still holds a deleted processor answers like a
rejection (`PartitionHosting` keeps them apart); a write that fails leaves nothing behind.
That a failed fsync leaves the record in the file is in `PartitionLog` only: the
properties here do not cover it.

### TopicMetadata

`key` and its revision against callers that read, mutate, and write by
comparison. `PutUnanswered` executes the Put and reports an error. Its
refinement to `TopicMetadataAtomic` maps each operation to the step at which its
Put is executed.

### ControllerElection

The state key is the sequence `elected` of its leaders: each successful claim
adds one to the epoch it compared with. `live` are leases etcd holds, `keepers`
the keepalive goroutines, `losing` one that is about to call
`handleSessionLoss`. `loop` is `electionLoop` between its etcd calls; `hold` is
the wait at `cluster/etcd.go:468`. `recovery` is `recoveryLoop`, which runs exactly
while `paused` is set. `gap` is a history variable: the leader's key was gone
at some time since its election.

Simplifications: a role switch is one step (it runs under `n.mu`); a cancelled
loop has ended before recovery starts a new one (recovery sleeps two seconds
first, the loop ends at its next etcd call); `publishOwnRole` writes what only
users see; the metadata watch stays up.

### Segment, PartitionLog

All operations on a partition's log hold its mutex, so each is one step with all
its file operations, and a failure ends the step where the code returns. Records have
equal size, a torn record is `Torn`. `acked` is the history: values reported as
stored and not rolled back. `budget` counts failures still possible, of each
kind (`write`, `sync`, `rotate`, `remove`, `crash`). A crash loses nothing that
was synced; the record being written may be absent, torn or whole.

Simplifications: a `NewSegment` that fails leaves no file; the truncation after
a failed write succeeds (its error is dropped, `persistent/aol/segment.go:82`); recovery
reads its directory and opens its files: when it cannot, the error is logged and the processor
has no active segment (`broker/partition_proccessor.go:102`), which is not modelled.

### PartitionStream

`log` keeps all records, `baseOffset` is moved by retention. A stream is
`readFrom` (lock, unlock, lock, read the history) and then the goroutine of
`getStream` at the points where it releases the mutex: `check`, `look`,
`asleep`, `send`. `waker` is the goroutine that broadcasts when the request ends, which
`ctxDone` says. The variables the promises speak of, with the promises, are in
`ConsumerPromise`, which this module extends.

### Placement, Rebalance

One coordinator, `self`, and etcd. `events` is the watch channel, `calls` the
handler calls the current snapshot still has to make, `members`, `queue` and
`paused` are the fields of `NodeCoordinator`. `worker` and `filler` are
`runRebalanceWorker` and the reconcile loop between two etcd calls; each keeps
what it read (`todo`, and for the filler the replicas it saw). `plan` is a
`CreateTopic` between its view of the cluster and its Put. Placement and choice
of a replacement follow the sorts of the code, ties by id.

Simplifications: one `CreateTopic` per name at a time (a second one fails its
compare-and-swap, which `TopicMetadata` covers); partitions of a list are worked
off in the order of topic and number; offsets in the reports are abstracted to a
choice among the reporters; all of `recoveryLoop` is one step.

### PartitionHosting

`versions` are the values of the topic key, reduced to what the node is to each
partition; `seen` and `next` are the value and the partition the topic watch is at,
`closing` the processors it has taken out of the pool and not closed yet. `procs` are
all processors there have been, `hosts` the pool, `disk` the files, which outlive the
processors. `push` and `catchUp` are the goroutines that hold a processor; `syncing` is
the map of `startCatchUp`. A segment holds `SegmentRecords` records: an append to a full
one opens a file, which is how a closed processor can become writable again
(`Writable`). `adrift`, `early` and `failed` are history.

Simplifications: the node is never the leader; each leader has `LeaderRecords` records
and pushes bring one more; pushes that change nothing are left out; batches have one
record; `RestoreData` begins with any partition and ends with it; the processors `RemoveTopic`
reaches are marked as closing in one step, and closed one after another, where the code
finds each only when it comes to it (`pool.go:87`): the topic is out of the pool already, so
only a push or catch-up that holds the processor can still write to it, and what it writes in
between it might as well have written before. The deletion of a
topic comes from outside: no code of the repository deletes a topic key, the handler for
it exists (`applyTopicDelete`).

### TopicRouting

`versions` is what etcd has held, registered nodes, leader and the topic, one for each
revision, so a view is a number. `cache` and `viewMx` are `viewCache` and the lock that
is held during the call of etcd; `got` is the view a goroutine works with. `role` follows
the leader late. A request has the node it came to (`entry`) and the node whose
`CreateTopic` works on it (`on`); the two differ for a forwarded one, and then the call
may fail for its sender at any moment while the other side goes on. The expiry of a cached
view is the choice between `TakeCached` and `Fetch`.

Simplifications: all requests create one topic; validation of names and counts and a
controller without an address are left out; a read that fails leaves no trace.

### Connections

`conn` is `handleConnection` of each connection with the buffer it holds; `pool` and
`buffer` are `reqbodyPool` and what its buffers contain, each reduced to the connection
whose request or reply it is. `web` is an event stream: the stream writer, the heartbeat, the lock
of `sseResponder`, the context. `peer` is the other end, which reads, stalls, or has gone;
the first write after it has gone is lost, later ones fail. `outcome` is what the client
of a connection has been told. `ran` and `answers` are history, declared in `AnswerPromise`
with what it says of them.

Simplifications: `sync.Pool` gives a pooled or a new buffer; whether the leader refuses, the
partition is empty, reading fails, or an answer exceeds a frame is a choice. The steps of
the shutdown follow each other (`Phase`) and none has to happen: the graceful stops of the
gRPC servers and `Close` of the coordinator have no limit of time, so the code does not
promise that the process ends. A message that announces no body is closed without a word
(`HangUp`). A follow connection whose client has gone ends with its next record or the shutdown,
as in the code; streams over HTTP end by their heartbeat.

### EventFeed, EventBus

Each branch of the dispatcher's `select` is a step, so is each `select` of `Publish`
and `Subscribe`. The refinement maps the feed to the accepted events, the position to the dispatched ones,
and a subscriber's view to what its client has read followed by what waits in its channel.
No code of this commit creates a bus.

## 3. Runs

All bounds are CONSTANTS of the modules and appear as guards of the actions that
spend them.

| run | properties | bounds | states |
|---|---|---|---|
| fixed_isr | `TypeOK`, `AcceptedIsDurable`, `IsrHoldsLeaderLog`, `ProduceIsAnswered` | 2 followers, 3 requests, all in the ISR, 2 disk errors, 1 restart | 154 050 |
| changing_isr | `AtMostOneAhead`, `RecordsAtTheirOffset`, `ProduceIsAnswered`, `ReplicasJoinIsr` | 1 follower, 2 requests, only the leader in the ISR; 1 disk error, 2 restarts, 1 failed call, 2 of these faults in all beside 1 assignment, or 2 assignments | 485 934 |
| lost_append | `IgnoredAppendIsRepetition` | leader alone in the ISR | violated |
| topic_metadata | `IsrWithinReplicas`, `GivesUpOnlyOvertaken`, `IsAtomic` | 4 callers, 2 nodes, 2 partitions, 2 rounds | 1 918 035 |
| election | `OneControllerPerEpoch`, `RegisteredIsNotDeposed`, `DeadControllerReplaced` | 2 nodes; 2 crashes, 1 lost session, 1 failed call, 2 of these in all | 520 187 |
| partition_log | `ReadsBackStored`, `ReadableFromBase`, `BaseMovesForward` | 2 records a segment, 7 appends, 1 failure of each kind, 2 crashes | 533 755 |
| stream | `StreamFollowsLog`, `NoWakeUpIsLost`, `StreamCatchesUp`, `CancelledStreamEnds` | 1 stream, channel of 1, 4 appends, 1 roll-back | 123 925 |
| rebalance | `OneReplicaTooMany`, `MembersSettle`, `PlacedEvenly`, `MembersConverge`, `ShortageEnds` | 3 nodes, 1 topic, queue of 1, 2 losses, 1 return, 1 fault | 232 483 |
| hosting | `FilesInOrder`, `HostsWhatItShould`, `ReplicaJoins` | 2 partitions, 1 push at a time, segments of 1 record; nothing hosted, 3 changes, 1 fault; or all hosted, 2 changes, no fault | 503 072 |
| topic_routing | `AnswersTellOutcome`, `ReadYourCreate`, `ViewsMoveForward` | 2 nodes, 1 creation by HTTP and 1 by the client, 1 reader, 1 change, 1 error | 6 393 922 |
| connections | `RunsWhatWasSent`, `AnswersItsOwn`, `StreamsEndTogether`, `AbandonedStreamEnds`, `ClientHears` | 2 connections, 1 stream, 1 record, 2 opened in all, 1 turn | 668 514 |
| event_bus | `HoleIsSignalled`, `IsFeed`, `ToldOfLoss` | 2 subscriptions, 2 publishers, channels of 1, 3 events | 270 529 |

Deadlock checking is off in all runs but connections: once requests, faults and
appends are used up, the models stop, and so may the system. In connections the only
end is the exit of the process, and TLC looks for every other one.

**fixed_isr.** Three requests are the least with which an accepted record, a
failed one at the same offset and a third one behind them can meet; two
followers distinguish "all" from "some" in the quorum; two disk errors let one
hit the leader's commit and one a roll-back. No reassignment, since the
property is about a fixed ISR. `ProduceIsAnswered` is liveness: the leader's handlers
take a step that stays possible (the Go scheduler runs goroutines, timeouts end waits),
and no push or roll-back need ever be delivered.

**changing_isr.** The same code with everything on that moves the ISR: up to two
assignments, of the follower or of the leader itself (remove and add again), a failed
call, two restarts, a disk error. Two faults meet beside one assignment, none beside two
(`FewFaults`, a state constraint: no fair action needs a fault or an assignment, so it cuts
no fair behaviour short). The safety properties are proved without these bounds.
What survives: logs never disagree about an offset's record beyond what the code
promises (`RecordsAtTheirOffset`, `AtMostOneAhead`). `ProduceIsAnswered` is here because
the processor may be deleted, and hosted again, while a produce holds it, or the leader
restart: the produce must be refused, not wait. `ReplicasJoinIsr` assumes in
addition that the topic watch delivers and the catch-up goroutine runs; it is conditional
on no write, call or assignment having interfered, because the code does not repeat a
failed catch-up until the topic changes. A catch-up that finds no client for the leader is one
of these failed calls: after a restart nothing in the code makes the node know its peers
before the catch-up begins, and the property does not hold of such a start. Of all other restarts it does.

**topic_metadata.** Four callers are enough for one to lose all of its two
rounds against two others while a fourth has an unanswered write. Two nodes, two
partitions: a mutation of one partition must not disturb the other.

**election.** Two nodes, any two faults, also two crashes (`FewFaults`, as above; safety is
proved without it). Fairness: loops, recovery, watch; a
lease nobody keeps expires; a keepalive goroutine notices. Not fair: start of a process,
faults, snapshots. With a lost session or a failed call `DeadControllerReplaced` does not
hold (see `FollowerChecksLeader` below: the loop that holds for ever is the reason), so it
is about runs with neither. Two crashes, in any states, show what else it must except: a
leader that crashes and comes back while the claim of another node is under way reads
itself in the state key (`cluster/etcd.go:379`) and holds an office that the claim then ends; when
the other node crashes too, it does not look again. `Outlived` names such a node; without
the exception the property is `SomebodyClaims`, which fails (below).

**partition_log.** Segments of two records and seven appends give four segments,
so that retention can delete some and leave some; one failure of each kind and
two crashes let a failure hit during the recovery from another. The properties
are conditional: not after a failed fsync (a record may be in the file and not
in the index) and not after a failed rotation (the active segment is then also
among the closed ones). Both are real states of the code; what it promises there
is nothing.

**stream.** One stream with a channel of one, four appends, one roll-back:
streams do not interact except by the broadcast, which wakes all. Fairness:
the stream's goroutine, its waker, the consumer's handler and a deletion under
way. Not fair: appends, cancellation. `NoWakeUpIsLost` is the safety behind the two liveness
properties, for every step: whoever sleeps has sent what there is, and if its consumer
has gone its broadcast is still to come. It excepts a deleted partition, where the code
fails (`WokenWhenCancelled`, section 4).

**rebalance.** Three nodes, a topic of one partition with two replicas or of two
partitions with one, a queue of one, two losses, one return, one fault: the
least with which the queue overflows and the worker meets the reconcile loop on
the same partition. Fairness: the watch goroutine, worker, reconcile loop,
recovery. `MembersSettle` is the safety behind `MembersConverge`: whenever a watch stands and
everything it has brought is handled, the members are the registered nodes, not only in the
end. `PlacedEvenly` says that the loads of two nodes differ by one at most as long as
no registration was lost, if clients ask for one topic at a time; the code does not
make them. Two creations that overlap place on views that miss each other: two topics of
one partition go to the same node. One topic in the run leaves the condition to no
chance; the property was also checked with two topics and one loss, and with three topics
and no losses, where creations do overlap, and it is proved for any number of topics.

**hosting.** Two partitions, since `RemoveTopic` goes wrong only if a partition other than
the first is hosted alone; segments of one record, so that each append may open a file. From
a node that hosts nothing three changes give it both partitions and take one away, or give
it one, take it away and give it back, or delete and create the topic, while a push and up
to three catch-ups hold a processor; from a node that hosts both, two changes do the same
to one of them beside the other's catch-up. The fault is a catch-up of
`RestoreData` beside the watch's, or a failed call. `FilesInOrder` excepts the partitions
whose processor a deletion has left open or a late push has reopened, `ReplicaJoins`
those given a new processor during a catch-up: the code fails there (section 4). The last
part of `HostsWhatItShould` is the safety `ReplicaJoins` rests on: with every value
applied, a replica that is not in the ISR has a catch-up at work. Fairness: the topic
watch and the catch-ups it has started.

**topic_routing.** One request that a node forwards and one whose client follows a hint,
racing for one topic, on two nodes of which either may lead, lose its registration or learn
late of its role. One change and one error are enough for a request to arrive at a node
that no longer leads, and for an answer to be lost. Safety only. The requests are not
symmetric (one is the command line's); the nodes are.

**connections.** Two connections, so that a buffer passes from one to another; a client may
stall once, or go, at any moment; the signal may come at any moment, and the shutdown stop
at any of its steps; a stream may be live or not. Fairness: every goroutine that can run
does, and the ticker ticks; no client has to read or leave, no signal has to come and no
shutdown to end. `ClientHears` excepts clients that have stopped reading and live consumers.
`StreamsEndTogether` is the safety behind `AbandonedStreamEnds`: the two goroutines of an
event stream, the lock and the context. The same configuration checks the safety part of
`ClientHears`, `WaitsOnlyIfServed` (whoever waits has a handler), when it replaces the
invariants. Both are proved.

**event_bus.** Channels of one, two publishers and three events: the signal channel is
full, absorbed, and read between two refusals. The channels of the code hold 256 and 64
events; nothing depends on their size but how often they are full. Fairness: the branches
of the dispatcher's `select` (Go picks at random among the ready ones), publishers that have begun, clients
that read.

## 4. Disagreements

One listed run is expected to fail; it contradicts a comment of the code (quoted in
`PROJECT.json`, `findings`).

* **lost_append**: `AppendEntry` says an append to an offset already written is
  a safely ignored repetition. Two concurrent producers on a leader whose ISR
  is itself alone read the same offset; the second append is ignored, and its
  producer is told of success. With an in-sync follower this cannot happen
  (`AcceptedIsDurable`, proved): the follower accepts only one of the two pushes.

The modules state further claims of comments and messages, each under a heading of its
own, that the code does not keep. TLC finds each of them violated when it replaces the properties of
the named configuration (`MCUnkept.cfg` is complete as it is):

| configuration | property | what the code does |
|---|---|---|
| `MCChangingIsr` | `InSyncMissesNothing` | a push rejected during catch-up commits after the watermark was read (`partition_proccessor.go:638`): the replica joins the ISR without the record |
| `MCChangingIsr` | `FetchReportsWatermark` | `broker.go:588` answers watermark 0 for a partition not hosted yet |
| `MCChangingIsr` | `RollBackSparesCommitted` | a late roll-back compares the offset only (`partition_proccessor.go:521`) |
| `MCFixedIsr` | `FailedProduceRolledBack` | `topic_proccessor.go:300` returns without rolling back |
| `MCTopicMetadata` | `LeaderIsReplica` | `RemoveNodeFromPartition` removes the leader, `LeaderNodeId` stays |
| `MCElection` | `FollowerChecksLeader` | a late event of the previous leader turns the elected controller into a follower, while its loop waits at `etcd.go:468` |
| `MCElection` | `SomebodyClaims` | a leader that came back during another node's claim holds an office that is over (`etcd.go:379`) and does not claim when the new leader dies |
| `MCElection` | `DeposedIsFollower` | a controller switches to its role after a later leader's event |
| `MCElection` | `PausedIsNotController` | an answer that arrives after the session loss still makes a controller |
| `MCElection` | `KeysAreLeased` | the claim writes the node's key with lease 0 (`etcd.go:452`) |
| `MCUnkept` | `UnpausedIsKept` | a session lost while recovery ends is ignored (`etcd.go:267`) |
| `MCLog` | `IndexIsPosition` | a failed fsync leaves the record in the file, not in the index |
| `MCLog` | `LastRecordInActive` | after a rotation whose append failed the last record is in a closed segment |
| `MCStream` | `WokenWhenCancelled` | on a deleted partition the sleeper is woken and sleeps again |
| `MCStream` | `RealRecordIsSent` | after a roll-back the cursor stays behind the replacement record |
| `MCRebalance` | `NeverLosesItself` | a controller queues its own expired registration |
| `MCRebalance` | `LostNodesReplaced` | a lost node that was not queued stays a replica: the reconcile loop counts it |
| `MCHosting` | `RemovesAll` | `RemoveTopic` ranges over the indexes of the list of partitions (`pool.go:87`): a partition with a greater id stays open |
| `MCHosting` | `DeletedDoesNotWrite` | `TryApplyPush` does not look at the state of the processor |
| `MCHosting` | `EveryReplicaJoins` | a partition given back during its earlier catch-up gets no new one (`etcd.go:856`) |
| `MCHosting` | `AnnouncedIsInSync` | the catch-up of a replaced processor puts the new one into the ISR |
| `MCTopicRouting` | `CreatedByController` | the role is checked once, at `control_api.go:102`; a deposed controller writes the topic |
| `MCTopicRouting` | `SameStatusEverywhere` | a refusal that was forwarded arrives as text (`control_forward.go:119`), and becomes 400 instead of 409 |
| `MCTopicRouting` | `NotControllerMeansNone` | a controller deposed in between answers `not_controller` to the forwarded call |
| `MCConnections` | `ClientsAreDone` | `Broker.Shutdown` waits for a group nobody joins (`broker.go:162`) |
| `MCConnections` | `NothingMeansNone` | a consume that failed closes the connection, and the client prints "no messages in requested range" |
| `MCEventBus` | `NothingAfterHole` | the dispatcher may hand out later events before it takes the overflow signal |
| `MCEventBus` | `GoneIsRemoved` | a caller whose context ends keeps its entry until its channel overflows |

## 5. Proofs

Every safety invariant and every action property of the passing runs, both
refinements, and the safety part of several liveness properties are proved by TLAPS, in eight modules without gaps, for every value of the
constants that satisfies the modules' assumptions. These say that bounds are natural
numbers and that capacities and sizes are positive; that nodes and topics
are named by numbers, and in `Placement` that the nodes are finitely many; that a "none"
value or a torn record is none of the others; and that initial values are well-formed. The
broker's own node is one of the nodes (`SelfAssumption`). Sets of requests, connections,
consumers and publishers may be of any size.

**PartitionReplicationProofs.** `TypeCorrect`: types. `OneAhead`: no replica runs
more than one record ahead. `Positions`: a log holds a record only at the offset its
request read. The inductive
invariant `PositionInv` adds to them what is in flight: an offset a request read
is never beyond the leader's log (`TargetsInLeaderLog`), a push on the way belongs
to a request that has read its offset (`PushesAreStarted`), and what a catch-up has
fetched and not applied is a piece of the leader's log at the place where it will be
written (`BatchesAreLeaderRecords`). `AtMostOneAhead` is not inductive without
these: pushes and batches outlive the state in which they were made. The proofs
have one step per action; `TypeCorrect` comes first and is used everywhere.

`AcceptedStays` and `IsrIsComplete` have the hypothesis `FixedIsr`: every replica is in the
ISR from the start, the ISR has a follower besides the leader, and nobody is reassigned
(`MaxAssignments = 0`). Without the second condition the lost append of section 4 is possible, without
the others the hole. The argument: a follower accepts a push only at its own
next offset, so of the requests that read one offset only one can be acknowledged by
all in-sync followers and commit (`AcksAreOnReplicas`,
`CommittingIsOnAllReplicas`); the leader's log holds exactly the accepted requests
(`LeaderHoldsAccepted`); and a roll-back on the way finds the very record it is about,
one beyond the leader's end (`RollBacksHitTheirRecord`), because that record keeps every
later push out until it is rolled back. `FixedIsrInv` is the conjunction of these
with `PositionInv`.

**TopicMetadataProofs.** `MetadataTypes`, `IsrIsWithinReplicas`,
`ContentionIsReal` and the refinement `CasIsAtomic`: `Init` maps to `Init` and each step to one
operation or a stutter. The invariant says that a caller whose remembered
revision is the current one remembers the current value (`ReadInv`), and that each
round a mutation has lost is one more revision of the key (`RaceInv`).

**ControllerElectionProofs.** `ElectionTypes`; `OneController` (no two
controllers with one epoch); `NoDepositionWithoutReason`. The inductive
invariant is `TypeOK /\ EpochsRight /\ Reasons`. `EpochsRight`: the epoch a loop
holds is not beyond etcd's, a loop about to switch has won the epoch it carries,
and so has every controller the epoch it acts in; the winner of an epoch
never changes because `elected` only grows. `Reasons`: if the recorded leader's key is missing, `gap` is set; and a loop
on its way to claim the epoch after the current one has a `Reason`: the leader's key
was missing at some time since its election, or a call has failed.

**PartitionLogProofs.** The invariant `IInv` is conditional on no fsync and no rotation
having failed, as the properties are. `Good`: each file holds the slice of the log that
begins at its base offset, the last one what is left (`Files`); each segment
indexes its file completely (`Handles`); the list of closed segments has every file but
the active one, in order (`Listed`); `baseOffset` is the first of them. `Chained`, while no
removal has failed either: every file is open and the next one begins where it ends.
The lemmas on slices and handles come first, then one lemma for what a step does to the
files: `RotateKeeps`, `InvalidateKeeps`, `CleanKeeps`, and `CrashLeaves` with
`RestartKeeps`, which take a torn or unacknowledged last record and a failed recovery into
account. `ReadsWhatWasStored` and `LogHasNoHoles` follow by looking up an offset in the
chain; `BaseNeverMovesBack`: the base is the least of the files, retention only takes files away,
and recovery finds those there are and at most one after the last.

**RebalanceProofs.** `AtMostOneTooMany`: the replicas of a partition, plus one if the
worker is about to add to it (`Adding`), plus one if the reconcile loop has it on its list
(`Listed`), are at most the replication factor plus one (`Bounded`). This is not obvious
because the worker and the loop each decide on what they read earlier: it holds
because both look for partitions that are short of replicas, the loop when it makes its
list and the worker before each addition (`Choose`), so that of two additions only the
second can be one too many. It needs that
`PlaceTopic` gives no partition more replicas than asked for. `SpreadEvenly` goes with
the picks of `PlaceTopic` one by one: each takes the least loaded of the nodes not taken
yet, so a table that is even and full stays so (`PlaceNextKeeps`, `PlusKeepsEven`); and as
long as no registration was lost nobody but `CreateTopic` writes (`Untouched`), on a view
that is still true because no other creation is on its way (`OneAtATime`).

`MembersAreRegistered` (`MembersSettle`): the calls a snapshot still has to make, followed by
the events of the watch, are one queue that leads from the members to the registered nodes
(`LeadsTo`). That is, a node the queue says nothing about is right already; and of a node it
does speak of, the last thing it says is the truth. The events of the watch come behind the calls of the snapshot,
so a node that registers while the snapshot is handled has the last word (`NotifiedLeads`); a handler takes the first
of the queue and does what it says (`HandledLeads`); a new watch begins with the difference
of the members and the snapshot (`SnapshotLeads`). `MemberInv` adds that a broken watch leaves nothing
behind, without which the events of the old watch would follow the calls of the new one.

**PartitionHostingProofs.** `FilesStayInOrder` (`FilesInOrder`): of all processors of a
partition there ever were at most one writes, the one in the pool or, while there is
none, the one the watch has taken out and not closed yet, and that one knows the end of
its files (`OneWriter`). `LinkInv` ties pushes, catch-ups and the list of processors to be
closed to processors of the right partition; whoever holds an old processor finds it
closed. `HostsTheRightPartitions` (`HostsWhatItShould`): the value applied last to
each partition, which during a step of the watch is the new one for some and the old one
for the others (`Applied`), decides whether it is hosted and in sync (`StandingInv`);
this needs that a topic is deleted for all of its partitions at once (`Whole`). That a
replica outside the ISR has a catch-up at work is `JoinInv`: `startCatchUp` notes no
partition without one, the watch's catch-up copies to the processor in the pool, and a
hosted partition has one at work, is in the ISR by the value applied last, or has a value
still to come that is not a mere replica's (`Coming`); the catch-up that ends with success
has just written such a value. It needs that nobody is taken from the ISR and left a
replica (`Succession`).

**TopicRoutingProofs.** `RoutingTypes`: types, and one holder of a view's lock at a
time. `AnswersAreTrue` (`AnswersTellOutcome`): `Outcome` says of each request, by where it
is on its way, whether the topic is its own, and that a refusal is the last thing
`CreateTopic` does for it; it needs that the key is written only while it is absent.
`ViewsGoForward` (`ViewsMoveForward`): all that a step can do to a node's view is to leave
or drop it (`Kept`), begin a read (`Fetched`) or end one (`Stored`); `ViewInv` says that
what a node keeps, has shown or is about to show is not newer than the view being read,
which holds because the lock spans the call of etcd. `CreatedIsFound` (`ReadYourCreate`):
the step that tells a client of success forgets the view while nobody holds its lock
(`ToldOf`), and every version after the creation has the topic (`Outcome`), so each later
read finds it. The theorems hold for any number of nodes, requests, elections and failed
calls, and need no fairness.

**ClientProofs.** The event bus: `Invariance` with the invariant `Inv`: the ingress channel
holds the end of what was accepted, a subscription is on the bus only after the dispatcher
took its call, and `HoleIsSignalled`. `HolesAreSignalled` follows, and `ImplementsFeed`: with
the feed's subscriber view mapped to what its client has read followed by what waits in its
channel (`Given`), each step of the bus is one step of `EventFeed` or a stutter; reading is
a stutter because it moves an event from one part to the other (`ReadMoves`).

Live consumers: `RecordsFollowTheLog` (`StreamFollowsLog`). What a consumer has been sent
followed by what waits in its channel is a piece of the log that ends at the stream's
cursor (`FollowsLog`): in order, with nothing between its records, or between the last of
them and the cursor, but what retention has deleted. A record the goroutine holds between
reading and sending is the one at the cursor, or has been rolled back since (`Picked`);
every change of the log keeps both (`ChangeFollows`), since a roll-back remembers the value
it takes.

`NoLostWakeUp` (`NoWakeUpIsLost`). The invariant `WakeInv` adds to the types and the order of
the log, for each stream (`Rests`): the waker of a stream that follows the log is gone only if its
consumer is, or the partition is deleted; nobody sleeps unless its cursor has reached the end
of the log, and nobody whose consumer has gone unless the waker is there. The looks at the log
and at the context and the wait are one step under the mutex; a context that ends after that
look has its broadcast still to come, because the broadcast needs the mutex too.

Connections: `CommandsAreOwn` and `AnswersAreOwn`. Two handlers never have one buffer, and
the buffer of a handler is not in the pool (`Owns`, `Apart`); so from the body to the last
message nobody else writes to it. The header is left out of this on purpose: it may be an
earlier connection's.

`StreamsAreTogether` (`StreamsEndTogether`): the invariant is the property itself with the shape of
a stream's record (`WebInv`, `Together`), one step for each thing the writer and the
heartbeat do. It says why an abandoned stream cannot be stuck: whichever of the two meets the
dead connection cancels the context of the other before it goes, and leaves the lock free.
`WaitersAreServed` (`WaitsOnlyIfServed`): `WaitInv`, through every return of every handler, each
of which either leaves the client's connection open or tells the client something
(`GoesOrTells`).

Only model-checked: all liveness (`ReplicasJoinIsr`, `ProduceIsAnswered`,
`DeadControllerReplaced`, `StreamCatchesUp`, `CancelledStreamEnds`,
`MembersConverge`, `ShortageEnds`, `ReplicaJoins`, `AbandonedStreamEnds`, `ClientHears`,
`ToldOfLoss`), which needs ENABLED and fairness. The type invariants of
`TopicMetadata` and `ControllerElection` are proved (`MetadataTypes`, `ElectionTypes`) and
in no run. What recursion computes is reasoned about by the least element of a set of
numbers, without an induction theorem (`NatMin`, `Counting`): the picks of `PlaceTopic`,
and the segment `FindSegment` chooses.

## 6. What is not modelled

* Presentation: pages, JSON and flags; copies of fields in the gRPC adapters; the
  generated protobuf code.
* Failover of a partition leader: the code has none.
* That a shutdown ends: the code waits without a limit at two of its steps (`main.go:218`).
* The watches on topics and on the controller breaking: the code does not restart
  them, the node stands still from then on.
* MongoDB: a stand-in in memory at this commit.
* `bootstrapAndSyncSequence` and `PushQueue`: not called.
* `auth` and `user`: empty packages.
* Time: leases, tickers and timeouts are choices that may happen at any moment.

## 7. Plan

The modules of section 2, with the proofs of section 5, are done. Next:

1. An abstract log (a sequence with a base) that `PartitionLog` implements as long as no
   fsync and no rotation fails, as a refinement; `PartitionLogProofs` has its invariant.
2. The same for `PartitionReplication` with a fixed ISR: an abstract log that grows by one
   request at a time and is read anywhere in the ISR.
3. Composition of `PartitionReplication` with the controller's replacement of
   replicas, for the life of a partition across several losses.
