------------------------ MODULE PartitionReplication ------------------------
(***************************************************************************)
(* Replication of ONE partition: the produce path on the partition leader  *)
(* (ReplicateAndAppend, invalidateReplicas), the push and invalidate       *)
(* handlers of the replicas (TryApplyPush, InvalidateOffset), the catch-up *)
(* of a lagging replica (CatchUpPartition, TryFinalizeInSync), and the     *)
(* topic record in etcd that tells every node, through an ordered watch,   *)
(* who holds the partition and who is in sync (applyTopicParams).          *)
(*                                                                         *)
(* A log is a sequence of produce requests; the record at offset o is      *)
(* log[n][o + 1] and nextOffset is the length.  Payload and timestamp are  *)
(* fixed once per request, so a request stands for its record.  Segments,  *)
(* retention and the index are the subject of other modules.               *)
(*                                                                         *)
(* The partition leader never changes in this code (LeaderNodeId is        *)
(* written by CreateTopic only), so it is a constant.  When its node is    *)
(* lost the controller takes it from the replicas like any other node: the *)
(* partition then has no processor on its leader until the leader is added *)
(* again, and keeps its name in LeaderNodeId.                              *)
(*                                                                         *)
(* A disk write that fails leaves nothing here.  A failed fsync leaves the *)
(* record in the file, to come back at the next start (segment.go:91-94);  *)
(* this is in PartitionLog, and no property of this module covers it.      *)
(***************************************************************************)
EXTENDS Naturals, Sequences, FiniteSets

CONSTANTS
    Leader,         \* the node LeaderNodeId names
    Follower,       \* every other node that may be assigned to the partition
    Request,        \* produce requests; each is answered at most once
    InitReplicas,   \* ReplicasNodeId of the topic record at the start
    InitIsr,        \* IsrNodeId of the topic record at the start
    BatchSize,      \* batchSize of CatchUpPartition (500 in the code)
    MaxDiskErrors,  \* bound: failed file writes and truncations
    MaxRestarts,    \* bound: broker process restarts
    MaxAssignments, \* bound: replicas the controller adds or removes
    MaxCallErrors   \* bound: failed FetchLog and MarkNodeInSync calls, and
                    \* catch-ups that find no client for the leader

Node == Follower \cup {Leader}

ASSUME LeaderIsNoFollower == Leader \notin Follower
ASSUME InitMetaAssumption == /\ InitReplicas \subseteq Node
                             /\ InitIsr \subseteq InitReplicas
                             /\ Leader \in InitIsr
ASSUME BoundsAssumption == /\ BatchSize \in Nat \ {0}
                           /\ MaxDiskErrors \in Nat
                           /\ MaxRestarts \in Nat
                           /\ MaxAssignments \in Nat
                           /\ MaxCallErrors \in Nat

VARIABLES
    log,        \* records on the disk of each node
    hosted,     \* the node has a live PartitionProcessor for the partition
    syncState,  \* PartitionProcessor.syncState
    view,       \* replica list (SetReplicas) of the leader's processor
    versions,   \* every value the topic key had in etcd, in revision order
    seen,       \* last version the node's topic watch applied; 0 = none yet
    catchUp,    \* the catch-up goroutine of each follower
    pc,         \* where each produce request stands
    snapshot,   \* replica list the request read at its start
    target,     \* targetOffset of the request
    stopped,    \* running requests whose processor was deleted meanwhile
    pushes,     \* AppendEntries calls not yet handled, <<request, follower>>
    acks,       \* calls the follower answered with Success
    invals,     \* InvalidateLastOffset calls not yet handled
    budget      \* faults and reassignments that may still happen

nodeVars    == <<log, hosted, syncState>>
metaVars    == <<view, versions, seen>>
requestVars == <<pc, snapshot, target, stopped>>
netVars     == <<pushes, acks, invals>>
vars == <<nodeVars, metaVars, catchUp, requestVars, netVars, budget>>

-----------------------------------------------------------------------------
(* The shapes of the state.                                                *)

Meta == [replicas : SUBSET Node, isr : SUBSET Node]
NoMeta == [replicas |-> {}, isr |-> {}]

\* "read": replica list read; "pushing": waiting for the calls to replicas;
\* "committing": ISR quorum reached; "invalidating": rolling replicas back.
Phase == {"idle", "read", "pushing", "committing", "invalidating",
          "accepted", "failed"}
Active == {"read", "pushing", "committing", "invalidating"}

\* stale/old: the processor the goroutine holds was deleted meanwhile, with
\* this nextOffset.  at/batch: offset of, and, the fetched entries left.
CatchUpState == [pc : {"off", "start", "fetch", "apply", "mark"},
                 at : Nat, batch : Seq(Request), hw : Nat,
                 stale : BOOLEAN, old : Nat]
NoCatchUp == [pc |-> "off", at |-> 0, batch |-> <<>>, hw |-> 0,
              stale |-> FALSE, old |-> 0]

Budget == [disk : 0..MaxDiskErrors, restart : 0..MaxRestarts,
           assign : 0..MaxAssignments, call : 0..MaxCallErrors]

NextOffset(n) == Len(log[n])

CurrentMeta == versions[Len(versions)]

\* One of the bounded faults happens.
Spend(kind) == /\ budget[kind] > 0
               /\ budget' = [budget EXCEPT ![kind] = @ - 1]

\* The record at offset o of node n's log is r.
HasAt(n, o, r) == o < Len(log[n]) /\ log[n][o + 1] = r

-----------------------------------------------------------------------------
Init ==
    /\ log = [n \in Node |-> <<>>]
    /\ hosted = [n \in Node |-> FALSE]
    /\ syncState = [n \in Node |-> "Replicating"]
    /\ view = NoMeta
    /\ versions = <<[replicas |-> InitReplicas, isr |-> InitIsr]>>
    /\ seen = [n \in Node |-> 0]
    /\ catchUp = [f \in Follower |-> NoCatchUp]
    /\ pc = [r \in Request |-> "idle"]
    /\ snapshot = [r \in Request |-> NoMeta]
    /\ target = [r \in Request |-> 0]
    /\ stopped = {}
    /\ pushes = {} /\ acks = {} /\ invals = {}
    /\ budget = [disk |-> MaxDiskErrors, restart |-> MaxRestarts,
                 assign |-> MaxAssignments, call |-> MaxCallErrors]

-----------------------------------------------------------------------------
(* The produce path on the leader.                                         *)

\* The request ends; nothing of it is needed any more but its offset.
Answer(r, outcome) ==
    /\ pc' = [pc EXCEPT ![r] = outcome]
    /\ snapshot' = [snapshot EXCEPT ![r] = NoMeta]
    /\ stopped' = stopped \ {r}

\* The broker has no such topic or partition (yet): the producer gets an error.
ProduceRefused(r) ==
    /\ pc[r] = "idle"
    /\ ~hosted[Leader]
    /\ Answer(r, "failed")
    /\ UNCHANGED <<nodeVars, metaVars, catchUp, target, netVars, budget>>

\* GetReplicas.  The partition lock is released before the offset is read.
ReadReplicas(r) ==
    /\ pc[r] = "idle"
    /\ hosted[Leader]
    /\ pc' = [pc EXCEPT ![r] = "read"]
    /\ snapshot' = [snapshot EXCEPT ![r] = view]
    /\ UNCHANGED <<nodeVars, metaVars, catchUp, target, stopped, netVars,
                   budget>>

\* Slip: GetLastOffset instead of GetNextOffset.
ReadLastOffset(r) ==
    /\ pc[r] = "read"
    /\ pc' = [pc EXCEPT ![r] = "pushing"]
    /\ target' = [target EXCEPT ![r] = NextOffset(Leader) - 1]
    /\ pushes' = pushes \cup ({r} \X (snapshot[r].replicas \ {Leader}))
    /\ UNCHANGED <<nodeVars, metaVars, catchUp, snapshot, stopped, acks, invals,
                   budget>>

\* GetNextOffset, then one AppendEntries call to every assigned replica, in
\* sync or not.  A replica without a gRPC client is a call never delivered.  A
\* deleted processor still tells the offset it stopped at.
ReadOffset(r) ==
    /\ pc[r] = "read"
    /\ pc' = [pc EXCEPT ![r] = "pushing"]
    /\ target' = IF r \in stopped THEN target
                 ELSE [target EXCEPT ![r] = NextOffset(Leader)]
    /\ pushes' = pushes \cup ({r} \X (snapshot[r].replicas \ {Leader}))
    /\ UNCHANGED <<nodeVars, metaVars, catchUp, snapshot, stopped, acks, invals,
                   budget>>

\* Slip: a push below the end of the log is not seen as a gap.
AcceptsOldPush(r, f) == /\ hosted[f]
                        /\ syncState[f] = "InSync"
                        /\ target[r] <= NextOffset(f)

\* TryApplyPush and its handler accept the record of request r at follower f.
AcceptsPush(r, f) == /\ hosted[f]
                     /\ syncState[f] = "InSync"
                     /\ target[r] = NextOffset(f)

\* The call arrives, possibly long after the leader stopped waiting for it.
PushApplied(r, f) ==
    /\ <<r, f>> \in pushes
    /\ AcceptsPush(r, f)
    /\ log' = [log EXCEPT ![f] = Append(@, r)]
    /\ pushes' = pushes \ {<<r, f>>}
    /\ acks' = IF pc[r] = "pushing" THEN acks \cup {<<r, f>>} ELSE acks
    /\ UNCHANGED <<hosted, syncState, metaVars, catchUp, requestVars, invals,
                   budget>>

\* PushRejectedNotInSync, PushRejectedGap, or no such partition here.
PushRejected(r, f) ==
    /\ <<r, f>> \in pushes
    /\ ~AcceptsPush(r, f)
    /\ pushes' = pushes \ {<<r, f>>}
    /\ UNCHANGED <<nodeVars, metaVars, catchUp, requestVars, acks, invals,
                   budget>>

\* The write fails on the replica: answered as PushRejectedGap.
PushWriteFails(r, f) ==
    /\ <<r, f>> \in pushes
    /\ AcceptsPush(r, f)
    /\ Spend("disk")
    /\ pushes' = pushes \ {<<r, f>>}
    /\ UNCHANGED <<nodeVars, metaVars, catchUp, requestVars, acks, invals>>

\* Slip: one acknowledgement is enough.
QuorumOfOne(meta, acked) == meta.isr # {Leader} => acked # {}

\* Every in-sync replica of the list the request read has acknowledged.
Quorum(meta, acked) == meta.isr \ {Leader} \subseteq acked

\* wg.Wait is over: each call was answered or timed out after a second.  The
\* acknowledgements that arrived in time are some of those that were sent.
CollectAcks(r) ==
    /\ pc[r] = "pushing"
    /\ \E acked \in SUBSET {f \in Follower : <<r, f>> \in acks} :
          IF Quorum(snapshot[r], acked)
          THEN /\ pc' = [pc EXCEPT ![r] = "committing"]
               /\ UNCHANGED <<snapshot, stopped>>
          ELSE Answer(r, "failed")
    /\ acks' = {a \in acks : a[1] # r}
    /\ UNCHANGED <<nodeVars, metaVars, catchUp, target, pushes, invals, budget>>

\* AppendEntry on the leader: the record is written at its offset ...
Commit(r) ==
    /\ pc[r] = "committing"
    /\ r \notin stopped
    /\ target[r] = NextOffset(Leader)
    /\ log' = [log EXCEPT ![Leader] = Append(@, r)]
    /\ Answer(r, "accepted")
    /\ UNCHANGED <<hosted, syncState, metaVars, catchUp, target, netVars,
                   budget>>

\* ... or its offset is taken, which AppendEntry takes for a repetition of
\* the same write: it reports success and writes nothing ...
CommitOverTaken(r) ==
    /\ pc[r] = "committing"
    /\ r \notin stopped
    /\ target[r] < NextOffset(Leader)
    /\ Answer(r, "accepted")
    /\ UNCHANGED <<nodeVars, metaVars, catchUp, target, netVars, budget>>

\* invalidateReplicas: all replicas the record was sent to are told to drop it.
RollBack(r) ==
    /\ pc' = [pc EXCEPT ![r] = "invalidating"]
    /\ invals' = invals \cup ({r} \X (snapshot[r].replicas \ {Leader}))
    /\ UNCHANGED <<nodeVars, metaVars, catchUp, snapshot, target, stopped, pushes,
                   acks>>

\* ... or the write fails (an offset beyond the end would be refused as well,
\* but the leader's log never shrinks) ...
CommitFails(r) ==
    /\ pc[r] = "committing"
    /\ r \notin stopped
    /\ target[r] = NextOffset(Leader)
    /\ Spend("disk")
    /\ RollBack(r)

\* Slip: the producer waits until its leader hosts the partition again.
CommitAwaitsLeader(r) ==
    /\ pc[r] = "committing"
    /\ r \in stopped
    /\ hosted[Leader]
    /\ RollBack(r)
    /\ UNCHANGED budget

\* ... or the processor was deleted meanwhile: ErrPartitionStopped.
CommitRefused(r) ==
    /\ pc[r] = "committing"
    /\ r \in stopped
    /\ RollBack(r)
    /\ UNCHANGED budget

\* Slip: the roll-back waits for its answers without a deadline.
InvalidateDoneWhenAnswered(r) ==
    /\ pc[r] = "invalidating"
    /\ \A f \in Follower : <<r, f>> \notin invals
    /\ Answer(r, "failed")
    /\ UNCHANGED <<nodeVars, metaVars, catchUp, target, netVars, budget>>

\* invalidateReplicas returns: all calls answered, or three seconds are over.
InvalidateDone(r) ==
    /\ pc[r] = "invalidating"
    /\ Answer(r, "failed")
    /\ UNCHANGED <<nodeVars, metaVars, catchUp, target, netVars, budget>>

\* InvalidateOffset drops the LAST record if its offset is the given one,
\* whatever the record, and whatever the state of synchronisation.
Invalidates(r, f) == hosted[f] /\ NextOffset(f) = target[r] + 1

InvalidateApplied(r, f) ==
    /\ <<r, f>> \in invals
    /\ Invalidates(r, f)
    /\ log' = [log EXCEPT ![f] = SubSeq(@, 1, target[r])]
    /\ invals' = invals \ {<<r, f>>}
    /\ UNCHANGED <<hosted, syncState, metaVars, catchUp, requestVars, pushes,
                   acks, budget>>

\* No such partition, nothing to drop, or not the last record.
InvalidateIgnored(r, f) ==
    /\ <<r, f>> \in invals
    /\ ~Invalidates(r, f)
    /\ invals' = invals \ {<<r, f>>}
    /\ UNCHANGED <<nodeVars, metaVars, catchUp, requestVars, pushes, acks,
                   budget>>

\* TruncateFrom fails: the record stays.
InvalidateWriteFails(r, f) ==
    /\ <<r, f>> \in invals
    /\ Invalidates(r, f)
    /\ Spend("disk")
    /\ invals' = invals \ {<<r, f>>}
    /\ UNCHANGED <<nodeVars, metaVars, catchUp, requestVars, pushes, acks>>

-----------------------------------------------------------------------------
(* The topic record: what the watch of each node makes of it.              *)

\* The first version a started node applies is the one its bootstrap Get
\* returns; from there the watch delivers every version in order.
NextVersion(n) == IF seen[n] = 0 THEN Len(versions) ELSE seen[n] + 1

Deliver(n) == /\ seen[n] < Len(versions)
              /\ seen' = [seen EXCEPT ![n] = NextVersion(n)]

\* The leader takes over the replica list and is in sync by definition.
ApplyAsLeader ==
    /\ Deliver(Leader)
    /\ Leader \in versions[NextVersion(Leader)].replicas
    /\ hosted' = [hosted EXCEPT ![Leader] = TRUE]
    /\ syncState' = [syncState EXCEPT ![Leader] = "InSync"]
    /\ view' = versions[NextVersion(Leader)]
    /\ UNCHANGED <<log, versions, catchUp, requestVars, netVars, budget>>

\* The leader is no longer a replica: its processor is stopped under the feet
\* of the requests that hold it, with its nextOffset; the files stay.
LeaderTakenAway ==
    /\ Deliver(Leader)
    /\ Leader \notin versions[NextVersion(Leader)].replicas
    /\ hosted' = [hosted EXCEPT ![Leader] = FALSE]
    /\ syncState' = [syncState EXCEPT ![Leader] = "Replicating"]
    /\ view' = NoMeta
    /\ stopped' = {r \in Request : pc[r] \in Active}
    /\ target' = [r \in Request |->
                    IF pc[r] = "read" /\ r \notin stopped THEN NextOffset(Leader)
                                                        ELSE target[r]]
    /\ UNCHANGED <<log, versions, catchUp, pc, snapshot, netVars, budget>>

\* Not (or no longer) a replica: the processor is stopped, the files stay.
ApplyAsOutsider(f) ==
    /\ Deliver(f)
    /\ f \notin versions[NextVersion(f)].replicas
    /\ hosted' = [hosted EXCEPT ![f] = FALSE]
    /\ syncState' = [syncState EXCEPT ![f] = "Replicating"]
    /\ catchUp' = IF hosted[f] /\ catchUp[f].pc # "off" /\ ~catchUp[f].stale
                  THEN [catchUp EXCEPT ![f] = [@ EXCEPT !.stale = TRUE,
                                                        !.old = NextOffset(f)]]
                  ELSE catchUp
    /\ UNCHANGED <<log, view, versions, requestVars, netVars, budget>>

\* etcd already counts the node as in sync: no catch-up, pushes are accepted.
ApplyAsInSync(f) ==
    /\ Deliver(f)
    /\ f \in versions[NextVersion(f)].replicas
    /\ f \in versions[NextVersion(f)].isr
    /\ hosted' = [hosted EXCEPT ![f] = TRUE]
    /\ syncState' = [syncState EXCEPT ![f] = "InSync"]
    /\ UNCHANGED <<log, view, versions, catchUp, requestVars, netVars, budget>>

\* A replica that is not in sync starts its catch-up, unless one is running.
ApplyAsReplica(f) ==
    /\ Deliver(f)
    /\ f \in versions[NextVersion(f)].replicas
    /\ f \notin versions[NextVersion(f)].isr
    /\ hosted' = [hosted EXCEPT ![f] = TRUE]
    /\ catchUp' = IF syncState[f] # "InSync" /\ catchUp[f].pc = "off"
                  THEN [catchUp EXCEPT ![f] = [NoCatchUp EXCEPT !.pc = "start"]]
                  ELSE catchUp
    /\ UNCHANGED <<log, syncState, view, versions, requestVars, netVars, budget>>

\* Writes to the topic key; mutateTopic makes each of them atomic.
PutMeta(meta) == versions' = Append(versions, meta)

-----------------------------------------------------------------------------
(* The catch-up of a follower.                                             *)

\* nextOffset of the processor the goroutine works on.
CatchUpOffset(f) == IF catchUp[f].stale THEN catchUp[f].old ELSE NextOffset(f)

\* The goroutine ends.  After a failure nothing restarts it but another event
\* of the topic's watch.
CatchUpEnds(f) == catchUp' = [catchUp EXCEPT ![f] = NoCatchUp]

\* The goroutine looks its processor up, and is done if that is in sync.
CatchUpBegins(f) ==
    /\ catchUp[f].pc = "start"
    /\ IF ~hosted[f]
       THEN CatchUpEnds(f)
       ELSE catchUp' = [catchUp EXCEPT
              ![f] = [NoCatchUp EXCEPT
                        !.pc = IF syncState[f] = "InSync" THEN "mark"
                                                          ELSE "fetch"]]
    /\ UNCHANGED <<nodeVars, metaVars, requestVars, netVars, budget>>

\* GetGrpcClient fails: the leader is not among the node's peers, because the
\* watch of the nodes, which starts beside the watch of the topics, has not
\* brought it yet, or because its registration has lapsed.
CatchUpFindsNoClient(f) ==
    /\ catchUp[f].pc = "start"
    /\ hosted[f] /\ syncState[f] # "InSync"
    /\ Spend("call")
    /\ CatchUpEnds(f)
    /\ UNCHANGED <<nodeVars, metaVars, requestVars, netVars>>

\* Slip: the requested offset is taken as the last one the replica has.
ReadBatchAfter(from) ==
    LET hw == NextOffset(Leader)
        to == IF hw <= from + BatchSize THEN hw ELSE from + 1 + BatchSize
    IN  [batch |-> SubSeq(log[Leader], from + 2, to), hw |-> hw]

\* ReadBatch on the leader: entries from the given offset, and nextOffset.
ReadBatch(from) ==
    LET hw == NextOffset(Leader)
        to == IF hw < from + BatchSize THEN hw ELSE from + BatchSize
    IN  [batch |-> SubSeq(log[Leader], from + 1, to), hw |-> hw]

\* FetchLogHandler: a broker without the partition answers with no entries
\* and a high watermark of 0.
FetchResponse(from) == IF hosted[Leader] THEN ReadBatch(from)
                       ELSE [batch |-> <<>>, hw |-> 0]

FetchLog(f) ==
    /\ catchUp[f].pc = "fetch"
    /\ LET from == CatchUpOffset(f) IN
         catchUp' = [catchUp EXCEPT ![f] =
                       [@ EXCEPT !.pc = "apply",
                                 !.at = from,
                                 !.batch = FetchResponse(from).batch,
                                 !.hw = FetchResponse(from).hw]]
    /\ UNCHANGED <<nodeVars, metaVars, requestVars, netVars, budget>>

\* The call fails or takes more than five seconds.
FetchFails(f) ==
    /\ catchUp[f].pc = "fetch"
    /\ Spend("call")
    /\ CatchUpEnds(f)
    /\ UNCHANGED <<nodeVars, metaVars, requestVars, netVars>>

\* AppendEntry of the next fetched entry; each entry takes the lock anew.
CatchUpAppend(f) ==
    /\ catchUp[f].pc = "apply"
    /\ catchUp[f].batch # <<>>
    /\ ~catchUp[f].stale
    /\ catchUp[f].at <= NextOffset(f)
    /\ log' = IF catchUp[f].at = NextOffset(f)
              THEN [log EXCEPT ![f] = Append(@, Head(catchUp[f].batch))]
              ELSE log
    /\ catchUp' = [catchUp EXCEPT
                     ![f] = [@ EXCEPT !.at = catchUp[f].at + 1,
                                      !.batch = Tail(catchUp[f].batch)]]
    /\ UNCHANGED <<hosted, syncState, metaVars, requestVars, netVars, budget>>

\* The processor was deleted, or the entry would leave a gap.
CatchUpStopped(f) ==
    /\ catchUp[f].pc = "apply"
    /\ catchUp[f].batch # <<>>
    /\ catchUp[f].stale \/ catchUp[f].at > NextOffset(f)
    /\ CatchUpEnds(f)
    /\ UNCHANGED <<nodeVars, metaVars, requestVars, netVars, budget>>

CatchUpWriteFails(f) ==
    /\ catchUp[f].pc = "apply"
    /\ catchUp[f].batch # <<>>
    /\ ~catchUp[f].stale
    /\ catchUp[f].at = NextOffset(f)
    /\ Spend("disk")
    /\ CatchUpEnds(f)
    /\ UNCHANGED <<nodeVars, metaVars, requestVars, netVars>>

\* Slip: the high watermark taken for the offset of the last record.
BeyondWatermark(f) == CatchUpOffset(f) > catchUp[f].hw

\* The local log has reached the high watermark of the last response.
AtWatermark(f) == CatchUpOffset(f) >= catchUp[f].hw

\* TryFinalizeInSync(resp.HighWatermark); if it refuses, the next batch.
TryFinalizeInSync(f) ==
    /\ catchUp[f].pc = "apply"
    /\ catchUp[f].batch = <<>>
    /\ IF AtWatermark(f)
       THEN /\ catchUp' = [catchUp EXCEPT ![f] = [@ EXCEPT !.pc = "mark"]]
            /\ syncState' = IF catchUp[f].stale THEN syncState
                            ELSE [syncState EXCEPT ![f] = "InSync"]
       ELSE /\ catchUp' = [catchUp EXCEPT ![f] = [@ EXCEPT !.pc = "fetch"]]
            /\ UNCHANGED syncState
    /\ UNCHANGED <<log, hosted, metaVars, requestVars, netVars, budget>>

\* MarkNodeInSync publishes the node as a member of the ISR, if it is still a
\* replica; the goroutine ends either way.
MarkNodeInSync(f) ==
    /\ catchUp[f].pc = "mark"
    /\ IF f \in CurrentMeta.replicas
       THEN PutMeta([CurrentMeta EXCEPT !.isr = @ \cup {f}])
       ELSE UNCHANGED versions
    /\ CatchUpEnds(f)
    /\ UNCHANGED <<nodeVars, view, seen, requestVars, netVars, budget>>

\* The etcd call fails: in sync locally, never announced, never retried.
MarkFails(f) ==
    /\ catchUp[f].pc = "mark"
    /\ Spend("call")
    /\ CatchUpEnds(f)
    /\ UNCHANGED <<nodeVars, metaVars, requestVars, netVars>>

-----------------------------------------------------------------------------
(* The environment: the controller and process restarts.                   *)

\* AddReplicaToPartition: assigned, not in sync.
AddReplica(n) ==
    /\ n \notin CurrentMeta.replicas
    /\ PutMeta([CurrentMeta EXCEPT !.replicas = @ \cup {n}])
    /\ Spend("assign")
    /\ UNCHANGED <<nodeVars, view, seen, catchUp, requestVars, netVars>>

\* RemoveNodeFromPartition, after the lease of n ran out; n may be alive, and
\* may be the leader.
RemoveReplica(n) ==
    /\ n \in CurrentMeta.replicas
    /\ PutMeta([replicas |-> CurrentMeta.replicas \ {n},
                isr |-> CurrentMeta.isr \ {n}])
    /\ Spend("assign")
    /\ UNCHANGED <<nodeVars, view, seen, catchUp, requestVars, netVars>>

\* The process of a follower restarts: the log is on disk, all else is gone.
RestartFollower(f) ==
    /\ Spend("restart")
    /\ hosted' = [hosted EXCEPT ![f] = FALSE]
    /\ syncState' = [syncState EXCEPT ![f] = "Replicating"]
    /\ seen' = [seen EXCEPT ![f] = 0]
    /\ catchUp' = [catchUp EXCEPT ![f] = NoCatchUp]
    /\ UNCHANGED <<log, view, versions, requestVars, netVars>>

\* The leader restarts within its lease: the producers' connections break, no
\* request is resumed and nothing is rolled back.
RestartLeader ==
    /\ Spend("restart")
    /\ hosted' = [hosted EXCEPT ![Leader] = FALSE]
    /\ syncState' = [syncState EXCEPT ![Leader] = "Replicating"]
    /\ seen' = [seen EXCEPT ![Leader] = 0]
    /\ view' = NoMeta
    /\ pc' = [r \in Request |-> IF pc[r] \in Active THEN "failed" ELSE pc[r]]
    /\ snapshot' = [r \in Request |-> NoMeta]
    /\ stopped' = {}
    /\ acks' = {}
    /\ UNCHANGED <<log, versions, catchUp, target, pushes, invals>>

-----------------------------------------------------------------------------
ProduceStep(r) ==
    \/ ProduceRefused(r) \/ ReadReplicas(r) \/ ReadOffset(r)
    \/ CollectAcks(r)
    \/ Commit(r) \/ CommitOverTaken(r) \/ CommitFails(r) \/ CommitRefused(r)
    \/ InvalidateDone(r)

ReplicaStep(r, f) ==
    \/ PushApplied(r, f) \/ PushRejected(r, f) \/ PushWriteFails(r, f)
    \/ InvalidateApplied(r, f) \/ InvalidateIgnored(r, f)
    \/ InvalidateWriteFails(r, f)

LeaderWatchStep == ApplyAsLeader \/ LeaderTakenAway

WatchStep(f) ==
    ApplyAsOutsider(f) \/ ApplyAsInSync(f) \/ ApplyAsReplica(f)

CatchUpStep(f) ==
    \/ CatchUpBegins(f) \/ CatchUpFindsNoClient(f)
    \/ FetchLog(f) \/ FetchFails(f)
    \/ CatchUpAppend(f) \/ CatchUpStopped(f) \/ CatchUpWriteFails(f)
    \/ TryFinalizeInSync(f) \/ MarkNodeInSync(f) \/ MarkFails(f)

RestartStep == RestartLeader \/ \E f \in Follower : RestartFollower(f)

Next ==
    \/ \E r \in Request : ProduceStep(r)
    \/ \E r \in Request, f \in Follower : ReplicaStep(r, f)
    \/ LeaderWatchStep
    \/ \E f \in Follower : WatchStep(f) \/ CatchUpStep(f)
    \/ \E n \in Node : AddReplica(n) \/ RemoveReplica(n)
    \/ RestartStep

Spec == Init /\ [][Next]_vars

\* What the Go runtime and the timeouts guarantee: a handler that can go on
\* does, the topic watch delivers, the catch-up goroutine runs.  Nothing makes
\* the network deliver a push or an invalidate.
ProduceGoesOn(r) ==
    \/ ReadOffset(r) \/ CollectAcks(r) \/ Commit(r) \/ CommitOverTaken(r)
    \/ CommitRefused(r) \/ InvalidateDone(r)

Fairness == /\ \A r \in Request : WF_vars(ProduceGoesOn(r))
            /\ WF_vars(LeaderWatchStep)
            /\ \A f \in Follower : /\ WF_vars(WatchStep(f))
                                   /\ WF_vars(CatchUpStep(f))

FairSpec == Spec /\ Fairness

-----------------------------------------------------------------------------
(* Properties.                                                             *)

\* Every variable has its shape.
TypeOK ==
    /\ log \in [Node -> Seq(Request)]
    /\ hosted \in [Node -> BOOLEAN]
    /\ syncState \in [Node -> {"Replicating", "InSync"}]
    /\ view \in Meta
    /\ versions \in Seq(Meta) /\ Len(versions) > 0
    /\ seen \in [Node -> Nat] /\ \A n \in Node : seen[n] <= Len(versions)
    /\ catchUp \in [Follower -> CatchUpState]
    /\ pc \in [Request -> Phase]
    /\ snapshot \in [Request -> Meta]
    /\ target \in [Request -> Nat]
    /\ stopped \subseteq Request
    /\ pushes \subseteq Request \X Follower
    /\ acks \subseteq Request \X Follower
    /\ invals \subseteq Request \X Follower
    /\ budget \in Budget

\* Whatever is lost, late, restarted or reassigned, no replica ever runs more
\* than one record ahead of the leader, so the single-record roll-back of
\* InvalidateOffset could always close the gap.
AtMostOneAhead ==
    \A f \in Follower : NextOffset(f) <= NextOffset(Leader) + 1

\* A record sits, in every log it is in, at the one offset its request read
\* from the leader: pushes, catch-up and the leader's own commit agree on the
\* position, and no log holds a record twice.
RecordsAtTheirOffset ==
    \A n \in Node : \A i \in 1..Len(log[n]) :
        /\ pc[log[n][i]] \notin {"idle", "read"}
        /\ target[log[n][i]] = i - 1

\* As long as the ISR does not change, a produce answered Accepted is on the
\* leader and on every in-sync replica, at its offset: ReplicateAndAppend with
\* its unlocked read of the offset, concurrent producers, late pushes, late
\* roll-backs, failed writes (which leave nothing in a file) and restarts
\* included.
AcceptedIsDurable ==
    \A r \in Request : pc[r] = "accepted" =>
        \A n \in InitIsr : HasAt(n, target[r], r)

\* As long as the ISR does not change, every in-sync replica holds the whole
\* log of the leader, in the same order: no roll-back ever reaches a record
\* the leader has.
IsrHoldsLeaderLog ==
    \A n \in InitIsr : /\ NextOffset(Leader) <= NextOffset(n)
                       /\ \A i \in 1..NextOffset(Leader) :
                             log[n][i] = log[Leader][i]

\* ReplicateAndAppend always comes to an answer: no combination of timeouts,
\* rejected pushes, failed commits and a leader that loses the partition, for
\* good or to host it again, leaves a producer waiting for ever.
ProduceIsAnswered ==
    \A r \in Request : pc[r] = "read" ~> pc[r] \in {"accepted", "failed"}

\* If no call and no disk write fails, no catch-up begins before its node knows
\* the leader, and no replica is reassigned, every assigned replica is in the
\* end in the ISR the leader counts its quorum on, restarts included.  Nothing
\* in the code sees to the second condition when a node restarts.
ReplicasJoinIsr ==
    <>[](\/ view.isr = InitReplicas
         \/ budget.disk < MaxDiskErrors
         \/ budget.call < MaxCallErrors
         \/ budget.assign < MaxAssignments)

-----------------------------------------------------------------------------
(* What the code's comments say of it, and the code does not do.           *)

\* AppendEntry's comment: an append to an offset already written is a
\* repetition and is safely ignored; so an accepted request is in the log.
IgnoredAppendIsRepetition ==
    \A r \in Request : pc[r] = "accepted" => HasAt(Leader, target[r], r)

\* TryFinalizeInSync's comment: a replica that leaves its catch-up has every
\* record of the leader up to the watermark, and the later ones reach it as
\* pushes; so a member of the ISR misses nothing the leader has.
InSyncMissesNothing ==
    \A f \in CurrentMeta.isr : NextOffset(f) >= NextOffset(Leader)

\* ReplicateAndAppend's comment: a record the leader does not commit is rolled
\* back on the replicas, else their log stays ahead and all later pushes are
\* rejected; so when all is quiet no in-sync replica is ahead.
Quiet == /\ \A r \in Request : pc[r] \in {"idle", "accepted", "failed"}
         /\ pushes = {} /\ invals = {}
FailedProduceRolledBack ==
    Quiet => \A f \in CurrentMeta.isr : NextOffset(f) <= NextOffset(Leader)

\* TryFinalizeInSync's comment: observedHW is the high watermark of the leader.
FetchReportsWatermark ==
    [][\A f \in Follower :
          catchUp[f].pc = "fetch" /\ catchUp'[f].pc = "apply"
             => catchUp'[f].hw = NextOffset(Leader)]_vars

\* InvalidateOffset's comment: it drops a record the leader could NOT commit.
RollBackSparesCommitted ==
    [][\A f \in Follower : \A i \in 1..Len(log[f]) :
          (Len(log'[f]) < i) => ~HasAt(Leader, i - 1, log[f][i])]_vars

=============================================================================
