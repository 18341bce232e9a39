--------------------- MODULE PartitionReplicationProofs ---------------------
(***************************************************************************)
(* Theorems about PartitionReplication, for every set of followers and     *)
(* requests and every bound: first the positions in the logs, then what a  *)
(* produce answered Accepted is worth as long as the in-sync set of the    *)
(* partition stays the same.                                               *)
(***************************************************************************)
EXTENDS PartitionReplication, SequenceTheorems, TLAPS

-----------------------------------------------------------------------------
(* Type correctness.                                                       *)

\* What ReadBatch returns: the leader's records from the offset asked for, and
\* the leader's nextOffset; a broker without the partition returns nothing.
LEMMA FetchResponseProperties ==
    ASSUME TypeOK, NEW from \in Nat
    PROVE  /\ FetchResponse(from).batch \in Seq(Request)
           /\ FetchResponse(from).hw \in Nat
           /\ \A i \in 1..Len(FetchResponse(from).batch) :
                /\ from + i <= NextOffset(Leader)
                /\ FetchResponse(from).batch[i] = log[Leader][from + i]
<1> DEFINE hw == NextOffset(Leader)
           to == IF hw < from + BatchSize THEN hw ELSE from + BatchSize
           batch == SubSeq(log[Leader], from + 1, to)
<1>1. log[Leader] \in Seq(Request)
  BY DEF TypeOK, Node
<1>2. hw \in Nat /\ to \in Nat /\ to <= hw
  BY <1>1, BoundsAssumption, LenProperties DEF NextOffset
<1>3. \A i \in (from + 1)..to : log[Leader][i] \in Request
  BY <1>1, <1>2, ElementOfSeq DEF NextOffset
<1>4. /\ batch \in Seq(Request)
      /\ Len(batch) = IF from + 1 <= to THEN to - from ELSE 0
      /\ \A i \in 1..(to - from) : batch[i] = log[Leader][from + i]
  <2>1. from + 1 \in Int /\ to \in Int
    BY <1>2
  <2> HIDE DEF to, hw
  <2>2. /\ batch \in Seq(Request)
        /\ Len(batch) = IF from + 1 <= to THEN to - (from + 1) + 1 ELSE 0
        /\ \A i \in 1..(to - (from + 1) + 1) :
              batch[i] = log[Leader][from + 1 + i - 1]
    BY <2>1, <1>3, SubSeqProperties
  <2> QED BY <2>1, <2>2, <1>2
<1>5. \A i \in 1..Len(batch) : from + i <= hw /\ batch[i] = log[Leader][from + i]
  <2> HIDE DEF batch, to, hw
  <2> QED BY <1>2, <1>4
<1>6. CASE hosted[Leader]
  <2>1. FetchResponse(from).batch = batch /\ FetchResponse(from).hw = hw
    BY <1>6 DEF FetchResponse, ReadBatch
  <2> QED BY <2>1, <1>2, <1>4, <1>5
<1>7. CASE ~hosted[Leader]
  <2>1. FetchResponse(from).batch = <<>> /\ FetchResponse(from).hw = 0
    BY <1>7 DEF FetchResponse
  <2> QED BY <2>1, EmptySeq
<1> QED BY <1>6, <1>7

\* The fields of a catch-up goroutine, and its empty state.
LEMMA NoCatchUpType == NoCatchUp \in CatchUpState
BY DEF NoCatchUp, CatchUpState

\* nextOffset as the catch-up goroutine sees it is a natural number.
LEMMA CatchUpOffsetType ==
    ASSUME TypeOK, NEW f \in Follower
    PROVE  CatchUpOffset(f) \in Nat
BY LenProperties DEF TypeOK, CatchUpOffset, NextOffset, CatchUpState, Node

\* A fault only lowers the budget.
LEMMA SpendType ==
    ASSUME TypeOK, NEW kind \in {"disk", "restart", "assign", "call"},
           Spend(kind)
    PROVE  budget' \in Budget
<1>1. budget \in Budget /\ budget[kind] > 0
  BY DEF TypeOK, Spend
<1>2. CASE kind = "disk"
  BY <1>1, <1>2, BoundsAssumption DEF Spend, Budget
<1>3. CASE kind = "restart"
  BY <1>1, <1>3, BoundsAssumption DEF Spend, Budget
<1>4. CASE kind = "assign"
  BY <1>1, <1>4, BoundsAssumption DEF Spend, Budget
<1>5. CASE kind = "call"
  BY <1>1, <1>5, BoundsAssumption DEF Spend, Budget
<1> QED BY <1>2, <1>3, <1>4, <1>5

LEMMA InitType == Init => TypeOK
BY InitMetaAssumption, BoundsAssumption, NoCatchUpType
   DEF Init, TypeOK, Meta, NoMeta, Phase, Budget, Node

\* A record appended to a node's log keeps the logs well typed.
LEMMA AppendLogType ==
    ASSUME TypeOK, NEW n \in Node, NEW r \in Request,
           log' = [log EXCEPT ![n] = Append(@, r)]
    PROVE  log' \in [Node -> Seq(Request)]
BY AppendProperties DEF TypeOK

\* The produce path keeps the types.
LEMMA ProduceType ==
    ASSUME TypeOK, NEW r \in Request, ProduceStep(r)
    PROVE  TypeOK'
<1> USE DEF TypeOK, Phase, nodeVars, metaVars, requestVars, netVars, Answer
<1>1. CASE ProduceRefused(r)
  BY <1>1 DEF ProduceRefused, Meta, NoMeta
<1>2. CASE ReadReplicas(r)
  BY <1>2 DEF ReadReplicas
<1>3. CASE ReadOffset(r)
  <2>1. NextOffset(Leader) \in Nat
    BY LenProperties DEF NextOffset, Node
  <2>2. {r} \X (snapshot[r].replicas \ {Leader}) \subseteq Request \X Follower
    BY DEF Meta, Node
  <2>3. target' \in [Request -> Nat]
    BY <1>3, <2>1 DEF ReadOffset
  <2> QED BY <1>3, <2>2, <2>3 DEF ReadOffset
<1>4. CASE CollectAcks(r)
  <2>1. /\ pc' = [pc EXCEPT ![r] = "committing"] \/ pc' = [pc EXCEPT ![r] = "failed"]
        /\ snapshot' = snapshot \/ snapshot' = [snapshot EXCEPT ![r] = NoMeta]
        /\ stopped' \subseteq stopped
        /\ acks' \subseteq acks
        /\ UNCHANGED <<nodeVars, metaVars, catchUp, target, pushes, invals, budget>>
    BY <1>4 DEF CollectAcks
  <2>2. pc' \in [Request -> Phase]
    BY <2>1
  <2>3. NoMeta \in Meta
    BY DEF Meta, NoMeta
  <2>4. snapshot' \in [Request -> Meta]
    BY <2>1, <2>3
  <2> QED BY <2>1, <2>2, <2>4
<1>5. CASE Commit(r)
  BY <1>5, AppendLogType DEF Commit, Meta, NoMeta, Node
<1>6. CASE CommitOverTaken(r)
  BY <1>6 DEF CommitOverTaken, Meta, NoMeta
<1>7. CASE CommitFails(r) \/ CommitRefused(r)
  <2>1. {r} \X (snapshot[r].replicas \ {Leader}) \subseteq Request \X Follower
    BY DEF Meta, Node
  <2>2. budget' \in Budget
    BY <1>7, SpendType DEF CommitFails, CommitRefused
  <2> QED BY <1>7, <2>1, <2>2 DEF CommitFails, CommitRefused, RollBack
<1>8. CASE InvalidateDone(r)
  BY <1>8 DEF InvalidateDone, Meta, NoMeta
<1> QED BY <1>1, <1>2, <1>3, <1>4, <1>5, <1>6, <1>7, <1>8 DEF ProduceStep

\* The handlers of the replicas keep the types.
LEMMA ReplicaType ==
    ASSUME TypeOK, NEW r \in Request, NEW f \in Follower, ReplicaStep(r, f)
    PROVE  TypeOK'
<1> USE DEF TypeOK, nodeVars, metaVars, requestVars, netVars
<1>1. CASE PushApplied(r, f)
  BY <1>1, AppendLogType DEF PushApplied, Node
<1>2. CASE PushRejected(r, f)
  BY <1>2 DEF PushRejected
<1>3. CASE PushWriteFails(r, f)
  BY <1>3, SpendType DEF PushWriteFails
<1>4. CASE InvalidateApplied(r, f)
  <2>1. /\ log[f] \in Seq(Request) /\ target[r] \in Nat
        /\ Len(log[f]) = target[r] + 1
    BY <1>4 DEF InvalidateApplied, Invalidates, NextOffset, Node
  <2>2. \A i \in 1..target[r] : log[f][i] \in Request
    BY <2>1, ElementOfSeq
  <2>3. SubSeq(log[f], 1, target[r]) \in Seq(Request)
    BY <2>1, <2>2, SubSeqProperties
  <2> QED BY <1>4, <2>3 DEF InvalidateApplied, Node
<1>5. CASE InvalidateIgnored(r, f)
  BY <1>5 DEF InvalidateIgnored
<1>6. CASE InvalidateWriteFails(r, f)
  BY <1>6, SpendType DEF InvalidateWriteFails
<1> QED BY <1>1, <1>2, <1>3, <1>4, <1>5, <1>6 DEF ReplicaStep

\* The watch delivers versions in order and never past the last one.
LEMMA DeliverType ==
    ASSUME TypeOK, NEW n \in Node, Deliver(n), UNCHANGED versions
    PROVE  /\ NextVersion(n) \in 1..Len(versions)
           /\ seen' \in [Node -> Nat]
           /\ \A m \in Node : seen'[m] <= Len(versions')
           /\ versions[NextVersion(n)] \in Meta
<1>1. Len(versions) \in Nat /\ seen[n] \in Nat
  BY LenProperties DEF TypeOK
<1>2. NextVersion(n) \in 1..Len(versions)
  BY <1>1 DEF Deliver, NextVersion, TypeOK
<1> QED BY <1>1, <1>2, ElementOfSeq DEF Deliver, TypeOK

LEMMA WatchType ==
    ASSUME TypeOK, LeaderWatchStep \/ \E f \in Follower : WatchStep(f)
    PROVE  TypeOK'
<1> USE DEF TypeOK, nodeVars, metaVars, requestVars, netVars
<1>1. CASE ApplyAsLeader
  BY <1>1, DeliverType DEF ApplyAsLeader, Node
<1>2. ASSUME NEW f \in Follower, ApplyAsOutsider(f) PROVE TypeOK'
  <2>1. NextOffset(f) \in Nat
    BY LenProperties DEF NextOffset, Node
  <2>2. catchUp' \in [Follower -> CatchUpState]
    BY <1>2, <2>1, ZenonT(30) DEF ApplyAsOutsider, CatchUpState
  <2> QED BY <1>2, <2>2, DeliverType DEF ApplyAsOutsider, Node
<1>3. ASSUME NEW f \in Follower, ApplyAsInSync(f) PROVE TypeOK'
  BY <1>3, DeliverType DEF ApplyAsInSync, Node
<1>4. ASSUME NEW f \in Follower, ApplyAsReplica(f) PROVE TypeOK'
  <2>1. [NoCatchUp EXCEPT !.pc = "start"] \in CatchUpState
    BY NoCatchUpType DEF CatchUpState
  <2>2. catchUp' \in [Follower -> CatchUpState]
    BY <1>4, <2>1 DEF ApplyAsReplica
  <2> QED BY <1>4, <2>2, DeliverType DEF ApplyAsReplica, Node
<1>5. CASE LeaderTakenAway
  <2>1. NextOffset(Leader) \in Nat
    BY LenProperties DEF NextOffset, Node
  <2>2. target' \in [Request -> Nat]
    BY <1>5, <2>1 DEF LeaderTakenAway
  <2> QED BY <1>5, <2>2, DeliverType DEF LeaderTakenAway, Meta, NoMeta, Node
<1> QED BY <1>1, <1>2, <1>3, <1>4, <1>5 DEF WatchStep, LeaderWatchStep

\* A write to the topic key appends one version.
LEMMA PutMetaType ==
    ASSUME TypeOK, NEW meta \in Meta, PutMeta(meta)
    PROVE  /\ versions' \in Seq(Meta) /\ Len(versions') > 0
           /\ \A n \in Node : seen[n] <= Len(versions')
BY AppendProperties, LenProperties DEF TypeOK, PutMeta

LEMMA CurrentMetaType ==
    ASSUME TypeOK
    PROVE  CurrentMeta \in Meta
BY ElementOfSeq, LenProperties DEF TypeOK, CurrentMeta

LEMMA CatchUpType ==
    ASSUME TypeOK, NEW f \in Follower, CatchUpStep(f)
    PROVE  TypeOK'
<1> USE DEF TypeOK, nodeVars, metaVars, requestVars, netVars
<1>0. CatchUpEnds(f) => catchUp' \in [Follower -> CatchUpState]
  BY NoCatchUpType DEF CatchUpEnds
<1>1. CASE CatchUpBegins(f)
  <2>1. \A s \in {"mark", "fetch"} :
           [NoCatchUp EXCEPT !.pc = s] \in CatchUpState
    BY NoCatchUpType DEF CatchUpState
  <2>2. catchUp' \in [Follower -> CatchUpState]
    BY <1>0, <1>1, <2>1 DEF CatchUpBegins
  <2> QED BY <1>1, <2>2 DEF CatchUpBegins
<1>2. CASE FetchLog(f)
  <2> DEFINE from == CatchUpOffset(f)
  <2>1. /\ from \in Nat
        /\ FetchResponse(from).batch \in Seq(Request)
        /\ FetchResponse(from).hw \in Nat
    BY CatchUpOffsetType, FetchResponseProperties
  <2> HIDE DEF from
  <2> DEFINE new == [catchUp[f] EXCEPT !.pc = "apply", !.at = from,
                       !.batch = FetchResponse(from).batch,
                       !.hw = FetchResponse(from).hw]
  <2>2. new \in CatchUpState
    BY <2>1, ZenonT(30) DEF CatchUpState
  <2>3. catchUp' = [catchUp EXCEPT ![f] = new]
    BY <1>2 DEF FetchLog, from
  <2> HIDE DEF new
  <2>4. catchUp' \in [Follower -> CatchUpState]
    BY <2>2, <2>3
  <2> QED BY <1>2, <2>4 DEF FetchLog
<1>3. CASE FetchFails(f)
  BY <1>0, <1>3, SpendType DEF FetchFails
<1>4. CASE CatchUpAppend(f)
  <2>1. /\ catchUp[f] \in CatchUpState /\ catchUp[f].batch \in Seq(Request)
        /\ catchUp[f].batch # <<>> /\ catchUp[f].at \in Nat
    BY <1>4 DEF CatchUpAppend, CatchUpState
  <2>2. Head(catchUp[f].batch) \in Request /\ Tail(catchUp[f].batch) \in Seq(Request)
    BY <2>1, HeadTailProperties
  <2> DEFINE new == [catchUp[f] EXCEPT !.at = catchUp[f].at + 1,
                                       !.batch = Tail(catchUp[f].batch)]
  <2>5. new \in CatchUpState
    <3>1. \A n \in Nat, b \in Seq(Request) :
             [catchUp[f] EXCEPT !.at = n, !.batch = b] \in CatchUpState
      BY <2>1 DEF CatchUpState
    <3>2. catchUp[f].at + 1 \in Nat
      BY <2>1
    <3> QED BY <2>2, <3>1, <3>2
  <2>6. catchUp' = [catchUp EXCEPT ![f] = new]
    BY <1>4 DEF CatchUpAppend
  <2> HIDE DEF new
  <2>3. catchUp' \in [Follower -> CatchUpState]
    BY <2>5, <2>6
  <2>4. log' \in [Node -> Seq(Request)]
    BY <1>4, <2>2, AppendLogType DEF CatchUpAppend, Node
  <2> QED BY <1>4, <2>3, <2>4 DEF CatchUpAppend
<1>5. CASE CatchUpStopped(f)
  BY <1>0, <1>5 DEF CatchUpStopped
<1>6. CASE CatchUpWriteFails(f)
  BY <1>0, <1>6, SpendType DEF CatchUpWriteFails
<1>7. CASE TryFinalizeInSync(f)
  <2>0. \A s \in {"mark", "fetch"} :
           [catchUp[f] EXCEPT !.pc = s] \in CatchUpState
    BY ZenonT(30) DEF CatchUpState
  <2>1. catchUp' \in [Follower -> CatchUpState]
    BY <1>7, <2>0 DEF TryFinalizeInSync
  <2> QED BY <1>7, <2>1 DEF TryFinalizeInSync, Node
<1>8. CASE MarkNodeInSync(f)
  <2>1. [CurrentMeta EXCEPT !.isr = @ \cup {f}] \in Meta
    BY CurrentMetaType DEF Meta, Node
  <2>2. /\ versions' \in Seq(Meta) /\ Len(versions') > 0
        /\ \A n \in Node : seen[n] <= Len(versions')
    BY <1>8, <2>1, PutMetaType DEF MarkNodeInSync
  <2> QED BY <1>0, <1>8, <2>2 DEF MarkNodeInSync
<1>9. CASE MarkFails(f)
  BY <1>0, <1>9, SpendType DEF MarkFails
<1>10. CASE CatchUpFindsNoClient(f)
  BY <1>0, <1>10, SpendType DEF CatchUpFindsNoClient
<1> QED BY <1>1, <1>2, <1>3, <1>4, <1>5, <1>6, <1>7, <1>8, <1>9, <1>10
        DEF CatchUpStep

LEMMA AssignType ==
    ASSUME TypeOK, NEW n \in Node, AddReplica(n) \/ RemoveReplica(n)
    PROVE  TypeOK'
<1> USE DEF TypeOK, nodeVars, metaVars, requestVars, netVars
<1>1. CASE AddReplica(n)
  <2>1. [CurrentMeta EXCEPT !.replicas = @ \cup {n}] \in Meta
    BY CurrentMetaType DEF Meta, Node
  <2> QED BY <1>1, <2>1, PutMetaType, SpendType DEF AddReplica
<1>2. CASE RemoveReplica(n)
  <2>1. [replicas |-> CurrentMeta.replicas \ {n},
         isr |-> CurrentMeta.isr \ {n}] \in Meta
    BY CurrentMetaType DEF Meta
  <2> QED BY <1>2, <2>1, PutMetaType, SpendType DEF RemoveReplica
<1> QED BY <1>1, <1>2

LEMMA RestartType ==
    ASSUME TypeOK, RestartStep
    PROVE  TypeOK'
<1> USE DEF TypeOK, nodeVars, metaVars, requestVars, netVars
<1>1. CASE RestartLeader
  BY <1>1, SpendType, SMTT(30) DEF RestartLeader, Meta, NoMeta, Phase, Node
<1>2. ASSUME NEW f \in Follower, RestartFollower(f) PROVE TypeOK'
  BY <1>2, SpendType, NoCatchUpType, SMTT(30) DEF RestartFollower, Node
<1> QED BY <1>1, <1>2 DEF RestartStep

LEMMA NextType == TypeOK /\ [Next]_vars => TypeOK'
<1> SUFFICES ASSUME TypeOK, [Next]_vars PROVE TypeOK'
  OBVIOUS
<1>1. CASE Next
  BY <1>1, ProduceType, ReplicaType, WatchType, CatchUpType, AssignType,
     RestartType DEF Next
<1>2. CASE UNCHANGED vars
  BY <1>2 DEF TypeOK, vars, nodeVars, metaVars, requestVars, netVars
<1> QED BY <1>1, <1>2

\* Every reachable state of the partition is well typed.
THEOREM TypeCorrect == Spec => []TypeOK
BY InitType, NextType, PTL DEF Spec

-----------------------------------------------------------------------------
(* Positions: which record may stand where, under every fault of the       *)
(* model.  AtMostOneAhead alone is not inductive: that a push cannot land  *)
(* two records beyond the leader follows from the offset it carries having *)
(* been the leader's nextOffset once, and that a fetched entry cannot,     *)
(* from the entries being the leader's own records.                        *)

Started(r) == pc[r] \notin {"idle", "read"}

\* An offset a request read is never beyond the end of the leader's log.
TargetsInLeaderLog == \A r \in Request : target[r] <= NextOffset(Leader)

PushesAreStarted == \A r \in Request, f \in Follower :
                       <<r, f>> \in pushes => Started(r)

\* What a replica has fetched and not yet applied is part of the leader's log.
BatchesAreLeaderRecords ==
    \A f \in Follower : \A i \in 1..Len(catchUp[f].batch) :
        /\ catchUp[f].at + i <= NextOffset(Leader)
        /\ catchUp[f].batch[i] = log[Leader][catchUp[f].at + i]

PositionInv ==
    /\ TypeOK
    /\ TargetsInLeaderLog
    /\ PushesAreStarted
    /\ BatchesAreLeaderRecords
    /\ RecordsAtTheirOffset
    /\ AtMostOneAhead

LEMMA InitPosition == Init => PositionInv
<1> SUFFICES ASSUME Init PROVE PositionInv
  OBVIOUS
<1>1. TypeOK
  BY InitType
<1>2. \A n \in Node : NextOffset(n) = 0
  BY DEF Init, NextOffset
<1>3. Leader \in Node /\ Follower \subseteq Node
  BY DEF Node
<1>4. TargetsInLeaderLog /\ AtMostOneAhead /\ PushesAreStarted
  BY <1>2, <1>3 DEF Init, TargetsInLeaderLog, AtMostOneAhead, PushesAreStarted
<1>5. BatchesAreLeaderRecords
  BY DEF Init, BatchesAreLeaderRecords, NoCatchUp
<1>6. RecordsAtTheirOffset
  BY DEF Init, RecordsAtTheirOffset
<1> QED BY <1>1, <1>4, <1>5, <1>6 DEF PositionInv

\* A step that touches no log, gives an offset only to requests that have not
\* used theirs, and takes requests only forward, keeps every position.
LEMMA PositionFrame ==
    ASSUME PositionInv, TypeOK', UNCHANGED log,
           \A r \in Request : \/ target'[r] = target[r]
                              \/ ~Started(r) /\ target'[r] = NextOffset(Leader),
           pushes' \subseteq pushes,
           \A r \in Request : Started(r) => Started(r)',
           \A f \in Follower :
              \/ catchUp'[f].batch = <<>>
              \/ /\ catchUp'[f].batch = catchUp[f].batch
                 /\ catchUp'[f].at = catchUp[f].at
    PROVE  PositionInv'
<1>1. \A n \in Node : NextOffset(n)' = NextOffset(n)
  BY DEF NextOffset
<1>2. TargetsInLeaderLog' /\ AtMostOneAhead'
  <2>1. NextOffset(Leader) \in Nat
    BY LenProperties DEF PositionInv, TypeOK, NextOffset, Node
  <2> QED BY <1>1, <2>1 DEF PositionInv, TargetsInLeaderLog, AtMostOneAhead, Node
<1>3. PushesAreStarted'
  BY DEF PositionInv, PushesAreStarted
<1>4. BatchesAreLeaderRecords'
  BY <1>1, EmptySeq DEF PositionInv, BatchesAreLeaderRecords, Node
<1>5. RecordsAtTheirOffset'
  <2>1. \A n \in Node : \A i \in 1..Len(log[n]) : log[n][i] \in Request
    BY ElementOfSeq DEF PositionInv, TypeOK
  <2> QED BY <2>1 DEF PositionInv, RecordsAtTheirOffset, Started
<1> QED BY <1>2, <1>3, <1>4, <1>5 DEF PositionInv

\* A record written at the end of a node's log, at its own offset.
LEMMA PositionAppend ==
    ASSUME PositionInv, TypeOK', NEW n \in Node, NEW r \in Request,
           log' = [log EXCEPT ![n] = Append(@, r)],
           target' = target, pushes' \subseteq pushes,
           Started(r), target[r] = NextOffset(n),
           n # Leader => NextOffset(n) <= NextOffset(Leader),
           \A q \in Request : Started(q) => Started(q)',
           \A f \in Follower :
              \/ catchUp'[f].batch = catchUp[f].batch
                 /\ catchUp'[f].at = catchUp[f].at
              \/ catchUp[f].batch # <<>>
                 /\ catchUp'[f].batch = Tail(catchUp[f].batch)
                 /\ catchUp'[f].at = catchUp[f].at + 1
    PROVE  PositionInv'
<1>1. \A m \in Node : log[m] \in Seq(Request) /\ NextOffset(m) \in Nat
  BY LenProperties DEF PositionInv, TypeOK, NextOffset
<1>2. /\ log'[n] = Append(log[n], r)
      /\ \A m \in Node \ {n} : log'[m] = log[m]
  BY DEF PositionInv, TypeOK
<1>3. /\ NextOffset(n)' = NextOffset(n) + 1
      /\ \A m \in Node \ {n} : NextOffset(m)' = NextOffset(m)
      /\ \A i \in 1..NextOffset(n) : log'[n][i] = log[n][i]
      /\ log'[n][NextOffset(n) + 1] = r
  BY <1>1, <1>2, AppendProperties DEF NextOffset
<1>4. /\ NextOffset(Leader)' >= NextOffset(Leader)
      /\ \A i \in 1..NextOffset(Leader) : log'[Leader][i] = log[Leader][i]
  <2>1. Leader \in Node
    BY DEF Node
  <2>2. CASE Leader = n
    BY <1>1, <1>3, <2>2 DEF NextOffset
  <2>3. CASE Leader # n
    <3>1. log'[Leader] = log[Leader]
      BY <1>2, <2>1, <2>3
    <3>2. Len(log[Leader]) \in Nat
      BY <1>1, <2>1 DEF NextOffset
    <3> QED BY <3>1, <3>2 DEF NextOffset
  <2> QED BY <2>2, <2>3
<1>5. TargetsInLeaderLog'
  <2> SUFFICES ASSUME NEW q \in Request PROVE target[q] <= NextOffset(Leader)'
    BY DEF TargetsInLeaderLog
  <2>1. target[q] \in Nat /\ target[q] <= NextOffset(Leader)
    BY DEF PositionInv, TypeOK, TargetsInLeaderLog
  <2> QED BY <1>1, <1>3, <1>4, <2>1 DEF Node
<1>6. AtMostOneAhead'
  BY <1>1, <1>3, <1>4 DEF PositionInv, AtMostOneAhead, Node
<1>7. PushesAreStarted'
  BY DEF PositionInv, PushesAreStarted
<1>8. BatchesAreLeaderRecords'
  <2> SUFFICES ASSUME NEW f \in Follower, NEW i \in 1..Len(catchUp'[f].batch)
               PROVE  /\ catchUp'[f].at + i <= NextOffset(Leader)'
                      /\ catchUp'[f].batch[i] = log'[Leader][catchUp'[f].at + i]
    BY DEF BatchesAreLeaderRecords
  <2>1. /\ catchUp[f].batch \in Seq(Request) /\ catchUp[f].at \in Nat
        /\ Len(catchUp[f].batch) \in Nat
    BY LenProperties DEF PositionInv, TypeOK, CatchUpState
  <2>2. \A j \in 1..Len(catchUp[f].batch) :
           /\ catchUp[f].at + j <= NextOffset(Leader)
           /\ catchUp[f].batch[j] = log[Leader][catchUp[f].at + j]
    BY DEF PositionInv, BatchesAreLeaderRecords
  <2>3. PICK j \in 1..Len(catchUp[f].batch) :
           /\ catchUp'[f].at + i = catchUp[f].at + j
           /\ catchUp'[f].batch[i] = catchUp[f].batch[j]
    <3>1. CASE /\ catchUp'[f].batch = catchUp[f].batch
               /\ catchUp'[f].at = catchUp[f].at
      BY <3>1
    <3>2. CASE /\ catchUp[f].batch # <<>>
               /\ catchUp'[f].batch = Tail(catchUp[f].batch)
               /\ catchUp'[f].at = catchUp[f].at + 1
      <4>1. /\ Len(Tail(catchUp[f].batch)) = Len(catchUp[f].batch) - 1
            /\ \A k \in 1..Len(Tail(catchUp[f].batch)) :
                  Tail(catchUp[f].batch)[k] = catchUp[f].batch[k + 1]
        BY <2>1, <3>2, HeadTailProperties
      <4>2. i + 1 \in 1..Len(catchUp[f].batch)
        BY <2>1, <3>2, <4>1
      <4>3. catchUp'[f].at + i = catchUp[f].at + (i + 1)
        BY <2>1, <3>2
      <4> QED BY <3>2, <4>1, <4>2, <4>3
    <3> QED BY <3>1, <3>2
  <2>4. catchUp[f].at + j \in 1..NextOffset(Leader)
    BY <1>1, <2>1, <2>2 DEF Node
  <2>5. NextOffset(Leader) \in Nat /\ NextOffset(Leader)' \in Nat
    BY LenProperties DEF PositionInv, TypeOK, NextOffset, Node
  <2>6. catchUp'[f].at + i <= NextOffset(Leader)'
    BY <1>4, <2>2, <2>3, <2>4, <2>5
  <2>7. catchUp'[f].batch[i] = log'[Leader][catchUp'[f].at + i]
    BY <1>4, <2>2, <2>3, <2>4
  <2> QED BY <2>6, <2>7
<1>9. RecordsAtTheirOffset'
  <2> SUFFICES ASSUME NEW m \in Node, NEW i \in 1..Len(log'[m])
               PROVE  /\ pc'[log'[m][i]] \notin {"idle", "read"}
                      /\ target[log'[m][i]] = i - 1
    BY DEF RecordsAtTheirOffset
  <2>1. CASE i \in 1..NextOffset(m)
    <3>1. log'[m][i] = log[m][i] /\ log[m][i] \in Request
      BY <1>1, <1>2, <1>3, <2>1, ElementOfSeq DEF NextOffset
    <3>2. Started(log[m][i]) /\ target[log[m][i]] = i - 1
      BY <2>1 DEF PositionInv, RecordsAtTheirOffset, Started, NextOffset
    <3> QED BY <3>1, <3>2 DEF Started
  <2>2. CASE i \notin 1..NextOffset(m)
    <3>1. m = n
      BY <1>2, <2>2 DEF NextOffset
    <3>2. i = NextOffset(n) + 1
      BY <1>1, <1>3, <2>2, <3>1 DEF NextOffset
    <3> QED BY <1>1, <1>3, <3>1, <3>2 DEF Started
  <2> QED BY <2>1, <2>2
<1> QED BY <1>5, <1>6, <1>7, <1>8, <1>9 DEF PositionInv

\* Reading the offset on the leader: nothing of the request is anywhere yet.
LEMMA PositionReadOffset ==
    ASSUME PositionInv, TypeOK', NEW r \in Request, ReadOffset(r)
    PROVE  PositionInv'
<1>1. /\ pc' = [pc EXCEPT ![r] = "pushing"] /\ pc[r] = "read"
      /\ \/ target' = target
         \/ target' = [target EXCEPT ![r] = NextOffset(Leader)]
      /\ pushes' = pushes \cup ({r} \X (snapshot[r].replicas \ {Leader}))
      /\ UNCHANGED <<log, catchUp>>
  BY DEF ReadOffset, nodeVars
<1>2. NextOffset(Leader) \in Nat
  BY LenProperties DEF PositionInv, TypeOK, NextOffset, Node
<1>3. \A n \in Node : NextOffset(n)' = NextOffset(n)
  BY <1>1 DEF NextOffset
<1>4. Started(r)' /\ \A q \in Request : Started(q) => Started(q)'
  BY <1>1 DEF PositionInv, TypeOK, Started
<1>5. TargetsInLeaderLog' /\ AtMostOneAhead'
  <2>1. \A q \in Request : target'[q] = target[q] \/ target'[q] = NextOffset(Leader)
    BY <1>1 DEF PositionInv, TypeOK
  <2>2. TargetsInLeaderLog'
    BY <1>2, <1>3, <2>1 DEF PositionInv, TargetsInLeaderLog, Node
  <2> QED BY <1>3, <2>2 DEF PositionInv, AtMostOneAhead, Node
<1>6. PushesAreStarted'
  BY <1>1, <1>4 DEF PositionInv, PushesAreStarted
<1>7. BatchesAreLeaderRecords'
  BY <1>1, <1>3 DEF PositionInv, BatchesAreLeaderRecords, Node
<1>8. RecordsAtTheirOffset'
  <2> SUFFICES ASSUME NEW n \in Node, NEW i \in 1..Len(log[n])
               PROVE  /\ pc'[log[n][i]] \notin {"idle", "read"}
                      /\ target'[log[n][i]] = i - 1
    BY <1>1 DEF RecordsAtTheirOffset
  <2>1. log[n][i] \in Request
    BY ElementOfSeq DEF PositionInv, TypeOK
  <2>2. Started(log[n][i]) /\ target[log[n][i]] = i - 1
    BY DEF PositionInv, RecordsAtTheirOffset, Started
  <2>3. log[n][i] # r
    BY <1>1, <2>2 DEF Started
  <2> QED BY <1>1, <2>1, <2>2, <2>3 DEF PositionInv, TypeOK, Started
<1> QED BY <1>5, <1>6, <1>7, <1>8 DEF PositionInv

\* A roll-back only shortens the log of a follower.
LEMMA PositionInvalidate ==
    ASSUME PositionInv, TypeOK', NEW r \in Request, NEW f \in Follower,
           InvalidateApplied(r, f)
    PROVE  PositionInv'
<1>1. /\ log' = [log EXCEPT ![f] = SubSeq(@, 1, target[r])]
      /\ Len(log[f]) = target[r] + 1
      /\ UNCHANGED <<pc, target, pushes, catchUp>>
  BY DEF InvalidateApplied, Invalidates, NextOffset, requestVars
<1>2. /\ \A n \in Node : log[n] \in Seq(Request) /\ NextOffset(n) \in Nat
      /\ target[r] \in Nat /\ f \in Node /\ f # Leader /\ Leader \in Node
  BY LenProperties, LeaderIsNoFollower
     DEF PositionInv, TypeOK, NextOffset, Node
<1>3. /\ log'[f] = SubSeq(log[f], 1, target[r])
      /\ \A n \in Node \ {f} : log'[n] = log[n]
  BY <1>1, <1>2 DEF PositionInv, TypeOK
<1>4. /\ Len(log'[f]) = target[r]
      /\ \A i \in 1..target[r] : log'[f][i] = log[f][i]
  <2>1. \A i \in 1..target[r] : log[f][i] \in Request
    BY <1>1, <1>2, ElementOfSeq
  <2> QED BY <1>2, <1>3, <2>1, SubSeqProperties
<1>5. /\ NextOffset(f)' <= NextOffset(f)
      /\ \A n \in Node \ {f} : NextOffset(n)' = NextOffset(n)
  BY <1>1, <1>2, <1>3, <1>4 DEF NextOffset
<1>6. TargetsInLeaderLog'
  BY <1>1, <1>2, <1>5 DEF PositionInv, TargetsInLeaderLog
<1>7. AtMostOneAhead'
  <2>1. /\ NextOffset(f)' \in Nat /\ NextOffset(f)' <= NextOffset(Leader) + 1
    BY <1>1, <1>2, <1>4 DEF PositionInv, AtMostOneAhead, NextOffset
  <2> QED BY <1>2, <1>5, <2>1 DEF PositionInv, AtMostOneAhead, Node
<1>8. PushesAreStarted'
  BY <1>1 DEF PositionInv, PushesAreStarted, Started
<1>9. BatchesAreLeaderRecords'
  BY <1>1, <1>2, <1>3, <1>5 DEF PositionInv, BatchesAreLeaderRecords
<1>10. RecordsAtTheirOffset'
  <2> SUFFICES ASSUME NEW n \in Node, NEW i \in 1..Len(log'[n])
               PROVE  /\ pc[log'[n][i]] \notin {"idle", "read"}
                      /\ target[log'[n][i]] = i - 1
    BY <1>1 DEF RecordsAtTheirOffset
  <2>1. i \in 1..Len(log[n]) /\ log'[n][i] = log[n][i]
    BY <1>1, <1>2, <1>3, <1>4
  <2> QED BY <2>1 DEF PositionInv, RecordsAtTheirOffset
<1> QED BY <1>6, <1>7, <1>8, <1>9, <1>10 DEF PositionInv

LEMMA PositionProduce ==
    ASSUME PositionInv, TypeOK', NEW r \in Request, ProduceStep(r)
    PROVE  PositionInv'
<1> USE DEF nodeVars, metaVars, requestVars, netVars
<1>0. /\ pc \in [Request -> Phase] /\ TargetsInLeaderLog /\ Leader \in Node
  BY DEF PositionInv, TypeOK, Node
<1>1. ASSUME UNCHANGED <<log, target, pushes, catchUp>>,
             pc' = [pc EXCEPT ![r] = pc'[r]], Started(r) => Started(r)'
      PROVE  PositionInv'
  <2>1. \A q \in Request : Started(q) => Started(q)'
    <3> SUFFICES ASSUME NEW q \in Request, Started(q) PROVE Started(q)'
      OBVIOUS
    <3>1. CASE q = r
      BY <1>1, <3>1
    <3>2. CASE q # r
      <4>1. pc'[q] = pc[q]
        BY <1>0, <1>1, <3>2
      <4> QED BY <4>1 DEF Started
    <3> QED BY <3>1, <3>2
  <2> QED BY <1>1, <2>1, PositionFrame
<1>2. CASE ProduceRefused(r)
  BY <1>0, <1>1, <1>2 DEF ProduceRefused, Answer, Started
<1>3. CASE ReadReplicas(r)
  BY <1>0, <1>1, <1>3 DEF ReadReplicas, Started
<1>4. CASE ReadOffset(r)
  BY <1>4, PositionReadOffset
<1>5. CASE CollectAcks(r)
  <2>1. /\ pc' = [pc EXCEPT ![r] = "committing"] \/ pc' = [pc EXCEPT ![r] = "failed"]
        /\ UNCHANGED <<log, target, pushes, catchUp>>
    BY <1>5 DEF CollectAcks, Answer
  <2> QED BY <1>0, <1>1, <2>1 DEF Started
<1>6. CASE Commit(r)
  <2>1. /\ pc[r] = "committing" /\ target[r] = NextOffset(Leader)
        /\ log' = [log EXCEPT ![Leader] = Append(@, r)]
        /\ pc' = [pc EXCEPT ![r] = "accepted"]
        /\ UNCHANGED <<target, pushes, catchUp>>
    BY <1>6 DEF Commit, Answer
  <2>2. Started(r) /\ \A q \in Request : Started(q) => Started(q)'
    BY <1>0, <2>1 DEF Started
  <2> QED BY <1>0, <2>1, <2>2, PositionAppend
<1>7. CASE CommitOverTaken(r)
  BY <1>0, <1>1, <1>7 DEF CommitOverTaken, Answer, Started
<1>8. CASE CommitFails(r) \/ CommitRefused(r)
  BY <1>0, <1>1, <1>8 DEF CommitFails, CommitRefused, RollBack, Started
<1>9. CASE InvalidateDone(r)
  BY <1>0, <1>1, <1>9 DEF InvalidateDone, Answer, Started
<1> QED BY <1>2, <1>3, <1>4, <1>5, <1>6, <1>7, <1>8, <1>9 DEF ProduceStep

LEMMA PositionReplica ==
    ASSUME PositionInv, TypeOK', NEW r \in Request, NEW f \in Follower,
           ReplicaStep(r, f)
    PROVE  PositionInv'
<1> USE DEF nodeVars, metaVars, requestVars, netVars
<1>1. ASSUME UNCHANGED <<log, pc, target, catchUp>>, pushes' \subseteq pushes
      PROVE  PositionInv'
  BY <1>1, PositionFrame DEF Started
<1>2. CASE PushApplied(r, f)
  <2>1. /\ <<r, f>> \in pushes /\ target[r] = NextOffset(f)
        /\ log' = [log EXCEPT ![f] = Append(@, r)]
        /\ pushes' \subseteq pushes /\ UNCHANGED <<pc, target, catchUp>>
    BY <1>2 DEF PushApplied, AcceptsPush
  <2>2. Started(r) /\ target[r] <= NextOffset(Leader) /\ f \in Node
    BY <2>1 DEF PositionInv, PushesAreStarted, TargetsInLeaderLog, Node
  <2> QED BY <2>1, <2>2, PositionAppend DEF Started
<1>3. CASE PushRejected(r, f)
  BY <1>1, <1>3 DEF PushRejected
<1>4. CASE PushWriteFails(r, f)
  BY <1>1, <1>4 DEF PushWriteFails
<1>5. CASE InvalidateApplied(r, f)
  BY <1>5, PositionInvalidate
<1>6. CASE InvalidateIgnored(r, f)
  BY <1>1, <1>6 DEF InvalidateIgnored
<1>7. CASE InvalidateWriteFails(r, f)
  BY <1>1, <1>7 DEF InvalidateWriteFails
<1> QED BY <1>2, <1>3, <1>4, <1>5, <1>6, <1>7 DEF ReplicaStep

LEMMA PositionCatchUp ==
    ASSUME PositionInv, TypeOK', NEW f \in Follower, CatchUpStep(f)
    PROVE  PositionInv'
<1> USE DEF nodeVars, metaVars, requestVars, netVars
<1>0. TypeOK /\ catchUp \in [Follower -> CatchUpState]
  BY DEF PositionInv, TypeOK
<1>1. ASSUME UNCHANGED <<log, pc, target, pushes>>,
             NEW new, catchUp' = [catchUp EXCEPT ![f] = new],
             \/ new.batch = <<>>
             \/ new.batch = catchUp[f].batch /\ new.at = catchUp[f].at
      PROVE  PositionInv'
  <2>1. \A g \in Follower : catchUp'[g] = IF g = f THEN new ELSE catchUp[g]
    BY <1>0, <1>1
  <2> QED BY <1>1, <2>1, PositionFrame DEF Started
<1>2. NoCatchUp.batch = <<>>
  BY DEF NoCatchUp
<1>3. CASE CatchUpBegins(f)
  <2>1. \A s \in {"mark", "fetch"} : [NoCatchUp EXCEPT !.pc = s].batch = <<>>
    BY DEF NoCatchUp
  <2> QED BY <1>1, <1>2, <1>3, <2>1 DEF CatchUpBegins, CatchUpEnds
<1>4. CASE FetchLog(f)
  <2> DEFINE from == CatchUpOffset(f)
             got == FetchResponse(from)
             new == [catchUp[f] EXCEPT !.pc = "apply", !.at = from,
                                       !.batch = got.batch, !.hw = got.hw]
  <2>1. \A i \in 1..Len(got.batch) : /\ from + i <= NextOffset(Leader)
                                     /\ got.batch[i] = log[Leader][from + i]
    BY <1>0, CatchUpOffsetType, FetchResponseProperties
  <2>2. /\ catchUp' = [catchUp EXCEPT ![f] = new]
        /\ UNCHANGED <<log, pc, target, pushes>>
    BY <1>4 DEF FetchLog
  <2>3. new.batch = got.batch /\ new.at = from
    BY <1>0 DEF CatchUpState
  <2> HIDE DEF from, got, new
  <2>4. \A g \in Follower : catchUp'[g] = IF g = f THEN new ELSE catchUp[g]
    BY <1>0, <2>2
  <2>5. NextOffset(Leader)' = NextOffset(Leader)
    BY <2>2 DEF NextOffset
  <2>6. BatchesAreLeaderRecords'
    BY <2>1, <2>2, <2>3, <2>4, <2>5 DEF PositionInv, BatchesAreLeaderRecords
  <2>7. /\ TargetsInLeaderLog' /\ PushesAreStarted'
        /\ RecordsAtTheirOffset' /\ AtMostOneAhead'
    BY <2>2 DEF PositionInv, TargetsInLeaderLog, PushesAreStarted, Started,
                RecordsAtTheirOffset, AtMostOneAhead, NextOffset
  <2> QED BY <2>6, <2>7 DEF PositionInv
<1>5. CASE FetchFails(f)
  BY <1>1, <1>2, <1>5 DEF FetchFails, CatchUpEnds
<1>6. CASE CatchUpAppend(f)
  <2> DEFINE batch == catchUp[f].batch
             at == catchUp[f].at
             new == [catchUp[f] EXCEPT !.at = at + 1, !.batch = Tail(batch)]
  <2>1. /\ batch # <<>> /\ at <= NextOffset(f)
        /\ log' = IF at = NextOffset(f)
                  THEN [log EXCEPT ![f] = Append(@, Head(batch))] ELSE log
        /\ catchUp' = [catchUp EXCEPT ![f] = new]
        /\ UNCHANGED <<pc, target, pushes>>
    BY <1>6 DEF CatchUpAppend
  <2>2. new.batch = Tail(batch) /\ new.at = at + 1
    BY <1>0 DEF CatchUpState
  <2>3. /\ batch \in Seq(Request) /\ at \in Nat
        /\ Len(batch) \in Nat /\ Len(batch) >= 1
    BY <1>0, <2>1, EmptySeq, LenProperties DEF CatchUpState
  <2>4. Head(batch) = batch[1] /\ Head(batch) \in Request
    BY <2>1, <2>3, HeadTailProperties
  <2>5. at + 1 <= NextOffset(Leader) /\ batch[1] = log[Leader][at + 1]
    BY <2>3 DEF PositionInv, BatchesAreLeaderRecords
  <2>6. Started(Head(batch)) /\ target[Head(batch)] = at
    <3>1. \A i \in 1..NextOffset(Leader) :
             Started(log[Leader][i]) /\ target[log[Leader][i]] = i - 1
      BY DEF PositionInv, RecordsAtTheirOffset, Started, NextOffset, Node
    <3>2. NextOffset(Leader) \in Nat
      BY <1>0, LenProperties DEF TypeOK, NextOffset, Node
    <3>3. at + 1 \in 1..NextOffset(Leader) /\ at + 1 - 1 = at
      BY <2>3, <2>5, <3>2
    <3>4. Head(batch) = log[Leader][at + 1]
      BY <2>4, <2>5
    <3>5. Started(log[Leader][at + 1]) /\ target[log[Leader][at + 1]] = at
      <4> HIDE DEF at
      <4>1. /\ Started(log[Leader][at + 1])
            /\ target[log[Leader][at + 1]] = (at + 1) - 1
        BY <3>1, <3>3 DEF Started
      <4>2. at \in Nat
        BY <2>3
      <4> QED BY <4>1, <4>2 DEF Started
    <3> QED BY <3>4, <3>5 DEF Started
  <2> HIDE DEF new, batch, at
  <2>7. \A g \in Follower : catchUp'[g] = IF g = f THEN new ELSE catchUp[g]
    BY <1>0, <2>1
  <2>8. \A q \in Request : Started(q) => Started(q)'
    BY <2>1 DEF Started
  <2>9. \A g \in Follower :
           \/ /\ catchUp'[g].batch = catchUp[g].batch
              /\ catchUp'[g].at = catchUp[g].at
           \/ /\ catchUp[g].batch # <<>>
              /\ catchUp'[g].batch = Tail(catchUp[g].batch)
              /\ catchUp'[g].at = catchUp[g].at + 1
    BY <2>1, <2>2, <2>7 DEF batch, at
  <2>10. CASE at = NextOffset(f)
    <3>1. NextOffset(f) <= NextOffset(Leader) /\ f \in Node
      BY <1>0, <2>3, <2>5, <2>10, LenProperties DEF TypeOK, NextOffset, Node
    <3> QED BY <2>1, <2>4, <2>6, <2>8, <2>9, <2>10, <3>1, PositionAppend
  <2>11. CASE at # NextOffset(f)
    <3>1. /\ UNCHANGED <<log, pc, target, pushes>>
          /\ NextOffset(Leader)' = NextOffset(Leader)
      BY <2>1, <2>11 DEF NextOffset
    <3>2. BatchesAreLeaderRecords'
      <4> SUFFICES ASSUME NEW g \in Follower,
                          NEW i \in 1..Len(catchUp'[g].batch)
                   PROVE  /\ catchUp'[g].at + i <= NextOffset(Leader)
                          /\ catchUp'[g].batch[i] = log[Leader][catchUp'[g].at + i]
        BY <3>1 DEF BatchesAreLeaderRecords
      <4>1. CASE g # f
        BY <2>7, <4>1 DEF PositionInv, BatchesAreLeaderRecords
      <4>2. CASE g = f
        <5>1. /\ Len(Tail(batch)) = Len(batch) - 1
              /\ \A k \in 1..Len(Tail(batch)) : Tail(batch)[k] = batch[k + 1]
          BY <2>1, <2>3, HeadTailProperties
        <5>2. i \in 1..Len(Tail(batch)) /\ i + 1 \in 1..Len(batch)
          BY <2>2, <2>3, <2>7, <4>2, <5>1
        <5>3. /\ at + (i + 1) <= NextOffset(Leader)
              /\ batch[i + 1] = log[Leader][at + (i + 1)]
          BY <5>2 DEF PositionInv, BatchesAreLeaderRecords, batch, at
        <5>4. at + 1 + i = at + (i + 1)
          BY <2>3
        <5> QED BY <2>2, <2>7, <4>2, <5>1, <5>2, <5>3, <5>4
      <4> QED BY <4>1, <4>2
    <3>3. /\ TargetsInLeaderLog' /\ PushesAreStarted'
          /\ RecordsAtTheirOffset' /\ AtMostOneAhead'
      BY <3>1 DEF PositionInv, TargetsInLeaderLog, PushesAreStarted, Started,
                  RecordsAtTheirOffset, AtMostOneAhead, NextOffset
    <3> QED BY <3>2, <3>3 DEF PositionInv
  <2> QED BY <2>10, <2>11
<1>7. CASE CatchUpStopped(f)
  BY <1>1, <1>2, <1>7 DEF CatchUpStopped, CatchUpEnds
<1>8. CASE CatchUpWriteFails(f)
  BY <1>1, <1>2, <1>8 DEF CatchUpWriteFails, CatchUpEnds
<1>9. CASE TryFinalizeInSync(f)
  <2>1. \A s \in {"mark", "fetch"} :
           /\ [catchUp[f] EXCEPT !.pc = s].batch = catchUp[f].batch
           /\ [catchUp[f] EXCEPT !.pc = s].at = catchUp[f].at
    BY <1>0 DEF CatchUpState
  <2> QED BY <1>1, <1>9, <2>1 DEF TryFinalizeInSync
<1>10. CASE MarkNodeInSync(f)
  BY <1>1, <1>2, <1>10 DEF MarkNodeInSync, CatchUpEnds
<1>11. CASE MarkFails(f)
  BY <1>1, <1>2, <1>11 DEF MarkFails, CatchUpEnds
<1>12. CASE CatchUpFindsNoClient(f)
  BY <1>1, <1>2, <1>12 DEF CatchUpFindsNoClient, CatchUpEnds
<1> QED BY <1>3, <1>4, <1>5, <1>6, <1>7, <1>8, <1>9, <1>10, <1>11, <1>12
        DEF CatchUpStep

LEMMA PositionRest ==
    ASSUME PositionInv, TypeOK',
           \/ LeaderWatchStep
           \/ \E f \in Follower : WatchStep(f)
           \/ \E n \in Node : AddReplica(n) \/ RemoveReplica(n)
           \/ RestartStep
           \/ UNCHANGED vars
    PROVE  PositionInv'
<1> USE DEF vars, nodeVars, metaVars, requestVars, netVars
<1>0. catchUp \in [Follower -> CatchUpState] /\ NoCatchUp.batch = <<>>
  BY DEF PositionInv, TypeOK, NoCatchUp
<1>1. ASSUME UNCHANGED <<log, target, pushes>>,
             \A r \in Request : Started(r) => Started(r)',
             \A f \in Follower :
                \/ catchUp'[f].batch = <<>>
                \/ /\ catchUp'[f].batch = catchUp[f].batch
                   /\ catchUp'[f].at = catchUp[f].at
      PROVE  PositionInv'
  BY <1>1, PositionFrame
<1>2. CASE ApplyAsLeader
  BY <1>1, <1>2 DEF ApplyAsLeader, Started
<1>3. ASSUME NEW f \in Follower, ApplyAsOutsider(f) PROVE PositionInv'
  <2>1. \A g \in Follower : /\ catchUp'[g].batch = catchUp[g].batch
                            /\ catchUp'[g].at = catchUp[g].at
    BY <1>0, <1>3 DEF ApplyAsOutsider, CatchUpState
  <2> QED BY <1>1, <1>3, <2>1 DEF ApplyAsOutsider, Started
<1>4. ASSUME NEW f \in Follower, ApplyAsInSync(f) PROVE PositionInv'
  BY <1>1, <1>4 DEF ApplyAsInSync, Started
<1>5. ASSUME NEW f \in Follower, ApplyAsReplica(f) PROVE PositionInv'
  <2>1. [NoCatchUp EXCEPT !.pc = "start"].batch = <<>>
    BY DEF NoCatchUp
  <2> QED BY <1>0, <1>1, <1>5, <2>1 DEF ApplyAsReplica, Started
<1>6. ASSUME NEW n \in Node, AddReplica(n) \/ RemoveReplica(n)
      PROVE  PositionInv'
  BY <1>1, <1>6 DEF AddReplica, RemoveReplica, Started
<1>7. CASE RestartLeader
  <2>1. \A r \in Request : Started(r) => Started(r)'
    BY <1>7 DEF RestartLeader, Started, Active
  <2> QED BY <1>1, <1>7, <2>1 DEF RestartLeader
<1>8. ASSUME NEW f \in Follower, RestartFollower(f) PROVE PositionInv'
  BY <1>0, <1>1, <1>8 DEF RestartFollower, Started
<1>9. CASE UNCHANGED vars
  BY <1>1, <1>9 DEF Started
<1>10. CASE LeaderTakenAway
  <2>1. /\ UNCHANGED <<log, pushes, pc, catchUp>>
        /\ \A r \in Request :
              \/ target'[r] = target[r]
              \/ pc[r] = "read" /\ target'[r] = NextOffset(Leader)
    BY <1>10 DEF LeaderTakenAway
  <2> QED BY <2>1, PositionFrame DEF Started
<1> QED BY <1>2, <1>3, <1>4, <1>5, <1>6, <1>7, <1>8, <1>9, <1>10
        DEF WatchStep, LeaderWatchStep, RestartStep

LEMMA NextPosition == PositionInv /\ [Next]_vars => PositionInv'
<1> SUFFICES ASSUME PositionInv, [Next]_vars PROVE PositionInv'
  OBVIOUS
<1>1. TypeOK'
  BY NextType DEF PositionInv
<1> QED BY <1>1, PositionProduce, PositionReplica, PositionCatchUp,
           PositionRest DEF Next

\* No replica is ever more than one record ahead of the leader.
THEOREM OneAhead == Spec => []AtMostOneAhead
<1>1. PositionInv => AtMostOneAhead
  BY DEF PositionInv
<1> QED BY <1>1, InitPosition, NextPosition, PTL DEF Spec

\* Every record stands at the offset its request read, in every log.
THEOREM Positions == Spec => []RecordsAtTheirOffset
<1>1. PositionInv => RecordsAtTheirOffset
  BY DEF PositionInv
<1> QED BY <1>1, InitPosition, NextPosition, PTL DEF Spec

-----------------------------------------------------------------------------
(* Durability while the ISR does not change.  The two properties are not   *)
(* inductive: that no roll-back reaches a committed record needs that the  *)
(* record to be rolled back is still the last one of the replica and that  *)
(* the leader's log ends just before it, and that a commit never finds its *)
(* offset taken needs that every in-sync replica holds the record at it.   *)

Member == InitIsr \ {Leader}

FixedMeta == [replicas |-> InitIsr, isr |-> InitIsr]

\* Nobody is reassigned, nobody catches up and no processor is deleted.
NothingChanges == /\ versions = <<FixedMeta>>
                  /\ stopped = {}
                  /\ budget.assign = 0
                  /\ \A f \in Follower : catchUp[f].pc = "off"
                  /\ hosted[Leader] => view = FixedMeta
                  /\ \A r \in Request :
                        pc[r] \in Active => snapshot[r] = FixedMeta

CallsGoToMembers == \A r \in Request, f \in Follower :
                       <<r, f>> \in pushes => f \in Member

\* The leader's log holds the accepted requests and no others.
LeaderHoldsAccepted ==
    \A r \in Request :
        /\ pc[r] = "accepted" => HasAt(Leader, target[r], r)
        /\ pc[r] # "accepted" => ~HasAt(Leader, target[r], r)

AcksAreOnReplicas ==
    \A r \in Request, f \in Follower : <<r, f>> \in acks =>
        pc[r] = "pushing" /\ f \in Member /\ HasAt(f, target[r], r)

CommittingIsOnAllReplicas ==
    \A r \in Request : pc[r] = "committing" =>
        \A f \in Member : HasAt(f, target[r], r)

\* What a pending roll-back will find on the replica: the very record it is
\* about, one beyond the end of the leader's log.
RollBacksHitTheirRecord ==
    \A r \in Request, f \in Follower : <<r, f>> \in invals =>
        /\ pc[r] \in {"invalidating", "failed"}
        /\ f \in Member
        /\ HasAt(f, target[r], r)
        /\ target[r] = NextOffset(Leader)

FixedIsrInv ==
    /\ PositionInv
    /\ NothingChanges
    /\ CallsGoToMembers
    /\ LeaderHoldsAccepted
    /\ AcksAreOnReplicas
    /\ CommittingIsOnAllReplicas
    /\ RollBacksHitTheirRecord
    /\ IsrHoldsLeaderLog

\* The controller reassigns nobody, every replica is in the ISR, and the ISR
\* has a member besides the leader.
FixedIsr == InitReplicas = InitIsr /\ Member # {} /\ MaxAssignments = 0

LEMMA MemberIsFollower == Member \subseteq Follower /\ Leader \notin Member
BY InitMetaAssumption DEF Member, Node

LEMMA InitFixedIsr ==
    ASSUME FixedIsr, Init
    PROVE  FixedIsrInv
<1>1. PositionInv
  BY InitPosition
<1>2. NothingChanges
  BY DEF Init, NothingChanges, FixedIsr, FixedMeta, NoCatchUp, Active, Node
<1>3. CallsGoToMembers /\ AcksAreOnReplicas /\ RollBacksHitTheirRecord
  BY DEF Init, CallsGoToMembers, AcksAreOnReplicas, RollBacksHitTheirRecord
<1>4. CommittingIsOnAllReplicas
  BY DEF Init, CommittingIsOnAllReplicas
<1>5. \A n \in Node : log[n] = <<>> /\ Len(log[n]) = 0
  BY DEF Init
<1>6. LeaderHoldsAccepted
  BY <1>5 DEF Init, LeaderHoldsAccepted, HasAt, Node
<1>7. IsrHoldsLeaderLog
  BY <1>5, InitMetaAssumption DEF IsrHoldsLeaderLog, NextOffset, Node
<1> QED BY <1>1, <1>2, <1>3, <1>4, <1>6, <1>7 DEF FixedIsrInv

\* The lengths and offsets the arguments below are about.
LEMMA Lengths ==
    ASSUME FixedIsrInv
    PROVE  /\ \A n \in Node : log[n] \in Seq(Request) /\ Len(log[n]) \in Nat
           /\ \A r \in Request : target[r] \in Nat /\ target[r] <= Len(log[Leader])
           /\ Leader \in Node /\ Member \subseteq Node
           /\ \A f \in Member : /\ Len(log[Leader]) <= Len(log[f])
                                /\ \A i \in 1..Len(log[Leader]) :
                                      log[f][i] = log[Leader][i]
<1>1. TypeOK /\ TargetsInLeaderLog /\ IsrHoldsLeaderLog
  BY DEF FixedIsrInv, PositionInv
<1>2. \A n \in Node : log[n] \in Seq(Request) /\ Len(log[n]) \in Nat
  BY <1>1, LenProperties DEF TypeOK
<1>3. \A r \in Request : target[r] \in Nat /\ target[r] <= Len(log[Leader])
  BY <1>1 DEF TypeOK, TargetsInLeaderLog, NextOffset
<1>4. \A f \in Member : /\ Len(log[Leader]) <= Len(log[f])
                        /\ \A i \in 1..Len(log[Leader]) : log[f][i] = log[Leader][i]
  BY <1>1 DEF IsrHoldsLeaderLog, NextOffset, Member
<1> QED BY <1>2, <1>3, <1>4, MemberIsFollower DEF Node

\* A request at its commit finds its offset free: a record the in-sync
\* replicas hold at an offset the leader has passed would be the leader's own.
LEMMA CommitAtEnd ==
    ASSUME FixedIsr, FixedIsrInv, NEW r \in Request, pc[r] = "committing"
    PROVE  target[r] = NextOffset(Leader)
<1>1. PICK f \in Member : HasAt(f, target[r], r)
  BY DEF FixedIsr, FixedIsrInv, CommittingIsOnAllReplicas
<1>2. ~HasAt(Leader, target[r], r)
  BY DEF FixedIsrInv, LeaderHoldsAccepted
<1>3. target[r] \in Nat /\ target[r] <= Len(log[Leader]) /\ Len(log[Leader]) \in Nat
  BY Lengths
<1>4. ASSUME target[r] < Len(log[Leader]) PROVE FALSE
  <2>1. target[r] + 1 \in 1..Len(log[Leader])
    BY <1>3, <1>4
  <2>2. log[Leader][target[r] + 1] = log[f][target[r] + 1]
    BY <2>1, Lengths
  <2> QED BY <1>1, <1>2, <1>4, <2>2 DEF HasAt
<1> QED BY <1>3, <1>4 DEF NextOffset

\* A step that writes no log: requests move on, calls are consumed, and what
\* a request newly claims of the replicas is so.
LEMMA FixedFrame ==
    ASSUME FixedIsrInv, PositionInv', NothingChanges',
           UNCHANGED <<log, target>>,
           pushes' \subseteq pushes,
           \A r \in Request, f \in Follower :
              <<r, f>> \in acks' => <<r, f>> \in acks /\ pc'[r] = "pushing",
           \A r \in Request : pc'[r] = "committing" =>
              pc[r] = "committing" \/ \A f \in Member : HasAt(f, target[r], r),
           \A r \in Request : pc'[r] = "accepted" <=> pc[r] = "accepted",
           \A r \in Request : pc[r] \in {"invalidating", "failed"} =>
              pc'[r] \in {"invalidating", "failed"},
           \A r \in Request, f \in Follower : <<r, f>> \in invals' =>
              \/ <<r, f>> \in invals
              \/ /\ pc'[r] = "invalidating" /\ f \in Member
                 /\ HasAt(f, target[r], r) /\ target[r] = NextOffset(Leader)
    PROVE  FixedIsrInv'
<1>1. CallsGoToMembers'
  BY DEF FixedIsrInv, CallsGoToMembers, Member
<1>2. LeaderHoldsAccepted'
  BY DEF FixedIsrInv, LeaderHoldsAccepted, HasAt
<1>3. AcksAreOnReplicas'
  BY DEF FixedIsrInv, AcksAreOnReplicas, HasAt, Member
<1>4. CommittingIsOnAllReplicas'
  BY DEF FixedIsrInv, CommittingIsOnAllReplicas, HasAt, Member
<1>5. RollBacksHitTheirRecord'
  BY DEF FixedIsrInv, RollBacksHitTheirRecord, HasAt, NextOffset, Member
<1>6. IsrHoldsLeaderLog'
  BY DEF FixedIsrInv, IsrHoldsLeaderLog, NextOffset
<1> QED BY <1>1, <1>2, <1>3, <1>4, <1>5, <1>6 DEF FixedIsrInv

\* Reading the offset: the request is in no call and in no log.
LEMMA FixedReadOffset ==
    ASSUME FixedIsr, FixedIsrInv, PositionInv', NothingChanges',
           NEW r \in Request, ReadOffset(r)
    PROVE  FixedIsrInv'
<1>1. /\ pc[r] = "read" /\ pc' = [pc EXCEPT ![r] = "pushing"]
      /\ target' = [target EXCEPT ![r] = NextOffset(Leader)]
      /\ pushes' = pushes \cup ({r} \X (snapshot[r].replicas \ {Leader}))
      /\ UNCHANGED <<log, acks, invals>>
  BY DEF ReadOffset, nodeVars, FixedIsrInv, NothingChanges
<1>2. /\ pc'[r] = "pushing" /\ target'[r] = NextOffset(Leader)
      /\ \A q \in Request \ {r} : pc'[q] = pc[q] /\ target'[q] = target[q]
  BY <1>1 DEF FixedIsrInv, PositionInv, TypeOK
<1>3. CallsGoToMembers'
  <2>1. snapshot[r].replicas = InitIsr
    BY <1>1 DEF FixedIsrInv, NothingChanges, Active, FixedMeta
  <2> QED BY <1>1, <2>1 DEF FixedIsrInv, CallsGoToMembers, Member
<1>4. LeaderHoldsAccepted'
  <2>1. ~HasAt(Leader, NextOffset(Leader), r)
    BY Lengths DEF HasAt, NextOffset
  <2> QED BY <1>1, <1>2, <2>1 DEF FixedIsrInv, LeaderHoldsAccepted, HasAt
<1>5. AcksAreOnReplicas'
  BY <1>1, <1>2 DEF FixedIsrInv, AcksAreOnReplicas, HasAt, Member
<1>6. CommittingIsOnAllReplicas'
  BY <1>1, <1>2 DEF FixedIsrInv, CommittingIsOnAllReplicas, HasAt, Member
<1>7. RollBacksHitTheirRecord'
  BY <1>1, <1>2
     DEF FixedIsrInv, RollBacksHitTheirRecord, HasAt, NextOffset, Member
<1>8. IsrHoldsLeaderLog'
  BY <1>1 DEF FixedIsrInv, IsrHoldsLeaderLog, NextOffset
<1> QED BY <1>3, <1>4, <1>5, <1>6, <1>7, <1>8 DEF FixedIsrInv

\* A push that is applied lands right behind the leader's log.
LEMMA FixedPush ==
    ASSUME FixedIsr, FixedIsrInv, PositionInv', NothingChanges',
           NEW r \in Request, NEW f \in Follower, PushApplied(r, f)
    PROVE  FixedIsrInv'
<1>1. /\ <<r, f>> \in pushes /\ target[r] = Len(log[f])
      /\ log' = [log EXCEPT ![f] = Append(@, r)]
      /\ pushes' = pushes \ {<<r, f>>}
      /\ acks' = IF pc[r] = "pushing" THEN acks \cup {<<r, f>>} ELSE acks
      /\ UNCHANGED <<pc, target, invals>>
  BY DEF PushApplied, AcceptsPush, NextOffset, requestVars
<1>2. f \in Member /\ f \in Node /\ f # Leader
  BY <1>1, MemberIsFollower DEF FixedIsrInv, CallsGoToMembers, Node
<1>3. /\ log'[f] = Append(log[f], r)
      /\ \A n \in Node \ {f} : log'[n] = log[n]
      /\ log'[Leader] = log[Leader]
  BY <1>1, <1>2, Lengths DEF FixedIsrInv, PositionInv, TypeOK
<1>4. /\ Len(log'[f]) = Len(log[f]) + 1
      /\ \A i \in 1..Len(log[f]) : log'[f][i] = log[f][i]
      /\ log'[f][Len(log[f]) + 1] = r
  BY <1>2, <1>3, Lengths, AppendProperties
<1>5. ASSUME NEW n \in Node, NEW q \in Request, HasAt(n, target[q], q)
      PROVE  HasAt(n, target[q], q)'
  <2>1. target[q] \in Nat /\ Len(log[n]) \in Nat
    BY Lengths
  <2>2. target[q] < Len(log[n]) /\ log[n][target[q] + 1] = q
    BY <1>5 DEF HasAt
  <2>3. target[q] < Len(log'[n]) /\ log'[n][target[q] + 1] = q
    <3>1. CASE n = f
      BY <1>4, <2>1, <2>2, <3>1
    <3>2. CASE n # f
      <4>1. log'[n] = log[n]
        BY <1>3, <3>2
      <4> QED BY <2>2, <4>1
    <3> QED BY <3>1, <3>2
  <2> QED BY <1>1, <2>3 DEF HasAt
<1>6. HasAt(f, target[r], r)'
  BY <1>1, <1>2, <1>4, Lengths DEF HasAt
<1>7. CallsGoToMembers'
  BY <1>1 DEF FixedIsrInv, CallsGoToMembers, Member
<1>8. LeaderHoldsAccepted'
  BY <1>1, <1>3 DEF FixedIsrInv, LeaderHoldsAccepted, HasAt
<1>9. AcksAreOnReplicas'
  <2> SUFFICES ASSUME NEW q \in Request, NEW g \in Follower, <<q, g>> \in acks'
               PROVE  pc[q] = "pushing" /\ g \in Member /\ HasAt(g, target[q], q)'
    BY <1>1 DEF AcksAreOnReplicas, Member
  <2>1. CASE <<q, g>> \in acks
    <3>1. pc[q] = "pushing" /\ g \in Member /\ HasAt(g, target[q], q)
      BY <2>1 DEF FixedIsrInv, AcksAreOnReplicas
    <3> QED BY <1>5, <3>1 DEF Node
  <2>2. CASE <<q, g>> \notin acks
    <3>1. q = r /\ g = f /\ pc[r] = "pushing"
      BY <1>1, <2>2
    <3> QED BY <1>2, <1>6, <3>1
  <2> QED BY <2>1, <2>2
<1>10. CommittingIsOnAllReplicas'
  <2> SUFFICES ASSUME NEW q \in Request, pc[q] = "committing", NEW g \in Member
               PROVE  HasAt(g, target[q], q)'
    BY <1>1 DEF CommittingIsOnAllReplicas, Member
  <2>1. g \in Node /\ HasAt(g, target[q], q)
    BY Lengths DEF FixedIsrInv, CommittingIsOnAllReplicas
  <2> QED BY <1>5, <2>1
<1>11. RollBacksHitTheirRecord'
  <2> SUFFICES ASSUME NEW q \in Request, NEW g \in Follower, <<q, g>> \in invals
               PROVE  /\ pc[q] \in {"invalidating", "failed"} /\ g \in Member
                      /\ HasAt(g, target[q], q)'
                      /\ target[q] = Len(log[Leader])
    BY <1>1, <1>3 DEF RollBacksHitTheirRecord, NextOffset, Member
  <2>1. /\ pc[q] \in {"invalidating", "failed"} /\ g \in Member
        /\ HasAt(g, target[q], q) /\ target[q] = NextOffset(Leader)
    BY DEF FixedIsrInv, RollBacksHitTheirRecord
  <2> QED BY <1>5, <2>1 DEF Node, NextOffset
<1>12. IsrHoldsLeaderLog'
  <2> SUFFICES ASSUME NEW n \in InitIsr
               PROVE  /\ Len(log[Leader]) <= Len(log'[n])
                      /\ \A i \in 1..Len(log[Leader]) : log'[n][i] = log[Leader][i]
    BY <1>3 DEF IsrHoldsLeaderLog, NextOffset
  <2>1. /\ Len(log[Leader]) <= Len(log[n]) /\ n \in Node
        /\ \A i \in 1..Len(log[Leader]) : log[n][i] = log[Leader][i]
    BY InitMetaAssumption DEF FixedIsrInv, IsrHoldsLeaderLog, NextOffset
  <2>2. Len(log[n]) \in Nat /\ Len(log[Leader]) \in Nat
    BY <2>1, Lengths
  <2> QED BY <1>3, <1>4, <2>1, <2>2, SMTT(30)
<1> QED BY <1>7, <1>8, <1>9, <1>10, <1>11, <1>12 DEF FixedIsrInv

\* A commit appends the record the in-sync replicas hold at that offset; no
\* roll-back can be pending then.
LEMMA FixedCommit ==
    ASSUME FixedIsr, FixedIsrInv, PositionInv', NothingChanges',
           NEW r \in Request, Commit(r)
    PROVE  FixedIsrInv'
<1>1. /\ pc[r] = "committing" /\ target[r] = Len(log[Leader])
      /\ log' = [log EXCEPT ![Leader] = Append(@, r)]
      /\ pc' = [pc EXCEPT ![r] = "accepted"]
      /\ UNCHANGED <<target, pushes, acks, invals>>
  BY DEF Commit, Answer, NextOffset, netVars
<1>2. /\ log'[Leader] = Append(log[Leader], r)
      /\ \A n \in Node \ {Leader} : log'[n] = log[n]
      /\ pc'[r] = "accepted" /\ \A q \in Request \ {r} : pc'[q] = pc[q]
  BY <1>1, Lengths DEF FixedIsrInv, PositionInv, TypeOK
<1>3. /\ Len(log'[Leader]) = Len(log[Leader]) + 1
      /\ \A i \in 1..Len(log[Leader]) : log'[Leader][i] = log[Leader][i]
      /\ log'[Leader][Len(log[Leader]) + 1] = r
  BY <1>2, Lengths, AppendProperties
<1>4. \A f \in Member : /\ log'[f] = log[f] /\ f \in Node
                        /\ Len(log[f]) >= Len(log[Leader]) + 1
                        /\ log[f][Len(log[Leader]) + 1] = r
  <2> SUFFICES ASSUME NEW f \in Member
               PROVE  /\ log'[f] = log[f] /\ f \in Node
                      /\ Len(log[f]) >= Len(log[Leader]) + 1
                      /\ log[f][Len(log[Leader]) + 1] = r
    OBVIOUS
  <2>1. f \in Node \ {Leader}
    BY Lengths, MemberIsFollower
  <2>2. HasAt(f, target[r], r)
    BY <1>1 DEF FixedIsrInv, CommittingIsOnAllReplicas
  <2> QED BY <1>1, <1>2, <2>1, <2>2, Lengths DEF HasAt
<1>5. invals = {}
  <2> SUFFICES ASSUME NEW q \in Request, NEW f \in Follower, <<q, f>> \in invals
               PROVE  FALSE
    BY DEF FixedIsrInv, PositionInv, TypeOK
  <2>1. /\ pc[q] \in {"invalidating", "failed"} /\ f \in Member
        /\ HasAt(f, target[q], q) /\ target[q] = Len(log[Leader])
    BY DEF FixedIsrInv, RollBacksHitTheirRecord, NextOffset
  <2>2. q = r
    BY <1>4, <2>1 DEF HasAt
  <2> QED BY <1>1, <2>1, <2>2
<1>6. CallsGoToMembers' /\ RollBacksHitTheirRecord'
  BY <1>1, <1>5
     DEF FixedIsrInv, CallsGoToMembers, RollBacksHitTheirRecord, Member
<1>7. LeaderHoldsAccepted'
  <2> SUFFICES ASSUME NEW q \in Request
               PROVE  /\ pc'[q] = "accepted" => HasAt(Leader, target[q], q)'
                      /\ pc'[q] # "accepted" => ~HasAt(Leader, target[q], q)'
    BY <1>1 DEF LeaderHoldsAccepted, HasAt
  <2>1. target[q] \in Nat /\ target[q] <= Len(log[Leader]) /\ Len(log[Leader]) \in Nat
    BY Lengths
  <2>2. CASE q = r
    BY <1>1, <1>2, <1>3, <2>1, <2>2 DEF HasAt
  <2>3. CASE q # r
    <3>1. pc'[q] = pc[q]
      BY <1>2, <2>3
    <3>2. HasAt(Leader, target[q], q)' <=> HasAt(Leader, target[q], q)
      <4>1. CASE target[q] < Len(log[Leader])
        BY <1>1, <1>3, <2>1, <4>1 DEF HasAt
      <4>2. CASE target[q] = Len(log[Leader])
        <5>1. log'[Leader][target[q] + 1] # q
          BY <1>3, <2>3, <4>2
        <5> QED BY <1>1, <2>1, <4>2, <5>1 DEF HasAt
      <4> QED BY <2>1, <4>1, <4>2
    <3>3. /\ pc[q] = "accepted" => HasAt(Leader, target[q], q)
          /\ pc[q] # "accepted" => ~HasAt(Leader, target[q], q)
      BY DEF FixedIsrInv, LeaderHoldsAccepted
    <3> QED BY <3>1, <3>2, <3>3
  <2> QED BY <2>2, <2>3
<1>8. AcksAreOnReplicas'
  <2> SUFFICES ASSUME NEW q \in Request, NEW f \in Follower, <<q, f>> \in acks
               PROVE  /\ pc'[q] = "pushing" /\ f \in Member
                      /\ HasAt(f, target[q], q)'
    BY <1>1 DEF AcksAreOnReplicas, Member
  <2>1. pc[q] = "pushing" /\ f \in Member /\ HasAt(f, target[q], q)
    BY DEF FixedIsrInv, AcksAreOnReplicas
  <2> QED BY <1>1, <1>2, <1>4, <2>1 DEF HasAt
<1>9. CommittingIsOnAllReplicas'
  <2> SUFFICES ASSUME NEW q \in Request, pc'[q] = "committing", NEW f \in Member
               PROVE  HasAt(f, target[q], q)'
    BY <1>1 DEF CommittingIsOnAllReplicas, Member
  <2>1. pc[q] = "committing"
    BY <1>2
  <2>2. HasAt(f, target[q], q)
    BY <2>1 DEF FixedIsrInv, CommittingIsOnAllReplicas
  <2> QED BY <1>1, <1>4, <2>2 DEF HasAt
<1>10. IsrHoldsLeaderLog'
  <2> SUFFICES ASSUME NEW n \in InitIsr
               PROVE  /\ Len(log'[Leader]) <= Len(log'[n])
                      /\ \A i \in 1..Len(log'[Leader]) : log'[n][i] = log'[Leader][i]
    BY DEF IsrHoldsLeaderLog, NextOffset
  <2>1. CASE n = Leader
    BY <1>3, <2>1, Lengths
  <2>2. CASE n # Leader
    <3>1. n \in Member
      BY <2>2 DEF Member
    <3>2. /\ log'[n] = log[n] /\ Len(log[n]) >= Len(log[Leader]) + 1
          /\ log[n][Len(log[Leader]) + 1] = r
          /\ \A i \in 1..Len(log[Leader]) : log[n][i] = log[Leader][i]
          /\ Len(log[n]) \in Nat /\ Len(log[Leader]) \in Nat
      BY <1>4, <3>1, Lengths
    <3> QED BY <1>3, <3>2
  <2> QED BY <2>1, <2>2
<1> QED BY <1>6, <1>7, <1>8, <1>9, <1>10 DEF FixedIsrInv

\* A roll-back takes away its own record, and nothing else needs that record.
LEMMA FixedInvalidate ==
    ASSUME FixedIsr, FixedIsrInv, PositionInv', NothingChanges',
           NEW r \in Request, NEW f \in Follower, InvalidateApplied(r, f)
    PROVE  FixedIsrInv'
<1>1. /\ <<r, f>> \in invals /\ invals' = invals \ {<<r, f>>}
      /\ log' = [log EXCEPT ![f] = SubSeq(@, 1, target[r])]
      /\ Len(log[f]) = target[r] + 1
      /\ UNCHANGED <<pc, target, pushes, acks>>
  BY DEF InvalidateApplied, Invalidates, NextOffset, requestVars
<1>2. /\ pc[r] \in {"invalidating", "failed"} /\ f \in Member
      /\ HasAt(f, target[r], r) /\ target[r] = Len(log[Leader])
  BY <1>1 DEF FixedIsrInv, RollBacksHitTheirRecord, NextOffset
<1>3. f \in Node \ {Leader} /\ log[f] \in Seq(Request) /\ target[r] \in Nat
  BY <1>2, Lengths, MemberIsFollower
<1>4. /\ log'[f] = SubSeq(log[f], 1, target[r])
      /\ \A n \in Node \ {f} : log'[n] = log[n]
      /\ log'[Leader] = log[Leader]
  BY <1>1, <1>3, Lengths DEF FixedIsrInv, PositionInv, TypeOK
<1>5. /\ Len(log'[f]) = target[r]
      /\ \A i \in 1..target[r] : log'[f][i] = log[f][i]
  <2>1. \A i \in 1..target[r] : log[f][i] \in Request
    BY <1>1, <1>3, ElementOfSeq
  <2> QED BY <1>3, <1>4, <2>1, SubSeqProperties
<1>6. ASSUME NEW n \in Node, NEW q \in Request, HasAt(n, target[q], q),
             n # f \/ q # r
      PROVE  HasAt(n, target[q], q)'
  <2>1. CASE n # f
    BY <1>1, <1>4, <1>6, <2>1 DEF HasAt
  <2>2. CASE n = f
    <3>1. target[q] \in Nat /\ target[q] <= target[r] /\ target[r] \in Nat
      BY <1>2, Lengths
    <3>2. target[q] # target[r]
      BY <1>2, <1>6, <2>2 DEF HasAt
    <3>3. target[q] < target[r]
      BY <3>1, <3>2
    <3> QED BY <1>1, <1>5, <1>6, <2>2, <3>1, <3>3, SMTT(30) DEF HasAt
  <2> QED BY <2>1, <2>2
<1>7. CallsGoToMembers'
  BY <1>1 DEF FixedIsrInv, CallsGoToMembers, Member
<1>8. LeaderHoldsAccepted'
  BY <1>1, <1>4 DEF FixedIsrInv, LeaderHoldsAccepted, HasAt
<1>9. AcksAreOnReplicas'
  <2> SUFFICES ASSUME NEW q \in Request, NEW g \in Follower, <<q, g>> \in acks
               PROVE  pc[q] = "pushing" /\ g \in Member /\ HasAt(g, target[q], q)'
    BY <1>1 DEF AcksAreOnReplicas, Member
  <2>1. pc[q] = "pushing" /\ g \in Member /\ HasAt(g, target[q], q)
    BY DEF FixedIsrInv, AcksAreOnReplicas
  <2>2. q # r /\ g \in Node
    BY <1>2, <2>1 DEF Node
  <2> QED BY <1>6, <2>1, <2>2
<1>10. CommittingIsOnAllReplicas'
  <2> SUFFICES ASSUME NEW q \in Request, pc[q] = "committing", NEW g \in Member
               PROVE  HasAt(g, target[q], q)'
    BY <1>1 DEF CommittingIsOnAllReplicas, Member
  <2>1. HasAt(g, target[q], q) /\ q # r /\ g \in Node
    BY <1>2, Lengths DEF FixedIsrInv, CommittingIsOnAllReplicas
  <2> QED BY <1>6, <2>1
<1>11. RollBacksHitTheirRecord'
  <2> SUFFICES ASSUME NEW q \in Request, NEW g \in Follower, <<q, g>> \in invals'
               PROVE  /\ pc[q] \in {"invalidating", "failed"} /\ g \in Member
                      /\ HasAt(g, target[q], q)'
                      /\ target[q] = Len(log[Leader])
    BY <1>1, <1>4 DEF RollBacksHitTheirRecord, NextOffset, Member
  <2>1. /\ pc[q] \in {"invalidating", "failed"} /\ g \in Member
        /\ HasAt(g, target[q], q) /\ target[q] = Len(log[Leader])
    BY <1>1 DEF FixedIsrInv, RollBacksHitTheirRecord, NextOffset
  <2>2. (g # f \/ q # r) /\ g \in Node
    BY <1>1 DEF Node
  <2> QED BY <1>6, <2>1, <2>2
<1>12. IsrHoldsLeaderLog'
  <2> SUFFICES ASSUME NEW n \in InitIsr
               PROVE  /\ Len(log[Leader]) <= Len(log'[n])
                      /\ \A i \in 1..Len(log[Leader]) : log'[n][i] = log[Leader][i]
    BY <1>4 DEF IsrHoldsLeaderLog, NextOffset
  <2>1. /\ Len(log[Leader]) <= Len(log[n]) /\ n \in Node
        /\ \A i \in 1..Len(log[Leader]) : log[n][i] = log[Leader][i]
    BY InitMetaAssumption DEF FixedIsrInv, IsrHoldsLeaderLog, NextOffset
  <2>2. CASE n = f
    BY <1>2, <1>3, <1>5, <2>1, <2>2
  <2>3. CASE n # f
    BY <1>4, <2>1, <2>3
  <2> QED BY <2>2, <2>3
<1> QED BY <1>7, <1>8, <1>9, <1>10, <1>11, <1>12 DEF FixedIsrInv

\* The topic record, the goroutines and the leader's replica list stand still.
LEMMA NothingChangesStep ==
    ASSUME FixedIsr, FixedIsrInv, Next
    PROVE  NothingChanges'
<1> USE DEF nodeVars, metaVars, requestVars, netVars
<1>1. /\ versions = <<FixedMeta>> /\ budget.assign = 0 /\ stopped = {}
      /\ \A f \in Follower : catchUp[f].pc = "off"
      /\ hosted[Leader] => view = FixedMeta
      /\ \A r \in Request : pc[r] \in Active => snapshot[r] = FixedMeta
      /\ hosted \in [Node -> BOOLEAN] /\ pc \in [Request -> Phase]
      /\ snapshot \in [Request -> Meta] /\ budget \in Budget
      /\ seen \in [Node -> Nat]
      /\ \A f \in Follower : f # Leader
      /\ Leader \in Node
  BY LeaderIsNoFollower DEF FixedIsrInv, NothingChanges, PositionInv, TypeOK, Node
<1>2. ASSUME NEW kind \in {"disk", "restart", "call"}, Spend(kind)
      PROVE  budget'.assign = 0
  BY <1>1, <1>2 DEF Spend, Budget
<1>3. ASSUME NEW n \in Node, Deliver(n)
      PROVE  versions[NextVersion(n)] = FixedMeta
  BY <1>1, <1>3 DEF Deliver, NextVersion
<1>4. ASSUME UNCHANGED <<versions, catchUp, view>>, budget'.assign = 0,
             stopped' = {}, hosted'[Leader] = hosted[Leader],
             \A r \in Request : pc'[r] \in Active =>
                \/ pc[r] \in Active /\ snapshot'[r] = snapshot[r]
                \/ snapshot'[r] = FixedMeta
      PROVE  NothingChanges'
  BY <1>1, <1>4 DEF NothingChanges, FixedMeta
<1>5. ASSUME NEW r \in Request, ProduceStep(r) PROVE NothingChanges'
  <2>1. \A q \in Request : pc'[q] \in Active =>
           \/ pc[q] \in Active /\ snapshot'[q] = snapshot[q]
           \/ snapshot'[q] = FixedMeta
    <3>1. CASE ReadReplicas(r)
      BY <1>1, <3>1 DEF ReadReplicas
    <3>2. CASE ReadOffset(r) \/ CollectAcks(r) \/ CommitFails(r)
      BY <1>1, <3>2 DEF ReadOffset, CollectAcks, CommitFails, RollBack, Answer,
                        Active
    <3>3. CASE ProduceRefused(r) \/ Commit(r) \/ CommitOverTaken(r) \/ InvalidateDone(r)
      BY <1>1, <3>3 DEF ProduceRefused, Commit, CommitOverTaken, InvalidateDone,
                        Answer, Active
    <3>4. ~CommitRefused(r)
      BY <1>1 DEF CommitRefused
    <3> QED BY <1>5, <3>1, <3>2, <3>3, <3>4 DEF ProduceStep
  <2>2. UNCHANGED <<versions, catchUp, view, hosted>>
    BY <1>5 DEF ProduceStep, ProduceRefused, ReadReplicas, ReadOffset,
          CollectAcks, Commit, CommitOverTaken, CommitFails, CommitRefused,
          RollBack, InvalidateDone
  <2>3. UNCHANGED budget \/ Spend("disk")
    BY <1>5 DEF ProduceStep, ProduceRefused, ReadReplicas, ReadOffset,
          CollectAcks, Commit, CommitOverTaken, CommitFails, CommitRefused,
          InvalidateDone
  <2>4. stopped' \subseteq stopped
    BY <1>5 DEF ProduceStep, ProduceRefused, ReadReplicas, ReadOffset,
          CollectAcks, Commit, CommitOverTaken, CommitFails, CommitRefused,
          RollBack, InvalidateDone, Answer
  <2> QED BY <1>1, <1>2, <1>4, <2>1, <2>2, <2>3, <2>4
<1>6. ASSUME NEW r \in Request, NEW f \in Follower, ReplicaStep(r, f)
      PROVE  NothingChanges'
  <2>1. UNCHANGED <<versions, catchUp, view, hosted, pc, snapshot, stopped>>
    BY <1>6 DEF ReplicaStep, PushApplied, PushRejected, PushWriteFails,
          InvalidateApplied, InvalidateIgnored, InvalidateWriteFails
  <2>2. UNCHANGED budget \/ Spend("disk")
    BY <1>6 DEF ReplicaStep, PushApplied, PushRejected, PushWriteFails,
          InvalidateApplied, InvalidateIgnored, InvalidateWriteFails
  <2> QED BY <1>1, <1>2, <1>4, <2>1, <2>2
<1>7. CASE ApplyAsLeader
  BY <1>1, <1>3, <1>7 DEF ApplyAsLeader, NothingChanges, FixedMeta, Node
<1>8. ASSUME NEW f \in Follower, WatchStep(f) PROVE NothingChanges'
  <2>1. CASE ApplyAsOutsider(f) \/ ApplyAsInSync(f)
    <3>1. /\ UNCHANGED <<versions, catchUp, view, pc, snapshot, stopped, budget>>
          /\ hosted' = [hosted EXCEPT ![f] = hosted'[f]]
      BY <1>1, <2>1 DEF ApplyAsOutsider, ApplyAsInSync
    <3>2. hosted'[Leader] = hosted[Leader]
      BY <1>1, <3>1, Zenon
    <3> QED BY <1>1, <1>4, <3>1, <3>2
  <2>2. CASE ApplyAsReplica(f)
    BY <1>3, <2>2 DEF ApplyAsReplica, FixedMeta, Node
  <2> QED BY <1>8, <2>1, <2>2 DEF WatchStep
<1>9. ASSUME NEW f \in Follower, CatchUpStep(f) PROVE NothingChanges'
  BY <1>1, <1>9 DEF CatchUpStep, CatchUpBegins, CatchUpFindsNoClient, FetchLog,
     FetchFails, CatchUpAppend, CatchUpStopped, CatchUpWriteFails,
     TryFinalizeInSync, MarkNodeInSync, MarkFails
<1>10. ASSUME NEW n \in Node, AddReplica(n) \/ RemoveReplica(n)
       PROVE  NothingChanges'
  BY <1>1, <1>10 DEF AddReplica, RemoveReplica, Spend
<1>11. CASE RestartLeader
  <2>1. budget'.assign = 0
    BY <1>2, <1>11 DEF RestartLeader
  <2>2. ~hosted'[Leader] /\ stopped' = {} /\ UNCHANGED <<versions, catchUp>>
    BY <1>1, <1>11 DEF RestartLeader, Node
  <2>3. \A r \in Request : pc'[r] \notin Active
    BY <1>11 DEF RestartLeader, Active
  <2> QED BY <1>1, <2>1, <2>2, <2>3 DEF NothingChanges, FixedMeta
<1>12. ASSUME NEW f \in Follower, RestartFollower(f) PROVE NothingChanges'
  <2>1. budget'.assign = 0
    BY <1>2, <1>12 DEF RestartFollower
  <2>2. /\ UNCHANGED <<versions, view, pc, snapshot, stopped>>
        /\ hosted' = [hosted EXCEPT ![f] = FALSE]
    BY <1>12 DEF RestartFollower
  <2>4. hosted'[Leader] = hosted[Leader]
    BY <1>1, <2>2, Zenon
  <2>3. \A g \in Follower : catchUp'[g].pc = "off"
    BY <1>1, <1>12 DEF RestartFollower, NoCatchUp, FixedIsrInv, PositionInv,
                       TypeOK
  <2> QED BY <1>1, <2>1, <2>2, <2>3, <2>4 DEF NothingChanges, FixedMeta
<1>13. ~LeaderTakenAway
  BY <1>1, <1>3, InitMetaAssumption DEF LeaderTakenAway, FixedMeta
<1> QED BY <1>5, <1>6, <1>7, <1>8, <1>9, <1>10, <1>11, <1>12, <1>13
        DEF Next, LeaderWatchStep, RestartStep

LEMMA NextFixedIsr ==
    ASSUME FixedIsr, FixedIsrInv, [Next]_vars
    PROVE  FixedIsrInv'
<1> USE DEF nodeVars, metaVars, requestVars, netVars
<1>1. PositionInv'
  BY NextPosition DEF FixedIsrInv
<1>2. CASE UNCHANGED vars
  <2>1. NothingChanges'
    BY <1>2 DEF vars, FixedIsrInv, NothingChanges, FixedMeta
  <2>2. \A r \in Request, f \in Follower : <<r, f>> \in acks => pc[r] = "pushing"
    BY DEF FixedIsrInv, AcksAreOnReplicas
  <2> QED BY <1>1, <1>2, <2>1, <2>2, FixedFrame DEF vars
<1>3. CASE Next
  <2>0. /\ NothingChanges'
        /\ \A r \in Request, f \in Follower : <<r, f>> \in acks =>
              pc[r] = "pushing" /\ f \in Member /\ HasAt(f, target[r], r)
        /\ pc \in [Request -> Phase]
    BY <1>3, NothingChangesStep
       DEF FixedIsrInv, AcksAreOnReplicas, PositionInv, TypeOK
  <2>1. ASSUME NEW r \in Request, ProduceStep(r) PROVE FixedIsrInv'
    <3>1. CASE ProduceRefused(r)
      BY <1>1, <2>0, <3>1, FixedFrame DEF ProduceRefused, Answer, Phase
    <3>2. CASE ReadReplicas(r)
      BY <1>1, <2>0, <3>2, FixedFrame DEF ReadReplicas, Phase
    <3>3. CASE ReadOffset(r)
      BY <1>1, <2>0, <3>3, FixedReadOffset
    <3>4. CASE CollectAcks(r)
      <4>1. snapshot[r] = FixedMeta
        BY <3>4 DEF CollectAcks, FixedIsrInv, NothingChanges, Active
      <4>2. PICK acked \in SUBSET {f \in Follower : <<r, f>> \in acks} :
               IF Quorum(FixedMeta, acked)
               THEN pc' = [pc EXCEPT ![r] = "committing"]
               ELSE pc' = [pc EXCEPT ![r] = "failed"]
        BY <3>4, <4>1 DEF CollectAcks, Answer
      <4>3. Quorum(FixedMeta, acked) => \A f \in Member : HasAt(f, target[r], r)
        <5>1. FixedMeta.isr \ {Leader} = Member
          BY DEF FixedMeta, Member
        <5> QED BY <2>0, <4>2, <5>1 DEF Quorum
      <4>4. /\ pc[r] = "pushing" /\ acks' = {a \in acks : a[1] # r}
            /\ UNCHANGED <<log, target, pushes, invals>>
        BY <3>4 DEF CollectAcks
      <4>5. /\ \A q \in Request \ {r} : pc'[q] = pc[q]
            /\ pc'[r] = "committing" \/ pc'[r] = "failed"
            /\ pc'[r] = "committing" => \A f \in Member : HasAt(f, target[r], r)
        BY <2>0, <4>2, <4>3
      <4>6. \A q \in Request, f \in Follower :
               <<q, f>> \in acks' => <<q, f>> \in acks /\ pc'[q] = "pushing"
        BY <2>0, <4>4, <4>5
      <4> QED BY <1>1, <2>0, <4>4, <4>5, <4>6, FixedFrame
    <3>5. CASE Commit(r)
      BY <1>1, <2>0, <3>5, FixedCommit
    <3>6. CASE CommitOverTaken(r)
      <4>1. target[r] = NextOffset(Leader) /\ target[r] < NextOffset(Leader)
        BY <3>6, CommitAtEnd DEF CommitOverTaken
      <4> QED BY <4>1, Lengths DEF NextOffset
    <3>7. CASE CommitFails(r)
      <4>1. /\ pc[r] = "committing" /\ target[r] = NextOffset(Leader)
            /\ pc' = [pc EXCEPT ![r] = "invalidating"]
            /\ invals' = invals \cup ({r} \X (snapshot[r].replicas \ {Leader}))
            /\ UNCHANGED <<log, target, pushes, acks>>
        BY <3>7 DEF CommitFails, RollBack
      <4>2. snapshot[r].replicas \ {Leader} = Member
        BY <4>1 DEF FixedIsrInv, NothingChanges, Active, FixedMeta, Member
      <4>3. \A f \in Member : HasAt(f, target[r], r)
        BY <4>1 DEF FixedIsrInv, CommittingIsOnAllReplicas
      <4>4. /\ pc'[r] = "invalidating"
            /\ \A q \in Request \ {r} : pc'[q] = pc[q]
        BY <2>0, <4>1
      <4>5. \A q \in Request, f \in Follower : <<q, f>> \in invals' =>
               \/ <<q, f>> \in invals
               \/ /\ pc'[q] = "invalidating" /\ f \in Member
                  /\ HasAt(f, target[q], q) /\ target[q] = NextOffset(Leader)
        BY <4>1, <4>2, <4>3, <4>4
      <4> QED BY <1>1, <2>0, <4>1, <4>4, <4>5, FixedFrame
    <3>8. CASE InvalidateDone(r)
      BY <1>1, <2>0, <3>8, FixedFrame DEF InvalidateDone, Answer, Phase
    <3>9. ~CommitRefused(r)
      BY DEF CommitRefused, FixedIsrInv, NothingChanges
    <3> QED BY <2>1, <3>1, <3>2, <3>3, <3>4, <3>5, <3>6, <3>7, <3>8, <3>9
            DEF ProduceStep
  <2>2. ASSUME NEW r \in Request, NEW f \in Follower, ReplicaStep(r, f)
        PROVE  FixedIsrInv'
    <3>1. CASE PushApplied(r, f)
      BY <1>1, <2>0, <3>1, FixedPush
    <3>2. CASE InvalidateApplied(r, f)
      BY <1>1, <2>0, <3>2, FixedInvalidate
    <3>3. CASE ~PushApplied(r, f) /\ ~InvalidateApplied(r, f)
      <4>1. /\ UNCHANGED <<log, target, pc, acks>>
            /\ pushes' \subseteq pushes /\ invals' \subseteq invals
        BY <2>2, <3>3 DEF ReplicaStep, PushRejected, PushWriteFails,
              InvalidateIgnored, InvalidateWriteFails
      <4> QED BY <1>1, <2>0, <4>1, FixedFrame
    <3> QED BY <3>1, <3>2, <3>3
  <2>3. ASSUME NEW f \in Follower, CatchUpStep(f) PROVE FixedIsrInv'
    BY <2>3 DEF FixedIsrInv, NothingChanges, CatchUpStep, CatchUpBegins,
       CatchUpFindsNoClient, FetchLog, FetchFails, CatchUpAppend, CatchUpStopped, CatchUpWriteFails,
       TryFinalizeInSync, MarkNodeInSync, MarkFails
  <2>4. ASSUME \/ LeaderWatchStep
               \/ \E f \in Follower : WatchStep(f) \/ RestartFollower(f)
               \/ \E n \in Node : AddReplica(n) \/ RemoveReplica(n)
        PROVE  FixedIsrInv'
    <3>0. ~LeaderTakenAway
      <4>1. versions = <<FixedMeta>> /\ seen[Leader] \in Nat
        BY DEF FixedIsrInv, NothingChanges, PositionInv, TypeOK, Node
      <4> QED BY <4>1, InitMetaAssumption
              DEF LeaderTakenAway, Deliver, NextVersion, FixedMeta
    <3>1. UNCHANGED <<log, target, pc, pushes, acks, invals>>
      BY <2>4, <3>0 DEF LeaderWatchStep, ApplyAsLeader, WatchStep,
         ApplyAsOutsider, ApplyAsInSync, ApplyAsReplica, AddReplica,
         RemoveReplica, RestartFollower
    <3> QED BY <1>1, <2>0, <3>1, FixedFrame
  <2>5. CASE RestartLeader
    <3>1. /\ UNCHANGED <<log, target, pushes, invals>> /\ acks' = {}
          /\ \A r \in Request : pc'[r] = IF pc[r] \in Active THEN "failed"
                                                            ELSE pc[r]
      BY <2>5 DEF RestartLeader
    <3>2. \A r \in Request :
             /\ pc'[r] # "committing"
             /\ pc'[r] = "accepted" <=> pc[r] = "accepted"
             /\ pc[r] \in {"invalidating", "failed"} =>
                   pc'[r] \in {"invalidating", "failed"}
      BY <3>1 DEF Active
    <3> QED BY <1>1, <2>0, <3>1, <3>2, FixedFrame
  <2> QED BY <1>3, <2>1, <2>2, <2>3, <2>4, <2>5 DEF Next, RestartStep
<1> QED BY <1>2, <1>3

\* As long as the ISR does not change, an accepted record is in the leader's
\* log and in the log of every in-sync replica, at the same offset.
THEOREM AcceptedStays ==
    ASSUME FixedIsr
    PROVE  Spec => []AcceptedIsDurable
<1>1. Init => FixedIsrInv
  BY InitFixedIsr
<1>2. FixedIsrInv /\ [Next]_vars => FixedIsrInv'
  BY NextFixedIsr
<1>3. FixedIsrInv => AcceptedIsDurable
  <2> SUFFICES ASSUME FixedIsrInv, NEW r \in Request, pc[r] = "accepted",
                      NEW n \in InitIsr
               PROVE  HasAt(n, target[r], r)
    BY DEF AcceptedIsDurable
  <2>1. HasAt(Leader, target[r], r)
    BY DEF FixedIsrInv, LeaderHoldsAccepted
  <2>2. /\ Len(log[Leader]) <= Len(log[n]) /\ n \in Node
        /\ \A i \in 1..Len(log[Leader]) : log[n][i] = log[Leader][i]
    BY InitMetaAssumption DEF FixedIsrInv, IsrHoldsLeaderLog, NextOffset
  <2>3. /\ target[r] \in Nat /\ Len(log[Leader]) \in Nat /\ Len(log[n]) \in Nat
    BY <2>2, Lengths
  <2>4. target[r] + 1 \in 1..Len(log[Leader])
    BY <2>1, <2>3 DEF HasAt
  <2> QED BY <2>1, <2>2, <2>3, <2>4 DEF HasAt
<1> QED BY <1>1, <1>2, <1>3, PTL DEF Spec

\* As long as the ISR does not change, every in-sync replica holds the whole
\* log of the leader.
THEOREM IsrIsComplete ==
    ASSUME FixedIsr
    PROVE  Spec => []IsrHoldsLeaderLog
<1>1. Init => FixedIsrInv
  BY InitFixedIsr
<1>2. FixedIsrInv /\ [Next]_vars => FixedIsrInv'
  BY NextFixedIsr
<1>3. FixedIsrInv => IsrHoldsLeaderLog
  BY DEF FixedIsrInv
<1> QED BY <1>1, <1>2, <1>3, PTL DEF Spec

=============================================================================
