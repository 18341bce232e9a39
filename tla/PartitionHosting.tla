-------------------------- MODULE PartitionHosting --------------------------
(***************************************************************************)
(* What one broker keeps of a topic: the pool of processors, which the     *)
(* topic watch fills and empties (applyTopicParams, applyTopicDelete),     *)
(* while pushes of the leader and catch-ups hold on to processors they     *)
(* have looked up.                                                         *)
(*                                                                         *)
(* The node is a follower of every partition; the leaders are elsewhere,   *)
(* and have their records already.  A record is its offset.  A processor   *)
(* is an instance: a partition that is taken away and given back gets a    *)
(* new one, on the same files.                                             *)
(***************************************************************************)
EXTENDS Naturals, Sequences, FiniteSets

CONSTANTS
    Partitions,      \* the topic has the partitions 0 .. Partitions - 1
    Push,            \* handlers of a push at work at one time
    SegmentRecords,  \* records that fill a segment
    LeaderRecords,   \* records each leader has; pushes bring one more
    MaxChanges,      \* bound: assignments, removals, deletions of the topic
    MaxFaults        \* bound: catch-ups begun by RestoreData, and failed calls
                     \* of the leader or of etcd

ASSUME HostingAssumption == /\ Partitions \in Nat \ {0}
                            /\ SegmentRecords \in Nat \ {0}
                            /\ LeaderRecords \in Nat /\ MaxChanges \in Nat
                            /\ MaxFaults \in Nat

Partition == 0..Partitions - 1

\* "watch": started by the topic watch, once for a partition; "restore": by
\* RestoreData.
Starter == {"watch", "restore"}

VARIABLES
    versions,  \* values of the topic key: what the node is to each partition
    seen,      \* how many of them the watch has applied
    next,      \* the partition of the next value the watch is at
    closing,   \* processors the watch is about to close
    procs,     \* all processors there have been
    hosts,     \* the pool: the processor of each partition; 0 = none
    disk,      \* the records in the files of each partition
    push,      \* the handlers of pushes
    catchUp,   \* CatchUpPartition, by starter and partition
    syncing,   \* partitions whose catch-up the watch has started
    adrift,    \* history: partitions with an open processor nobody can reach or close
    early,     \* history: partitions given a new processor during a catch-up
    failed,    \* history: a call has failed
    budget     \* changes and faults that may still happen

watchVars == <<seen, next, closing, hosts, adrift, early>>
vars == <<versions, watchVars, procs, disk, push, catchUp, syncing, failed, budget>>

Proc == [part : Partition, state : {"Active", "Stopping", "Deleted"},
         open : BOOLEAN, inSync : BOOLEAN, end : Nat]

\* "gone": there is no such topic.
Standing == {"away", "replica", "isr", "gone"}
Last == versions[Len(versions)]
IsReplica(standing) == standing \in {"replica", "isr"}

Assigned(replica) == [p \in Partition |-> IF p \in replica THEN "replica" ELSE "away"]

NoCatchUp == [pc |-> "off", proc |-> 0, from |-> 0]
NoPush    == [proc |-> 0, offset |-> 0]

Spend(kind) == /\ budget[kind] > 0
               /\ budget' = [budget EXCEPT ![kind] = @ - 1]

Init ==
    /\ \E replica \in SUBSET Partition : versions = <<Assigned(replica)>>
    /\ seen = 0
    /\ next = 0
    /\ closing = {}
    /\ procs = <<>>
    /\ hosts = [p \in Partition |-> 0]
    /\ disk = [p \in Partition |-> <<>>]
    /\ push = [h \in Push |-> NoPush]
    /\ catchUp = [z \in Starter \X Partition |-> NoCatchUp]
    /\ syncing = {}
    /\ adrift = {}
    /\ early = {}
    /\ failed = FALSE
    /\ budget \in [change : 0..MaxChanges, fault : 0..MaxFaults]

-----------------------------------------------------------------------------
(* The cluster around: the controller and the leaders.                     *)

Changes(value) ==
    /\ Spend("change")
    /\ versions' = Append(versions, value)
    /\ UNCHANGED <<watchVars, procs, disk, push, catchUp, syncing, failed>>

CreateTopic ==
    /\ Last[0] = "gone"
    /\ \E replica \in SUBSET Partition : Changes(Assigned(replica))

DeleteTopic == Last[0] # "gone" /\ Changes([p \in Partition |-> "gone"])

AddReplica(p) == Last[p] = "away" /\ Changes([Last EXCEPT ![p] = "replica"])

RemoveReplica(p) == IsReplica(Last[p]) /\ Changes([Last EXCEPT ![p] = "away"])

-----------------------------------------------------------------------------
(* PartitionProcessor.                                                     *)

\* appendLocked writes to the active segment, which fails if it is closed; but
\* a full one is replaced first, by a file opened anew.
Writable(i) == procs[i].open \/ (procs[i].end > 0 /\ procs[i].end % SegmentRecords = 0)

WriteTo(i) ==
    /\ procs' = [procs EXCEPT ![i] = [procs[i] EXCEPT !.end = @ + 1, !.open = TRUE]]
    /\ disk' = [disk EXCEPT ![procs[i].part] = Append(@, procs[i].end)]

\* NewPartitionProcessor recovers the files.
NewProc(p, inSync) == [part |-> p, state |-> "Active", open |-> TRUE,
                       inSync |-> inSync, end |-> Len(disk[p])]

\* Slip: the files stay open.
Removed(i) == [procs EXCEPT ![i] = [procs[i] EXCEPT !.state = "Deleted"]]

\* StopAndRemove(false) closes the files and leaves them.
StopAndRemove(i) ==
    [procs EXCEPT ![i] = [procs[i] EXCEPT !.state = "Deleted", !.open = FALSE]]

-----------------------------------------------------------------------------
(* The topic watch, one goroutine.                                         *)

Value == versions[seen + 1]
Applies == seen < Len(versions) /\ closing = {}

\* Slip: the loop over the partitions ends with the deletion of one.
Finish == next' = 0 /\ seen' = seen + 1

\* On to the next partition, and after the last one to the next value.
Advance == IF next + 1 < Partitions
           THEN next' = next + 1 /\ UNCHANGED seen
           ELSE next' = 0 /\ seen' = seen + 1

\* A partition that was not the node's and is not.
Skip ==
    /\ Applies
    /\ Value[next] = "away" /\ hosts[next] = 0
    /\ Advance
    /\ UNCHANGED <<versions, closing, hosts, adrift, early, procs, disk,
                   push, catchUp, syncing, failed, budget>>

\* DeletePartition takes the processor out of the pool ...
GiveUp ==
    /\ Applies
    /\ Value[next] = "away" /\ hosts[next] # 0
    /\ procs' = [procs EXCEPT ![hosts[next]] = [@ EXCEPT !.state = "Stopping"]]
    /\ closing' = {hosts[next]}
    /\ hosts' = [hosts EXCEPT ![next] = 0]
    /\ Advance
    /\ UNCHANGED <<versions, adrift, early, disk, push, catchUp, syncing, failed, budget>>

\* ... and StopAndRemove closes it.
Close ==
    \E i \in closing :
        /\ closing' = closing \ {i}
        /\ procs' = StopAndRemove(i)
        /\ UNCHANGED <<versions, seen, next, hosts, adrift, early, disk,
                       push, catchUp, syncing, failed, budget>>

\* startCatchUp does nothing while an earlier catch-up of the partition runs.
Start(p) ==
    IF p \in syncing THEN UNCHANGED <<catchUp, syncing>>
    ELSE /\ syncing' = syncing \cup {p}
         /\ catchUp' = [catchUp EXCEPT ![<<"watch", p>>] = [NoCatchUp EXCEPT !.pc = "lookup"]]

\* EnsureLocalPartition; then a member of the ISR is in sync, and another
\* replica catches up.
Host ==
    /\ Applies
    /\ IsReplica(Value[next])
    /\ LET isr == Value[next] = "isr"
           i == IF hosts[next] = 0 THEN Len(procs) + 1 ELSE hosts[next]
       IN /\ hosts' = [hosts EXCEPT ![next] = i]
          /\ procs' = IF hosts[next] = 0
                      THEN Append(procs, NewProc(next, isr))
                      ELSE [procs EXCEPT ![i] = [procs[i] EXCEPT !.inSync = @ \/ isr]]
          /\ IF procs'[i].inSync THEN UNCHANGED <<catchUp, syncing>> ELSE Start(next)
    /\ early' = IF hosts[next] = 0 /\ catchUp[<<"watch", next>>] # NoCatchUp
                THEN early \cup {next} ELSE early
    /\ Advance
    /\ UNCHANGED <<versions, closing, adrift, disk, push, failed, budget>>

\* RemoveTopic ranges over the indexes of the list of partitions, not over the
\* ids in it.
Reached(hosted) == {p \in hosted : p < Cardinality(hosted)}

\* The deletion of the topic, in one step but for the closing of files.
RemoveTopic ==
    /\ Applies
    /\ Value[0] = "gone"
    /\ LET hosted  == {p \in Partition : hosts[p] # 0}
           reached == Reached(hosted)
       IN /\ closing' = {hosts[p] : p \in reached}
          /\ procs' = [i \in DOMAIN procs |->
                         IF i \in closing'
                         THEN [procs[i] EXCEPT !.state = "Stopping"] ELSE procs[i]]
          /\ adrift' = adrift \cup (hosted \ reached)
    /\ hosts' = [p \in Partition |-> 0]
    /\ next' = 0 /\ seen' = seen + 1
    /\ UNCHANGED <<versions, early, disk, push, catchUp, syncing, failed, budget>>

-----------------------------------------------------------------------------
(* ReplicationLogHandler: look the processor up.  Left out are the pushes   *)
(* that change nothing: those of a record the processor has already, and   *)
(* those to one that is not in sync.                                       *)

PushArrives(h) ==
    /\ push[h] = NoPush
    /\ \E p \in Partition, o \in 0..LeaderRecords :
         /\ hosts[p] # 0 /\ procs[hosts[p]].inSync
         /\ o >= procs[hosts[p]].end
         /\ push' = [push EXCEPT ![h] = [proc |-> hosts[p], offset |-> o]]
    /\ UNCHANGED <<versions, watchVars, procs, disk, catchUp, syncing, failed, budget>>

\* Later TryApplyPush, which does not look at its state.
TryApplyPush(h) ==
    LET i == push[h].proc IN
      /\ push[h] # NoPush
      /\ IF procs[i].inSync /\ push[h].offset = procs[i].end /\ Writable(i)
         THEN /\ WriteTo(i)
              /\ adrift' = IF procs[i].open THEN adrift ELSE adrift \cup {procs[i].part}
         ELSE UNCHANGED <<procs, disk, adrift>>
      /\ push' = [push EXCEPT ![h] = NoPush]
      /\ UNCHANGED <<versions, seen, next, closing, hosts, early, catchUp, syncing,
                     failed, budget>>

-----------------------------------------------------------------------------
(* CatchUpPartition.                                                       *)

At(s, p, label) == catchUp[<<s, p>>].pc = label

\* Slip: the partition stays in the map.
StaysSyncing(p) == syncing

\* The deferred function of the goroutine.
NoLongerSyncing(p) == syncing \ {p}

CatchUpGoes(s, p, c) ==
    /\ catchUp' = [catchUp EXCEPT ![<<s, p>>] = c]
    /\ syncing' = IF s = "watch" /\ c = NoCatchUp THEN NoLongerSyncing(p) ELSE syncing
    /\ UNCHANGED <<versions, watchVars, push>>

\* RestoreData goes through the partitions one at a time, in any order; the
\* model lets it begin and end with any of them.
RestoreData(p) ==
    /\ \A q \in Partition : At("restore", q, "off")
    /\ hosts[p] # 0
    /\ Spend("fault")
    /\ CatchUpGoes("restore", p, [NoCatchUp EXCEPT !.pc = "lookup"])
    /\ UNCHANGED <<procs, disk, failed>>

\* Done: a catch-up of the watch goes on to announce it.
Caught(s, p) == IF s = "watch" THEN [NoCatchUp EXCEPT !.pc = "mark"] ELSE NoCatchUp

Lookup(s, p) ==
    /\ At(s, p, "lookup")
    /\ CatchUpGoes(s, p,
         IF hosts[p] = 0 THEN NoCatchUp
         ELSE IF procs[hosts[p]].inSync THEN Caught(s, p)
         ELSE [pc |-> "fetch", proc |-> hosts[p], from |-> 0])
    /\ UNCHANGED <<procs, disk, failed, budget>>

\* FetchLog from the end of the log; batches of one record.
FetchLog(s, p) ==
    /\ At(s, p, "fetch")
    /\ LET c == catchUp[<<s, p>>]
           end == procs[c.proc].end
       IN CatchUpGoes(s, p, [c EXCEPT !.from = end,
                                      !.pc = IF end < LeaderRecords THEN "append"
                                                                    ELSE "finalize"])
    /\ UNCHANGED <<procs, disk, failed, budget>>

\* AppendEntry: a stopped processor refuses, a record it has is ignored.
AppendEntry(s, p) ==
    LET c == catchUp[<<s, p>>]
        i == c.proc
        active == procs[i].state = "Active"
    IN /\ At(s, p, "append")
       /\ IF active /\ c.from = procs[i].end /\ Writable(i)
          THEN WriteTo(i) ELSE UNCHANGED <<procs, disk>>
       /\ CatchUpGoes(s, p, IF active /\ c.from <= procs[i].end
                            THEN [c EXCEPT !.pc = "finalize", !.from = 0] ELSE NoCatchUp)
       /\ UNCHANGED <<failed, budget>>

\* TryFinalizeInSync does not look at the state either.
TryFinalizeInSync(s, p) ==
    LET c == catchUp[<<s, p>>] IN
      /\ At(s, p, "finalize")
      /\ IF procs[c.proc].end >= LeaderRecords
         THEN /\ procs' = [procs EXCEPT ![c.proc] = [procs[c.proc] EXCEPT !.inSync = TRUE]]
              /\ CatchUpGoes(s, p, Caught(s, p))
         ELSE /\ UNCHANGED procs
              /\ CatchUpGoes(s, p, [c EXCEPT !.pc = "fetch"])
      /\ UNCHANGED <<disk, failed, budget>>

\* MarkNodeInSync changes the topic only if the node is a replica.
MarkNodeInSync(p) ==
    /\ At("watch", p, "mark")
    /\ versions' = IF Last[p] = "replica"
                   THEN Append(versions, [Last EXCEPT ![p] = "isr"]) ELSE versions
    /\ catchUp' = [catchUp EXCEPT ![<<"watch", p>>] = NoCatchUp]
    /\ syncing' = NoLongerSyncing(p)
    /\ UNCHANGED <<watchVars, procs, disk, push, failed, budget>>

CatchUpFails(s, p) ==
    /\ catchUp[<<s, p>>].pc \in {"fetch", "mark"}
    /\ Spend("fault")
    /\ failed' = TRUE
    /\ CatchUpGoes(s, p, NoCatchUp)
    /\ UNCHANGED <<procs, disk>>

-----------------------------------------------------------------------------
Watch == Skip \/ GiveUp \/ Close \/ Host \/ RemoveTopic

CatchUp(s, p) ==
    \/ Lookup(s, p) \/ FetchLog(s, p) \/ AppendEntry(s, p)
    \/ TryFinalizeInSync(s, p)
    \/ s = "watch" /\ MarkNodeInSync(p)

Next ==
    \/ CreateTopic \/ DeleteTopic
    \/ \E p \in Partition : AddReplica(p) \/ RemoveReplica(p)
    \/ Watch
    \/ \E h \in Push : PushArrives(h) \/ TryApplyPush(h)
    \/ \E p \in Partition : RestoreData(p)
    \/ \E s \in Starter, p \in Partition : CatchUp(s, p) \/ CatchUpFails(s, p)

Spec == Init /\ [][Next]_vars

\* The watch delivers, and a catch-up that can go on does.
Fairness ==
    /\ WF_vars(Watch)
    /\ \A p \in Partition : WF_vars(CatchUp("watch", p))

FairSpec == Spec /\ Fairness

-----------------------------------------------------------------------------
(* Properties.                                                             *)

TypeOK ==
    /\ versions \in Seq([Partition -> Standing])
    /\ seen \in 0..Len(versions)
    /\ next \in Partition
    /\ closing \subseteq DOMAIN procs
    /\ procs \in Seq(Proc)
    /\ hosts \in [Partition -> 0..Len(procs)]
    /\ disk \in [Partition -> Seq(Nat)]
    /\ push \in [Push -> [proc : 0..Len(procs), offset : Nat]]
    /\ catchUp \in [Starter \X Partition ->
                      [pc : {"off", "lookup", "fetch", "append", "finalize", "mark"},
                       proc : 0..Len(procs), from : Nat]]
    /\ syncing \subseteq Partition
    /\ adrift \subseteq Partition
    /\ early \subseteq Partition
    /\ failed \in BOOLEAN
    /\ budget \in [change : 0..MaxChanges, fault : 0..MaxFaults]

\* The files of a partition hold every offset once, in order, and the processor
\* in the pool knows where they end, however often the partition was taken away
\* and given back, and whoever still holds an old processor; unless a deletion of
\* the topic has left a processor open, or a late push has opened one again.
FilesInOrder ==
    \A p \in Partition \ adrift :
        /\ \A k \in 1..Len(disk[p]) : disk[p][k] = k - 1
        /\ hosts[p] # 0 => procs[hosts[p]].end = Len(disk[p])

\* With every value of the topic applied, the node hosts the partitions it is a
\* replica of and no others, believes itself in sync where the ISR lists it, and
\* has a catch-up at work where it does not list it yet; unless a call has failed
\* or the processor was replaced during a catch-up, after which the code starts
\* none.
HostsWhatItShould ==
    seen = Len(versions) => \A p \in Partition :
        /\ (hosts[p] # 0) = IsReplica(Last[p])
        /\ Last[p] = "isr" => procs[hosts[p]].inSync
        /\ Last[p] = "replica" /\ ~failed /\ p \notin early => ~At("watch", p, "off")

\* A replica gets into the ISR, or is taken away again, if no call failed and
\* no processor of its partition was replaced during a catch-up.
ReplicaJoins ==
    \A p \in Partition :
        []<>(Last[p] # "replica" \/ failed \/ p \in early)

-----------------------------------------------------------------------------
(* What the code's comments say of it, and the code does not do.           *)

\* applyTopicParams starts the catch-up of a replica that is not in sync yet;
\* so each of them joins when no call fails.
EveryReplicaJoins ==
    \A p \in Partition : []<>(Last[p] # "replica" \/ failed)

\* startCatchUp: when CatchUpPartition has returned, the partition already
\* takes pushes, and what follows only announces it; so nobody is put into the
\* ISR whose processor is not in sync.
AnnouncedIsInSync ==
    [][\A p \in Partition :
         Last[p] = "replica" /\ Last'[p] = "isr" /\ hosts[p] # 0
             => procs[hosts[p]].inSync]_vars

\* ListPartitions gives the ids of all partitions of the topic, and RemoveTopic
\* deletes what it gives.
RemovesAll == adrift = {}

\* ErrPartitionStopped: nothing is written through a deleted processor.
DeletedDoesNotWrite ==
    [][\A i \in DOMAIN procs : procs[i].state = "Deleted"
                                   => procs'[i].end = procs[i].end]_vars
=============================================================================
