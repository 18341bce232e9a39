------------------------- MODULE ControllerElection -------------------------
(***************************************************************************)
(* Who is the controller: the registration of every node under a lease     *)
(* (PutNodeState), the election by compare-and-swap on the state key       *)
(* (electionLoop), the watch on that key (watchMetadataLoop), and what a   *)
(* node does when it loses its etcd session (handleSessionLoss,            *)
(* recoveryLoop).                                                          *)
(*                                                                         *)
(* The state key holds [leader, epoch]; every write of it adds one to the  *)
(* epoch it read under a comparison of revisions, so the k-th value has    *)
(* epoch k: the key is the sequence of its leaders.  The role a node       *)
(* writes into its own key (publishOwnRole) is shown to users only and is  *)
(* left out.                                                               *)
(***************************************************************************)
EXTENDS Naturals, Sequences

CONSTANTS
    Node,              \* brokers; a NodeId is a positive integer
    MaxCrashes,        \* bound: process crashes
    MaxSessionLosses,  \* bound: sessions lost by a process that runs
    MaxCallErrors      \* bound: failed etcd calls and failed RestoreData

ASSUME BoundsAssumption == /\ MaxCrashes \in Nat
                           /\ MaxSessionLosses \in Nat
                           /\ MaxCallErrors \in Nat

VARIABLES
    elected,  \* /kafka/controller/state: elected[e] is the leader of epoch e
    key,      \* /kafka/nodes/<id> of each node
    live,     \* leases of each node etcd has not let expire
    granted,  \* number of leases granted to each node
    leaseId,  \* NodeDiscovery.leaseId; 0 = none
    keepers,  \* leases a keepalive goroutine of the node looks after
    losing,   \* a keepalive goroutine is about to call handleSessionLoss
    running,  \* the process is up
    role,     \* Broker.role
    epoch,    \* Broker.epoch
    recovery, \* recoveryLoop; it runs exactly while the node is paused
    loop,     \* electionLoop
    watched,  \* last epoch watchMetadataLoop delivered
    gap,      \* history: the leader's key was gone at some time since its election
    budget    \* faults that may still happen

etcdVars    == <<elected, key, live, granted>>
sessionVars == <<leaseId, keepers, losing, recovery>>
roleVars    == <<role, epoch>>
vars == <<etcdVars, sessionVars, running, roleVars, loop, watched, gap, budget>>

Paused(n) == recovery[n] # "off"

\* lease 0: a key without a lease, which never expires.
Key == [on : BOOLEAN, rev : Nat, lease : Nat]

\* on: the context of the loop is not cancelled.  at: epoch the loop has read;
\* self: revision of the own key it has read, 0 if there was none.
Loop == [pc : {"off", "state", "leader", "self", "txn", "lead", "follow", "hold"},
         on : BOOLEAN, at : Nat, self : Nat]
NewLoop == [pc |-> "state", on |-> TRUE, at |-> 0, self |-> 0]
NoLoop  == [pc |-> "off", on |-> FALSE, at |-> 0, self |-> 0]

Epoch == Len(elected)

Spend(kind) == /\ budget[kind] > 0
               /\ budget' = [budget EXCEPT ![kind] = @ - 1]

Init ==
    /\ elected = <<>>
    /\ key = [n \in Node |-> [on |-> FALSE, rev |-> 0, lease |-> 0]]
    /\ live = [n \in Node |-> {}]
    /\ granted = [n \in Node |-> 0]
    /\ leaseId = [n \in Node |-> 0]
    /\ keepers = [n \in Node |-> {}]
    /\ losing = [n \in Node |-> FALSE]
    /\ running = [n \in Node |-> FALSE]
    /\ role = [n \in Node |-> "Unroled"]
    /\ epoch = [n \in Node |-> 0]
    /\ recovery = [n \in Node |-> "off"]
    /\ loop = [n \in Node |-> NoLoop]
    /\ watched = [n \in Node |-> 0]
    /\ gap = TRUE
    /\ budget = [crash |-> MaxCrashes, session |-> MaxSessionLosses,
                 call |-> MaxCallErrors]

-----------------------------------------------------------------------------
(* Registration.                                                           *)

\* PutNodeState: a new lease, the key under it, a keepalive goroutine.
PutNodeState(n) ==
    LET l == granted[n] + 1 IN
      /\ granted' = [granted EXCEPT ![n] = l]
      /\ live' = [live EXCEPT ![n] = @ \cup {l}]
      /\ leaseId' = [leaseId EXCEPT ![n] = l]
      /\ keepers' = [keepers EXCEPT ![n] = @ \cup {l}]
      /\ key' = [key EXCEPT ![n] = [on |-> TRUE, rev |-> @.rev + 1, lease |-> l]]

\* Start: register, then run the loops.  The watch begins at the revision etcd
\* has when it is opened.
Start(n) ==
    /\ ~running[n]
    /\ running' = [running EXCEPT ![n] = TRUE]
    /\ PutNodeState(n)
    /\ loop' = [loop EXCEPT ![n] = NewLoop]
    /\ watched' = [watched EXCEPT ![n] = Epoch]
    /\ UNCHANGED <<elected, losing, recovery, roleVars, gap, budget>>

\* The process dies; its leases live on until they expire.
Crash(n) ==
    /\ running[n]
    /\ Spend("crash")
    /\ running' = [running EXCEPT ![n] = FALSE]
    /\ leaseId' = [leaseId EXCEPT ![n] = 0]
    /\ keepers' = [keepers EXCEPT ![n] = {}]
    /\ losing' = [losing EXCEPT ![n] = FALSE]
    /\ recovery' = [recovery EXCEPT ![n] = "off"]
    /\ role' = [role EXCEPT ![n] = "Unroled"]
    /\ epoch' = [epoch EXCEPT ![n] = 0]
    /\ loop' = [loop EXCEPT ![n] = NoLoop]
    /\ UNCHANGED <<etcdVars, watched, gap>>

\* etcd drops the lease and the key attached to it.
Drop(n, l) ==
    /\ live' = [live EXCEPT ![n] = @ \ {l}]
    /\ IF key[n].on /\ key[n].lease = l
       THEN /\ key' = [key EXCEPT ![n] = [@ EXCEPT !.on = FALSE]]
            /\ gap' = (gap \/ elected[Epoch] = n)
       ELSE UNCHANGED <<key, gap>>

\* Nobody looks after the lease.
Expire(n) ==
    /\ \E l \in live[n] \ keepers[n] : Drop(n, l)
    /\ UNCHANGED <<elected, granted, sessionVars, running, roleVars, loop,
                   watched, budget>>

\* The keepalives of a running process do not get through.
ExpireKept(n) ==
    /\ Spend("session")
    /\ \E l \in live[n] \cap keepers[n] : Drop(n, l)
    /\ UNCHANGED <<elected, granted, sessionVars, running, roleVars, loop,
                   watched>>

-----------------------------------------------------------------------------
(* Loss of the session.                                                    *)

\* The keepalive channel closes, after the lease is gone or (the client counts
\* from its last answer) before: leaseId is reset first ...
KeepAliveEnds(n) ==
    \E l \in keepers[n] :
        /\ IF l \in live[n] THEN Spend("session") ELSE UNCHANGED budget
        /\ keepers' = [keepers EXCEPT ![n] = @ \ {l}]
        /\ leaseId' = [leaseId EXCEPT ![n] = 0]
        /\ losing' = [losing EXCEPT ![n] = TRUE]
        /\ UNCHANGED <<etcdVars, recovery, running, roleVars, loop, watched, gap>>

\* ... and then handleSessionLoss is called, which does nothing in a paused
\* node, and otherwise cancels the election, gives up the role and starts the
\* recovery.
HandleSessionLoss(n) ==
    IF Paused(n)
    THEN UNCHANGED <<recovery, loop, role>>
    ELSE /\ recovery' = [recovery EXCEPT ![n] = "register"]
         /\ loop' = [loop EXCEPT ![n] = [@ EXCEPT !.on = FALSE]]
         /\ role' = [role EXCEPT ![n] = "Follower"]

SessionLost(n) ==
    /\ losing[n]
    /\ losing' = [losing EXCEPT ![n] = FALSE]
    /\ HandleSessionLoss(n)
    /\ UNCHANGED <<etcdVars, leaseId, keepers, running, epoch, watched, gap,
                   budget>>

\* A snapshot of WatchNodes does not contain the node itself.
SnapshotMissesSelf(n) ==
    /\ running[n]
    /\ ~key[n].on
    /\ ~Paused(n)
    /\ HandleSessionLoss(n)
    /\ UNCHANGED <<etcdVars, leaseId, keepers, losing, running, epoch, watched,
                   gap, budget>>

\* recoveryLoop: register again ...
Reregister(n) ==
    /\ recovery[n] = "register"
    /\ recovery' = [recovery EXCEPT ![n] = "restore"]
    /\ PutNodeState(n)
    /\ UNCHANGED <<elected, losing, running, roleVars, loop, watched, gap, budget>>

\* ... fetch what was missed (if that fails, the next round registers anew) ...
RestoreFails(n) ==
    /\ recovery[n] = "restore"
    /\ Spend("call")
    /\ recovery' = [recovery EXCEPT ![n] = "register"]
    /\ UNCHANGED <<etcdVars, leaseId, keepers, losing, running, roleVars, loop,
                   watched, gap>>

\* ... and enter the elections again.  The cancelled loop ended long ago: the
\* recovery sleeps two seconds first.
RestoreDone(n) ==
    /\ recovery[n] = "restore"
    /\ loop[n].pc = "off"
    /\ recovery' = [recovery EXCEPT ![n] = "off"]
    /\ loop' = [loop EXCEPT ![n] = NewLoop]
    /\ UNCHANGED <<etcdVars, leaseId, keepers, losing, running, roleVars,
                   watched, gap, budget>>

-----------------------------------------------------------------------------
(* The election loop.  Its etcd calls fail once its context is cancelled.  *)

Loops(n, label) == loop[n].pc = label /\ loop[n].on

Goto(n, label) == loop' = [loop EXCEPT ![n] = [@ EXCEPT !.pc = label]]

NoLoopEffect == UNCHANGED <<etcdVars, sessionVars, running, roleVars, watched, gap>>

ReadState(n) ==
    /\ Loops(n, "state")
    /\ loop' = [loop EXCEPT ![n] =
                  [@ EXCEPT !.at = Epoch,
                            !.pc = IF Epoch = 0 THEN "self"
                                   ELSE IF elected[Epoch] = n THEN "lead"
                                   ELSE "leader"]]
    /\ NoLoopEffect
    /\ UNCHANGED budget

\* Slip: a recorded leader is taken to be alive.
FollowRecorded(n) ==
    /\ Loops(n, "leader")
    /\ Goto(n, "follow")
    /\ NoLoopEffect
    /\ UNCHANGED budget

\* Is the recorded leader registered?
CheckLeader(n) ==
    /\ Loops(n, "leader")
    /\ Goto(n, IF key[elected[loop[n].at]].on THEN "follow" ELSE "self")
    /\ NoLoopEffect
    /\ UNCHANGED budget

\* A failed Get is taken for a dead leader.
CheckLeaderFails(n) ==
    /\ Loops(n, "leader")
    /\ Spend("call")
    /\ Goto(n, "self")
    /\ NoLoopEffect

ReadSelf(n) ==
    /\ Loops(n, "self")
    /\ loop' = [loop EXCEPT ![n] =
                  [@ EXCEPT !.pc = "txn",
                            !.self = IF key[n].on THEN key[n].rev ELSE 0]]
    /\ NoLoopEffect
    /\ UNCHANGED budget

\* Slip: only the own key is compared.
AnyState(n) == TRUE

\* Neither the state key nor the own key has changed since they were read.
StateUnchanged(n) == Epoch = loop[n].at
SelfUnchanged(n) == loop[n].self = IF key[n].on THEN key[n].rev ELSE 0

\* etcd refuses a write under a lease that is gone.
LeaseUsable(n) == leaseId[n] = 0 \/ leaseId[n] \in live[n]

\* The transaction writes the state key and the own key, under the current
\* leaseId, which is 0 if the session was just lost.
Claim(n) ==
    /\ StateUnchanged(n) /\ SelfUnchanged(n) /\ LeaseUsable(n)
    /\ elected' = Append(elected, n)
    /\ key' = [key EXCEPT ![n] = [on |-> TRUE, rev |-> @.rev + 1,
                                  lease |-> leaseId[n]]]
    /\ gap' = FALSE
    /\ UNCHANGED <<live, granted, sessionVars, running, roleVars, watched>>

ClaimSucceeds(n) ==
    /\ Loops(n, "txn")
    /\ Claim(n)
    /\ loop' = [loop EXCEPT ![n] = [@ EXCEPT !.pc = "lead", !.at = loop[n].at + 1]]
    /\ UNCHANGED budget

ClaimFails(n) ==
    /\ Loops(n, "txn")
    /\ ~(StateUnchanged(n) /\ SelfUnchanged(n) /\ LeaseUsable(n))
    /\ Goto(n, "state")
    /\ NoLoopEffect
    /\ UNCHANGED budget

\* The transaction commits and the answer is lost: the next round finds out.
ClaimUnanswered(n) ==
    /\ Loops(n, "txn")
    /\ Spend("call")
    /\ Claim(n)
    /\ Goto(n, "state")

\* Any other etcd call of the loop fails, or the transaction is not executed.
CallFails(n) ==
    /\ \E label \in {"state", "self", "txn"} : Loops(n, label)
    /\ Spend("call")
    /\ Goto(n, "state")
    /\ NoLoopEffect

\* SwitchToControllerMode, whatever has happened since the answer; then the
\* loop only waits for its context to end.
SwitchToControllerMode(n) ==
    /\ loop[n].pc = "lead"
    /\ role' = [role EXCEPT ![n] = "Controller"]
    /\ epoch' = [epoch EXCEPT ![n] = loop[n].at]
    /\ Goto(n, "hold")
    /\ UNCHANGED <<etcdVars, sessionVars, running, watched, gap, budget>>

\* SwitchToFollowerMode, then the next round after five seconds.
SwitchToFollowerMode(n) ==
    /\ loop[n].pc = "follow"
    /\ role' = [role EXCEPT ![n] = "Follower"]
    /\ epoch' = [epoch EXCEPT ![n] = loop[n].at]
    /\ Goto(n, "state")
    /\ UNCHANGED <<etcdVars, sessionVars, running, watched, gap, budget>>

LoopEnds(n) ==
    /\ ~loop[n].on
    /\ loop[n].pc \in {"state", "leader", "self", "txn", "hold"}
    /\ loop' = [loop EXCEPT ![n] = NoLoop]
    /\ NoLoopEffect
    /\ UNCHANGED budget

-----------------------------------------------------------------------------
\* watchMetadataLoop: an event that names another node makes this one its
\* follower, however old the event is.
WatchDelivers(n) ==
    /\ running[n]
    /\ watched[n] < Epoch
    /\ watched' = [watched EXCEPT ![n] = @ + 1]
    /\ IF elected[watched[n] + 1] # n
       THEN /\ role' = [role EXCEPT ![n] = "Follower"]
            /\ epoch' = [epoch EXCEPT ![n] = watched[n] + 1]
       ELSE UNCHANGED roleVars
    /\ UNCHANGED <<etcdVars, sessionVars, running, loop, gap, budget>>

-----------------------------------------------------------------------------
LoopStep(n) ==
    \/ ReadState(n) \/ CheckLeader(n) \/ ReadSelf(n)
    \/ ClaimSucceeds(n) \/ ClaimFails(n)
    \/ SwitchToControllerMode(n) \/ SwitchToFollowerMode(n) \/ LoopEnds(n)

RecoveryStep(n) == Reregister(n) \/ RestoreDone(n)

LossStep(n) == SessionLost(n) \/ SnapshotMissesSelf(n)

Fault(n) ==
    \/ Crash(n) \/ ExpireKept(n) \/ RestoreFails(n)
    \/ CheckLeaderFails(n) \/ ClaimUnanswered(n) \/ CallFails(n)

Next ==
    \E n \in Node :
        \/ Start(n) \/ Expire(n) \/ KeepAliveEnds(n) \/ LossStep(n)
        \/ RecoveryStep(n) \/ LoopStep(n) \/ WatchDelivers(n) \/ Fault(n)

Spec == Init /\ [][Next]_vars

\* Goroutines that can go on do, the watch delivers, an unattended lease ends,
\* and a keepalive goroutine notices that its lease is gone.  Nothing makes a
\* process start again, nor WatchNodes take a snapshot.
NoticesExpiry(n) == KeepAliveEnds(n) /\ UNCHANGED budget

Fairness ==
    \A n \in Node : /\ WF_vars(LoopStep(n))
                    /\ WF_vars(RecoveryStep(n))
                    /\ WF_vars(SessionLost(n))
                    /\ WF_vars(NoticesExpiry(n))
                    /\ WF_vars(Expire(n))
                    /\ WF_vars(WatchDelivers(n))

FairSpec == Spec /\ Fairness

-----------------------------------------------------------------------------
(* Properties.                                                             *)

TypeOK ==
    /\ elected \in Seq(Node)
    /\ key \in [Node -> Key]
    /\ live \in [Node -> SUBSET Nat]
    /\ granted \in [Node -> Nat]
    /\ leaseId \in [Node -> Nat]
    /\ keepers \in [Node -> SUBSET Nat]
    /\ losing \in [Node -> BOOLEAN]
    /\ running \in [Node -> BOOLEAN]
    /\ role \in [Node -> {"Unroled", "Controller", "Follower"}]
    /\ epoch \in [Node -> Nat]
    /\ recovery \in [Node -> {"off", "register", "restore"}]
    /\ loop \in [Node -> Loop]
    /\ watched \in [Node -> Nat] /\ \A n \in Node : watched[n] <= Epoch
    /\ gap \in BOOLEAN
    /\ budget \in [crash : 0..MaxCrashes, session : 0..MaxSessionLosses,
                   call : 0..MaxCallErrors]

\* No two brokers act as controller in the same epoch, whatever sessions they
\* lost, however late their answers and events are.
OneControllerPerEpoch ==
    \A m, n \in Node :
        role[m] = "Controller" /\ role[n] = "Controller" /\ epoch[m] = epoch[n]
            => m = n

\* A controller that stays registered is not deposed, unless an etcd call of
\* some candidate failed (which electionLoop takes for a dead controller).
RegisteredIsNotDeposed ==
    [][elected' # elected => gap \/ budget.call < MaxCallErrors]_vars

\* A node that came back as the leader it was while another one's claim was
\* under way holds the office of an epoch that is over, until its session ends.
Outlived(n) == loop[n].pc = "hold" /\ elected[Epoch] # n

\* A controller whose registration is gone is replaced, or registers again, as
\* long as somebody runs who can claim, if nodes only crash and start: not after
\* a session has been lost alive or an etcd call of a candidate has failed, when
\* a follower may be left waiting for a leader that is gone.
DeadControllerReplaced ==
    []<>(\/ \A n \in Node : running[n] => Outlived(n)
         \/ Epoch > 0 /\ key[elected[Epoch]].on
         \/ budget.session < MaxSessionLosses
         \/ budget.call < MaxCallErrors)

-----------------------------------------------------------------------------
(* What the code's comments say of it, and the code does not do.           *)

\* watchMetadataLoop: a leader in etcd that is not this node makes it a
\* follower; so with every event delivered no other node is controller.
DeposedIsFollower ==
    \A n \in Node : /\ running[n]
                    /\ watched[n] = Epoch
                    /\ Epoch > 0 /\ elected[Epoch] # n
                    => role[n] # "Controller"

\* electionLoop: a follower goes calmly on to its next check of the leader; so
\* no follower waits for ever without looking.
FollowerChecksLeader ==
    \A n \in Node : []<>(\/ ~running[n] \/ Paused(n) \/ role[n] # "Follower"
                         \/ loop[n].pc = "state")

\* electionLoop: a leader is active while its session lives, and only a dead one
\* is replaced; so whenever a node runs a dead controller is replaced, and none
\* waits for ever in the office of an epoch that is over.
SomebodyClaims ==
    []<>(\/ \A n \in Node : ~running[n]
         \/ Epoch > 0 /\ key[elected[Epoch]].on
         \/ budget.session < MaxSessionLosses
         \/ budget.call < MaxCallErrors)

\* handleSessionLoss: the broker stops acting as leader at once, not after a
\* successful recovery.
PausedIsNotController ==
    \A n \in Node : Paused(n) => role[n] # "Controller"

\* recoveryLoop: when the pause ends the node is a full member of the cluster
\* again; so its session is looked after, or its loss is being handled.
UnpausedIsKept ==
    \A n \in Node : running[n] /\ ~Paused(n) => losing[n] \/ keepers[n] # {}

\* onNodeLeave: a node leaves in order or by its lease; so its key has one.
KeysAreLeased == \A n \in Node : key[n].on => key[n].lease # 0

=============================================================================
