---------------------- MODULE ControllerElectionProofs ----------------------
(***************************************************************************)
(* What ControllerElection guarantees for any number of nodes and faults:  *)
(* types, at most one controller in an epoch, and no deposition of a       *)
(* registered controller without a failed etcd call.                       *)
(***************************************************************************)
EXTENDS ControllerElection, SequenceTheorems, TLAPS

\* The control points of the election loop and the frame of most of its steps.
LEMMA LoopType ==
    /\ NewLoop \in Loop
    /\ NoLoop \in Loop
BY DEF NewLoop, NoLoop, Loop

\* A spent fault leaves a budget.
LEMMA SpendType ==
    ASSUME TypeOK, NEW kind \in {"crash", "session", "call"}, Spend(kind)
    PROVE  /\ budget' \in [crash : 0..MaxCrashes, session : 0..MaxSessionLosses,
                           call : 0..MaxCallErrors]
           /\ budget'.call <= budget.call
           /\ kind = "call" => budget'.call < budget.call
BY BoundsAssumption DEF TypeOK, Spend

\* PutNodeState leaves leases and key well formed.
LEMMA PutNodeStateType ==
    ASSUME TypeOK, NEW n \in Node, PutNodeState(n)
    PROVE  /\ granted' \in [Node -> Nat]
           /\ live' \in [Node -> SUBSET Nat]
           /\ leaseId' \in [Node -> Nat]
           /\ keepers' \in [Node -> SUBSET Nat]
           /\ key' \in [Node -> Key]
<1> DEFINE l == granted[n] + 1
<1>1. /\ granted' = [granted EXCEPT ![n] = l]
      /\ live' = [live EXCEPT ![n] = live[n] \cup {l}]
      /\ leaseId' = [leaseId EXCEPT ![n] = l]
      /\ keepers' = [keepers EXCEPT ![n] = keepers[n] \cup {l}]
      /\ key' = [key EXCEPT ![n] = [on |-> TRUE, rev |-> key[n].rev + 1,
                                   lease |-> l]]
  BY DEF PutNodeState
<1>2. l \in Nat
  BY DEF TypeOK
<1> HIDE DEF l
<1>3. granted' \in [Node -> Nat] /\ leaseId' \in [Node -> Nat]
  BY <1>1, <1>2 DEF TypeOK
<1>4. live' \in [Node -> SUBSET Nat] /\ keepers' \in [Node -> SUBSET Nat]
  BY <1>1, <1>2 DEF TypeOK
<1>5. key[n].rev + 1 \in Nat
  BY DEF TypeOK, Key
<1>6. key' \in [Node -> Key]
  BY <1>1, <1>2, <1>5 DEF TypeOK, Key
<1> QED
  BY <1>3, <1>4, <1>6

\* So does the loss of a lease.
LEMMA DropType ==
    ASSUME TypeOK, NEW n \in Node, NEW l, Drop(n, l)
    PROVE  /\ live' \in [Node -> SUBSET Nat]
           /\ key' \in [Node -> Key]
           /\ gap' \in BOOLEAN
<1>1. live' \in [Node -> SUBSET Nat]
  BY DEF TypeOK, Drop
<1>2. CASE key[n].on /\ key[n].lease = l
  <2>1. key' = [key EXCEPT ![n] = [@ EXCEPT !.on = FALSE]]
    BY <1>2 DEF Drop
  <2>2. key' \in [Node -> Key]
    BY <2>1, ZenonT(30) DEF TypeOK, Key
  <2>3. gap' \in BOOLEAN
    BY <1>2 DEF Drop, TypeOK
  <2> QED BY <1>1, <2>2, <2>3
<1>3. CASE ~(key[n].on /\ key[n].lease = l)
  BY <1>1, <1>3 DEF Drop, TypeOK
<1> QED BY <1>2, <1>3

-----------------------------------------------------------------------------
(* Types.                                                                  *)

LEMMA InitType == Init => TypeOK
BY LoopType, BoundsAssumption DEF Init, TypeOK, Key, Epoch

LEMMA RegistrationType ==
    ASSUME TypeOK, NEW n \in Node,
           Start(n) \/ Crash(n) \/ Expire(n) \/ ExpireKept(n) \/ Reregister(n)
    PROVE  TypeOK'
<1>1. CASE Start(n)
  BY <1>1, PutNodeStateType, LoopType, SMTT(30)
  DEF Start, TypeOK, Epoch, roleVars
<1>2. CASE Crash(n)
  <2>1. Spend("crash") BY <1>2 DEF Crash
  <2> QED BY <1>2, <2>1, SpendType, LoopType DEF Crash, TypeOK, Epoch, etcdVars
<1>3. CASE Expire(n)
  <2>1. PICK l : Drop(n, l) BY <1>3 DEF Expire
  <2> QED BY <1>3, <2>1, DropType
      DEF Expire, TypeOK, Epoch, sessionVars, roleVars
<1>4. CASE ExpireKept(n)
  <2>1. PICK l : Drop(n, l) BY <1>4 DEF ExpireKept
  <2>2. Spend("session") BY <1>4 DEF ExpireKept
  <2> QED BY <1>4, <2>1, <2>2, DropType, SpendType
      DEF ExpireKept, TypeOK, Epoch, sessionVars, roleVars
<1>5. CASE Reregister(n)
  <2>1. PutNodeState(n) BY <1>5 DEF Reregister
  <2>2. recovery' \in [Node -> {"off", "register", "restore"}]
    BY <1>5 DEF Reregister, TypeOK
  <2>3. UNCHANGED <<elected, losing, running, role, epoch, loop, watched, gap, budget>>
    BY <1>5 DEF Reregister, roleVars
  <2> QED BY <2>1, <2>2, <2>3, PutNodeStateType DEF TypeOK, Epoch
<1> QED BY <1>1, <1>2, <1>3, <1>4, <1>5

LEMMA SessionType ==
    ASSUME TypeOK, NEW n \in Node,
           \/ KeepAliveEnds(n) \/ LossStep(n) \/ RestoreDone(n)
           \/ RestoreFails(n) \/ WatchDelivers(n)
    PROVE  TypeOK'
<1>0. ASSUME HandleSessionLoss(n)
      PROVE  /\ recovery' \in [Node -> {"off", "register", "restore"}]
             /\ loop' \in [Node -> Loop]
             /\ role' \in [Node -> {"Unroled", "Controller", "Follower"}]
  <2>1. CASE Paused(n) BY <1>0, <2>1 DEF HandleSessionLoss, TypeOK
  <2>2. CASE ~Paused(n)
    <3>1. loop' \in [Node -> Loop]
      <4>1. loop' = [loop EXCEPT ![n] = [@ EXCEPT !.on = FALSE]]
        BY <1>0, <2>2 DEF HandleSessionLoss
      <4>2. loop[n] \in Loop BY DEF TypeOK
      <4>3. [loop[n] EXCEPT !.on = FALSE] \in Loop BY <4>2 DEF Loop
      <4> QED BY <4>1, <4>3 DEF TypeOK
    <3> QED BY <1>0, <2>2, <3>1 DEF HandleSessionLoss, TypeOK
  <2> QED BY <2>1, <2>2
<1>1. CASE KeepAliveEnds(n)
  <2>1. budget' \in [crash : 0..MaxCrashes, session : 0..MaxSessionLosses,
                     call : 0..MaxCallErrors]
    <3>1. Spend("session") \/ budget' = budget BY <1>1 DEF KeepAliveEnds
    <3> QED BY <3>1, SpendType DEF TypeOK
  <2> QED BY <1>1, <2>1, SMTT(30) DEF KeepAliveEnds, TypeOK, Epoch, etcdVars, roleVars
<1>2. CASE SessionLost(n)
  BY <1>0, <1>2 DEF SessionLost, TypeOK, Epoch, etcdVars
<1>3. CASE SnapshotMissesSelf(n)
  BY <1>0, <1>3 DEF SnapshotMissesSelf, TypeOK, Epoch, etcdVars
<1>4. CASE RestoreDone(n)
  BY <1>4, LoopType DEF RestoreDone, TypeOK, Epoch, etcdVars, roleVars
<1>5. CASE RestoreFails(n)
  <2>1. Spend("call") BY <1>5 DEF RestoreFails
  <2> QED BY <1>5, <2>1, SpendType DEF RestoreFails, TypeOK, Epoch, etcdVars, roleVars
<1>6. CASE WatchDelivers(n)
  <2>1. /\ role' \in [Node -> {"Unroled", "Controller", "Follower"}]
        /\ epoch' \in [Node -> Nat]
    <3>0. watched[n] + 1 \in Nat
      BY DEF TypeOK
    <3>1. CASE elected[watched[n] + 1] # n
      <4>1. /\ role' = [role EXCEPT ![n] = "Follower"]
            /\ epoch' = [epoch EXCEPT ![n] = watched[n] + 1]
        BY <1>6, <3>1 DEF WatchDelivers
      <4> QED BY <3>0, <4>1 DEF TypeOK
    <3>2. CASE elected[watched[n] + 1] = n
      BY <1>6, <3>2 DEF WatchDelivers, TypeOK, roleVars
    <3> QED BY <3>1, <3>2
  <2>2. watched' \in [Node -> Nat] /\ \A m \in Node : watched'[m] <= Epoch
    <3>1. Epoch \in Nat /\ watched \in [Node -> Nat]
          /\ \A m \in Node : watched[m] <= Epoch
      BY DEF TypeOK, Epoch
    <3>2. watched[n] < Epoch /\ watched' = [watched EXCEPT ![n] = @ + 1]
      BY <1>6 DEF WatchDelivers
    <3> QED BY <3>1, <3>2
  <2>3. UNCHANGED <<elected, key, live, granted, leaseId, keepers, losing,
                    recovery, running, loop, gap, budget>>
    BY <1>6 DEF WatchDelivers, etcdVars, sessionVars
  <2> QED BY <2>1, <2>2, <2>3 DEF TypeOK, Epoch
<1> QED BY <1>1, <1>2, <1>3, <1>4, <1>5, <1>6 DEF LossStep

\* What a claim writes.
LEMMA ClaimType ==
    ASSUME TypeOK, NEW n \in Node, Claim(n)
    PROVE  /\ elected' = Append(elected, n)
           /\ elected' \in Seq(Node)
           /\ Epoch \in Nat
           /\ Epoch' = Epoch + 1
           /\ \A m \in Node : watched'[m] <= Epoch'
           /\ elected'[Epoch'] = n
           /\ \A e \in 1..Epoch : elected'[e] = elected[e]
           /\ key' \in [Node -> Key]
           /\ key'[n].on
           /\ gap' = FALSE
           /\ UNCHANGED <<live, granted, leaseId, keepers, losing, recovery,
                          running, role, epoch, watched>>
<1>1. elected' = Append(elected, n) /\ elected \in Seq(Node)
  BY DEF Claim, TypeOK
<1>2. /\ elected' \in Seq(Node)
      /\ Len(elected') = Len(elected) + 1
      /\ elected'[Len(elected) + 1] = n
      /\ \A e \in 1..Len(elected) : elected'[e] = elected[e]
  BY <1>1
<1>3. key' \in [Node -> Key] /\ key'[n].on
  BY DEF Claim, TypeOK, Key
<1>4. UNCHANGED <<live, granted, leaseId, keepers, losing, recovery, running,
                  role, epoch, watched>> /\ gap' = FALSE
  BY DEF Claim, sessionVars, roleVars
<1>5. Epoch \in Nat /\ Epoch' = Epoch + 1 /\ \A e \in 1..Epoch : elected'[e] = elected[e]
  BY <1>1, <1>2 DEF Epoch
<1>6. \A m \in Node : watched'[m] <= Epoch'
  <2>1. \A m \in Node : watched[m] \in Nat /\ watched[m] <= Epoch
    BY DEF TypeOK
  <2> QED BY <1>4, <1>5, <2>1
<1> QED BY <1>1, <1>2, <1>3, <1>4, <1>5, <1>6 DEF Epoch

\* A step of the loop that touches nothing but the loop and the budget.
LEMMA LoopOnlyType ==
    ASSUME TypeOK, NoLoopEffect, loop' \in [Node -> Loop],
           UNCHANGED budget \/ Spend("call")
    PROVE  TypeOK'
<1>1. budget' \in [crash : 0..MaxCrashes, session : 0..MaxSessionLosses,
                   call : 0..MaxCallErrors]
  BY SpendType DEF TypeOK
<1> QED BY <1>1 DEF NoLoopEffect, TypeOK, Epoch, etcdVars, sessionVars, roleVars

LEMMA LoopStepType ==
    ASSUME TypeOK, NEW n \in Node,
           LoopStep(n) \/ CheckLeaderFails(n) \/ ClaimUnanswered(n) \/ CallFails(n)
    PROVE  TypeOK'
<1>0. /\ loop \in [Node -> Loop] /\ loop[n] \in Loop
      /\ Epoch \in Nat
  BY DEF TypeOK, Epoch
<1>g. ASSUME NEW label \in {"off", "state", "leader", "self", "txn", "lead",
                            "follow", "hold"},
             Goto(n, label)
      PROVE  loop' \in [Node -> Loop]
  <2>1. [loop[n] EXCEPT !.pc = label] \in Loop BY <1>0 DEF Loop
  <2> QED BY <1>0, <1>g, <2>1 DEF Goto
<1>1. CASE ReadState(n)
  <2>1. [loop[n] EXCEPT !.at = Epoch,
                        !.pc = IF Epoch = 0 THEN "self"
                               ELSE IF elected[Epoch] = n THEN "lead"
                               ELSE "leader"] \in Loop
    BY <1>0 DEF Loop
  <2>2. loop' \in [Node -> Loop] BY <1>0, <1>1, <2>1 DEF ReadState
  <2> QED BY <1>1, <2>2, LoopOnlyType DEF ReadState
<1>2. CASE CheckLeader(n)
  BY <1>2, <1>g, LoopOnlyType DEF CheckLeader
<1>3. CASE ReadSelf(n)
  <2>1. [loop[n] EXCEPT !.pc = "txn",
                        !.self = IF key[n].on THEN key[n].rev ELSE 0] \in Loop
    BY <1>0 DEF Loop, TypeOK, Key
  <2>2. loop' \in [Node -> Loop] BY <1>0, <1>3, <2>1 DEF ReadSelf
  <2> QED BY <1>3, <2>2, LoopOnlyType DEF ReadSelf
<1>4. CASE ClaimSucceeds(n)
  <2>1. Claim(n) BY <1>4 DEF ClaimSucceeds
  <2> DEFINE next == [loop[n] EXCEPT !.pc = "lead", !.at = loop[n].at + 1]
  <2>2. next \in Loop
    <3>1. loop[n].at + 1 \in Nat BY <1>0 DEF Loop
    <3> QED BY <1>0, <3>1 DEF Loop
  <2>3. loop' = [loop EXCEPT ![n] = next] /\ budget' = budget
    BY <1>4 DEF ClaimSucceeds
  <2> HIDE DEF next
  <2>4. loop' \in [Node -> Loop]
    BY <1>0, <2>2, <2>3
  <2> QED BY <2>1, <2>3, <2>4, ClaimType DEF TypeOK
<1>5. CASE ClaimFails(n)
  BY <1>5, <1>g, LoopOnlyType DEF ClaimFails
<1>6. CASE SwitchToControllerMode(n)
  <2>1. loop' \in [Node -> Loop] BY <1>6, <1>g DEF SwitchToControllerMode
  <2>2. loop[n].at \in Nat BY <1>0 DEF Loop
  <2> QED BY <1>6, <2>1, <2>2
      DEF SwitchToControllerMode, TypeOK, Epoch, etcdVars, sessionVars
<1>7. CASE SwitchToFollowerMode(n)
  <2>1. loop' \in [Node -> Loop] BY <1>7, <1>g DEF SwitchToFollowerMode
  <2>2. loop[n].at \in Nat BY <1>0 DEF Loop
  <2> QED BY <1>7, <2>1, <2>2
      DEF SwitchToFollowerMode, TypeOK, Epoch, etcdVars, sessionVars
<1>8. CASE LoopEnds(n)
  <2>1. loop' \in [Node -> Loop] BY <1>0, <1>8, LoopType DEF LoopEnds
  <2> QED BY <1>8, <2>1, LoopOnlyType DEF LoopEnds
<1>9. CASE CheckLeaderFails(n)
  BY <1>9, <1>g, LoopOnlyType DEF CheckLeaderFails
<1>10. CASE ClaimUnanswered(n)
  <2>1. Claim(n) /\ Spend("call") BY <1>10 DEF ClaimUnanswered
  <2>2. loop' \in [Node -> Loop] BY <1>10, <1>g DEF ClaimUnanswered
  <2> QED BY <2>1, <2>2, ClaimType, SpendType DEF TypeOK
<1>11. CASE CallFails(n)
  BY <1>11, <1>g, LoopOnlyType DEF CallFails
<1> QED
  BY <1>1, <1>2, <1>3, <1>4, <1>5, <1>6, <1>7, <1>8, <1>9, <1>10, <1>11
  DEF LoopStep

LEMMA NextType == TypeOK /\ [Next]_vars => TypeOK'
<1> SUFFICES ASSUME TypeOK, [Next]_vars PROVE TypeOK'
  OBVIOUS
<1>1. CASE UNCHANGED vars
  BY <1>1 DEF vars, etcdVars, sessionVars, roleVars, TypeOK, Epoch
<1>2. CASE Next
  BY <1>2, RegistrationType, SessionType, LoopStepType
  DEF Next, RecoveryStep, Fault
<1> QED BY <1>1, <1>2

\* Every variable keeps its shape, and no watch delivers what was not written.
THEOREM ElectionTypes == Spec => []TypeOK
<1>1. Init => TypeOK BY InitType
<1>2. TypeOK /\ [Next]_vars => TypeOK' BY NextType
<1> QED BY <1>1, <1>2, PTL DEF Spec

-----------------------------------------------------------------------------
(* The inductive invariant.                                                *)

\* What a node read of the election is not ahead of it; a node about to become
\* controller, and one that is, won the epoch it goes by.
WonAt(n, e) == e \in 1..Epoch /\ elected[e] = n

EpochsRight ==
    \A n \in Node :
        /\ loop[n].at <= Epoch
        /\ loop[n].pc = "leader" => loop[n].at > 0
        /\ loop[n].pc = "lead" => WonAt(n, loop[n].at)
        /\ role[n] = "Controller" => WonAt(n, epoch[n])

\* A node goes for the epoch after the last one only with a reason: the last
\* leader was seen without its key, or a call failed.
Reason == gap \/ budget.call < MaxCallErrors

Reasons ==
    /\ Epoch = 0 => gap
    /\ Epoch > 0 /\ ~key[elected[Epoch]].on => gap
    /\ \A n \in Node :
          loop[n].pc \in {"self", "txn"} /\ loop[n].at = Epoch => Reason

Inv == TypeOK /\ EpochsRight /\ Reasons

LEMMA InitInv == Init => Inv
<1> SUFFICES ASSUME Init PROVE Inv OBVIOUS
<1>1. TypeOK BY InitType
<1>2. Epoch = 0 BY DEF Init, Epoch
<1>3. EpochsRight
  <2>1. \A n \in Node : /\ loop[n].at = 0 /\ loop[n].pc = "off"
                        /\ role[n] = "Unroled"
    BY DEF Init, NoLoop
  <2> SUFFICES ASSUME NEW n \in Node
      PROVE  /\ loop[n].at <= Epoch
             /\ loop[n].pc = "leader" => loop[n].at > 0
             /\ loop[n].pc = "lead" => WonAt(n, loop[n].at)
             /\ role[n] = "Controller" => WonAt(n, epoch[n])
    BY DEF EpochsRight
  <2>2. loop[n].at <= Epoch BY <1>2, <2>1
  <2>3. loop[n].pc = "off" /\ role[n] = "Unroled" BY <2>1
  <2> QED BY <2>2, <2>3
<1>4. Reasons BY <1>2 DEF Init, Reasons, NoLoop
<1> QED BY <1>1, <1>3, <1>4 DEF Inv

\* A step that elects nobody keeps the invariant if it makes no controller,
\* moves no loop to a place with conditions, loses no key of the last leader
\* without noting the gap, and gives back no budget.
LEMMA QuietStep ==
    ASSUME Inv, elected' = elected,
           gap => gap', budget'.call <= budget.call,
           budget'.call \in Nat,
           \A n \in Node :
               /\ \/ loop'[n] = loop[n]
                  \/ /\ loop'[n].pc \in {"off", "state", "follow", "hold"}
                     /\ loop'[n].at <= Epoch
                  \/ loop'[n].pc = loop[n].pc /\ loop'[n].at = loop[n].at
               /\ role'[n] = "Controller" =>
                     role[n] = "Controller" /\ epoch'[n] = epoch[n],
           Epoch > 0 => \/ key'[elected[Epoch]].on = key[elected[Epoch]].on
                        \/ key'[elected[Epoch]].on
                        \/ gap'
    PROVE  EpochsRight' /\ Reasons'
<1>1. Epoch' = Epoch BY DEF Epoch
<1>2. ASSUME NEW n \in Node, NEW e PROVE WonAt(n, e)' <=> WonAt(n, e')
  BY <1>1 DEF WonAt
<1>3. EpochsRight'
  <2> SUFFICES ASSUME NEW n \in Node
      PROVE  /\ loop'[n].at <= Epoch
             /\ loop'[n].pc = "leader" => loop'[n].at > 0
             /\ loop'[n].pc = "lead" => WonAt(n, loop'[n].at)
             /\ role'[n] = "Controller" => WonAt(n, epoch'[n])
    BY <1>1 DEF EpochsRight, WonAt
  <2> QED BY DEF Inv, EpochsRight
<1>4. Reason => Reason'
  BY BoundsAssumption DEF Reason, Inv, TypeOK
<1>5. Reasons'
  <2>1. Epoch = 0 => gap' BY DEF Inv, Reasons
  <2>2. Epoch > 0 /\ ~key'[elected[Epoch]].on => gap' BY DEF Inv, Reasons
  <2>3. ASSUME NEW n \in Node, loop'[n].pc \in {"self", "txn"}, loop'[n].at = Epoch
        PROVE  Reason'
    BY <1>4, <2>3 DEF Inv, Reasons
  <2> QED BY <1>1, <2>1, <2>2, <2>3 DEF Reasons
<1> QED BY <1>3, <1>5

\* Registration, crash, recovery and loss of the session are quiet.
LEMMA SessionStepInv ==
    ASSUME Inv, TypeOK', NEW n \in Node,
           \/ Start(n) \/ Crash(n) \/ Expire(n) \/ ExpireKept(n) \/ Reregister(n)
           \/ KeepAliveEnds(n) \/ LossStep(n) \/ RestoreDone(n) \/ RestoreFails(n)
           \/ WatchDelivers(n)
    PROVE  EpochsRight' /\ Reasons'
<1>0. /\ TypeOK /\ Epoch \in Nat /\ loop \in [Node -> Loop]
      /\ \A m \in Node : loop[m].at \in Nat /\ loop[m].at <= Epoch
      /\ budget.call \in Nat /\ budget'.call \in Nat
      /\ Epoch > 0 => elected[Epoch] \in Node
  <2>1. TypeOK /\ EpochsRight BY DEF Inv
  <2>2. Epoch \in Nat /\ (Epoch > 0 => elected[Epoch] \in Node)
    BY <2>1 DEF TypeOK, Epoch
  <2>3. loop \in [Node -> Loop] BY <2>1 DEF TypeOK
  <2>4. \A m \in Node : loop[m].at \in Nat BY <2>3 DEF Loop
  <2>5. \A m \in Node : loop[m].at <= Epoch BY <2>1 DEF EpochsRight
  <2>6. budget.call \in Nat BY <2>1, BoundsAssumption DEF TypeOK
  <2>7. budget'.call \in Nat BY BoundsAssumption DEF TypeOK
  <2> QED BY <2>1, <2>2, <2>3, <2>4, <2>5, <2>6, <2>7
<1>1. ASSUME PutNodeState(n)
      PROVE  Epoch > 0 => \/ key'[elected[Epoch]].on = key[elected[Epoch]].on
                          \/ key'[elected[Epoch]].on
  BY <1>0, <1>1 DEF PutNodeState, TypeOK
<1>2. ASSUME NEW l, Drop(n, l)
      PROVE  /\ gap => gap'
             /\ Epoch > 0 => \/ key'[elected[Epoch]].on = key[elected[Epoch]].on
                             \/ gap'
  <2>1. CASE key[n].on /\ key[n].lease = l
    <3>1. /\ key' = [key EXCEPT ![n] = [@ EXCEPT !.on = FALSE]]
          /\ gap' = (gap \/ elected[Epoch] = n)
      BY <1>2, <2>1 DEF Drop
    <3>2. gap => gap' BY <3>1
    <3>3. ASSUME Epoch > 0, elected[Epoch] # n
          PROVE  key'[elected[Epoch]].on = key[elected[Epoch]].on
      BY <1>0, <3>1, <3>3 DEF TypeOK
    <3>4. elected[Epoch] = n => gap' BY <3>1
    <3> QED BY <3>2, <3>3, <3>4
  <2>2. CASE ~(key[n].on /\ key[n].lease = l)
    BY <1>2, <2>2 DEF Drop
  <2> QED BY <2>1, <2>2
<1>3. NewLoop.pc = "state" /\ NewLoop.at = 0 /\ NoLoop.pc = "off" /\ NoLoop.at = 0
  BY DEF NewLoop, NoLoop
<1>4. CASE Start(n)
  <2>1. PutNodeState(n) BY <1>4 DEF Start
  <2>2. /\ loop' = [loop EXCEPT ![n] = NewLoop]
        /\ UNCHANGED <<elected, role, epoch, gap, budget>>
    BY <1>4 DEF Start, roleVars
  <2>3. \A m \in Node :
        \/ loop'[m] = loop[m]
        \/ /\ loop'[m].pc \in {"off", "state", "follow", "hold"}
           /\ loop'[m].at <= Epoch
    BY <1>0, <1>3, <2>2
  <2> QED BY <1>0, <1>1, <2>1, <2>2, <2>3, QuietStep
<1>5. CASE Crash(n)
  <2>1. /\ loop' = [loop EXCEPT ![n] = NoLoop]
        /\ role' = [role EXCEPT ![n] = "Unroled"]
        /\ epoch' = [epoch EXCEPT ![n] = 0]
        /\ Spend("crash") /\ UNCHANGED <<elected, key, gap>>
    BY <1>5 DEF Crash, etcdVars
  <2>2. \A m \in Node :
        \/ loop'[m] = loop[m]
        \/ /\ loop'[m].pc \in {"off", "state", "follow", "hold"}
           /\ loop'[m].at <= Epoch
    BY <1>0, <1>3, <2>1
  <2>3. \A m \in Node : role'[m] = "Controller" =>
                            role[m] = "Controller" /\ epoch'[m] = epoch[m]
    BY <1>0, <2>1 DEF TypeOK
  <2>4. budget'.call <= budget.call BY <1>0, <2>1, SpendType
  <2> QED BY <1>0, <2>1, <2>2, <2>3, <2>4, QuietStep
<1>6. CASE Expire(n) \/ ExpireKept(n)
  <2>1. PICK l : Drop(n, l) BY <1>6 DEF Expire, ExpireKept
  <2>2. UNCHANGED <<elected, role, epoch, loop>>
    BY <1>6 DEF Expire, ExpireKept, roleVars
  <2>3. UNCHANGED budget \/ Spend("session")
    BY <1>6 DEF Expire, ExpireKept
  <2>4. budget'.call <= budget.call BY <1>0, <2>3, SpendType
  <2> QED BY <1>0, <1>2, <2>1, <2>2, <2>4, QuietStep
<1>7. CASE Reregister(n)
  <2>1. PutNodeState(n) /\ UNCHANGED <<elected, role, epoch, loop, gap, budget>>
    BY <1>7 DEF Reregister, roleVars
  <2> QED BY <1>0, <1>1, <2>1, QuietStep
<1>8. CASE KeepAliveEnds(n)
  <2>1. /\ UNCHANGED <<elected, key, role, epoch, loop, gap>>
        /\ UNCHANGED budget \/ Spend("session")
    BY <1>8 DEF KeepAliveEnds, etcdVars, roleVars
  <2>2. budget'.call <= budget.call BY <1>0, <2>1, SpendType
  <2> QED BY <1>0, <2>1, <2>2, QuietStep
<1>9. CASE LossStep(n)
  <2>1. HandleSessionLoss(n) /\ UNCHANGED <<elected, key, epoch, gap, budget>>
    BY <1>9 DEF LossStep, SessionLost, SnapshotMissesSelf, etcdVars
  <2>2. /\ \A m \in Node : loop'[m].pc = loop[m].pc /\ loop'[m].at = loop[m].at
        /\ \A m \in Node : role'[m] = "Controller" => role[m] = "Controller"
    <3>1. CASE Paused(n) BY <2>1, <3>1 DEF HandleSessionLoss
    <3>2. CASE ~Paused(n)
      <4>1. /\ loop' = [loop EXCEPT ![n] = [@ EXCEPT !.on = FALSE]]
            /\ role' = [role EXCEPT ![n] = "Follower"]
        BY <2>1, <3>2 DEF HandleSessionLoss
      <4>2. loop[n] \in Loop BY <1>0
      <4> QED BY <1>0, <4>1, <4>2, ZenonT(30) DEF TypeOK, Loop
    <3> QED BY <3>1, <3>2
  <2> QED BY <1>0, <2>1, <2>2, QuietStep
<1>10. CASE RestoreDone(n)
  <2>1. /\ loop' = [loop EXCEPT ![n] = NewLoop]
        /\ UNCHANGED <<elected, key, role, epoch, gap, budget>>
    BY <1>10 DEF RestoreDone, etcdVars, roleVars
  <2>2. \A m \in Node :
        \/ loop'[m] = loop[m]
        \/ /\ loop'[m].pc \in {"off", "state", "follow", "hold"}
           /\ loop'[m].at <= Epoch
    BY <1>0, <1>3, <2>1
  <2> QED BY <1>0, <2>1, <2>2, QuietStep
<1>11. CASE RestoreFails(n)
  <2>1. Spend("call") /\ UNCHANGED <<elected, key, role, epoch, loop, gap>>
    BY <1>11 DEF RestoreFails, etcdVars, roleVars
  <2>2. budget'.call <= budget.call BY <1>0, <2>1, SpendType
  <2> QED BY <1>0, <2>1, <2>2, QuietStep
<1>12. CASE WatchDelivers(n)
  <2>1. UNCHANGED <<elected, key, loop, gap, budget>>
    BY <1>12 DEF WatchDelivers, etcdVars
  <2>2. \A m \in Node : role'[m] = "Controller" =>
                            role[m] = "Controller" /\ epoch'[m] = epoch[m]
    <3>1. CASE UNCHANGED <<role, epoch>> BY <3>1
    <3>2. CASE /\ role' = [role EXCEPT ![n] = "Follower"]
               /\ epoch' = [epoch EXCEPT ![n] = watched[n] + 1]
      BY <1>0, <3>2 DEF TypeOK
    <3> QED BY <1>12, <3>1, <3>2 DEF WatchDelivers, roleVars
  <2> QED BY <1>0, <2>1, <2>2, QuietStep
<1> QED
  BY <1>4, <1>5, <1>6, <1>7, <1>8, <1>9, <1>10, <1>11, <1>12

\* A loop step that moves only the loop of its node, to a place whose
\* conditions hold.
LEMMA LoopMove ==
    ASSUME Inv, TypeOK', NEW n \in Node, NEW here \in Loop,
           NoLoopEffect, budget'.call <= budget.call,
           loop' = [loop EXCEPT ![n] = here],
           here.at <= Epoch,
           here.pc = "leader" => here.at > 0,
           here.pc = "lead" => WonAt(n, here.at),
           here.pc \in {"self", "txn"} /\ here.at = Epoch => Reason'
    PROVE  EpochsRight' /\ Reasons'
<1>1. UNCHANGED <<elected, key, role, epoch, gap>>
  BY DEF NoLoopEffect, etcdVars, roleVars
<1>2. Epoch' = Epoch BY <1>1 DEF Epoch
<1>3. \A m \in Node : loop'[m] = IF m = n THEN here ELSE loop[m]
  BY DEF Inv, TypeOK
<1>4. EpochsRight'
  <2> SUFFICES ASSUME NEW m \in Node
      PROVE  /\ loop'[m].at <= Epoch
             /\ loop'[m].pc = "leader" => loop'[m].at > 0
             /\ loop'[m].pc = "lead" => WonAt(m, loop'[m].at)
             /\ role[m] = "Controller" => WonAt(m, epoch[m])
    BY <1>1, <1>2 DEF EpochsRight, WonAt
  <2>1. CASE m = n BY <1>3, <2>1 DEF Inv, EpochsRight
  <2>2. CASE m # n BY <1>3, <2>2 DEF Inv, EpochsRight
  <2> QED BY <2>1, <2>2
<1>5. Reason => Reason'
  BY <1>1, BoundsAssumption DEF Reason, Inv, TypeOK
<1>6. Reasons'
  <2>1. (Epoch = 0 => gap) /\ (Epoch > 0 /\ ~key[elected[Epoch]].on => gap)
    BY DEF Inv, Reasons
  <2>2. ASSUME NEW m \in Node, loop'[m].pc \in {"self", "txn"}, loop'[m].at = Epoch
        PROVE  Reason'
    <3>1. CASE m = n BY <1>3, <2>2, <3>1
    <3>2. CASE m # n BY <1>3, <1>5, <2>2, <3>2 DEF Inv, Reasons
    <3> QED BY <3>1, <3>2
  <2> QED BY <1>1, <1>2, <2>1, <2>2 DEF Reasons
<1> QED BY <1>4, <1>6

\* A claim: its epoch is new, so no other node won it, and the last leader's
\* key is there.
LEMMA ClaimInv ==
    ASSUME Inv, TypeOK', NEW n \in Node, Claim(n),
           budget'.call <= budget.call,
           NEW here \in Loop, loop' = [loop EXCEPT ![n] = here],
           here.at <= Epoch + 1,
           here.pc \in {"state", "lead"},
           here.pc = "lead" => here.at = Epoch + 1
    PROVE  EpochsRight' /\ Reasons'
<1>0. TypeOK BY DEF Inv
<1>1. /\ Epoch \in Nat /\ Epoch' = Epoch + 1
      /\ elected'[Epoch'] = n
      /\ \A e \in 1..Epoch : elected'[e] = elected[e]
      /\ key'[n].on
      /\ UNCHANGED <<role, epoch>>
  BY <1>0, ClaimType
<1>2. \A m \in Node : loop'[m] = IF m = n THEN here ELSE loop[m]
  BY <1>0 DEF TypeOK
<1>3. ASSUME NEW m \in Node, NEW e, WonAt(m, e)
      PROVE  e \in 1..Epoch' /\ elected'[e] = m
  BY <1>1, <1>3 DEF WonAt
<1>4. EpochsRight'
  <2> SUFFICES ASSUME NEW m \in Node
      PROVE  /\ loop'[m].at <= Epoch'
             /\ loop'[m].pc = "leader" => loop'[m].at > 0
             /\ loop'[m].pc = "lead" =>
                   loop'[m].at \in 1..Epoch' /\ elected'[loop'[m].at] = m
             /\ role'[m] = "Controller" =>
                   epoch'[m] \in 1..Epoch' /\ elected'[epoch'[m]] = m
    BY DEF EpochsRight, WonAt
  <2>1. role'[m] = "Controller" =>
            epoch'[m] \in 1..Epoch' /\ elected'[epoch'[m]] = m
    BY <1>1, <1>3 DEF Inv, EpochsRight
  <2>2. CASE m = n
    <3>1. loop'[m] = here BY <1>2, <2>2
    <3>2. here.at \in Nat BY DEF Loop
    <3> QED BY <1>1, <2>1, <2>2, <3>1, <3>2
  <2>3. CASE m # n
    <3>1. loop'[m] = loop[m] BY <1>2, <2>3
    <3>2. loop[m].at \in Nat /\ loop[m].at <= Epoch
      BY <1>0 DEF Inv, EpochsRight, TypeOK, Loop
    <3>3. loop[m].pc = "leader" => loop[m].at > 0
      BY DEF Inv, EpochsRight
    <3>4. loop[m].pc = "lead" => WonAt(m, loop[m].at)
      BY DEF Inv, EpochsRight
    <3> QED BY <1>1, <1>3, <2>1, <3>1, <3>2, <3>3, <3>4
  <2> QED BY <2>2, <2>3
<1>5. Reasons'
  <2>1. ASSUME NEW m \in Node, loop'[m].pc \in {"self", "txn"}
        PROVE  loop'[m].at # Epoch'
    <3>1. m # n BY <1>2, <2>1
    <3>2. loop'[m] = loop[m] BY <1>2, <3>1
    <3>3. loop[m].at \in Nat /\ loop[m].at <= Epoch
      BY <1>0 DEF Inv, EpochsRight, TypeOK, Loop
    <3> QED BY <1>1, <3>2, <3>3
  <2> QED BY <1>1, <2>1 DEF Reasons
<1> QED BY <1>4, <1>5

LEMMA LoopStepInv ==
    ASSUME Inv, TypeOK', NEW n \in Node,
           LoopStep(n) \/ CheckLeaderFails(n) \/ ClaimUnanswered(n) \/ CallFails(n)
    PROVE  EpochsRight' /\ Reasons'
<1> DEFINE old == loop[n]
<1>0. /\ TypeOK /\ EpochsRight /\ Reasons
      /\ loop \in [Node -> Loop] /\ old \in Loop
      /\ old.at \in Nat /\ old.at <= Epoch
      /\ Epoch \in Nat
      /\ budget.call \in Nat
  <2>1. TypeOK /\ EpochsRight /\ Reasons BY DEF Inv
  <2>2. loop \in [Node -> Loop] /\ old \in Loop /\ Epoch \in Nat
    BY <2>1 DEF TypeOK, Epoch
  <2>3. old.at \in Nat BY <2>2 DEF Loop
  <2>4. old.at <= Epoch BY <2>1 DEF EpochsRight
  <2>5. budget.call \in Nat BY <2>1, BoundsAssumption DEF TypeOK
  <2> QED BY <2>1, <2>2, <2>3, <2>4, <2>5
<1>g. ASSUME NEW label \in {"state", "self", "follow"}, Goto(n, label), NoLoopEffect,
             budget'.call <= budget.call,
             label = "self" /\ old.at = Epoch => Reason'
      PROVE  EpochsRight' /\ Reasons'
  <2> DEFINE here == [old EXCEPT !.pc = label]
  <2>1. here \in Loop /\ here.pc = label /\ here.at = old.at
    BY <1>0 DEF Loop
  <2>2. loop' = [loop EXCEPT ![n] = here] BY <1>g DEF Goto
  <2> HIDE DEF here
  <2> QED BY <1>0, <1>g, <2>1, <2>2, LoopMove
<1>s. ASSUME Spend("call")
      PROVE  budget'.call <= budget.call /\ Reason'
  <2>1. budget \in [crash : 0..MaxCrashes, session : 0..MaxSessionLosses,
                    call : 0..MaxCallErrors]
    BY <1>0 DEF TypeOK
  <2>2. budget'.call = budget.call - 1 /\ budget.call > 0
    BY <1>s, <2>1 DEF Spend
  <2>3. budget.call \in Nat /\ budget.call <= MaxCallErrors
    BY <2>1, BoundsAssumption
  <2>4. budget'.call < MaxCallErrors /\ budget'.call <= budget.call
    BY <2>2, <2>3, BoundsAssumption
  <2> QED BY <2>4 DEF Reason
<1>1. CASE ReadState(n)
  <2> DEFINE here == [old EXCEPT !.at = Epoch,
                                 !.pc = IF Epoch = 0 THEN "self"
                                        ELSE IF elected[Epoch] = n THEN "lead"
                                        ELSE "leader"]
  <2>1. /\ here \in Loop /\ here.at = Epoch
        /\ here.pc = IF Epoch = 0 THEN "self"
                     ELSE IF elected[Epoch] = n THEN "lead" ELSE "leader"
    BY <1>0 DEF Loop
  <2>2. loop' = [loop EXCEPT ![n] = here] /\ NoLoopEffect /\ budget' = budget
    BY <1>1 DEF ReadState
  <2> HIDE DEF here
  <2>3. here.pc = "lead" => WonAt(n, here.at)
    BY <1>0, <2>1 DEF WonAt
  <2>4. here.pc \in {"self", "txn"} => Reason'
    <3>1. here.pc \in {"self", "txn"} => Epoch = 0 BY <2>1
    <3>2. gap' = gap BY <2>2 DEF NoLoopEffect
    <3> QED BY <1>0, <3>1, <3>2 DEF Reasons, Reason
  <2>5. budget'.call <= budget.call BY <1>0, <2>2
  <2>6. here.at <= Epoch
    <3>1. Epoch <= Epoch BY <1>0
    <3> QED BY <2>1, <3>1
  <2>7. here.pc = "leader" => here.at > 0
    <3>1. here.pc = "leader" => Epoch # 0 BY <2>1
    <3> QED BY <1>0, <2>1, <3>1
  <2> QED BY <2>1, <2>2, <2>3, <2>4, <2>5, <2>6, <2>7, LoopMove
<1>2. CASE CheckLeader(n)
  <2>1. /\ old.pc = "leader" /\ NoLoopEffect /\ budget' = budget
        /\ Goto(n, IF key[elected[old.at]].on THEN "follow" ELSE "self")
    BY <1>2 DEF CheckLeader, Loops
  <2>2. CASE key[elected[old.at]].on
    BY <1>0, <1>g, <2>1, <2>2
  <2>3. CASE ~key[elected[old.at]].on
    <3>1. old.at > 0 BY <1>0, <2>1 DEF EpochsRight
    <3>2. old.at = Epoch => gap BY <1>0, <2>3, <3>1 DEF Reasons
    <3>3. gap' = gap BY <2>1 DEF NoLoopEffect
    <3>4. old.at = Epoch => Reason' BY <3>2, <3>3 DEF Reason
    <3> QED BY <1>0, <1>g, <2>1, <2>3, <3>4
  <2> QED BY <2>2, <2>3
<1>3. CASE ReadSelf(n)
  <2> DEFINE here == [old EXCEPT !.pc = "txn",
                                 !.self = IF key[n].on THEN key[n].rev ELSE 0]
  <2>1. here \in Loop /\ here.at = old.at /\ here.pc = "txn"
    BY <1>0 DEF Loop, TypeOK, Key
  <2>2. /\ loop' = [loop EXCEPT ![n] = here] /\ NoLoopEffect /\ budget' = budget
        /\ old.pc = "self"
    BY <1>3 DEF ReadSelf, Loops
  <2> HIDE DEF here
  <2>3. here.at = Epoch => Reason'
    <3>1. here.at = Epoch => Reason BY <1>0, <2>1, <2>2 DEF Reasons
    <3>2. gap' = gap BY <2>2 DEF NoLoopEffect
    <3> QED BY <2>2, <3>1, <3>2 DEF Reason
  <2>4. budget'.call <= budget.call BY <1>0, <2>2
  <2>5. here.at <= Epoch BY <1>0, <2>1
  <2> QED BY <2>1, <2>2, <2>3, <2>4, <2>5, LoopMove
<1>4. CASE ClaimSucceeds(n)
  <2> DEFINE here == [old EXCEPT !.pc = "lead", !.at = old.at + 1]
  <2>1. here \in Loop /\ here.pc = "lead" /\ here.at = old.at + 1
    <3>1. old.at + 1 \in Nat BY <1>0
    <3> QED BY <1>0, <3>1 DEF Loop
  <2>2. loop' = [loop EXCEPT ![n] = here] /\ Claim(n) /\ budget' = budget
    BY <1>4 DEF ClaimSucceeds
  <2>3. old.at = Epoch BY <2>2 DEF Claim, StateUnchanged
  <2> HIDE DEF here
  <2>4. budget'.call <= budget.call BY <1>0, <2>2
  <2>5. here.at <= Epoch + 1 BY <1>0, <2>1, <2>3
  <2>6. here.at = Epoch + 1 BY <2>1, <2>3
  <2> QED BY <2>1, <2>2, <2>4, <2>5, <2>6, ClaimInv
<1>5. CASE ClaimFails(n)
  BY <1>0, <1>5, <1>g DEF ClaimFails
<1>6. CASE SwitchToControllerMode(n)
  <2>1. /\ role' = [role EXCEPT ![n] = "Controller"]
        /\ epoch' = [epoch EXCEPT ![n] = old.at]
        /\ loop' = [loop EXCEPT ![n] = [old EXCEPT !.pc = "hold"]]
        /\ UNCHANGED <<elected, key, gap, budget>>
        /\ old.pc = "lead"
    BY <1>6 DEF SwitchToControllerMode, Goto, etcdVars
  <2>2. WonAt(n, old.at) BY <1>0, <2>1 DEF EpochsRight
  <2>3. Epoch' = Epoch /\ (Reason => Reason')
    BY <2>1 DEF Epoch, Reason
  <2>4. \A m \in Node : /\ loop'[m].at = loop[m].at
                        /\ loop'[m].pc = loop[m].pc \/ loop'[m].pc = "hold"
    BY <1>0, <2>1 DEF Loop
  <2>5. \A m \in Node : role'[m] = "Controller" => WonAt(m, epoch'[m])
    BY <1>0, <2>1, <2>2 DEF EpochsRight, TypeOK
  <2>6. EpochsRight'
    <3> SUFFICES ASSUME NEW m \in Node
        PROVE  /\ loop'[m].at <= Epoch
               /\ loop'[m].pc = "leader" => loop'[m].at > 0
               /\ loop'[m].pc = "lead" => WonAt(m, loop'[m].at)
               /\ role'[m] = "Controller" => WonAt(m, epoch'[m])
      BY <2>1, <2>3 DEF EpochsRight, WonAt
    <3> QED BY <1>0, <2>4, <2>5 DEF EpochsRight
  <2>7. Reasons' BY <1>0, <2>1, <2>3, <2>4 DEF Reasons
  <2> QED BY <2>6, <2>7
<1>7. CASE SwitchToFollowerMode(n)
  <2>1. /\ role' = [role EXCEPT ![n] = "Follower"]
        /\ epoch' = [epoch EXCEPT ![n] = old.at]
        /\ loop' = [loop EXCEPT ![n] = [old EXCEPT !.pc = "state"]]
        /\ UNCHANGED <<elected, key, gap, budget>>
    BY <1>7 DEF SwitchToFollowerMode, Goto, etcdVars
  <2>2. \A m \in Node :
        \/ loop'[m] = loop[m]
        \/ /\ loop'[m].pc \in {"off", "state", "follow", "hold"}
           /\ loop'[m].at <= Epoch
    BY <1>0, <2>1 DEF Loop
  <2>3. \A m \in Node : role'[m] = "Controller" =>
                            role[m] = "Controller" /\ epoch'[m] = epoch[m]
    BY <1>0, <2>1 DEF TypeOK
  <2> QED BY <1>0, <2>1, <2>2, <2>3, QuietStep
<1>8. CASE LoopEnds(n)
  <2>1. loop' = [loop EXCEPT ![n] = NoLoop] /\ NoLoopEffect /\ budget' = budget
    BY <1>8 DEF LoopEnds
  <2>2. NoLoop \in Loop /\ NoLoop.pc = "off" /\ NoLoop.at = 0
    BY LoopType DEF NoLoop
  <2> HIDE DEF NoLoop
  <2>3. budget'.call <= budget.call BY <1>0, <2>1
  <2>4. NoLoop.at <= Epoch BY <1>0, <2>2
  <2> QED BY <2>1, <2>2, <2>3, <2>4, LoopMove
<1>9. CASE CheckLeaderFails(n)
  BY <1>9, <1>g, <1>s DEF CheckLeaderFails
<1>10. CASE ClaimUnanswered(n)
  <2> DEFINE here == [old EXCEPT !.pc = "state"]
  <2>1. here \in Loop /\ here.pc = "state" /\ here.at = old.at
    BY <1>0 DEF Loop
  <2>2. loop' = [loop EXCEPT ![n] = here] /\ Claim(n) /\ Spend("call")
    BY <1>10 DEF ClaimUnanswered, Goto
  <2> HIDE DEF here
  <2>3. budget'.call <= budget.call BY <1>s, <2>2
  <2>4. here.at <= Epoch + 1 BY <1>0, <2>1
  <2> QED BY <2>1, <2>2, <2>3, <2>4, ClaimInv
<1>11. CASE CallFails(n)
  BY <1>11, <1>g, <1>s DEF CallFails
<1> QED
  BY <1>1, <1>2, <1>3, <1>4, <1>5, <1>6, <1>7, <1>8, <1>9, <1>10, <1>11
  DEF LoopStep

LEMMA NextInv == Inv /\ [Next]_vars => Inv'
<1> SUFFICES ASSUME Inv, [Next]_vars PROVE Inv' OBVIOUS
<1>1. TypeOK' BY NextType DEF Inv
<1>2. CASE UNCHANGED vars
  <2>1. EpochsRight' /\ Reasons'
    BY <1>2 DEF vars, etcdVars, roleVars, Inv, EpochsRight, Reasons, Reason,
                WonAt, Epoch
  <2> QED BY <1>1, <2>1 DEF Inv
<1>3. CASE Next
  <2>1. PICK n \in Node :
          \/ Start(n) \/ Expire(n) \/ KeepAliveEnds(n) \/ LossStep(n)
          \/ RecoveryStep(n) \/ LoopStep(n) \/ WatchDelivers(n) \/ Fault(n)
    BY <1>3 DEF Next
  <2>2. EpochsRight' /\ Reasons'
    BY <1>1, <2>1, SessionStepInv, LoopStepInv DEF RecoveryStep, Fault
  <2> QED BY <1>1, <2>2 DEF Inv
<1> QED BY <1>2, <1>3

LEMMA Invariance == Spec => []Inv
<1>1. Init => Inv BY InitInv
<1>2. Inv /\ [Next]_vars => Inv' BY NextInv
<1> QED BY <1>1, <1>2, PTL DEF Spec

-----------------------------------------------------------------------------
(* The theorems.                                                           *)

\* No two brokers act as controller in one epoch (SwitchToControllerMode after
\* electionLoop's transaction): a controller has won the epoch it goes by, and
\* an epoch has one winner.
THEOREM OneController == Spec => []OneControllerPerEpoch
<1>1. Inv => OneControllerPerEpoch
  BY DEF Inv, EpochsRight, WonAt, OneControllerPerEpoch
<1> QED BY <1>1, Invariance, PTL

\* A controller whose key has stayed in etcd is not replaced unless an etcd call
\* failed: electionLoop claims an epoch only for a reason.
THEOREM NoDepositionWithoutReason == Spec => RegisteredIsNotDeposed
<1>1. Inv /\ [Next]_vars => [elected' # elected => Reason]_vars
  <2> SUFFICES ASSUME Inv, Next, elected' # elected PROVE Reason
    OBVIOUS
  <2>1. PICK n \in Node :
          \/ Start(n) \/ Expire(n) \/ KeepAliveEnds(n) \/ LossStep(n)
          \/ RecoveryStep(n) \/ LoopStep(n) \/ WatchDelivers(n) \/ Fault(n)
    BY DEF Next
  <2>2. ClaimSucceeds(n) \/ ClaimUnanswered(n)
    BY <2>1
    DEF Start, Expire, KeepAliveEnds, LossStep, SessionLost, SnapshotMissesSelf,
        RecoveryStep, Reregister, RestoreDone, LoopStep, ReadState, CheckLeader,
        ReadSelf, ClaimFails, SwitchToControllerMode, SwitchToFollowerMode,
        LoopEnds, WatchDelivers, Fault, Crash, ExpireKept, RestoreFails,
        CheckLeaderFails, CallFails, NoLoopEffect, etcdVars
  <2>3. loop[n].pc = "txn" /\ loop[n].at = Epoch
    BY <2>2 DEF ClaimSucceeds, ClaimUnanswered, Loops, Claim, StateUnchanged
  <2> QED BY <2>3 DEF Inv, Reasons
<1>2. [elected' # elected => Reason]_vars
        => [elected' # elected => gap \/ budget.call < MaxCallErrors]_vars
  BY DEF Reason
<1> QED BY <1>1, <1>2, Invariance, PTL DEF Spec, RegisteredIsNotDeposed

=============================================================================
