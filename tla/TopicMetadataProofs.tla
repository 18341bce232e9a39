------------------------ MODULE TopicMetadataProofs ------------------------
(***************************************************************************)
(* Proofs about TopicMetadata: the compare-and-swap makes every operation  *)
(* atomic (IsAtomic), the ISR stays within the replicas, and only a caller *)
(* that was overtaken MaxRetries times gives up.                           *)
(***************************************************************************)
EXTENDS TopicMetadata, TLAPS

\* The operations keep the shape of the record.
LEMMA ApplyIsRecord ==
    ASSUME NEW o \in Operation, NEW rec \in Record \cup {NoTopic},
           Applicable(o, rec)
    PROVE  Apply(o, rec) \in Record
<1>1. CASE o.kind = "create"
  <2>1. o \in [kind : {"create"}, record : NewRecords]
    BY <1>1 DEF Operation
  <2>2. Apply(o, rec) = o.record
    BY <1>1 DEF Apply
  <2> QED
    BY <2>1, <2>2, NewRecordsAssumption
<1>2. CASE o.kind # "create"
  <2>1. /\ o \in [kind : {"add", "mark", "remove"},
                  partition : Partition, node : Node]
        /\ rec \in [Partition -> Part]
    BY <1>2 DEF Operation, Applicable, Record
  <2> DEFINE p == o.partition
  <2>2. rec[p] \in Part /\ p \in Partition /\ o.node \in Node
    BY <2>1
  <2>3. /\ AddTo(rec[p], o.node) \in Part
        /\ MarkIn(rec[p], o.node) \in Part
        /\ RemoveFrom(rec[p], o.node) \in Part
    BY <2>2 DEF Part, AddTo, MarkIn, RemoveFrom
  <2>4. \E q \in Part : Apply(o, rec) = [rec EXCEPT ![p] = q]
    BY <1>2, <2>1, <2>3 DEF Apply
  <2> QED
    BY <2>1, <2>4 DEF Record
<1> QED
  BY <1>1, <1>2

\* The operations keep the ISR within the replicas.
LEMMA ApplyKeepsIsr ==
    ASSUME NEW o \in Operation, NEW rec \in Record \cup {NoTopic},
           Applicable(o, rec),
           rec # NoTopic => \A p \in Partition : rec[p].isr \subseteq rec[p].replicas,
           NEW q \in Partition
    PROVE  Apply(o, rec)[q].isr \subseteq Apply(o, rec)[q].replicas
<1>1. CASE o.kind = "create"
  <2>1. o \in [kind : {"create"}, record : NewRecords]
    BY <1>1 DEF Operation
  <2>2. Apply(o, rec) = o.record
    BY <1>1 DEF Apply
  <2>3. IsNew(o.record)
    BY <2>1, NewRecordsAssumption
  <2> QED
    BY <2>2, <2>3 DEF IsNew
<1>2. CASE o.kind # "create"
  <2>1. /\ o \in [kind : {"add", "mark", "remove"},
                  partition : Partition, node : Node]
        /\ rec \in [Partition -> Part]
        /\ \A p \in Partition : rec[p].isr \subseteq rec[p].replicas
    BY <1>2 DEF Operation, Applicable, Record
  <2> DEFINE part == rec[o.partition]
  <2>2. /\ part \in Part
        /\ part.isr \subseteq part.replicas
    BY <2>1
  <2> HIDE DEF part
  <2>3. CASE o.kind = "add"
    <3>1. Apply(o, rec) = [rec EXCEPT ![o.partition] = AddTo(part, o.node)]
      BY <2>3, <2>1 DEF Apply, part
    <3>2. AddTo(part, o.node).isr \subseteq AddTo(part, o.node).replicas
      BY <2>2 DEF Part, AddTo
    <3> QED
      BY <3>1, <3>2, <2>1
  <2>4. CASE o.kind = "mark"
    <3>1. Apply(o, rec) = [rec EXCEPT ![o.partition] = MarkIn(part, o.node)]
      BY <2>4, <2>1 DEF Apply, part
    <3>2. o.node \in part.replicas
      BY <2>4 DEF Applicable, part
    <3>3. MarkIn(part, o.node).isr \subseteq MarkIn(part, o.node).replicas
      BY <2>2, <3>2 DEF Part, MarkIn
    <3> QED
      BY <3>1, <3>3, <2>1
  <2>5. CASE o.kind = "remove"
    <3>1. Apply(o, rec) = [rec EXCEPT ![o.partition] = RemoveFrom(part, o.node)]
      BY <2>5, <2>1 DEF Apply, part
    <3>2. RemoveFrom(part, o.node).isr \subseteq RemoveFrom(part, o.node).replicas
      BY <2>2 DEF Part, RemoveFrom
    <3> QED
      BY <3>1, <3>2, <2>1
  <2> QED
    BY <2>1, <2>3, <2>4, <2>5
<1> QED
  BY <1>1, <1>2

-----------------------------------------------------------------------------
\* What a call knows between its read and its write: if the revision is still
\* the one it read, so is the record.
ReadInv(c) ==
    pc[c] = "put" => /\ readRev[c] <= rev
                     /\ readRev[c] = rev => read[c] = record
                     /\ Applicable(op[c], read[c])

\* Each lost race of a mutation is one more revision; the first revision is the
\* creation of the topic.
RaceInv(c) ==
    /\ pc[c] \in {"get", "put"} => attempt[c] < MaxRetries
    /\ pc[c] = "get" => attempt[c] = 0 \/ attempt[c] < rev
    /\ pc[c] = "put" /\ op[c].kind # "create" => attempt[c] < readRev[c]
    /\ pc[c] = "wait" => op[c].kind # "create" /\ attempt[c] < rev
    /\ pc[c] = "contention" =>
         IF op[c].kind = "create" THEN rev > 0 ELSE rev > MaxRetries

Inv == /\ TypeOK
       /\ rev = 0 <=> record = NoTopic
       /\ IsrWithinReplicas
       /\ \A c \in Caller : ReadInv(c) /\ RaceInv(c)

LEMMA InitInv == Init => Inv
<1> SUFFICES ASSUME Init PROVE Inv
  OBVIOUS
<1> USE MaxRetriesAssumption DEF Init
<1>1. TypeOK
  BY DEF TypeOK
<1>2. IsrWithinReplicas
  BY DEF IsrWithinReplicas
<1>3. \A c \in Caller : ReadInv(c) /\ RaceInv(c)
  BY DEF ReadInv, RaceInv
<1> QED
  BY <1>1, <1>2, <1>3 DEF Inv

\* A write of the transaction: what PutSucceeds and PutUnanswered share.
LEMMA WriteInv ==
    ASSUME Inv, NEW c \in Caller, pc[c] = "put", Unchanged(c), Write(c),
           NEW label \in {"ok", "error"}, Goto(c, label),
           UNCHANGED <<op, read, readRev, attempt>>
    PROVE  /\ record' = Apply(op[c], record)
           /\ Applicable(op[c], record)
           /\ Inv'
<1> USE MaxRetriesAssumption
<1>1. /\ record' = Apply(op[c], record)
      /\ Applicable(op[c], record)
      /\ rev' = rev + 1
      /\ rev \in Nat
      /\ op[c] \in Operation
      /\ record \in Record \cup {NoTopic}
  BY DEF Inv, ReadInv, Unchanged, Write, TypeOK
<1>2. record' \in Record
  BY <1>1, ApplyIsRecord
<1>3. record' # NoTopic
  BY <1>2, NoTopicIsNoRecord
<1>4. TypeOK'
  BY <1>1, <1>2 DEF Inv, TypeOK, Goto, Outcome
<1>5. IsrWithinReplicas'
  BY <1>1, <1>3, ApplyKeepsIsr DEF Inv, IsrWithinReplicas
<1>6. ASSUME NEW d \in Caller PROVE ReadInv(d)' /\ RaceInv(d)'
  <2>1. /\ ReadInv(d) /\ RaceInv(d)
        /\ pc' = [pc EXCEPT ![c] = label]
        /\ pc \in [Caller -> {"get", "put", "wait"} \cup Outcome]
        /\ readRev[d] \in Nat /\ attempt[d] \in Nat
    BY DEF Inv, TypeOK, Goto
  <2>2. ReadInv(d)'
    BY <1>1, <2>1 DEF ReadInv
  <2>3. RaceInv(d)'
    BY <1>1, <2>1 DEF RaceInv
  <2> QED
    BY <2>2, <2>3
<1> QED
  BY <1>1, <1>3, <1>4, <1>5, <1>6 DEF Inv

LEMMA StepInv == Inv /\ [Next]_vars => Inv'
<1> SUFFICES ASSUME Inv, [Next]_vars PROVE Inv'
  OBVIOUS
<1> USE MaxRetriesAssumption
<1>1. ASSUME NEW c \in Caller, Step(c) PROVE Inv'
  <2>0. /\ pc \in [Caller -> {"get", "put", "wait"} \cup Outcome]
        /\ rev \in Nat
        /\ readRev \in [Caller -> Nat]
        /\ read \in [Caller -> Record \cup {NoTopic}]
        /\ attempt \in [Caller -> 0..MaxRetries]
        /\ \A d \in Caller : ReadInv(d) /\ RaceInv(d)
    BY DEF Inv, TypeOK
  <2>1. CASE GetTopic(c)
    <3>1. TypeOK'
      BY <2>1 DEF Inv, TypeOK, GetTopic, Goto, Outcome
    <3>2. ASSUME NEW d \in Caller PROVE ReadInv(d)' /\ RaceInv(d)'
      <4>1. ReadInv(d)'
        BY <2>0, <2>1 DEF GetTopic, Goto, ReadInv
      <4>2. Applicable(op[c], record) /\ op[c].kind # "create" => rev > 0
        BY <2>0 DEF Applicable, Inv
      <4>3. RaceInv(d)'
        BY <2>0, <2>1, <4>2 DEF GetTopic, Goto, RaceInv
      <4> QED
        BY <4>1, <4>3
    <3> QED
      BY <2>1, <3>1, <3>2 DEF Inv, GetTopic, IsrWithinReplicas
  <2>2. CASE PutSucceeds(c)
    BY <2>2, WriteInv DEF PutSucceeds
  <2>3. CASE PutFails(c)
    <3>0. readRev[c] < rev /\ attempt[c] < MaxRetries
      BY <2>0, <2>3 DEF PutFails, Unchanged, ReadInv, RaceInv
    <3>1. TypeOK'
      BY <2>3, <3>0, <2>0 DEF Inv, TypeOK, PutFails, Goto, Outcome
    <3>2. ASSUME NEW d \in Caller PROVE ReadInv(d)' /\ RaceInv(d)'
      <4>1. ReadInv(d)'
        BY <2>0, <2>3 DEF PutFails, Goto, ReadInv
      <4>2. RaceInv(d)'
        BY <2>0, <2>3, <3>0 DEF PutFails, Goto, RaceInv
      <4> QED
        BY <4>1, <4>2
    <3> QED
      BY <2>3, <3>1, <3>2 DEF Inv, PutFails, IsrWithinReplicas
  <2>4. CASE Retry(c)
    <3>1. TypeOK'
      BY <2>4 DEF Inv, TypeOK, Retry, Goto, Outcome
    <3>2. ASSUME NEW d \in Caller PROVE ReadInv(d)' /\ RaceInv(d)'
      <4>1. ReadInv(d)'
        BY <2>0, <2>4 DEF Retry, Goto, ReadInv
      <4>2. RaceInv(d)'
        BY <2>0, <2>4 DEF Retry, Goto, RaceInv
      <4> QED
        BY <4>1, <4>2
    <3> QED
      BY <2>4, <3>1, <3>2 DEF Inv, Retry, IsrWithinReplicas
  <2>5. CASE CallFails(c)
    <3>1. TypeOK'
      BY <2>5 DEF Inv, TypeOK, CallFails, Goto, Outcome
    <3>2. ASSUME NEW d \in Caller PROVE ReadInv(d)' /\ RaceInv(d)'
      <4>1. ReadInv(d)'
        BY <2>0, <2>5 DEF CallFails, Goto, ReadInv
      <4>2. RaceInv(d)'
        BY <2>0, <2>5 DEF CallFails, Goto, RaceInv
      <4> QED
        BY <4>1, <4>2
    <3> QED
      BY <2>5, <3>1, <3>2 DEF Inv, CallFails, IsrWithinReplicas
  <2>6. CASE PutUnanswered(c)
    BY <2>6, WriteInv DEF PutUnanswered
  <2> QED
    BY <1>1, <2>1, <2>2, <2>3, <2>4, <2>5, <2>6 DEF Step
<1>2. CASE UNCHANGED vars
  BY <1>2 DEF vars, Inv, TypeOK, IsrWithinReplicas, ReadInv, RaceInv
<1> QED
  BY <1>1, <1>2 DEF Next

LEMMA Invariance == Spec => []Inv
<1>1. Init => Inv
  BY InitInv
<1>2. Inv /\ [Next]_vars => Inv'
  BY StepInv
<1> QED
  BY <1>1, <1>2, PTL DEF Spec

-----------------------------------------------------------------------------
\* TopicMetaStore: every variable keeps its shape, no call runs a round too many.
THEOREM MetadataTypes == Spec => []TypeOK
<1>1. Inv => TypeOK
  BY DEF Inv
<1> QED
  BY <1>1, Invariance, PTL

\* A stale MarkNodeInSync never resurrects a node RemoveNodeFromPartition
\* took out: the ISR is part of the replicas in every written record.
THEOREM IsrIsWithinReplicas == Spec => []IsrWithinReplicas
<1>1. Inv => IsrWithinReplicas
  BY DEF Inv
<1> QED
  BY <1>1, Invariance, PTL

\* mutateTopic gives up only after MaxRetries writes of other callers.
THEOREM ContentionIsReal == Spec => []GivesUpOnlyOvertaken
<1>1. Inv => GivesUpOnlyOvertaken
  BY DEF Inv, RaceInv, GivesUpOnlyOvertaken
<1> QED
  BY <1>1, Invariance, PTL

\* The abstract specification means the same operations.
LEMMA SameOperations ==
    /\ Atomic!Operation = Operation
    /\ \A o, rec : /\ Atomic!Applicable(o, rec) <=> Applicable(o, rec)
                   /\ Atomic!Apply(o, rec) = Apply(o, rec)
<1>1. Atomic!Operation = Operation
  BY DEF Atomic!Operation, Operation
<1>2. ASSUME NEW o, NEW rec
      PROVE  /\ Atomic!Applicable(o, rec) <=> Applicable(o, rec)
             /\ Atomic!Apply(o, rec) = Apply(o, rec)
  BY DEF Atomic!Applicable, Applicable, Atomic!Apply, Apply, Atomic!AddTo,
         AddTo, Atomic!MarkIn, MarkIn, Atomic!RemoveFrom, RemoveFrom
<1> QED
  BY <1>1, <1>2

\* mutateTopic and PutTopicCAS implement atomic operations on the record.
THEOREM CasIsAtomic == Spec => IsAtomic
<1>1. Init => Atomic!Init
  BY SameOperations DEF Init, Atomic!Init, outcome, Outcome
<1>2. Inv /\ [Next]_vars => [Atomic!Next]_Atomic!vars
  <2> SUFFICES ASSUME Inv, [Next]_vars PROVE [Atomic!Next]_Atomic!vars
    OBVIOUS
  <2>0. pc \in [Caller -> {"get", "put", "wait"} \cup Outcome]
    BY DEF Inv, TypeOK
  <2>1. ASSUME NEW c \in Caller, Step(c) PROVE [Atomic!Next]_Atomic!vars
    <3> USE <2>0
    <3>1. ASSUME NEW label \in {"get", "put", "wait"}, pc[c] \notin Outcome,
                 Goto(c, label)
          PROVE  outcome' = outcome
      BY <3>1 DEF outcome, Outcome, Goto
    <3>2. ASSUME NEW label \in Outcome, pc[c] \notin Outcome, Goto(c, label)
          PROVE  /\ outcome[c] = "pending"
                 /\ outcome' = [outcome EXCEPT ![c] = label]
      BY <3>2 DEF outcome, Outcome, Goto
    <3>3. CASE GetTopic(c)
      <4>1. CASE Applicable(op[c], record)
        <5>1. outcome' = outcome
          BY <3>3, <4>1, <3>1 DEF GetTopic, Outcome
        <5> QED
          BY <5>1, <3>3 DEF GetTopic, Atomic!vars
      <4>2. CASE ~Applicable(op[c], record)
        <5>1. /\ outcome[c] = "pending"
              /\ outcome' = [outcome EXCEPT ![c] = "refused"]
          BY <3>3, <4>2, <3>2 DEF GetTopic, Outcome
        <5>2. Atomic!Refuse(c)
          BY <5>1, <4>2, <3>3, SameOperations DEF GetTopic, Atomic!Refuse
        <5> QED
          BY <5>2 DEF Atomic!Next
      <4> QED
        BY <4>1, <4>2
    <3>4. CASE PutSucceeds(c)
      <4>1. /\ outcome[c] = "pending"
            /\ outcome' = [outcome EXCEPT ![c] = "ok"]
        BY <3>4, <3>2 DEF PutSucceeds, Outcome
      <4>2. /\ record' = Apply(op[c], record)
            /\ Applicable(op[c], record)
        BY <3>4, WriteInv DEF PutSucceeds
      <4>3. Atomic!Effect(c)
        BY <4>1, <4>2, <3>4, SameOperations DEF PutSucceeds, Atomic!Effect
      <4> QED
        BY <4>3 DEF Atomic!Next
    <3>5. CASE PutFails(c)
      <4>1. CASE op[c].kind = "create"
        <5>1. /\ outcome[c] = "pending"
              /\ outcome' = [outcome EXCEPT ![c] = "contention"]
          BY <3>5, <4>1, <3>2 DEF PutFails, Outcome
        <5>2. Atomic!GiveUp(c)
          BY <5>1, <3>5 DEF PutFails, Atomic!GiveUp
        <5> QED
          BY <5>2 DEF Atomic!Next
      <4>2. CASE op[c].kind # "create"
        <5>1. outcome' = outcome
          BY <3>5, <4>2, <3>1 DEF PutFails, Outcome
        <5> QED
          BY <5>1, <3>5 DEF PutFails, Atomic!vars
      <4> QED
        BY <4>1, <4>2
    <3>6. CASE Retry(c)
      <4>1. CASE attempt[c] = MaxRetries
        <5>1. /\ outcome[c] = "pending"
              /\ outcome' = [outcome EXCEPT ![c] = "contention"]
          BY <3>6, <4>1, <3>2 DEF Retry, Outcome
        <5>2. Atomic!GiveUp(c)
          BY <5>1, <3>6 DEF Retry, Atomic!GiveUp
        <5> QED
          BY <5>2 DEF Atomic!Next
      <4>2. CASE attempt[c] # MaxRetries
        <5>1. outcome' = outcome
          BY <3>6, <4>2, <3>1 DEF Retry, Outcome
        <5> QED
          BY <5>1, <3>6 DEF Retry, Atomic!vars
      <4> QED
        BY <4>1, <4>2
    <3>7. CASE CallFails(c)
      <4>1. /\ outcome[c] = "pending"
            /\ outcome' = [outcome EXCEPT ![c] = "error"]
        BY <3>7, <3>2 DEF CallFails, Outcome
      <4>2. Atomic!Fail(c)
        BY <4>1, <3>7 DEF CallFails, Atomic!Fail
      <4> QED
        BY <4>2 DEF Atomic!Next
    <3>8. CASE PutUnanswered(c)
      <4>1. /\ outcome[c] = "pending"
            /\ outcome' = [outcome EXCEPT ![c] = "error"]
        BY <3>8, <3>2 DEF PutUnanswered, Outcome
      <4>2. /\ record' = Apply(op[c], record)
            /\ Applicable(op[c], record)
        BY <3>8, WriteInv DEF PutUnanswered
      <4>3. Atomic!Fail(c)
        BY <4>1, <4>2, <3>8, SameOperations DEF PutUnanswered, Atomic!Fail
      <4> QED
        BY <4>3 DEF Atomic!Next
    <3> QED
      BY <2>1, <3>3, <3>4, <3>5, <3>6, <3>7, <3>8 DEF Step
  <2>2. CASE UNCHANGED vars
    BY <2>2 DEF vars, Atomic!vars, outcome
  <2> QED
    BY <2>1, <2>2 DEF Next
<1> QED
  BY <1>1, <1>2, Invariance, PTL DEF Spec, IsAtomic, Atomic!Spec

=============================================================================
