---------------------------- MODULE ClientProofs ----------------------------
(***************************************************************************)
(* Theorems about what reaches a client: the events of the bus, the        *)
(* records of a live consumer, the answers on a connection.                *)
(*                                                                         *)
(* EventBus and the promises to consumers and to clients are extended; the *)
(* states of PartitionStream and of Connections, which keep the promises,  *)
(* stand beside that of the bus, as instances of the two modules.          *)
(***************************************************************************)
EXTENDS EventBus, ConsumerPromise, AnswerPromise, SequenceTheorems, TLAPS

CONSTANTS ChannelSize, MaxAppends, MaxRollBacks
VARIABLES end, msg, out, written

\* The live consumers of a partition.
Live == INSTANCE PartitionStream

CONSTANTS Connections, Web, MaxRecords, MaxOpened, MaxTurns
VARIABLES phase, listening, records, conn, pool, buffer, web, peer, outcome, budget

\* The connections of a broker.
Tcp == INSTANCE Connections

-----------------------------------------------------------------------------
(* Sequences.                                                              *)

LEMMA PushProperties ==
    ASSUME NEW S, NEW s \in Seq(S), NEW e \in S
    PROVE  /\ Append(s, e) \in Seq(S)
           /\ Len(Append(s, e)) = Len(s) + 1
           /\ \A k \in 1..Len(s) : Append(s, e)[k] = s[k]
           /\ Append(s, e)[Len(s) + 1] = e
  OBVIOUS

LEMMA PopProperties ==
    ASSUME NEW S, NEW s \in Seq(S), s # <<>>
    PROVE  /\ Head(s) = s[1] /\ Head(s) \in S
           /\ Tail(s) \in Seq(S)
           /\ Len(s) > 0
           /\ Len(Tail(s)) = Len(s) - 1
           /\ \A k \in 1..(Len(s) - 1) : Tail(s)[k] = s[k + 1]
  OBVIOUS

\* One element at the end.
LEMMA PushOne ==
    ASSUME NEW S, NEW s \in Seq(S), NEW e \in S
    PROVE  s \o <<e>> = Append(s, e) /\ Append(s, e) \in Seq(S)
<1>1. /\ <<e>> \in Seq(S) /\ Len(<<e>>) = 1 /\ <<e>>[1] = e
      /\ Append(s, e) \in Seq(S) /\ Len(Append(s, e)) = Len(s) + 1
      /\ Len(s) \in Nat
      /\ \A k \in 1 .. Len(s) : Append(s, e)[k] = s[k]
      /\ Append(s, e)[Len(s) + 1] = e
  OBVIOUS
<1>2. /\ s \o <<e>> \in Seq(S) /\ Len(s \o <<e>>) = Len(s) + 1
      /\ \A k \in 1 .. Len(s) + 1 :
            (s \o <<e>>)[k] = IF k <= Len(s) THEN s[k] ELSE <<e>>[k - Len(s)]
  BY <1>1, ConcatProperties
<1>3. \A k \in 1 .. Len(s) + 1 : (s \o <<e>>)[k] = Append(s, e)[k]
  BY <1>1, <1>2
<1> QED
  BY <1>1, <1>2, <1>3, SeqEqual

\* A sequence begins what it is put before.
LEMMA FirstPart ==
    ASSUME NEW S, NEW s \in Seq(S), NEW t \in Seq(S)
    PROVE  /\ Len(s) \in Nat /\ Len(s \o t) >= Len(s) /\ Len(s \o t) \in Nat
           /\ \A i \in 1 .. Len(s) : (s \o t)[i] = s[i]
<1> DEFINE q == s \o t
           m == Len(s)
           n == Len(t)
<1>1. /\ m \in Nat /\ n \in Nat /\ Len(q) = m + n
      /\ \A i \in 1 .. m + n : q[i] = IF i <= m THEN s[i] ELSE t[i - m]
  BY ConcatProperties
<1> HIDE DEF q, m, n
<1>2. m \in Nat /\ Len(q) >= m /\ Len(q) \in Nat /\ \A i \in 1 .. m : q[i] = s[i]
  BY <1>1
<1> QED
  BY <1>2 DEF q, m

\* Handing an event over to the channel appends it to what the client gets.
LEMMA AppendAfter ==
    ASSUME NEW S, NEW s \in Seq(S), NEW t \in Seq(S), NEW e \in S
    PROVE  s \o Append(t, e) = Append(s \o t, e)
<1> DEFINE u == s \o Append(t, e)
           v == Append(s \o t, e)
<1>1. Append(t, e) \in Seq(S) /\ s \o t \in Seq(S)
  BY ConcatProperties, PushProperties
<1>2. u \in Seq(S) /\ v \in Seq(S) /\ Len(u) = Len(v)
  BY <1>1, ConcatProperties, PushProperties
<1>3. \A k \in 1..Len(u) : u[k] = v[k]
  BY <1>1, ConcatProperties, PushProperties
<1> QED
  BY <1>2, <1>3, SeqEqual

\* Reading from the channel does not change it.
LEMMA ReadMoves ==
    ASSUME NEW S, NEW s \in Seq(S), NEW t \in Seq(S), t # <<>>
    PROVE  Append(s, Head(t)) \o Tail(t) = s \o t
<1> DEFINE u == Append(s, Head(t)) \o Tail(t)
           v == s \o t
<1>1. Append(s, Head(t)) \in Seq(S)
  BY PushProperties, PopProperties
<1>2. u \in Seq(S) /\ v \in Seq(S) /\ Len(u) = Len(v)
  BY <1>1, ConcatProperties, PushProperties, PopProperties
<1>3. \A k \in 1..Len(u) : u[k] = v[k]
  BY <1>1, <1>2, ConcatProperties, PushProperties, PopProperties
<1> QED
  BY <1>2, <1>3, SeqEqual

-----------------------------------------------------------------------------
(* The inductive invariant.                                                *)

\* A subscription that is not registered yet has no past on the bus.
CallInv ==
    \A i \in Id : call[i] \in {"new", "asking"} =>
                      i \notin subscribers \cup closed \cup missed

\* ingress holds the end of what was accepted.
IngressInv ==
    /\ Len(ingress) <= Len(accepted)
    /\ \A k \in 1..Len(ingress) :
         ingress[k] = accepted[(Len(accepted) - Len(ingress)) + k]

Inv == TypeOK /\ CallInv /\ IngressInv /\ HoleIsSignalled

LEMMA InitInv == Init => Inv
<1> SUFFICES ASSUME Init PROVE Inv
  OBVIOUS
<1> USE CapacityAssumption DEF Init
<1>1. <<>> \in Seq(Event) /\ Len(<<>>) = 0
  BY EmptySeq
<1>2. TypeOK
  <2>1. ASSUME NEW i \in Id
        PROVE  /\ queue[i] = <<>> /\ taken[i] = <<>>
               /\ call[i] = "new"
    OBVIOUS
  <2>2. queue \in [Id -> Seq(Event)] /\ \A i \in Id : Len(queue[i]) <= QueueCap
    BY <1>1, <2>1
  <2>3. taken \in [Id -> Seq(Event)]
    BY <1>1, <2>1
  <2>4. /\ call \in [Id -> {"new", "asking", "entered", "open", "leaving", "over"}]
        /\ published \in 0..MaxEvents
        /\ Len(ingress) <= IngressCap
    BY <1>1
  <2> HIDE DEF Init
  <2>5. /\ ingress = <<>> /\ accepted = <<>> /\ signalling = {} /\ missed = {}
        /\ overflow = FALSE /\ stopping = FALSE /\ stopped = FALSE
        /\ subscribers = {} /\ closed = {} /\ cancelled = {}
    BY DEF Init
  <2> QED
    BY <1>1, <2>4, <2>5, <2>2, <2>3 DEF TypeOK
<1>3. CallInv /\ HoleIsSignalled
  BY DEF CallInv, HoleIsSignalled
<1>4. IngressInv
  BY <1>1 DEF IngressInv
<1> QED
  BY <1>2, <1>3, <1>4 DEF Inv

LEMMA NextInv == Inv /\ [Next]_vars => Inv'
<1> SUFFICES ASSUME Inv, [Next]_vars PROVE Inv'
  OBVIOUS
<1> USE CapacityAssumption
<1>t. TypeOK
  BY DEF Inv
<1>1. ASSUME NEW p \in Publisher, Publish(p) PROVE Inv'
  <2>1. CASE PublishAccepted
    <3>1. published + 1 \in Event /\ published' = published + 1
      BY <1>1, <1>t DEF Publish, TypeOK, Event
    <3>2. /\ ingress' \in Seq(Event) /\ accepted' \in Seq(Event)
          /\ Len(ingress') = Len(ingress) + 1
          /\ Len(accepted') = Len(accepted) + 1
      BY <2>1, <3>1, <1>t, PushProperties DEF PublishAccepted, TypeOK
    <3>3. TypeOK'
      BY <1>1, <2>1, <3>1, <3>2, <1>t
         DEF Publish, PublishAccepted, TypeOK, callVars, Event
    <3>4. IngressInv'
      <4>1. Len(ingress') <= Len(accepted')
        BY <3>2, <1>t DEF Inv, IngressInv, TypeOK
      <4>2. ASSUME NEW k \in 1..Len(ingress')
            PROVE  ingress'[k] = accepted'[(Len(accepted') - Len(ingress')) + k]
        <5> DEFINE base == Len(accepted) - Len(ingress)
        <5>1. /\ ingress \in Seq(Event) /\ Len(ingress) \in Nat
              /\ accepted \in Seq(Event) /\ Len(accepted) \in Nat
              /\ Len(ingress) <= Len(accepted)
          BY <1>t DEF Inv, IngressInv, TypeOK
        <5>2. Len(accepted') - Len(ingress') = base
          BY <3>2, <5>1
        <5>3. CASE k <= Len(ingress)
          <6>1. k \in 1..Len(ingress) /\ base + k \in 1..Len(accepted)
            BY <5>1, <5>3, <3>2
          <6>2. ingress'[k] = ingress[k] /\ accepted'[base + k] = accepted[base + k]
            BY <6>1, <5>1, <2>1, <3>1, PushProperties DEF PublishAccepted
          <6>3. ingress[k] = accepted[base + k]
            BY <6>1 DEF Inv, IngressInv
          <6> QED
            BY <6>2, <6>3, <5>2
        <5>4. CASE k > Len(ingress)
          <6>1. k = Len(ingress) + 1 /\ base + k = Len(accepted) + 1
            BY <5>1, <5>4, <3>2, SMTT(30)
          <6>2. /\ ingress'[Len(ingress) + 1] = published + 1
                /\ accepted'[Len(accepted) + 1] = published + 1
            BY <5>1, <2>1, <3>1, PushProperties DEF PublishAccepted
          <6> QED
            BY <6>1, <6>2, <5>2
        <5> QED
          BY <5>1, <5>3, <5>4, <3>2
      <4> QED
        BY <4>1, <4>2 DEF IngressInv
    <3>5. (CallInv /\ HoleIsSignalled)'
      BY <1>1, <2>1 DEF Publish, PublishAccepted, callVars, Inv, CallInv,
         HoleIsSignalled
    <3> QED
      BY <3>3, <3>4, <3>5 DEF Inv
  <2>2. CASE PublishRefused(p)
    <3>1. TypeOK'
      BY <1>1, <2>2, <1>t DEF Publish, PublishRefused, TypeOK, callVars
    <3>2. IngressInv'
      BY <1>1, <2>2 DEF PublishRefused, Inv, IngressInv
    <3>3. (CallInv /\ HoleIsSignalled)'
      BY <1>1, <2>2, <1>t DEF Publish, PublishRefused, callVars, Inv, CallInv,
         HoleIsSignalled, TypeOK
    <3> QED
      BY <3>1, <3>2, <3>3 DEF Inv
  <2> QED
    BY <1>1, <2>1, <2>2 DEF Publish
<1>2. ASSUME NEW p \in Publisher, Signal(p) PROVE Inv'
  BY <1>2, <1>t DEF Signal, Inv, TypeOK, CallInv, IngressInv, HoleIsSignalled,
     callVars
<1>3. CASE Dispatch
  <2>1. /\ ingress # <<>>
        /\ ingress' = Tail(ingress)
        /\ queue' = [i \in Id |-> IF i \in subscribers \ Slow
                                  THEN Append(queue[i], Head(ingress))
                                  ELSE queue[i]]
        /\ Close(Slow)
        /\ UNCHANGED <<overflow, stopping, stopped, pubVars, callVars, taken,
                       missed>>
    BY <1>3 DEF Dispatch, HandOut
  <2>2. /\ Head(ingress) \in Event
        /\ ingress' \in Seq(Event)
        /\ Len(ingress) > 0
        /\ Len(ingress') = Len(ingress) - 1
        /\ \A k \in 1..(Len(ingress) - 1) : ingress'[k] = ingress[k + 1]
    BY <2>1, <1>t, PopProperties DEF TypeOK
  <2>3. ASSUME NEW i \in Id
        PROVE  queue'[i] \in Seq(Event) /\ Len(queue'[i]) <= QueueCap
    <3>1. queue[i] \in Seq(Event) /\ Len(queue[i]) <= QueueCap
      BY <1>t DEF TypeOK
    <3>2. CASE i \in subscribers \ Slow
      <4>1. queue'[i] = Append(queue[i], Head(ingress))
        BY <2>1, <3>2
      <4>2. Len(queue[i]) # QueueCap
        BY <3>2 DEF Slow
      <4> QED
        BY <4>1, <4>2, <3>1, <2>2, PushProperties
    <3>3. CASE i \notin subscribers \ Slow
      BY <2>1, <3>1, <3>3
    <3> QED
      BY <3>2, <3>3
  <2>4. queue' \in [Id -> Seq(Event)]
    BY <2>1, <2>3
  <2>5. TypeOK'
    BY <2>1, <2>2, <2>3, <2>4, <1>t DEF TypeOK, Close, pubVars, callVars
  <2>6. IngressInv'
    BY <2>1, <2>2, <1>t DEF Inv, TypeOK, IngressInv, pubVars
  <2>7. (CallInv /\ HoleIsSignalled)'
    BY <2>1 DEF Inv, CallInv, HoleIsSignalled, Close, pubVars, callVars
  <2> QED
    BY <2>5, <2>6, <2>7 DEF Inv
<1>4. CASE HandleOverflow
  BY <1>4, <1>t DEF HandleOverflow, Close, Inv, TypeOK, CallInv, IngressInv,
     HoleIsSignalled, pubVars, callVars
<1>5. CASE Stop
  BY <1>5, <1>t DEF Stop, Close, Inv, TypeOK, CallInv, IngressInv,
     HoleIsSignalled, pubVars, callVars
<1>6. CASE Cancel
  BY <1>6, <1>t DEF Cancel, Inv, TypeOK, CallInv, IngressInv, HoleIsSignalled,
     pubVars, callVars
<1>7. ASSUME NEW i \in Id, Register(i) PROVE Inv'
  BY <1>7, <1>t DEF Register, Goes, Inv, TypeOK, CallInv, IngressInv,
     HoleIsSignalled, pubVars
<1>8. ASSUME NEW i \in Id, Unsubscribe(i) PROVE Inv'
  BY <1>8, <1>t DEF Unsubscribe, Goes, Close, Inv, TypeOK, CallInv, IngressInv,
     HoleIsSignalled, pubVars
<1>9. ASSUME NEW i \in Id,
             \/ Subscribe(i) \/ Subscribed(i) \/ GivesUp(i)
             \/ EndsByClose(i) \/ EndsByCancel(i) \/ UnsubscribeCancelled(i)
      PROVE  Inv'
  BY <1>9, <1>t DEF Subscribe, Subscribed, GivesUp, EndsByClose, EndsByCancel,
     UnsubscribeCancelled, Goes, NoCallEffect, Inv, TypeOK, CallInv, IngressInv,
     HoleIsSignalled, busVars, pubVars
<1>10. ASSUME NEW i \in Id, CancelCall(i) PROVE Inv'
  BY <1>10, <1>t DEF CancelCall, Inv, TypeOK, CallInv, IngressInv,
     HoleIsSignalled, busVars, pubVars
<1>11. ASSUME NEW i \in Id, Receive(i) PROVE Inv'
  <2>1. /\ queue[i] # <<>>
        /\ queue' = [queue EXCEPT ![i] = Tail(queue[i])]
        /\ taken' = [taken EXCEPT ![i] = Append(taken[i], Head(queue[i]))]
        /\ UNCHANGED <<busVars, pubVars, callVars, missed>>
    BY <1>11 DEF Receive
  <2>2. /\ queue[i] \in Seq(Event) /\ Len(queue[i]) <= QueueCap
        /\ taken[i] \in Seq(Event)
    BY <1>t DEF TypeOK
  <2>3. /\ Tail(queue[i]) \in Seq(Event) /\ Len(Tail(queue[i])) <= QueueCap
        /\ Append(taken[i], Head(queue[i])) \in Seq(Event)
    BY <2>1, <2>2, PopProperties, PushProperties
  <2>4. TypeOK'
    BY <2>1, <2>3, <1>t DEF TypeOK, busVars, pubVars, callVars
  <2> QED
    BY <2>1, <2>4 DEF Inv, CallInv, IngressInv, HoleIsSignalled, busVars,
       pubVars, callVars
<1>12. CASE UNCHANGED vars
  BY <1>12 DEF vars, busVars, pubVars, callVars, Inv, TypeOK, CallInv,
     IngressInv, HoleIsSignalled, Slow
<1> QED
  BY <1>1, <1>2, <1>3, <1>4, <1>5, <1>6, <1>7, <1>8, <1>9, <1>10, <1>11, <1>12
     DEF Next, Dispatcher, Call, Reads

\* In every state the channels hold ends of what was accepted, nobody is on the
\* bus before the dispatcher has registered it, and no loss goes unsignalled.
THEOREM Invariance == Spec => []Inv
<1> QED
  BY InitInv, NextInv, PTL DEF Spec

\* Every subscription that misses an event is closed, or the dispatcher still
\* has a signal to take, or a publisher one to give: no order of refusals,
\* signals and closings loses one.
THEOREM HolesAreSignalled == Spec => []HoleIsSignalled
<1>1. Inv => HoleIsSignalled
  BY DEF Inv
<1> QED
  BY <1>1, Invariance, PTL

-----------------------------------------------------------------------------
(* The refinement.                                                         *)

\* What a subscription has been given: read, or waiting in its channel.
Given == [i \in Id |-> taken[i] \o queue[i]]

\* The bus implements the feed: while a subscription is registered it is given
\* each event that is dispatched, once and in the order of Publish, and
\* nothing after it is closed, whatever the speed of the clients.
THEOREM ImplementsFeed == Spec => IsFeed
<1>1. Init => Feed!Init
  BY ConcatEmptySeq DEF Init, Feed!Init
<1>2. Inv /\ [Next]_vars => [Feed!Next]_Feed!vars
  <2> SUFFICES ASSUME Inv, [Next]_vars PROVE [Feed!Next]_Feed!vars
    OBVIOUS
  <2>t. TypeOK
    BY DEF Inv
  <2>a. ASSUME UNCHANGED <<taken, queue>> PROVE UNCHANGED Given
    BY <2>a DEF Given
  <2>b. ASSUME UNCHANGED <<ingress, accepted, taken, queue, subscribers, closed>>
        PROVE  UNCHANGED Feed!vars
    BY <2>b DEF Feed!vars
  <2>c. ASSUME NEW S \in SUBSET subscribers, Close(S),
               UNCHANGED <<ingress, accepted, taken, queue>>
        PROVE  [Feed!Next]_Feed!vars
    <3>1. CASE S = {}
      BY <3>1, <2>b, <2>c DEF Close
    <3>2. CASE S # {}
      <4>1. Feed!End(S)
        BY <2>c DEF Close, Feed!End
      <4>2. Feed!EndSome
        BY <4>1, <3>2, <2>c DEF Feed!EndSome
      <4> QED
        BY <4>2 DEF Feed!Next
    <3> QED
      BY <3>1, <3>2
  <2>1. ASSUME NEW p \in Publisher, Publish(p) PROVE [Feed!Next]_Feed!vars
    <3>1. CASE PublishAccepted
      <4>1. published + 1 \in Event
        BY <2>1, <2>t, CapacityAssumption DEF Publish, TypeOK, Event
      <4>2. Len(accepted') - Len(ingress') = Len(accepted) - Len(ingress)
        BY <3>1, <4>1, <2>t, PushProperties DEF PublishAccepted, TypeOK
      <4>3. Feed!Accept
        BY <2>1, <3>1, <4>1, <4>2 DEF Publish, PublishAccepted, Feed!Accept
      <4> QED
        BY <4>3 DEF Feed!Next
    <3>2. CASE PublishRefused(p)
      BY <2>1, <3>2, <2>b DEF Publish, PublishRefused
    <3> QED
      BY <2>1, <3>1, <3>2 DEF Publish
  <2>2. ASSUME NEW p \in Publisher, Signal(p) PROVE [Feed!Next]_Feed!vars
    BY <2>2, <2>b DEF Signal
  <2>3. CASE Dispatch
    <3>1. /\ ingress # <<>>
          /\ ingress' = Tail(ingress)
          /\ queue' = [i \in Id |-> IF i \in subscribers \ Slow
                                    THEN Append(queue[i], Head(ingress))
                                    ELSE queue[i]]
          /\ Close(Slow)
          /\ UNCHANGED <<accepted, taken>>
      BY <2>3 DEF Dispatch, HandOut, pubVars
    <3>2. Slow \in SUBSET subscribers
      BY DEF Slow
    <3> DEFINE at == Len(accepted) - Len(ingress)
    <3>3. /\ at < Len(accepted)
          /\ Len(accepted') - Len(ingress') = at + 1
          /\ Head(ingress) = accepted[at + 1]
          /\ Head(ingress) \in Event
      <4>1. /\ ingress \in Seq(Event) /\ Len(ingress) \in Nat
            /\ accepted \in Seq(Event) /\ Len(accepted) \in Nat
            /\ Len(ingress) <= Len(accepted)
        BY <2>t DEF Inv, IngressInv, TypeOK
      <4>2. /\ Len(ingress) > 0 /\ Len(ingress') = Len(ingress) - 1
            /\ Head(ingress) = ingress[1] /\ Head(ingress) \in Event
        BY <3>1, <4>1, PopProperties
      <4>3. ingress[1] = accepted[at + 1]
        BY <4>1, <4>2 DEF Inv, IngressInv
      <4> QED
        BY <3>1, <4>1, <4>2, <4>3
    <3>4. Given' = [i \in Id |-> IF i \in subscribers \ Slow
                                 THEN Append(Given[i], accepted[at + 1])
                                 ELSE Given[i]]
      <4>1. ASSUME NEW i \in Id
            PROVE  Given'[i] = IF i \in subscribers \ Slow
                               THEN Append(Given[i], accepted[at + 1])
                               ELSE Given[i]
        <5>1. taken[i] \in Seq(Event) /\ queue[i] \in Seq(Event)
          BY <2>t DEF TypeOK
        <5>2. Given'[i] = taken[i] \o queue'[i] /\ Given[i] = taken[i] \o queue[i]
          BY <3>1 DEF Given
        <5>3. CASE i \in subscribers \ Slow
          <6>1. queue'[i] = Append(queue[i], accepted[at + 1])
            BY <3>1, <3>3, <5>3
          <6>2. accepted[at + 1] \in Event
            BY <3>3
          <6>3. \A e \in Event : taken[i] \o Append(queue[i], e)
                                      = Append(taken[i] \o queue[i], e)
            <7>1. \A s, t \in Seq(Event) : \A e \in Event :
                     s \o Append(t, e) = Append(s \o t, e)
              BY AppendAfter
            <7> QED
              BY <5>1, <7>1
          <6> HIDE DEF at
          <6>4. Given'[i] = Append(Given[i], accepted[at + 1])
            BY <5>2, <6>1, <6>2, <6>3
          <6> QED
            BY <5>3, <6>4
        <5>4. CASE i \notin subscribers \ Slow
          BY <5>2, <5>4, <3>1
        <5> QED
          BY <5>3, <5>4
      <4> QED
        BY <4>1 DEF Given
    <3>5. Feed!End(Slow)
      BY <3>1, <3>2 DEF Close, Feed!End
    <3>6. Feed!HandOut
      <4> HIDE DEF at
      <4>1. /\ Slow \in SUBSET subscribers
            /\ at < Len(accepted)
            /\ Len(accepted') - Len(ingress') = at + 1
            /\ Given' = [i \in Id |-> IF i \in subscribers \ Slow
                                      THEN Append(Given[i], accepted[at + 1])
                                      ELSE Given[i]]
            /\ Feed!End(Slow)
            /\ accepted' = accepted
        BY <3>1, <3>2, <3>3, <3>4, <3>5
      <4> QED
        BY <4>1 DEF Feed!HandOut, Given, at
    <3> QED
      BY <3>6 DEF Feed!Next
  <2>4. CASE HandleOverflow
    BY <2>4, <2>c DEF HandleOverflow, pubVars
  <2>5. CASE Stop
    BY <2>5, <2>c DEF Stop, pubVars
  <2>6. CASE Cancel
    BY <2>6, <2>b DEF Cancel, pubVars
  <2>7. ASSUME NEW i \in Id, Register(i) PROVE [Feed!Next]_Feed!vars
    <3>1. i \notin subscribers \cup closed
      BY <2>7 DEF Register, Goes, Inv, CallInv
    <3>2. Feed!Join(i)
      BY <2>7, <3>1 DEF Register, Feed!Join, pubVars
    <3> QED
      BY <3>2 DEF Feed!Next
  <2>8. ASSUME NEW i \in Id, Unsubscribe(i) PROVE [Feed!Next]_Feed!vars
    <3>1. Close({i} \cap subscribers)
      BY <2>8 DEF Unsubscribe, Close
    <3> QED
      BY <3>1, <2>8, <2>c DEF Unsubscribe, pubVars
  <2>9. ASSUME NEW i \in Id,
               \/ Subscribe(i) \/ Subscribed(i) \/ GivesUp(i) \/ CancelCall(i)
               \/ EndsByClose(i) \/ EndsByCancel(i) \/ UnsubscribeCancelled(i)
        PROVE  [Feed!Next]_Feed!vars
    BY <2>9, <2>b DEF Subscribe, Subscribed, GivesUp, CancelCall, EndsByClose,
       EndsByCancel, UnsubscribeCancelled, NoCallEffect, busVars, pubVars
  <2>10. ASSUME NEW i \in Id, Receive(i) PROVE [Feed!Next]_Feed!vars
    <3>1. /\ queue[i] # <<>>
          /\ queue' = [queue EXCEPT ![i] = Tail(queue[i])]
          /\ taken' = [taken EXCEPT ![i] = Append(taken[i], Head(queue[i]))]
          /\ UNCHANGED <<ingress, accepted, subscribers, closed>>
      BY <2>10 DEF Receive, busVars, pubVars
    <3>2. ASSUME NEW j \in Id PROVE taken'[j] \o queue'[j] = taken[j] \o queue[j]
      <4>1. taken[j] \in Seq(Event) /\ queue[j] \in Seq(Event)
        BY <2>t DEF TypeOK
      <4>2. CASE j = i
        <5>1. taken'[j] = Append(taken[j], Head(queue[j])) /\ queue'[j] = Tail(queue[j])
          BY <3>1, <4>2, <2>t DEF TypeOK
        <5> QED
          BY <5>1, <4>1, <4>2, <3>1, ReadMoves, ZenonT(30)
      <4>3. CASE j # i
        BY <3>1, <4>3, <2>t DEF TypeOK
      <4> QED
        BY <4>2, <4>3
    <3>3. UNCHANGED Given
      BY <3>2 DEF Given
    <3> QED
      BY <3>1, <3>3 DEF Feed!vars, Given
  <2>11. CASE UNCHANGED vars
    BY <2>11, <2>b DEF vars, busVars, pubVars
  <2> QED
    BY <2>1, <2>2, <2>3, <2>4, <2>5, <2>6, <2>7, <2>8, <2>9, <2>10, <2>11
       DEF Next, Dispatcher, Call, Reads
<1> QED
  BY <1>1, <1>2, Invariance, PTL DEF Spec, IsFeed, Feed!Spec

-----------------------------------------------------------------------------
(* Live consumers.                                                         *)

Rec == [off : Nat, val : Nat]

\* The record is the one of the log, or was rolled back.
Kept(r, lg, gone) ==
    (r.off < Len(lg) /\ r.val = lg[r.off + 1]) \/ r.val \in gone
AllKept(q, lg, gone) == \A i \in 1 .. Len(q) : Kept(q[i], lg, gone)

\* Records in order, with nothing between them but what retention has deleted.
Chain(q, base) ==
    \A i \in 2 .. Len(q) :
        /\ q[i - 1].off < q[i].off
        /\ \A o \in (q[i - 1].off + 1) .. (q[i].off - 1) : o < base

\* From the last record to an offset there is nothing else either.
Reaches(q, c, base) ==
    Len(q) > 0 => /\ q[Len(q)].off < c
                  /\ \A o \in (q[Len(q)].off + 1) .. (c - 1) : o < base

\* Records that follow a log up to an offset.
FollowsLog(q, c, lg, base, gone) ==
    /\ q \in Seq(Rec)
    /\ AllKept(q, lg, gone)
    /\ Chain(q, base)
    /\ Reaches(q, c, base)

\* No record follows every log.
LEMMA NothingFollows ==
    ASSUME NEW c, NEW lg, NEW base, NEW gone
    PROVE  FollowsLog(<<>>, c, lg, base, gone)
BY DEF FollowsLog, AllKept, Chain, Reaches

\* The record at the offset comes next.
LEMMA NextFollows ==
    ASSUME NEW q, NEW c \in Nat, NEW lg, NEW base \in Nat, NEW gone,
           FollowsLog(q, c, lg, base, gone),
           NEW r \in Rec, r.off = c, Kept(r, lg, gone)
    PROVE  FollowsLog(Append(q, r), c + 1, lg, base, gone)
<1> DEFINE p == Append(q, r)
           n == Len(q)
<1>1. /\ q \in Seq(Rec) /\ AllKept(q, lg, gone) /\ Chain(q, base) /\ Reaches(q, c, base)
  BY DEF FollowsLog
<1>2. /\ p \in Seq(Rec) /\ n \in Nat /\ Len(p) = n + 1 /\ p[n + 1] = r
      /\ \A i \in 1 .. n : p[i] = q[i] /\ q[i] \in Rec
  BY <1>1, PushProperties
<1> HIDE DEF p, n
<1>3. AllKept(p, lg, gone)
  <2> SUFFICES ASSUME NEW i \in 1 .. n + 1 PROVE Kept(p[i], lg, gone)
    BY <1>2 DEF AllKept
  <2>1. CASE i = n + 1
    BY <1>2, <2>1
  <2>2. CASE i \in 1 .. n
    BY <1>1, <1>2, <2>2 DEF AllKept, n
  <2> QED
    BY <1>2, <2>1, <2>2
<1>4. Chain(p, base)
  <2> SUFFICES ASSUME NEW i \in 2 .. n + 1
               PROVE  /\ p[i - 1].off < p[i].off
                      /\ \A o \in (p[i - 1].off + 1) .. (p[i].off - 1) : o < base
    BY <1>2 DEF Chain
  <2>1. CASE i = n + 1
    <3>1. n \in 1 .. n /\ i - 1 = n /\ n > 0
      BY <1>2, <2>1
    <3>2. p[i] = r /\ p[i - 1] = q[n]
      BY <1>2, <2>1, <3>1
    <3> QED
      BY <1>1, <3>1, <3>2 DEF Reaches, n
  <2>2. CASE i \in 2 .. n
    <3>1. i \in 1 .. n /\ i - 1 \in 1 .. n
      BY <1>2, <2>2
    <3>2. p[i] = q[i] /\ p[i - 1] = q[i - 1]
      BY <1>2, <3>1
    <3> QED
      BY <1>1, <2>2, <3>2 DEF Chain, n
  <2> QED
    BY <1>2, <2>1, <2>2
<1>5. Reaches(p, c + 1, base)
  BY <1>2 DEF Reaches
<1> QED
  BY <1>2, <1>3, <1>4, <1>5 DEF FollowsLog, p

\* Retention may delete more.
LEMMA DeletedFollows ==
    ASSUME NEW q, NEW c \in Nat, NEW lg, NEW base \in Nat, NEW gone,
           FollowsLog(q, c, lg, base, gone), NEW later \in Nat, base <= later
    PROVE  FollowsLog(q, c, lg, later, gone)
<1>1. q \in Seq(Rec) /\ \A i \in 1 .. Len(q) : q[i].off \in Nat
  <2>1. q \in Seq(Rec)
    BY DEF FollowsLog
  <2>2. \A i \in 1 .. Len(q) : q[i] \in Rec
    BY <2>1
  <2> QED
    BY <2>1, <2>2 DEF Rec
<1>2. Chain(q, later)
  BY <1>1 DEF FollowsLog, Chain
<1>3. Reaches(q, c, later)
  BY <1>1 DEF FollowsLog, Reaches
<1> QED
  BY <1>2, <1>3 DEF FollowsLog

\* What retention has deleted can be skipped.
LEMMA SkippedFollows ==
    ASSUME NEW q, NEW c \in Nat, NEW lg, NEW base \in Nat, NEW gone,
           FollowsLog(q, c, lg, base, gone), c < base
    PROVE  FollowsLog(q, base, lg, base, gone)
<1>1. q \in Seq(Rec) /\ \A i \in 1 .. Len(q) : q[i].off \in Nat
  <2>1. q \in Seq(Rec)
    BY DEF FollowsLog
  <2>2. \A i \in 1 .. Len(q) : q[i] \in Rec
    BY <2>1
  <2> QED
    BY <2>1, <2>2 DEF Rec
<1>2. Reaches(q, base, base)
  BY <1>1 DEF FollowsLog, Reaches
<1> QED
  BY <1>2 DEF FollowsLog

\* The log grows.
LEMMA GrownKeeps ==
    ASSUME NEW r \in Rec, NEW lg \in Seq(Nat), NEW v \in Nat, NEW gone, Kept(r, lg, gone)
    PROVE  Kept(r, Append(lg, v), gone)
BY DEF Kept, Rec

\* A log without its last record.
LEMMA FrontFacts ==
    ASSUME NEW lg \in Seq(Nat), lg # <<>>
    PROVE  /\ Live!Front(lg) \in Seq(Nat)
           /\ Len(Live!Front(lg)) = Len(lg) - 1
           /\ \A i \in 1 .. Len(lg) - 1 : Live!Front(lg)[i] = lg[i]
<1> DEFINE n == Len(lg) - 1
<1>1. n \in Nat /\ \A i \in 1 .. n : lg[i] \in Nat
  OBVIOUS
<1> HIDE DEF n
<1>2. /\ SubSeq(lg, 1, n) \in Seq(Nat)
      /\ Len(SubSeq(lg, 1, n)) = (IF 1 <= n THEN n - 1 + 1 ELSE 0)
      /\ \A i \in 1 .. n - 1 + 1 : SubSeq(lg, 1, n)[i] = lg[1 + i - 1]
  BY <1>1, SubSeqProperties
<1>3. /\ Len(SubSeq(lg, 1, n)) = n
      /\ \A i \in 1 .. n : SubSeq(lg, 1, n)[i] = lg[i]
  BY <1>1, <1>2
<1>4. Live!Front(lg) = SubSeq(lg, 1, n)
  BY DEF Live!Front, n
<1> QED
  BY <1>2, <1>3, <1>4 DEF n

\* Its last record is rolled back.
LEMMA RolledBackKeeps ==
    ASSUME NEW r \in Rec, NEW lg \in Seq(Nat), lg # <<>>, NEW gone, Kept(r, lg, gone)
    PROVE  Kept(r, Live!Front(lg), gone \cup {Live!Last(lg)})
<1>1. Len(lg) \in Nat \ {0} /\ r.off \in Nat
  BY DEF Rec
<1>2. /\ Len(Live!Front(lg)) = Len(lg) - 1
      /\ \A i \in 1 .. Len(lg) - 1 : Live!Front(lg)[i] = lg[i]
      /\ Live!Last(lg) = lg[Len(lg)]
  BY FrontFacts DEF Live!Last
<1>3. CASE r.val \in gone
  BY <1>3 DEF Kept
<1>4. CASE r.off < Len(lg) - 1 /\ r.val = lg[r.off + 1]
  <2>1. r.off + 1 \in 1 .. Len(lg) - 1
    BY <1>1, <1>4
  <2> QED
    BY <1>2, <1>4, <2>1 DEF Kept
<1>5. CASE r.off = Len(lg) - 1 /\ r.val = lg[r.off + 1]
  BY <1>1, <1>2, <1>5 DEF Kept
<1> QED
  BY <1>1, <1>3, <1>4, <1>5 DEF Kept

\* What the log and retention do to it leaves records that follow it.
LEMMA ChangeFollows ==
    ASSUME NEW q, NEW c \in Nat, NEW lg, NEW base \in Nat, NEW gone,
           FollowsLog(q, c, lg, base, gone), NEW later \in Nat, base <= later,
           NEW lg2, NEW gone2, \A r \in Rec : Kept(r, lg, gone) => Kept(r, lg2, gone2)
    PROVE  FollowsLog(q, c, lg2, later, gone2)
<1>1. FollowsLog(q, c, lg, later, gone)
  BY DeletedFollows
<1>2. q \in Seq(Rec) /\ AllKept(q, lg, gone)
  BY <1>1 DEF FollowsLog
<1>3. \A i \in 1 .. Len(q) : q[i] \in Rec
  BY <1>2
<1>4. AllKept(q, lg2, gone2)
  BY <1>2, <1>3 DEF AllKept
<1> QED
  BY <1>1, <1>4 DEF FollowsLog

-----------------------------------------------------------------------------
Label == {"idle", "start", "refused", "history", "check", "look", "asleep", "send",
          "ended"}
NotYet == {"idle", "start", "refused", "history"}

LogOk ==
    /\ log \in Seq(Nat) /\ written \in Nat
    /\ baseOffset \in Nat /\ baseOffset <= Len(log)

LiveTypes ==
    /\ pc \in [Stream -> Label]
    /\ cur \in [Stream -> Nat] /\ end \in [Stream -> Nat]
    /\ got \in [Stream -> Seq(Rec)] /\ out \in [Stream -> Seq(Rec)]
    /\ msg \in [Stream -> Seq(Rec)]

\* A record that is about to be sent.
Picked(m, c, lg, gone) == \E r \in Rec : m = <<r>> /\ r.off = c /\ Kept(r, lg, gone)

\* What a consumer has been sent, and what waits in its channel, follows the
\* log up to its cursor; the record it is about to be sent is the one there.
Follower(s) ==
    /\ FollowsLog(got[s] \o out[s], cur[s], log, baseOffset, rolledBack)
    /\ pc[s] \in NotYet => got[s] = <<>> /\ out[s] = <<>>
    /\ pc[s] = "send" => Picked(msg[s], cur[s], log, rolledBack)

LiveInv == LogOk /\ LiveTypes /\ \A s \in Stream : Follower(s)

\* Steps of the log, and what wakes the streams.
LEMMA LogChanges ==
    ASSUME LiveInv, LogOk', baseOffset <= baseOffset',
           \A r \in Rec : Kept(r, log, rolledBack) => Kept(r, log', rolledBack'),
           pc' = pc \/ pc' = Live!Broadcast(pc),
           UNCHANGED <<cur, end, msg, out, got>>
    PROVE  LiveInv'
<1>1. LogOk /\ LiveTypes
  BY DEF LiveInv
<1>2. /\ pc' \in [Stream -> Label]
      /\ \A s \in Stream : /\ pc'[s] \in NotYet => pc[s] \in NotYet
                           /\ pc'[s] = "send" => pc[s] = "send"
  <2>1. CASE pc' = pc
    BY <1>1, <2>1 DEF LiveTypes
  <2>2. CASE pc' = Live!Broadcast(pc)
    <3>1. pc' = [s \in Stream |-> IF pc[s] = "asleep" THEN "look" ELSE pc[s]]
      BY <2>2 DEF Live!Broadcast
    <3>2. \A s \in Stream : pc[s] \in Label
      BY <1>1 DEF LiveTypes
    <3> QED
      BY <3>1, <3>2 DEF Label, NotYet
  <2> QED
    BY <2>1, <2>2
<1>3. LiveTypes'
  BY <1>1, <1>2 DEF LiveTypes
<1>4. ASSUME NEW s \in Stream PROVE Follower(s)'
  <2>1. Follower(s)
    BY DEF LiveInv
  <2>2. cur[s] \in Nat /\ baseOffset \in Nat /\ baseOffset' \in Nat
    BY <1>1 DEF LiveTypes, LogOk
  <2>3. FollowsLog(got[s] \o out[s], cur[s], log', baseOffset', rolledBack')
    BY <2>1, <2>2, ChangeFollows DEF Follower
  <2>4. pc'[s] \in NotYet => got'[s] = <<>> /\ out'[s] = <<>>
    BY <1>2, <2>1 DEF Follower
  <2>5. pc'[s] = "send" => Picked(msg[s], cur[s], log', rolledBack')
    BY <1>2, <2>1 DEF Follower, Picked
  <2> QED
    BY <2>3, <2>4, <2>5 DEF Follower
<1> QED
  BY <1>3, <1>4 DEF LiveInv

\* Steps of one stream.
LEMMA StreamChanges ==
    ASSUME LiveInv, NEW s \in Stream, UNCHANGED <<log, baseOffset, rolledBack, written>>,
           LiveTypes', Follower(s)',
           \A u \in Stream : u # s =>
               /\ pc'[u] = pc[u] /\ cur'[u] = cur[u] /\ msg'[u] = msg[u]
               /\ got'[u] = got[u] /\ out'[u] = out[u]
    PROVE  LiveInv'
<1>1. LogOk'
  BY DEF LiveInv, LogOk
<1>2. ASSUME NEW u \in Stream PROVE Follower(u)'
  <2>1. CASE u = s
    BY <2>1
  <2>2. CASE u # s
    BY <2>2 DEF LiveInv, Follower
  <2> QED
    BY <2>1, <2>2
<1> QED
  BY <1>1, <1>2 DEF LiveInv

LEMMA LogStepKeeps == ASSUME LiveInv, Live!LogStep PROVE LiveInv'
<1>1. LogOk
  BY DEF LiveInv
<1>2. CASE Live!AppendLocked
  <2>1. /\ log' = Append(log, written + 1) /\ written' = written + 1
        /\ pc' = Live!Broadcast(pc)
        /\ UNCHANGED <<baseOffset, rolledBack, cur, end, msg, out, got>>
    BY <1>2 DEF Live!AppendLocked
  <2>2. \A r \in Rec : Kept(r, log, rolledBack) => Kept(r, log', rolledBack')
    BY <1>1, <2>1, GrownKeeps DEF LogOk
  <2>3. LogOk'
    BY <1>1, <2>1 DEF LogOk
  <2>4. baseOffset <= baseOffset'
    BY <1>1, <2>1 DEF LogOk
  <2> QED
    BY <2>1, <2>2, <2>3, <2>4, LogChanges
<1>3. CASE Live!InvalidateOffset
  <2>1. /\ Len(log) > baseOffset
        /\ log' = Live!Front(log) /\ rolledBack' = rolledBack \cup {Live!Last(log)}
        /\ pc' = Live!Broadcast(pc)
        /\ UNCHANGED <<baseOffset, written, cur, end, msg, out, got>>
    BY <1>3 DEF Live!InvalidateOffset
  <2>2. log # <<>>
    BY <1>1, <2>1 DEF LogOk
  <2>3. \A r \in Rec : Kept(r, log, rolledBack) => Kept(r, log', rolledBack')
    BY <1>1, <2>1, <2>2, RolledBackKeeps DEF LogOk
  <2>4. LogOk'
    <3>1. Live!Front(log) \in Seq(Nat) /\ Len(Live!Front(log)) = Len(log) - 1
      BY <1>1, <2>2, FrontFacts DEF LogOk
    <3> QED
      BY <1>1, <2>1, <3>1 DEF LogOk
  <2>5. baseOffset <= baseOffset'
    BY <1>1, <2>1 DEF LogOk
  <2> QED
    BY <2>1, <2>3, <2>4, <2>5, LogChanges
<1>4. CASE Live!CleanOldMessages
  <2>1. /\ baseOffset' \in (baseOffset + 1) .. Len(log)
        /\ UNCHANGED <<log, written, rolledBack, pc, cur, end, msg, out, got>>
    BY <1>4 DEF Live!CleanOldMessages, Live!streamVars, Live!NextOffset
  <2>2. LogOk' /\ baseOffset <= baseOffset'
    BY <1>1, <2>1 DEF LogOk
  <2> QED
    BY <2>1, <2>2, LogChanges
<1>5. CASE Live!MarkStopping \/ Live!StopAndRemove
  <2>1. /\ UNCHANGED <<log, written, baseOffset, rolledBack, cur, end, msg, out, got>>
        /\ pc' = pc \/ pc' = Live!Broadcast(pc)
    BY <1>5 DEF Live!MarkStopping, Live!StopAndRemove, Live!streamVars
  <2>2. LogOk' /\ baseOffset <= baseOffset'
    BY <1>1, <2>1 DEF LogOk
  <2> QED
    BY <2>1, <2>2, LogChanges
<1> QED
  BY <1>2, <1>3, <1>4, <1>5 DEF Live!LogStep

-----------------------------------------------------------------------------
(* readFrom.                                                               *)

\* Where the history ends.
LEMMA LastReadFacts ==
    ASSUME LogOk, LiveTypes, NEW s \in Stream
    PROVE  /\ Live!LastRead(s) \in Nat
           /\ cur[s] <= Live!LastRead(s)
           /\ Live!LastRead(s) = cur[s] \/ Live!LastRead(s) <= Len(log)
<1> DEFINE c == cur[s]
           e == end[s]
           n == Len(log)
<1>1. c \in Nat /\ e \in Nat /\ n \in Nat
  BY DEF LogOk, LiveTypes
<1>2. \A a, b \in Nat : /\ Live!Max({a, b}) \in {a, b}
                        /\ Live!Max({a, b}) >= a /\ Live!Max({a, b}) >= b
  <2> TAKE a, b \in Nat
  <2>1. \E x \in {a, b} : \A y \in {a, b} : x >= y
    OBVIOUS
  <2>2. Live!Max({a, b}) = CHOOSE x \in {a, b} : \A y \in {a, b} : x >= y
    BY DEF Live!Max
  <2> QED
    BY <2>1, <2>2
<1>3. \A a, b \in Nat : /\ Live!Min({a, b}) \in {a, b}
                        /\ Live!Min({a, b}) <= a /\ Live!Min({a, b}) <= b
  <2> TAKE a, b \in Nat
  <2>1. \E x \in {a, b} : \A y \in {a, b} : x <= y
    OBVIOUS
  <2>2. Live!Min({a, b}) = CHOOSE x \in {a, b} : \A y \in {a, b} : x =< y
    BY DEF Live!Min
  <2> QED
    BY <2>1, <2>2
<1>4. Live!LastRead(s) = IF state = "deleted" \/ c < baseOffset THEN c
                         ELSE Live!Max({c, Live!Min({e, n})})
  BY DEF Live!LastRead, Live!NextOffset
<1> HIDE DEF c, e, n
<1>5. /\ Live!Min({e, n}) \in Nat /\ Live!Min({e, n}) <= n
      /\ Live!Max({c, Live!Min({e, n})}) \in {c, Live!Min({e, n})}
      /\ Live!Max({c, Live!Min({e, n})}) >= c
  BY <1>1, <1>2, <1>3
<1>6. /\ Live!LastRead(s) \in Nat /\ c <= Live!LastRead(s)
      /\ Live!LastRead(s) = c \/ Live!LastRead(s) <= n
  BY <1>1, <1>4, <1>5
<1> QED
  BY <1>6 DEF c, n

\* The history follows the log.
LEMMA HistoryFollows ==
    ASSUME LogOk, LiveTypes, NEW s \in Stream
    PROVE  FollowsLog(Live!HistoryOf(s), Live!LastRead(s), log, baseOffset, rolledBack)
<1> DEFINE c == cur[s]
           n == Live!LastRead(s)
           q == Live!HistoryOf(s)
<1>1. /\ c \in Nat /\ n \in Nat /\ c <= n /\ (n = c \/ n <= Len(log))
      /\ log \in Seq(Nat) /\ baseOffset \in Nat
  BY LastReadFacts DEF LogOk, LiveTypes
<1>2. q = [i \in 1 .. n - c |-> [off |-> c + i - 1, val |-> log[(c + i - 1) + 1]]]
  BY DEF Live!HistoryOf, Live!Record
<1> HIDE DEF c, n, q
<1>3. ASSUME NEW i \in 1 .. n - c
      PROVE  /\ q[i].off = c + i - 1 /\ q[i].val = log[(c + i - 1) + 1]
             /\ q[i] \in Rec /\ c + i - 1 \in Nat /\ c + i - 1 < Len(log)
  <2>1. c + i - 1 \in Nat /\ c + i - 1 < Len(log) /\ (c + i - 1) + 1 \in 1 .. Len(log)
    BY <1>1
  <2>2. log[(c + i - 1) + 1] \in Nat
    BY <1>1, <2>1
  <2>3. q[i] = [off |-> c + i - 1, val |-> log[(c + i - 1) + 1]]
    BY <1>2
  <2> QED
    BY <2>1, <2>2, <2>3 DEF Rec
<1>4. q \in Seq(Rec) /\ Len(q) = n - c
  <2>1. q = [i \in 1 .. n - c |-> q[i]]
    BY <1>2
  <2>2. q \in [1 .. n - c -> Rec]
    BY <1>3, <2>1
  <2>3. n - c \in Nat
    BY <1>1
  <2> QED
    BY <2>2, <2>3
<1>5. AllKept(q, log, rolledBack)
  BY <1>3, <1>4 DEF AllKept, Kept
<1>6. Chain(q, baseOffset)
  <2> SUFFICES ASSUME NEW i \in 2 .. n - c
               PROVE  /\ q[i - 1].off < q[i].off
                      /\ \A o \in (q[i - 1].off + 1) .. (q[i].off - 1) : o < baseOffset
    BY <1>4 DEF Chain
  <2>1. i \in 1 .. n - c /\ i - 1 \in 1 .. n - c
    BY <1>1
  <2>2. q[i].off = c + i - 1 /\ q[i - 1].off = c + (i - 1) - 1
    BY <1>3, <2>1
  <2> QED
    BY <1>1, <2>2
<1>7. Reaches(q, n, baseOffset)
  <2> SUFFICES ASSUME n - c > 0
               PROVE  /\ q[n - c].off < n
                      /\ \A o \in (q[n - c].off + 1) .. (n - 1) : o < baseOffset
    BY <1>4 DEF Reaches
  <2>1. n - c \in 1 .. n - c
    BY <1>1
  <2>2. q[n - c].off = c + (n - c) - 1
    BY <1>3, <2>1
  <2> QED
    BY <1>1, <2>2
<1> QED
  BY <1>4, <1>5, <1>6, <1>7 DEF FollowsLog, q, n

-----------------------------------------------------------------------------
(* The steps of a stream.                                                  *)

\* Steps that only move the goroutine, where it sends nothing.
LEMMA GoesKeeps ==
    ASSUME LiveInv, NEW s \in Stream, NEW label \in Label, pc' = [pc EXCEPT ![s] = label],
           label # "send", label \in NotYet => pc[s] \in NotYet,
           UNCHANGED <<log, baseOffset, rolledBack, written, cur, got, out>>,
           end' \in [Stream -> Nat], msg' \in [Stream -> Seq(Rec)],
           \A u \in Stream : u # s => msg'[u] = msg[u]
    PROVE  LiveInv'
<1>1. LiveTypes /\ Follower(s)
  BY DEF LiveInv
<1>2. /\ pc' \in [Stream -> Label] /\ pc'[s] = label
      /\ \A u \in Stream : u # s => pc'[u] = pc[u]
  BY <1>1 DEF LiveTypes
<1>3. LiveTypes'
  BY <1>1, <1>2 DEF LiveTypes
<1>4. Follower(s)'
  BY <1>1, <1>2 DEF Follower
<1> QED
  BY <1>2, <1>3, <1>4, StreamChanges

LEMMA ReadsKeep ==
    ASSUME LiveInv, NEW s \in Stream,
           Live!ReadMessages(s) \/ Live!ReadFromBegins(s) \/ Live!ReadHistory(s)
    PROVE  LiveInv'
<1>1. LogOk /\ LiveTypes /\ Follower(s)
  BY DEF LiveInv
<1>2. CASE Live!ReadMessages(s)
  <2>1. PICK start \in {baseOffset} \cup 0 .. MaxAppends : cur' = [cur EXCEPT ![s] = start]
    BY <1>2 DEF Live!ReadMessages
  <2>2. start \in Nat
    BY <1>1, <2>1 DEF LogOk
  <2>3. /\ pc[s] = "idle" /\ pc' = [pc EXCEPT ![s] = "start"]
        /\ UNCHANGED <<log, baseOffset, rolledBack, written, end, got, out, msg>>
    BY <1>2 DEF Live!ReadMessages, Live!Goto, Live!logVars
  <2>4. /\ pc' \in [Stream -> Label] /\ pc'[s] = "start"
        /\ cur' \in [Stream -> Nat]
        /\ \A u \in Stream : u # s => pc'[u] = pc[u] /\ cur'[u] = cur[u]
    BY <1>1, <2>1, <2>2, <2>3 DEF LiveTypes, Label
  <2>5. LiveTypes'
    BY <1>1, <2>3, <2>4 DEF LiveTypes
  <2>6. Follower(s)'
    <3>1. got[s] = <<>> /\ out[s] = <<>>
      BY <1>1, <2>3 DEF Follower, NotYet
    <3>2. got[s] \o out[s] = <<>>
      BY <3>1
    <3>3. FollowsLog(got[s] \o out[s], cur'[s], log, baseOffset, rolledBack)
      BY <3>2, NothingFollows
    <3> QED
      BY <2>3, <2>4, <3>1, <3>3 DEF Follower
  <2> QED
    BY <2>3, <2>4, <2>5, <2>6, StreamChanges
<1>3. CASE Live!ReadFromBegins(s)
  <2>1. PICK label \in {"refused", "history"} : pc' = [pc EXCEPT ![s] = label]
    BY <1>3 DEF Live!ReadFromBegins, Live!Goto
  <2>2. /\ pc[s] = "start" /\ end' = [end EXCEPT ![s] = Len(log)]
        /\ UNCHANGED <<log, baseOffset, rolledBack, written, cur, got, out, msg>>
    BY <1>3 DEF Live!ReadFromBegins, Live!logVars, Live!NextOffset
  <2>3. end' \in [Stream -> Nat] /\ msg' \in [Stream -> Seq(Rec)]
    BY <1>1, <2>2 DEF LiveTypes, LogOk
  <2>4. label \in Label /\ label # "send" /\ pc[s] \in NotYet
    BY <2>1, <2>2 DEF Label, NotYet
  <2> QED
    BY <2>1, <2>2, <2>3, <2>4, GoesKeeps
<1>4. CASE Live!ReadHistory(s)
  <2> DEFINE q == Live!HistoryOf(s)
             n == Live!LastRead(s)
  <2>1. /\ pc[s] = "history" /\ pc' = [pc EXCEPT ![s] = "check"]
        /\ got' = [got EXCEPT ![s] = @ \o q] /\ cur' = [cur EXCEPT ![s] = n]
        /\ UNCHANGED <<log, baseOffset, rolledBack, written, end, out, msg>>
    BY <1>4 DEF Live!ReadHistory, Live!Goto, Live!logVars
  <2>2. FollowsLog(q, n, log, baseOffset, rolledBack) /\ n \in Nat
    BY <1>1, HistoryFollows, LastReadFacts
  <2>3. q \in Seq(Rec)
    BY <2>2 DEF FollowsLog
  <2>4. got[s] = <<>> /\ out[s] = <<>>
    BY <1>1, <2>1 DEF Follower, NotYet
  <2> HIDE DEF q, n
  <2>5. got[s] \o q = q
    BY <2>3, <2>4
  <2>6. /\ pc' \in [Stream -> Label] /\ pc'[s] = "check"
        /\ cur' \in [Stream -> Nat] /\ cur'[s] = n
        /\ got' \in [Stream -> Seq(Rec)] /\ got'[s] = q
        /\ \A u \in Stream : u # s => pc'[u] = pc[u] /\ cur'[u] = cur[u] /\ got'[u] = got[u]
    BY <1>1, <2>1, <2>2, <2>3, <2>5 DEF LiveTypes, Label
  <2>7. LiveTypes'
    BY <1>1, <2>1, <2>6 DEF LiveTypes
  <2>8. Follower(s)'
    <3>1. q \o out[s] = q
      BY <2>3, <2>4
    <3> QED
      BY <2>1, <2>2, <2>6, <3>1 DEF Follower, NotYet
  <2> QED
    BY <2>1, <2>6, <2>7, <2>8, StreamChanges
<1> QED
  BY <1>2, <1>3, <1>4

LEMMA GoroutineKeeps ==
    ASSUME LiveInv, NEW s \in Stream,
           \/ Live!Check(s) \/ Live!Sleep(s) \/ Live!SkipDeleted(s)
           \/ Live!ReadRecord(s) \/ Live!SendEnds(s)
    PROVE  LiveInv'
<1>1. LogOk /\ LiveTypes /\ Follower(s)
  BY DEF LiveInv
<1>2. CASE Live!Check(s) \/ Live!Sleep(s) \/ Live!SendEnds(s)
  <2>1. PICK label \in {"ended", "look", "asleep"} : pc' = [pc EXCEPT ![s] = label]
    BY <1>2 DEF Live!Check, Live!Sleep, Live!SendEnds, Live!Goto
  <2>2. /\ msg' = msg \/ msg' = [msg EXCEPT ![s] = <<>>]
        /\ UNCHANGED <<log, baseOffset, rolledBack, written, cur, end, got, out>>
    BY <1>2 DEF Live!Check, Live!Sleep, Live!SendEnds, Live!logVars
  <2>3. <<>> \in Seq(Rec)
    OBVIOUS
  <2>4. /\ end' \in [Stream -> Nat] /\ msg' \in [Stream -> Seq(Rec)]
        /\ \A u \in Stream : u # s => msg'[u] = msg[u]
    BY <1>1, <2>2, <2>3 DEF LiveTypes
  <2>5. label \in Label /\ label # "send" /\ label \notin NotYet
    BY <2>1 DEF Label, NotYet
  <2> QED
    BY <2>1, <2>2, <2>4, <2>5, GoesKeeps
<1>3. CASE Live!SkipDeleted(s)
  <2>1. /\ pc[s] = "look" /\ cur[s] < baseOffset
        /\ pc' = [pc EXCEPT ![s] = "check"] /\ cur' = [cur EXCEPT ![s] = baseOffset]
        /\ UNCHANGED <<log, baseOffset, rolledBack, written, end, got, out, msg>>
    BY <1>3 DEF Live!SkipDeleted, Live!Goto, Live!logVars
  <2>2. /\ pc' \in [Stream -> Label] /\ pc'[s] = "check"
        /\ cur' \in [Stream -> Nat] /\ cur'[s] = baseOffset
        /\ \A u \in Stream : u # s => pc'[u] = pc[u] /\ cur'[u] = cur[u]
    BY <1>1, <2>1 DEF LogOk, LiveTypes, Label
  <2>3. LiveTypes'
    BY <1>1, <2>1, <2>2 DEF LiveTypes
  <2>4. Follower(s)'
    <3>1. cur[s] \in Nat /\ baseOffset \in Nat
      BY <1>1 DEF LogOk, LiveTypes
    <3>2. FollowsLog(got[s] \o out[s], baseOffset, log, baseOffset, rolledBack)
      BY <1>1, <2>1, <3>1, SkippedFollows DEF Follower
    <3> QED
      BY <2>1, <2>2, <3>2 DEF Follower, NotYet
  <2> QED
    BY <2>1, <2>2, <2>3, <2>4, StreamChanges
<1>4. CASE Live!ReadRecord(s)
  <2>1. /\ pc[s] = "look" /\ cur[s] < Len(log)
        /\ UNCHANGED <<log, baseOffset, rolledBack, written, cur, end, got, out>>
    BY <1>4 DEF Live!ReadRecord, Live!logVars, Live!NextOffset
  <2>2. CASE pc' = [pc EXCEPT ![s] = "check"] /\ msg' = msg
    <3>1. end' \in [Stream -> Nat] /\ msg' \in [Stream -> Seq(Rec)]
      BY <1>1, <2>1, <2>2 DEF LiveTypes
    <3>2. "check" \in Label /\ "check" \notin NotYet
      BY DEF Label, NotYet
    <3> QED
      BY <2>1, <2>2, <3>1, <3>2, GoesKeeps
  <2>3. CASE /\ pc' = [pc EXCEPT ![s] = "send"]
             /\ msg' = [msg EXCEPT ![s] = <<Live!Record(cur[s])>>]
    <3> DEFINE r == Live!Record(cur[s])
    <3>1. /\ r.off = cur[s] /\ r.val = log[cur[s] + 1] /\ r \in Rec
      <4>1. cur[s] \in Nat /\ log \in Seq(Nat) /\ cur[s] + 1 \in 1 .. Len(log)
        BY <1>1, <2>1 DEF LogOk, LiveTypes
      <4>2. log[cur[s] + 1] \in Nat
        BY <4>1
      <4> QED
        BY <4>1, <4>2 DEF Rec, Live!Record
    <3>2. Kept(r, log, rolledBack)
      BY <2>1, <3>1 DEF Kept
    <3> HIDE DEF r
    <3>3. <<r>> \in Seq(Rec)
      BY <3>1
    <3>4. msg' = [msg EXCEPT ![s] = <<r>>]
      BY <2>3 DEF r
    <3>5. /\ pc' \in [Stream -> Label] /\ pc'[s] = "send"
          /\ msg' \in [Stream -> Seq(Rec)] /\ msg'[s] = <<r>>
          /\ \A u \in Stream : u # s => pc'[u] = pc[u] /\ msg'[u] = msg[u]
      BY <1>1, <2>3, <3>3, <3>4 DEF LiveTypes, Label
    <3>6. LiveTypes'
      BY <1>1, <2>1, <3>5 DEF LiveTypes
    <3>7. Picked(msg'[s], cur[s], log, rolledBack)
      BY <3>1, <3>2, <3>5 DEF Picked
    <3>8. Follower(s)'
      BY <1>1, <2>1, <3>5, <3>7 DEF Follower, NotYet
    <3> QED
      BY <2>1, <3>5, <3>6, <3>8, StreamChanges
  <2> QED
    BY <1>4, <2>2, <2>3 DEF Live!ReadRecord, Live!Goto
<1> QED
  BY <1>2, <1>3, <1>4

\* A record goes into the channel.
LEMMA SendKeeps ==
    ASSUME LiveInv, NEW s \in Stream, Live!Send(s)
    PROVE  LiveInv'
<1>1. LogOk /\ LiveTypes /\ Follower(s)
  BY DEF LiveInv
<1>2. /\ pc[s] = "send" /\ pc' = [pc EXCEPT ![s] = "check"]
      /\ out' = [out EXCEPT ![s] = @ \o msg[s]] /\ msg' = [msg EXCEPT ![s] = <<>>]
      /\ cur' = [cur EXCEPT ![s] = @ + 1]
      /\ UNCHANGED <<log, baseOffset, rolledBack, written, end, got>>
  BY DEF Live!Send, Live!Goto, Live!logVars
<1>3. PICK r \in Rec : msg[s] = <<r>> /\ r.off = cur[s] /\ Kept(r, log, rolledBack)
  BY <1>1, <1>2 DEF Follower, Picked
<1>4. /\ got[s] \in Seq(Rec) /\ out[s] \in Seq(Rec) /\ cur[s] \in Nat
      /\ baseOffset \in Nat
  BY <1>1 DEF LogOk, LiveTypes
<1>5. out[s] \o msg[s] = Append(out[s], r) /\ Append(out[s], r) \in Seq(Rec)
  BY <1>3, <1>4, PushOne
<1>6. got[s] \o Append(out[s], r) = Append(got[s] \o out[s], r)
  <2>1. \A g, o \in Seq(Rec), x \in Rec : g \o Append(o, x) = Append(g \o o, x)
    BY AppendAfter
  <2> QED
    BY <1>3, <1>4, <2>1
<1>7. FollowsLog(Append(got[s] \o out[s], r), cur[s] + 1, log, baseOffset, rolledBack)
  BY <1>1, <1>3, <1>4, NextFollows DEF Follower
<1>8. <<>> \in Seq(Rec)
  OBVIOUS
<1>9. /\ pc' \in [Stream -> Label] /\ pc'[s] = "check"
      /\ cur' \in [Stream -> Nat] /\ cur'[s] = cur[s] + 1
      /\ msg' \in [Stream -> Seq(Rec)]
      /\ out' \in [Stream -> Seq(Rec)] /\ out'[s] = Append(out[s], r)
      /\ \A u \in Stream : u # s => /\ pc'[u] = pc[u] /\ cur'[u] = cur[u]
                                    /\ msg'[u] = msg[u] /\ out'[u] = out[u]
  BY <1>1, <1>2, <1>4, <1>5, <1>8 DEF LiveTypes, Label
<1>10. LiveTypes'
  BY <1>1, <1>2, <1>9 DEF LiveTypes
<1>11. Follower(s)'
  <2>1. FollowsLog(got[s] \o out'[s], cur'[s], log, baseOffset, rolledBack)
    BY <1>6, <1>7, <1>9
  <2> QED
    BY <1>2, <1>9, <2>1 DEF Follower, NotYet
<1> QED
  BY <1>2, <1>9, <1>10, <1>11, StreamChanges

\* The handler passes it on.
LEMMA ReceiveKeeps ==
    ASSUME LiveInv, NEW s \in Stream, Live!Receive(s)
    PROVE  LiveInv'
<1>1. LogOk /\ LiveTypes /\ Follower(s)
  BY DEF LiveInv
<1>2. /\ out[s] # <<>>
      /\ got' = [got EXCEPT ![s] = Append(@, Head(out[s]))]
      /\ out' = [out EXCEPT ![s] = Tail(@)]
      /\ UNCHANGED <<log, baseOffset, rolledBack, written, end, cur, msg, pc>>
  BY DEF Live!Receive, Live!logVars
<1>3. got[s] \in Seq(Rec) /\ out[s] \in Seq(Rec)
  BY <1>1 DEF LiveTypes
<1>4. Append(got[s], Head(out[s])) \in Seq(Rec) /\ Tail(out[s]) \in Seq(Rec)
  BY <1>2, <1>3, PopProperties, PushProperties
<1>5. Append(got[s], Head(out[s])) \o Tail(out[s]) = got[s] \o out[s]
  BY <1>2, <1>3, ReadMoves
<1>6. /\ got' \in [Stream -> Seq(Rec)] /\ got'[s] = Append(got[s], Head(out[s]))
      /\ out' \in [Stream -> Seq(Rec)] /\ out'[s] = Tail(out[s])
      /\ \A u \in Stream : u # s => got'[u] = got[u] /\ out'[u] = out[u]
  BY <1>1, <1>2, <1>4 DEF LiveTypes
<1>7. LiveTypes'
  BY <1>1, <1>2, <1>6 DEF LiveTypes
<1>8. Follower(s)'
  <2>1. FollowsLog(got'[s] \o out'[s], cur[s], log, baseOffset, rolledBack)
    BY <1>1, <1>5, <1>6 DEF Follower
  <2>2. pc[s] \notin NotYet
    BY <1>1, <1>2 DEF Follower
  <2> QED
    BY <1>1, <1>2, <2>1, <2>2 DEF Follower
<1> QED
  BY <1>2, <1>6, <1>7, <1>8, StreamChanges

LEMMA LiveInitial == Live!Init => LiveInv
<1> SUFFICES ASSUME Live!Init PROVE LiveInv
  OBVIOUS
<1> USE DEF Live!Init
<1>1. <<>> \in Seq(Rec) /\ <<>> \in Seq(Nat) /\ Len(<<>>) = 0
  OBVIOUS
<1>2. LogOk
  BY <1>1 DEF LogOk
<1>3. LiveTypes
  BY <1>1 DEF LiveTypes, Label
<1>4. ASSUME NEW s \in Stream PROVE Follower(s)
  <2>1. got[s] \o out[s] = <<>>
    OBVIOUS
  <2> QED
    BY <2>1, NothingFollows DEF Follower, NotYet
<1> QED
  BY <1>2, <1>3, <1>4 DEF LiveInv

LEMMA LiveStep == LiveInv /\ [Live!Next]_Live!vars => LiveInv'
<1> SUFFICES ASSUME LiveInv, [Live!Next]_Live!vars PROVE LiveInv'
  OBVIOUS
<1>1. LogOk
  BY DEF LiveInv
<1>2. CASE Live!LogStep
  BY <1>2, LogStepKeeps
<1>3. ASSUME NEW s \in Stream, Live!Wake(s) \/ Live!Cancel(s) PROVE LiveInv'
  <2>1. /\ UNCHANGED <<log, written, baseOffset, rolledBack, cur, end, msg, out, got>>
        /\ pc' = pc \/ pc' = Live!Broadcast(pc)
    BY <1>3 DEF Live!Wake, Live!Cancel, Live!logVars
  <2>2. LogOk' /\ baseOffset <= baseOffset'
    BY <1>1, <2>1 DEF LogOk
  <2> QED
    BY <2>1, <2>2, LogChanges
<1>4. ASSUME NEW s \in Stream, Live!ReadMessages(s) \/ Live!StreamStep(s) \/ Live!Receive(s)
      PROVE LiveInv'
  BY <1>4, ReadsKeep, GoroutineKeeps, SendKeeps, ReceiveKeeps DEF Live!StreamStep
<1>5. CASE UNCHANGED Live!vars
  BY <1>5 DEF Live!vars, Live!logVars, Live!streamVars, LiveInv, LogOk, LiveTypes, Follower
<1> QED
  BY <1>2, <1>3, <1>4, <1>5 DEF Live!Next

\* The records a live consumer is sent are those of the log, although it reads
\* the history and then follows it from under a lock it gives up between any
\* two records, while records are appended, rolled back and deleted.
THEOREM RecordsFollowTheLog == Live!Spec => []StreamFollowsLog
<1>1. LiveInv => StreamFollowsLog
  <2> SUFFICES ASSUME LiveInv, NEW s \in Stream
               PROVE  /\ \A i \in 1 .. Len(got[s]) : Stored(got[s][i])
                      /\ Chain(got[s], baseOffset)
    BY DEF StreamFollowsLog, Chain
  <2> DEFINE q == got[s] \o out[s]
  <2>1. /\ LogOk /\ got[s] \in Seq(Rec) /\ out[s] \in Seq(Rec)
        /\ AllKept(q, log, rolledBack) /\ Chain(q, baseOffset)
    BY DEF LiveInv, LiveTypes, Follower, FollowsLog
  <2>2. /\ Len(got[s]) \in Nat /\ Len(q) >= Len(got[s]) /\ Len(q) \in Nat
        /\ \A i \in 1 .. Len(got[s]) : q[i] = got[s][i]
    BY <2>1, FirstPart
  <2>3. \A i \in 1 .. Len(got[s]) : got[s][i] \in Rec
    BY <2>1
  <2> HIDE DEF q
  <2>4. ASSUME NEW i \in 1 .. Len(got[s]) PROVE Stored(got[s][i])
    <3> DEFINE r == got[s][i]
    <3>1. r \in Rec /\ Kept(r, log, rolledBack)
      <4>1. i \in 1 .. Len(q) /\ q[i] = r
        BY <2>2
      <4> QED
        BY <2>1, <2>3, <4>1 DEF AllKept
    <3> HIDE DEF r
    <3>2. r.val = log[r.off + 1] => r = Record(r.off)
      BY <3>1 DEF Rec, Record
    <3>3. Stored(r)
      BY <3>1, <3>2 DEF Kept, Stored, NextOffset
    <3> QED
      BY <3>3 DEF r
  <2>5. Chain(got[s], baseOffset)
    <3> SUFFICES ASSUME NEW i \in 2 .. Len(got[s])
                 PROVE  /\ got[s][i - 1].off < got[s][i].off
                        /\ \A o \in (got[s][i - 1].off + 1) .. (got[s][i].off - 1) :
                              o < baseOffset
      BY DEF Chain
    <3>1. /\ i \in 2 .. Len(q) /\ i \in 1 .. Len(got[s]) /\ i - 1 \in 1 .. Len(got[s])
      BY <2>2
    <3>2. q[i] = got[s][i] /\ q[i - 1] = got[s][i - 1]
      BY <2>2, <3>1
    <3> QED
      BY <2>1, <3>1, <3>2 DEF Chain
  <2> QED
    BY <2>4, <2>5
<1> QED
  BY <1>1, LiveInitial, LiveStep, PTL DEF Live!Spec

-----------------------------------------------------------------------------
(* Sleepers.                                                               *)

\* Where a stream follows the log, and has a waker.
Following == {"check", "look", "asleep", "send"}

\* The waker of a stream has gone only if there is something to wake up for; a
\* sleeper has sent what there is, and its waker will tell it if it is to end.
Rests(s) ==
    /\ pc[s] \in Following => waker[s] = "armed" \/ ctxDone[s] \/ state = "deleted"
    /\ pc[s] = "asleep" => /\ cur[s] >= Len(log)
                           /\ ctxDone[s] => waker[s] = "armed" \/ state = "deleted"

WakeTypes == /\ ctxDone \in [Stream -> BOOLEAN]
             /\ waker \in [Stream -> {"none", "armed"}]

WakeInv == LiveInv /\ WakeTypes /\ \A s \in Stream : Rests(s)

\* A broadcast leaves nobody asleep.
LEMMA NobodyAsleep ==
    ASSUME LiveInv, pc' = Live!Broadcast(pc), NEW s \in Stream
    PROVE  pc'[s] # "asleep" /\ (pc'[s] \in Following => pc[s] \in Following)
<1>1. pc' = [u \in Stream |-> IF pc[u] = "asleep" THEN "look" ELSE pc[u]]
  BY DEF Live!Broadcast
<1> QED
  BY <1>1 DEF Following

\* Steps of the log.
LEMMA LogStepRests ==
    ASSUME WakeInv, Live!LogStep
    PROVE  WakeTypes' /\ \A s \in Stream : Rests(s)'
<1>1. UNCHANGED <<ctxDone, waker, cur>>
  BY DEF Live!LogStep, Live!AppendLocked, Live!InvalidateOffset, Live!CleanOldMessages,
         Live!MarkStopping, Live!StopAndRemove, Live!streamVars
<1>2. WakeTypes'
  BY <1>1 DEF WakeInv, WakeTypes
<1>3. ASSUME NEW s \in Stream PROVE Rests(s)'
  <2>1. Rests(s) /\ LiveInv
    BY DEF WakeInv
  <2>2. CASE Live!AppendLocked \/ Live!InvalidateOffset \/ Live!MarkStopping
    <3>1. pc' = Live!Broadcast(pc) /\ state # "deleted"
      BY <2>2 DEF Live!AppendLocked, Live!InvalidateOffset, Live!MarkStopping
    <3>2. pc'[s] # "asleep" /\ (pc'[s] \in Following => pc[s] \in Following)
      BY <2>1, <3>1, NobodyAsleep
    <3> QED
      BY <1>1, <2>1, <3>1, <3>2 DEF Rests
  <2>3. CASE Live!CleanOldMessages
    BY <1>1, <2>1, <2>3 DEF Live!CleanOldMessages, Live!streamVars, Rests
  <2>4. CASE Live!StopAndRemove
    BY <1>1, <2>1, <2>4 DEF Live!StopAndRemove, Live!streamVars, Rests
  <2> QED
    BY <2>2, <2>3, <2>4 DEF Live!LogStep
<1> QED
  BY <1>2, <1>3

\* Steps of one stream that do not wake others.
LEMMA OneStreamRests ==
    ASSUME WakeInv, NEW s \in Stream, UNCHANGED <<log, state>>, WakeTypes', Rests(s)',
           \A u \in Stream : u # s =>
               /\ pc'[u] = pc[u] /\ cur'[u] = cur[u]
               /\ waker'[u] = waker[u] /\ ctxDone'[u] = ctxDone[u]
    PROVE  WakeTypes' /\ \A u \in Stream : Rests(u)'
<1>1. ASSUME NEW u \in Stream PROVE Rests(u)'
  <2>1. CASE u = s
    BY <2>1
  <2>2. CASE u # s
    BY <2>2 DEF WakeInv, Rests
  <2> QED
    BY <2>1, <2>2
<1> QED
  BY <1>1

LEMMA StreamRests ==
    ASSUME WakeInv, NEW s \in Stream,
           \/ Live!ReadMessages(s) \/ Live!StreamStep(s) \/ Live!Receive(s) \/ Live!Cancel(s)
    PROVE  WakeTypes' /\ \A u \in Stream : Rests(u)'
<1> USE DEF Live!Goto, Live!logVars
<1>1. /\ pc \in [Stream -> Label] /\ cur \in [Stream -> Nat] /\ WakeTypes /\ Rests(s)
  BY DEF WakeInv, LiveInv, LiveTypes
<1>2. CASE Live!ReadMessages(s)
  <2>1. /\ pc' = [pc EXCEPT ![s] = "start"] /\ UNCHANGED <<log, state, waker, ctxDone>>
        /\ \E start \in {baseOffset} \cup 0..MaxAppends : cur' = [cur EXCEPT ![s] = start]
    BY <1>2 DEF Live!ReadMessages
  <2>2. WakeTypes' /\ Rests(s)'
    BY <1>1, <2>1 DEF WakeTypes, Rests, Following
  <2> QED
    BY <1>1, <2>1, <2>2, OneStreamRests
<1>3. CASE Live!ReadFromBegins(s) \/ Live!Check(s) \/ Live!Sleep(s) \/ Live!ReadRecord(s)
  <2>1. /\ UNCHANGED <<log, state, cur, waker, ctxDone>>
        /\ \E l \in Label : /\ pc' = [pc EXCEPT ![s] = l]
                            /\ l \in Following => pc[s] \in Following
                            /\ l = "asleep" => cur[s] >= Len(log) /\ ~ctxDone[s]
    <3>1. CASE Live!ReadFromBegins(s)
      BY <3>1 DEF Live!ReadFromBegins, Label, Following
    <3>2. CASE Live!Check(s)
      BY <3>2 DEF Live!Check, Label, Following
    <3>3. CASE Live!Sleep(s)
      BY <3>3 DEF Live!Sleep, Live!NextOffset, Label, Following
    <3>4. CASE Live!ReadRecord(s)
      BY <3>4 DEF Live!ReadRecord, Label, Following
    <3> QED
      BY <1>3, <3>1, <3>2, <3>3, <3>4
  <2>2. WakeTypes' /\ Rests(s)'
    BY <1>1, <2>1 DEF WakeTypes, Rests, Following
  <2> QED
    BY <1>1, <2>1, <2>2, OneStreamRests
<1>4. CASE Live!ReadHistory(s)
  <2>1. /\ pc' = [pc EXCEPT ![s] = "check"] /\ waker' = [waker EXCEPT ![s] = "armed"]
        /\ \A u \in Stream : u # s => cur'[u] = cur[u]
        /\ UNCHANGED <<log, state, ctxDone>>
    BY <1>1, <1>4 DEF Live!ReadHistory
  <2>2. WakeTypes' /\ Rests(s)'
    BY <1>1, <2>1 DEF WakeTypes, Rests, Following
  <2> QED
    BY <1>1, <2>1, <2>2, OneStreamRests
<1>5. CASE Live!SkipDeleted(s) \/ Live!Send(s) \/ Live!SendEnds(s)
  <2>1. /\ \E l \in {"check", "ended"} : pc' = [pc EXCEPT ![s] = l]
        /\ pc[s] \in {"look", "send"}
        /\ \A u \in Stream : u # s => cur'[u] = cur[u]
        /\ UNCHANGED <<log, state, ctxDone, waker>>
    BY <1>1, <1>5 DEF Live!SkipDeleted, Live!Send, Live!SendEnds
  <2>2. WakeTypes' /\ Rests(s)'
    BY <1>1, <2>1 DEF WakeTypes, Rests, Following
  <2> QED
    BY <1>1, <2>1, <2>2, OneStreamRests
<1>6. CASE Live!Receive(s)
  <2>1. UNCHANGED <<log, state, pc, cur, ctxDone, waker>>
    BY <1>6 DEF Live!Receive
  <2>2. WakeTypes' /\ Rests(s)'
    BY <1>1, <2>1 DEF WakeTypes, Rests
  <2> QED
    BY <2>1, <2>2, OneStreamRests
<1>7. CASE Live!Cancel(s)
  <2>1. /\ ctxDone' = [ctxDone EXCEPT ![s] = TRUE] /\ ~ctxDone[s]
        /\ UNCHANGED <<log, state, pc, cur, waker>>
    BY <1>7 DEF Live!Cancel
  <2>2. WakeTypes' /\ Rests(s)'
    BY <1>1, <2>1 DEF WakeTypes, Rests, Following
  <2> QED
    BY <1>1, <2>1, <2>2, OneStreamRests DEF WakeTypes
<1> QED
  BY <1>2, <1>3, <1>4, <1>5, <1>6, <1>7 DEF Live!StreamStep

\* The waker of one stream wakes all.
LEMMA WakeRests ==
    ASSUME WakeInv, NEW s \in Stream, Live!Wake(s)
    PROVE  WakeTypes' /\ \A u \in Stream : Rests(u)'
<1>1. /\ waker' = [waker EXCEPT ![s] = "none"] /\ pc' = Live!Broadcast(pc)
      /\ ctxDone[s] \/ state = "deleted"
      /\ UNCHANGED <<log, state, cur, ctxDone>>
  BY DEF Live!Wake, Live!logVars
<1>2. WakeTypes /\ LiveInv
  BY DEF WakeInv
<1>3. WakeTypes'
  BY <1>1, <1>2 DEF WakeTypes
<1>4. ASSUME NEW u \in Stream PROVE Rests(u)'
  <2>1. Rests(u)
    BY DEF WakeInv
  <2>2. pc'[u] # "asleep" /\ (pc'[u] \in Following => pc[u] \in Following)
    BY <1>1, <1>2, NobodyAsleep
  <2>3. waker'[u] = IF u = s THEN "none" ELSE waker[u]
    BY <1>1, <1>2 DEF WakeTypes
  <2> QED
    BY <1>1, <2>1, <2>2, <2>3 DEF Rests
<1> QED
  BY <1>3, <1>4

\* No stream sleeps in front of a record, and none whose consumer has gone
\* sleeps on unless its broadcast is still to come: whatever happened between
\* its looks at the context and at the log and the wait.
THEOREM NoLostWakeUp == Live!Spec => []NoWakeUpIsLost
<1>1. Live!Init => WakeInv
  <2> SUFFICES ASSUME Live!Init PROVE WakeInv
    OBVIOUS
  <2>1. LiveInv
    BY LiveInitial
  <2>2. WakeTypes
    BY DEF Live!Init, WakeTypes
  <2>3. \A s \in Stream : pc[s] = "idle"
    BY DEF Live!Init
  <2> QED
    BY <2>1, <2>2, <2>3 DEF WakeInv, Rests, Following
<1>2. WakeInv /\ [Live!Next]_Live!vars => WakeInv'
  <2> SUFFICES ASSUME WakeInv, [Live!Next]_Live!vars PROVE WakeInv'
    OBVIOUS
  <2>1. LiveInv'
    BY LiveStep DEF WakeInv
  <2>2. CASE Live!LogStep
    BY <2>1, <2>2, LogStepRests DEF WakeInv
  <2>3. ASSUME NEW s \in Stream, Live!Wake(s) PROVE WakeInv'
    BY <2>1, <2>3, WakeRests DEF WakeInv
  <2>4. ASSUME NEW s \in Stream,
               \/ Live!ReadMessages(s) \/ Live!StreamStep(s) \/ Live!Receive(s)
               \/ Live!Cancel(s)
        PROVE  WakeInv'
    BY <2>1, <2>4, StreamRests DEF WakeInv
  <2>5. CASE UNCHANGED Live!vars
    BY <2>1, <2>5 DEF Live!vars, Live!logVars, Live!streamVars, WakeInv, WakeTypes, Rests
  <2> QED
    BY <2>2, <2>3, <2>4, <2>5 DEF Live!Next
<1>3. WakeInv => NoWakeUpIsLost
  BY DEF WakeInv, Rests, NoWakeUpIsLost, NextOffset
<1> QED
  BY <1>1, <1>2, <1>3, PTL DEF Live!Spec

-----------------------------------------------------------------------------
(* Connections and their buffers.                                          *)

Mine == {"produce", "topic", "consume", "follow", "stream", "write"}
Holding == {"header", "body", "command"} \cup Mine
Handled == [pc : {"off", "queued", "closed"} \cup Holding, kind : Tcp!Kind,
            sends : Tcp!Sends, buf : Tcp!Conn \cup {Tcp!Nobody},
            of : Tcp!Conn \cup {Tcp!Nobody}, next : Nat]
Content == [head : Tcp!Conn \cup {Tcp!Nobody}, body : Tcp!Conn \cup {Tcp!Nobody},
            reply : [to : Tcp!Conn \cup {Tcp!Nobody},
                     says : {"nothing", "answered", "streams"}]]

TcpTypes ==
    /\ records \in Nat
    /\ conn \in [Tcp!Conn -> Handled]
    /\ buffer \in [Tcp!Conn -> Content]
    /\ pool \subseteq Tcp!Conn

\* A handler has a buffer that is not in the pool; what is in it, as far as the
\* handler relies on it, is of its own connection.
Owns(c, k, p, f) ==
    k.pc \in Holding =>
        /\ k.buf \in Tcp!Conn /\ k.buf \notin p
        /\ k.pc = "command" => f[k.buf].body = c
        /\ k.pc \in Mine => k.of = c
        /\ k.pc = "write" => f[k.buf].reply.to = c

Apart(k, l) == k.pc \in Holding /\ l.pc \in Holding => k.buf # l.buf

TcpInv ==
    /\ TcpTypes
    /\ \A c \in Tcp!Conn : Owns(c, conn[c], pool, buffer)
    /\ \A c, d \in Tcp!Conn : c # d => Apart(conn[c], conn[d])
    /\ ran = {} /\ answers = {}

\* A step of one connection leaves the buffers of the others alone.
LEMMA OneConnection ==
    ASSUME TcpInv, NEW c \in Tcp!Conn, NEW k \in Handled, conn' = [conn EXCEPT ![c] = k],
           records' \in Nat, buffer' \in [Tcp!Conn -> Content], pool' \subseteq Tcp!Conn,
           ran' = {}, answers' = {}, Owns(c, k, pool', buffer'),
           \A d \in Tcp!Conn : d # c /\ conn[d].pc \in Holding =>
               /\ Apart(k, conn[d]) /\ conn[d].buf \notin pool'
               /\ buffer'[conn[d].buf] = buffer[conn[d].buf]
    PROVE  TcpInv'
<1>1. /\ conn' \in [Tcp!Conn -> Handled] /\ conn'[c] = k
      /\ \A d \in Tcp!Conn : d # c => conn'[d] = conn[d]
  BY DEF TcpInv, TcpTypes
<1>2. TcpTypes'
  BY <1>1 DEF TcpTypes
<1>3. ASSUME NEW d \in Tcp!Conn PROVE Owns(d, conn'[d], pool', buffer')
  <2>1. CASE d = c
    BY <1>1, <2>1
  <2>2. CASE d # c
    <3>1. Owns(d, conn[d], pool, buffer) /\ conn'[d] = conn[d]
      BY <1>1, <2>2 DEF TcpInv
    <3> QED
      BY <2>2, <3>1 DEF Owns
  <2> QED
    BY <2>1, <2>2
<1>4. ASSUME NEW d \in Tcp!Conn, NEW e \in Tcp!Conn, d # e PROVE Apart(conn'[d], conn'[e])
  <2>1. CASE d = c
    <3>1. conn'[d] = k /\ conn'[e] = conn[e] /\ e # c
      BY <1>1, <1>4, <2>1
    <3> QED
      BY <3>1 DEF Apart
  <2>2. CASE e = c
    <3>1. conn'[e] = k /\ conn'[d] = conn[d] /\ d # c
      BY <1>1, <1>4, <2>2
    <3> QED
      BY <3>1 DEF Apart
  <2>3. CASE d # c /\ e # c
    <3>1. conn'[e] = conn[e] /\ conn'[d] = conn[d]
      BY <1>1, <2>3
    <3> QED
      BY <1>4, <3>1 DEF TcpInv
  <2> QED
    BY <2>1, <2>2, <2>3
<1> QED
  BY <1>2, <1>3, <1>4 DEF TcpInv

\* A handler goes on with its buffer.
LEMMA GoesOn ==
    ASSUME TcpInv, NEW c \in Tcp!Conn, NEW k \in Handled, conn' = [conn EXCEPT ![c] = k],
           conn[c].pc \in Holding, k.buf = conn[c].buf, records' \in Nat,
           NEW f \in Content, buffer' = [buffer EXCEPT ![conn[c].buf] = f],
           pool' = pool, ran' = {}, answers' = {},
           k.pc = "command" => f.body = c, k.pc \in Mine => k.of = c,
           k.pc = "write" => f.reply.to = c
    PROVE  TcpInv'
<1>1. /\ TcpTypes /\ Owns(c, conn[c], pool, buffer)
      /\ \A d \in Tcp!Conn : d # c => Apart(conn[c], conn[d]) /\ Owns(d, conn[d], pool, buffer)
  BY DEF TcpInv
<1>2. conn[c].buf \in Tcp!Conn /\ conn[c].buf \notin pool
  BY <1>1 DEF Owns
<1>3. /\ buffer' \in [Tcp!Conn -> Content] /\ buffer'[conn[c].buf] = f
      /\ \A b \in Tcp!Conn : b # conn[c].buf => buffer'[b] = buffer[b]
  BY <1>1, <1>2 DEF TcpTypes
<1>4. Owns(c, k, pool', buffer')
  BY <1>2, <1>3 DEF Owns
<1>5. ASSUME NEW d \in Tcp!Conn, d # c, conn[d].pc \in Holding
      PROVE  /\ Apart(k, conn[d]) /\ conn[d].buf \notin pool'
             /\ buffer'[conn[d].buf] = buffer[conn[d].buf]
  <2>1. conn[d].buf \in Tcp!Conn /\ conn[d].buf \notin pool /\ conn[d].buf # conn[c].buf
    BY <1>1, <1>5 DEF Owns, Apart
  <2> QED
    BY <1>3, <2>1 DEF Apart
<1>6. pool' \subseteq Tcp!Conn
  BY <1>1 DEF TcpTypes
<1> QED
  BY <1>3, <1>4, <1>5, <1>6, OneConnection

\* A handler ends, and its buffer may go to the pool.
LEMMA EndsKeep ==
    ASSUME TcpInv, NEW c \in Tcp!Conn, conn[c].pc \in Holding,
           conn' = [conn EXCEPT ![c] = [Tcp!Idle EXCEPT !.pc = "closed"]],
           pool' = pool \/ pool' = pool \cup {conn[c].buf}, buffer' = buffer,
           records' \in Nat, ran' = {}, answers' = {}
    PROVE  TcpInv'
<1> DEFINE k == [Tcp!Idle EXCEPT !.pc = "closed"]
<1>1. /\ TcpTypes /\ Owns(c, conn[c], pool, buffer)
      /\ \A d \in Tcp!Conn : d # c => Apart(conn[c], conn[d]) /\ Owns(d, conn[d], pool, buffer)
  BY DEF TcpInv
<1>2. k \in Handled /\ k.pc = "closed"
  BY DEF Tcp!Idle, Handled, Tcp!Kind, Tcp!Sends
<1> HIDE DEF k
<1>3. conn' = [conn EXCEPT ![c] = k]
  BY DEF k
<1>4. conn[c].buf \in Tcp!Conn
  BY <1>1 DEF Owns
<1>5. buffer' \in [Tcp!Conn -> Content] /\ pool' \subseteq Tcp!Conn
  BY <1>1, <1>4 DEF TcpTypes
<1>6. "closed" \notin Holding
  BY DEF Holding, Mine
<1>7. Owns(c, k, pool', buffer')
  BY <1>2, <1>6 DEF Owns
<1>8. ASSUME NEW d \in Tcp!Conn, d # c, conn[d].pc \in Holding
      PROVE  /\ Apart(k, conn[d]) /\ conn[d].buf \notin pool'
             /\ buffer'[conn[d].buf] = buffer[conn[d].buf]
  <2>1. conn[d].buf \notin pool /\ conn[d].buf # conn[c].buf
    BY <1>1, <1>8 DEF Owns, Apart
  <2> QED
    BY <1>2, <1>6, <2>1 DEF Apart
<1> QED
  BY <1>2, <1>3, <1>5, <1>7, <1>8, OneConnection

-----------------------------------------------------------------------------
(* The steps of the TCP server.                                            *)

LEMMA ConnectKeeps ==
    ASSUME TcpInv, NEW c \in Tcp!Conn, Tcp!Connect(c)
    PROVE  TcpInv'
<1>1. PICK x \in Tcp!Kind, s \in Tcp!Sends :
          /\ conn[c].pc = "off"
          /\ conn' = [conn EXCEPT ![c] = [Tcp!Idle EXCEPT !.pc = "queued", !.kind = x,
                                                          !.sends = s]]
          /\ UNCHANGED <<records, buffer, pool, ran, answers>>
  BY DEF Tcp!Connect, Tcp!bufferVars
<1> DEFINE k == [Tcp!Idle EXCEPT !.pc = "queued", !.kind = x, !.sends = s]
<1>2. k \in Handled /\ k.pc = "queued"
  BY DEF Tcp!Idle, Handled
<1>3. "queued" \notin Holding
  BY DEF Holding, Mine
<1> HIDE DEF k
<1>4. conn' = [conn EXCEPT ![c] = k]
  BY <1>1 DEF k
<1>5. TcpTypes /\ \A d \in Tcp!Conn : Owns(d, conn[d], pool, buffer)
  BY DEF TcpInv
<1>6. Owns(c, k, pool', buffer')
  BY <1>2, <1>3 DEF Owns
<1>7. ASSUME NEW d \in Tcp!Conn, d # c, conn[d].pc \in Holding
      PROVE  /\ Apart(k, conn[d]) /\ conn[d].buf \notin pool'
             /\ buffer'[conn[d].buf] = buffer[conn[d].buf]
  BY <1>1, <1>2, <1>3, <1>5, <1>7 DEF Owns, Apart
<1>8. /\ records' \in Nat /\ buffer' \in [Tcp!Conn -> Content] /\ pool' \subseteq Tcp!Conn
      /\ ran' = {} /\ answers' = {}
  BY <1>1, <1>5 DEF TcpTypes, TcpInv
<1> QED
  BY <1>2, <1>4, <1>6, <1>7, <1>8, OneConnection

\* The buffer is one of the pool, or one that nobody has.
LEMMA AcceptKeeps ==
    ASSUME TcpInv, NEW c \in Tcp!Conn, Tcp!Accept(c)
    PROVE  TcpInv'
<1>1. PICK b \in Tcp!Conn :
          /\ Tcp!Pooled(b) \/ Tcp!Unused(b)
          /\ pool' = pool \ {b}
          /\ buffer' = IF Tcp!Pooled(b) THEN buffer ELSE [buffer EXCEPT ![b] = Tcp!Fresh]
          /\ conn' = [conn EXCEPT ![c].pc = "header", ![c].buf = b]
  BY DEF Tcp!Accept, Tcp!Buffer
<1>2. UNCHANGED <<records, ran, answers>>
  BY DEF Tcp!Accept, Tcp!clientVars
<1>3. TcpTypes /\ \A d \in Tcp!Conn : Owns(d, conn[d], pool, buffer)
  BY DEF TcpInv
<1> DEFINE k == [conn[c] EXCEPT !.pc = "header", !.buf = b]
<1>4. conn[c] \in Handled
  BY <1>3 DEF TcpTypes
<1>5. k \in Handled /\ k.pc = "header" /\ k.buf = b
  BY <1>4 DEF Handled, Holding
<1>6. conn' = [conn EXCEPT ![c] = k]
  BY <1>1, <1>3 DEF TcpTypes
<1> HIDE DEF k
<1>7. /\ records' \in Nat /\ buffer' \in [Tcp!Conn -> Content] /\ pool' \subseteq Tcp!Conn
      /\ ran' = {} /\ answers' = {}
  <2>1. Tcp!Fresh \in Content
    BY DEF Tcp!Fresh, Content
  <2> QED
    BY <1>1, <1>2, <1>3, <2>1 DEF TcpTypes, TcpInv
<1>8. Owns(c, k, pool', buffer')
  BY <1>1, <1>5 DEF Owns, Mine
<1>9. ASSUME NEW d \in Tcp!Conn, d # c, conn[d].pc \in Holding
      PROVE  /\ Apart(k, conn[d]) /\ conn[d].buf \notin pool'
             /\ buffer'[conn[d].buf] = buffer[conn[d].buf]
  <2>1. conn[d].buf \in Tcp!Conn /\ conn[d].buf \notin pool
    BY <1>3, <1>9 DEF Owns
  <2>2. conn[d].buf # b
    BY <1>1, <2>1 DEF Tcp!Pooled, Tcp!Unused
  <2>3. buffer'[conn[d].buf] = buffer[conn[d].buf]
    BY <1>1, <1>3, <2>1, <2>2 DEF TcpTypes
  <2> QED
    BY <1>1, <1>5, <2>1, <2>2, <2>3 DEF Apart
<1> QED
  BY <1>5, <1>6, <1>7, <1>8, <1>9, OneConnection

\* The handler goes on with another step.
LEMMA LabelKeeps ==
    ASSUME TcpInv, NEW c \in Tcp!Conn, conn[c].pc \in Holding,
           NEW label \in Holding, conn' = [conn EXCEPT ![c].pc = label],
           records' \in Nat, UNCHANGED <<pool, ran, answers>>,
           NEW f \in Content, buffer' = [buffer EXCEPT ![conn[c].buf] = f],
           label = "command" => f.body = c,
           label \in Mine => conn[c].pc \in Mine,
           label # "write"
    PROVE  TcpInv'
<1> DEFINE k == [conn[c] EXCEPT !.pc = label]
<1>1. TcpTypes /\ Owns(c, conn[c], pool, buffer) /\ ran = {} /\ answers = {}
  BY DEF TcpInv
<1>2. conn[c] \in Handled
  BY <1>1 DEF TcpTypes
<1>3. k \in Handled /\ k.pc = label /\ k.buf = conn[c].buf /\ k.of = conn[c].of
  BY <1>2 DEF Handled
<1>4. conn' = [conn EXCEPT ![c] = k]
  BY <1>1 DEF TcpTypes
<1> HIDE DEF k
<1>5. k.pc \in Mine => k.of = c
  BY <1>1, <1>3 DEF Owns
<1> QED
  BY <1>1, <1>3, <1>4, <1>5, GoesOn

\* The buffer of a handler holds something, and may stay as it is.
LEMMA SameBuffer ==
    ASSUME TcpInv, NEW c \in Tcp!Conn, conn[c].pc \in Holding
    PROVE  /\ conn[c].buf \in Tcp!Conn
           /\ buffer[conn[c].buf] \in Content
           /\ buffer = [buffer EXCEPT ![conn[c].buf] = buffer[conn[c].buf]]
<1>1. TcpTypes /\ Owns(c, conn[c], pool, buffer)
  BY DEF TcpInv
<1>2. conn[c].buf \in Tcp!Conn
  BY <1>1 DEF Owns
<1> QED
  BY <1>1, <1>2 DEF TcpTypes

LEMMA ReadsKeepBuffer ==
    ASSUME TcpInv, NEW c \in Tcp!Conn, Tcp!ReadHeader(c) \/ Tcp!ReadBody(c)
    PROVE  TcpInv'
<1> DEFINE b == conn[c].buf
<1>1. /\ conn[c].pc \in {"header", "body"}
      /\ UNCHANGED <<records, ran, answers>>
      /\ conn[c].pc \in Holding /\ "body" \in Holding /\ "command" \in Holding
      /\ conn[c].pc \notin Mine /\ "body" \notin Mine /\ "command" \notin Mine
      /\ records \in Nat /\ ran = {} /\ answers = {}
  BY DEF Tcp!ReadHeader, Tcp!ReadBody, Tcp!At, Holding, Mine, TcpInv, TcpTypes
<1>2. /\ b \in Tcp!Conn /\ buffer[b] \in Content
      /\ buffer = [buffer EXCEPT ![b] = buffer[b]]
  BY <1>1, SameBuffer
<1> HIDE DEF b
<1>3. CASE Tcp!Refuse(c)
  BY <1>1, <1>3, EndsKeep DEF Tcp!Refuse, Tcp!bufferVars
<1>4. CASE Tcp!Goes(c, "body") /\ UNCHANGED <<pool, buffer>>
  BY <1>1, <1>2, <1>4, LabelKeeps DEF Tcp!Goes, b
<1>5. CASE Tcp!Goes(c, "body") /\ buffer' = [buffer EXCEPT ![b].head = c] /\ pool' = pool
  <2> DEFINE f == [buffer[b] EXCEPT !.head = c]
  <2>1. f \in Content
    BY <1>2 DEF Content
  <2>2. buffer' = [buffer EXCEPT ![b] = f]
    BY <1>2, <1>5 DEF TcpInv, TcpTypes
  <2> HIDE DEF f
  <2> QED
    BY <1>1, <1>5, <2>1, <2>2, LabelKeeps DEF Tcp!Goes, b
<1>6. CASE Tcp!Goes(c, "command") /\ buffer' = [buffer EXCEPT ![b].body = c] /\ pool' = pool
  <2> DEFINE f == [buffer[b] EXCEPT !.body = c]
  <2>1. f \in Content /\ f.body = c
    BY <1>2 DEF Content
  <2>2. buffer' = [buffer EXCEPT ![b] = f]
    BY <1>2, <1>6 DEF TcpInv, TcpTypes
  <2> HIDE DEF f
  <2> QED
    BY <1>1, <1>6, <2>1, <2>2, LabelKeeps DEF Tcp!Goes, b
<1>7. CASE Tcp!ReadHeader(c)
  BY <1>3, <1>4, <1>5, <1>7 DEF Tcp!ReadHeader, Tcp!bufferVars, b
<1>8. CASE Tcp!ReadBody(c)
  <2>1. CASE Tcp!HangUp(c)
    BY <1>1, <2>1, EndsKeep DEF Tcp!HangUp, Tcp!bufferVars
  <2> QED
    BY <1>3, <1>6, <1>8, <2>1 DEF Tcp!ReadBody, Tcp!Arrives, b
<1> QED
  BY <1>7, <1>8

\* The command that is run is the one that has just arrived.
LEMMA CommandKeeps ==
    ASSUME TcpInv, NEW c \in Tcp!Conn, Tcp!Command(c)
    PROVE  TcpInv'
<1> DEFINE b == conn[c].buf
           k == [conn[c] EXCEPT !.pc = conn[c].kind, !.of = c]
<1>1. /\ TcpTypes /\ Owns(c, conn[c], pool, buffer) /\ ran = {} /\ answers = {}
  BY DEF TcpInv
<1>2. conn[c].pc = "command" /\ conn[c].pc \in Holding
  BY DEF Tcp!Command, Tcp!At, Holding
<1>3. buffer[b].body = c
  BY <1>1, <1>2 DEF Owns
<1>4. /\ ran' = ran \cup ({c} \ {c})
      /\ conn' = [conn EXCEPT ![c].pc = conn[c].kind, ![c].of = c]
      /\ pool' = pool \cup {} /\ UNCHANGED <<records, buffer, answers>>
  BY <1>3 DEF Tcp!Command, Tcp!GivenEarly, Tcp!clientVars
<1>5. conn[c] \in Handled
  BY <1>1 DEF TcpTypes
<1>6. /\ k \in Handled /\ k.pc \in Tcp!Kind /\ k.of = c /\ k.buf = b
  BY <1>5 DEF Handled, Tcp!Kind, Holding, Mine
<1>7. conn' = [conn EXCEPT ![c] = k]
  BY <1>1, <1>4 DEF TcpTypes
<1>8. /\ b \in Tcp!Conn /\ buffer[b] \in Content
      /\ buffer = [buffer EXCEPT ![b] = buffer[b]]
  BY <1>2, SameBuffer
<1>9. "command" \notin Tcp!Kind /\ "write" \notin Tcp!Kind
  BY DEF Tcp!Kind
<1>10. ran' = {} /\ answers' = {} /\ pool' = pool /\ records' \in Nat
  BY <1>1, <1>4 DEF TcpTypes
<1> HIDE DEF b, k
<1> QED
  BY <1>2, <1>4, <1>6, <1>7, <1>8, <1>9, <1>10, GoesOn DEF b

\* A message of the handler's own is laid out in its own buffer.
LEMMA RespondKeeps ==
    ASSUME TcpInv, NEW c \in Tcp!Conn, conn[c].pc \in Mine,
           NEW says \in {"answered", "streams"}, NEW next \in Nat,
           Tcp!Respond(c, says, next), records' \in Nat, UNCHANGED <<ran, answers>>
    PROVE  TcpInv'
<1> DEFINE b == conn[c].buf
           k == [conn[c] EXCEPT !.pc = "write", !.next = next]
           f == [buffer[b] EXCEPT !.reply = [to |-> conn[c].of, says |-> says]]
<1>1. /\ TcpTypes /\ Owns(c, conn[c], pool, buffer) /\ ran = {} /\ answers = {}
      /\ conn[c].pc \in Holding
  BY DEF TcpInv, Holding
<1>2. conn[c].of = c
  BY <1>1 DEF Owns
<1>3. conn[c] \in Handled /\ b \in Tcp!Conn /\ buffer[b] \in Content
  BY <1>1, SameBuffer DEF TcpTypes
<1>4. /\ k \in Handled /\ k.pc = "write" /\ k.of = c /\ k.buf = b
  BY <1>2, <1>3 DEF Handled, Holding, Mine
<1>5. f \in Content /\ f.reply.to = c
  BY <1>2, <1>3 DEF Content
<1>6. conn' = [conn EXCEPT ![c] = k]
  BY <1>1 DEF TcpTypes, Tcp!Respond
<1>7. buffer' = [buffer EXCEPT ![b] = f] /\ pool' = pool
  BY <1>1, <1>3 DEF TcpTypes, Tcp!Respond
<1> HIDE DEF b, k, f
<1> QED
  BY <1>1, <1>4, <1>5, <1>6, <1>7, GoesOn DEF b

\* What the handlers of the commands do.
LEMMA HandlersKeep ==
    ASSUME TcpInv, NEW c \in Tcp!Conn,
           \/ Tcp!Produce(c) \/ Tcp!Topic(c) \/ Tcp!Consume(c) \/ Tcp!Follow(c)
           \/ Tcp!Stream(c)
    PROVE  TcpInv'
<1>1. TcpTypes /\ conn[c] \in Handled /\ records \in Nat /\ conn[c].next \in Nat
  BY DEF TcpInv, TcpTypes, Handled
<1>2. /\ conn[c].pc \in Mine /\ conn[c].pc \in Holding
      /\ UNCHANGED <<ran, answers>> /\ records' \in {records, records + 1}
  BY DEF Tcp!Produce, Tcp!Topic, Tcp!Consume, Tcp!Follow, Tcp!Stream, Tcp!At, Mine, Holding
<1>3. records' \in Nat /\ ran' = {} /\ answers' = {}
  BY <1>1, <1>2 DEF TcpInv
<1>4. CASE Tcp!Close(c)
  BY <1>2, <1>3, <1>4, EndsKeep DEF Tcp!Close, Tcp!Ends
<1>5. CASE \E says \in {"answered", "streams"}, next \in {0, records, conn[c].next + 1} :
              Tcp!Respond(c, says, next)
  BY <1>1, <1>2, <1>3, <1>5, RespondKeeps
<1>6. CASE Tcp!Goes(c, "stream") /\ UNCHANGED <<pool, buffer>>
  <2>1. "stream" \in Holding /\ "stream" # "command" /\ "stream" # "write"
    BY DEF Holding, Mine
  <2>2. buffer[conn[c].buf] \in Content
        /\ buffer' = [buffer EXCEPT ![conn[c].buf] = buffer[conn[c].buf]]
    BY <1>2, <1>6, SameBuffer
  <2> QED
    BY <1>2, <1>3, <1>6, <2>1, <2>2, LabelKeeps DEF Tcp!Goes
<1>7. CASE Tcp!Produce(c) \/ Tcp!Topic(c)
  BY <1>4, <1>5, <1>7 DEF Tcp!Produce, Tcp!Topic
<1>8. CASE Tcp!Consume(c)
  BY <1>4, <1>5, <1>8 DEF Tcp!Consume
<1>9. CASE Tcp!Follow(c)
  BY <1>4, <1>5, <1>6, <1>9 DEF Tcp!Follow, Tcp!bufferVars
<1>10. CASE Tcp!Stream(c)
  BY <1>4, <1>5, <1>10 DEF Tcp!Stream
<1> QED
  BY <1>7, <1>8, <1>9, <1>10

\* What is written is what the handler has laid out.
LEMMA WriteKeeps ==
    ASSUME TcpInv, NEW c \in Tcp!Conn, Tcp!Write(c)
    PROVE  TcpInv'
<1> DEFINE reply == buffer[conn[c].buf].reply
<1>1. /\ conn[c].pc = "write" /\ conn[c].pc \in Holding /\ conn[c].pc \in Mine
      /\ Owns(c, conn[c], pool, buffer) /\ records \in Nat /\ ran = {} /\ answers = {}
  BY DEF Tcp!Write, Tcp!At, Holding, Mine, TcpInv, TcpTypes
<1>2. reply.to = c
  BY <1>1 DEF Owns
<1>3. answers' = {} /\ ran' = {} /\ records' \in Nat /\ UNCHANGED <<ran, answers>>
  BY <1>1, <1>2 DEF Tcp!Write
<1>4. CASE Tcp!Ends(c)
  BY <1>1, <1>3, <1>4, EndsKeep DEF Tcp!Ends
<1>5. CASE Tcp!Goes(c, "stream") /\ UNCHANGED <<pool, buffer>>
  <2>1. "stream" \in Holding /\ "stream" # "command" /\ "stream" # "write"
    BY DEF Holding, Mine
  <2>2. buffer[conn[c].buf] \in Content
        /\ buffer' = [buffer EXCEPT ![conn[c].buf] = buffer[conn[c].buf]]
    BY <1>1, <1>5, SameBuffer
  <2> QED
    BY <1>1, <1>3, <1>5, <2>1, <2>2, LabelKeeps DEF Tcp!Goes
<1> QED
  BY <1>4, <1>5 DEF Tcp!Write, Tcp!bufferVars

LEMMA TcpInitial == Tcp!Init => TcpInv
<1> SUFFICES ASSUME Tcp!Init PROVE TcpInv
  OBVIOUS
<1> USE DEF Tcp!Init
<1>1. Tcp!Idle \in Handled /\ Tcp!Idle.pc = "off" /\ Tcp!Fresh \in Content
  BY DEF Tcp!Idle, Tcp!Fresh, Handled, Content, Tcp!Kind, Tcp!Sends
<1>2. "off" \notin Holding
  BY DEF Holding, Mine
<1>3. TcpTypes
  BY <1>1 DEF TcpTypes, Tcp!Buffer
<1>4. \A c \in Tcp!Conn : conn[c].pc \notin Holding
  BY <1>1, <1>2
<1> QED
  BY <1>3, <1>4 DEF TcpInv, Owns, Apart

LEMMA TcpStep == TcpInv /\ [Tcp!Next]_Tcp!vars => TcpInv'
<1> SUFFICES ASSUME TcpInv, [Tcp!Next]_Tcp!vars PROVE TcpInv'
  OBVIOUS
<1> DEFINE Same == UNCHANGED <<records, conn, pool, buffer, ran, answers>>
<1>1. CASE Same
  BY <1>1 DEF TcpInv, TcpTypes
<1>2. ASSUME NEW c \in Tcp!Conn, Tcp!Connect(c) \/ Tcp!Handler(c) PROVE TcpInv'
  BY <1>2, ConnectKeeps, AcceptKeeps, ReadsKeepBuffer, CommandKeeps, HandlersKeep, WriteKeeps
     DEF Tcp!Handler
<1>3. ASSUME NEW x \in Tcp!Conn \cup Web, Tcp!Stalls(x) \/ Tcp!Leaves(x) PROVE Same
  BY <1>3 DEF Tcp!Stalls, Tcp!Leaves, Tcp!bufferVars, Tcp!clientVars
<1>4. ASSUME NEW w \in Web, Tcp!WebOpens(w) \/ Tcp!Streaming(w) \/ Tcp!Heartbeat(w) PROVE Same
  BY <1>4 DEF Tcp!WebOpens, Tcp!Streaming, Tcp!Heartbeat, Tcp!WebConsumes, Tcp!WebStreams,
              Tcp!WebLocks, Tcp!WebWrites, Tcp!WebEnds, Tcp!WebReturns, Tcp!BeatWakes,
              Tcp!BeatLocks, Tcp!BeatWrites, Tcp!Others, Tcp!bufferVars, Tcp!clientVars
<1>5. CASE Tcp!AcceptFails \/ Tcp!Signalled \/ Tcp!Main \/ Tcp!Over \/ UNCHANGED Tcp!vars
  <2>1. Same
    BY <1>5 DEF Tcp!AcceptFails, Tcp!Signalled, Tcp!Main, Tcp!Over, Tcp!Advances, Tcp!ServersStop,
                Tcp!WebStops, Tcp!BrokerStops, Tcp!MainOnly, Tcp!bufferVars, Tcp!clientVars, Tcp!vars
  <2> QED
    BY <1>1, <2>1
<1> HIDE DEF Same
<1> QED
  BY <1>1, <1>2, <1>3, <1>4, <1>5 DEF Tcp!Next

\* The buffers of the pool come back with what an earlier connection left in
\* them, and a connection that sends nothing goes on with that header; no
\* handler runs the command that belongs to it.
THEOREM CommandsAreOwn == Tcp!Spec => []RunsWhatWasSent
<1>1. TcpInv => RunsWhatWasSent
  BY DEF TcpInv, RunsWhatWasSent
<1> QED
  BY <1>1, TcpInitial, TcpStep, PTL DEF Tcp!Spec

\* A buffer goes to the pool only when its handler has written its last message,
\* so no two handlers ever have the same one.
THEOREM AnswersAreOwn == Tcp!Spec => []AnswersItsOwn
<1>1. TcpInv => AnswersItsOwn
  BY DEF TcpInv, AnswersItsOwn
<1> QED
  BY <1>1, TcpInitial, TcpStep, PTL DEF Tcp!Spec

-----------------------------------------------------------------------------
(* The goroutines of the event streams.                                    *)

WebState == [pc : {"off", "consume", "write", "error", "stream", "end", "wait", "done"},
             beat : {"off", "sleep", "tick", "write", "done"},
             lock : {"free", "stream", "beat"},
             cancelled : BOOLEAN, live : BOOLEAN, next : Nat]

\* What StreamsEndTogether says of one stream.
Together(k) ==
    /\ k.beat = "done" \/ k.pc \in {"wait", "done"} => k.cancelled
    /\ k.lock = "beat" <=> k.beat = "write"
    /\ k.lock = "stream" => k.pc \in {"write", "error"}
    /\ k.pc = "done" => k.beat = "done" /\ k.lock = "free"

WebInv == /\ web \in [Web -> WebState]
          /\ \A w \in Web : Together(web[w])

\* A step of one stream.
LEMMA OneStream ==
    ASSUME WebInv, NEW w \in Web, NEW k \in WebState, Together(k),
           web' = [web EXCEPT ![w] = k]
    PROVE  WebInv'
<1>1. web' \in [Web -> WebState]
  BY DEF WebInv
<1>2. ASSUME NEW v \in Web PROVE Together(web'[v])
  BY DEF WebInv
<1> QED
  BY <1>1, <1>2 DEF WebInv

LEMMA StreamingKeeps ==
    ASSUME WebInv, records \in Nat, NEW w \in Web, Tcp!Streaming(w)
    PROVE  WebInv'
<1>1. web[w] \in WebState /\ Together(web[w])
  BY DEF WebInv
<1> USE DEF Tcp!StreamAt
<1>2. CASE Tcp!WebConsumes(w)
  <2>1. \E k \in WebState : Together(k) /\ web' = [web EXCEPT ![w] = k]
    BY <1>1, <1>2 DEF Tcp!WebConsumes, WebState, Together
  <2> QED
    BY <2>1, OneStream
<1>3. CASE Tcp!WebStreams(w)
  <2>1. \E k \in WebState : Together(k) /\ web' = [web EXCEPT ![w] = k]
    BY <1>1, <1>3 DEF Tcp!WebStreams, WebState, Together
  <2> QED
    BY <2>1, OneStream
<1>4. CASE Tcp!WebLocks(w)
  <2>1. \E k \in WebState : Together(k) /\ web' = [web EXCEPT ![w] = k]
    BY <1>1, <1>4 DEF Tcp!WebLocks, WebState, Together
  <2> QED
    BY <2>1, OneStream
<1>5. CASE Tcp!WebWrites(w)
  <2> DEFINE k == [web[w] EXCEPT !.lock = "free", !.cancelled = @ \/ Tcp!Fails(w),
                                 !.pc = IF @ = "error" THEN "end"
                                        ELSE IF Tcp!Fails(w) THEN "error"
                                        ELSE IF web[w].live THEN "stream" ELSE "end"]
  <2>1. web' = [web EXCEPT ![w] = k]
    BY <1>1, <1>5 DEF Tcp!WebWrites
  <2>2. k \in WebState /\ Together(k)
    BY <1>1, <1>5 DEF Tcp!WebWrites, WebState, Together
  <2> HIDE DEF k
  <2> QED
    BY <2>1, <2>2, OneStream
<1>6. CASE Tcp!WebEnds(w)
  <2>1. \E k \in WebState : Together(k) /\ web' = [web EXCEPT ![w] = k]
    BY <1>1, <1>6 DEF Tcp!WebEnds, WebState, Together
  <2> QED
    BY <2>1, OneStream
<1>7. CASE Tcp!WebReturns(w)
  <2>1. \E k \in WebState : Together(k) /\ web' = [web EXCEPT ![w] = k]
    BY <1>1, <1>7 DEF Tcp!WebReturns, Tcp!BeatIsOver, WebState, Together
  <2> QED
    BY <2>1, OneStream
<1> QED
  BY <1>2, <1>3, <1>4, <1>5, <1>6, <1>7 DEF Tcp!Streaming

LEMMA HeartbeatKeeps ==
    ASSUME WebInv, NEW w \in Web, Tcp!WebOpens(w) \/ Tcp!Heartbeat(w)
    PROVE  WebInv'
<1>1. web[w] \in WebState /\ Together(web[w])
  BY DEF WebInv
<1>2. CASE Tcp!WebOpens(w)
  <2>1. \E k \in WebState : Together(k) /\ web' = [web EXCEPT ![w] = k]
    BY <1>2 DEF Tcp!WebOpens, Tcp!Quiet, WebState, Together
  <2> QED
    BY <2>1, OneStream
<1>3. CASE Tcp!BeatWakes(w)
  <2>1. \E k \in WebState : Together(k) /\ web' = [web EXCEPT ![w] = k]
    BY <1>1, <1>3 DEF Tcp!BeatWakes, WebState, Together
  <2> QED
    BY <2>1, OneStream
<1>4. CASE Tcp!BeatLocks(w)
  <2> DEFINE k == [web[w] EXCEPT !.beat = "write", !.lock = "beat"]
  <2>1. web' = [web EXCEPT ![w] = k]
    BY <1>1, <1>4 DEF Tcp!BeatLocks
  <2>2. k \in WebState /\ Together(k)
    BY <1>1, <1>4 DEF Tcp!BeatLocks, WebState, Together
  <2> HIDE DEF k
  <2> QED
    BY <2>1, <2>2, OneStream
<1>5. CASE Tcp!BeatWrites(w)
  <2> DEFINE k == [web[w] EXCEPT !.lock = "free", !.cancelled = @ \/ Tcp!Fails(w),
                                 !.beat = IF Tcp!Fails(w) THEN "done" ELSE "sleep"]
  <2>1. web' = [web EXCEPT ![w] = k]
    BY <1>1, <1>5 DEF Tcp!BeatWrites, Tcp!CancelsStream
  <2>2. k \in WebState /\ Together(k)
    BY <1>1, <1>5 DEF Tcp!BeatWrites, Tcp!CancelsStream, WebState, Together
  <2> HIDE DEF k
  <2> QED
    BY <2>1, <2>2, OneStream
<1> QED
  BY <1>2, <1>3, <1>4, <1>5 DEF Tcp!Heartbeat

\* Stream writer and heartbeat end each other, in whatever order they meet the
\* dead connection, and neither writes to a response whose handler has returned.
THEOREM StreamsAreTogether == Tcp!Spec => []Tcp!StreamsEndTogether
<1>1. Tcp!Init => WebInv
  BY DEF Tcp!Init, Tcp!Quiet, WebInv, WebState, Together
<1>2. TcpInv /\ WebInv /\ [Tcp!Next]_Tcp!vars => WebInv'
  <2> SUFFICES ASSUME TcpInv, WebInv, [Tcp!Next]_Tcp!vars PROVE WebInv'
    OBVIOUS
  <2>1. records \in Nat
    BY DEF TcpInv, TcpTypes
  <2>2. CASE web' = web
    BY <2>2 DEF WebInv
  <2>3. ASSUME NEW c \in Tcp!Conn, Tcp!Connect(c) \/ Tcp!Handler(c) PROVE web' = web
    BY <2>3 DEF Tcp!Connect, Tcp!Handler, Tcp!Accept, Tcp!ReadHeader, Tcp!ReadBody,
                Tcp!Command, Tcp!Produce, Tcp!Topic, Tcp!Consume, Tcp!Follow, Tcp!Stream,
                Tcp!Write
  <2>4. ASSUME NEW x \in Tcp!Conn \cup Web, Tcp!Stalls(x) \/ Tcp!Leaves(x) PROVE web' = web
    BY <2>4 DEF Tcp!Stalls, Tcp!Leaves
  <2>5. ASSUME NEW w \in Web, Tcp!WebOpens(w) \/ Tcp!Streaming(w) \/ Tcp!Heartbeat(w)
        PROVE  WebInv'
    BY <2>1, <2>5, StreamingKeeps, HeartbeatKeeps
  <2>6. CASE Tcp!AcceptFails \/ Tcp!Signalled \/ Tcp!Main \/ Tcp!Over \/ UNCHANGED Tcp!vars
    <3>1. web' = web
      BY <2>6 DEF Tcp!AcceptFails, Tcp!Signalled, Tcp!Main, Tcp!Over, Tcp!Advances,
                  Tcp!ServersStop, Tcp!WebStops, Tcp!BrokerStops, Tcp!MainOnly, Tcp!vars
    <3> QED
      BY <2>2, <3>1
  <2> QED
    BY <2>2, <2>3, <2>4, <2>5, <2>6 DEF Tcp!Next
<1>3. WebInv => Tcp!StreamsEndTogether
  BY DEF WebInv, Together, Tcp!StreamsEndTogether
<1> QED
  BY <1>1, <1>2, <1>3, TcpInitial, TcpStep, PTL DEF Tcp!Spec

-----------------------------------------------------------------------------
(* The clients that wait.                                                  *)

Told == {"none", "waiting", "nothing", "ended", "error", "answered", "streams"}

WaitInv ==
    /\ phase \in 1 .. 5
    /\ outcome \in [Tcp!Conn -> Told]
    /\ \A c \in Tcp!Conn :
          outcome[c] = "waiting" => phase # 5 /\ conn[c].pc \notin {"off", "closed"}

LEMMA WhileRunning ==
    ASSUME phase \in 1 .. 5
    PROVE  /\ Tcp!Running <=> phase # 5
           /\ Tcp!Now("up") <=> phase = 1
           /\ Tcp!Now("stopping") <=> phase = 2
           /\ Tcp!Now("web") <=> phase = 3
           /\ Tcp!Now("broker") <=> phase = 4
BY DEF Tcp!Running, Tcp!Now, Tcp!Phase

\* A handler goes on, or it ends and its client is told.
GoesOrTells(c) ==
    /\ \A d \in Tcp!Conn : d # c => conn'[d] = conn[d]
    /\ \/ conn'[c].pc \notin {"off", "closed"} /\ UNCHANGED outcome
       \/ \E v \in Told \ {"waiting"} : outcome' = [outcome EXCEPT ![c] = v]

LEMMA ServedGoesOn ==
    ASSUME WaitInv, NEW c \in Tcp!Conn, phase # 5, UNCHANGED phase, GoesOrTells(c)
    PROVE  WaitInv'
BY DEF WaitInv, GoesOrTells

LEMMA ClosingTells ==
    ASSUME WaitInv, NEW c \in Tcp!Conn
    PROVE  Tcp!OnClose(c) \in Told \ {"waiting"}
<1>1. outcome[c] \in Told
  BY DEF WaitInv
<1>2. CASE outcome[c] # "waiting"
  BY <1>1, <1>2 DEF Tcp!OnClose, Tcp!Waiting
<1>3. CASE outcome[c] = "waiting"
  <2>1. CASE conn[c].kind = "consume"
    BY <1>3, <2>1 DEF Tcp!OnClose, Tcp!Waiting, Told
  <2>2. CASE conn[c].kind = "follow"
    BY <1>3, <2>2 DEF Tcp!OnClose, Tcp!Waiting, Told
  <2>3. CASE conn[c].kind \notin {"consume", "follow"}
    BY <1>3, <2>3 DEF Tcp!OnClose, Tcp!Waiting, Told
  <2> QED
    BY <2>1, <2>2, <2>3
<1> QED
  BY <1>2, <1>3

\* The ways to end a handler.
LEMMA EndTells ==
    ASSUME TcpInv, WaitInv, NEW c \in Tcp!Conn,
           Tcp!Close(c) \/ Tcp!Refuse(c) \/ Tcp!HangUp(c)
    PROVE  GoesOrTells(c)
<1>1. \A d \in Tcp!Conn : d # c => conn'[d] = conn[d]
  BY DEF TcpInv, TcpTypes, Tcp!Close, Tcp!Ends, Tcp!Refuse, Tcp!HangUp
<1>2. CASE Tcp!Close(c) \/ Tcp!HangUp(c)
  BY <1>1, <1>2, ClosingTells DEF Tcp!Close, Tcp!HangUp, Tcp!Closes, GoesOrTells
<1>3. CASE Tcp!Refuse(c)
  <2> DEFINE v == IF Tcp!Waiting(c) THEN "error" ELSE outcome[c]
  <2>1. outcome' = [outcome EXCEPT ![c] = v]
    BY <1>3 DEF Tcp!Refuse
  <2>2. v \in Told \ {"waiting"}
    BY DEF WaitInv, Tcp!Waiting, Told
  <2> HIDE DEF v
  <2> QED
    BY <1>1, <2>1, <2>2 DEF GoesOrTells
<1> QED
  BY <1>2, <1>3

\* The ways to go on.
LEMMA GoingTells ==
    ASSUME TcpInv, NEW c \in Tcp!Conn, UNCHANGED outcome,
           \E k \in Handled : conn' = [conn EXCEPT ![c] = k] /\ k.pc \notin {"off", "closed"}
    PROVE  GoesOrTells(c)
BY DEF TcpInv, TcpTypes, GoesOrTells

LEMMA LabelTells ==
    ASSUME TcpInv, NEW c \in Tcp!Conn, NEW label \in {"queued"} \cup Holding,
           conn' = [conn EXCEPT ![c].pc = label], UNCHANGED outcome
    PROVE  GoesOrTells(c)
<1>1. conn' = [conn EXCEPT ![c] = [conn[c] EXCEPT !.pc = label]] /\ conn[c] \in Handled
  BY DEF TcpInv, TcpTypes
<1>2. [conn[c] EXCEPT !.pc = label] \in Handled /\ label \notin {"off", "closed"}
      /\ [conn[c] EXCEPT !.pc = label].pc = label
  BY <1>1 DEF Handled, Holding, Mine
<1> QED
  BY <1>1, <1>2, GoingTells

LEMMA RespondTells ==
    ASSUME TcpInv, NEW c \in Tcp!Conn, NEW says, NEW next \in Nat, Tcp!Respond(c, says, next)
    PROVE  GoesOrTells(c)
<1> DEFINE k == [conn[c] EXCEPT !.pc = "write", !.next = next]
<1>1. conn' = [conn EXCEPT ![c] = k] /\ conn[c] \in Handled /\ UNCHANGED outcome
  BY DEF TcpInv, TcpTypes, Tcp!Respond
<1>2. k \in Handled /\ k.pc = "write"
  BY <1>1 DEF Handled, Holding, Mine
<1> HIDE DEF k
<1> QED
  BY <1>1, <1>2, GoingTells

LEMMA HandlerTells ==
    ASSUME TcpInv, WaitInv, NEW c \in Tcp!Conn, Tcp!Handler(c)
    PROVE  GoesOrTells(c) /\ phase # 5 /\ UNCHANGED phase
<1>0. phase # 5 /\ UNCHANGED phase
  BY WhileRunning DEF WaitInv, Tcp!Handler, Tcp!Accept, Tcp!ReadHeader, Tcp!ReadBody,
     Tcp!Command, Tcp!Produce, Tcp!Topic, Tcp!Consume, Tcp!Follow, Tcp!Stream, Tcp!Write,
     Tcp!At
<1>1. /\ conn \in [Tcp!Conn -> Handled] /\ conn[c] \in Handled /\ records \in Nat
      /\ ran = {} /\ Owns(c, conn[c], pool, buffer)
  BY DEF TcpInv, TcpTypes
<1>2. CASE Tcp!Accept(c)
  <2>1. PICK b \in Tcp!Conn : conn' = [conn EXCEPT ![c].pc = "header", ![c].buf = b]
    BY <1>2 DEF Tcp!Accept, Tcp!Buffer
  <2> DEFINE k == [conn[c] EXCEPT !.pc = "header", !.buf = b]
  <2>2. conn' = [conn EXCEPT ![c] = k] /\ k \in Handled /\ k.pc = "header" /\ UNCHANGED outcome
    BY <1>1, <1>2, <2>1 DEF Handled, Holding, Tcp!Accept, Tcp!clientVars
  <2> HIDE DEF k
  <2> QED
    BY <1>0, <2>2, GoingTells
<1>3. CASE Tcp!ReadHeader(c)
  <2>1. Tcp!Refuse(c) \/ (Tcp!Goes(c, "body") /\ UNCHANGED outcome)
    BY <1>3 DEF Tcp!ReadHeader
  <2>2. "body" \in Holding
    BY DEF Holding
  <2> QED
    BY <1>0, <2>1, <2>2, EndTells, LabelTells DEF Tcp!Goes
<1>4. CASE Tcp!ReadBody(c)
  <2>1. Tcp!Refuse(c) \/ Tcp!HangUp(c) \/ (Tcp!Goes(c, "command") /\ UNCHANGED outcome)
    BY <1>4 DEF Tcp!ReadBody
  <2>2. "command" \in Holding
    BY DEF Holding
  <2> QED
    BY <1>0, <2>1, <2>2, EndTells, LabelTells DEF Tcp!Goes
<1>5. CASE Tcp!Command(c)
  <2> DEFINE request == buffer[conn[c].buf].body
             k == [conn[c] EXCEPT !.pc = conn[request].kind, !.of = request]
  <2>1. conn[c].pc = "command" /\ request = c
    BY <1>1, <1>5 DEF Tcp!Command, Tcp!At, Owns, Holding
  <2>2. conn' = [conn EXCEPT ![c] = k] /\ UNCHANGED outcome
    BY <1>1, <1>5 DEF Tcp!Command, Tcp!clientVars
  <2>3. k \in Handled /\ k.pc \notin {"off", "closed"}
    BY <1>1, <2>1 DEF Handled, Holding, Mine, Tcp!Kind
  <2> HIDE DEF k
  <2> QED
    BY <1>0, <2>2, <2>3, GoingTells
<1>6. CASE Tcp!Produce(c) \/ Tcp!Topic(c) \/ Tcp!Consume(c) \/ Tcp!Follow(c) \/ Tcp!Stream(c)
  <2>1. \/ \E says \in {"answered", "streams"}, next \in {0, records, conn[c].next + 1} :
              Tcp!Respond(c, says, next)
        \/ Tcp!Close(c)
        \/ Tcp!Goes(c, "stream") /\ UNCHANGED outcome
    BY <1>6 DEF Tcp!Produce, Tcp!Topic, Tcp!Consume, Tcp!Follow, Tcp!Stream
  <2>2. "stream" \in Holding /\ {0, records, conn[c].next + 1} \subseteq Nat
    BY <1>1 DEF Holding, Mine, Handled
  <2> QED
    BY <1>0, <2>1, <2>2, EndTells, LabelTells, RespondTells DEF Tcp!Goes
<1>7. CASE Tcp!Write(c)
  <2> DEFINE says == buffer[conn[c].buf].reply.says
  <2>1. conn[c].pc = "write" /\ conn[c].buf \in Tcp!Conn
    BY <1>1, <1>7 DEF Tcp!Write, Tcp!At, Owns, Holding, Mine
  <2>2. says \in Told \ {"waiting"}
    BY <2>1 DEF TcpInv, TcpTypes, Content, Told
  <2>3. outcome[c] \in Told /\ outcome = [outcome EXCEPT ![c] = outcome[c]]
    BY DEF WaitInv
  <2>4. /\ \A d \in Tcp!Conn : d # c => conn'[d] = conn[d]
        /\ \E v \in Told \ {"waiting"} : outcome' = [outcome EXCEPT ![c] = v]
    <3>1. CASE Tcp!Ends(c) /\ outcome' = [outcome EXCEPT ![c] = IF Tcp!Waiting(c) THEN says ELSE @]
      BY <1>1, <2>2, <2>3, <3>1 DEF Tcp!Ends, Tcp!Waiting
    <3>2. CASE Tcp!Goes(c, "stream")
               /\ outcome' = [outcome EXCEPT ![c] = IF Tcp!Waiting(c) THEN "streams" ELSE @]
      BY <1>1, <2>3, <3>2 DEF Tcp!Goes, Tcp!Waiting, Told
    <3> QED
      BY <1>7, <3>1, <3>2 DEF Tcp!Write
  <2> QED
    BY <1>0, <2>4 DEF GoesOrTells
<1> QED
  BY <1>2, <1>3, <1>4, <1>5, <1>6, <1>7 DEF Tcp!Handler

\* No client waits on a connection whose handler is over, or for a process that
\* has ended: of the many returns of the handlers there is none that leaves the
\* connection open and says nothing.
THEOREM WaitersAreServed == Tcp!Spec => []Tcp!WaitsOnlyIfServed
<1>1. Tcp!Init => WaitInv
  BY DEF Tcp!Init, WaitInv, Told
<1>2. TcpInv /\ WaitInv /\ [Tcp!Next]_Tcp!vars => WaitInv'
  <2> SUFFICES ASSUME TcpInv, WaitInv, [Tcp!Next]_Tcp!vars PROVE WaitInv'
    OBVIOUS
  <2>1. CASE UNCHANGED <<phase, conn, outcome>>
    BY <2>1 DEF WaitInv
  <2>2. ASSUME NEW c \in Tcp!Conn, Tcp!Handler(c) PROVE WaitInv'
    BY <2>2, HandlerTells, ServedGoesOn
  <2>3. ASSUME NEW c \in Tcp!Conn, Tcp!Connect(c) PROVE WaitInv'
    <3>1. /\ phase # 5 /\ phase' = phase
          /\ conn' = [conn EXCEPT ![c] = conn'[c]] /\ conn'[c].pc = "queued"
          /\ \E v \in {"waiting", "none"} : outcome' = [outcome EXCEPT ![c] = v]
      <4>1. PICK k \in Tcp!Kind, s \in Tcp!Sends :
               /\ Tcp!Running /\ phase' = phase
               /\ conn' = [conn EXCEPT ![c] =
                             [Tcp!Idle EXCEPT !.pc = "queued", !.kind = k, !.sends = s]]
               /\ outcome' = [outcome EXCEPT ![c] =
                                IF s \in {"all", "empty", "big"} THEN "waiting" ELSE "none"]
        BY <2>3 DEF Tcp!Connect
      <4>2. conn \in [Tcp!Conn -> Handled]
        BY DEF TcpInv, TcpTypes
      <4> QED
        BY <4>1, <4>2, WhileRunning DEF WaitInv, Tcp!Idle
    <3>2. conn \in [Tcp!Conn -> Handled]
      BY DEF TcpInv, TcpTypes
    <3>3. /\ phase' \in 1 .. 5 /\ phase' # 5
          /\ outcome' \in [Tcp!Conn -> Told]
      BY <3>1 DEF WaitInv, Told
    <3>4. \A d \in Tcp!Conn : d # c => conn'[d] = conn[d] /\ outcome'[d] = outcome[d]
      BY <3>1, <3>2 DEF WaitInv
    <3> QED
      BY <3>1, <3>3, <3>4 DEF WaitInv
  <2>4. ASSUME NEW x \in Tcp!Conn \cup Web, Tcp!Stalls(x) PROVE UNCHANGED <<phase, conn, outcome>>
    BY <2>4 DEF Tcp!Stalls, Tcp!clientVars
  <2>5. ASSUME NEW x \in Tcp!Conn \cup Web, Tcp!Leaves(x) PROVE WaitInv'
    <3>1. UNCHANGED <<phase, conn>>
          /\ outcome' = [c \in Tcp!Conn |-> IF c = x THEN "none" ELSE outcome[c]]
      BY <2>5 DEF Tcp!Leaves
    <3> QED
      BY <3>1 DEF WaitInv, Told
  <2>6. ASSUME NEW w \in Web, Tcp!WebOpens(w) \/ Tcp!Streaming(w) \/ Tcp!Heartbeat(w)
        PROVE  UNCHANGED <<phase, conn, outcome>>
    BY <2>6 DEF Tcp!WebOpens, Tcp!Streaming, Tcp!Heartbeat, Tcp!WebConsumes, Tcp!WebStreams,
                Tcp!WebLocks, Tcp!WebWrites, Tcp!WebEnds, Tcp!WebReturns, Tcp!BeatWakes,
                Tcp!BeatLocks, Tcp!BeatWrites, Tcp!Others, Tcp!clientVars
  <2>7. CASE Tcp!AcceptFails \/ Tcp!Over \/ UNCHANGED Tcp!vars
    BY <2>1, <2>7 DEF Tcp!AcceptFails, Tcp!Over, Tcp!vars, Tcp!clientVars
  <2>8. CASE Tcp!Signalled \/ Tcp!ServersStop \/ Tcp!WebStops
    <3>1. phase \in {1, 2, 3} /\ phase' = phase + 1 /\ UNCHANGED <<conn, outcome>>
      BY <2>8, WhileRunning
         DEF Tcp!Signalled, Tcp!ServersStop, Tcp!WebStops, Tcp!Advances, Tcp!MainOnly,
             WaitInv
    <3> QED
      BY <3>1 DEF WaitInv
  <2>9. CASE Tcp!BrokerStops
    <3>1. /\ phase = 4 /\ phase' = phase + 1
          /\ outcome' = [c \in Tcp!Conn |-> Tcp!OnClose(c)]
      BY <2>9, WhileRunning DEF Tcp!BrokerStops, WaitInv
    <3>2. outcome' \in [Tcp!Conn -> Told] /\ \A c \in Tcp!Conn : outcome'[c] # "waiting"
      BY <3>1, ClosingTells
    <3> QED
      BY <3>1, <3>2 DEF WaitInv
  <2> QED
    BY <2>1, <2>2, <2>3, <2>4, <2>5, <2>6, <2>7, <2>8, <2>9 DEF Tcp!Next, Tcp!Main
<1>3. WaitInv => Tcp!WaitsOnlyIfServed
  BY WhileRunning DEF WaitInv, Tcp!WaitsOnlyIfServed, Tcp!Waiting
<1> QED
  BY <1>1, <1>2, <1>3, TcpInitial, TcpStep, PTL DEF Tcp!Spec

=============================================================================
