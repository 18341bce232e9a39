------------------------------ MODULE EventBus ------------------------------
(***************************************************************************)
(* The bus that spreads cluster events to the browsers watching the        *)
(* cluster: Publish, the dispatcher (run), Subscribe, Unsubscribe.         *)
(*                                                                         *)
(* The channels subscribe and unsubscribe have no buffer: a send is one    *)
(* step with the dispatcher's receive.  An event is the number of the      *)
(* Publish call that brings it.                                            *)
(***************************************************************************)
EXTENDS Naturals, Sequences, FiniteSets

CONSTANTS
    Id,          \* subscriptions; nextID gives every Subscribe its own
    Publisher,   \* goroutines that publish
    IngressCap,  \* capacity of ingress
    QueueCap,    \* capacity of a subscription's channel
    MaxEvents    \* bound: calls of Publish

ASSUME CapacityAssumption == /\ IngressCap \in Nat \ {0}
                             /\ QueueCap \in Nat \ {0}
                             /\ MaxEvents \in Nat

Event == 1..MaxEvents

VARIABLES
    ingress,      \* events accepted and not yet dispatched
    overflow,     \* the signal channel, of capacity one, is full
    signalling,   \* publishers between the failed send and the signal
    subscribers,  \* the map of the dispatcher
    queue,        \* buffer of each subscription's channel
    closed,       \* subscriptions whose channel is closed
    stopping,     \* context of the bus is cancelled
    stopped,      \* run has returned
    call,         \* where the goroutine of each subscription is
    cancelled,    \* subscriptions whose context is cancelled
    published,    \* calls of Publish so far
    accepted,     \* history: the events Publish returned true for
    taken,        \* history: what each client has read from its channel
    missed        \* history: registered when Publish refused an event

busVars  == <<ingress, overflow, subscribers, closed, stopping, stopped>>
pubVars  == <<signalling, published, accepted>>
callVars == <<call, cancelled>>
vars == <<busVars, pubVars, callVars, queue, taken, missed>>

Init ==
    /\ ingress = <<>>
    /\ overflow = FALSE
    /\ signalling = {}
    /\ subscribers = {}
    /\ queue = [i \in Id |-> <<>>]
    /\ closed = {}
    /\ stopping = FALSE
    /\ stopped = FALSE
    /\ call = [i \in Id |-> "new"]
    /\ cancelled = {}
    /\ published = 0
    /\ accepted = <<>>
    /\ taken = [i \in Id |-> <<>>]
    /\ missed = {}

-----------------------------------------------------------------------------
(* Publish.                                                                *)

PublishAccepted ==
    /\ Len(ingress) < IngressCap
    /\ ingress' = Append(ingress, published + 1)
    /\ accepted' = Append(accepted, published + 1)
    /\ UNCHANGED <<signalling, missed>>

PublishRefused(p) ==
    /\ Len(ingress) = IngressCap
    /\ signalling' = signalling \cup {p}
    /\ missed' = missed \cup subscribers
    /\ UNCHANGED <<ingress, accepted>>

Publish(p) ==
    /\ published < MaxEvents
    /\ p \notin signalling
    /\ published' = published + 1
    /\ PublishAccepted \/ PublishRefused(p)
    /\ UNCHANGED <<overflow, subscribers, closed, stopping, stopped, callVars,
                   queue, taken>>

\* Slip: the refused event is only reported to the caller.
SignalNothing(p) ==
    /\ p \in signalling
    /\ signalling' = signalling \ {p}
    /\ UNCHANGED <<busVars, published, accepted, callVars, queue, taken, missed>>

\* A signal that is already pending stands for this loss too.
Signal(p) ==
    /\ p \in signalling
    /\ signalling' = signalling \ {p}
    /\ overflow' = TRUE
    /\ UNCHANGED <<ingress, subscribers, closed, stopping, stopped, published,
                   accepted, callVars, queue, taken, missed>>

-----------------------------------------------------------------------------
(* The dispatcher: one branch of its select a step.                        *)

\* closeSubscriber, for each of S.
Close(S) == /\ subscribers' = subscribers \ S
            /\ closed' = closed \cup (S \cap subscribers)

Slow == {i \in subscribers : Len(queue[i]) = QueueCap}

\* The next event goes to every subscriber with room for it.
HandOut(closing) ==
    /\ ~stopped
    /\ ingress # <<>>
    /\ ingress' = Tail(ingress)
    /\ queue' = [i \in Id |-> IF i \in subscribers \ Slow
                              THEN Append(queue[i], Head(ingress))
                              ELSE queue[i]]
    /\ Close(closing)
    /\ UNCHANGED <<overflow, stopping, stopped, pubVars, callVars, taken, missed>>

\* Slip: the event is not sent to the slow, who stay.
DispatchPastSlow == HandOut({})

\* The slow are closed, and have to subscribe again.
Dispatch == HandOut(Slow)

HandleOverflow ==
    /\ ~stopped
    /\ overflow
    /\ overflow' = FALSE
    /\ Close(subscribers)
    /\ UNCHANGED <<ingress, stopping, stopped, pubVars, callVars, queue, taken,
                   missed>>

\* Slip: run returns as it is.
StopAtOnce ==
    /\ stopping /\ ~stopped
    /\ stopped' = TRUE
    /\ UNCHANGED <<ingress, overflow, stopping, subscribers, closed, pubVars,
                   callVars, queue, taken, missed>>

\* ctx.Done: nothing that waits in ingress is dispatched any more.
Stop ==
    /\ stopping /\ ~stopped
    /\ stopped' = TRUE
    /\ Close(subscribers)
    /\ UNCHANGED <<ingress, overflow, stopping, pubVars, callVars, queue, taken,
                   missed>>

Cancel ==
    /\ ~stopping
    /\ stopping' = TRUE
    /\ UNCHANGED <<ingress, overflow, subscribers, closed, stopped, pubVars,
                   callVars, queue, taken, missed>>

-----------------------------------------------------------------------------
(* One subscription: Subscribe, the client's loop, Unsubscribe.            *)

Goes(i, from, to) == /\ call[i] = from
                     /\ call' = [call EXCEPT ![i] = to]

NoCallEffect == UNCHANGED <<busVars, pubVars, cancelled, queue, taken, missed>>

Subscribe(i) == Goes(i, "new", "asking") /\ NoCallEffect

\* The dispatcher enters the channel in its map and closes done.
Register(i) ==
    /\ ~stopped
    /\ Goes(i, "asking", "entered")
    /\ subscribers' = subscribers \cup {i}
    /\ UNCHANGED <<ingress, overflow, closed, stopping, stopped, pubVars,
                   cancelled, queue, taken, missed>>

Subscribed(i) == Goes(i, "entered", "open") /\ NoCallEffect

\* Either select of Subscribe takes ctx.Done; after the first send the
\* channel stays in the dispatcher's map.
GivesUp(i) ==
    /\ i \in cancelled
    /\ Goes(i, "asking", "over") \/ Goes(i, "entered", "over")
    /\ NoCallEffect

CancelCall(i) ==
    /\ call[i] # "over"
    /\ i \notin cancelled
    /\ cancelled' = cancelled \cup {i}
    /\ UNCHANGED <<busVars, pubVars, call, queue, taken, missed>>

Receive(i) ==
    /\ call[i] = "open"
    /\ queue[i] # <<>>
    /\ queue' = [queue EXCEPT ![i] = Tail(@)]
    /\ taken' = [taken EXCEPT ![i] = Append(@, Head(queue[i]))]
    /\ UNCHANGED <<busVars, pubVars, callVars, missed>>

\* The channel is closed and empty.
EndsByClose(i) ==
    /\ i \in closed
    /\ queue[i] = <<>>
    /\ Goes(i, "open", "leaving")
    /\ NoCallEffect

\* The client goes away.
EndsByCancel(i) ==
    /\ i \in cancelled
    /\ Goes(i, "open", "leaving")
    /\ NoCallEffect

\* Unsubscribe reaches the dispatcher ...
Unsubscribe(i) ==
    /\ ~stopped
    /\ Goes(i, "leaving", "over")
    /\ Close({i})
    /\ UNCHANGED <<ingress, overflow, stopping, stopped, pubVars, cancelled,
                   queue, taken, missed>>

\* ... or its context ends it, and the channel stays in the map.
UnsubscribeCancelled(i) ==
    /\ i \in cancelled
    /\ Goes(i, "leaving", "over")
    /\ NoCallEffect

-----------------------------------------------------------------------------
Dispatcher ==
    \/ Dispatch \/ HandleOverflow \/ Stop
    \/ \E i \in Id : Register(i) \/ Unsubscribe(i)

Reads(i) == Receive(i) \/ EndsByClose(i)

Call(i) ==
    \/ Subscribe(i) \/ Subscribed(i) \/ GivesUp(i) \/ CancelCall(i)
    \/ Reads(i) \/ EndsByCancel(i) \/ UnsubscribeCancelled(i)

Next ==
    \/ \E p \in Publisher : Publish(p) \/ Signal(p)
    \/ Dispatcher
    \/ Cancel
    \/ \E i \in Id : Call(i)

Spec == Init /\ [][Next]_vars

\* A goroutine that can go on does.  The select of the dispatcher picks at
\* random among the branches that are ready, so none of them waits for ever.
\* A client reads what it is sent; nobody has to subscribe, to publish or to
\* cancel.
Fairness ==
    /\ \A p \in Publisher : WF_vars(Signal(p))
    /\ WF_vars(Dispatch) /\ WF_vars(HandleOverflow) /\ WF_vars(Stop)
    /\ \A i \in Id : /\ WF_vars(Register(i)) /\ WF_vars(Unsubscribe(i))
                     /\ WF_vars(Subscribed(i) \/ GivesUp(i))
                     /\ WF_vars(Reads(i) \/ EndsByCancel(i))
                     /\ WF_vars(UnsubscribeCancelled(i))

FairSpec == Spec /\ Fairness

-----------------------------------------------------------------------------
(* Properties.                                                             *)

TypeOK ==
    /\ ingress \in Seq(Event) /\ Len(ingress) <= IngressCap
    /\ overflow \in BOOLEAN
    /\ signalling \subseteq Publisher
    /\ subscribers \subseteq Id
    /\ queue \in [Id -> Seq(Event)] /\ \A i \in Id : Len(queue[i]) <= QueueCap
    /\ closed \subseteq Id /\ closed \cap subscribers = {}
    /\ stopping \in BOOLEAN
    /\ stopped \in BOOLEAN
    /\ call \in [Id -> {"new", "asking", "entered", "open", "leaving", "over"}]
    /\ cancelled \subseteq Id
    /\ published \in 0..MaxEvents
    /\ accepted \in Seq(Event)
    /\ taken \in [Id -> Seq(Event)]
    /\ missed \subseteq Id

\* A subscription that was registered when an event was refused is closed, or
\* will be: a signal is pending, or a publisher is about to give one.  No
\* signal that is absorbed by a pending one, or taken just before another
\* refusal, leaves a subscriber with a hole nobody tells it of.
HoleIsSignalled ==
    missed \cap subscribers # {} => overflow \/ signalling # {}

\* The bus implements the feed: what a client has read, with what waits in its
\* channel, is every event dispatched from its registration to its close.
Feed == INSTANCE EventFeed
    WITH Subscriber <- Id,
         feed <- accepted,
         at <- Len(accepted) - Len(ingress),
         view <- [i \in Id |-> taken[i] \o queue[i]],
         open <- subscribers,
         over <- closed

IsFeed == Feed!Spec

\* A client that keeps reading and has lost an event, or whose bus has
\* stopped, is told: its loop ends.
ToldOfLoss ==
    \A i \in Id : (i \in missed \/ stopped) /\ call[i] = "open"
                      ~> call[i] # "open"

-----------------------------------------------------------------------------
(* What the code's comments say of it, and the code does not do.           *)

\* run: the current subscribers are closed because they cannot be trusted; so
\* none of them is given an event after the one that was refused.
NothingAfterHole ==
    [][\A i \in missed : queue'[i] = queue[i] \/ Len(queue'[i]) < Len(queue[i])]_vars

\* Subscription.Unsubscribe takes the caller out of the dispatcher's map; so
\* one whose caller is gone does not stay there.
GoneIsRemoved ==
    \A i \in Id : call[i] = "over" ~> i \notin subscribers
=============================================================================
