----------------------------- MODULE EventFeed -----------------------------
(***************************************************************************)
(* What the event bus promises its subscribers: one feed of events; an     *)
(* open subscription gets every event the feed hands out, in its order,    *)
(* until it is closed, and nothing after that.                             *)
(***************************************************************************)
EXTENDS Naturals, Sequences

CONSTANTS Subscriber, Event

VARIABLES
    feed,  \* the accepted events
    at,    \* how many of them have been handed out
    view,  \* what each subscription has been given
    open,  \* subscriptions that are being served
    over   \* subscriptions that have ended

vars == <<feed, at, view, open, over>>

Init == /\ feed = <<>>
        /\ at = 0
        /\ view = [s \in Subscriber |-> <<>>]
        /\ open = {}
        /\ over = {}

Accept == /\ \E e \in Event : feed' = Append(feed, e)
          /\ UNCHANGED <<at, view, open, over>>

Join(s) == /\ s \notin open \cup over
           /\ open' = open \cup {s}
           /\ UNCHANGED <<feed, at, view, over>>

End(gone) == /\ open' = open \ gone
             /\ over' = over \cup gone

\* The next event goes to everyone who stays.
HandOut ==
    \E gone \in SUBSET open :
        /\ at < Len(feed)
        /\ at' = at + 1
        /\ view' = [s \in Subscriber |-> IF s \in open \ gone
                                         THEN Append(view[s], feed[at + 1])
                                         ELSE view[s]]
        /\ End(gone)
        /\ UNCHANGED feed

EndSome == /\ \E gone \in SUBSET open : gone # {} /\ End(gone)
           /\ UNCHANGED <<feed, at, view>>

Next == Accept \/ HandOut \/ EndSome \/ \E s \in Subscriber : Join(s)

Spec == Init /\ [][Next]_vars
=============================================================================
