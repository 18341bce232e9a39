---------------------------- MODULE TopicRouting ----------------------------
(***************************************************************************)
(* Creating a topic from any node: CreateTopicRouted, which forwards to    *)
(* the controller, CreateTopic on the controller, the command-line client, *)
(* which follows a hint; and the view of the cluster each node keeps       *)
(* (readClusterView), from which routing decides and readers are answered. *)
(*                                                                         *)
(* All requests create the same topic.  What etcd holds is the sequence of *)
(* its versions, so a view is a position in it.                            *)
(***************************************************************************)
EXTENDS Naturals, Sequences, FiniteSets

CONSTANTS
    Node,        \* brokers
    Request,     \* creations of the topic
    Cli,         \* those made by the command-line client; others come by HTTP
    Reader,      \* goroutines that serve DescribeTopic and the overviews
    NoOne,       \* no node, no request
    Factor,      \* replication factor asked for
    MaxChanges,  \* bound: elections, losses and returns of nodes
    MaxErrors    \* bound: failed etcd calls, given-up and lost calls

ASSUME RoutingAssumption == /\ Cli \subseteq Request
                            /\ Request \cap Reader = {}
                            /\ NoOne \notin Node \cup Request
                            /\ MaxChanges \in Nat /\ MaxErrors \in Nat

Process == Request \cup Reader

VARIABLES
    versions,  \* what etcd has held: registered nodes, leader, topic
    role,      \* nodes whose broker has the role Controller
    cache,     \* NodeCoordinator.viewCache; 0 = nil
    viewMx,    \* who holds the lock on it
    got,       \* the view each goroutine works with
    pc,        \* where each goroutine is
    entry,     \* the node a request or reader has come to
    on,        \* the node whose CreateTopic works on the request
    result,    \* what that CreateTopic returned
    ans,       \* the answer the client has
    hinted,    \* command-line clients that have followed a hint
    shown,     \* history: the view each node gave a reader last
    budget     \* changes and errors that may still happen

nodeVars == <<role, cache, viewMx, shown>>
reqVars  == <<entry, on, result, ans, hinted>>
vars == <<versions, nodeVars, got, pc, reqVars, budget>>

\* topic: the request whose placement the key holds.
Version == [nodes : SUBSET Node, leader : Node, topic : Request \cup {NoOne}]
Current == versions[Len(versions)]

\* buildClusterView: the recorded leader counts only if it is registered in
\* the same view.
Controller(v) == LET view == versions[v] IN
    IF view.leader \in view.nodes THEN view.leader ELSE NoOne

Spend(kind) == /\ budget[kind] > 0
               /\ budget' = [budget EXCEPT ![kind] = @ - 1]

Goto(p, label) == pc' = [pc EXCEPT ![p] = label]

Init ==
    /\ \E n \in Node, alive \in SUBSET Node :
         /\ versions = <<[nodes |-> alive, leader |-> n, topic |-> NoOne]>>
         /\ role = {n}
    /\ cache = [n \in Node |-> 0]
    /\ viewMx = [n \in Node |-> {}]
    /\ shown = [n \in Node |-> 0]
    /\ got = [p \in Process |-> 0]
    /\ pc = [p \in Process |-> "new"]
    /\ entry = [p \in Process |-> NoOne]
    /\ on = [r \in Request |-> NoOne]
    /\ result = [r \in Request |-> "none"]
    /\ ans = [r \in Request |-> "none"]
    /\ hinted = {}
    /\ budget = [change |-> MaxChanges, error |-> MaxErrors]

-----------------------------------------------------------------------------
(* The cluster around.                                                     *)

Changes(view) ==
    /\ Spend("change")
    /\ versions' = Append(versions, view)
    /\ UNCHANGED <<nodeVars, got, pc, reqVars>>

Elect(n)  == /\ n \in Current.nodes /\ Current.leader # n
             /\ Changes([Current EXCEPT !.leader = n])
Evict(n)  == /\ n \in Current.nodes
             /\ Changes([Current EXCEPT !.nodes = @ \ {n}])
Return(n) == /\ n \notin Current.nodes
             /\ Changes([Current EXCEPT !.nodes = @ \cup {n}])

\* A node learns later who leads.
RoleFollows(n) ==
    /\ (n \in role) # (Current.leader = n)
    /\ role' = IF n \in role THEN role \ {n} ELSE role \cup {n}
    /\ UNCHANGED <<versions, cache, viewMx, shown, got, pc, reqVars, budget>>

-----------------------------------------------------------------------------
(* readClusterView: p reads at node n and goes on at label.                *)

\* Slip: the lock is not held during the call of etcd.
Open(n) == TRUE
Free(n) == viewMx[n] = {}

\* A view younger than the age the caller allows.
TakeCached(p, n, label) ==
    /\ Free(n)
    /\ cache[n] # 0
    /\ got' = [got EXCEPT ![p] = cache[n]]
    /\ Goto(p, label)
    /\ UNCHANGED <<versions, nodeVars, reqVars, budget>>

\* The transaction of fetchClusterView reads one revision ...
Fetch(p, n) ==
    /\ p \notin viewMx[n]
    /\ Free(n)
    /\ viewMx' = [viewMx EXCEPT ![n] = @ \cup {p}]
    /\ got' = [got EXCEPT ![p] = Len(versions)]
    /\ UNCHANGED <<versions, role, cache, shown, pc, reqVars, budget>>

\* ... and its answer becomes the cached view.
Store(p, n, label) ==
    /\ p \in viewMx[n]
    /\ viewMx' = [viewMx EXCEPT ![n] = @ \ {p}]
    /\ cache' = [cache EXCEPT ![n] = got[p]]
    /\ Goto(p, label)
    /\ UNCHANGED <<versions, role, shown, got, reqVars, budget>>

ReadView(p, n, label) == Fetch(p, n) \/ Store(p, n, label)

\* The view has served its purpose.
Forget(p) == got' = [got EXCEPT ![p] = 0]

\* invalidateClusterView.
Invalidate(n) == Free(n) /\ cache' = [cache EXCEPT ![n] = 0]

-----------------------------------------------------------------------------
(* Readers.  A failed read leaves the cache and is answered by an error.   *)

ReadStart(d) ==
    /\ pc[d] = "new"
    /\ Goto(d, "read")
    /\ \E n \in Node : entry' = [entry EXCEPT ![d] = n]
    /\ UNCHANGED <<versions, nodeVars, got, on, result, ans, hinted, budget>>

ReadNow(d) ==
    /\ pc[d] = "read"
    /\ TakeCached(d, entry[d], "answer") \/ ReadView(d, entry[d], "answer")

Shows(d) == shown' = [shown EXCEPT ![entry[d]] = got[d]]

\* DescribeTopic shows what the view holds; GetClusterTopic and the overviews
\* do so only on a node the view contains (ensureMember).
ReadAnswer(d) ==
    /\ pc[d] = "answer"
    /\ \/ Shows(d)
       \/ entry[d] \notin versions[got[d]].nodes /\ UNCHANGED shown
    /\ Goto(d, "new")
    /\ Forget(d)
    /\ entry' = [entry EXCEPT ![d] = NoOne]
    /\ UNCHANGED <<versions, role, cache, viewMx, on, result, ans, hinted, budget>>

-----------------------------------------------------------------------------
(* CreateTopicRouted, and the client before it.                            *)

Moves(r, from, to) == pc[r] = from /\ Goto(r, to)

NoNodeEffect == UNCHANGED <<versions, nodeVars, got>>

Arrive(r, n) ==
    /\ Moves(r, "new", IF r \in Cli THEN "role" ELSE "route")
    /\ entry' = [entry EXCEPT ![r] = n]
    /\ on' = [on EXCEPT ![r] = n]
    /\ NoNodeEffect /\ UNCHANGED <<result, ans, hinted, budget>>

Route(r) ==
    /\ Moves(r, "route", IF entry[r] \in role THEN "role" ELSE "routing")
    /\ NoNodeEffect /\ UNCHANGED <<reqVars, budget>>

RouteView(r) == pc[r] = "routing" /\ ReadView(r, entry[r], "routed")

\* CreateTopic has returned a: to the client, or to the node that forwarded.
Returns(r, a) ==
    IF entry[r] = on[r]
    THEN /\ ans' = [ans EXCEPT ![r] = a]
         /\ Goto(r, "done")
         /\ UNCHANGED <<entry, on, result, hinted>>
    ELSE /\ result' = [result EXCEPT ![r] = a]
         /\ Goto(r, "reply")
         /\ UNCHANGED <<entry, on, ans, hinted>>

\* There is no controller.
RouteNowhere(r) ==
    /\ pc[r] = "routed"
    /\ Controller(got[r]) = NoOne
    /\ Returns(r, "noController")
    /\ Forget(r)
    /\ UNCHANGED <<versions, nodeVars, budget>>

\* It is this node, whatever its role says, or another one.
RouteTo(r) ==
    /\ pc[r] = "routed"
    /\ Controller(got[r]) # NoOne
    /\ on' = [on EXCEPT ![r] = Controller(got[r])]
    /\ Goto(r, IF Controller(got[r]) = entry[r] THEN "role" ELSE "sent")
    /\ Forget(r)
    /\ UNCHANGED <<versions, nodeVars, entry, result, ans, hinted, budget>>

Deliver(r) ==
    /\ Moves(r, "sent", "role")
    /\ NoNodeEffect /\ UNCHANGED <<reqVars, budget>>

\* The forwarded call fails for the node that made it: the other one may still
\* get it, or be working on it.
CallFails(r) ==
    /\ entry[r] # on[r]
    /\ pc[r] \notin {"new", "done"}
    /\ ans[r] = "none"
    /\ Spend("error")
    /\ ans' = [ans EXCEPT ![r] = "error"]
    /\ NoNodeEffect /\ UNCHANGED <<pc, entry, on, result, hinted>>

\* Slip: only the controller forgets its view.
ReplyKeepsView(r) ==
    /\ pc[r] = "reply" /\ ans[r] = "none"
    /\ ans' = [ans EXCEPT ![r] = result[r]]
    /\ Goto(r, "done")
    /\ UNCHANGED <<versions, nodeVars, got, entry, on, result, hinted, budget>>

\* The answer comes back.
Reply(r) ==
    /\ pc[r] = "reply" /\ ans[r] = "none"
    /\ IF result[r] = "ok" THEN Invalidate(entry[r]) ELSE UNCHANGED cache
    /\ ans' = [ans EXCEPT ![r] = result[r]]
    /\ Goto(r, "done")
    /\ UNCHANGED <<versions, role, viewMx, shown, got, entry, on, result, hinted,
                   budget>>

ReplyUnwanted(r) ==
    /\ ans[r] # "none"
    /\ Moves(r, "reply", "done")
    /\ NoNodeEffect /\ UNCHANGED <<reqVars, budget>>

-----------------------------------------------------------------------------
(* CreateTopic.                                                            *)

Role(r) ==
    /\ Moves(r, "role", IF on[r] \in role THEN "exists" ELSE "hint")
    /\ NoNodeEffect /\ UNCHANGED <<reqVars, budget>>

\* The hint may come from the cached view.
Hint(r) ==
    /\ pc[r] = "hint"
    /\ \/ TakeCached(r, on[r], "hinted")
       \/ ReadView(r, on[r], "hinted")

Refuse(r) ==
    /\ pc[r] = "hinted"
    /\ r \in Cli \ hinted => Controller(got[r]) = NoOne
    /\ Returns(r, "notController")
    /\ Forget(r)
    /\ UNCHANGED <<versions, nodeVars, budget>>

\* Without a view there is no hint, and the refusal is the same.
RefuseBlindly(r) ==
    /\ pc[r] = "hint"
    /\ r \notin viewMx[on[r]]
    /\ Spend("error")
    /\ Returns(r, "notController")
    /\ NoNodeEffect

\* createTopic of the client: one more attempt, where the hint points.
FollowHint(r) ==
    /\ pc[r] = "hinted"
    /\ r \in Cli \ hinted
    /\ LET c == Controller(got[r]) IN
         /\ c # NoOne
         /\ entry' = [entry EXCEPT ![r] = c]
         /\ on' = [on EXCEPT ![r] = c]
    /\ hinted' = hinted \cup {r}
    /\ Goto(r, "role")
    /\ Forget(r)
    /\ UNCHANGED <<versions, nodeVars, result, ans, budget>>

Exists(r) ==
    /\ pc[r] = "exists"
    /\ IF Current.topic # NoOne THEN Returns(r, "exists")
                                ELSE Goto(r, "view") /\ UNCHANGED reqVars
    /\ NoNodeEffect /\ UNCHANGED budget

PlaceView(r) == pc[r] = "view" /\ ReadView(r, on[r], "place")

\* CreateTopic places the partitions on the nodes of its view.
Place(r) ==
    /\ pc[r] = "place"
    /\ IF Cardinality(versions[got[r]].nodes) < Factor
       THEN Returns(r, "notEnough")
       ELSE Goto(r, "put") /\ UNCHANGED reqVars
    /\ Forget(r)
    /\ UNCHANGED <<versions, nodeVars, budget>>

\* Slip: the topic is written without a comparison.
PutFits == TRUE

\* The comparison with revision 0.
KeyAbsent == Current.topic = NoOne

Put(r) == versions' = Append(versions, [Current EXCEPT !.topic = r])

PutSucceeds(r) ==
    /\ KeyAbsent
    /\ Moves(r, "put", "created")
    /\ Put(r)
    /\ UNCHANGED <<nodeVars, got, reqVars, budget>>

PutRefused(r) ==
    /\ pc[r] = "put"
    /\ ~KeyAbsent
    /\ Returns(r, "race")
    /\ NoNodeEffect /\ UNCHANGED budget

\* A call of etcd fails; the Put may have been executed.
EtcdFails(r) ==
    /\ pc[r] \in {"routing", "exists", "view", "put"}
    /\ r \notin viewMx[entry[r]] \cup viewMx[on[r]]
    /\ Spend("error")
    /\ Returns(r, "error")
    /\ \/ UNCHANGED versions
       \/ pc[r] = "put" /\ KeyAbsent /\ Put(r)
    /\ UNCHANGED <<nodeVars, got>>

Created(r) ==
    /\ pc[r] = "created"
    /\ Invalidate(on[r])
    /\ Returns(r, "ok")
    /\ UNCHANGED <<versions, role, viewMx, shown, got, budget>>

-----------------------------------------------------------------------------
Create(r) ==
    \/ \E n \in Node : Arrive(r, n)
    \/ Route(r) \/ RouteView(r) \/ RouteNowhere(r) \/ RouteTo(r)
    \/ Deliver(r) \/ CallFails(r) \/ Reply(r) \/ ReplyUnwanted(r)
    \/ Role(r) \/ Hint(r) \/ Refuse(r) \/ RefuseBlindly(r) \/ FollowHint(r)
    \/ Exists(r) \/ PlaceView(r) \/ Place(r)
    \/ PutSucceeds(r) \/ PutRefused(r) \/ EtcdFails(r) \/ Created(r)

Next ==
    \/ \E n \in Node : Elect(n) \/ Evict(n) \/ Return(n) \/ RoleFollows(n)
    \/ \E d \in Reader : ReadStart(d) \/ ReadNow(d) \/ ReadAnswer(d)
    \/ \E r \in Request : Create(r)

Spec == Init /\ [][Next]_vars

-----------------------------------------------------------------------------
(* Properties.                                                             *)

Refusals == {"exists", "race", "notEnough", "notController", "noController"}
Labels == {"new", "read", "answer", "route", "routing", "routed", "sent", "role",
           "hint", "hinted", "exists", "view", "place", "put", "created",
           "reply", "done"}

TypeOK ==
    /\ versions \in Seq(Version) /\ versions # <<>>
    /\ role \subseteq Node
    /\ cache \in [Node -> 0..Len(versions)]
    /\ viewMx \in [Node -> SUBSET Process]
    /\ \A n \in Node : \A p, q \in viewMx[n] : p = q
    /\ shown \in [Node -> 0..Len(versions)]
    /\ got \in [Process -> 0..Len(versions)]
    /\ pc \in [Process -> Labels]
    /\ entry \in [Process -> Node \cup {NoOne}]
    /\ on \in [Request -> Node \cup {NoOne}]
    /\ result \in [Request -> Refusals \cup {"none", "ok", "error"}]
    /\ ans \in [Request -> Refusals \cup {"none", "ok", "error"}]
    /\ hinted \subseteq Cli
    /\ budget \in [change : 0..MaxChanges, error : 0..MaxErrors]

\* The answer to a creation is true, whatever nodes it went through and
\* whoever leads meanwhile: the topic of a client that was told of success is
\* its own, for ever, and that of a client that was refused is not.  (An error
\* says nothing.)
AnswersTellOutcome ==
    \A r \in Request : /\ ans[r] = "ok" => Current.topic = r
                       /\ ans[r] \in Refusals => Current.topic # r

\* After a node has told a client that the topic was created, it finds it: no
\* view it keeps, or is about to keep, is from before.
ReadYourCreate ==
    \A r \in Request : ans[r] = "ok" =>
        LET n == entry[r] IN
          /\ cache[n] # 0 => versions[cache[n]].topic = r
          /\ \A p \in viewMx[n] : versions[got[p]].topic = r

\* A node never keeps an older view than one it has kept before, through
\* expiry, invalidation and concurrent readers.
ViewsMoveForward ==
    [][\A n \in Node : /\ cache[n] # 0 /\ cache'[n] # 0 => cache'[n] >= cache[n]
                       /\ cache'[n] # 0 => cache'[n] >= shown[n]]_vars

-----------------------------------------------------------------------------
(* What the code's comments say of it, and the code does not do.           *)

\* CreateTopic is executed only on the actual controller.
CreatedByController ==
    [][\A r \in Request : Current'.topic = r /\ Current.topic # r
                              => on[r] = Current.leader]_vars

\* createTopicFailureStatus.  A forwarded refusal comes back as its text.
Status(r) == CASE ans[r] \in {"notController", "noController", "error"} -> 503
               [] entry[r] # on[r] -> 400
               [] OTHER -> 409

\* CreateTopicHandler: any node takes the request and the client need not know
\* the topology; so a topic that exists is a conflict wherever one asks.
SameStatusEverywhere ==
    \A r \in Request \ Cli : ans[r] \in {"exists", "race", "notEnough"}
                                 => Status(r) = 409

\* createTopicFailureStatus: not_controller means that there is no controller
\* at all.
NotControllerMeansNone ==
    \A r \in Request \ Cli : ans[r] # "notController"
=============================================================================
