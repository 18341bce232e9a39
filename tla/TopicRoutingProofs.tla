------------------------- MODULE TopicRoutingProofs -------------------------
(***************************************************************************)
(* Proofs about TopicRouting: the answer to a creation is true             *)
(* (AnswersTellOutcome), a node that has told of a creation finds the      *)
(* topic (ReadYourCreate), and its view never goes back                    *)
(* (ViewsMoveForward).                                                     *)
(***************************************************************************)
EXTENDS TopicRouting, TLAPS

-----------------------------------------------------------------------------
(* The versions of etcd.                                                   *)

\* What was held stays in the history.
Grows == /\ versions' \in Seq(Version) /\ versions' # <<>>
         /\ Len(versions) <= Len(versions')
         /\ \A k \in 1..Len(versions) : versions'[k] = versions[k]

LEMMA AppendGrows ==
    ASSUME versions \in Seq(Version), versions # <<>>,
           NEW v \in Version, versions' = Append(versions, v)
    PROVE  Grows /\ Current' = v
<1>1. /\ versions' \in Seq(Version) /\ Len(versions') = Len(versions) + 1
      /\ \A k \in 1..Len(versions) : versions'[k] = versions[k]
      /\ versions'[Len(versions) + 1] = v
  OBVIOUS
<1>2. Len(versions) \in Nat
  OBVIOUS
<1> QED
  BY <1>1, <1>2 DEF Grows, Current

LEMMA CurrentIsVersion ==
    ASSUME versions \in Seq(Version), versions # <<>>
    PROVE  /\ Len(versions) \in Nat \ {0}
           /\ Current \in Version
  BY DEF Current

\* A put takes the topic from nobody, and leaves the rest.
LEMMA PutGrows ==
    ASSUME versions \in Seq(Version), versions # <<>>,
           NEW r \in Request, Put(r)
    PROVE  Grows /\ Current'.topic = r
<1>1. [Current EXCEPT !.topic = r] \in Version
  BY CurrentIsVersion DEF Version
<1>2. [Current EXCEPT !.topic = r].topic = r
  BY CurrentIsVersion DEF Version
<1> QED
  BY <1>1, <1>2, AppendGrows DEF Put

\* The cluster around changes nodes and leader only.
LEMMA ChangeGrows ==
    ASSUME versions \in Seq(Version), versions # <<>>,
           NEW n \in Node, Elect(n) \/ Evict(n) \/ Return(n)
    PROVE  Grows /\ Current'.topic = Current.topic
<1>1. Current \in Version
  BY CurrentIsVersion
<1>2. /\ [Current EXCEPT !.leader = n] \in Version
      /\ [Current EXCEPT !.nodes = @ \ {n}] \in Version
      /\ [Current EXCEPT !.nodes = @ \cup {n}] \in Version
      /\ [Current EXCEPT !.leader = n].topic = Current.topic
      /\ [Current EXCEPT !.nodes = @ \ {n}].topic = Current.topic
      /\ [Current EXCEPT !.nodes = @ \cup {n}].topic = Current.topic
  BY <1>1 DEF Version
<1> QED
  BY <1>2, AppendGrows DEF Elect, Evict, Return, Changes

LEMMA SameGrows ==
    ASSUME versions \in Seq(Version), versions # <<>>, UNCHANGED versions
    PROVE  Grows /\ Current' = Current
  BY DEF Grows, Current

\* The controller of a view is a node.
LEMMA ControllerIsNode ==
    ASSUME versions \in Seq(Version), NEW v \in 1..Len(versions)
    PROVE  Controller(v) \in Node \cup {NoOne}
<1>1. versions[v] \in Version
  OBVIOUS
<1> QED
  BY <1>1 DEF Controller, Version

-----------------------------------------------------------------------------
(* Types.                                                                  *)

\* The processes are at work on nodes, and the view one decides by is there.
Decides == {"answer", "routed", "hinted", "place"}

WorkInv ==
    /\ \A d \in Reader : pc[d] \in {"new", "read", "answer"}
    /\ \A r \in Request : pc[r] \notin {"read", "answer"}
    /\ \A p \in Process : pc[p] # "new" => entry[p] \in Node
    /\ \A r \in Request : pc[r] # "new" => on[r] \in Node
    /\ \A p \in Process : pc[p] \in Decides => got[p] # 0

\* Where a process reads a view.
ReadsAt(p) == IF pc[p] \in {"read", "routing"} THEN entry[p] ELSE on[p]

LockInv ==
    \A n \in Node : \A p \in viewMx[n] :
        /\ pc[p] \in {"read", "routing", "hint", "view"}
        /\ ReadsAt(p) = n
        /\ got[p] # 0

TypeInv == TypeOK /\ WorkInv /\ LockInv

LEMMA InitTypes == Init => TypeInv
<1> SUFFICES ASSUME Init PROVE TypeInv
  OBVIOUS
<1> USE RoutingAssumption DEF Init
<1>1. PICK n \in Node, alive \in SUBSET Node :
        versions = <<[nodes |-> alive, leader |-> n, topic |-> NoOne]>>
  OBVIOUS
<1>2. [nodes |-> alive, leader |-> n, topic |-> NoOne] \in Version
  BY DEF Version
<1>3. versions \in Seq(Version) /\ versions # <<>> /\ Len(versions) = 1
  BY <1>1, <1>2
<1>4. /\ got \in [Process -> 0..Len(versions)]
      /\ cache \in [Node -> 0..Len(versions)]
      /\ shown \in [Node -> 0..Len(versions)]
  BY <1>3
<1>5. /\ pc \in [Process -> Labels]
      /\ entry \in [Process -> Node \cup {NoOne}]
      /\ on \in [Request -> Node \cup {NoOne}]
      /\ result \in [Request -> Refusals \cup {"none", "ok", "error"}]
      /\ ans \in [Request -> Refusals \cup {"none", "ok", "error"}]
  BY DEF Labels
<1>6. budget \in [change : 0..MaxChanges, error : 0..MaxErrors]
  OBVIOUS
<1>7. TypeOK
  BY <1>3, <1>4, <1>5, <1>6 DEF TypeOK
<1>8. WorkInv /\ LockInv
  BY DEF WorkInv, LockInv, Process, Decides
<1> QED
  BY <1>7, <1>8 DEF TypeInv

\* Growing leaves the positions of views what they are.
LEMMA PositionsKept ==
    ASSUME TypeOK, Grows
    PROVE  0..Len(versions) \subseteq 0..Len(versions')
  BY CurrentIsVersion DEF TypeOK, Grows

LEMMA SpendTypes ==
    ASSUME TypeOK, NEW kind \in {"change", "error"}, Spend(kind)
    PROVE  budget' \in [change : 0..MaxChanges, error : 0..MaxErrors]
<1>1. /\ budget \in [change : 0..MaxChanges, error : 0..MaxErrors]
      /\ budget[kind] > 0
      /\ budget' = [budget EXCEPT ![kind] = budget[kind] - 1]
  BY DEF TypeOK, Spend
<1> QED
  BY <1>1, RoutingAssumption

\* The cluster around.
LEMMA ClusterTypes ==
    ASSUME TypeInv, NEW n \in Node,
           Elect(n) \/ Evict(n) \/ Return(n) \/ RoleFollows(n)
    PROVE  TypeInv'
<1>t. TypeOK
  BY DEF TypeInv
<1>1. CASE Elect(n) \/ Evict(n) \/ Return(n)
  <2>1. /\ Spend("change")
        /\ UNCHANGED <<nodeVars, got, pc, reqVars>>
    BY <1>1 DEF Elect, Evict, Return, Changes
  <2>2. Grows
    BY <1>1, <1>t, ChangeGrows DEF TypeOK
  <2>3. TypeOK'
    BY <2>1, <2>2, <1>t, PositionsKept, SpendTypes
       DEF TypeOK, Grows, nodeVars, reqVars
  <2> QED
    BY <2>1, <2>3 DEF TypeInv, WorkInv, LockInv, ReadsAt, nodeVars, reqVars
<1>2. CASE RoleFollows(n)
  <2>1. TypeOK'
    BY <1>2, <1>t DEF RoleFollows, TypeOK, reqVars
  <2> QED
    BY <1>2, <2>1 DEF RoleFollows, TypeInv, WorkInv, LockInv, ReadsAt, reqVars
<1> QED
  BY <1>1, <1>2

-----------------------------------------------------------------------------
(* Reading a view: what TakeCached, Fetch and Store do for p, which is at a *)
(* reading label at node n, whatever it goes on with.                       *)

Goals(p) == IF p \in Reader THEN {"answer"} ELSE {"routed", "hinted", "place"}

LEMMA TakeCachedTypes ==
    ASSUME TypeInv, NEW p \in Process, NEW n \in Node, NEW label \in Goals(p),
           pc[p] \in {"read", "routing", "hint", "view"}, ReadsAt(p) = n,
           TakeCached(p, n, label)
    PROVE  TypeInv'
<1>1. /\ cache[n] # 0 /\ viewMx[n] = {}
      /\ got' = [got EXCEPT ![p] = cache[n]]
      /\ pc' = [pc EXCEPT ![p] = label]
      /\ UNCHANGED <<versions, nodeVars, reqVars, budget>>
  BY DEF TakeCached, Free, Goto
<1>2. label \in Labels /\ label # "new"
  BY DEF Goals, Labels
<1>3. cache[n] \in 0..Len(versions)
  BY DEF TypeInv, TypeOK
<1>4. TypeOK'
  BY <1>1, <1>2, <1>3 DEF TypeInv, TypeOK, nodeVars, reqVars
<1>5. WorkInv'
  <2>1. \A q \in Process : q # p => pc'[q] = pc[q] /\ got'[q] = got[q]
    BY <1>1 DEF TypeInv, TypeOK
  <2>2. pc'[p] = label /\ got'[p] = cache[n]
    BY <1>1 DEF TypeInv, TypeOK
  <2>3. entry' = entry /\ on' = on
    BY <1>1 DEF reqVars
  <2> QED
    BY <1>1, <2>1, <2>2, <2>3, RoutingAssumption
       DEF TypeInv, WorkInv, Process, Goals, Decides
<1>6. LockInv'
  <2> SUFFICES ASSUME NEW m \in Node, NEW q \in viewMx'[m]
               PROVE  /\ pc'[q] \in {"read", "routing", "hint", "view"}
                      /\ ReadsAt(q)' = m
                      /\ got'[q] # 0
    BY DEF LockInv
  <2>1. viewMx' = viewMx /\ entry' = entry /\ on' = on
    BY <1>1 DEF nodeVars, reqVars
  <2>2. q # p
    BY <1>1, <2>1 DEF TypeInv, LockInv
  <2>3. q \in Process
    BY <2>1 DEF TypeInv, TypeOK
  <2> QED
    BY <1>1, <2>1, <2>2, <2>3 DEF TypeInv, TypeOK, LockInv, ReadsAt
<1> QED
  BY <1>4, <1>5, <1>6 DEF TypeInv

LEMMA FetchTypes ==
    ASSUME TypeInv, NEW p \in Process, NEW n \in Node,
           pc[p] \in {"read", "routing", "hint", "view"}, ReadsAt(p) = n,
           Fetch(p, n)
    PROVE  TypeInv'
<1>1. /\ viewMx[n] = {}
      /\ viewMx' = [viewMx EXCEPT ![n] = {p}]
      /\ got' = [got EXCEPT ![p] = Len(versions)]
      /\ UNCHANGED <<versions, role, cache, shown, pc, reqVars, budget>>
  BY DEF Fetch, Free
<1>2. Len(versions) \in Nat \ {0}
  BY CurrentIsVersion DEF TypeInv, TypeOK
<1>3. TypeOK'
  BY <1>1, <1>2 DEF TypeInv, TypeOK, reqVars
<1>4. WorkInv'
  BY <1>1, <1>2 DEF TypeInv, TypeOK, WorkInv, reqVars
<1>5. LockInv'
  <2> SUFFICES ASSUME NEW m \in Node, NEW q \in viewMx'[m]
               PROVE  /\ pc'[q] \in {"read", "routing", "hint", "view"}
                      /\ ReadsAt(q)' = m
                      /\ got'[q] # 0
    BY DEF LockInv
  <2>1. (q = p /\ m = n) \/ q \in viewMx[m]
    BY <1>1 DEF TypeInv, TypeOK
  <2>2. q \in Process
    BY <2>1 DEF TypeInv, TypeOK
  <2>3. got'[q] # 0
    BY <1>1, <1>2, <2>1, <2>2 DEF TypeInv, TypeOK, LockInv
  <2> QED
    BY <1>1, <2>1, <2>3 DEF TypeInv, LockInv, ReadsAt, reqVars
<1> QED
  BY <1>3, <1>4, <1>5 DEF TypeInv

LEMMA StoreTypes ==
    ASSUME TypeInv, NEW p \in Process, NEW n \in Node, NEW label \in Goals(p),
           pc[p] \in {"read", "routing", "hint", "view"}, ReadsAt(p) = n,
           Store(p, n, label)
    PROVE  TypeInv'
<1>1. /\ p \in viewMx[n]
      /\ viewMx' = [viewMx EXCEPT ![n] = viewMx[n] \ {p}]
      /\ cache' = [cache EXCEPT ![n] = got[p]]
      /\ pc' = [pc EXCEPT ![p] = label]
      /\ UNCHANGED <<versions, role, shown, got, reqVars, budget>>
  BY DEF Store, Goto
<1>2. label \in Labels /\ label # "new"
  BY DEF Goals, Labels
<1>3. got[p] \in 0..Len(versions) /\ got[p] # 0
  BY <1>1 DEF TypeInv, TypeOK, LockInv
<1>4. TypeOK'
  BY <1>1, <1>2, <1>3 DEF TypeInv, TypeOK, reqVars
<1>5. WorkInv'
  <2>1. \A q \in Process : q # p => pc'[q] = pc[q]
    BY <1>1 DEF TypeInv, TypeOK
  <2>2. pc'[p] = label
    BY <1>1 DEF TypeInv, TypeOK
  <2>3. entry' = entry /\ on' = on /\ got' = got
    BY <1>1 DEF reqVars
  <2> QED
    BY <1>1, <1>3, <2>1, <2>2, <2>3, RoutingAssumption
       DEF TypeInv, WorkInv, Process, Goals, Decides
<1>6. LockInv'
  <2> SUFFICES ASSUME NEW m \in Node, NEW q \in viewMx'[m]
               PROVE  /\ pc'[q] \in {"read", "routing", "hint", "view"}
                      /\ ReadsAt(q)' = m
                      /\ got'[q] # 0
    BY DEF LockInv
  <2>1. got' = got /\ entry' = entry /\ on' = on
    BY <1>1 DEF reqVars
  <2>2. q \in viewMx[m] /\ (m = n => q # p)
    BY <1>1 DEF TypeInv, TypeOK
  <2>3. q # p
    BY <2>2 DEF TypeInv, LockInv
  <2>4. q \in Process
    BY <2>2 DEF TypeInv, TypeOK
  <2> QED
    BY <1>1, <2>1, <2>2, <2>3, <2>4 DEF TypeInv, TypeOK, LockInv, ReadsAt
<1> QED
  BY <1>4, <1>5, <1>6 DEF TypeInv

-----------------------------------------------------------------------------
(* Everything else: a step of p that takes or releases no lock.            *)

LEMMA NotLocked ==
    ASSUME TypeInv, NEW p \in Process,
           pc[p] \notin {"read", "routing", "hint", "view"}
    PROVE  \A n \in Node : p \notin viewMx[n]
  BY DEF TypeInv, LockInv

LEMMA QuietTypes ==
    ASSUME TypeInv, NEW p \in Process, NEW label \in Labels \ Decides,
           pc' = [pc EXCEPT ![p] = label],
           p \in Reader => label \in {"new", "read"},
           p \in Request => label # "read",
           got' = got \/ got' = [got EXCEPT ![p] = 0],
           \A n \in Node : p \notin viewMx[n],
           Grows, UNCHANGED <<role, viewMx>>,
           cache' \in [Node -> 0..Len(versions)],
           shown' \in [Node -> 0..Len(versions)],
           entry' \in [Process -> Node \cup {NoOne}],
           \A q \in Process : q # p => entry'[q] = entry[q],
           on' \in [Request -> Node \cup {NoOne}],
           \A q \in Request : q # p => on'[q] = on[q],
           label # "new" => /\ entry'[p] \in Node
                            /\ p \in Request => on'[p] \in Node,
           result' \in [Request -> Refusals \cup {"none", "ok", "error"}],
           ans' \in [Request -> Refusals \cup {"none", "ok", "error"}],
           hinted' \subseteq Cli,
           budget' \in [change : 0..MaxChanges, error : 0..MaxErrors]
    PROVE  TypeInv'
<1>1. 0..Len(versions) \subseteq 0..Len(versions')
  BY PositionsKept DEF TypeInv
<1>2. got' \in [Process -> 0..Len(versions)]
  <2>1. got \in [Process -> 0..Len(versions)]
    BY DEF TypeInv, TypeOK
  <2>2. 0 \in 0..Len(versions)
    BY CurrentIsVersion DEF TypeInv, TypeOK
  <2>3. [got EXCEPT ![p] = 0] \in [Process -> 0..Len(versions)]
    BY <2>1, <2>2
  <2> QED
    BY <2>1, <2>3
<1>3. pc' \in [Process -> Labels]
  BY DEF TypeInv, TypeOK
<1>4. TypeOK'
  <2>1. /\ got' \in [Process -> 0..Len(versions')]
        /\ cache' \in [Node -> 0..Len(versions')]
        /\ shown' \in [Node -> 0..Len(versions')]
    BY <1>1, <1>2
  <2>2. versions' \in Seq(Version) /\ versions' # <<>>
    BY DEF Grows
  <2>3. /\ role' \subseteq Node
        /\ viewMx' \in [Node -> SUBSET Process]
        /\ \A n \in Node : \A s, t \in viewMx'[n] : s = t
    BY DEF TypeInv, TypeOK
  <2> QED
    BY <2>1, <2>2, <2>3, <1>3 DEF TypeOK
<1>5. /\ \A q \in Process : q # p => pc'[q] = pc[q] /\ got'[q] = got[q]
      /\ pc'[p] = label
  BY DEF TypeInv, TypeOK
<1>6. WorkInv'
  <2>1. \A d \in Reader : pc'[d] \in {"new", "read", "answer"}
    BY <1>5 DEF TypeInv, WorkInv, Process
  <2>2. \A r \in Request : pc'[r] \notin {"read", "answer"}
    BY <1>5 DEF TypeInv, WorkInv, Process, Decides
  <2>3. \A q \in Process : pc'[q] # "new" => entry'[q] \in Node
    BY <1>5 DEF TypeInv, WorkInv
  <2>4. \A r \in Request : pc'[r] # "new" => on'[r] \in Node
    BY <1>5 DEF TypeInv, WorkInv, Process
  <2>5. \A q \in Process : pc'[q] \in Decides => got'[q] # 0
    BY <1>5 DEF TypeInv, WorkInv
  <2> QED
    BY <2>1, <2>2, <2>3, <2>4, <2>5 DEF WorkInv
<1>7. LockInv'
  <2> SUFFICES ASSUME NEW n \in Node, NEW q \in viewMx'[n]
               PROVE  /\ pc'[q] \in {"read", "routing", "hint", "view"}
                      /\ ReadsAt(q)' = n
                      /\ got'[q] # 0
    BY DEF LockInv
  <2>1. q \in viewMx[n] /\ q # p /\ q \in Process
    BY DEF TypeInv, TypeOK
  <2>2. /\ pc[q] \in {"read", "routing", "hint", "view"}
        /\ ReadsAt(q) = n
        /\ got[q] # 0
    BY <2>1 DEF TypeInv, LockInv
  <2>3. pc'[q] = pc[q] /\ got'[q] = got[q] /\ entry'[q] = entry[q]
    BY <2>1, <1>5
  <2>4. q \in Request => on'[q] = on[q]
    BY <2>1
  <2>5. q \in Reader => pc[q] = "read"
    BY <2>2 DEF TypeInv, WorkInv
  <2> QED
    BY <2>1, <2>2, <2>3, <2>4, <2>5 DEF ReadsAt, Process
<1> QED
  BY <1>4, <1>6, <1>7 DEF TypeInv

\* What Returns does, wherever the request came from.
LEMMA ReturnsFacts ==
    ASSUME TypeInv, NEW r \in Request, pc[r] # "new",
           NEW a \in Refusals \cup {"ok", "error"}, Returns(r, a)
    PROVE  /\ \E label \in {"done", "reply"} :
                /\ pc' = [pc EXCEPT ![r] = label]
                /\ label = "done" => ans' = [ans EXCEPT ![r] = a] /\ result' = result
                /\ label = "reply" => result' = [result EXCEPT ![r] = a] /\ ans' = ans
           /\ result' \in [Request -> Refusals \cup {"none", "ok", "error"}]
           /\ ans' \in [Request -> Refusals \cup {"none", "ok", "error"}]
           /\ UNCHANGED <<entry, on, hinted>>
<1>t. /\ result \in [Request -> Refusals \cup {"none", "ok", "error"}]
      /\ ans \in [Request -> Refusals \cup {"none", "ok", "error"}]
      /\ a \in Refusals \cup {"none", "ok", "error"}
  BY DEF TypeInv, TypeOK
<1>1. CASE entry[r] = on[r]
  <2>1. /\ ans' = [ans EXCEPT ![r] = a]
        /\ pc' = [pc EXCEPT ![r] = "done"]
        /\ UNCHANGED <<entry, on, result, hinted>>
    BY <1>1 DEF Returns, Goto
  <2>2. ans' \in [Request -> Refusals \cup {"none", "ok", "error"}]
    BY <1>t, <2>1
  <2>3. result' = result /\ "done" # "reply"
    BY <2>1
  <2>4. \E label \in {"done", "reply"} :
           /\ pc' = [pc EXCEPT ![r] = label]
           /\ label = "done" => ans' = [ans EXCEPT ![r] = a] /\ result' = result
           /\ label = "reply" => result' = [result EXCEPT ![r] = a] /\ ans' = ans
    <3> WITNESS "done" \in {"done", "reply"}
    <3> QED
      BY <2>1, <2>3
  <2>5. result' \in [Request -> Refusals \cup {"none", "ok", "error"}]
    BY <1>t, <2>3
  <2>6. UNCHANGED <<entry, on, hinted>>
    BY <2>1
  <2> QED
    BY <2>2, <2>4, <2>5, <2>6
<1>2. CASE entry[r] # on[r]
  <2>1. /\ result' = [result EXCEPT ![r] = a]
        /\ pc' = [pc EXCEPT ![r] = "reply"]
        /\ UNCHANGED <<entry, on, ans, hinted>>
    BY <1>2 DEF Returns, Goto
  <2>2. result' \in [Request -> Refusals \cup {"none", "ok", "error"}]
    BY <1>t, <2>1
  <2>3. ans' = ans /\ "reply" # "done"
    BY <2>1
  <2>4. \E label \in {"done", "reply"} :
           /\ pc' = [pc EXCEPT ![r] = label]
           /\ label = "done" => ans' = [ans EXCEPT ![r] = a] /\ result' = result
           /\ label = "reply" => result' = [result EXCEPT ![r] = a] /\ ans' = ans
    <3> WITNESS "reply" \in {"done", "reply"}
    <3> QED
      BY <2>1, <2>3
  <2>5. ans' \in [Request -> Refusals \cup {"none", "ok", "error"}]
    BY <1>t, <2>3
  <2>6. UNCHANGED <<entry, on, hinted>>
    BY <2>1
  <2> QED
    BY <2>2, <2>4, <2>5, <2>6
<1> QED
  BY <1>1, <1>2

\* A step of a request that returns, and forgets its view or not.
LEMMA ReturnsTypes ==
    ASSUME TypeInv, NEW r \in Request, pc[r] # "new",
           NEW a \in Refusals \cup {"ok", "error"}, Returns(r, a),
           \A n \in Node : r \notin viewMx[n],
           got' = got \/ got' = [got EXCEPT ![r] = 0],
           Grows, UNCHANGED <<role, viewMx, shown>>,
           cache' \in [Node -> 0..Len(versions)],
           budget' \in [change : 0..MaxChanges, error : 0..MaxErrors]
    PROVE  TypeInv'
<1>1. PICK label \in {"done", "reply"} : pc' = [pc EXCEPT ![r] = label]
  BY ReturnsFacts
<1>2. label \in Labels \ Decides /\ r \in Process /\ r \notin Reader
  BY RoutingAssumption DEF Labels, Decides, Process
<1>3. /\ result' \in [Request -> Refusals \cup {"none", "ok", "error"}]
      /\ ans' \in [Request -> Refusals \cup {"none", "ok", "error"}]
      /\ UNCHANGED <<entry, on, hinted>>
  BY ReturnsFacts
<1>4. entry[r] \in Node /\ on[r] \in Node
  BY <1>2 DEF TypeInv, WorkInv
<1>5. /\ entry \in [Process -> Node \cup {NoOne}]
      /\ on \in [Request -> Node \cup {NoOne}]
      /\ hinted \subseteq Cli
      /\ shown \in [Node -> 0..Len(versions)]
  BY DEF TypeInv, TypeOK
<1> QED
  BY <1>1, <1>2, <1>3, <1>4, <1>5, QuietTypes

LEMMA ReaderTypes ==
    ASSUME TypeInv, NEW d \in Reader,
           ReadStart(d) \/ ReadNow(d) \/ ReadAnswer(d)
    PROVE  TypeInv'
<1>p. d \in Process /\ d \notin Request
  BY RoutingAssumption DEF Process
<1>1. CASE ReadStart(d)
  <2>1. PICK n \in Node : entry' = [entry EXCEPT ![d] = n]
    BY <1>1 DEF ReadStart
  <2>2. /\ pc[d] = "new"
        /\ pc' = [pc EXCEPT ![d] = "read"]
        /\ UNCHANGED <<versions, nodeVars, got, on, result, ans, hinted, budget>>
    BY <1>1 DEF ReadStart, Goto
  <2>3. \A m \in Node : d \notin viewMx[m]
    BY <1>p, <2>2, NotLocked
  <2>4. Grows /\ "read" \in Labels \ Decides
    BY <2>2, SameGrows DEF TypeInv, TypeOK, Labels, Decides
  <2>5. /\ entry' \in [Process -> Node \cup {NoOne}]
        /\ \A q \in Process : q # d => entry'[q] = entry[q]
        /\ entry'[d] \in Node
    BY <1>p, <2>1 DEF TypeInv, TypeOK
  <2> QED
    BY <1>p, <2>2, <2>3, <2>4, <2>5, QuietTypes DEF nodeVars, TypeInv, TypeOK
<1>2. CASE ReadNow(d)
  <2>1. pc[d] = "read" /\ ReadsAt(d) = entry[d] /\ entry[d] \in Node
    BY <1>2, <1>p DEF ReadNow, ReadsAt, TypeInv, WorkInv
  <2>2. "answer" \in Goals(d)
    BY DEF Goals
  <2>3. \/ TakeCached(d, entry[d], "answer")
        \/ Fetch(d, entry[d])
        \/ Store(d, entry[d], "answer")
    BY <1>2 DEF ReadNow, ReadView
  <2> QED
    BY <1>p, <2>1, <2>2, <2>3, TakeCachedTypes, FetchTypes, StoreTypes
<1>3. CASE ReadAnswer(d)
  <2>1. /\ pc[d] = "answer"
        /\ \/ shown' = [shown EXCEPT ![entry[d]] = got[d]]
           \/ shown' = shown
        /\ pc' = [pc EXCEPT ![d] = "new"]
        /\ got' = [got EXCEPT ![d] = 0]
        /\ entry' = [entry EXCEPT ![d] = NoOne]
        /\ UNCHANGED <<versions, role, cache, viewMx, on, result, ans, hinted,
                       budget>>
    BY <1>3 DEF ReadAnswer, Shows, Goto, Forget
  <2>2. \A m \in Node : d \notin viewMx[m]
    BY <1>p, <2>1, NotLocked
  <2>3. Grows /\ "new" \in Labels \ Decides
    BY <2>1, SameGrows DEF TypeInv, TypeOK, Labels, Decides
  <2>4. /\ entry' \in [Process -> Node \cup {NoOne}]
        /\ \A q \in Process : q # d => entry'[q] = entry[q]
    BY <1>p, <2>1 DEF TypeInv, TypeOK
  <2>5. shown' \in [Node -> 0..Len(versions)]
    BY <1>p, <2>1 DEF TypeInv, TypeOK
  <2> QED
    BY <1>p, <2>1, <2>2, <2>3, <2>4, <2>5, QuietTypes DEF TypeInv, TypeOK
<1> QED
  BY <1>1, <1>2, <1>3

\* Where a request reads, and what for.
LEMMA RequestReadTypes ==
    ASSUME TypeInv, NEW r \in Request,
           \/ RouteView(r) \/ Hint(r) \/ PlaceView(r)
    PROVE  TypeInv'
<1>p. r \in Process /\ r \notin Reader
  BY RoutingAssumption DEF Process
<1>1. CASE RouteView(r)
  <2>1. pc[r] = "routing" /\ ReadsAt(r) = entry[r] /\ entry[r] \in Node
    BY <1>1, <1>p DEF RouteView, ReadsAt, TypeInv, WorkInv
  <2>2. "routed" \in Goals(r)
    BY <1>p DEF Goals
  <2>3. Fetch(r, entry[r]) \/ Store(r, entry[r], "routed")
    BY <1>1 DEF RouteView, ReadView
  <2> QED
    BY <1>p, <2>1, <2>2, <2>3, FetchTypes, StoreTypes
<1>2. CASE Hint(r)
  <2>1. pc[r] = "hint" /\ ReadsAt(r) = on[r] /\ on[r] \in Node
    BY <1>2, <1>p DEF Hint, ReadsAt, TypeInv, WorkInv
  <2>2. "hinted" \in Goals(r)
    BY <1>p DEF Goals
  <2>3. \/ TakeCached(r, on[r], "hinted")
        \/ Fetch(r, on[r])
        \/ Store(r, on[r], "hinted")
    BY <1>2 DEF Hint, ReadView
  <2> QED
    BY <1>p, <2>1, <2>2, <2>3, TakeCachedTypes, FetchTypes, StoreTypes
<1>3. CASE PlaceView(r)
  <2>1. pc[r] = "view" /\ ReadsAt(r) = on[r] /\ on[r] \in Node
    BY <1>3, <1>p DEF PlaceView, ReadsAt, TypeInv, WorkInv
  <2>2. "place" \in Goals(r)
    BY <1>p DEF Goals
  <2>3. Fetch(r, on[r]) \/ Store(r, on[r], "place")
    BY <1>3 DEF PlaceView, ReadView
  <2> QED
    BY <1>p, <2>1, <2>2, <2>3, FetchTypes, StoreTypes
<1> QED
  BY <1>1, <1>2, <1>3

\* The steps of a request that go on to another label, and only that.
LEMMA MovesTypes ==
    ASSUME TypeInv, NEW r \in Request,
           NEW label \in Labels \ (Decides \cup {"read", "new"}),
           pc[r] \notin {"new", "read", "routing", "hint", "view"},
           pc' = [pc EXCEPT ![r] = label],
           Grows, UNCHANGED <<nodeVars, reqVars, budget>>,
           got' = got \/ got' = [got EXCEPT ![r] = 0]
    PROVE  TypeInv'
<1>1. r \in Process /\ r \notin Reader
  BY RoutingAssumption DEF Process
<1>2. \A n \in Node : r \notin viewMx[n]
  BY <1>1, NotLocked
<1>3. entry[r] \in Node /\ on[r] \in Node
  BY <1>1 DEF TypeInv, WorkInv
<1>4. /\ cache' \in [Node -> 0..Len(versions)]
      /\ shown' \in [Node -> 0..Len(versions)]
      /\ entry' \in [Process -> Node \cup {NoOne}]
      /\ on' \in [Request -> Node \cup {NoOne}]
      /\ result' \in [Request -> Refusals \cup {"none", "ok", "error"}]
      /\ ans' \in [Request -> Refusals \cup {"none", "ok", "error"}]
      /\ hinted' \subseteq Cli
      /\ budget' \in [change : 0..MaxChanges, error : 0..MaxErrors]
  BY DEF TypeInv, TypeOK, nodeVars, reqVars
<1>5. UNCHANGED <<role, viewMx, entry, on>>
  BY DEF nodeVars, reqVars
<1> QED
  BY <1>1, <1>2, <1>3, <1>4, <1>5, QuietTypes

\* Invalidate leaves positions.
LEMMA InvalidateTypes ==
    ASSUME TypeInv, NEW n \in Node, Invalidate(n)
    PROVE  cache' \in [Node -> 0..Len(versions)]
<1>1. cache \in [Node -> 0..Len(versions)] /\ 0 \in 0..Len(versions)
  BY CurrentIsVersion DEF TypeInv, TypeOK
<1> QED
  BY <1>1 DEF Invalidate

LEMMA CreateTypes ==
    ASSUME TypeInv, NEW r \in Request, Create(r)
    PROVE  TypeInv'
<1>p. r \in Process /\ r \notin Reader
  BY RoutingAssumption DEF Process
<1>t. /\ versions \in Seq(Version) /\ versions # <<>>
      /\ budget \in [change : 0..MaxChanges, error : 0..MaxErrors]
      /\ cache \in [Node -> 0..Len(versions)]
      /\ shown \in [Node -> 0..Len(versions)]
  BY DEF TypeInv, TypeOK
<1>w. pc[r] # "new" => entry[r] \in Node /\ on[r] \in Node
  BY <1>p DEF TypeInv, WorkInv
<1>1. ASSUME NEW n \in Node, Arrive(r, n) PROVE TypeInv'
  <2> DEFINE label == IF r \in Cli THEN "role" ELSE "route"
  <2>1. /\ pc[r] = "new"
        /\ pc' = [pc EXCEPT ![r] = label]
        /\ entry' = [entry EXCEPT ![r] = n]
        /\ on' = [on EXCEPT ![r] = n]
        /\ UNCHANGED <<versions, nodeVars, got, result, ans, hinted, budget>>
    BY <1>1 DEF Arrive, Moves, Goto, NoNodeEffect
  <2>2. label \in Labels \ Decides /\ label # "read"
    BY DEF Labels, Decides
  <2> HIDE DEF label
  <2>3. \A m \in Node : r \notin viewMx[m]
    BY <1>p, <2>1, NotLocked
  <2>4. Grows
    BY <1>t, <2>1, SameGrows
  <2>5. /\ entry' \in [Process -> Node \cup {NoOne}]
        /\ on' \in [Request -> Node \cup {NoOne}]
        /\ \A q \in Process : q # r => entry'[q] = entry[q]
        /\ \A q \in Request : q # r => on'[q] = on[q]
        /\ entry'[r] \in Node /\ on'[r] \in Node
    BY <1>p, <2>1 DEF TypeInv, TypeOK
  <2>6. UNCHANGED <<role, viewMx, cache, shown>>
    BY <2>1 DEF nodeVars
  <2> QED
    BY <1>p, <1>t, <2>1, <2>2, <2>3, <2>4, <2>5, <2>6, QuietTypes
       DEF TypeInv, TypeOK
<1>2. CASE Route(r) \/ Deliver(r) \/ Role(r) \/ ReplyUnwanted(r)
  <2>1. /\ pc[r] \in {"route", "sent", "role", "reply"}
        /\ \E label \in {"role", "routing", "exists", "hint", "done"} :
             pc' = [pc EXCEPT ![r] = label]
        /\ UNCHANGED <<versions, nodeVars, got, reqVars, budget>>
    BY <1>2 DEF Route, Deliver, Role, ReplyUnwanted, Moves, Goto, NoNodeEffect
  <2>2. PICK label \in {"role", "routing", "exists", "hint", "done"} :
          pc' = [pc EXCEPT ![r] = label]
    BY <2>1
  <2>3. label \in Labels \ (Decides \cup {"read", "new"})
    BY DEF Labels, Decides
  <2> QED
    BY <1>t, <2>1, <2>2, <2>3, SameGrows, MovesTypes
<1>3. CASE RouteNowhere(r)
  BY <1>3, <1>p, <1>t, NotLocked, SameGrows, ReturnsTypes
     DEF RouteNowhere, Forget, nodeVars, Refusals
<1>4. CASE RouteTo(r)
  <2> DEFINE c == Controller(got[r])
             label == IF c = entry[r] THEN "role" ELSE "sent"
  <2>1. /\ pc[r] = "routed"
        /\ c # NoOne
        /\ on' = [on EXCEPT ![r] = c]
        /\ pc' = [pc EXCEPT ![r] = label]
        /\ got' = [got EXCEPT ![r] = 0]
        /\ UNCHANGED <<versions, nodeVars, entry, result, ans, hinted, budget>>
    BY <1>4 DEF RouteTo, Goto, Forget
  <2>2. got[r] \in 1..Len(versions)
    BY <1>p, <2>1 DEF TypeInv, TypeOK, WorkInv, Decides
  <2>3. c \in Node
    BY <1>t, <2>1, <2>2, ControllerIsNode
  <2>4. label \in Labels \ Decides /\ label # "read"
    BY DEF Labels, Decides
  <2> HIDE DEF c, label
  <2>5. \A m \in Node : r \notin viewMx[m]
    BY <1>p, <2>1, NotLocked
  <2>6. Grows
    BY <1>t, <2>1, SameGrows
  <2>7. /\ on' \in [Request -> Node \cup {NoOne}]
        /\ \A q \in Request : q # r => on'[q] = on[q]
        /\ on'[r] \in Node
    BY <2>1, <2>3 DEF TypeInv, TypeOK
  <2>8. UNCHANGED <<role, viewMx, cache, shown>>
    BY <2>1 DEF nodeVars
  <2> QED
    BY <1>p, <1>t, <1>w, <2>1, <2>4, <2>5, <2>6, <2>7, <2>8, QuietTypes
       DEF TypeInv, TypeOK
<1>5. CASE CallFails(r)
  <2>1. /\ ans' = [ans EXCEPT ![r] = "error"]
        /\ UNCHANGED <<versions, nodeVars, got, pc, entry, on, result, hinted>>
        /\ Spend("error")
    BY <1>5 DEF CallFails, NoNodeEffect
  <2>2. /\ budget' \in [change : 0..MaxChanges, error : 0..MaxErrors]
        /\ ans' \in [Request -> Refusals \cup {"none", "ok", "error"}]
    BY <2>1, SpendTypes DEF TypeInv, TypeOK
  <2>3. TypeOK'
    BY <2>1, <2>2 DEF TypeInv, TypeOK, nodeVars
  <2> QED
    BY <2>1, <2>3 DEF TypeInv, WorkInv, LockInv, ReadsAt, nodeVars
<1>6. CASE Reply(r)
  <2>1. /\ pc[r] = "reply"
        /\ \/ Invalidate(entry[r])
           \/ cache' = cache
        /\ ans' = [ans EXCEPT ![r] = result[r]]
        /\ pc' = [pc EXCEPT ![r] = "done"]
        /\ UNCHANGED <<versions, role, viewMx, shown, got, entry, on, result,
                       hinted, budget>>
    BY <1>6 DEF Reply, Goto
  <2>2. cache' \in [Node -> 0..Len(versions)]
    BY <1>t, <1>w, <2>1, InvalidateTypes
  <2>3. "done" \in Labels \ Decides
    BY DEF Labels, Decides
  <2>4. ans' \in [Request -> Refusals \cup {"none", "ok", "error"}]
    BY <2>1 DEF TypeInv, TypeOK
  <2> QED
    BY <1>p, <1>t, <1>w, <2>1, <2>2, <2>3, <2>4, NotLocked, SameGrows, QuietTypes
       DEF TypeInv, TypeOK
<1>7. CASE RouteView(r) \/ Hint(r) \/ PlaceView(r)
  BY <1>7, RequestReadTypes
<1>8. CASE Refuse(r)
  BY <1>8, <1>p, <1>t, NotLocked, SameGrows, ReturnsTypes
     DEF Refuse, Forget, nodeVars, Refusals
<1>9. CASE RefuseBlindly(r)
  <2>1. \A m \in Node : r \notin viewMx[m]
    BY <1>9, <1>p DEF RefuseBlindly, TypeInv, LockInv, ReadsAt
  <2> QED
    BY <1>9, <1>t, <2>1, SameGrows, SpendTypes, ReturnsTypes
       DEF RefuseBlindly, NoNodeEffect, nodeVars, Refusals, TypeInv
<1>10. CASE FollowHint(r)
  <2> DEFINE c == Controller(got[r])
  <2>1. /\ pc[r] = "hinted" /\ r \in Cli
        /\ c # NoOne
        /\ entry' = [entry EXCEPT ![r] = c]
        /\ on' = [on EXCEPT ![r] = c]
        /\ hinted' = hinted \cup {r}
        /\ pc' = [pc EXCEPT ![r] = "role"]
        /\ got' = [got EXCEPT ![r] = 0]
        /\ UNCHANGED <<versions, nodeVars, result, ans, budget>>
    BY <1>10 DEF FollowHint, Goto, Forget
  <2>2. got[r] \in 1..Len(versions)
    BY <1>p, <2>1 DEF TypeInv, TypeOK, WorkInv, Decides
  <2>3. c \in Node
    BY <1>t, <2>1, <2>2, ControllerIsNode
  <2> HIDE DEF c
  <2>4. "role" \in Labels \ Decides
    BY DEF Labels, Decides
  <2>5. \A m \in Node : r \notin viewMx[m]
    BY <1>p, <2>1, NotLocked
  <2>6. Grows
    BY <1>t, <2>1, SameGrows
  <2>7. /\ entry' \in [Process -> Node \cup {NoOne}]
        /\ on' \in [Request -> Node \cup {NoOne}]
        /\ \A q \in Process : q # r => entry'[q] = entry[q]
        /\ \A q \in Request : q # r => on'[q] = on[q]
        /\ entry'[r] \in Node /\ on'[r] \in Node
        /\ hinted' \subseteq Cli
    BY <1>p, <2>1, <2>3 DEF TypeInv, TypeOK
  <2>8. UNCHANGED <<role, viewMx, cache, shown>>
    BY <2>1 DEF nodeVars
  <2> QED
    BY <1>p, <1>t, <2>1, <2>4, <2>5, <2>6, <2>7, <2>8, QuietTypes
       DEF TypeInv, TypeOK
<1>11. CASE Exists(r)
  <2>1. /\ pc[r] = "exists"
        /\ UNCHANGED <<versions, nodeVars, got, budget>>
        /\ \/ Returns(r, "exists")
           \/ pc' = [pc EXCEPT ![r] = "view"] /\ UNCHANGED reqVars
    BY <1>11 DEF Exists, NoNodeEffect, Goto
  <2>2. CASE Returns(r, "exists")
    BY <1>p, <1>t, <2>1, <2>2, NotLocked, SameGrows, ReturnsTypes
       DEF nodeVars, Refusals
  <2>3. CASE pc' = [pc EXCEPT ![r] = "view"] /\ UNCHANGED reqVars
    <3>1. "view" \in Labels \ (Decides \cup {"read", "new"})
      BY DEF Labels, Decides
    <3> QED
      BY <1>t, <2>1, <2>3, <3>1, SameGrows, MovesTypes
  <2> QED
    BY <2>1, <2>2, <2>3
<1>12. CASE Place(r)
  <2>1. /\ pc[r] = "place"
        /\ got' = [got EXCEPT ![r] = 0]
        /\ UNCHANGED <<versions, nodeVars, budget>>
        /\ \/ Returns(r, "notEnough")
           \/ pc' = [pc EXCEPT ![r] = "put"] /\ UNCHANGED reqVars
    BY <1>12 DEF Place, Forget, Goto
  <2>2. CASE Returns(r, "notEnough")
    BY <1>p, <1>t, <2>1, <2>2, NotLocked, SameGrows, ReturnsTypes
       DEF nodeVars, Refusals
  <2>3. CASE pc' = [pc EXCEPT ![r] = "put"] /\ UNCHANGED reqVars
    <3>1. "put" \in Labels \ (Decides \cup {"read", "new"})
      BY DEF Labels, Decides
    <3> QED
      BY <1>t, <2>1, <2>3, <3>1, SameGrows, MovesTypes
  <2> QED
    BY <2>1, <2>2, <2>3
<1>13. CASE PutSucceeds(r)
  <2>1. "created" \in Labels \ (Decides \cup {"read", "new"})
    BY DEF Labels, Decides
  <2> QED
    BY <1>13, <1>t, <2>1, PutGrows, MovesTypes DEF PutSucceeds, Moves, Goto
<1>14. CASE PutRefused(r)
  BY <1>14, <1>p, <1>t, NotLocked, SameGrows, ReturnsTypes
     DEF PutRefused, NoNodeEffect, nodeVars, Refusals
<1>15. CASE EtcdFails(r)
  <2>1. /\ pc[r] \in {"routing", "exists", "view", "put"}
        /\ r \notin viewMx[entry[r]] \cup viewMx[on[r]]
        /\ Spend("error")
        /\ Returns(r, "error")
        /\ UNCHANGED versions \/ Put(r)
        /\ UNCHANGED <<nodeVars, got>>
    BY <1>15 DEF EtcdFails
  <2>2. \A m \in Node : r \notin viewMx[m]
    BY <1>p, <2>1 DEF TypeInv, LockInv, ReadsAt
  <2>3. Grows
    BY <1>t, <2>1, SameGrows, PutGrows
  <2> QED
    BY <1>t, <2>1, <2>2, <2>3, SpendTypes, ReturnsTypes DEF nodeVars, TypeInv
<1>16. CASE Created(r)
  <2>1. cache' \in [Node -> 0..Len(versions)]
    BY <1>16, <1>w, InvalidateTypes DEF Created
  <2> QED
    BY <1>16, <1>p, <1>t, <2>1, NotLocked, SameGrows, ReturnsTypes DEF Created
<1> QED
  BY <1>1, <1>2, <1>3, <1>4, <1>5, <1>6, <1>7, <1>8, <1>9, <1>10, <1>11, <1>12,
     <1>13, <1>14, <1>15, <1>16 DEF Create

LEMMA NextTypes == TypeInv /\ [Next]_vars => TypeInv'
<1> SUFFICES ASSUME TypeInv, [Next]_vars PROVE TypeInv'
  OBVIOUS
<1>1. CASE UNCHANGED vars
  BY <1>1 DEF vars, nodeVars, reqVars, TypeInv, TypeOK, WorkInv, LockInv, ReadsAt
<1> QED
  BY <1>1, ClusterTypes, ReaderTypes, CreateTypes DEF Next

\* Every variable keeps its type, and only one process at a time holds the
\* lock on the view of a node.
THEOREM RoutingTypes == Spec => []TypeOK
<1>1. TypeInv => TypeOK
  BY DEF TypeInv
<1> QED
  BY <1>1, InitTypes, NextTypes, PTL DEF Spec

-----------------------------------------------------------------------------
(* Answers.                                                                *)

\* What is known of the topic while r is on its way: it is not r's before the
\* put, and r's after it succeeded; a refused request will not try again.
BeforePut == {"new", "route", "routing", "routed", "sent", "role", "hint",
              "hinted", "exists", "view", "place", "put"}

Outcome(r) ==
    /\ pc[r] \in BeforePut => Current.topic # r
    /\ pc[r] = "created" => Current.topic = r
    /\ result[r] = "ok" => Current.topic = r
    /\ ans[r] = "ok" => Current.topic = r /\ pc[r] = "done"
    /\ result[r] \in Refusals => pc[r] \in {"reply", "done"} /\ Current.topic # r
    /\ ans[r] \in Refusals => pc[r] = "done" /\ Current.topic # r

OutcomeInv == \A r \in Request : Outcome(r)

\* The topic is taken once, by a request at its put.
TopicStep ==
    \/ Current'.topic = Current.topic
    \/ \E r \in Request : /\ Current.topic = NoOne /\ Current'.topic = r
                          /\ pc[r] = "put"

\* A request keeps its outcome while others take steps.
LEMMA OthersOutcome ==
    ASSUME NEW q \in Request, Outcome(q),
           pc'[q] = pc[q], result'[q] = result[q], ans'[q] = ans[q],
           \/ Current'.topic = Current.topic
           \/ Current.topic = NoOne /\ Current'.topic # q
    PROVE  Outcome(q)'
  BY RoutingAssumption DEF Outcome

\* Returning a says what the topic is.
LEMMA ReturnsOutcome ==
    ASSUME TypeInv, NEW r \in Request, Outcome(r), pc[r] # "new",
           pc[r] \notin {"reply", "done"},
           NEW a \in Refusals \cup {"ok", "error"}, Returns(r, a),
           a = "ok" => Current'.topic = r,
           a \in Refusals => Current'.topic # r,
           result[r] = "ok" => Current'.topic = r
    PROVE  Outcome(r)'
<1>1. ans[r] # "ok" /\ ans[r] \notin Refusals /\ result[r] \notin Refusals
  BY DEF Outcome
<1>2. "ok" \notin Refusals /\ "error" \notin Refusals /\ "none" \notin Refusals
  BY DEF Refusals
<1>3. PICK label \in {"done", "reply"} :
        /\ pc' = [pc EXCEPT ![r] = label]
        /\ label = "done" => ans' = [ans EXCEPT ![r] = a] /\ result' = result
        /\ label = "reply" => result' = [result EXCEPT ![r] = a] /\ ans' = ans
  BY ReturnsFacts
<1>4. pc'[r] = label
  BY <1>3 DEF TypeInv, TypeOK, Process
<1>5. CASE label = "done"
  <2>1. ans'[r] = a /\ result'[r] = result[r]
    BY <1>3, <1>5 DEF TypeInv, TypeOK
  <2> QED
    BY <1>1, <1>2, <1>4, <1>5, <2>1 DEF Outcome, BeforePut
<1>6. CASE label = "reply"
  <2>1. ans'[r] = ans[r] /\ result'[r] = a
    BY <1>3, <1>6 DEF TypeInv, TypeOK
  <2> QED
    BY <1>1, <1>2, <1>4, <1>6, <2>1 DEF Outcome, BeforePut
<1> QED
  BY <1>5, <1>6

\* The steps of a request touch neither another's place nor its answers.
LEMMA CreateLocal ==
    ASSUME TypeInv, NEW r \in Request, Create(r), NEW q \in Request, q # r
    PROVE  pc'[q] = pc[q] /\ result'[q] = result[q] /\ ans'[q] = ans[q]
<1>p. q \in Process
  BY DEF Process
<1>1. ASSUME NEW a, Returns(r, a)
      PROVE  pc'[q] = pc[q] /\ result'[q] = result[q] /\ ans'[q] = ans[q]
  BY <1>1, <1>p DEF Returns, Goto, TypeInv, TypeOK
<1>2. ASSUME NEW label, Goto(r, label) PROVE pc'[q] = pc[q]
  BY <1>2, <1>p DEF Goto, TypeInv, TypeOK
<1>3. CASE \/ \E n \in Node : Arrive(r, n)
           \/ Route(r) \/ RouteTo(r) \/ Deliver(r) \/ ReplyUnwanted(r) \/ Role(r)
           \/ FollowHint(r) \/ PutSucceeds(r)
  BY <1>2, <1>3 DEF Arrive, Route, RouteTo, Deliver, ReplyUnwanted, Role,
     FollowHint, PutSucceeds, Moves, reqVars
<1>4. CASE RouteView(r) \/ Hint(r) \/ PlaceView(r)
  BY <1>2, <1>4 DEF RouteView, Hint, PlaceView, ReadView, TakeCached, Fetch,
     Store, reqVars
<1>5. CASE \/ RouteNowhere(r) \/ Refuse(r) \/ RefuseBlindly(r) \/ PutRefused(r)
           \/ EtcdFails(r) \/ Created(r)
  BY <1>1, <1>5 DEF RouteNowhere, Refuse, RefuseBlindly, PutRefused, EtcdFails,
     Created
<1>6. CASE CallFails(r) \/ Reply(r)
  BY <1>2, <1>6 DEF CallFails, Reply, TypeInv, TypeOK
<1>7. CASE Exists(r)
  BY <1>1, <1>2, <1>7 DEF Exists, reqVars
<1>8. CASE Place(r)
  BY <1>1, <1>2, <1>8 DEF Place, reqVars
<1> QED
  BY <1>3, <1>4, <1>5, <1>6, <1>7, <1>8 DEF Create

\* All but the put leave the versions.
LEMMA VersionsKept ==
    ASSUME TypeInv, NEW r \in Request, Create(r)
    PROVE  UNCHANGED versions \/ (pc[r] = "put" /\ KeyAbsent /\ Put(r))
  BY DEF Create, Arrive, Route, RouteView, RouteNowhere, RouteTo, Deliver,
     CallFails, Reply, ReplyUnwanted, Role, Hint, Refuse, RefuseBlindly,
     FollowHint, Exists, PlaceView, Place, PutSucceeds, PutRefused, EtcdFails,
     Created, NoNodeEffect, ReadView, TakeCached, Fetch, Store, Moves

LEMMA NextTopic ==
    ASSUME TypeInv, [Next]_vars
    PROVE  Grows /\ TopicStep
<1>t. versions \in Seq(Version) /\ versions # <<>>
  BY DEF TypeInv, TypeOK
<1>1. CASE UNCHANGED versions
  BY <1>t, <1>1, SameGrows DEF TopicStep
<1>2. ASSUME NEW n \in Node, Elect(n) \/ Evict(n) \/ Return(n)
      PROVE  Grows /\ TopicStep
  BY <1>t, <1>2, ChangeGrows DEF TopicStep
<1>3. ASSUME NEW r \in Request, Create(r) PROVE Grows /\ TopicStep
  <2>1. CASE pc[r] = "put" /\ KeyAbsent /\ Put(r)
    BY <1>t, <2>1, PutGrows DEF TopicStep, KeyAbsent
  <2> QED
    BY <1>1, <1>3, <2>1, VersionsKept
<1>4. CASE UNCHANGED vars
  BY <1>1, <1>4 DEF vars
<1>5. ASSUME NEW n \in Node, RoleFollows(n) PROVE UNCHANGED versions
  BY <1>5 DEF RoleFollows
<1>6. ASSUME NEW d \in Reader, ReadStart(d) \/ ReadNow(d) \/ ReadAnswer(d)
      PROVE  UNCHANGED versions
  BY <1>6 DEF ReadStart, ReadNow, ReadAnswer, ReadView, TakeCached, Fetch, Store
<1> QED
  BY <1>1, <1>2, <1>3, <1>4, <1>5, <1>6 DEF Next

LEMMA CreateOutcome ==
    ASSUME TypeInv, NEW r \in Request, Outcome(r), Create(r)
    PROVE  Outcome(r)'
<1>p. r \in Process
  BY DEF Process
<1>t. versions \in Seq(Version) /\ versions # <<>>
  BY DEF TypeInv, TypeOK
<1>s. UNCHANGED versions => Current' = Current
  BY <1>t, SameGrows
<1>a. "ok" \notin Refusals /\ "error" \notin Refusals /\ "none" \notin Refusals
  BY DEF Refusals
\* On the way to the put.
<1>1. ASSUME pc[r] \in BeforePut, UNCHANGED versions, UNCHANGED <<result, ans>>,
             NEW label \in BeforePut, Goto(r, label)
      PROVE  Outcome(r)'
  <2>1. pc'[r] = label
    BY <1>p, <1>1 DEF Goto, TypeInv, TypeOK
  <2> QED
    BY <1>1, <1>s, <2>1 DEF Outcome, BeforePut
<1>2. CASE \/ \E n \in Node : Arrive(r, n)
           \/ Route(r) \/ RouteTo(r) \/ Deliver(r) \/ Role(r) \/ FollowHint(r)
  BY <1>1, <1>2 DEF Arrive, Route, RouteTo, Deliver, Role, FollowHint, Moves,
     NoNodeEffect, reqVars, BeforePut
<1>3. CASE RouteView(r) \/ Hint(r) \/ PlaceView(r)
  <2>1. /\ pc[r] \in BeforePut
        /\ UNCHANGED <<versions, result, ans>>
        /\ \/ pc' = pc
           \/ \E label \in BeforePut : Goto(r, label)
    BY <1>3 DEF RouteView, Hint, PlaceView, ReadView, TakeCached, Fetch, Store,
       reqVars, BeforePut
  <2>2. CASE pc' = pc
    BY <1>s, <2>1, <2>2 DEF Outcome
  <2> QED
    BY <1>1, <2>1, <2>2
<1>4. CASE \/ RouteNowhere(r) \/ Refuse(r) \/ RefuseBlindly(r)
  <2>1. /\ pc[r] \in {"routed", "hinted", "hint"}
        /\ \E a \in Refusals : Returns(r, a)
        /\ UNCHANGED versions
    BY <1>4 DEF RouteNowhere, Refuse, RefuseBlindly, NoNodeEffect, Refusals
  <2>2. Current'.topic # r /\ result[r] # "ok"
    BY <1>s, <2>1 DEF Outcome, BeforePut
  <2> QED
    BY <1>a, <2>1, <2>2, ReturnsOutcome
<1>5. CASE Exists(r)
  <2>1. CASE Returns(r, "exists")
    <3>1. /\ pc[r] = "exists" /\ UNCHANGED versions
          /\ "exists" \in Refusals
      BY <1>5 DEF Exists, NoNodeEffect, Refusals
    <3>2. Current'.topic # r /\ result[r] # "ok"
      BY <1>s, <3>1 DEF Outcome, BeforePut
    <3> QED
      BY <1>a, <2>1, <3>1, <3>2, ReturnsOutcome
  <2>2. CASE Goto(r, "view") /\ UNCHANGED reqVars
    BY <1>1, <1>5, <2>2 DEF Exists, NoNodeEffect, reqVars, BeforePut
  <2> QED
    BY <1>5, <2>1, <2>2 DEF Exists
<1>6. CASE Place(r)
  <2>1. CASE Returns(r, "notEnough")
    <3>1. /\ pc[r] = "place" /\ UNCHANGED versions
          /\ "notEnough" \in Refusals
      BY <1>6 DEF Place, Refusals
    <3>2. Current'.topic # r /\ result[r] # "ok"
      BY <1>s, <3>1 DEF Outcome, BeforePut
    <3> QED
      BY <1>a, <2>1, <3>1, <3>2, ReturnsOutcome
  <2>2. CASE Goto(r, "put") /\ UNCHANGED reqVars
    BY <1>1, <1>6, <2>2 DEF Place, reqVars, BeforePut
  <2> QED
    BY <1>6, <2>1, <2>2 DEF Place
<1>7. CASE PutSucceeds(r)
  <2>1. /\ pc[r] = "put" /\ pc' = [pc EXCEPT ![r] = "created"]
        /\ UNCHANGED <<result, ans>>
        /\ Put(r)
    BY <1>7 DEF PutSucceeds, Moves, Goto, reqVars
  <2>2. pc'[r] = "created" /\ Current'.topic = r
    BY <1>p, <1>t, <2>1, PutGrows DEF TypeInv, TypeOK
  <2> QED
    BY <2>1, <2>2 DEF Outcome, BeforePut
<1>8. CASE PutRefused(r)
  <2>1. /\ pc[r] = "put" /\ UNCHANGED versions
        /\ Returns(r, "race") /\ "race" \in Refusals
    BY <1>8 DEF PutRefused, NoNodeEffect, Refusals
  <2>2. Current'.topic # r /\ result[r] # "ok"
    BY <1>s, <2>1 DEF Outcome, BeforePut
  <2> QED
    BY <1>a, <2>1, <2>2, ReturnsOutcome
<1>9. CASE EtcdFails(r)
  <2>1. /\ pc[r] \in BeforePut \ {"new"}
        /\ Returns(r, "error")
    BY <1>9 DEF EtcdFails, BeforePut
  <2>2. result[r] # "ok"
    BY <2>1 DEF Outcome
  <2> QED
    BY <1>a, <2>1, <2>2, ReturnsOutcome DEF BeforePut
<1>10. CASE Created(r)
  <2>1. pc[r] = "created" /\ UNCHANGED versions /\ Returns(r, "ok")
    BY <1>10 DEF Created
  <2>2. Current'.topic = r
    BY <1>s, <2>1 DEF Outcome
  <2> QED
    BY <1>a, <2>1, <2>2, ReturnsOutcome
<1>11. CASE CallFails(r)
  <2>1. /\ ans' = [ans EXCEPT ![r] = "error"]
        /\ UNCHANGED <<versions, pc, result>>
    BY <1>11 DEF CallFails, NoNodeEffect
  <2>2. ans'[r] = "error"
    BY <2>1 DEF TypeInv, TypeOK
  <2> QED
    BY <1>a, <1>s, <2>1, <2>2 DEF Outcome
<1>12. CASE Reply(r)
  <2>1. /\ pc[r] = "reply"
        /\ ans' = [ans EXCEPT ![r] = result[r]]
        /\ pc' = [pc EXCEPT ![r] = "done"]
        /\ UNCHANGED <<versions, result>>
    BY <1>12 DEF Reply, Goto
  <2>2. ans'[r] = result[r] /\ pc'[r] = "done"
    BY <1>p, <2>1 DEF TypeInv, TypeOK
  <2> QED
    BY <1>s, <2>1, <2>2 DEF Outcome, BeforePut
<1>13. CASE ReplyUnwanted(r)
  <2>1. /\ pc[r] = "reply"
        /\ pc' = [pc EXCEPT ![r] = "done"]
        /\ UNCHANGED <<versions, result, ans>>
    BY <1>13 DEF ReplyUnwanted, Moves, Goto, NoNodeEffect, reqVars
  <2>2. pc'[r] = "done"
    BY <1>p, <2>1 DEF TypeInv, TypeOK
  <2> QED
    BY <1>s, <2>1, <2>2 DEF Outcome, BeforePut
<1> QED
  BY <1>2, <1>3, <1>4, <1>5, <1>6, <1>7, <1>8, <1>9, <1>10, <1>11, <1>12, <1>13
     DEF Create

LEMMA NextOutcome == TypeInv /\ OutcomeInv /\ [Next]_vars => OutcomeInv'
<1> SUFFICES ASSUME TypeInv, OutcomeInv, [Next]_vars,
                    NEW q \in Request
             PROVE  Outcome(q)'
  BY DEF OutcomeInv
<1>o. Outcome(q)
  BY DEF OutcomeInv
<1>t. versions \in Seq(Version) /\ versions # <<>>
  BY DEF TypeInv, TypeOK
<1>1. ASSUME NEW r \in Request, Create(r) PROVE Outcome(q)'
  <2>1. CASE q = r
    BY <1>1, <1>o, <2>1, CreateOutcome
  <2>2. CASE q # r
    <3>1. \/ Current'.topic = Current.topic
          \/ Current.topic = NoOne /\ Current'.topic # q
      BY <1>1, <1>t, <2>2, VersionsKept, PutGrows, SameGrows DEF KeyAbsent
    <3> QED
      BY <1>1, <1>o, <2>2, <3>1, CreateLocal, OthersOutcome
  <2> QED
    BY <2>1, <2>2
<1>2. ASSUME NEW n \in Node, Elect(n) \/ Evict(n) \/ Return(n) \/ RoleFollows(n)
      PROVE  Outcome(q)'
  <2>1. Current'.topic = Current.topic
    BY <1>2, <1>t, ChangeGrows, SameGrows DEF RoleFollows
  <2>2. UNCHANGED <<pc, result, ans>>
    BY <1>2 DEF Elect, Evict, Return, Changes, RoleFollows, reqVars
  <2> QED
    BY <1>o, <2>1, <2>2, OthersOutcome
<1>3. ASSUME NEW d \in Reader, ReadStart(d) \/ ReadNow(d) \/ ReadAnswer(d)
      PROVE  Outcome(q)'
  <2>1. UNCHANGED <<versions, result, ans>>
    BY <1>3 DEF ReadStart, ReadNow, ReadAnswer, ReadView, TakeCached, Fetch,
       Store, reqVars
  <2>2. pc' = pc \/ \E label \in Labels : pc' = [pc EXCEPT ![d] = label]
    BY <1>3 DEF ReadStart, ReadNow, ReadAnswer, ReadView, TakeCached, Fetch,
       Store, Goto, Labels
  <2>3. pc'[q] = pc[q]
    BY <2>2, RoutingAssumption DEF TypeInv, TypeOK, Process
  <2> QED
    BY <1>o, <1>t, <2>1, <2>3, SameGrows, OthersOutcome
<1>4. CASE UNCHANGED vars
  BY <1>o, <1>t, <1>4, SameGrows, OthersOutcome DEF vars, reqVars
<1> QED
  BY <1>1, <1>2, <1>3, <1>4 DEF Next

LEMMA InitOutcome == Init => OutcomeInv
<1> SUFFICES ASSUME Init, NEW r \in Request PROVE Outcome(r)
  BY DEF OutcomeInv
<1>1. Current.topic = NoOne
  BY DEF Init, Current
<1>2. pc[r] = "new" /\ result[r] = "none" /\ ans[r] = "none"
  BY DEF Init, Process
<1> QED
  BY <1>1, <1>2, RoutingAssumption DEF Outcome, BeforePut, Refusals

\* A client that is told of success has created the topic, and one that is
\* refused has not and will not, through any number of nodes, controllers, lost
\* answers and calls that fail after they were executed.
THEOREM AnswersAreTrue == Spec => []AnswersTellOutcome
<1>1. OutcomeInv => AnswersTellOutcome
  BY DEF OutcomeInv, Outcome, AnswersTellOutcome
<1> QED
  BY <1>1, InitTypes, NextTypes, InitOutcome, NextOutcome, PTL DEF Spec

-----------------------------------------------------------------------------
(* Views.                                                                  *)

\* What a step can do to the view of node n: leave or drop it, begin a read,
\* end one.
Kept(n) ==
    /\ cache'[n] \in {cache[n], 0}
    /\ viewMx'[n] = viewMx[n]
    /\ \A p \in viewMx[n] : got'[p] = got[p]

Fetched(n) ==
    /\ viewMx[n] = {}
    /\ cache'[n] = cache[n]
    /\ UNCHANGED versions
    /\ \E p \in Process : viewMx'[n] = {p} /\ got'[p] = Len(versions)

Stored(n) ==
    /\ viewMx'[n] = {}
    /\ \E p \in viewMx[n] : cache'[n] = got[p]

LEMMA ReadViewStep ==
    ASSUME TypeInv, NEW p \in Process, NEW m \in Node, NEW label,
           pc[p] \in {"read", "routing", "hint", "view"}, ReadsAt(p) = m,
           TakeCached(p, m, label) \/ Fetch(p, m) \/ Store(p, m, label),
           NEW n \in Node
    PROVE  Kept(n) \/ Fetched(n) \/ Stored(n)
<1>1. n # m => p \notin viewMx[n]
  BY DEF TypeInv, LockInv
<1>2. CASE TakeCached(p, m, label)
  <2>1. /\ viewMx[m] = {}
        /\ got' = [got EXCEPT ![p] = cache[m]]
        /\ UNCHANGED <<cache, viewMx>>
    BY <1>2 DEF TakeCached, Free, nodeVars
  <2>2. p \notin viewMx[n]
    BY <1>1, <2>1
  <2>3. \A q \in viewMx[n] : got'[q] = got[q]
    BY <2>1, <2>2 DEF TypeInv, TypeOK
  <2> QED
    BY <2>1, <2>3 DEF Kept
<1>3. CASE Fetch(p, m)
  <2>1. /\ viewMx[m] = {}
        /\ viewMx' = [viewMx EXCEPT ![m] = {p}]
        /\ got' = [got EXCEPT ![p] = Len(versions)]
        /\ UNCHANGED <<cache, versions>>
    BY <1>3 DEF Fetch, Free
  <2>2. CASE n = m
    <3>1. viewMx'[n] = {p} /\ got'[p] = Len(versions)
      BY <2>1, <2>2 DEF TypeInv, TypeOK
    <3> QED
      BY <2>1, <2>2, <3>1 DEF Fetched
  <2>3. CASE n # m
    <3>1. viewMx'[n] = viewMx[n]
      BY <2>1, <2>3 DEF TypeInv, TypeOK
    <3>2. \A q \in viewMx[n] : got'[q] = got[q]
      BY <1>1, <2>1, <2>3 DEF TypeInv, TypeOK
    <3> QED
      BY <2>1, <3>1, <3>2 DEF Kept
  <2> QED
    BY <2>2, <2>3
<1>4. CASE Store(p, m, label)
  <2>1. /\ p \in viewMx[m]
        /\ viewMx' = [viewMx EXCEPT ![m] = viewMx[m] \ {p}]
        /\ cache' = [cache EXCEPT ![m] = got[p]]
        /\ UNCHANGED got
    BY <1>4 DEF Store
  <2>2. CASE n = m
    <3>1. viewMx'[n] = {} /\ cache'[n] = got[p]
      BY <2>1, <2>2 DEF TypeInv, TypeOK
    <3> QED
      BY <2>1, <2>2, <3>1 DEF Stored
  <2>3. CASE n # m
    BY <2>1, <2>3 DEF Kept, TypeInv, TypeOK
  <2> QED
    BY <2>2, <2>3
<1> QED
  BY <1>2, <1>3, <1>4

\* A step of p that leaves the locks and, unless it drops it, the view.
LEMMA QuietStep ==
    ASSUME TypeInv, NEW p \in Process, UNCHANGED viewMx,
           got' = got \/ got' = [got EXCEPT ![p] = 0],
           \A m \in Node : p \notin viewMx[m],
           cache' = cache \/ \E m \in Node : Invalidate(m),
           NEW n \in Node
    PROVE  Kept(n)
<1>1. cache'[n] \in {cache[n], 0}
  BY DEF Invalidate, TypeInv, TypeOK
<1>2. \A q \in viewMx[n] : got'[q] = got[q]
  BY DEF TypeInv, TypeOK
<1> QED
  BY <1>1, <1>2 DEF Kept

LEMMA NextView ==
    ASSUME TypeInv, [Next]_vars, NEW n \in Node
    PROVE  Kept(n) \/ Fetched(n) \/ Stored(n)
<1>1. CASE UNCHANGED <<cache, viewMx, got>>
  BY <1>1 DEF Kept
<1>2. ASSUME NEW m \in Node, Elect(m) \/ Evict(m) \/ Return(m) \/ RoleFollows(m)
      PROVE  UNCHANGED <<cache, viewMx, got>>
  BY <1>2 DEF Elect, Evict, Return, Changes, RoleFollows, nodeVars
<1>3. ASSUME NEW d \in Reader, ReadStart(d) \/ ReadNow(d) \/ ReadAnswer(d)
      PROVE  Kept(n) \/ Fetched(n) \/ Stored(n)
  <2>p. d \in Process
    BY DEF Process
  <2>1. CASE ReadStart(d)
    BY <1>1, <2>1 DEF ReadStart, nodeVars
  <2>2. CASE ReadNow(d)
    <3>1. pc[d] = "read" /\ ReadsAt(d) = entry[d] /\ entry[d] \in Node
      BY <2>p, <2>2 DEF ReadNow, ReadsAt, TypeInv, WorkInv
    <3>2. \/ TakeCached(d, entry[d], "answer")
          \/ Fetch(d, entry[d])
          \/ Store(d, entry[d], "answer")
      BY <2>2 DEF ReadNow, ReadView
    <3> QED
      BY <2>p, <3>1, <3>2, ReadViewStep
  <2>3. CASE ReadAnswer(d)
    BY <2>p, <2>3, NotLocked, QuietStep DEF ReadAnswer, Forget
  <2> QED
    BY <1>3, <2>1, <2>2, <2>3
<1>4. ASSUME NEW r \in Request, Create(r)
      PROVE  Kept(n) \/ Fetched(n) \/ Stored(n)
  <2>p. r \in Process
    BY DEF Process
  <2>w. pc[r] # "new" => entry[r] \in Node /\ on[r] \in Node
    BY <2>p DEF TypeInv, WorkInv
  <2>1. CASE RouteView(r)
    <3>1. pc[r] = "routing" /\ ReadsAt(r) = entry[r] /\ entry[r] \in Node
      BY <2>1, <2>w DEF RouteView, ReadsAt
    <3>2. Fetch(r, entry[r]) \/ Store(r, entry[r], "routed")
      BY <2>1 DEF RouteView, ReadView
    <3> QED
      BY <2>p, <3>1, <3>2, ReadViewStep
  <2>2. CASE Hint(r)
    <3>1. pc[r] = "hint" /\ ReadsAt(r) = on[r] /\ on[r] \in Node
      BY <2>2, <2>w DEF Hint, ReadsAt
    <3>2. \/ TakeCached(r, on[r], "hinted")
          \/ Fetch(r, on[r])
          \/ Store(r, on[r], "hinted")
      BY <2>2 DEF Hint, ReadView
    <3> QED
      BY <2>p, <3>1, <3>2, ReadViewStep
  <2>3. CASE PlaceView(r)
    <3>1. pc[r] = "view" /\ ReadsAt(r) = on[r] /\ on[r] \in Node
      BY <2>3, <2>w DEF PlaceView, ReadsAt
    <3>2. Fetch(r, on[r]) \/ Store(r, on[r], "place")
      BY <2>3 DEF PlaceView, ReadView
    <3> QED
      BY <2>p, <3>1, <3>2, ReadViewStep
  <2>4. CASE \/ \E m \in Node : Arrive(r, m)
             \/ Route(r) \/ Deliver(r) \/ CallFails(r) \/ ReplyUnwanted(r)
             \/ Role(r) \/ RefuseBlindly(r) \/ Exists(r) \/ PutSucceeds(r)
             \/ PutRefused(r) \/ EtcdFails(r)
    BY <1>1, <2>4 DEF Arrive, Route, Deliver, CallFails, ReplyUnwanted, Role,
       RefuseBlindly, Exists, PutSucceeds, PutRefused, EtcdFails, NoNodeEffect,
       nodeVars
  <2>5. CASE RouteNowhere(r) \/ RouteTo(r) \/ Refuse(r) \/ FollowHint(r) \/ Place(r)
    <3>1. /\ pc[r] \in {"routed", "hinted", "place"}
          /\ UNCHANGED <<cache, viewMx>>
          /\ got' = [got EXCEPT ![r] = 0]
      BY <2>5 DEF RouteNowhere, RouteTo, Refuse, FollowHint, Place, Forget,
         nodeVars
    <3> QED
      BY <2>p, <3>1, NotLocked, QuietStep
  <2>6. CASE Reply(r) \/ Created(r)
    <3>1. /\ pc[r] \in {"reply", "created"}
          /\ UNCHANGED <<viewMx, got>>
          /\ \/ cache' = cache
             \/ Invalidate(entry[r])
             \/ Invalidate(on[r])
      BY <2>6 DEF Reply, Created
    <3> QED
      BY <2>p, <2>w, <3>1, NotLocked, QuietStep
  <2> QED
    BY <1>4, <2>1, <2>2, <2>3, <2>4, <2>5, <2>6 DEF Create
<1>5. CASE UNCHANGED vars
  BY <1>1, <1>5 DEF vars, nodeVars
<1> QED
  BY <1>1, <1>2, <1>3, <1>4, <1>5 DEF Next
-----------------------------------------------------------------------------
(* A step leaves the other processes where they are.                       *)

Still(q) == pc'[q] = pc[q] /\ got'[q] = got[q] /\ entry'[q] = entry[q]

LEMMA ReadViewStill ==
    ASSUME TypeInv, NEW p \in Process, NEW n, NEW label,
           TakeCached(p, n, label) \/ Fetch(p, n) \/ Store(p, n, label),
           NEW q \in Process, q # p
    PROVE  Still(q)
  BY DEF TakeCached, Fetch, Store, Goto, Still, reqVars, TypeInv, TypeOK

LEMMA ReaderStill ==
    ASSUME TypeInv, NEW d \in Reader,
           ReadStart(d) \/ ReadNow(d) \/ ReadAnswer(d),
           NEW q \in Process, q # d
    PROVE  Still(q)
<1>p. d \in Process
  BY DEF Process
<1>1. CASE ReadStart(d) \/ ReadAnswer(d)
  BY <1>p, <1>1 DEF ReadStart, ReadAnswer, Goto, Forget, Still, TypeInv, TypeOK
<1>2. CASE ReadNow(d)
  BY <1>p, <1>2, ReadViewStill DEF ReadNow, ReadView
<1> QED
  BY <1>1, <1>2

LEMMA CreateStill ==
    ASSUME TypeInv, NEW r \in Request, Create(r),
           NEW q \in Process, q # r
    PROVE  Still(q)
<1>p. r \in Process
  BY DEF Process
<1>1. CASE RouteView(r) \/ Hint(r) \/ PlaceView(r)
  BY <1>p, <1>1, ReadViewStill DEF RouteView, Hint, PlaceView, ReadView
<1>2. CASE ~(RouteView(r) \/ Hint(r) \/ PlaceView(r))
  <2>1. pc' = pc \/ \E label : pc' = [pc EXCEPT ![r] = label]
    BY <1>2 DEF Create, Arrive, Route, RouteNowhere, RouteTo, Deliver, CallFails,
       Reply, ReplyUnwanted, Role, Refuse, RefuseBlindly, FollowHint, Exists,
       Place, PutSucceeds, PutRefused, EtcdFails, Created, Returns, Moves, Goto
  <2>2. got' = got \/ got' = [got EXCEPT ![r] = 0]
    BY <1>2 DEF Create, Arrive, Route, RouteNowhere, RouteTo, Deliver, CallFails,
       Reply, ReplyUnwanted, Role, Refuse, RefuseBlindly, FollowHint, Exists,
       Place, PutSucceeds, PutRefused, EtcdFails, Created, Forget, NoNodeEffect
  <2>3. entry' = entry \/ \E n : entry' = [entry EXCEPT ![r] = n]
    BY <1>2 DEF Create, Arrive, Route, RouteNowhere, RouteTo, Deliver, CallFails,
       Reply, ReplyUnwanted, Role, Refuse, RefuseBlindly, FollowHint, Exists,
       Place, PutSucceeds, PutRefused, EtcdFails, Created, Returns, reqVars
  <2> QED
    BY <2>1, <2>2, <2>3 DEF Still, TypeInv, TypeOK
<1> QED
  BY <1>1, <1>2

LEMMA ClusterStill ==
    ASSUME NEW n \in Node, Elect(n) \/ Evict(n) \/ Return(n) \/ RoleFollows(n)
    PROVE  UNCHANGED <<pc, got, entry, ans, shown>>
  BY DEF Elect, Evict, Return, Changes, RoleFollows, nodeVars, reqVars
-----------------------------------------------------------------------------
(* What nodes show.                                                        *)

\* A view at position v is not newer than what node n keeps or is reading.
NotNewer(v, n) ==
    /\ cache[n] # 0 => v <= cache[n]
    /\ \A p \in viewMx[n] : v <= got[p]

\* So is what a node has shown last, and a view being read replaces an older
\* one; so is what a reader is about to show.
Fresh(n) == /\ NotNewer(shown[n], n)
            /\ \A p \in viewMx[n] : cache[n] <= got[p]

Answering(d) == pc[d] = "answer" => NotNewer(got[d], entry[d])

ViewInv == /\ \A n \in Node : Fresh(n)
           /\ \A d \in Reader : Answering(d)

LEMMA InitView == Init => ViewInv
  BY DEF Init, ViewInv, Fresh, Answering, NotNewer, Process

\* What is not newer than a view stays so.
LEMMA NotNewerKept ==
    ASSUME TypeInv, [Next]_vars, NEW n \in Node, Fresh(n),
           NEW v \in 0..Len(versions), NotNewer(v, n)
    PROVE  /\ cache'[n] # 0 => v <= cache'[n]
           /\ \A p \in viewMx'[n] : v <= got'[p]
<1>1. CASE Kept(n)
  BY <1>1 DEF Kept, NotNewer
<1>2. CASE Fetched(n)
  <2>1. v <= Len(versions)
    BY CurrentIsVersion DEF TypeInv, TypeOK
  <2> QED
    BY <1>2, <2>1 DEF Fetched, NotNewer
<1>3. CASE Stored(n)
  BY <1>3 DEF Stored, NotNewer
<1> QED
  BY <1>1, <1>2, <1>3, NextView

LEMMA ReadsReplace ==
    ASSUME TypeInv, [Next]_vars, NEW n \in Node, Fresh(n)
    PROVE  \A p \in viewMx'[n] : cache'[n] <= got'[p]
<1>1. CASE Kept(n)
  <2>1. \A p \in viewMx[n] : got[p] \in Nat
    BY DEF TypeInv, TypeOK
  <2> QED
    BY <1>1, <2>1 DEF Kept, Fresh
<1>2. CASE Fetched(n)
  <2>1. cache[n] <= Len(versions)
    BY CurrentIsVersion DEF TypeInv, TypeOK
  <2> QED
    BY <1>2, <2>1 DEF Fetched
<1>3. CASE Stored(n)
  BY <1>3 DEF Stored
<1> QED
  BY <1>1, <1>2, <1>3, NextView

\* Only readers show views.
LEMMA ShownBy ==
    ASSUME TypeInv, [Next]_vars, NEW n \in Node
    PROVE  \/ shown'[n] = shown[n]
           \/ \E d \in Reader : /\ pc[d] = "answer" /\ entry[d] = n
                                /\ shown'[n] = got[d]
<1>1. ASSUME NEW d \in Reader, ReadAnswer(d), shown' # shown
      PROVE  \/ shown'[n] = shown[n]
             \/ /\ pc[d] = "answer" /\ entry[d] = n
                /\ shown'[n] = got[d]
  <2>1. pc[d] = "answer" /\ shown' = [shown EXCEPT ![entry[d]] = got[d]]
    BY <1>1 DEF ReadAnswer, Shows
  <2> QED
    BY <2>1 DEF TypeInv, TypeOK
<1>2. ASSUME NEW d \in Reader, ReadStart(d) \/ ReadNow(d) PROVE UNCHANGED shown
  BY <1>2 DEF ReadStart, ReadNow, ReadView, TakeCached, Fetch, Store, nodeVars
<1>3. ASSUME NEW r \in Request, Create(r) PROVE UNCHANGED shown
  BY <1>3 DEF Create, Arrive, Route, RouteView, RouteNowhere, RouteTo, Deliver,
     CallFails, Reply, ReplyUnwanted, Role, Hint, Refuse, RefuseBlindly,
     FollowHint, Exists, PlaceView, Place, PutSucceeds, PutRefused, EtcdFails,
     Created, NoNodeEffect, ReadView, TakeCached, Fetch, Store, nodeVars
<1>4. CASE UNCHANGED vars
  BY <1>4 DEF vars, nodeVars
<1> QED
  BY <1>1, <1>2, <1>3, <1>4, ClusterStill DEF Next

\* A reader that is about to answer was so before, or has just got the view
\* that its node keeps.
LEMMA AnswersWith ==
    ASSUME TypeInv, [Next]_vars, NEW d \in Reader, pc'[d] = "answer"
    PROVE  \/ pc[d] = "answer" /\ Still(d)
           \/ /\ entry'[d] = entry[d] /\ entry[d] \in Node
              /\ cache'[entry[d]] = got'[d]
              /\ viewMx'[entry[d]] = {}
<1>p. d \in Process /\ d \notin Request
  BY RoutingAssumption DEF Process
<1>1. CASE ReadNow(d)
  <2>1. pc[d] = "read" /\ entry[d] \in Node
    BY <1>p, <1>1 DEF ReadNow, TypeInv, WorkInv
  <2>2. CASE TakeCached(d, entry[d], "answer")
    <3>1. /\ viewMx[entry[d]] = {}
          /\ got' = [got EXCEPT ![d] = cache[entry[d]]]
          /\ UNCHANGED <<cache, viewMx, entry>>
      BY <2>2 DEF TakeCached, Free, nodeVars, reqVars
    <3> QED
      BY <1>p, <2>1, <3>1 DEF TypeInv, TypeOK
  <2>3. CASE Fetch(d, entry[d])
    BY <2>1, <2>3 DEF Fetch
  <2>4. CASE Store(d, entry[d], "answer")
    <3>1. /\ d \in viewMx[entry[d]]
          /\ viewMx' = [viewMx EXCEPT ![entry[d]] = viewMx[entry[d]] \ {d}]
          /\ cache' = [cache EXCEPT ![entry[d]] = got[d]]
          /\ UNCHANGED <<got, entry>>
      BY <2>4 DEF Store, reqVars
    <3>2. viewMx'[entry[d]] = {} /\ cache'[entry[d]] = got[d]
      BY <2>1, <3>1 DEF TypeInv, TypeOK
    <3> QED
      BY <2>1, <3>1, <3>2
  <2> QED
    BY <1>1, <2>2, <2>3, <2>4 DEF ReadNow, ReadView
<1>2. CASE ReadStart(d) \/ ReadAnswer(d)
  <2>1. pc'[d] \in {"read", "new"}
    BY <1>p, <1>2 DEF ReadStart, ReadAnswer, Goto, TypeInv, TypeOK
  <2> QED
    BY <2>1
<1>3. CASE Still(d)
  BY <1>3 DEF Still
<1>4. ASSUME NEW c \in Reader, c # d, ReadStart(c) \/ ReadNow(c) \/ ReadAnswer(c)
      PROVE  Still(d)
  BY <1>p, <1>4, ReaderStill
<1>5. ASSUME NEW r \in Request, Create(r) PROVE Still(d)
  BY <1>p, <1>5, CreateStill
<1>6. ASSUME NEW n \in Node, Elect(n) \/ Evict(n) \/ Return(n) \/ RoleFollows(n)
      PROVE  Still(d)
  BY <1>6, ClusterStill DEF Still
<1>7. CASE UNCHANGED vars
  BY <1>7 DEF vars, reqVars, Still
<1> QED
  BY <1>1, <1>2, <1>3, <1>4, <1>5, <1>6, <1>7 DEF Next
LEMMA NextShown == TypeInv /\ ViewInv /\ [Next]_vars => ViewInv'
<1> SUFFICES ASSUME TypeInv, ViewInv, [Next]_vars PROVE ViewInv'
  OBVIOUS
<1>n. \A n \in Node : Fresh(n) /\ shown[n] \in 0..Len(versions)
  BY DEF ViewInv, TypeInv, TypeOK
<1>d. \A d \in Reader : Answering(d) /\ got[d] \in 0..Len(versions)
  BY DEF ViewInv, TypeInv, TypeOK, Process
<1>1. ASSUME NEW n \in Node PROVE Fresh(n)'
  <2>1. CASE shown'[n] = shown[n]
    BY <1>n, <2>1, NotNewerKept, ReadsReplace DEF Fresh, NotNewer
  <2>2. ASSUME NEW d \in Reader, pc[d] = "answer", entry[d] = n,
               shown'[n] = got[d]
        PROVE  Fresh(n)'
    <3>1. NotNewer(got[d], n)
      BY <1>d, <2>2 DEF Answering
    <3> QED
      BY <1>n, <1>d, <2>2, <3>1, NotNewerKept, ReadsReplace DEF Fresh, NotNewer
  <2> QED
    BY <2>1, <2>2, ShownBy
<1>2. ASSUME NEW d \in Reader, pc'[d] = "answer"
      PROVE  NotNewer(got[d], entry[d])'
  <2>1. CASE pc[d] = "answer" /\ Still(d)
    <3>1. entry[d] \in Node
      BY <2>1 DEF TypeInv, WorkInv, Process
    <3>2. NotNewer(got[d], entry[d])
      BY <1>d, <2>1 DEF Answering
    <3>3. /\ cache'[entry[d]] # 0 => got[d] <= cache'[entry[d]]
          /\ \A p \in viewMx'[entry[d]] : got[d] <= got'[p]
      BY <1>n, <1>d, <3>1, <3>2, NotNewerKept
    <3> QED
      BY <2>1, <3>3 DEF Still, NotNewer
  <2>2. CASE /\ entry'[d] = entry[d] /\ entry[d] \in Node
             /\ cache'[entry[d]] = got'[d]
             /\ viewMx'[entry[d]] = {}
    <3>1. got'[d] \in Nat
      BY NextTypes DEF TypeInv, TypeOK, Process
    <3> QED
      BY <2>2, <3>1 DEF NotNewer
  <2> QED
    BY <1>2, <2>1, <2>2, AnswersWith
<1> QED
  BY <1>1, <1>2 DEF ViewInv, Answering

\* A node's view of the cluster never goes back, neither behind the view it
\* keeps nor behind what it has shown: the lock is held over the call of etcd
\* and the store of its answer.
THEOREM ViewsGoForward == Spec => ViewsMoveForward
<1>1. TypeInv /\ ViewInv /\ [Next]_vars
      => [\A n \in Node :
            /\ cache[n] # 0 /\ cache'[n] # 0 => cache'[n] >= cache[n]
            /\ cache'[n] # 0 => cache'[n] >= shown[n]]_vars
  <2> SUFFICES ASSUME TypeInv, ViewInv, [Next]_vars, NEW n \in Node
               PROVE  /\ cache[n] # 0 /\ cache'[n] # 0 => cache'[n] >= cache[n]
                      /\ cache'[n] # 0 => cache'[n] >= shown[n]
    OBVIOUS
  <2>1. Fresh(n)
    BY DEF ViewInv
  <2>2. cache[n] \in Nat /\ shown[n] \in Nat
    BY DEF TypeInv, TypeOK
  <2>3. \A p \in viewMx[n] : got[p] \in Nat
    BY DEF TypeInv, TypeOK
  <2> QED
    BY <2>1, <2>2, <2>3, NextView DEF Kept, Fetched, Stored, Fresh, NotNewer
<1> QED
  BY <1>1, InitTypes, NextTypes, InitView, NextShown, PTL DEF Spec, ViewsMoveForward

-----------------------------------------------------------------------------
(* What a node finds after it has told of a creation.                      *)

\* A client is told of success once, by a node that forgets its view then.
LEMMA ToldOf ==
    ASSUME TypeInv, OutcomeInv, [Next]_vars, NEW r \in Request, ans'[r] = "ok"
    PROVE  \/ ans[r] = "ok" /\ entry'[r] = entry[r]
           \/ /\ entry'[r] = entry[r] /\ entry[r] \in Node
              /\ cache'[entry[r]] = 0
              /\ viewMx'[entry[r]] = {}
<1>p. r \in Process /\ r \notin Reader
  BY RoutingAssumption DEF Process
<1>a. "ok" \notin Refusals /\ "error" \notin Refusals /\ "none" \notin Refusals
  BY DEF Refusals
<1>o. Outcome(r)
  BY DEF OutcomeInv
<1>w. pc[r] # "new" => entry[r] \in Node /\ on[r] \in Node
  BY <1>p DEF TypeInv, WorkInv
<1>1. CASE ans'[r] = ans[r] /\ entry'[r] = entry[r]
  BY <1>1
<1>2. ASSUME NEW q \in Request, q # r, Create(q)
      PROVE  ans'[r] = ans[r] /\ entry'[r] = entry[r]
  BY <1>p, <1>2, CreateLocal, CreateStill DEF Still
<1>3. ASSUME NEW d \in Reader, ReadStart(d) \/ ReadNow(d) \/ ReadAnswer(d)
      PROVE  ans'[r] = ans[r] /\ entry'[r] = entry[r]
  <2>1. ans' = ans
    BY <1>3 DEF ReadStart, ReadNow, ReadAnswer, ReadView, TakeCached, Fetch,
       Store, reqVars
  <2> QED
    BY <1>p, <1>3, <2>1, ReaderStill DEF Still
<1>4. ASSUME Create(r), ~(ans'[r] = ans[r] /\ entry'[r] = entry[r])
      PROVE  /\ entry'[r] = entry[r] /\ entry[r] \in Node
             /\ cache'[entry[r]] = 0
             /\ viewMx'[entry[r]] = {}
  <2>1. CASE Created(r)
    <3>1. pc[r] = "created" /\ Invalidate(on[r]) /\ viewMx' = viewMx
          /\ Returns(r, "ok")
      BY <2>1 DEF Created
    <3>2. entry' = entry
      BY <3>1 DEF Returns
    <3>3. entry[r] = on[r]
      BY <1>4, <3>1, <3>2 DEF Returns
    <3> QED
      BY <1>w, <3>1, <3>2, <3>3 DEF Invalidate, Free, TypeInv, TypeOK
  <2>2. CASE Reply(r)
    <3>1. /\ pc[r] = "reply"
          /\ result[r] = "ok" => Invalidate(entry[r])
          /\ ans' = [ans EXCEPT ![r] = result[r]]
          /\ UNCHANGED <<viewMx, entry>>
      BY <2>2 DEF Reply
    <3>2. result[r] = "ok"
      BY <3>1 DEF TypeInv, TypeOK
    <3> QED
      BY <1>w, <3>1, <3>2 DEF Invalidate, Free, TypeInv, TypeOK
  <2>3. CASE \/ RouteNowhere(r) \/ Refuse(r) \/ RefuseBlindly(r) \/ Exists(r)
             \/ Place(r) \/ PutRefused(r) \/ EtcdFails(r)
    <3>1. entry' = entry
      BY <2>3 DEF RouteNowhere, Refuse, RefuseBlindly, Exists, Place, PutRefused,
         EtcdFails, Returns, reqVars
    <3>2. ans' = ans \/ \E a \in Refusals \cup {"error"} : ans' = [ans EXCEPT ![r] = a]
      BY <2>3 DEF RouteNowhere, Refuse, RefuseBlindly, Exists, Place, PutRefused,
         EtcdFails, Returns, reqVars, Refusals
    <3> QED
      BY <1>4, <1>a, <3>1, <3>2 DEF TypeInv, TypeOK
  <2>4. CASE CallFails(r)
    BY <1>4, <2>4 DEF CallFails, TypeInv, TypeOK
  <2>5. CASE \/ Route(r) \/ RouteView(r) \/ RouteTo(r) \/ Deliver(r)
             \/ ReplyUnwanted(r) \/ Role(r) \/ Hint(r) \/ PlaceView(r)
             \/ PutSucceeds(r)
    BY <1>4, <2>5 DEF Route, RouteView, RouteTo, Deliver, ReplyUnwanted, Role,
       Hint, PlaceView, PutSucceeds, ReadView, TakeCached, Fetch, Store, reqVars
  <2>6. CASE FollowHint(r) \/ \E n \in Node : Arrive(r, n)
    <3>1. pc[r] \in {"hinted", "new"} /\ ans' = ans
      BY <2>6 DEF FollowHint, Arrive, Moves
    <3> QED
      BY <1>o, <3>1 DEF Outcome
  <2> QED
    BY <1>4, <2>1, <2>2, <2>3, <2>4, <2>5, <2>6 DEF Create
<1>5. ASSUME NEW n \in Node, Elect(n) \/ Evict(n) \/ Return(n) \/ RoleFollows(n)
      PROVE  ans'[r] = ans[r] /\ entry'[r] = entry[r]
  BY <1>5, ClusterStill
<1>6. CASE UNCHANGED vars
  BY <1>6 DEF vars, reqVars
<1> QED
  BY <1>1, <1>2, <1>3, <1>4, <1>5, <1>6 DEF Next
\* The versions at the positions of views stay what they are.
LEMMA ViewsKept ==
    ASSUME TypeInv, [Next]_vars
    PROVE  /\ \A n \in Node : cache[n] # 0 => versions'[cache[n]] = versions[cache[n]]
           /\ \A n \in Node : \A p \in viewMx[n] :
                 versions'[got[p]] = versions[got[p]]
<1>1. Grows
  BY NextTopic
<1>2. \A n \in Node : cache[n] # 0 => cache[n] \in 1..Len(versions)
  BY DEF TypeInv, TypeOK
<1>3. \A n \in Node : \A p \in viewMx[n] : got[p] \in 1..Len(versions)
  BY DEF TypeInv, TypeOK, LockInv
<1> QED
  BY <1>1, <1>2, <1>3 DEF Grows

Finds(r) == /\ cache[entry[r]] # 0 => versions[cache[entry[r]]].topic = r
            /\ \A p \in viewMx[entry[r]] : versions[got[p]].topic = r

LEMMA NextFinds ==
    ASSUME TypeInv, OutcomeInv, ReadYourCreate, [Next]_vars,
           NEW r \in Request, ans'[r] = "ok"
    PROVE  Finds(r)'
<1>1. CASE ans[r] = "ok" /\ entry'[r] = entry[r]
  <2> DEFINE n == entry[r]
  <2>1. Current.topic = r /\ pc[r] = "done"
    BY <1>1 DEF OutcomeInv, Outcome
  <2>2. n \in Node
    BY <2>1 DEF TypeInv, WorkInv, Process
  <2>3. /\ cache[n] # 0 => versions[cache[n]].topic = r
        /\ \A p \in viewMx[n] : versions[got[p]].topic = r
    BY <1>1 DEF ReadYourCreate
  <2>4. /\ cache[n] # 0 => versions'[cache[n]].topic = r
        /\ \A p \in viewMx[n] : versions'[got[p]].topic = r
    BY <2>2, <2>3, ViewsKept
  <2>5. \A p \in viewMx[n] : got[p] # 0
    BY <2>2 DEF TypeInv, LockInv
  <2> HIDE DEF n
  <2>6. CASE Kept(n)
    <3>1. /\ cache'[n] # 0 => versions'[cache'[n]].topic = r
          /\ \A p \in viewMx'[n] : versions'[got'[p]].topic = r
      BY <2>4, <2>6 DEF Kept
    <3> QED
      BY <1>1, <3>1 DEF Finds, n
  <2>7. CASE Fetched(n)
    <3>1. PICK p \in Process : viewMx'[n] = {p} /\ got'[p] = Len(versions)
      BY <2>7 DEF Fetched
    <3>2. versions' = versions /\ cache'[n] = cache[n]
      BY <2>7 DEF Fetched
    <3>3. versions[Len(versions)].topic = r
      BY <2>1 DEF Current
    <3>4. /\ cache'[n] # 0 => versions'[cache'[n]].topic = r
          /\ \A q \in viewMx'[n] : versions'[got'[q]].topic = r
      BY <2>4, <3>1, <3>2, <3>3
    <3> QED
      BY <1>1, <3>4 DEF Finds, n
  <2>8. CASE Stored(n)
    <3>1. /\ cache'[n] # 0 => versions'[cache'[n]].topic = r
          /\ \A p \in viewMx'[n] : versions'[got'[p]].topic = r
      BY <2>4, <2>8 DEF Stored
    <3> QED
      BY <1>1, <3>1 DEF Finds, n
  <2> QED
    BY <2>2, <2>6, <2>7, <2>8, NextView
<1>2. CASE /\ entry'[r] = entry[r] /\ entry[r] \in Node
           /\ cache'[entry[r]] = 0
           /\ viewMx'[entry[r]] = {}
  BY <1>2 DEF Finds
<1> QED
  BY <1>1, <1>2, ToldOf

\* After a node has told a client that the topic was created, no view that it
\* keeps or is reading is from before: the view is forgotten when the answer
\* is given, and under the lock, so that no read begun earlier brings it back.
THEOREM CreatedIsFound == Spec => []ReadYourCreate
<1>1. Init => ReadYourCreate
  BY DEF Init, ReadYourCreate
<1>2. TypeInv /\ OutcomeInv /\ ReadYourCreate /\ [Next]_vars => ReadYourCreate'
  <2> SUFFICES ASSUME TypeInv, OutcomeInv, ReadYourCreate, [Next]_vars,
                      NEW r \in Request, ans'[r] = "ok"
               PROVE  Finds(r)'
    BY DEF ReadYourCreate, Finds
  <2> QED
    BY NextFinds
<1> QED
  BY <1>1, <1>2, InitTypes, NextTypes, InitOutcome, NextOutcome, PTL DEF Spec

=============================================================================
