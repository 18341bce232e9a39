----------------------------- MODULE Placement -----------------------------
(***************************************************************************)
(* Where the controller puts replicas: the loads it counts over all        *)
(* topics, the placement of a new topic (CreateTopic) and the node that    *)
(* gets a missing replica (pickReplicaCandidate), as pure operators.       *)
(*                                                                         *)
(* A topic is its replication factor and the sequence of its partitions;   *)
(* a list of node ids is the set of its members.                           *)
(***************************************************************************)
EXTENDS Naturals, Sequences, FiniteSets

CONSTANTS
    Node,     \* node ids; 0 is none of them, the code returns it for "nobody"
    Topic,    \* topic names
    NoTopic   \* "the key does not exist"

ASSUME NodeAssumption == Node \subseteq Nat \ {0} /\ IsFiniteSet(Node)

\* PartitionsParams, without the ISR, which no decision here reads.
Part == [leader : Node, replicas : SUBSET Node]
IsTopic(t) == t \in [rf : Nat \ {0}, parts : Seq(Part)]
ASSUME NoTopicAssumption == ~IsTopic(NoTopic)

\* The partitions of all topics of a table of topics.
KeysOf(table) == UNION {{t} \X DOMAIN table[t].parts :
                            t \in {u \in Topic : table[u] # NoTopic}}
PartAt(table, k) == table[k[1]].parts[k[2]]
FactorAt(table, k) == table[k[1]].rf

-----------------------------------------------------------------------------
\* In how many partitions a node takes part, and in how many it leads.
Load(table) == [n \in Node |->
    Cardinality({k \in KeysOf(table) : n \in PartAt(table, k).replicas})]
Leads(table) == [n \in Node |->
    Cardinality({k \in KeysOf(table) : PartAt(table, k).leader = n})]

\* The order of the sorts: by load, then by id.
Before(count, m, n) == count[m] < count[n] \/ (count[m] = count[n] /\ m < n)

FirstOf(count, nodes, number) ==
    {n \in nodes : Cardinality({m \in nodes : Before(count, m, n)}) < number}

\* The node that comes first, 0 if there is none.
LeastLoaded(count, nodes) ==
    IF nodes = {} THEN 0
    ELSE CHOOSE n \in nodes : \A m \in nodes \ {n} : Before(count, n, m)

\* Slip: the nodes that are replicas already are not excluded.
CandidatesAmongAll(count, members, exclude, holders) ==
    IF members \cap holders # {} THEN members \cap holders
    ELSE {LeastLoaded(count, members)}

\* A node that reported local data of the partition comes first, and among
\* those the one with the highest offset, here any; otherwise the least loaded.
Candidates(count, members, exclude, holders) ==
    LET free == members \ exclude IN
    IF free \cap holders # {} THEN free \cap holders
    ELSE {LeastLoaded(count, free)}

-----------------------------------------------------------------------------
Plus(count, nodes) == [n \in Node |-> count[n] + IF n \in nodes THEN 1 ELSE 0]

\* Slip: the counters stay as they were read.
PlaceByOldCounters(st, alive, rf) ==
    LET chosen == FirstOf(st.load, alive, rf)
        leader == LeastLoaded(st.leads, chosen)
    IN  [st EXCEPT !.parts =
            Append(@, [leader |-> leader, replicas |-> chosen])]

\* One more partition on the rf least loaded nodes, led by that of them which
\* leads least; the counters move on with it.
PlaceNext(st, alive, rf) ==
    LET chosen == FirstOf(st.load, alive, rf)
        leader == LeastLoaded(st.leads, chosen)
    IN  [load  |-> Plus(st.load, chosen),
         leads |-> Plus(st.leads, {leader}),
         parts |-> Append(st.parts, [leader |-> leader, replicas |-> chosen])]

PlaceTopic(table, alive, number, rf) ==
    LET st[i \in 0..number] ==
            IF i = 0
            THEN [load |-> Load(table), leads |-> Leads(table), parts |-> <<>>]
            ELSE PlaceNext(st[i - 1], alive, rf)
    IN  [rf |-> rf, parts |-> st[number].parts]

=============================================================================
