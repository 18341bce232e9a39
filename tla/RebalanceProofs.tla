-------------------------- MODULE RebalanceProofs --------------------------
(***************************************************************************)
(* Theorems about Rebalance, for every set of nodes, topics and requests   *)
(* and every bound.                                                        *)
(***************************************************************************)
EXTENDS Rebalance, SequenceTheorems, FiniteSetTheorems, FunctionTheorems,
        WellFoundedInduction, TLAPS

-----------------------------------------------------------------------------
(* Orders.                                                                 *)

\* A set of numbers has a least one.
LEMMA NatMin ==
    ASSUME NEW S, S \subseteq Nat, S # {}
    PROVE  \E x \in S : \A y \in S : x <= y
<1> DEFINE R == {ss \in Nat \X Nat : ss[1] < ss[2]}
<1>1. IsWellFoundedOn(R, Nat)
  BY NatLessThanWellFounded DEF OpToRel
<1>2. \A x, y \in Nat : <<y, x>> \in R <=> y < x
  <2> TAKE x, y \in Nat
  <2>1. <<y, x>> \in Nat \X Nat /\ <<y, x>>[1] = y /\ <<y, x>>[2] = x
    OBVIOUS
  <2>2. <<y, x>> \in R <=> <<y, x>>[1] < <<y, x>>[2]
    BY <2>1
  <2> QED
    BY <2>1, <2>2
<1> HIDE DEF R
<1>3. \E x \in S : \A y \in S : ~(<<y, x>> \in R)
  BY <1>1, WFMin
<1>4. PICK x \in S : \A y \in S : ~(<<y, x>> \in R)
  BY <1>3
<1>5. \A y \in S : ~(y < x)
  BY <1>2, <1>4
<1> QED
  BY <1>5

\* What holds of 0, and of n + 1 if it holds of n, holds of every number: for
\* the set of the numbers it holds of.
LEMMA Counting ==
    ASSUME NEW S, 0 \in S, \A n \in Nat : n \in S => n + 1 \in S
    PROVE  Nat \subseteq S
<1> SUFFICES ASSUME Nat \ S # {} PROVE FALSE
  OBVIOUS
<1>1. PICK x \in Nat \ S : \A y \in Nat \ S : x <= y
  BY NatMin
<1>2. x # 0 /\ x - 1 \in Nat
  BY <1>1
<1>3. x - 1 \in S
  BY <1>1, <1>2
<1> QED
  BY <1>1, <1>2, <1>3

\* A set of pairs of numbers has a first one, by the first component and then
\* by the second.
LEMMA PairMin ==
    ASSUME NEW S, S \subseteq Nat \X Nat, S # {}
    PROVE  \E k \in S : \A l \in S : k[1] < l[1] \/ (k[1] = l[1] /\ k[2] <= l[2])
<1> DEFINE Heads == {k[1] : k \in S}
<1>1. Heads \subseteq Nat /\ Heads # {}
  OBVIOUS
<1>2. PICK a \in Heads : \A b \in Heads : a <= b
  BY <1>1, NatMin
<1> DEFINE Same == {k \in S : k[1] = a}
           Tails == {k[2] : k \in Same}
<1>3. Tails \subseteq Nat /\ Tails # {}
  BY <1>2
<1>4. PICK c \in Tails : \A b \in Tails : c <= b
  BY <1>3, NatMin
<1>5. PICK k \in Same : k[2] = c
  BY <1>4
<1>6. ASSUME NEW l \in S PROVE k[1] < l[1] \/ (k[1] = l[1] /\ k[2] <= l[2])
  <2>1. l[1] \in Nat /\ l[2] \in Nat /\ a \in Nat /\ k[1] = a
    BY <1>1, <1>5
  <2>2. a <= l[1]
    BY <1>2
  <2>3. l[1] = a => c <= l[2]
    BY <1>4
  <2> QED
    BY <1>5, <2>1, <2>2, <2>3
<1> QED
  BY <1>5, <1>6

-----------------------------------------------------------------------------
(* Placement.                                                              *)

\* Counters of the nodes.
Count == [Node -> Nat]

\* Partitions with at most rf replicas.
PartUpTo(rf) == {p \in Part : Cardinality(p.replicas) <= rf}

\* The sort of nodes by a counter puts one of them first.
LEMMA SomebodyFirst ==
    ASSUME NEW count \in Count, NEW nodes \in SUBSET Node, nodes # {}
    PROVE  \E n \in nodes : \A m \in nodes \ {n} : Before(count, n, m)
<1> DEFINE S == {<<count[n], n>> : n \in nodes}
<1>1. \A n \in nodes : count[n] \in Nat /\ n \in Nat
  BY NodeAssumption DEF Count
<1>2. S \subseteq Nat \X Nat /\ S # {}
  <2>1. \A n \in nodes : <<count[n], n>> \in Nat \X Nat
    BY <1>1
  <2> QED
    BY <2>1
<1>3. PICK k \in S : \A l \in S : k[1] < l[1] \/ (k[1] = l[1] /\ k[2] <= l[2])
  BY <1>2, PairMin
<1>4. PICK n \in nodes : k = <<count[n], n>>
  BY <1>3
<1>5. ASSUME NEW m \in nodes \ {n} PROVE Before(count, n, m)
  <2>1. <<count[m], m>> \in S
    OBVIOUS
  <2>2. count[n] < count[m] \/ (count[n] = count[m] /\ n <= m)
    BY <1>3, <1>4, <2>1
  <2> QED
    BY <1>1, <2>2 DEF Before
<1> QED
  BY <1>5

\* The least loaded of some nodes is one of them.
LEMMA LeastLoadedIsOne ==
    ASSUME NEW count \in Count, NEW nodes \in SUBSET Node, nodes # {}
    PROVE  LeastLoaded(count, nodes) \in nodes
<1>1. \E n \in nodes : \A m \in nodes \ {n} : Before(count, n, m)
  BY SomebodyFirst
<1>2. LeastLoaded(count, nodes) =
        CHOOSE n \in nodes : \A m \in nodes \ {n} : Before(count, n, m)
  BY DEF LeastLoaded
<1> QED
  BY <1>1, <1>2

\* How many of some nodes come before one of them.
Rank(count, nodes, n) == Cardinality({m \in nodes : Before(count, m, n)})

\* The order of the sorts is total, and a node has a higher rank than those
\* before it.
LEMMA RankFacts ==
    ASSUME NEW count \in Count, NEW nodes \in SUBSET Node
    PROVE  /\ \A n \in nodes : Rank(count, nodes, n) \in Nat
           /\ \A m, n \in nodes : m # n => Before(count, m, n) \/ Before(count, n, m)
           /\ \A m, n \in nodes :
                Before(count, m, n) => Rank(count, nodes, m) < Rank(count, nodes, n)
<1> DEFINE Above(n) == {m \in nodes : Before(count, m, n)}
<1>1. \A n \in nodes : count[n] \in Nat /\ n \in Nat
  BY NodeAssumption DEF Count
<1>2. IsFiniteSet(nodes)
  BY NodeAssumption, FS_Subset
<1>3. \A n \in nodes : IsFiniteSet(Above(n)) /\ Cardinality(Above(n)) \in Nat
  <2> TAKE n \in nodes
  <2>1. Above(n) \in SUBSET nodes
    OBVIOUS
  <2>2. IsFiniteSet(Above(n))
    BY <1>2, <2>1, FS_Subset
  <2> QED
    BY <2>2, FS_CardinalityType
<1>4. \A m, n \in nodes : m # n => Before(count, m, n) \/ Before(count, n, m)
  BY <1>1 DEF Before
<1>5. ASSUME NEW m \in nodes, NEW n \in nodes, Before(count, m, n)
      PROVE  Cardinality(Above(m)) < Cardinality(Above(n))
  <2>1. ASSUME NEW x \in Above(m) PROVE x \in Above(n)
    <3>1. x \in nodes /\ Before(count, x, m)
      BY <2>1
    <3>2. Before(count, x, n)
      BY <1>1, <1>5, <3>1 DEF Before
    <3> QED
      BY <3>1, <3>2
  <2>2. m \in Above(n)
    BY <1>5
  <2>3. ~(m \in Above(m))
    BY <1>1 DEF Before
  <2>4. Above(m) \in SUBSET Above(n)
    BY <2>1
  <2> HIDE DEF Above
  <2>5. /\ Cardinality(Above(m)) <= Cardinality(Above(n))
        /\ Cardinality(Above(m)) = Cardinality(Above(n)) => Above(n) = Above(m)
    BY <1>3, <2>4, FS_Subset
  <2>6. Cardinality(Above(m)) # Cardinality(Above(n))
    BY <2>2, <2>3, <2>5
  <2> QED
    BY <1>3, <2>5, <2>6
<1>6. \A n : Rank(count, nodes, n) = Cardinality(Above(n))
  BY DEF Rank
<1> HIDE DEF Above
<1> QED
  BY <1>3, <1>4, <1>5, <1>6

\* The first `number' of some nodes are no more than that, and not none.
LEMMA FirstOfFacts ==
    ASSUME NEW count \in Count, NEW nodes \in SUBSET Node, NEW number \in Nat
    PROVE  /\ FirstOf(count, nodes, number) \in SUBSET nodes
           /\ IsFiniteSet(FirstOf(count, nodes, number))
           /\ Cardinality(FirstOf(count, nodes, number)) <= number
           /\ nodes # {} /\ number # 0 => FirstOf(count, nodes, number) # {}
<1> DEFINE F == FirstOf(count, nodes, number)
           rank == [n \in F |-> Rank(count, nodes, n)]
<1>1. F \in SUBSET nodes /\ \A n \in nodes : n \in F <=> Rank(count, nodes, n) < number
  BY DEF FirstOf, Rank
<1>2. /\ \A n \in nodes : Rank(count, nodes, n) \in Nat
      /\ \A m, n \in nodes : m # n => Before(count, m, n) \/ Before(count, n, m)
      /\ \A m, n \in nodes :
           Before(count, m, n) => Rank(count, nodes, m) < Rank(count, nodes, n)
  BY RankFacts
<1>3. IsFiniteSet(F)
  <2>1. IsFiniteSet(nodes)
    BY NodeAssumption, FS_Subset
  <2> QED
    BY <1>1, <2>1, FS_Subset
<1> HIDE DEF F
<1>4. \A n \in F : Rank(count, nodes, n) \in 0 .. number - 1
  BY <1>1, <1>2
<1>5. \A m, n \in F : m # n => Rank(count, nodes, m) # Rank(count, nodes, n)
  BY <1>1, <1>2
<1>6. rank \in Injection(F, 0 .. number - 1)
  BY <1>4, <1>5 DEF Injection, IsInjective
<1>7. IsFiniteSet(0 .. number - 1) /\ Cardinality(0 .. number - 1) = number
  <2>1. 0 \in Int /\ number - 1 \in Int
    OBVIOUS
  <2>2. IsFiniteSet(0 .. number - 1) /\ Cardinality(0 .. number - 1) =
          IF 0 > number - 1 THEN 0 ELSE (number - 1) - 0 + 1
    BY <2>1, FS_Interval
  <2> QED
    BY <2>2
<1>8. Cardinality(F) <= number
  BY <1>6, <1>7, FS_Injection
<1>9. ASSUME nodes # {}, number # 0 PROVE F # {}
  <2>1. PICK n \in nodes : \A m \in nodes \ {n} : Before(count, n, m)
    BY <1>9, SomebodyFirst
  <2>2. \A m \in nodes : ~Before(count, m, n)
    <3> TAKE m \in nodes
    <3>1. m # n => Rank(count, nodes, n) < Rank(count, nodes, m)
      BY <1>2, <2>1
    <3> QED
      BY <1>2, <3>1
  <2>3. {m \in nodes : Before(count, m, n)} = {}
    BY <2>2
  <2>4. Rank(count, nodes, n) = 0
    BY <2>3, FS_EmptySet DEF Rank
  <2> QED
    BY <1>1, <1>9, <2>4
<1> QED
  BY <1>1, <1>3, <1>8, <1>9 DEF F

\* The states PlaceTopic goes through.
Placing(rf) == [load : Count, leads : Count, parts : Seq(PartUpTo(rf))]

\* The counters move on as counters.
LEMMA PlusIsCount ==
    ASSUME NEW count \in Count, NEW nodes
    PROVE  Plus(count, nodes) \in Count
<1>1. \A n \in Node : count[n] + (IF n \in nodes THEN 1 ELSE 0) \in Nat
  BY DEF Count
<1> QED
  BY <1>1 DEF Plus, Count

\* One more partition, with no more replicas than asked for.
LEMMA PlaceNextFacts ==
    ASSUME NEW rf \in Nat \ {0}, NEW st \in Placing(rf),
           NEW alive \in SUBSET Node, alive # {}
    PROVE  PlaceNext(st, alive, rf) \in Placing(rf)
<1> DEFINE chosen == FirstOf(st.load, alive, rf)
           leader == LeastLoaded(st.leads, chosen)
           part == [leader |-> leader, replicas |-> chosen]
<1>1. st.load \in Count /\ st.leads \in Count /\ st.parts \in Seq(PartUpTo(rf))
  BY DEF Placing
<1>2. chosen \in SUBSET alive /\ Cardinality(chosen) <= rf /\ chosen # {}
  BY <1>1, FirstOfFacts
<1>3. chosen \in SUBSET Node
  BY <1>2
<1> HIDE DEF chosen
<1>4. leader \in chosen
  BY <1>1, <1>2, <1>3, LeastLoadedIsOne
<1> HIDE DEF leader
<1>5. part \in PartUpTo(rf)
  BY <1>2, <1>3, <1>4 DEF Part, PartUpTo
<1> HIDE DEF part
<1>6. Append(st.parts, part) \in Seq(PartUpTo(rf))
  BY <1>1, <1>5, AppendProperties
<1>7. Plus(st.load, chosen) \in Count /\ Plus(st.leads, {leader}) \in Count
  BY <1>1, PlusIsCount
<1>8. PlaceNext(st, alive, rf) = [load |-> Plus(st.load, chosen),
                                  leads |-> Plus(st.leads, {leader}),
                                  parts |-> Append(st.parts, part)]
  BY DEF PlaceNext, chosen, leader, part
<1> QED
  BY <1>6, <1>7, <1>8 DEF Placing

\* The recursive definition in PlaceTopic, up to n partitions.
Places(f, n, base, alive, rf) ==
    f = [i \in 0 .. n |-> IF i = 0 THEN base ELSE PlaceNext(f[i - 1], alive, rf)]

\* There is such a function.
LEMMA PlacementExists ==
    ASSUME NEW base, NEW alive, NEW rf, NEW number \in Nat
    PROVE  \E f : Places(f, number, base, alive, rf)
<1> DEFINE Def(f, n) == Places(f, n, base, alive, rf)
           S == {n \in Nat : \E f : Def(f, n)}
<1>1. 0 \in S
  <2> DEFINE f == [i \in 0 .. 0 |-> base]
  <2>1. f = [i \in 0 .. 0 |-> IF i = 0 THEN base ELSE PlaceNext(f[i - 1], alive, rf)]
    <3>1. \A i \in 0 .. 0 : i = 0
      OBVIOUS
    <3> QED
      BY <3>1
  <2>2. Def(f, 0)
    BY <2>1 DEF Places
  <2> HIDE DEF Def
  <2>3. \E g : Def(g, 0)
    BY <2>2
  <2> QED
    BY <2>3
<1>2. ASSUME NEW n \in Nat, n \in S PROVE n + 1 \in S
  <2>1. PICK f : Def(f, n)
    BY <1>2
  <2> DEFINE g == [i \in 0 .. n + 1 |-> IF i <= n THEN f[i] ELSE PlaceNext(f[n], alive, rf)]
  <2>2. \A i \in 0 .. n : g[i] = f[i]
    OBVIOUS
  <2>3. \A i \in 0 .. n : f[i] = IF i = 0 THEN base ELSE PlaceNext(f[i - 1], alive, rf)
    BY <2>1 DEF Places
  <2>4. ASSUME NEW i \in 0 .. n + 1
        PROVE  g[i] = IF i = 0 THEN base ELSE PlaceNext(g[i - 1], alive, rf)
    <3>1. CASE i = 0
      <4>1. i \in 0 .. n
        BY <3>1
      <4> QED
        BY <2>2, <2>3, <3>1, <4>1
    <3>2. CASE i # 0 /\ i <= n
      <4>1. i \in 0 .. n /\ i - 1 \in 0 .. n
        BY <3>2
      <4>2. g[i] = f[i] /\ g[i - 1] = f[i - 1]
        BY <2>2, <4>1
      <4>3. f[i] = PlaceNext(f[i - 1], alive, rf)
        BY <2>3, <3>2, <4>1
      <4> QED
        BY <3>2, <4>2, <4>3
    <3>3. CASE i = n + 1
      <4>1. i # 0 /\ i - 1 = n /\ n \in 0 .. n /\ ~(i <= n)
        BY <3>3
      <4>2. g[n] = f[n]
        BY <2>2, <4>1
      <4>3. g[i] = PlaceNext(f[n], alive, rf)
        BY <4>1
      <4> HIDE DEF g
      <4> QED
        BY <4>1, <4>2, <4>3
    <3> QED
      BY <3>1, <3>2, <3>3
  <2>5. g = [i \in 0 .. n + 1 |-> g[i]]
    OBVIOUS
  <2> HIDE DEF g
  <2>6. Def(g, n + 1)
    BY <2>4, <2>5 DEF Places
  <2> HIDE DEF Def
  <2> QED
    BY <2>6
<1> HIDE DEF S
<1>3. Nat \subseteq S
  BY <1>1, <1>2, Counting
<1> QED
  BY <1>3 DEF S

\* A new topic has no partition with more replicas than asked for.
LEMMA PlaceTopicFacts ==
    ASSUME NEW cluster, Load(cluster) \in Count, Leads(cluster) \in Count,
           NEW alive \in SUBSET Node, alive # {},
           NEW number \in Nat, NEW rf \in Nat \ {0}
    PROVE  \E parts \in Seq(PartUpTo(rf)) :
              PlaceTopic(cluster, alive, number, rf) = [rf |-> rf, parts |-> parts]
<1> DEFINE base == [load |-> Load(cluster), leads |-> Leads(cluster), parts |-> <<>>]
           st == CHOOSE f : Places(f, number, base, alive, rf)
           S == {i \in Nat : i <= number => st[i] \in Placing(rf)}
<1>1. base \in Placing(rf)
  <2>1. <<>> \in Seq(PartUpTo(rf))
    OBVIOUS
  <2> QED
    BY <2>1 DEF Placing
<1>2. PlaceTopic(cluster, alive, number, rf) = [rf |-> rf, parts |-> st[number].parts]
  BY DEF PlaceTopic, Places
<1> HIDE DEF base
<1>3. \E f : Places(f, number, base, alive, rf)
  BY PlacementExists
<1>4. Places(st, number, base, alive, rf)
  BY <1>3
<1> HIDE DEF st
<1>5. \A i \in 0 .. number :
        st[i] = IF i = 0 THEN base ELSE PlaceNext(st[i - 1], alive, rf)
  BY <1>4 DEF Places
<1>6. 0 \in S
  <2>1. st[0] = base
    BY <1>5
  <2> QED
    BY <1>1, <2>1
<1>7. ASSUME NEW n \in Nat, n \in S PROVE n + 1 \in S
  <2>1. ASSUME n + 1 <= number PROVE st[n + 1] \in Placing(rf)
    <3>1. n + 1 \in 0 .. number /\ n + 1 # 0 /\ (n + 1) - 1 = n /\ n <= number
      BY <2>1
    <3>2. st[n + 1] = PlaceNext(st[n], alive, rf)
      BY <1>5, <3>1
    <3>3. st[n] \in Placing(rf)
      BY <1>7, <3>1
    <3> QED
      BY <3>2, <3>3, PlaceNextFacts
  <2> QED
    BY <2>1
<1> HIDE DEF S
<1>8. Nat \subseteq S
  BY <1>6, <1>7, Counting
<1>9. st[number] \in Placing(rf)
  BY <1>8 DEF S
<1>10. st[number].parts \in Seq(PartUpTo(rf))
  BY <1>9 DEF Placing
<1> QED
  BY <1>2, <1>10

-----------------------------------------------------------------------------
(* Tables of topics.                                                       *)

TopicVal == [rf : Nat \ {0}, parts : Seq(Part)]
Tables == [Topic -> TopicVal \cup {NoTopic}]

\* The partitions of a table, one by one.
LEMMA KeyIs ==
    ASSUME NEW cluster \in Tables, NEW k
    PROVE  k \in KeysOf(cluster) <=>
             /\ k = <<k[1], k[2]>>
             /\ k[1] \in Topic /\ cluster[k[1]] # NoTopic
             /\ k[2] \in DOMAIN cluster[k[1]].parts
<1>1. k \in KeysOf(cluster) <=>
        \E t \in {u \in Topic : cluster[u] # NoTopic} : k \in {t} \X DOMAIN cluster[t].parts
  BY DEF KeysOf
<1>2. ASSUME NEW t PROVE k \in {t} \X DOMAIN cluster[t].parts <=>
        /\ k = <<k[1], k[2]>> /\ k[1] = t /\ k[2] \in DOMAIN cluster[t].parts
  OBVIOUS
<1> QED
  BY <1>1, <1>2

\* What a partition of a table is.
LEMMA PartIs ==
    ASSUME NEW cluster \in Tables, NEW k \in KeysOf(cluster)
    PROVE  /\ k \in Nat \X Nat
           /\ cluster[k[1]] \in TopicVal
           /\ FactorAt(cluster, k) \in Nat \ {0}
           /\ PartAt(cluster, k) \in Part
           /\ PartAt(cluster, k).replicas \in SUBSET Node
           /\ IsFiniteSet(PartAt(cluster, k).replicas)
           /\ Cardinality(PartAt(cluster, k).replicas) \in Nat
<1>1. /\ k = <<k[1], k[2]>>
      /\ k[1] \in Topic /\ cluster[k[1]] # NoTopic
      /\ k[2] \in DOMAIN cluster[k[1]].parts
  BY KeyIs
<1>2. cluster[k[1]] \in TopicVal
  BY <1>1 DEF Tables
<1>3. cluster[k[1]].rf \in Nat \ {0} /\ cluster[k[1]].parts \in Seq(Part)
  BY <1>2 DEF TopicVal
<1>4. k[2] \in Nat /\ cluster[k[1]].parts[k[2]] \in Part
  BY <1>1, <1>3
<1>5. k[1] \in Nat
  BY <1>1, TopicAssumption
<1>6. PartAt(cluster, k) \in Part /\ FactorAt(cluster, k) \in Nat \ {0}
  BY <1>3, <1>4 DEF PartAt, FactorAt
<1>7. PartAt(cluster, k).replicas \in SUBSET Node
  BY <1>6 DEF Part
<1>8. IsFiniteSet(PartAt(cluster, k).replicas)
  BY <1>7, NodeAssumption, FS_Subset
<1>9. Cardinality(PartAt(cluster, k).replicas) \in Nat
  BY <1>8, FS_CardinalityType
<1>10. k \in Nat \X Nat
  BY <1>1, <1>4, <1>5
<1> QED
  BY <1>2, <1>6, <1>7, <1>8, <1>9, <1>10

\* The first of some partitions is one of them.
LEMMA FirstIsOne ==
    ASSUME NEW cluster \in Tables, NEW keys \in SUBSET KeysOf(cluster), keys # {}
    PROVE  First(keys) \in keys
<1>1. keys \subseteq Nat \X Nat
  BY PartIs
<1>2. \E k \in keys : \A l \in keys : k[1] < l[1] \/ (k[1] = l[1] /\ k[2] <= l[2])
  BY <1>1, PairMin
<1> QED
  BY <1>2 DEF First

\* Loads are numbers.
LEMMA CountsAreNumbers ==
    ASSUME NEW cluster, IsFiniteSet(KeysOf(cluster))
    PROVE  Load(cluster) \in Count /\ Leads(cluster) \in Count
<1>1. ASSUME NEW n \in Node
      PROVE  /\ Cardinality({k \in KeysOf(cluster) : n \in PartAt(cluster, k).replicas}) \in Nat
             /\ Cardinality({k \in KeysOf(cluster) : PartAt(cluster, k).leader = n}) \in Nat
  <2>1. /\ IsFiniteSet({k \in KeysOf(cluster) : n \in PartAt(cluster, k).replicas})
        /\ IsFiniteSet({k \in KeysOf(cluster) : PartAt(cluster, k).leader = n})
    BY FS_Subset
  <2> QED
    BY <2>1, FS_CardinalityType
<1>2. Load(cluster) \in Count
  BY <1>1 DEF Load, Count
<1>3. Leads(cluster) \in Count
  BY <1>1 DEF Leads, Count
<1> QED
  BY <1>2, <1>3

\* A table in which one partition has other replicas.
Written(cluster, k, r) == [cluster EXCEPT ![k[1]].parts[k[2]].replicas = r]

\* Writing the replicas of one partition leaves all else of the table alone.
LEMMA ReplicasWritten ==
    ASSUME NEW cluster \in Tables, NEW k \in KeysOf(cluster),
           NEW r \in SUBSET Node, NEW after, after = Written(cluster, k, r)
    PROVE  /\ after \in Tables
           /\ KeysOf(after) = KeysOf(cluster)
           /\ \A t \in Topic : after[t] = NoTopic <=> cluster[t] = NoTopic
           /\ \A l \in KeysOf(cluster) :
                /\ FactorAt(after, l) = FactorAt(cluster, l)
                /\ l # k => PartAt(after, l) = PartAt(cluster, l)
           /\ PartAt(after, k).replicas = r
<1> DEFINE t == k[1]
           i == k[2]
           topic == cluster[t]
           part == topic.parts[i]
           newPart == [part EXCEPT !.replicas = r]
           newParts == [topic.parts EXCEPT ![i] = newPart]
           newTopic == [topic EXCEPT !.parts = newParts]
<1>1. /\ k = <<t, i>> /\ t \in Topic /\ topic # NoTopic
      /\ i \in DOMAIN topic.parts
  BY KeyIs
<1>2. topic \in TopicVal /\ part \in Part
  BY PartIs DEF PartAt
<1>3. after = [cluster EXCEPT ![t] = newTopic]
  BY DEF Written
<1> HIDE DEF t, i
<1>4. newPart \in Part /\ newPart.replicas = r
  BY <1>2 DEF Part
<1>5. topic.parts \in Seq(Part) /\ topic.rf \in Nat \ {0}
  BY <1>2 DEF TopicVal
<1> HIDE DEF newPart, part
<1>6. /\ newParts \in Seq(Part) /\ DOMAIN newParts = DOMAIN topic.parts
      /\ newParts[i] = newPart
      /\ \A j \in DOMAIN topic.parts : j # i => newParts[j] = topic.parts[j]
  BY <1>1, <1>4, <1>5
<1> HIDE DEF newParts
<1>7. newTopic \in TopicVal /\ newTopic.parts = newParts /\ newTopic.rf = topic.rf
  BY <1>2, <1>6 DEF TopicVal
<1>8. newTopic # NoTopic
  BY <1>7, NoTopicAssumption DEF IsTopic, TopicVal
<1> HIDE DEF newTopic, topic
<1>9. after \in Tables /\ after[t] = newTopic /\ \A u \in Topic : u # t => after[u] = cluster[u]
  BY <1>1, <1>3, <1>7 DEF Tables
<1>10. \A u \in Topic : after[u] = NoTopic <=> cluster[u] = NoTopic
  BY <1>1, <1>8, <1>9 DEF topic
<1>11. \A u \in Topic : DOMAIN after[u].parts = DOMAIN cluster[u].parts
  BY <1>6, <1>7, <1>9 DEF topic
<1>12. KeysOf(after) = KeysOf(cluster)
  BY <1>10, <1>11 DEF KeysOf
<1>13. PartAt(after, k).replicas = r
  BY <1>4, <1>6, <1>7, <1>9 DEF PartAt, t, i
<1>14. ASSUME NEW l \in KeysOf(cluster)
       PROVE  /\ FactorAt(after, l) = FactorAt(cluster, l)
              /\ l # k => PartAt(after, l) = PartAt(cluster, l)
  <2>1. /\ l = <<l[1], l[2]>> /\ l[1] \in Topic
        /\ l[2] \in DOMAIN cluster[l[1]].parts
    BY KeyIs
  <2>2. CASE l[1] # t
    BY <1>1, <1>9, <2>1, <2>2 DEF FactorAt, PartAt, t
  <2>3. CASE l[1] = t
    <3>1. FactorAt(after, l) = FactorAt(cluster, l)
      BY <1>7, <1>9, <2>3 DEF FactorAt, topic
    <3>2. l # k => l[2] # i
      BY <1>1, <2>1, <2>3
    <3>3. l # k => PartAt(after, l) = PartAt(cluster, l)
      BY <1>6, <1>7, <1>9, <2>1, <2>3, <3>2 DEF PartAt, topic
    <3> QED
      BY <3>1, <3>3
  <2> QED
    BY <2>2, <2>3
<1> QED
  BY <1>9, <1>10, <1>12, <1>13, <1>14

\* A table with one topic more.
WithTopic(cluster, t, topic) == [cluster EXCEPT ![t] = topic]

\* What a table with a new topic is: its partitions are added, the others are
\* left alone.
Adds(cluster, t, topic, after) ==
    /\ after \in Tables
    /\ KeysOf(after) = KeysOf(cluster) \cup ({t} \X DOMAIN topic.parts)
    /\ IsFiniteSet({t} \X DOMAIN topic.parts)
    /\ \A u \in Topic : u # t => after[u] = cluster[u]
    /\ after[t] = topic
    /\ \A l \in KeysOf(cluster) :
         /\ l[1] # t
         /\ FactorAt(after, l) = FactorAt(cluster, l)
         /\ PartAt(after, l) = PartAt(cluster, l)
    /\ \A l \in {t} \X DOMAIN topic.parts :
         /\ FactorAt(after, l) = topic.rf
         /\ PartAt(after, l) = topic.parts[l[2]]

\* Writing a new topic adds its partitions and leaves the others alone.
LEMMA TopicWritten ==
    ASSUME NEW cluster \in Tables, NEW t \in Topic, cluster[t] = NoTopic,
           NEW topic \in TopicVal, NEW after, after = WithTopic(cluster, t, topic)
    PROVE  Adds(cluster, t, topic, after)
<1>1. /\ after \in Tables /\ after[t] = topic
      /\ \A u \in Topic : u # t => after[u] = cluster[u]
  BY DEF Tables, WithTopic
<1>2. topic # NoTopic
  BY NoTopicAssumption DEF IsTopic, TopicVal
<1>3. KeysOf(after) = KeysOf(cluster) \cup ({t} \X DOMAIN topic.parts)
  <2> DEFINE Old == {u \in Topic : cluster[u] # NoTopic}
             New == {u \in Topic : after[u] # NoTopic}
  <2>1. New = Old \cup {t} /\ \A u \in Old : after[u] = cluster[u]
    BY <1>1, <1>2
  <2>2. KeysOf(after) = UNION {{u} \X DOMAIN after[u].parts : u \in New}
    BY DEF KeysOf
  <2>3. KeysOf(cluster) = UNION {{u} \X DOMAIN cluster[u].parts : u \in Old}
    BY DEF KeysOf
  <2> HIDE DEF Old, New
  <2>4. ASSUME NEW x
        PROVE  x \in KeysOf(after) <=>
                 x \in KeysOf(cluster) \/ x \in {t} \X DOMAIN topic.parts
    <3>1. x \in KeysOf(after) <=> \E u \in New : x \in {u} \X DOMAIN after[u].parts
      BY <2>2
    <3>2. x \in KeysOf(cluster) <=> \E u \in Old : x \in {u} \X DOMAIN cluster[u].parts
      BY <2>3
    <3> QED
      BY <1>1, <2>1, <3>1, <3>2
  <2> QED
    BY <2>4
<1>4. IsFiniteSet({t} \X DOMAIN topic.parts)
  <2>1. topic.parts \in Seq(Part)
    BY DEF TopicVal
  <2>2. DOMAIN topic.parts = 1 .. Len(topic.parts) /\ Len(topic.parts) \in Nat
    BY <2>1
  <2>3. IsFiniteSet(1 .. Len(topic.parts))
    BY <2>2, FS_Interval
  <2> QED
    BY <2>2, <2>3, FS_Singleton, FS_Product
<1>5. ASSUME NEW l \in KeysOf(cluster)
      PROVE  /\ l[1] # t
             /\ FactorAt(after, l) = FactorAt(cluster, l)
             /\ PartAt(after, l) = PartAt(cluster, l)
  <2>1. l[1] \in Topic /\ cluster[l[1]] # NoTopic
    BY KeyIs
  <2> QED
    BY <1>1, <2>1 DEF FactorAt, PartAt
<1>6. ASSUME NEW l \in {t} \X DOMAIN topic.parts
      PROVE  /\ FactorAt(after, l) = topic.rf
             /\ PartAt(after, l) = topic.parts[l[2]]
  <2>1. l[1] = t
    OBVIOUS
  <2> QED
    BY <1>1, <2>1 DEF FactorAt, PartAt
<1> QED
  BY <1>1, <1>3, <1>4, <1>5, <1>6 DEF Adds

-----------------------------------------------------------------------------
(* The invariant.                                                          *)

\* What is in etcd.
TableInv ==
    /\ registered \in SUBSET Node
    /\ table \in Tables
    /\ IsFiniteSet(KeysOf(table))

\* A topic that is placed is not in etcd yet, and has no partition with more
\* replicas than asked for.
PlanInv ==
    /\ plan \in Tables
    /\ \A t \in Topic : plan[t] # NoTopic =>
         /\ table[t] = NoTopic
         /\ plan[t].parts \in Seq(PartUpTo(plan[t].rf))

Busy(w) == w.pc \in {"remove", "choose", "add"}

\* A worker that has some of the partitions to repair as long as it is busy.
WorkerIs(w, keys) ==
    /\ w \in [pc : {"idle", "list", "remove", "choose", "add"}, dead : {w.dead},
              todo : SUBSET keys, candidate : Node \cup {0}]
    /\ Busy(w) => w.todo # {}
    /\ w.pc = "add" => w.candidate \in Node

WorkerInv == WorkerIs(worker, KeysOf(table))

\* A round of the reconcile loop, over some of the partitions.
FillerIs(f, keys) ==
    /\ f \in [pc : {"idle", "choose", "add"}, dead : {0},
              todo : SUBSET [key : keys, replicas : SUBSET Node],
              candidate : Node \cup {0}]
    /\ f.pc # "idle" <=> f.todo # {}
    /\ f.pc = "add" => f.candidate \in Node

FillerInv == FillerIs(filler, KeysOf(table))

\* The worker is about to add a replica to a partition.
Adding(w, k) == w.pc = "add" /\ First(w.todo) = k

\* The reconcile loop has yet to add a replica to a partition.
Listed(f, k) == \E i \in f.todo : i.key = k

One(b) == IF b THEN 1 ELSE 0

\* The replicas of a partition, and those that the worker and the reconcile
\* loop may still add to it without another look.
Bounded ==
    \A k \in KeysOf(table) :
        Cardinality(PartAt(table, k).replicas) + One(Adding(worker, k)) + One(Listed(filler, k))
            <= FactorAt(table, k) + 1

StateInv == TableInv /\ PlanInv /\ WorkerInv /\ FillerInv
IInv == StateInv /\ Bounded

LEMMA InitInv == Init => IInv
<1> SUFFICES ASSUME Init PROVE IInv
  OBVIOUS
<1>1. table \in Tables /\ plan = table /\ \A t \in Topic : table[t] = NoTopic
  BY DEF Init, Tables
<1>2. KeysOf(table) = {}
  BY <1>1 DEF KeysOf
<1>3. TableInv
  BY <1>1, <1>2, FS_EmptySet DEF TableInv, Init
<1>4. PlanInv
  BY <1>1 DEF PlanInv
<1>5. WorkerInv
  BY DEF WorkerInv, WorkerIs, Init, Idle, Busy
<1>6. FillerInv
  BY DEF FillerInv, FillerIs, Init, Idle
<1>7. Bounded
  BY <1>2 DEF Bounded
<1> QED
  BY <1>3, <1>4, <1>5, <1>6, <1>7 DEF IInv, StateInv

-----------------------------------------------------------------------------
(* The steps.                                                              *)

\* Steps that only change what is registered or what the node knows.
LEMMA QuietStep ==
    ASSUME IInv, registered' \in SUBSET Node, UNCHANGED <<table, plan, worker, filler>>
    PROVE  IInv'
<1>1. TableInv' /\ PlanInv' /\ WorkerInv' /\ FillerInv'
  BY DEF IInv, StateInv, TableInv, PlanInv, WorkerInv, FillerInv
<1>2. worker' = worker /\ filler' = filler
  OBVIOUS
<1>3. Bounded'
  <2> SUFFICES ASSUME NEW k \in KeysOf(table)
               PROVE  Cardinality(PartAt(table, k).replicas) + One(Adding(worker', k))
                        + One(Listed(filler', k)) <= FactorAt(table, k) + 1
    BY DEF Bounded
  <2>1. Cardinality(PartAt(table, k).replicas) + One(Adding(worker, k))
                        + One(Listed(filler, k)) <= FactorAt(table, k) + 1
    BY DEF IInv, Bounded
  <2> QED
    BY <1>2, <2>1 DEF One
<1> QED
  BY <1>1, <1>3 DEF IInv, StateInv

\* The worker turns to the next partition.
LEMMA NextPartFacts ==
    ASSUME NEW cluster \in Tables, NEW w, WorkerIs(w, KeysOf(cluster)), Busy(w)
    PROVE  /\ WorkerIs(NextPart(w), KeysOf(cluster))
           /\ NextPart(w).pc # "add"
<1> DEFINE rest == w.todo \ {First(w.todo)}
<1>1. rest \in SUBSET KeysOf(cluster)
  BY DEF WorkerIs
<1>2. NextPart(w) = IF rest = {} THEN Idle
                    ELSE [w EXCEPT !.pc = "remove", !.todo = rest, !.candidate = 0]
  BY DEF NextPart
<1> HIDE DEF rest
<1>3. CASE rest = {}
  BY <1>2, <1>3 DEF Idle, WorkerIs, Busy
<1>4. CASE rest # {}
  BY <1>1, <1>2, <1>4 DEF WorkerIs, Busy
<1> QED
  BY <1>3, <1>4

\* The reconcile loop turns to the next partition: the current one is off its
\* list.
LEMMA FillerNextFacts ==
    ASSUME NEW cluster \in Tables, NEW f, FillerIs(f, KeysOf(cluster)), f.todo # {}
    PROVE  /\ FillerIs(FillerNext(f), KeysOf(cluster))
           /\ FillerNext(f).todo \in SUBSET f.todo
           /\ \A i \in FillerNext(f).todo : i.key # Current(f).key
           /\ Current(f).key \in KeysOf(cluster)
           /\ Current(f) \in f.todo
<1> DEFINE keys == {i.key : i \in f.todo}
           k == First(keys)
           rest == {i \in f.todo : i.key # k}
<1>1. keys \in SUBSET KeysOf(cluster) /\ keys # {}
  BY DEF FillerIs
<1>2. k \in keys
  BY <1>1, FirstIsOne
<1>3. FillerNext(f) = IF rest = {} THEN Idle
                    ELSE [f EXCEPT !.pc = "choose", !.todo = rest, !.candidate = 0]
  BY DEF FillerNext
<1>4. Current(f) \in f.todo /\ Current(f).key = k
  <2>1. \E i \in f.todo : i.key = k
    BY <1>2
  <2>2. Current(f) = CHOOSE i \in f.todo : i.key = k
    BY DEF Current
  <2> QED
    BY <2>1, <2>2
<1>5. rest \in SUBSET f.todo /\ \A i \in rest : i.key # k
  OBVIOUS
<1>6. k \in KeysOf(cluster)
  BY <1>1, <1>2
<1> HIDE DEF rest, k
<1>7. CASE rest = {}
  <2>1. FillerNext(f) = Idle
    BY <1>3, <1>7
  <2>2. FillerIs(Idle, KeysOf(cluster)) /\ Idle.todo = {}
    BY DEF Idle, FillerIs
  <2> QED
    BY <1>4, <1>6, <2>1, <2>2
<1>8. CASE rest # {}
  <2>1. FillerNext(f) = [f EXCEPT !.pc = "choose", !.todo = rest, !.candidate = 0]
    BY <1>3, <1>8
  <2>2. /\ FillerNext(f).todo = rest /\ FillerNext(f).pc = "choose"
    BY <2>1 DEF FillerIs
  <2>3. FillerIs(FillerNext(f), KeysOf(cluster))
    BY <1>5, <1>8, <2>1 DEF FillerIs
  <2> QED
    BY <1>4, <1>5, <1>6, <2>2, <2>3
<1> QED
  BY <1>7, <1>8

\* Steps of the worker that write nothing: it goes on to add a replica only
\* where one is missing.
LEMMA WorkerStep ==
    ASSUME IInv, UNCHANGED <<registered, table, plan, filler>>,
           WorkerIs(worker', KeysOf(table)),
           worker'.pc = "add" => ~Enough(First(worker'.todo))
    PROVE  IInv'
<1>1. TableInv' /\ PlanInv' /\ WorkerInv' /\ FillerInv'
  BY DEF IInv, StateInv, TableInv, PlanInv, WorkerInv, FillerInv
<1>2. Bounded'
  <2> SUFFICES ASSUME NEW k \in KeysOf(table)
               PROVE  Cardinality(PartAt(table, k).replicas) + One(Adding(worker', k))
                        + One(Listed(filler', k)) <= FactorAt(table, k) + 1
    BY DEF Bounded
  <2>1. Cardinality(PartAt(table, k).replicas) + One(Adding(worker, k))
                        + One(Listed(filler, k)) <= FactorAt(table, k) + 1
    BY DEF IInv, Bounded
  <2>2. /\ Cardinality(PartAt(table, k).replicas) \in Nat
        /\ FactorAt(table, k) \in Nat
    BY PartIs DEF IInv, StateInv, TableInv
  <2>3. Listed(filler', k) <=> Listed(filler, k)
    BY DEF Listed
  <2>4. Adding(worker', k) => ~Enough(k)
    BY DEF Adding
  <2>5. Adding(worker', k) => Cardinality(PartAt(table, k).replicas) < FactorAt(table, k)
    BY <2>2, <2>4 DEF Enough
  <2> QED
    BY <2>1, <2>2, <2>3, <2>5 DEF One
<1> QED
  BY <1>1, <1>2 DEF IInv, StateInv

\* Steps that write the replicas of one partition.
LEMMA ReplicaStep ==
    ASSUME IInv, NEW k \in KeysOf(table), NEW r \in SUBSET Node,
           table' = Written(table, k, r), UNCHANGED <<registered, plan>>,
           WorkerIs(worker', KeysOf(table)), FillerIs(filler', KeysOf(table)),
           \A l \in KeysOf(table) :
               /\ Adding(worker', l) => Adding(worker, l)
               /\ Listed(filler', l) => Listed(filler, l),
           Cardinality(r) + One(Adding(worker', k)) + One(Listed(filler', k))
             <= FactorAt(table, k) + 1
    PROVE  IInv'
<1>1. table \in Tables
  BY DEF IInv, StateInv, TableInv
<1>2. /\ table' \in Tables
      /\ KeysOf(table') = KeysOf(table)
      /\ \A t \in Topic : table'[t] = NoTopic <=> table[t] = NoTopic
      /\ \A l \in KeysOf(table) :
           /\ FactorAt(table', l) = FactorAt(table, l)
           /\ l # k => PartAt(table', l) = PartAt(table, l)
      /\ PartAt(table', k).replicas = r
  BY <1>1, ReplicasWritten
<1>3. TableInv'
  BY <1>2 DEF IInv, StateInv, TableInv
<1>4. PlanInv'
  BY <1>2 DEF IInv, StateInv, PlanInv
<1>5. WorkerInv' /\ FillerInv'
  BY <1>2 DEF WorkerInv, FillerInv
<1>6. Bounded'
  <2> SUFFICES ASSUME NEW l \in KeysOf(table)
               PROVE  Cardinality(PartAt(table', l).replicas) + One(Adding(worker', l))
                        + One(Listed(filler', l)) <= FactorAt(table', l) + 1
    BY <1>2 DEF Bounded
  <2>1. CASE l = k
    <3>1. PartAt(table', k).replicas = r /\ FactorAt(table', k) = FactorAt(table, k)
      BY <1>2
    <3>2. Cardinality(PartAt(table', k).replicas) + One(Adding(worker', k))
            + One(Listed(filler', k)) <= FactorAt(table', k) + 1
      BY <3>1
    <3> QED
      BY <2>1, <3>2
  <2>2. CASE l # k
    <3>1. Cardinality(PartAt(table, l).replicas) + One(Adding(worker, l))
                        + One(Listed(filler, l)) <= FactorAt(table, l) + 1
      BY DEF IInv, Bounded
    <3>2. /\ Cardinality(PartAt(table, l).replicas) \in Nat
          /\ FactorAt(table, l) \in Nat
      BY <1>1, PartIs
    <3>3. PartAt(table', l) = PartAt(table, l) /\ FactorAt(table', l) = FactorAt(table, l)
      BY <1>2, <2>2
    <3>4. Adding(worker', l) => Adding(worker, l)
      OBVIOUS
    <3>5. Listed(filler', l) => Listed(filler, l)
      OBVIOUS
    <3>6. /\ One(Adding(worker', l)) <= One(Adding(worker, l))
          /\ One(Adding(worker', l)) \in 0 .. 1
          /\ One(Adding(worker, l)) \in 0 .. 1
      BY <3>4 DEF One
    <3>7. /\ One(Listed(filler', l)) <= One(Listed(filler, l))
          /\ One(Listed(filler', l)) \in 0 .. 1
          /\ One(Listed(filler, l)) \in 0 .. 1
      BY <3>5 DEF One
    <3> QED
      BY <3>1, <3>2, <3>3, <3>6, <3>7
  <2> QED
    BY <2>1, <2>2
<1> QED
  BY <1>3, <1>4, <1>5, <1>6 DEF IInv, StateInv

\* Steps of the reconcile loop that write nothing: partitions come onto its list
\* only when a replica is missing.
LEMMA FillerStep ==
    ASSUME IInv, UNCHANGED <<registered, table, plan, worker>>,
           FillerIs(filler', KeysOf(table)),
           \A k \in KeysOf(table) : Listed(filler', k) => Listed(filler, k) \/ ~Enough(k)
    PROVE  IInv'
<1>1. TableInv' /\ PlanInv' /\ WorkerInv' /\ FillerInv'
  BY DEF IInv, StateInv, TableInv, PlanInv, WorkerInv, FillerInv
<1>2. Bounded'
  <2> SUFFICES ASSUME NEW k \in KeysOf(table)
               PROVE  Cardinality(PartAt(table, k).replicas) + One(Adding(worker', k))
                        + One(Listed(filler', k)) <= FactorAt(table, k) + 1
    BY DEF Bounded
  <2>1. Cardinality(PartAt(table, k).replicas) + One(Adding(worker, k))
                        + One(Listed(filler, k)) <= FactorAt(table, k) + 1
    BY DEF IInv, Bounded
  <2>2. /\ Cardinality(PartAt(table, k).replicas) \in Nat
        /\ FactorAt(table, k) \in Nat
    BY PartIs DEF IInv, StateInv, TableInv
  <2>3. Adding(worker', k) <=> Adding(worker, k)
    BY DEF Adding
  <2>4. Listed(filler', k) =>
          Listed(filler, k) \/ Cardinality(PartAt(table, k).replicas) < FactorAt(table, k)
    BY <2>2 DEF Enough
  <2> QED
    BY <2>1, <2>2, <2>3, <2>4 DEF One
<1> QED
  BY <1>1, <1>2 DEF IInv, StateInv

LEMMA TakeStep == ASSUME IInv, Take PROVE IInv'
<1>1. WorkerIs(worker, KeysOf(table))
  BY DEF IInv, StateInv, WorkerInv
<1>2. WorkerIs(worker', KeysOf(table)) /\ worker'.pc # "add"
  <2>1. CASE controller
    <3>1. worker' = [pc |-> "list", dead |-> Head(queue), todo |-> {}, candidate |-> 0]
      BY <2>1 DEF Take, Idle
    <3> QED
      BY <3>1 DEF WorkerIs, Busy
  <2>2. CASE ~controller
    <3>1. worker' = Idle
      BY <2>2 DEF Take
    <3> QED
      BY <3>1 DEF WorkerIs, Busy, Idle
  <2> QED
    BY <2>1, <2>2
<1> QED
  BY <1>2, WorkerStep DEF Take, etcdVars

LEMMA ListStep == ASSUME IInv, List PROVE IInv'
<1> DEFINE lost == {k \in KeysOf(table) : worker.dead \in PartAt(table, k).replicas}
<1>1. WorkerIs(worker, KeysOf(table))
  BY DEF IInv, StateInv, WorkerInv
<1>2. WorkerIs(worker', KeysOf(table)) /\ worker'.pc # "add"
  <2>1. lost \in SUBSET KeysOf(table)
    OBVIOUS
  <2>2. worker' = IF lost = {} THEN Idle ELSE [worker EXCEPT !.pc = "remove", !.todo = lost]
    BY DEF List
  <2> HIDE DEF lost
  <2>3. CASE lost = {}
    BY <2>2, <2>3 DEF WorkerIs, Busy, Idle
  <2>4. CASE lost # {}
    BY <1>1, <2>1, <2>2, <2>4 DEF WorkerIs, Busy
  <2> QED
    BY <2>3, <2>4
<1> QED
  BY <1>2, WorkerStep DEF List, etcdVars

LEMMA ChooseStep == ASSUME IInv, Choose PROVE IInv'
<1>1. WorkerIs(worker, KeysOf(table)) /\ table \in Tables
  BY DEF IInv, StateInv, WorkerInv, TableInv
<1>2. Busy(worker)
  BY DEF Choose, Busy
<1>3. /\ WorkerIs(NextPart(worker), KeysOf(table))
      /\ NextPart(worker).pc # "add"
  BY <1>1, <1>2, NextPartFacts
<1>4. CASE worker' = NextPart(worker)
  BY <1>3, <1>4, WorkerStep DEF Choose, etcdVars
<1>5. ASSUME NEW candidate \in Node, ~Enough(First(worker.todo)),
             worker' = [worker EXCEPT !.pc = "add", !.candidate = candidate]
      PROVE  IInv'
  <2>1. WorkerIs(worker', KeysOf(table)) /\ worker'.todo = worker.todo
    BY <1>1, <1>2, <1>5 DEF WorkerIs, Busy
  <2> QED
    BY <1>5, <2>1, WorkerStep DEF Choose, etcdVars
<1>6. \/ worker' = NextPart(worker)
      \/ /\ ~Enough(First(worker.todo))
         /\ \E candidate \in Node :
              worker' = [worker EXCEPT !.pc = "add", !.candidate = candidate]
  BY DEF Choose
<1> QED
  BY <1>4, <1>5, <1>6

LEMMA WorkerFailStep == ASSUME IInv, WorkerCallFails PROVE IInv'
<1>1. WorkerIs(worker, KeysOf(table)) /\ table \in Tables
  BY DEF IInv, StateInv, WorkerInv, TableInv
<1>2. CASE worker.pc = "list"
  <2>1. worker' = Idle
    BY <1>2 DEF WorkerCallFails
  <2>2. WorkerIs(worker', KeysOf(table)) /\ worker'.pc # "add"
    BY <2>1 DEF WorkerIs, Busy, Idle
  <2> QED
    BY <2>2, WorkerStep DEF WorkerCallFails, etcdVars
<1>3. CASE worker.pc # "list"
  <2>1. Busy(worker)
    BY <1>1, <1>3 DEF WorkerCallFails, Busy, WorkerIs
  <2>2. worker' = NextPart(worker)
    BY <1>3 DEF WorkerCallFails
  <2>3. WorkerIs(worker', KeysOf(table)) /\ worker'.pc # "add"
    BY <1>1, <2>1, <2>2, NextPartFacts
  <2> QED
    BY <2>3, WorkerStep DEF WorkerCallFails, etcdVars
<1> QED
  BY <1>2, <1>3

\* One replica less, while nobody is about to add another by the worker.
LEMMA RemoveStep == ASSUME IInv, Remove PROVE IInv'
<1> DEFINE k == First(worker.todo)
           old == PartAt(table, k).replicas
           r == old \ {worker.dead}
<1>1. /\ WorkerIs(worker, KeysOf(table)) /\ FillerIs(filler, KeysOf(table))
      /\ table \in Tables
  BY DEF IInv, StateInv, WorkerInv, FillerInv, TableInv
<1>2. worker.todo # {} /\ worker.todo \in SUBSET KeysOf(table)
  BY <1>1 DEF Remove, WorkerIs, Busy
<1>3. k \in KeysOf(table)
  BY <1>1, <1>2, FirstIsOne
<1>4. table' = Written(table, k, r)
  BY DEF Remove, RemoveNode, Written, PartAt
<1>5. WorkerIs(worker', KeysOf(table)) /\ worker'.pc = "choose"
  BY <1>1, <1>2 DEF Remove, WorkerIs, Busy
<1>6. FillerIs(filler', KeysOf(table)) /\ UNCHANGED <<registered, plan, filler>>
  BY <1>1 DEF Remove
<1>7. \A l \in KeysOf(table) :
        ~Adding(worker', l) /\ (Listed(filler', l) <=> Listed(filler, l))
  BY <1>5, <1>6 DEF Adding, Listed
<1> HIDE DEF k
<1>8. Cardinality(old) + One(Adding(worker, k)) + One(Listed(filler, k))
        <= FactorAt(table, k) + 1
  BY <1>3 DEF IInv, Bounded
<1>9. /\ old \in SUBSET Node /\ IsFiniteSet(old) /\ Cardinality(old) \in Nat
      /\ FactorAt(table, k) \in Nat
  BY <1>1, <1>3, PartIs
<1> HIDE DEF old
<1>10. r \in SUBSET Node
  BY <1>9
<1>11. Cardinality(r) \in Nat /\ Cardinality(r) <= Cardinality(old)
  <2>1. r \in SUBSET old
    OBVIOUS
  <2>2. IsFiniteSet(r) /\ Cardinality(r) <= Cardinality(old)
    BY <1>9, <2>1, FS_Subset
  <2> QED
    BY <2>2, FS_CardinalityType
<1> HIDE DEF r
<1>12. /\ One(Adding(worker', k)) = 0 /\ One(Adding(worker, k)) \in 0 .. 1
       /\ One(Listed(filler', k)) = One(Listed(filler, k))
       /\ One(Listed(filler, k)) \in 0 .. 1
  BY <1>3, <1>7 DEF One
<1>13. Cardinality(r) + One(Adding(worker', k)) + One(Listed(filler', k))
         <= FactorAt(table, k) + 1
  BY <1>8, <1>9, <1>11, <1>12
<1> QED
  BY <1>3, <1>4, <1>5, <1>6, <1>7, <1>10, <1>13, ReplicaStep

\* The replica that the worker was about to add is counted already.
LEMMA AddStep == ASSUME IInv, Add PROVE IInv'
<1> DEFINE k == First(worker.todo)
           old == PartAt(table, k).replicas
           r == old \cup {worker.candidate}
<1>1. /\ WorkerIs(worker, KeysOf(table)) /\ FillerIs(filler, KeysOf(table))
      /\ table \in Tables
  BY DEF IInv, StateInv, WorkerInv, FillerInv, TableInv
<1>2. /\ worker.todo # {} /\ worker.todo \in SUBSET KeysOf(table)
      /\ worker.candidate \in Node /\ Busy(worker)
  BY <1>1 DEF Add, WorkerIs, Busy
<1>3. k \in KeysOf(table)
  BY <1>1, <1>2, FirstIsOne
<1>4. table' = Written(table, k, r)
  BY DEF Add, AddReplica, Written, PartAt
<1>5. WorkerIs(worker', KeysOf(table)) /\ worker'.pc # "add"
  BY <1>1, <1>2, NextPartFacts DEF Add
<1>6. FillerIs(filler', KeysOf(table)) /\ UNCHANGED <<registered, plan, filler>>
  BY <1>1 DEF Add
<1>7. \A l \in KeysOf(table) :
        ~Adding(worker', l) /\ (Listed(filler', l) <=> Listed(filler, l))
  BY <1>5, <1>6 DEF Adding, Listed
<1>8. Adding(worker, k)
  BY DEF Adding, Add
<1> HIDE DEF k
<1>9. Cardinality(old) + One(Adding(worker, k)) + One(Listed(filler, k))
        <= FactorAt(table, k) + 1
  BY <1>3 DEF IInv, Bounded
<1>10. /\ old \in SUBSET Node /\ IsFiniteSet(old) /\ Cardinality(old) \in Nat
       /\ FactorAt(table, k) \in Nat
  BY <1>1, <1>3, PartIs
<1> HIDE DEF old
<1>11. r \in SUBSET Node
  BY <1>2, <1>10
<1>12. Cardinality(r) \in Nat /\ Cardinality(r) <= Cardinality(old) + 1
  BY <1>10, FS_AddElement
<1> HIDE DEF r
<1>13. /\ One(Adding(worker', k)) = 0 /\ One(Adding(worker, k)) = 1
       /\ One(Listed(filler', k)) = One(Listed(filler, k))
       /\ One(Listed(filler, k)) \in 0 .. 1
  BY <1>3, <1>7, <1>8 DEF One
<1>14. Cardinality(r) + One(Adding(worker', k)) + One(Listed(filler', k))
         <= FactorAt(table, k) + 1
  BY <1>9, <1>10, <1>12, <1>13
<1> QED
  BY <1>3, <1>4, <1>5, <1>6, <1>7, <1>11, <1>14, ReplicaStep

\* So is the one that the reconcile loop had still to add.
LEMMA FillerAddStep == ASSUME IInv, FillerAdd PROVE IInv'
<1> DEFINE k == Current(filler).key
           old == PartAt(table, k).replicas
           r == old \cup {filler.candidate}
<1>1. /\ WorkerIs(worker, KeysOf(table)) /\ FillerIs(filler, KeysOf(table))
      /\ table \in Tables
  BY DEF IInv, StateInv, WorkerInv, FillerInv, TableInv
<1>2. filler.todo # {} /\ filler.candidate \in Node
  BY <1>1 DEF FillerAdd, FillerIs
<1>3. /\ FillerIs(FillerNext(filler), KeysOf(table))
      /\ FillerNext(filler).todo \in SUBSET filler.todo
      /\ \A i \in FillerNext(filler).todo : i.key # k
      /\ k \in KeysOf(table)
      /\ Current(filler) \in filler.todo
  BY <1>1, <1>2, FillerNextFacts
<1>4. table' = Written(table, k, r)
  BY DEF FillerAdd, AddReplica, Written, PartAt
<1>5. filler' = FillerNext(filler) /\ UNCHANGED <<registered, plan, worker>>
  BY DEF FillerAdd
<1>6. WorkerIs(worker', KeysOf(table)) /\ FillerIs(filler', KeysOf(table))
  BY <1>1, <1>3, <1>5
<1>7. \A l \in KeysOf(table) : /\ Adding(worker', l) <=> Adding(worker, l)
                               /\ Listed(filler', l) => Listed(filler, l)
  BY <1>3, <1>5 DEF Adding, Listed
<1>8. Listed(filler, k) /\ ~Listed(filler', k)
  BY <1>3, <1>5 DEF Listed
<1> HIDE DEF k
<1>9. Cardinality(old) + One(Adding(worker, k)) + One(Listed(filler, k))
        <= FactorAt(table, k) + 1
  BY <1>3 DEF IInv, Bounded
<1>10. /\ old \in SUBSET Node /\ IsFiniteSet(old) /\ Cardinality(old) \in Nat
       /\ FactorAt(table, k) \in Nat
  BY <1>1, <1>3, PartIs
<1> HIDE DEF old
<1>11. r \in SUBSET Node
  BY <1>2, <1>10
<1>12. Cardinality(r) \in Nat /\ Cardinality(r) <= Cardinality(old) + 1
  BY <1>10, FS_AddElement
<1> HIDE DEF r
<1>13. /\ One(Adding(worker', k)) = One(Adding(worker, k))
       /\ One(Adding(worker, k)) \in 0 .. 1
       /\ One(Listed(filler', k)) = 0 /\ One(Listed(filler, k)) = 1
  BY <1>3, <1>7, <1>8 DEF One
<1>14. Cardinality(r) + One(Adding(worker', k)) + One(Listed(filler', k))
         <= FactorAt(table, k) + 1
  BY <1>9, <1>10, <1>12, <1>13
<1> QED
  BY <1>3, <1>4, <1>5, <1>6, <1>7, <1>11, <1>14, ReplicaStep

LEMMA TickStep == ASSUME IInv, Tick PROVE IInv'
<1> DEFINE short == {k \in KeysOf(table) : ~Enough(k)}
           list == {[key |-> k, replicas |-> PartAt(table, k).replicas] : k \in short}
<1>1. table \in Tables
  BY DEF IInv, StateInv, TableInv
<1>2. short # {} /\ filler' = [Idle EXCEPT !.pc = "choose", !.todo = list]
  BY DEF Tick
<1>3. list \in SUBSET [key : KeysOf(table), replicas : SUBSET Node] /\ list # {}
  <2>1. \A k \in short : k \in KeysOf(table) /\ PartAt(table, k).replicas \in SUBSET Node
    BY <1>1, PartIs
  <2>2. \A k \in short : [key |-> k, replicas |-> PartAt(table, k).replicas]
                             \in [key : KeysOf(table), replicas : SUBSET Node]
    BY <2>1
  <2> QED
    BY <1>2, <2>2
<1>4. \A i \in list : ~Enough(i.key)
  OBVIOUS
<1> HIDE DEF list, short
<1>5. FillerIs(filler', KeysOf(table)) /\ filler'.todo = list
  BY <1>2, <1>3 DEF FillerIs, Idle
<1>6. \A k \in KeysOf(table) : Listed(filler', k) => ~Enough(k)
  BY <1>4, <1>5 DEF Listed
<1> QED
  BY <1>5, <1>6, FillerStep DEF Tick, etcdVars

LEMMA FillerNextStep ==
    ASSUME IInv, filler.pc # "idle", filler' = FillerNext(filler),
           UNCHANGED <<registered, table, plan, worker>>
    PROVE  IInv'
<1>1. FillerIs(filler, KeysOf(table)) /\ table \in Tables /\ filler.todo # {}
  BY DEF IInv, StateInv, FillerInv, TableInv, FillerIs
<1>2. FillerIs(filler', KeysOf(table)) /\ filler'.todo \in SUBSET filler.todo
  BY <1>1, FillerNextFacts
<1>3. \A k \in KeysOf(table) : Listed(filler', k) => Listed(filler, k)
  BY <1>2 DEF Listed
<1> QED
  BY <1>2, <1>3, FillerStep

LEMMA FillerChooseStep == ASSUME IInv, FillerChoose PROVE IInv'
<1>1. UNCHANGED <<registered, table, plan, worker>>
  BY DEF FillerChoose, etcdVars
<1>2. CASE filler' = FillerNext(filler)
  BY <1>1, <1>2, FillerNextStep DEF FillerChoose
<1>3. ASSUME NEW candidate \in Node,
             filler' = [filler EXCEPT !.pc = "add", !.candidate = candidate]
      PROVE  IInv'
  <2>1. FillerIs(filler, KeysOf(table)) /\ filler.pc = "choose"
    BY DEF IInv, StateInv, FillerInv, FillerChoose
  <2>2. FillerIs(filler', KeysOf(table)) /\ filler'.todo = filler.todo
    BY <1>3, <2>1 DEF FillerIs
  <2>3. \A k \in KeysOf(table) : Listed(filler', k) => Listed(filler, k)
    BY <2>2 DEF Listed
  <2> QED
    BY <1>1, <2>2, <2>3, FillerStep
<1>4. \/ filler' = FillerNext(filler)
      \/ \E candidate \in Node :
           filler' = [filler EXCEPT !.pc = "add", !.candidate = candidate]
  BY DEF FillerChoose
<1> QED
  BY <1>2, <1>3, <1>4

\* Steps that change nothing but what CreateTopic has placed.
LEMMA PlanStep ==
    ASSUME IInv, UNCHANGED <<registered, table, worker, filler>>, PlanInv'
    PROVE  IInv'
<1>1. TableInv' /\ WorkerInv' /\ FillerInv'
  BY DEF IInv, StateInv, TableInv, WorkerInv, FillerInv
<1>2. Bounded'
  BY DEF IInv, Bounded
<1> QED
  BY <1>1, <1>2 DEF IInv, StateInv

LEMMA CreateStep ==
    ASSUME IInv, NEW t \in Topic, NEW request \in Request, CreateTopic(t, request)
    PROVE  IInv'
<1> DEFINE topic == PlaceTopic(table, registered, request.number, request.rf)
<1>1. /\ registered \in SUBSET Node /\ IsFiniteSet(KeysOf(table)) /\ plan \in Tables
  BY DEF IInv, StateInv, TableInv, PlanInv
<1>2. request.number \in Nat /\ request.rf \in Nat \ {0}
  BY RequestAssumption
<1>3. registered # {}
  BY <1>2, FS_EmptySet DEF CreateTopic
<1>4. PICK parts \in Seq(PartUpTo(request.rf)) : topic = [rf |-> request.rf, parts |-> parts]
  BY <1>1, <1>2, <1>3, CountsAreNumbers, PlaceTopicFacts
<1>5. plan' = [plan EXCEPT ![t] = topic] /\ table[t] = NoTopic
  BY DEF CreateTopic
<1> HIDE DEF topic
<1>6. topic \in TopicVal /\ topic.rf = request.rf /\ topic.parts = parts
  <2>1. \A p \in PartUpTo(request.rf) : p \in Part
    BY DEF PartUpTo
  <2>2. parts \in Seq(Part)
    BY <2>1
  <2> QED
    BY <1>2, <1>4, <2>2 DEF TopicVal
<1>7. PlanInv'
  <2>1. plan' \in Tables
    BY <1>1, <1>5, <1>6 DEF Tables
  <2>2. ASSUME NEW u \in Topic, plan'[u] # NoTopic
        PROVE  table[u] = NoTopic /\ plan'[u].parts \in Seq(PartUpTo(plan'[u].rf))
    <3>1. CASE u = t
      <4>1. plan'[u] = topic
        BY <1>1, <1>5, <3>1 DEF Tables
      <4> QED
        BY <1>4, <1>5, <1>6, <3>1, <4>1
    <3>2. CASE u # t
      <4>1. plan'[u] = plan[u]
        BY <1>1, <1>5, <3>2 DEF Tables
      <4> QED
        BY <2>2, <4>1 DEF IInv, StateInv, PlanInv
    <3> QED
      BY <3>1, <3>2
  <2>3. table' = table
    BY DEF CreateTopic, etcdVars
  <2> QED
    BY <2>1, <2>2, <2>3 DEF PlanInv
<1> QED
  BY <1>7, PlanStep DEF CreateTopic, etcdVars

LEMMA CreateFailsStep ==
    ASSUME IInv, NEW t \in Topic, CreateFails(t)
    PROVE  IInv'
<1>1. plan \in Tables /\ plan' = [plan EXCEPT ![t] = NoTopic] /\ table' = table
  BY DEF IInv, StateInv, PlanInv, CreateFails, etcdVars
<1>2. plan' \in Tables /\ plan'[t] = NoTopic /\ \A u \in Topic : u # t => plan'[u] = plan[u]
  BY <1>1 DEF Tables
<1>3. PlanInv'
  BY <1>1, <1>2 DEF IInv, StateInv, PlanInv
<1> QED
  BY <1>3, PlanStep DEF CreateFails, etcdVars

\* The partitions of the new topic are on nobody's list.
LEMMA PutStep ==
    ASSUME IInv, NEW t \in Topic, PutTopic(t)
    PROVE  IInv'
<1> DEFINE topic == plan[t]
           fresh == {t} \X DOMAIN topic.parts
<1>1. /\ table \in Tables /\ plan \in Tables /\ registered \in SUBSET Node
      /\ IsFiniteSet(KeysOf(table))
      /\ WorkerIs(worker, KeysOf(table)) /\ FillerIs(filler, KeysOf(table))
  BY DEF IInv, StateInv, TableInv, PlanInv, WorkerInv, FillerInv
<1>2. /\ topic \in TopicVal /\ table[t] = NoTopic
      /\ topic.parts \in Seq(PartUpTo(topic.rf))
  BY DEF IInv, StateInv, PlanInv, Tables, PutTopic
<1>3. /\ table' = WithTopic(table, t, topic)
      /\ plan' = [plan EXCEPT ![t] = NoTopic]
      /\ UNCHANGED <<registered, worker, filler>>
  BY DEF PutTopic, WithTopic
<1> HIDE DEF topic
<1>4. /\ table' \in Tables
      /\ KeysOf(table') = KeysOf(table) \cup fresh
      /\ IsFiniteSet(fresh)
      /\ \A u \in Topic : u # t => table'[u] = table[u]
      /\ \A l \in KeysOf(table) :
           /\ l[1] # t
           /\ FactorAt(table', l) = FactorAt(table, l)
           /\ PartAt(table', l) = PartAt(table, l)
      /\ \A l \in fresh :
           /\ FactorAt(table', l) = topic.rf
           /\ PartAt(table', l) = topic.parts[l[2]]
  <2>1. /\ table \in Tables /\ table[t] = NoTopic /\ topic \in TopicVal
        /\ table' = WithTopic(table, t, topic)
    BY <1>1, <1>2, <1>3
  <2>2. Adds(table, t, topic, table')
    BY <2>1, TopicWritten
  <2> QED
    BY <2>2 DEF Adds
<1>5. TableInv'
  <2>1. KeysOf(table') = KeysOf(table) \cup fresh /\ IsFiniteSet(fresh)
    BY <1>4
  <2> HIDE DEF fresh
  <2>2. IsFiniteSet(KeysOf(table) \cup fresh)
    BY <1>1, <2>1, FS_Union
  <2> QED
    BY <1>1, <1>3, <1>4, <2>1, <2>2 DEF TableInv
<1>6. PlanInv'
  <2>1. plan' \in Tables /\ plan'[t] = NoTopic /\ \A u \in Topic : u # t => plan'[u] = plan[u]
    BY <1>1, <1>3 DEF Tables
  <2> QED
    BY <1>4, <2>1 DEF IInv, StateInv, PlanInv
<1>7. WorkerInv'
  <2>1. WorkerIs(worker, KeysOf(table'))
    BY <1>1, <1>4 DEF WorkerIs
  <2> QED
    BY <1>3, <2>1 DEF WorkerInv
<1>8. FillerInv'
  <2>1. FillerIs(filler, KeysOf(table'))
    <3>1. \A i \in filler.todo : i \in [key : KeysOf(table'), replicas : SUBSET Node]
      BY <1>1, <1>4 DEF FillerIs
    <3> QED
      BY <1>1, <3>1 DEF FillerIs
  <2> QED
    BY <1>3, <2>1 DEF FillerInv
<1>9. Bounded'
  <2> SUFFICES ASSUME NEW k \in KeysOf(table) \cup fresh
               PROVE  Cardinality(PartAt(table', k).replicas) + One(Adding(worker, k))
                        + One(Listed(filler, k)) <= FactorAt(table', k) + 1
    BY <1>3, <1>4 DEF Bounded
  <2>1. CASE k \in KeysOf(table)
    <3>1. Cardinality(PartAt(table, k).replicas) + One(Adding(worker, k))
                        + One(Listed(filler, k)) <= FactorAt(table, k) + 1
      BY <2>1 DEF IInv, Bounded
    <3> QED
      BY <1>4, <2>1, <3>1
  <2>2. CASE k \in fresh
    <3>1. k[1] = t /\ k[2] \in DOMAIN topic.parts
      BY <2>2
    <3>2. k \notin KeysOf(table)
      BY <1>4, <3>1
    <3>3. ~Adding(worker, k)
      <4>1. worker.pc = "add" => worker.todo # {} /\ worker.todo \in SUBSET KeysOf(table)
        BY <1>1 DEF WorkerIs, Busy
      <4>2. worker.pc = "add" => First(worker.todo) \in KeysOf(table)
        BY <1>1, <4>1, FirstIsOne
      <4> QED
        BY <3>2, <4>2 DEF Adding
    <3>4. ~Listed(filler, k)
      BY <1>1, <3>2 DEF FillerIs, Listed
    <3>5. topic.parts[k[2]] \in PartUpTo(topic.rf)
      BY <1>2, <3>1
    <3>6. /\ topic.parts[k[2]].replicas \in SUBSET Node
          /\ Cardinality(topic.parts[k[2]].replicas) <= topic.rf
      BY <3>5 DEF PartUpTo, Part
    <3>7. Cardinality(topic.parts[k[2]].replicas) \in Nat /\ topic.rf \in Nat
      <4>1. IsFiniteSet(topic.parts[k[2]].replicas)
        BY <3>6, NodeAssumption, FS_Subset
      <4> QED
        BY <1>2, <4>1, FS_CardinalityType DEF TopicVal
    <3>8. One(Adding(worker, k)) = 0 /\ One(Listed(filler, k)) = 0
      BY <3>3, <3>4 DEF One
    <3> QED
      BY <1>4, <2>2, <3>6, <3>7, <3>8
  <2> QED
    BY <2>1, <2>2
<1> QED
  BY <1>5, <1>6, <1>7, <1>8, <1>9 DEF IInv, StateInv

-----------------------------------------------------------------------------
LEMMA NextInv == ASSUME IInv, [Next]_vars PROVE IInv'
<1>1. registered \in SUBSET Node
  BY DEF IInv, StateInv, TableInv
<1>2. CASE Cluster
  BY <1>1, <1>2, QuietStep
     DEF Cluster, Expire, Return, WatchBreaks, etcdVars
<1>3. CASE Watch
  BY <1>1, <1>3, QuietStep
     DEF Watch, Bootstrap, HandleSnapshot, HandleEvent, etcdVars
<1>4. CASE Session
  BY <1>1, <1>4, QuietStep, SelfAssumption
     DEF Session, Elected, Deposed, KeepaliveEnds, Recover, etcdVars
<1>5. CASE Worker
  BY <1>5, TakeStep, ListStep, RemoveStep, ChooseStep, AddStep DEF Worker
<1>6. CASE WorkerCallFails
  BY <1>6, WorkerFailStep
<1>7. CASE Filler
  BY <1>7, TickStep, FillerChooseStep, FillerAddStep DEF Filler
<1>8. CASE FillerCallFails
  BY <1>8, FillerNextStep DEF FillerCallFails, etcdVars
<1>9. CASE Create
  BY <1>9, CreateStep, PutStep, CreateFailsStep DEF Create
<1>10. CASE UNCHANGED vars
  BY <1>1, <1>10, QuietStep DEF vars, etcdVars
<1> QED
  BY <1>2, <1>3, <1>4, <1>5, <1>6, <1>7, <1>8, <1>9, <1>10 DEF Next

\* rebalanceAfterNodeLoss and reconcileReplication look at the replicas of a
\* partition, choose a node and only then add it, each by a call of its own and
\* neither knowing of the other.  However many nodes come and go and whatever
\* calls fail, a partition gets at most one replica more than asked for: the
\* worker decides on one partition at a time, and the loop lists a partition
\* once a round.
THEOREM AtMostOneTooMany == Spec => []OneReplicaTooMany
<1>1. IInv => OneReplicaTooMany
  <2> SUFFICES ASSUME IInv, NEW k \in KeysOf(table)
               PROVE  Cardinality(PartAt(table, k).replicas) <= FactorAt(table, k) + 1
    BY DEF OneReplicaTooMany
  <2>1. Cardinality(PartAt(table, k).replicas) + One(Adding(worker, k))
                        + One(Listed(filler, k)) <= FactorAt(table, k) + 1
    BY DEF IInv, Bounded
  <2>2. /\ Cardinality(PartAt(table, k).replicas) \in Nat
        /\ FactorAt(table, k) \in Nat
    BY PartIs DEF IInv, StateInv, TableInv
  <2> QED
    BY <2>1, <2>2 DEF One
<1> QED
  BY <1>1, InitInv, NextInv, PTL DEF Spec

-----------------------------------------------------------------------------
(* Even loads.                                                             *)

\* Those of a lower rank than a number, when there are as many.
LEMMA FirstOfExact ==
    ASSUME NEW count \in Count, NEW nodes \in SUBSET Node, NEW number \in Nat,
           number <= Cardinality(nodes)
    PROVE  Cardinality(FirstOf(count, nodes, number)) = number
<1> DEFINE F(i) == FirstOf(count, nodes, i)
           S == {i \in Nat : i <= Cardinality(nodes) => Cardinality(F(i)) = i}
<1>1. /\ \A n \in nodes : Rank(count, nodes, n) \in Nat
      /\ \A m, n \in nodes : m # n => Before(count, m, n) \/ Before(count, n, m)
      /\ \A m, n \in nodes :
           Before(count, m, n) => Rank(count, nodes, m) < Rank(count, nodes, n)
  BY RankFacts
<1>2. \A i, n : n \in F(i) <=> n \in nodes /\ Rank(count, nodes, n) < i
  BY DEF FirstOf, Rank
<1>3. IsFiniteSet(nodes)
  BY NodeAssumption, FS_Subset
<1>4. 0 \in S
  <2>1. F(0) = {}
    BY <1>1, <1>2
  <2>2. Cardinality(F(0)) = 0
    BY <2>1, FS_EmptySet
  <2> QED
    BY <2>2
<1>5. ASSUME NEW i \in Nat, i \in S PROVE i + 1 \in S
  <2> SUFFICES ASSUME i + 1 <= Cardinality(nodes) PROVE Cardinality(F(i + 1)) = i + 1
    OBVIOUS
  <2>0. Cardinality(nodes) \in Nat
    BY <1>3, FS_CardinalityType
  <2>1. F(i) \in SUBSET nodes /\ IsFiniteSet(F(i)) /\ Cardinality(F(i)) = i
    <3>1. F(i) \in SUBSET nodes
      BY <1>2
    <3>2. IsFiniteSet(F(i))
      BY <1>3, <3>1, FS_Subset
    <3> QED
      BY <1>5, <2>0, <3>1, <3>2
  <2>2. nodes \ F(i) # {}
    <3>1. CASE nodes \ F(i) = {}
      <4>1. F(i) = nodes
        BY <2>1, <3>1
      <4> QED
        BY <2>0, <2>1, <4>1
    <3> QED
      BY <3>1
  <2> HIDE DEF F, S
  <2>3. nodes \ F(i) \in SUBSET Node
    OBVIOUS
  <2>4. PICK n \in nodes \ F(i) : \A m \in (nodes \ F(i)) \ {n} : Before(count, n, m)
    BY <2>2, <2>3, SomebodyFirst
  <2>5. \A x \in F(i) : Before(count, x, n)
    <3> TAKE x \in F(i)
    <3>1. x \in nodes /\ Rank(count, nodes, x) < i /\ x # n
      BY <1>2, <2>4
    <3>2. ~(Rank(count, nodes, n) < i)
      BY <1>2, <2>4
    <3>3. ~Before(count, n, x)
      BY <1>1, <2>4, <3>1, <3>2
    <3> QED
      BY <1>1, <2>4, <3>1, <3>3
  <2>6. {m \in nodes : Before(count, m, n)} = F(i)
    <3>1. ASSUME NEW m \in nodes, Before(count, m, n), m \notin F(i) PROVE FALSE
      <4>1. Rank(count, nodes, m) < Rank(count, nodes, n)
        BY <1>1, <2>4, <3>1
      <4>2. m # n
        BY <1>1, <2>4, <4>1
      <4>3. Before(count, n, m)
        BY <2>4, <3>1, <4>2
      <4>4. Rank(count, nodes, n) < Rank(count, nodes, m)
        BY <1>1, <2>4, <4>3
      <4> QED
        BY <1>1, <2>4, <4>1, <4>4
    <3> QED
      BY <2>1, <2>5, <3>1
  <2>7. Rank(count, nodes, n) = i
    BY <2>1, <2>6 DEF Rank
  <2>8. ASSUME NEW m \in nodes PROVE m \in F(i + 1) <=> m \in F(i) \cup {n}
    <3>1. CASE m \in F(i)
      <4>1. Rank(count, nodes, m) < i
        BY <1>2, <3>1
      <4>2. Rank(count, nodes, m) < i + 1
        BY <1>1, <4>1
      <4> QED
        BY <1>2, <3>1, <4>2
    <3>2. CASE m = n
      <4>1. Rank(count, nodes, m) < i + 1
        BY <2>7, <3>2
      <4> QED
        BY <1>2, <3>2, <4>1
    <3>3. CASE m \notin F(i) /\ m # n
      <4>1. Before(count, n, m)
        BY <2>4, <3>3
      <4>2. i < Rank(count, nodes, m)
        BY <1>1, <2>4, <2>7, <4>1
      <4>3. ~(Rank(count, nodes, m) < i + 1)
        BY <1>1, <4>2
      <4> QED
        BY <1>2, <3>3, <4>3
    <3> QED
      BY <3>1, <3>2, <3>3
  <2>9. F(i + 1) = F(i) \cup {n}
    <3>1. \A m \in F(i + 1) : m \in nodes
      BY <1>2
    <3> QED
      BY <2>1, <2>4, <2>8, <3>1
  <2>10. n \notin F(i)
    BY <2>4
  <2>11. Cardinality(F(i) \cup {n}) = Cardinality(F(i)) + 1
    BY <2>1, <2>10, FS_AddElement
  <2> QED
    BY <2>1, <2>9, <2>11
<1> HIDE DEF S, F
<1>6. Nat \subseteq S
  BY <1>4, <1>5, Counting
<1> QED
  BY <1>6 DEF S, F

\* The least loaded nodes take one partition more, and nobody gets ahead.
LEMMA PlusKeepsEven ==
    ASSUME NEW count \in Count, Even(count), NEW number \in Nat
    PROVE  Even(Plus(count, FirstOf(count, Node, number)))
<1> DEFINE F == FirstOf(count, Node, number)
<1>1. \A n \in Node : count[n] \in Nat /\ n \in Nat
  BY NodeAssumption DEF Count
<1>2. \A n \in Node : n \in F <=> Rank(count, Node, n) < number
  BY DEF FirstOf, Rank
<1>3. /\ \A n \in Node : Rank(count, Node, n) \in Nat
      /\ \A m, n \in Node : m # n => Before(count, m, n) \/ Before(count, n, m)
      /\ \A m, n \in Node :
           Before(count, m, n) => Rank(count, Node, m) < Rank(count, Node, n)
  BY RankFacts
<1> HIDE DEF F
<1>4. ASSUME NEW m \in Node, NEW n \in Node, m \in F, n \notin F
      PROVE  count[m] <= count[n]
  <2>1. ~(Rank(count, Node, n) < Rank(count, Node, m))
    BY <1>2, <1>3, <1>4
  <2>2. ~Before(count, n, m)
    BY <1>3, <2>1
  <2> QED
    BY <1>1, <2>2 DEF Before
<1>5. ASSUME NEW m \in Node, NEW n \in Node
      PROVE  Plus(count, F)[m] <= Plus(count, F)[n] + 1
  <2>1. /\ Plus(count, F)[m] = count[m] + IF m \in F THEN 1 ELSE 0
        /\ Plus(count, F)[n] = count[n] + IF n \in F THEN 1 ELSE 0
    BY DEF Plus
  <2>2. count[m] <= count[n] + 1
    BY DEF Even
  <2>3. count[m] \in Nat /\ count[n] \in Nat
    BY <1>1
  <2>4. CASE m \in F /\ n \notin F
    BY <1>4, <2>1, <2>3, <2>4
  <2>5. CASE m \notin F \/ n \in F
    BY <2>1, <2>2, <2>3, <2>5
  <2> QED
    BY <2>4, <2>5
<1> QED
  BY <1>5 DEF Even, F

\* One partition more is one more for each of its replicas.
LEMMA LoadGrows ==
    ASSUME NEW cluster, NEW after, IsFiniteSet(KeysOf(cluster)),
           NEW x, x \notin KeysOf(cluster), KeysOf(after) = KeysOf(cluster) \cup {x},
           \A k \in KeysOf(cluster) : PartAt(after, k) = PartAt(cluster, k)
    PROVE  Load(after) = Plus(Load(cluster), PartAt(after, x).replicas)
<1> DEFINE Old(n) == {k \in KeysOf(cluster) : n \in PartAt(cluster, k).replicas}
           New(n) == {k \in KeysOf(after) : n \in PartAt(after, k).replicas}
<1>1. ASSUME NEW n \in Node
      PROVE  Cardinality(New(n)) =
               Cardinality(Old(n)) + IF n \in PartAt(after, x).replicas THEN 1 ELSE 0
  <2>1. Old(n) \in SUBSET KeysOf(cluster)
    OBVIOUS
  <2>2. IsFiniteSet(Old(n)) /\ x \notin Old(n)
    BY <2>1, FS_Subset
  <2>3. Cardinality(Old(n)) \in Nat
    BY <2>2, FS_CardinalityType
  <2>4. CASE n \in PartAt(after, x).replicas
    <3>1. New(n) = Old(n) \cup {x}
      BY <2>4
    <3> HIDE DEF Old, New
    <3>2. Cardinality(Old(n) \cup {x}) = Cardinality(Old(n)) + 1
      BY <2>2, FS_AddElement
    <3> QED
      BY <2>4, <3>1, <3>2
  <2>5. CASE n \notin PartAt(after, x).replicas
    <3>1. New(n) = Old(n)
      BY <2>5
    <3> HIDE DEF Old, New
    <3> QED
      BY <2>3, <2>5, <3>1
  <2> QED
    BY <2>4, <2>5
<1>2. /\ Load(after) = [n \in Node |-> Cardinality(New(n))]
      /\ Load(cluster) = [n \in Node |-> Cardinality(Old(n))]
  BY DEF Load
<1> HIDE DEF Old, New
<1> QED
  BY <1>1, <1>2 DEF Plus

-----------------------------------------------------------------------------
(* The placement of a topic, one partition after the other.                *)

\* Every partition has the replicas it asks for.
Full(cluster) == \A k \in KeysOf(cluster) :
                     Cardinality(PartAt(cluster, k).replicas) = FactorAt(cluster, k)

Balanced(cluster) == Full(cluster) /\ Even(Load(cluster))

\* A table with the topic placed so far.
SoFar(cluster, t, rf, parts) == WithTopic(cluster, t, [rf |-> rf, parts |-> parts])

\* The counters of the placement are the loads of the table with the topic
\* placed so far.
Keeping(cluster, t, rf, st) ==
    /\ st \in Placing(rf)
    /\ st.load = Load(SoFar(cluster, t, rf, st.parts))
    /\ Balanced(SoFar(cluster, t, rf, st.parts))

\* A table and one with another partition of the topic.
LEMMA OnePartMore ==
    ASSUME NEW cluster \in Tables, IsFiniteSet(KeysOf(cluster)),
           NEW t \in Topic, cluster[t] = NoTopic, NEW rf \in Nat \ {0},
           NEW parts \in Seq(Part), NEW part \in Part,
           NEW before, before = SoFar(cluster, t, rf, parts),
           NEW after, after = SoFar(cluster, t, rf, Append(parts, part)),
           NEW x, x = <<t, Len(parts) + 1>>
    PROVE  /\ IsFiniteSet(KeysOf(before))
           /\ x \notin KeysOf(before)
           /\ KeysOf(after) = KeysOf(before) \cup {x}
           /\ PartAt(after, x) = part
           /\ FactorAt(after, x) = rf
           /\ \A k \in KeysOf(before) : /\ PartAt(after, k) = PartAt(before, k)
                                        /\ FactorAt(after, k) = FactorAt(before, k)
<1> DEFINE old == [rf |-> rf, parts |-> parts]
           new == [rf |-> rf, parts |-> Append(parts, part)]
           n == Len(parts)
<1>1. /\ n \in Nat /\ DOMAIN parts = 1 .. n
      /\ DOMAIN Append(parts, part) = 1 .. n + 1
      /\ Append(parts, part)[n + 1] = part
      /\ \A i \in 1 .. n : Append(parts, part)[i] = parts[i]
      /\ Append(parts, part) \in Seq(Part)
  OBVIOUS
<1>2. /\ old \in TopicVal /\ old.parts = parts /\ old.rf = rf
      /\ new \in TopicVal /\ new.parts = Append(parts, part) /\ new.rf = rf
  BY <1>1 DEF TopicVal
<1>3. before = WithTopic(cluster, t, old) /\ after = WithTopic(cluster, t, new)
  BY DEF SoFar
<1> HIDE DEF old, new
<1>4. /\ KeysOf(before) = KeysOf(cluster) \cup ({t} \X DOMAIN old.parts)
      /\ IsFiniteSet({t} \X DOMAIN old.parts)
      /\ \A l \in KeysOf(cluster) :
           /\ l[1] # t
           /\ FactorAt(before, l) = FactorAt(cluster, l)
           /\ PartAt(before, l) = PartAt(cluster, l)
      /\ \A l \in {t} \X DOMAIN old.parts :
           /\ FactorAt(before, l) = old.rf
           /\ PartAt(before, l) = old.parts[l[2]]
  <2>1. /\ cluster \in Tables /\ t \in Topic /\ cluster[t] = NoTopic
        /\ old \in TopicVal /\ before = WithTopic(cluster, t, old)
    BY <1>2, <1>3
  <2>2. Adds(cluster, t, old, before)
    BY <2>1, TopicWritten
  <2> QED
    BY <2>2 DEF Adds
<1>5. /\ KeysOf(after) = KeysOf(cluster) \cup ({t} \X DOMAIN new.parts)
      /\ \A l \in KeysOf(cluster) :
           /\ FactorAt(after, l) = FactorAt(cluster, l)
           /\ PartAt(after, l) = PartAt(cluster, l)
      /\ \A l \in {t} \X DOMAIN new.parts :
           /\ FactorAt(after, l) = new.rf
           /\ PartAt(after, l) = new.parts[l[2]]
  <2>1. /\ cluster \in Tables /\ t \in Topic /\ cluster[t] = NoTopic
        /\ new \in TopicVal /\ after = WithTopic(cluster, t, new)
    BY <1>2, <1>3
  <2>2. Adds(cluster, t, new, after)
    BY <2>1, TopicWritten
  <2> QED
    BY <2>2 DEF Adds
<1> HIDE DEF n
<1>6. {t} \X (1 .. n + 1) = ({t} \X (1 .. n)) \cup {x}
  <2>1. 1 .. n + 1 = (1 .. n) \cup {n + 1}
    BY <1>1
  <2> QED
    BY <2>1 DEF n
<1>7. x \in {t} \X (1 .. n + 1) /\ x \notin {t} \X (1 .. n) /\ x[1] = t /\ x[2] = n + 1
  BY <1>1 DEF n
<1>8. IsFiniteSet(KeysOf(before))
  <2> DEFINE more == {t} \X DOMAIN old.parts
  <2>1. IsFiniteSet(more) /\ KeysOf(before) = KeysOf(cluster) \cup more
    BY <1>4
  <2> HIDE DEF more
  <2> QED
    BY <2>1, FS_Union
<1>9. KeysOf(after) = KeysOf(before) \cup {x}
  BY <1>1, <1>2, <1>4, <1>5, <1>6
<1>10. x \notin KeysOf(before)
  BY <1>1, <1>2, <1>4, <1>7
<1>11. PartAt(after, x) = part /\ FactorAt(after, x) = rf
  BY <1>1, <1>2, <1>5, <1>7
<1>12. ASSUME NEW k \in KeysOf(before)
       PROVE  PartAt(after, k) = PartAt(before, k) /\ FactorAt(after, k) = FactorAt(before, k)
  <2>1. CASE k \in KeysOf(cluster)
    BY <1>4, <1>5, <2>1
  <2>2. CASE k \in {t} \X (1 .. n)
    <3>1. k \in {t} \X (1 .. n + 1) /\ k[2] \in 1 .. n
      BY <1>6, <2>2
    <3> QED
      BY <1>1, <1>2, <1>4, <1>5, <2>2, <3>1
  <2> QED
    BY <1>1, <1>2, <1>4, <2>1, <2>2
<1> QED
  BY <1>8, <1>9, <1>10, <1>11, <1>12

\* One more partition keeps the counters right and the loads even.
LEMMA PlaceNextKeeps ==
    ASSUME NEW cluster \in Tables, IsFiniteSet(KeysOf(cluster)),
           NEW t \in Topic, cluster[t] = NoTopic, NEW rf \in Nat \ {0},
           rf <= Cardinality(Node), NEW st, Keeping(cluster, t, rf, st)
    PROVE  Keeping(cluster, t, rf, PlaceNext(st, Node, rf))
<1> DEFINE next == PlaceNext(st, Node, rf)
           chosen == FirstOf(st.load, Node, rf)
           part == [leader |-> LeastLoaded(st.leads, chosen), replicas |-> chosen]
           x == <<t, Len(st.parts) + 1>>
           before == SoFar(cluster, t, rf, st.parts)
           after == SoFar(cluster, t, rf, next.parts)
<1>1. /\ st \in Placing(rf) /\ st.load = Load(before) /\ Balanced(before)
  BY DEF Keeping
<1>2. st.load \in Count /\ st.leads \in Count /\ st.parts \in Seq(PartUpTo(rf))
  BY <1>1 DEF Placing
<1>3. Node # {}
  BY FS_EmptySet
<1>4. next \in Placing(rf)
  BY <1>1, <1>3, PlaceNextFacts
<1>5. /\ next.load = Plus(st.load, chosen)
      /\ next.parts = Append(st.parts, part)
  BY DEF PlaceNext
<1>6. chosen \in SUBSET Node /\ Cardinality(chosen) = rf /\ chosen # {}
  BY <1>2, <1>3, FirstOfFacts, FirstOfExact
<1>7. Even(Plus(st.load, chosen))
  BY <1>1, <1>2, PlusKeepsEven DEF Balanced
<1> HIDE DEF chosen
<1>8. LeastLoaded(st.leads, chosen) \in chosen
  BY <1>2, <1>6, LeastLoadedIsOne
<1>9. part \in Part /\ part.replicas = chosen
  BY <1>6, <1>8 DEF Part
<1>10. st.parts \in Seq(Part)
  BY <1>2 DEF PartUpTo
<1> HIDE DEF part, next
<1>11. /\ IsFiniteSet(KeysOf(before))
       /\ x \notin KeysOf(before)
       /\ KeysOf(after) = KeysOf(before) \cup {x}
       /\ PartAt(after, x) = part
       /\ FactorAt(after, x) = rf
       /\ \A k \in KeysOf(before) : /\ PartAt(after, k) = PartAt(before, k)
                                    /\ FactorAt(after, k) = FactorAt(before, k)
  <2>1. after = SoFar(cluster, t, rf, Append(st.parts, part))
    BY <1>5
  <2> HIDE DEF after, before, x
  <2>2. before = SoFar(cluster, t, rf, st.parts) /\ x = <<t, Len(st.parts) + 1>>
    BY DEF before, x
  <2> QED
    BY <1>9, <1>10, <2>1, <2>2, OnePartMore
<1> HIDE DEF after, before, x
<1>12. Load(after) = Plus(st.load, chosen)
  <2>1. Load(after) = Plus(Load(before), PartAt(after, x).replicas)
    BY <1>11, LoadGrows
  <2> QED
    BY <1>1, <1>9, <1>11, <2>1
<1>13. Full(after)
  <2>1. \A k \in KeysOf(before) :
          Cardinality(PartAt(before, k).replicas) = FactorAt(before, k)
    BY <1>1 DEF Balanced, Full
  <2> QED
    BY <1>6, <1>9, <1>11, <2>1 DEF Full
<1>14. next.load = Load(after) /\ Balanced(after)
  BY <1>5, <1>7, <1>12, <1>13 DEF Balanced
<1> QED
  BY <1>4, <1>14 DEF Keeping, next, after

\* A topic without partitions changes no load.
LEMMA NoPartsYet ==
    ASSUME NEW cluster \in Tables, IsFiniteSet(KeysOf(cluster)),
           NEW t \in Topic, cluster[t] = NoTopic, NEW rf \in Nat \ {0},
           Balanced(cluster)
    PROVE  /\ Load(SoFar(cluster, t, rf, <<>>)) = Load(cluster)
           /\ Balanced(SoFar(cluster, t, rf, <<>>))
<1> DEFINE none == [rf |-> rf, parts |-> <<>>]
           after == SoFar(cluster, t, rf, <<>>)
<1>1. none \in TopicVal /\ DOMAIN none.parts = {}
  <2>1. <<>> \in Seq(Part) /\ DOMAIN <<>> = {}
    OBVIOUS
  <2> QED
    BY <2>1 DEF TopicVal
<1>2. after = WithTopic(cluster, t, none)
  BY DEF SoFar
<1> HIDE DEF none, after
<1>3. /\ KeysOf(after) = KeysOf(cluster) \cup ({t} \X DOMAIN none.parts)
      /\ \A l \in KeysOf(cluster) :
           /\ FactorAt(after, l) = FactorAt(cluster, l)
           /\ PartAt(after, l) = PartAt(cluster, l)
  <2>1. /\ cluster \in Tables /\ t \in Topic /\ cluster[t] = NoTopic
        /\ none \in TopicVal /\ after = WithTopic(cluster, t, none)
    BY <1>1, <1>2
  <2>2. Adds(cluster, t, none, after)
    BY <2>1, TopicWritten
  <2> QED
    BY <2>2 DEF Adds
<1>4. KeysOf(after) = KeysOf(cluster)
  BY <1>1, <1>3
<1>5. ASSUME NEW n
      PROVE  {k \in KeysOf(after) : n \in PartAt(after, k).replicas}
               = {k \in KeysOf(cluster) : n \in PartAt(cluster, k).replicas}
  BY <1>3, <1>4
<1>6. Load(after) = Load(cluster)
  BY <1>5 DEF Load
<1>7. Full(after)
  BY <1>3, <1>4 DEF Balanced, Full
<1> QED
  BY <1>6, <1>7 DEF Balanced, after

\* On all nodes, and if there are enough of them, a topic is placed in full and
\* keeps the loads even.
LEMMA PlaceTopicKeeps ==
    ASSUME NEW cluster \in Tables, IsFiniteSet(KeysOf(cluster)),
           NEW t \in Topic, cluster[t] = NoTopic, NEW rf \in Nat \ {0},
           rf <= Cardinality(Node), NEW number \in Nat, Balanced(cluster)
    PROVE  Balanced(WithTopic(cluster, t, PlaceTopic(cluster, Node, number, rf)))
<1> DEFINE base == [load |-> Load(cluster), leads |-> Leads(cluster), parts |-> <<>>]
           st == CHOOSE f : Places(f, number, base, Node, rf)
           S == {i \in Nat : i <= number => Keeping(cluster, t, rf, st[i])}
<1>1. Keeping(cluster, t, rf, base)
  <2>1. <<>> \in Seq(PartUpTo(rf))
    OBVIOUS
  <2>2. Load(cluster) \in Count /\ Leads(cluster) \in Count
    BY CountsAreNumbers
  <2>3. base \in Placing(rf)
    BY <2>1, <2>2 DEF Placing
  <2> QED
    BY <2>3, NoPartsYet DEF Keeping
<1>2. PlaceTopic(cluster, Node, number, rf) = [rf |-> rf, parts |-> st[number].parts]
  BY DEF PlaceTopic, Places
<1> HIDE DEF base
<1>3. \E f : Places(f, number, base, Node, rf)
  BY PlacementExists
<1>4. Places(st, number, base, Node, rf)
  BY <1>3
<1> HIDE DEF st
<1>5. \A i \in 0 .. number :
        st[i] = IF i = 0 THEN base ELSE PlaceNext(st[i - 1], Node, rf)
  BY <1>4 DEF Places
<1>6. 0 \in S
  <2>1. st[0] = base
    BY <1>5
  <2> QED
    BY <1>1, <2>1
<1>7. ASSUME NEW n \in Nat, n \in S PROVE n + 1 \in S
  <2>1. ASSUME n + 1 <= number PROVE Keeping(cluster, t, rf, st[n + 1])
    <3>1. n + 1 \in 0 .. number /\ n + 1 # 0 /\ (n + 1) - 1 = n /\ n <= number
      BY <2>1
    <3>2. st[n + 1] = PlaceNext(st[n], Node, rf)
      BY <1>5, <3>1
    <3>3. Keeping(cluster, t, rf, st[n])
      BY <1>7, <3>1
    <3> QED
      BY <3>2, <3>3, PlaceNextKeeps
  <2> QED
    BY <2>1
<1> HIDE DEF S
<1>8. Nat \subseteq S
  BY <1>6, <1>7, Counting
<1>9. Keeping(cluster, t, rf, st[number])
  BY <1>8 DEF S
<1> QED
  BY <1>2, <1>9 DEF Keeping, SoFar

-----------------------------------------------------------------------------
(* A cluster that has lost no registration.                                *)

Joining == [kind : {"join"}, node : Node]

\* Every node is registered, nobody is told otherwise and nothing is to repair.
Untouched ==
    /\ registered = Node /\ members \in SUBSET Node /\ ~paused
    /\ queue = <<>>
    /\ events \in Seq(Joining) /\ calls \in Seq(Joining)
    /\ worker.pc = "idle" /\ filler.pc = "idle"

\* The table is balanced, and stays so with any topic that is placed.
BalanceInv ==
    /\ Balanced(table)
    /\ \A t \in Topic : plan[t] # NoTopic => Balanced(WithTopic(table, t, plan[t]))

Budgets == [loss : 0 .. MaxLosses, return : 0 .. MaxReturns, fault : 0 .. MaxFaults]

LossInv ==
    /\ budget \in Budgets
    /\ budget.loss = MaxLosses => Untouched /\ BalanceInv

\* What is spent does not come back.
LEMMA BudgetStep ==
    ASSUME budget \in Budgets, NEW what \in {"loss", "return", "fault"}, Spend(what)
    PROVE  /\ budget' \in Budgets
           /\ budget'.loss = MaxLosses => budget.loss = MaxLosses
           /\ what = "loss" => budget'.loss # MaxLosses
<1>1. /\ budget.loss \in 0 .. MaxLosses /\ budget.return \in 0 .. MaxReturns
      /\ budget.fault \in 0 .. MaxFaults
  BY DEF Budgets
<1>2. /\ MaxLosses \in Nat /\ MaxReturns \in Nat /\ MaxFaults \in Nat
  BY BoundsAssumption
<1>3. budget[what] > 0 /\ budget' = [budget EXCEPT ![what] = @ - 1]
  BY DEF Spend
<1>4. CASE what = "loss"
  <2>1. budget.loss - 1 \in 0 .. MaxLosses /\ budget.loss - 1 # MaxLosses
    BY <1>1, <1>2, <1>3, <1>4
  <2>2. budget' \in Budgets /\ budget'.loss = budget.loss - 1
    BY <1>3, <1>4, <2>1 DEF Budgets
  <2> QED
    BY <2>1, <2>2
<1>5. CASE what = "return"
  <2>1. budget.return - 1 \in 0 .. MaxReturns
    BY <1>1, <1>2, <1>3, <1>5
  <2>2. budget' \in Budgets /\ budget'.loss = budget.loss
    BY <1>3, <1>5, <2>1 DEF Budgets
  <2> QED
    BY <1>5, <2>2
<1>6. CASE what = "fault"
  <2>1. budget.fault - 1 \in 0 .. MaxFaults
    BY <1>1, <1>2, <1>3, <1>6
  <2>2. budget' \in Budgets /\ budget'.loss = budget.loss
    BY <1>3, <1>6, <2>1 DEF Budgets
  <2> QED
    BY <1>6, <2>2
<1> QED
  BY <1>4, <1>5, <1>6

\* Every rank below the number of nodes is somebody's.
LEMMA RankTaken ==
    ASSUME NEW count \in Count, NEW nodes \in SUBSET Node, NEW i \in Nat,
           i < Cardinality(nodes)
    PROVE  \E n \in nodes : Rank(count, nodes, n) = i
<1>1. IsFiniteSet(nodes) /\ Cardinality(nodes) \in Nat
  BY NodeAssumption, FS_Subset, FS_CardinalityType
<1>2. /\ Cardinality(FirstOf(count, nodes, i)) = i
      /\ Cardinality(FirstOf(count, nodes, i + 1)) = i + 1
  BY <1>1, FirstOfExact
<1>3. \A j, n : n \in FirstOf(count, nodes, j) <=> n \in nodes /\ Rank(count, nodes, n) < j
  BY DEF FirstOf, Rank
<1>4. \A n \in nodes : Rank(count, nodes, n) \in Nat
  BY RankFacts
<1>5. FirstOf(count, nodes, i) # FirstOf(count, nodes, i + 1)
  BY <1>2
<1>6. PICK n \in nodes :
        ~(n \in FirstOf(count, nodes, i) <=> n \in FirstOf(count, nodes, i + 1))
  BY <1>3, <1>5
<1>7. ~(Rank(count, nodes, n) < i <=> Rank(count, nodes, n) < i + 1)
  BY <1>3, <1>6
<1> QED
  BY <1>4, <1>7

\* The calls for a set of nodes: one about each of them, and about no other.
LEMMA CallsFacts ==
    ASSUME NEW kind, NEW nodes \in SUBSET Node,
           NEW q, q = CallsFor(kind, nodes)
    PROVE  /\ q = [i \in 1 .. Cardinality(nodes) |-> q[i]] /\ Cardinality(nodes) \in Nat
           /\ \A i \in 1 .. Cardinality(nodes) : \E n \in nodes : q[i] = Ev(kind, n)
           /\ \A n \in nodes : \E i \in 1 .. Cardinality(nodes) : q[i] = Ev(kind, n)
<1> DEFINE count == [n \in Node |-> 0]
           Upto(n) == {m \in nodes : m <= n}
           N == Cardinality(nodes)
           Who(i) == CHOOSE n \in nodes : Cardinality({m \in nodes : m <= n}) = i
<1>1. IsFiniteSet(nodes) /\ N \in Nat
  BY NodeAssumption, FS_Subset, FS_CardinalityType
<1>2. count \in Count
  BY DEF Count
<1>3. ASSUME NEW n \in nodes
      PROVE  Cardinality(Upto(n)) = Rank(count, nodes, n) + 1
  <2> DEFINE Above == {m \in nodes : Before(count, m, n)}
  <2>1. \A m \in nodes : m \in Nat /\ (Before(count, m, n) <=> m < n)
    BY NodeAssumption DEF Before
  <2>2. Upto(n) = Above \cup {n} /\ n \notin Above
    BY <2>1
  <2>3. Above \in SUBSET nodes
    OBVIOUS
  <2>4. IsFiniteSet(Above)
    BY <1>1, <2>3, FS_Subset
  <2>5. Rank(count, nodes, n) = Cardinality(Above)
    BY DEF Rank
  <2> HIDE DEF Above, Upto
  <2>6. Cardinality(Above \cup {n}) = Cardinality(Above) + 1
    BY <2>2, <2>4, FS_AddElement
  <2> QED
    BY <2>2, <2>5, <2>6
<1>4. ASSUME NEW i \in 1 .. N
      PROVE  Who(i) \in nodes /\ Cardinality(Upto(Who(i))) = i
  <2>1. i - 1 \in Nat /\ i - 1 < N
    BY <1>1
  <2> HIDE DEF count
  <2>2. PICK n \in nodes : Rank(count, nodes, n) = i - 1
    BY <1>2, <2>1, RankTaken
  <2>3. Cardinality(Upto(n)) = i
    BY <1>1, <1>3, <2>2
  <2> QED
    BY <2>3
<1>5. q = [i \in 1 .. N |-> Ev(kind, Who(i))]
  BY DEF CallsFor
<1>6. ASSUME NEW n \in nodes
      PROVE  \E i \in 1 .. N : Who(i) = n
  <2> DEFINE r == Rank(count, nodes, n)
  <2>1. r \in Nat
    BY <1>2, RankFacts
  <2>2. r + 1 \in 1 .. N
    <3>1. IsFiniteSet(Upto(n)) /\ Cardinality(Upto(n)) <= N
      BY <1>1, FS_Subset
    <3> HIDE DEF Upto, N, r
    <3> QED
      BY <1>1, <1>3, <2>1, <3>1 DEF r
  <2>3. Cardinality(Upto(Who(r + 1))) = r + 1 /\ Who(r + 1) \in nodes
    BY <1>4, <2>2
  <2> DEFINE m == Who(r + 1)
  <2>4. m \in nodes /\ Rank(count, nodes, m) + 1 = r + 1
    BY <1>3, <2>3
  <2>5. Rank(count, nodes, m) \in Nat
    BY <1>2, <2>3, RankFacts
  <2>6. Rank(count, nodes, m) = r
    BY <2>1, <2>4, <2>5
  <2> HIDE DEF m, count, r
  <2>7. m = n
    <3>1. \A a, b \in nodes : a # b => Before(count, a, b) \/ Before(count, b, a)
      BY <1>2, RankFacts
    <3>2. \A a, b \in nodes :
            Before(count, a, b) => Rank(count, nodes, a) < Rank(count, nodes, b)
      BY <1>2, RankFacts
    <3>3. ~(Rank(count, nodes, m) < Rank(count, nodes, n))
          /\ ~(Rank(count, nodes, n) < Rank(count, nodes, m))
      BY <2>1, <2>6 DEF r
    <3> QED
      BY <2>4, <3>1, <3>2, <3>3
  <2> QED
    BY <2>2, <2>7 DEF m
<1> HIDE DEF N, Who, Upto, count
<1> QED
  BY <1>1, <1>4, <1>5, <1>6 DEF N

\* The calls for joins.
LEMMA JoinsAreCalled ==
    ASSUME NEW nodes \in SUBSET Node
    PROVE  CallsFor("join", nodes) \in Seq(Joining)
<1> DEFINE q == CallsFor("join", nodes)
           N == Cardinality(nodes)
<1>1. /\ q = [i \in 1 .. N |-> q[i]] /\ N \in Nat
      /\ \A i \in 1 .. N : \E n \in nodes : q[i] = Ev("join", n)
  BY CallsFacts
<1> HIDE DEF q, N
<1>2. \A i \in 1 .. N : q[i] \in Joining
  BY <1>1 DEF Ev, Joining
<1>3. q \in [1 .. N -> Joining]
  BY <1>1, <1>2
<1> QED
  BY <1>1, <1>3 DEF q

\* With every node registered a snapshot calls for joins only.
LEMMA SnapshotJoins ==
    ASSUME members \in SUBSET Node
    PROVE  SnapshotCalls(Node) \in Seq(Joining)
<1>1. members \ Node = {} /\ Node \ members \in SUBSET Node
  OBVIOUS
<1>2. CallsFor("leave", {}) = <<>>
  <2>1. 1 .. Cardinality({}) = {}
    BY FS_EmptySet
  <2>2. CallsFor("leave", {}) = [i \in 1 .. Cardinality({}) |->
          Ev("leave", CHOOSE n \in {} : Cardinality({m \in {} : m <= n}) = i)]
    BY DEF CallsFor
  <2>3. CallsFor("leave", {}) \in [1 .. 0 -> Joining]
    BY <2>1, <2>2, FS_EmptySet
  <2>4. CallsFor("leave", {}) \in Seq(Joining) /\ Len(CallsFor("leave", {})) = 0
    BY <2>3
  <2> QED
    BY <2>4, EmptySeq
<1>3. CallsFor("join", Node \ members) \in Seq(Joining)
  BY <1>1, JoinsAreCalled
<1>4. SnapshotCalls(Node) =
        CallsFor("leave", members \ Node) \o CallsFor("join", Node \ members)
          \o (IF self \in Node THEN <<>> ELSE <<Ev("missing", self)>>)
  BY DEF SnapshotCalls
<1>5. SnapshotCalls(Node) = (<<>> \o CallsFor("join", Node \ members)) \o <<>>
  BY <1>1, <1>2, <1>4, SelfAssumption
<1> QED
  BY <1>3, <1>5

\* The table and the placements stay as they are, and so does their balance.
LEMMA BalanceStays ==
    ASSUME BalanceInv, UNCHANGED <<table, plan>>
    PROVE  BalanceInv'
BY DEF BalanceInv

\* In a balanced table nothing is short of replicas.
LEMMA NothingShort ==
    ASSUME IInv, Balanced(table), NEW k \in KeysOf(table)
    PROVE  Enough(k)
<1>1. Cardinality(PartAt(table, k).replicas) = FactorAt(table, k)
  BY DEF Balanced, Full
<1>2. FactorAt(table, k) \in Nat
  BY PartIs DEF IInv, StateInv, TableInv
<1> QED
  BY <1>1, <1>2 DEF Enough

\* The watch, in such a cluster.
LEMMA WatchTouchesNothing ==
    ASSUME Untouched, Watch
    PROVE  Untouched'
<1>1. CASE Bootstrap
  <2>1. SnapshotCalls(Node) \in Seq(Joining)
    BY SnapshotJoins DEF Untouched
  <2> QED
    BY <1>1, <2>1 DEF Untouched, Bootstrap, etcdVars, roleVars
<1>2. ASSUME NEW q \in Seq(Joining), q # <<>>, Handle(Head(q))
      PROVE  /\ Tail(q) \in Seq(Joining)
             /\ members' \in SUBSET Node /\ UNCHANGED <<queue, roleVars>>
  <2>1. Head(q) \in Joining /\ Tail(q) \in Seq(Joining)
    BY <1>2
  <2>2. Head(q).kind = "join" /\ Head(q).node \in Node
    BY <2>1 DEF Joining
  <2>3. members' = members \cup {Head(q).node} /\ UNCHANGED <<queue, roleVars>>
    BY <1>2, <2>2 DEF Handle
  <2> QED
    BY <2>1, <2>2, <2>3 DEF Untouched
<1>3. CASE HandleSnapshot
  BY <1>2, <1>3 DEF Untouched, HandleSnapshot, etcdVars, roleVars
<1>4. CASE HandleEvent
  BY <1>2, <1>4 DEF Untouched, HandleEvent, etcdVars, roleVars
<1> QED
  BY <1>1, <1>3, <1>4 DEF Watch

\* No step but a loss touches it.
LEMMA UntouchedStep ==
    ASSUME IInv, Untouched, Balanced(table), Next, ~(\E n \in Node : Expire(n))
    PROVE  /\ Untouched'
           /\ UNCHANGED <<table, plan>> \/ Create
<1>1. CASE Cluster
  BY <1>1 DEF Cluster, Return, WatchBreaks, Untouched, etcdVars, roleVars
<1>2. CASE Watch
  BY <1>2, WatchTouchesNothing
     DEF Watch, Bootstrap, HandleSnapshot, HandleEvent, etcdVars
<1>3. CASE Session
  BY <1>3, SelfAssumption
     DEF Session, Elected, Deposed, KeepaliveEnds, Recover, Untouched, etcdVars, watchVars
<1>4. CASE Worker \/ WorkerCallFails
  BY <1>4 DEF Worker, Take, List, Remove, Choose, Add, WorkerCallFails, Untouched
<1>5. CASE Filler \/ FillerCallFails
  <2>1. ~Tick
    BY NothingShort DEF Tick
  <2> QED
    BY <1>5, <2>1 DEF Filler, FillerChoose, FillerAdd, FillerCallFails, Untouched
<1>6. CASE Create
  BY <1>6 DEF Create, CreateTopic, PutTopic, CreateFails, Untouched, etcdVars,
              watchVars, roleVars
<1> QED
  BY <1>1, <1>2, <1>3, <1>4, <1>5, <1>6 DEF Next

\* With one topic placed at a time, CreateTopic keeps the table balanced.
LEMMA CreateKeepsBalance ==
    ASSUME IInv, Untouched, BalanceInv, OneAtATime, Create
    PROVE  BalanceInv'
<1>1. /\ table \in Tables /\ plan \in Tables /\ IsFiniteSet(KeysOf(table))
      /\ registered = Node
  BY DEF IInv, StateInv, TableInv, PlanInv, Untouched
<1>2. ASSUME NEW t \in Topic, NEW request \in Request, CreateTopic(t, request)
      PROVE  BalanceInv'
  <2> DEFINE topic == PlaceTopic(table, Node, request.number, request.rf)
  <2>1. request.number \in Nat /\ request.rf \in Nat \ {0}
    BY RequestAssumption
  <2>2. /\ table[t] = NoTopic /\ request.rf <= Cardinality(Node)
        /\ plan' = [plan EXCEPT ![t] = topic] /\ table' = table
    <3>1. Cardinality(Node) \in Nat
      BY NodeAssumption, FS_CardinalityType
    <3>2. Cardinality(Node) >= request.rf
      BY <1>1, <1>2 DEF CreateTopic
    <3>3. request.rf <= Cardinality(Node)
      BY <2>1, <3>1, <3>2
    <3> QED
      BY <1>1, <1>2, <3>3 DEF CreateTopic, etcdVars
  <2>3. Balanced(WithTopic(table, t, topic))
    BY <1>1, <2>1, <2>2, PlaceTopicKeeps DEF BalanceInv
  <2> HIDE DEF topic
  <2>4. plan'[t] = topic /\ \A u \in Topic : u # t => plan'[u] = plan[u]
    BY <1>1, <2>2 DEF Tables
  <2>5. \A u \in Topic : plan'[u] # NoTopic => Balanced(WithTopic(table, u, plan'[u]))
    BY <2>3, <2>4 DEF BalanceInv
  <2> QED
    BY <2>2, <2>5 DEF BalanceInv
<1>3. ASSUME NEW t \in Topic, PutTopic(t)
      PROVE  BalanceInv'
  <2>1. /\ plan[t] # NoTopic /\ table' = WithTopic(table, t, plan[t])
        /\ plan' = [plan EXCEPT ![t] = NoTopic]
    BY <1>3 DEF PutTopic, WithTopic
  <2>2. Balanced(table')
    BY <2>1 DEF BalanceInv
  <2>3. \A u \in Topic : plan'[u] = NoTopic
    BY <1>1, <2>1 DEF OneAtATime, Tables
  <2> QED
    BY <2>2, <2>3 DEF BalanceInv
<1>4. ASSUME NEW t \in Topic, CreateFails(t)
      PROVE  BalanceInv'
  <2>1. plan' = [plan EXCEPT ![t] = NoTopic] /\ table' = table
    BY <1>4 DEF CreateFails, etcdVars
  <2>2. \A u \in Topic : plan'[u] # NoTopic => plan'[u] = plan[u]
    BY <1>1, <2>1 DEF Tables
  <2> QED
    BY <2>1, <2>2 DEF BalanceInv
<1> QED
  BY <1>2, <1>3, <1>4 DEF Create

LEMMA InitLoss == Init => LossInv
<1> SUFFICES ASSUME Init PROVE LossInv
  OBVIOUS
<1>1. budget \in Budgets
  <2>1. MaxLosses \in 0 .. MaxLosses /\ MaxReturns \in 0 .. MaxReturns
          /\ MaxFaults \in 0 .. MaxFaults
    BY BoundsAssumption
  <2> QED
    BY <2>1 DEF Init, Budgets
<1>2. Untouched
  BY DEF Init, Untouched, Idle
<1>3. /\ \A t \in Topic : table[t] = NoTopic /\ plan[t] = NoTopic
      /\ KeysOf(table) = {}
  BY DEF Init, KeysOf
<1>4. Full(table)
  BY <1>3 DEF Full
<1>5. Even(Load(table))
  <2>1. \A n \in Node : Load(table)[n] = 0
    <3> TAKE n \in Node
    <3>1. {k \in KeysOf(table) : n \in PartAt(table, k).replicas} = {}
      BY <1>3
    <3> QED
      BY <3>1, FS_EmptySet DEF Load
  <2> QED
    BY <2>1 DEF Even
<1>6. BalanceInv
  BY <1>3, <1>4, <1>5 DEF BalanceInv, Balanced
<1> QED
  BY <1>1, <1>2, <1>6 DEF LossInv

LEMMA NextLoss ==
    ASSUME IInv, LossInv, OneAtATime, [Next]_vars
    PROVE  LossInv'
<1>1. CASE UNCHANGED vars
  BY <1>1 DEF LossInv, vars, etcdVars, watchVars, roleVars, Untouched, BalanceInv
<1>2. ASSUME NEW n \in Node, Expire(n)
      PROVE  LossInv'
  <2>1. Spend("loss")
    BY <1>2 DEF Expire
  <2>2. budget' \in Budgets /\ budget'.loss # MaxLosses
    BY <2>1, BudgetStep DEF LossInv
  <2> QED
    BY <2>2 DEF LossInv
<1>3. ASSUME Next, ~(\E n \in Node : Expire(n))
      PROVE  LossInv'
  <2>1. budget' = budget \/ Spend("return") \/ Spend("fault")
    BY <1>3 DEF Next, Cluster, Watch, Session, Worker, WorkerCallFails, Filler,
        FillerCallFails, Create, Return, WatchBreaks, Bootstrap, HandleSnapshot,
        HandleEvent, Elected, Deposed, KeepaliveEnds, Recover, Take, List, Remove,
        Choose, Add, Tick, FillerChoose, FillerAdd, CreateTopic, PutTopic, CreateFails
  <2>2. /\ budget' \in Budgets
        /\ budget'.loss = MaxLosses => budget.loss = MaxLosses
    BY <2>1, BudgetStep DEF LossInv
  <2>3. ASSUME budget.loss = MaxLosses PROVE Untouched' /\ BalanceInv'
    <3>1. Untouched /\ BalanceInv
      BY <2>3 DEF LossInv
    <3>2. Untouched' /\ (UNCHANGED <<table, plan>> \/ Create)
      BY <1>3, <3>1, UntouchedStep DEF BalanceInv
    <3>3. BalanceInv'
      BY <3>1, <3>2, BalanceStays, CreateKeepsBalance
    <3> QED
      BY <3>2, <3>3
  <2> QED
    BY <2>2, <2>3 DEF LossInv
<1> QED
  BY <1>1, <1>2, <1>3

\* CreateTopic counts the loads of one view of the cluster, puts each partition
\* on the least loaded nodes of it and moves the counters on.  If topics are
\* created one at a time and no registration was lost, the counters are the
\* loads of the table all along, no partition is short of replicas for the
\* reconcile loop to add, and no node ever takes part in two partitions more
\* than another.
THEOREM SpreadEvenly == Spec => PlacedEvenly
<1>1. IInv /\ LossInv => (budget.loss = MaxLosses => Even(Load(table)))
  BY DEF LossInv, BalanceInv, Balanced
<1> QED
  BY <1>1, InitInv, NextInv, InitLoss, NextLoss, PTL DEF Spec, PlacedEvenly

-----------------------------------------------------------------------------
(* Members.                                                                *)

\* A call or an event that says whether a node is there.
About(e, n) == e.node = n /\ e.kind # "missing"

\* From a place of a queue on, what is said of a node is what is registered.
TrueFrom(q, i, n, there) ==
    \A j \in i .. Len(q) : About(q[j], n) => (q[j].kind = "join" <=> n \in there)

\* Handled to its end, the queue makes of some members the registered nodes: for
\* each node its end says what is registered, or it is right already and nothing
\* wrong is said of it.
LeadsTo(q, these, there) ==
    \A n \in Node :
        \/ (n \in these <=> n \in there) /\ TrueFrom(q, 1, n, there)
        \/ \E i \in 1 .. Len(q) : About(q[i], n) /\ TrueFrom(q, i, n, there)

\* What the handlers make of the members.
Handled(e, these) ==
    IF e.kind = "join" THEN these \cup {e.node}
    ELSE IF e.kind = "leave" THEN these \ {e.node} ELSE these

\* Nothing is left to be handled.
LEMMA NothingLeft ==
    ASSUME NEW these \in SUBSET Node, NEW there \in SUBSET Node, LeadsTo(<<>>, these, there)
    PROVE  these = there
<1>1. 1 .. Len(<<>>) = {}
  OBVIOUS
<1>2. \A n \in Node : n \in these <=> n \in there
  BY <1>1 DEF LeadsTo
<1> QED
  BY <1>2

\* A registration that ends or begins puts its event at the end of the queue.
LEMMA NotifiedLeads ==
    ASSUME NEW q \in Seq(Event), NEW these \in SUBSET Node, NEW there \in SUBSET Node,
           LeadsTo(q, these, there), NEW e \in Event, e.kind # "missing"
    PROVE  LeadsTo(Append(q, e), these, Handled(e, there))
<1> DEFINE p == Append(q, e)
           N == Len(q)
           later == Handled(e, there)
<1>1. /\ N \in Nat /\ Len(p) = N + 1 /\ p[N + 1] = e
      /\ \A i \in 1 .. N : p[i] = q[i]
  OBVIOUS
<1>2. e.node \in Node /\ e.kind \in {"join", "leave"}
  BY DEF Event
<1> HIDE DEF p, N
<1> SUFFICES ASSUME NEW n \in Node
             PROVE  \/ (n \in these <=> n \in later) /\ TrueFrom(p, 1, n, later)
                    \/ \E i \in 1 .. Len(p) : About(p[i], n) /\ TrueFrom(p, i, n, later)
  BY DEF LeadsTo, p
<1>3. CASE n = e.node
  <2>1. About(e, n) /\ (e.kind = "join" <=> n \in later)
    BY <1>2, <1>3 DEF About, Handled
  <2>2. TrueFrom(p, N + 1, n, later)
    BY <1>1, <2>1 DEF TrueFrom
  <2> QED
    BY <1>1, <2>1, <2>2
<1>4. CASE n # e.node
  <2>1. (n \in later <=> n \in there) /\ ~About(e, n)
    BY <1>4 DEF Handled, About
  <2>2. ASSUME NEW i \in 1 .. N + 1, TrueFrom(q, i, n, there) PROVE TrueFrom(p, i, n, later)
    <3> SUFFICES ASSUME NEW j \in i .. Len(p), About(p[j], n)
                 PROVE  p[j].kind = "join" <=> n \in later
      BY DEF TrueFrom
    <3>1. j # N + 1
      BY <1>1, <2>1
    <3>2. j \in i .. N /\ p[j] = q[j]
      BY <1>1, <3>1
    <3> QED
      BY <2>1, <2>2, <3>2 DEF TrueFrom, N
  <2>3. CASE (n \in these <=> n \in there) /\ TrueFrom(q, 1, n, there)
    BY <1>1, <2>1, <2>2, <2>3
  <2>4. ASSUME NEW i \in 1 .. N, About(q[i], n), TrueFrom(q, i, n, there)
        PROVE  \E k \in 1 .. Len(p) : About(p[k], n) /\ TrueFrom(p, k, n, later)
    BY <1>1, <2>2, <2>4
  <2> QED
    BY <2>3, <2>4 DEF LeadsTo, N
<1> QED
  BY <1>3, <1>4

\* The handler takes the first of the queue.
LEMMA HandledLeads ==
    ASSUME NEW q \in Seq(Event), q # <<>>, NEW these \in SUBSET Node,
           NEW there \in SUBSET Node, LeadsTo(q, these, there)
    PROVE  LeadsTo(Tail(q), Handled(Head(q), these), there)
<1> DEFINE p == Tail(q)
           N == Len(q)
           now == Handled(q[1], these)
<1>1. /\ N \in Nat /\ N > 0 /\ Len(p) = N - 1 /\ Head(q) = q[1] /\ q[1] \in Event
      /\ \A i \in 1 .. (N - 1) : p[i] = q[i + 1]
  OBVIOUS
<1>2. q[1].kind \in {"join", "leave", "missing"}
  BY <1>1 DEF Event
<1> HIDE DEF p, N
<1> SUFFICES ASSUME NEW n \in Node
             PROVE  \/ (n \in now <=> n \in there) /\ TrueFrom(p, 1, n, there)
                    \/ \E i \in 1 .. Len(p) : About(p[i], n) /\ TrueFrom(p, i, n, there)
  BY <1>1 DEF LeadsTo, p
<1>3. ASSUME NEW i \in 1 .. N, TrueFrom(q, i, n, there)
      PROVE  /\ TrueFrom(p, IF i = 1 THEN 1 ELSE i - 1, n, there)
             /\ About(q[i], n) => (q[i].kind = "join" <=> n \in there)
  <2>1. About(q[i], n) => (q[i].kind = "join" <=> n \in there)
    BY <1>1, <1>3 DEF TrueFrom, N
  <2>2. ASSUME NEW j \in (IF i = 1 THEN 1 ELSE i - 1) .. Len(p), About(p[j], n)
        PROVE  p[j].kind = "join" <=> n \in there
    <3>1. p[j] = q[j + 1] /\ j + 1 \in i .. N
      BY <1>1
    <3> QED
      BY <1>3, <2>2, <3>1 DEF TrueFrom, N
  <2> QED
    BY <2>1, <2>2 DEF TrueFrom
<1>4. /\ About(q[1], n) => (n \in now <=> q[1].kind = "join")
      /\ ~About(q[1], n) => (n \in now <=> n \in these)
  BY <1>2 DEF About, Handled
<1>5. CASE (n \in these <=> n \in there) /\ TrueFrom(q, 1, n, there)
  <2>1. TrueFrom(p, 1, n, there) /\ (About(q[1], n) => (q[1].kind = "join" <=> n \in there))
    BY <1>1, <1>3, <1>5
  <2> QED
    BY <1>4, <1>5, <2>1
<1>6. ASSUME NEW i \in 1 .. N, About(q[i], n), TrueFrom(q, i, n, there)
      PROVE  \/ (n \in now <=> n \in there) /\ TrueFrom(p, 1, n, there)
             \/ \E k \in 1 .. Len(p) : About(p[k], n) /\ TrueFrom(p, k, n, there)
  <2>1. CASE i = 1
    BY <1>3, <1>4, <1>6, <2>1
  <2>2. CASE i # 1
    <3>1. i - 1 \in 1 .. Len(p) /\ p[i - 1] = q[i]
      BY <1>1, <2>2
    <3>2. TrueFrom(p, i - 1, n, there)
      BY <1>3, <1>6, <2>2
    <3> QED
      BY <1>6, <3>1, <3>2
  <2> QED
    BY <2>1, <2>2
<1> QED
  BY <1>5, <1>6 DEF LeadsTo, N

\* The calls of a snapshot lead from the members to what it shows.
LEMMA SnapshotLeads ==
    ASSUME members \in SUBSET Node, NEW there \in SUBSET Node
    PROVE  /\ SnapshotCalls(there) \in Seq(Event)
           /\ LeadsTo(SnapshotCalls(there), members, there)
<1> DEFINE gone == members \ there
           come == there \ members
           a == CallsFor("leave", gone)
           b == CallsFor("join", come)
           c == IF self \in there THEN <<>> ELSE <<Ev("missing", self)>>
           G == Cardinality(gone)
           C == Cardinality(come)
           q == SnapshotCalls(there)
<1> HIDE DEF a, b, c, G, C, q, gone, come
<1>1. /\ a = [i \in 1 .. G |-> a[i]] /\ G \in Nat
      /\ \A i \in 1 .. G : \E n \in gone : a[i] = Ev("leave", n)
      /\ \A n \in gone : \E i \in 1 .. G : a[i] = Ev("leave", n)
  <2>1. gone \in SUBSET Node /\ a = CallsFor("leave", gone)
    BY DEF a, gone
  <2> QED
    BY <2>1, CallsFacts DEF G
<1>2. /\ b = [i \in 1 .. C |-> b[i]] /\ C \in Nat
      /\ \A i \in 1 .. C : \E n \in come : b[i] = Ev("join", n)
      /\ \A n \in come : \E i \in 1 .. C : b[i] = Ev("join", n)
  <2>1. come \in SUBSET Node /\ b = CallsFor("join", come)
    BY DEF b, come
  <2> QED
    BY <2>1, CallsFacts DEF C
<1>3. q = (a \o b) \o c
  BY DEF SnapshotCalls, q, a, b, c, gone, come
<1>4. gone \subseteq Node /\ come \subseteq Node
  BY DEF gone, come
<1>5. /\ \A n \in Node : Ev("leave", n) \in Event /\ Ev("join", n) \in Event
      /\ Ev("missing", self) \in Event
      /\ \A n \in Node, x \in Node : (About(Ev("leave", x), n) <=> x = n)
                                     /\ (About(Ev("join", x), n) <=> x = n)
      /\ \A n \in Node : ~About(Ev("missing", self), n)
      /\ \A n \in Node : Ev("leave", n).kind = "leave" /\ Ev("join", n).kind = "join"
  BY SelfAssumption DEF Ev, Event, About
<1>6. c \in Seq(Event) /\ \A i \in 1 .. Len(c) : c[i] = Ev("missing", self)
  BY <1>5 DEF c
<1>7. a \in Seq(Event) /\ Len(a) = G
  <2>1. \A i \in 1 .. G : a[i] \in Event
    BY <1>1, <1>4, <1>5
  <2>2. a \in [1 .. G -> Event]
    BY <1>1, <2>1
  <2> QED
    BY <1>1, <2>2
<1>8. b \in Seq(Event) /\ Len(b) = C
  <2>1. \A i \in 1 .. C : b[i] \in Event
    BY <1>2, <1>4, <1>5
  <2>2. b \in [1 .. C -> Event]
    BY <1>2, <2>1
  <2> QED
    BY <1>2, <2>2
<1>9. /\ q \in Seq(Event) /\ Len(q) = G + C + Len(c) /\ Len(c) \in Nat
      /\ \A i \in 1 .. G : q[i] = a[i]
      /\ \A i \in 1 .. C : q[G + i] = b[i]
      /\ \A i \in 1 .. Len(c) : q[G + C + i] = c[i]
  <2>1. /\ a \o b \in Seq(Event) /\ Len(a \o b) = G + C
        /\ \A i \in 1 .. (G + C) : (a \o b)[i] = IF i <= G THEN a[i] ELSE b[i - G]
    BY <1>7, <1>8, ConcatProperties
  <2> DEFINE d == a \o b
  <2>2. /\ d \o c \in Seq(Event) /\ Len(d \o c) = G + C + Len(c) /\ Len(c) \in Nat
        /\ \A i \in 1 .. (G + C + Len(c)) :
             (d \o c)[i] = IF i <= G + C THEN d[i] ELSE c[i - (G + C)]
    BY <1>6, <2>1, ConcatProperties
  <2> HIDE DEF d
  <2>3. q = d \o c
    BY <1>3 DEF d
  <2>4. \A i \in 1 .. (G + C) : d[i] = IF i <= G THEN a[i] ELSE b[i - G]
    BY <2>1 DEF d
  <2>5. \A i \in 1 .. G : q[i] = a[i]
    <3> SUFFICES ASSUME NEW i \in 1 .. G PROVE q[i] = a[i]
      OBVIOUS
    <3>1. i \in 1 .. (G + C) /\ i <= G /\ i \in 1 .. (G + C + Len(c)) /\ i <= G + C
      BY <1>1, <1>2, <2>2
    <3>2. d[i] = a[i]
      BY <2>4, <3>1
    <3>3. q[i] = d[i]
      BY <2>2, <2>3, <3>1
    <3> QED
      BY <3>2, <3>3
  <2>6. \A i \in 1 .. C : q[G + i] = b[i]
    <3> SUFFICES ASSUME NEW i \in 1 .. C PROVE q[G + i] = b[i]
      OBVIOUS
    <3>1. G + i \in 1 .. (G + C) /\ ~(G + i <= G) /\ (G + i) - G = i
      BY <1>1, <1>2
    <3>2. d[G + i] = b[i]
      BY <2>4, <3>1
    <3>3. q[G + i] = d[G + i]
      BY <1>1, <1>2, <2>2, <2>3, <3>1
    <3> QED
      BY <3>2, <3>3
  <2>7. \A i \in 1 .. Len(c) : q[G + C + i] = c[i]
    <3> SUFFICES ASSUME NEW i \in 1 .. Len(c) PROVE q[G + C + i] = c[i]
      OBVIOUS
    <3>1. /\ G + C + i \in 1 .. (G + C + Len(c)) /\ ~(G + C + i <= G + C)
          /\ (G + C + i) - (G + C) = i
      BY <1>1, <1>2, <2>2
    <3> QED
      BY <2>2, <2>3, <3>1
  <2> QED
    BY <2>2, <2>3, <2>5, <2>6, <2>7
<1>10. ASSUME NEW n \in Node, NEW j \in 1 .. Len(q), About(q[j], n)
       PROVE  q[j].kind = "join" <=> n \in there
  <2>1. CASE j \in 1 .. G
    <3>1. PICK x \in gone : q[j] = Ev("leave", x)
      BY <1>1, <1>9, <2>1
    <3>2. x = n
      BY <1>4, <1>5, <1>10, <3>1
    <3> QED
      BY <1>5, <3>1, <3>2 DEF gone
  <2>2. CASE j \in (G + 1) .. (G + C)
    <3>1. j - G \in 1 .. C /\ G + (j - G) = j
      BY <1>1, <1>2, <2>2
    <3>2. PICK x \in come : q[j] = Ev("join", x)
      BY <1>2, <1>9, <3>1
    <3>3. x = n
      BY <1>4, <1>5, <1>10, <3>2
    <3> QED
      BY <1>5, <3>2, <3>3 DEF come
  <2>3. CASE j \in (G + C + 1) .. Len(q)
    <3>1. j - (G + C) \in 1 .. Len(c) /\ G + C + (j - (G + C)) = j
      BY <1>1, <1>2, <1>9, <2>3
    <3>2. q[j] = Ev("missing", self)
      BY <1>6, <1>9, <3>1
    <3> QED
      BY <1>5, <1>10, <3>2
  <2> QED
    BY <1>1, <1>2, <1>9, <2>1, <2>2, <2>3
<1>11. ASSUME NEW n \in Node, n \in gone \cup come
       PROVE  \E i \in 1 .. Len(q) : About(q[i], n)
  <2>1. CASE n \in gone
    <3>1. PICK i \in 1 .. G : a[i] = Ev("leave", n)
      BY <1>1, <2>1
    <3>2. i \in 1 .. Len(q) /\ q[i] = Ev("leave", n)
      BY <1>1, <1>2, <1>9, <3>1
    <3> QED
      BY <1>5, <3>2
  <2>2. CASE n \in come
    <3>1. PICK i \in 1 .. C : b[i] = Ev("join", n)
      BY <1>2, <2>2
    <3>2. G + i \in 1 .. Len(q) /\ q[G + i] = Ev("join", n)
      BY <1>1, <1>2, <1>9, <3>1
    <3> QED
      BY <1>5, <3>2
  <2> QED
    BY <1>11, <2>1, <2>2
<1>12. ASSUME NEW n \in Node, NEW i \in 1 .. Len(q) PROVE TrueFrom(q, i, n, there)
  BY <1>9, <1>10 DEF TrueFrom
<1>13. \A n \in Node : TrueFrom(q, 1, n, there)
  BY <1>10 DEF TrueFrom
<1>14. LeadsTo(q, members, there)
  BY <1>11, <1>12, <1>13 DEF LeadsTo, gone, come
<1> QED
  BY <1>9, <1>14 DEF q

\* Two queues, of which the first is handled first.
LEMMA TwoQueues ==
    ASSUME NEW s \in Seq(Event), NEW t \in Seq(Event)
    PROVE  /\ s \o t \in Seq(Event)
           /\ s = <<>> => s \o t = t
           /\ t = <<>> => s \o t = s
           /\ s # <<>> => s \o t # <<>> /\ Head(s \o t) = Head(s) /\ Tail(s \o t) = Tail(s) \o t
           /\ \A e \in Event : s \o Append(t, e) = Append(s \o t, e)
  OBVIOUS

\* As long as the watch stands, what is queued leads from the members to the
\* registered nodes; without it nothing is queued.
MemberInv ==
    /\ registered \in SUBSET Node /\ members \in SUBSET Node
    /\ calls \in Seq(Event) /\ events \in Seq(Event)
    /\ watching \in BOOLEAN
    /\ ~watching => calls = <<>> /\ events = <<>>
    /\ watching => LeadsTo(calls \o events, members, registered)

\* A node registers, or its registration ends.
LEMMA NotifyStep ==
    ASSUME MemberInv, NEW kind \in {"join", "leave"}, NEW n \in Node, Notify(kind, n),
           registered' = Handled(Ev(kind, n), registered),
           UNCHANGED <<watching, calls, members>>
    PROVE  MemberInv'
<1> DEFINE e == Ev(kind, n)
<1>1. e \in Event /\ e.kind # "missing" /\ e.node \in Node
  BY DEF Ev, Event
<1> HIDE DEF e
<1>2. registered' \in SUBSET Node
  BY <1>1 DEF Handled, MemberInv, e
<1>3. CASE watching
  <2>1. events' = Append(events, e)
    BY <1>3 DEF Notify, e
  <2>2. calls \o events \in Seq(Event) /\ calls' \o events' = Append(calls \o events, e)
    BY <1>1, <2>1, TwoQueues DEF MemberInv
  <2>3. LeadsTo(Append(calls \o events, e), members, Handled(e, registered))
    BY <1>1, <1>3, <2>2, NotifiedLeads DEF MemberInv
  <2>4. events' \in Seq(Event)
    BY <1>1, <2>1 DEF MemberInv
  <2> QED
    BY <1>2, <1>3, <2>2, <2>3, <2>4 DEF MemberInv, e
<1>4. CASE ~watching
  BY <1>2, <1>4 DEF Notify, MemberInv
<1> QED
  BY <1>3, <1>4 DEF MemberInv

\* What the handlers do with the members.
LEMMA HandleMembers ==
    ASSUME MemberInv, NEW e \in Event, Handle(e)
    PROVE  members' = Handled(e, members) /\ members' \in SUBSET Node
<1>1. e.kind \in {"join", "leave", "missing"} /\ e.node \in Node
  BY DEF Event
<1>2. members' = Handled(e, members)
  BY <1>1 DEF Handle, Handled
<1> QED
  BY <1>1, <1>2 DEF Handled, MemberInv

LEMMA WatchStep ==
    ASSUME MemberInv, Watch
    PROVE  MemberInv'
<1>1. /\ calls \in Seq(Event) /\ events \in Seq(Event)
      /\ members \in SUBSET Node /\ registered \in SUBSET Node
  BY DEF MemberInv
<1>2. CASE Bootstrap
  <2>1. /\ calls' = SnapshotCalls(registered) /\ watching' = TRUE /\ events' = <<>>
        /\ UNCHANGED <<registered, members>>
    BY <1>2 DEF Bootstrap, etcdVars, MemberInv
  <2>2. calls' \in Seq(Event) /\ LeadsTo(calls', members, registered)
    BY <1>1, <2>1, SnapshotLeads
  <2>3. calls' \o events' = calls' /\ events' \in Seq(Event)
    BY <1>1, <2>1, <2>2, TwoQueues
  <2> QED
    BY <1>1, <2>1, <2>2, <2>3 DEF MemberInv
<1>3. CASE HandleSnapshot
  <2>1. /\ calls # <<>> /\ Handle(Head(calls)) /\ calls' = Tail(calls)
        /\ UNCHANGED <<registered, watching, events>>
    BY <1>3 DEF HandleSnapshot, etcdVars
  <2>2. Head(calls) \in Event /\ calls' \in Seq(Event) /\ watching
    BY <1>1, <2>1 DEF MemberInv
  <2>3. members' = Handled(Head(calls), members) /\ members' \in SUBSET Node
    BY <2>1, <2>2, HandleMembers
  <2>4. /\ calls \o events \in Seq(Event) /\ calls \o events # <<>>
        /\ Head(calls \o events) = Head(calls)
        /\ Tail(calls \o events) = calls' \o events'
    BY <1>1, <2>1, TwoQueues
  <2>5. LeadsTo(calls' \o events', members', registered)
    BY <1>1, <2>2, <2>3, <2>4, HandledLeads DEF MemberInv
  <2> QED
    BY <1>1, <2>1, <2>2, <2>3, <2>5 DEF MemberInv
<1>4. CASE HandleEvent
  <2>1. /\ calls = <<>> /\ events # <<>> /\ Handle(Head(events)) /\ events' = Tail(events)
        /\ UNCHANGED <<registered, watching, calls>>
    BY <1>4 DEF HandleEvent, etcdVars
  <2>2. Head(events) \in Event /\ events' \in Seq(Event) /\ watching
    BY <1>1, <2>1 DEF MemberInv
  <2>3. members' = Handled(Head(events), members) /\ members' \in SUBSET Node
    BY <2>1, <2>2, HandleMembers
  <2>4. calls \o events = events /\ calls' \o events' = events'
    BY <1>1, <2>1, <2>2, TwoQueues
  <2>5. LeadsTo(events', members', registered)
    BY <1>1, <2>1, <2>2, <2>3, <2>4, HandledLeads DEF MemberInv
  <2> QED
    BY <1>1, <2>1, <2>2, <2>3, <2>4, <2>5 DEF MemberInv
<1> QED
  BY <1>2, <1>3, <1>4 DEF Watch

LEMMA MemberStep == MemberInv /\ [Next]_vars => MemberInv'
<1> SUFFICES ASSUME MemberInv, [Next]_vars PROVE MemberInv'
  OBVIOUS
<1>1. CASE UNCHANGED <<registered, watchVars>>
  BY <1>1 DEF MemberInv, watchVars
<1>2. ASSUME NEW n \in Node, Expire(n) PROVE MemberInv'
  <2>1. /\ Notify("leave", n) /\ registered' = Handled(Ev("leave", n), registered)
        /\ UNCHANGED <<watching, calls, members>>
    BY <1>2 DEF Expire, Handled, Ev
  <2> QED
    BY <2>1, NotifyStep
<1>3. ASSUME NEW n \in Node, Return(n) PROVE MemberInv'
  <2>1. /\ Notify("join", n) /\ registered' = Handled(Ev("join", n), registered)
        /\ UNCHANGED <<watching, calls, members>>
    BY <1>3 DEF Return, Handled, Ev
  <2> QED
    BY <2>1, NotifyStep
<1>4. CASE WatchBreaks
  <2>1. <<>> \in Seq(Event)
    OBVIOUS
  <2> QED
    BY <1>4, <2>1 DEF WatchBreaks, MemberInv, etcdVars
<1>5. CASE Watch
  BY <1>5, WatchStep
<1>6. CASE Session
  <2>1. CASE Recover
    <3>1. /\ Notify("join", self) /\ registered' = Handled(Ev("join", self), registered)
          /\ UNCHANGED <<watching, calls, members>>
      BY <2>1 DEF Recover, Handled, Ev
    <3> QED
      BY <3>1, NotifyStep, SelfAssumption
  <2>2. CASE Elected \/ Deposed \/ KeepaliveEnds
    BY <1>1, <2>2 DEF Elected, Deposed, KeepaliveEnds, etcdVars
  <2> QED
    BY <1>6, <2>1, <2>2 DEF Session
<1>7. CASE Worker \/ WorkerCallFails
  BY <1>1, <1>7 DEF Worker, Take, List, Remove, Choose, Add, WorkerCallFails, etcdVars
<1>8. CASE Filler \/ FillerCallFails
  BY <1>1, <1>8 DEF Filler, Tick, FillerChoose, FillerAdd, FillerCallFails, etcdVars
<1>9. CASE Create
  BY <1>1, <1>9 DEF Create, CreateTopic, PutTopic, CreateFails, etcdVars
<1>10. CASE UNCHANGED vars
  BY <1>1, <1>10 DEF vars, etcdVars
<1> QED
  BY <1>2, <1>3, <1>4, <1>5, <1>6, <1>7, <1>8, <1>9, <1>10 DEF Next, Cluster

\* diffMembers and the events of the watch that begins behind the snapshot make
\* up for whatever the node missed, through any number of broken watches: with
\* the queues empty the members are the registered nodes.
THEOREM MembersAreRegistered == Spec => []MembersSettle
<1>1. Init => MemberInv
  <2>1. <<>> \in Seq(Event)
    OBVIOUS
  <2> QED
    BY <2>1 DEF Init, MemberInv
<1>2. MemberInv => MembersSettle
  <2> SUFFICES ASSUME MemberInv, watching, calls = <<>>, events = <<>>
               PROVE  members = registered
    BY DEF MembersSettle
  <2>1. calls \o events = <<>>
    OBVIOUS
  <2>2. LeadsTo(<<>>, members, registered)
    BY <2>1 DEF MemberInv
  <2> QED
    BY <2>2, NothingLeft DEF MemberInv
<1> QED
  BY <1>1, <1>2, MemberStep, PTL DEF Spec

=============================================================================
