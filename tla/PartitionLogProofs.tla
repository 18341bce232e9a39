-------------------------- MODULE PartitionLogProofs --------------------------
(***************************************************************************)
(* Theorems about PartitionLog, for every size of a segment and every      *)
(* number of appends, failed operations and crashes.                       *)
(***************************************************************************)
EXTENDS PartitionLog, SequenceTheorems, FiniteSetTheorems,
        WellFoundedInduction, TLAPS

-----------------------------------------------------------------------------
(* Sets of numbers in their order.                                         *)

\* A set of numbers has a least one.
LEMMA NatMin ==
    ASSUME NEW S, S \subseteq Nat, S # {}
    PROVE  \E x \in S : \A y \in S : x <= y
<1> DEFINE R == {ss \in Nat \X Nat : ss[1] < ss[2]}
<1>1. IsWellFoundedOn(R, Nat)
  BY NatLessThanWellFounded DEF OpToRel
<1>2. \A x, y \in Nat : <<y, x>> \in R <=> y < x
  <2> TAKE x, y \in Nat
  <2>1. <<y, x>> \in Nat \X Nat /\ <<y, x>>[1] = y /\ <<y, x>>[2] = x
    OBVIOUS
  <2>2. <<y, x>> \in R <=> <<y, x>>[1] < <<y, x>>[2]
    BY <2>1
  <2> QED
    BY <2>1, <2>2
<1> HIDE DEF R
<1>3. PICK x \in S : \A y \in S : ~(<<y, x>> \in R)
  BY <1>1, WFMin
<1>4. \A y \in S : ~(y < x)
  BY <1>2, <1>3
<1> QED
  BY <1>4

\* The place of a number in a set.
Place(S, x) == Cardinality({y \in S : y <= x})

\* Places are numbers from 1 on, in the order of the numbers, and none is left out.
LEMMA PlaceFacts ==
    ASSUME NEW S, S \subseteq Nat, IsFiniteSet(S)
    PROVE  /\ Cardinality(S) \in Nat
           /\ \A x \in S : Place(S, x) \in 1 .. Cardinality(S)
           /\ \A x, y \in S : x < y => Place(S, x) < Place(S, y)
           /\ \A n \in 1 .. Cardinality(S) : \E x \in S : Place(S, x) = n
<1> DEFINE Upto(x) == {y \in S : y <= x}
           N == Cardinality(S)
           place == [x \in S |-> Place(S, x)]
<1>1. N \in Nat
  BY FS_CardinalityType
<1>2. \A x : Place(S, x) = Cardinality(Upto(x)) /\ Upto(x) \in SUBSET S
  BY DEF Place
<1>3. \A x \in S : x \in Upto(x)
  OBVIOUS
<1>4. \A x \in S, y \in S : x < y => Upto(x) \in SUBSET Upto(y) /\ y \notin Upto(x)
  <2> TAKE x \in S, y \in S
  <2> HAVE x < y
  <2>1. x \in Nat /\ y \in Nat
    OBVIOUS
  <2>2. \A z \in S : z <= x => z <= y
    BY <2>1
  <2>3. ~(y <= x)
    BY <2>1
  <2> QED
    BY <2>2, <2>3
<1> HIDE DEF Upto, N
<1>5. \A x : /\ IsFiniteSet(Upto(x)) /\ Cardinality(Upto(x)) \in Nat
             /\ Cardinality(Upto(x)) <= N
  <2> TAKE x
  <2>1. IsFiniteSet(Upto(x)) /\ Cardinality(Upto(x)) <= N
    BY <1>2, FS_Subset DEF N
  <2> QED
    BY <2>1, FS_CardinalityType
<1>6. \A x \in S : Place(S, x) \in 1 .. N
  <2> TAKE x \in S
  <2>1. Cardinality(Upto(x)) # 0
    BY <1>3, <1>5, FS_EmptySet
  <2> QED
    BY <1>1, <1>2, <1>5, <2>1
<1>7. \A x, y \in S : x < y => Place(S, x) < Place(S, y)
  <2> TAKE x, y \in S
  <2> HAVE x < y
  <2>1. Upto(x) \in SUBSET Upto(y) /\ y \notin Upto(x) /\ y \in Upto(y)
    BY <1>3, <1>4
  <2>2. /\ Cardinality(Upto(x)) <= Cardinality(Upto(y))
        /\ Cardinality(Upto(x)) = Cardinality(Upto(y)) => Upto(x) = Upto(y)
    BY <1>5, <2>1, FS_Subset
  <2> QED
    BY <1>2, <1>5, <2>1, <2>2
<1>8. \A x, y \in S : x # y => Place(S, x) # Place(S, y)
  <2> TAKE x, y \in S
  <2> HAVE x # y
  <2>1. x < y \/ y < x
    OBVIOUS
  <2>2. Place(S, x) \in Nat /\ Place(S, y) \in Nat
    BY <1>1, <1>6
  <2> QED
    BY <1>7, <2>1, <2>2
<1>9. place \in Injection(S, 1 .. N)
  BY <1>6, <1>8 DEF Injection, IsInjective
<1>10. IsFiniteSet(1 .. N) /\ Cardinality(1 .. N) = N
  <2>1. IsFiniteSet(1 .. N) /\ Cardinality(1 .. N) = IF 1 > N THEN 0 ELSE N - 1 + 1
    BY <1>1, FS_Interval
  <2> QED
    BY <1>1, <2>1
<1>11. place \in Surjection(S, 1 .. N)
  BY <1>9, <1>10, FS_Injection DEF N
<1>12. \A n \in 1 .. N : \E x \in S : place[x] = n
  BY <1>11 DEF Surjection
<1>13. \A n \in 1 .. N : \E x \in S : Place(S, x) = n
  BY <1>12
<1> QED
  BY <1>1, <1>6, <1>7, <1>13 DEF N

\* InOrder lists all of the set, each number once.
LEMMA InOrderFacts ==
    ASSUME NEW S, S \subseteq Nat, IsFiniteSet(S)
    PROVE  /\ Cardinality(S) \in Nat
           /\ InOrder(S) \in [1 .. Cardinality(S) -> S]
           /\ \A m, n \in 1 .. Cardinality(S) : m < n => InOrder(S)[m] < InOrder(S)[n]
           /\ \A x \in S : \E n \in 1 .. Cardinality(S) : InOrder(S)[n] = x
<1> DEFINE N == Cardinality(S)
           At(n) == CHOOSE x \in S : Place(S, x) = n
<1>1. /\ N \in Nat
      /\ \A x \in S : Place(S, x) \in 1 .. N
      /\ \A x, y \in S : x < y => Place(S, x) < Place(S, y)
      /\ \A n \in 1 .. N : \E x \in S : Place(S, x) = n
  BY PlaceFacts
<1>2. InOrder(S) = [n \in 1 .. N |-> At(n)]
  BY DEF InOrder, Place
<1>3. \A n \in 1 .. N : At(n) \in S /\ Place(S, At(n)) = n
  BY <1>1
<1> HIDE DEF N, At
<1>4. \A m, n \in 1 .. N : m < n => At(m) < At(n)
  <2> TAKE m, n \in 1 .. N
  <2> HAVE m < n
  <2>1. /\ At(m) \in S /\ At(n) \in S
        /\ Place(S, At(m)) = m /\ Place(S, At(n)) = n
    BY <1>3
  <2>2. At(n) < At(m) => n < m
    BY <1>1, <2>1
  <2>3. At(n) # At(m)
    BY <1>1, <2>1
  <2>4. At(m) \in Nat /\ At(n) \in Nat
    BY <2>1
  <2>5. m \in Nat /\ n \in Nat
    BY <1>1
  <2> QED
    BY <2>2, <2>3, <2>4, <2>5
<1>5. \A x \in S : \E n \in 1 .. N : At(n) = x
  <2> TAKE x \in S
  <2>1. Place(S, x) \in 1 .. N
    BY <1>1
  <2> DEFINE n == Place(S, x)
  <2>2. At(n) \in S /\ Place(S, At(n)) = n
    BY <1>3, <2>1
  <2>3. n \in Nat
    BY <1>1, <2>1
  <2> HIDE DEF n
  <2>4. At(n) < x => n < n
    BY <1>1, <2>2 DEF n
  <2>5. x < At(n) => n < n
    BY <1>1, <2>2 DEF n
  <2>6. At(n) \in Nat /\ x \in Nat
    BY <2>2
  <2>7. At(n) = x
    BY <2>3, <2>4, <2>5, <2>6
  <2> QED
    BY <2>1, <2>7 DEF n
<1> QED
  BY <1>1, <1>2, <1>3, <1>4, <1>5 DEF N

-----------------------------------------------------------------------------
(* Segments.                                                               *)

\* The records of n offsets from base on, of a log with these values.
Slice(values, base, n) == [i \in 1 .. n |-> [off |-> base + i - 1, val |-> values[base + i]]]

\* The handle of a segment with n records.
Handle(base, n, open) ==
    [next |-> base + n, index |-> [o \in base .. (base + n - 1) |-> o - base],
     size |-> n, open |-> open]

Fits(values, base, n) ==
    values \in Seq(Nat) /\ base \in Nat /\ n \in Nat /\ base + n <= Len(values)

\* A sequence with the records of n offsets from base on.
Holds(s, values, base, n) ==
    /\ s \in Seq(Entry) /\ Len(s) = n
    /\ \A i \in 1 .. n : s[i] = [off |-> base + i - 1, val |-> values[base + i]]

\* A slice is made of entries, with the offsets from base on.
LEMMA SliceIs ==
    ASSUME NEW values, NEW base, NEW n, Fits(values, base, n)
    PROVE  /\ Holds(Slice(values, base, n), values, base, n)
           /\ DOMAIN Slice(values, base, n) = 1 .. n
           /\ \A i \in 1 .. n : values[base + i] \in Nat
<1> DEFINE s == Slice(values, base, n)
<1>1. /\ values \in Seq(Nat) /\ base \in Nat /\ n \in Nat
      /\ Len(values) \in Nat /\ base + n <= Len(values)
  BY DEF Fits
<1>2. \A i \in 1 .. n : base + i \in 1 .. Len(values)
  BY <1>1
<1>3. \A i \in 1 .. n : values[base + i] \in Nat
  BY <1>1, <1>2, ElementOfSeq
<1>4. \A i \in 1 .. n : [off |-> base + i - 1, val |-> values[base + i]] \in Entry
  BY <1>1, <1>3 DEF Entry
<1>5. /\ s \in [1 .. n -> Entry] /\ DOMAIN s = 1 .. n
      /\ \A i \in 1 .. n : s[i] = [off |-> base + i - 1, val |-> values[base + i]]
  BY <1>4 DEF Slice
<1> HIDE DEF s
<1>6. s \in Seq(Entry) /\ Len(s) = n
  BY <1>1, <1>5
<1> QED
  BY <1>3, <1>5, <1>6 DEF s, Holds

\* The same records in the same order.
LEMMA IsSlice ==
    ASSUME NEW values, NEW base, NEW n, Fits(values, base, n),
           NEW s, Holds(s, values, base, n)
    PROVE  s = Slice(values, base, n)
<1> DEFINE t == Slice(values, base, n)
<1>1. Holds(t, values, base, n)
  BY SliceIs
<1> HIDE DEF t
<1>2. /\ s \in Seq(Entry) /\ t \in Seq(Entry) /\ Len(s) = Len(t)
      /\ \A i \in 1 .. Len(s) : s[i] = t[i]
  BY <1>1 DEF Holds
<1>3. s = t
  BY <1>2, SeqEqual
<1> QED
  BY <1>3 DEF t

\* A log that grows, or loses its end, has the same slices before.
LEMMA SameSlice ==
    ASSUME NEW values, NEW other, NEW base, NEW n,
           Fits(values, base, n), Fits(other, base, n),
           \A i \in 1 .. base + n : other[i] = values[i]
    PROVE  Slice(other, base, n) = Slice(values, base, n)
<1>1. \A i \in 1 .. n : base + i \in 1 .. base + n
  BY DEF Fits
<1>2. \A i \in 1 .. n : other[base + i] = values[base + i]
  BY <1>1
<1> QED
  BY <1>2 DEF Slice

\* The slice with the record that is appended.
LEMMA LongerSlice ==
    ASSUME NEW values \in Seq(Nat), NEW base \in Nat, NEW n \in Nat,
           base + n = Len(values), NEW x \in Nat
    PROVE  /\ Fits(Append(values, x), base, n + 1)
           /\ Append(Slice(values, base, n), [off |-> base + n, val |-> x])
                = Slice(Append(values, x), base, n + 1)
<1> DEFINE more == Append(values, x)
           rec == [off |-> base + n, val |-> x]
           old == Slice(values, base, n)
           s == Append(old, rec)
<1>1. /\ more \in Seq(Nat) /\ Len(more) = Len(values) + 1
      /\ \A i \in 1 .. Len(values) : more[i] = values[i]
      /\ more[Len(values) + 1] = x
  BY AppendProperties
<1>2. Fits(more, base, n + 1) /\ Fits(values, base, n)
  BY <1>1 DEF Fits
<1> HIDE DEF more
<1>3. Holds(old, values, base, n)
  BY <1>2, SliceIs
<1>4. rec \in Entry
  BY DEF Entry
<1> HIDE DEF old, rec
<1>5. /\ s \in Seq(Entry) /\ Len(s) = n + 1
      /\ \A i \in 1 .. n : s[i] = old[i]
      /\ s[n + 1] = rec
  BY <1>3, <1>4, AppendProperties DEF Holds
<1> HIDE DEF s
<1>6. \A i \in 1 .. n + 1 : s[i] = [off |-> base + i - 1, val |-> more[base + i]]
  <2> TAKE i \in 1 .. n + 1
  <2>1. CASE i \in 1 .. n
    <3>1. base + i \in 1 .. Len(values)
      BY <2>1
    <3>2. more[base + i] = values[base + i]
      BY <1>1, <3>1
    <3> QED
      BY <1>3, <1>5, <2>1, <3>2 DEF Holds
  <2>2. CASE i = n + 1
    <3>1. base + i = Len(values) + 1 /\ base + i - 1 = base + n
      BY <2>2
    <3> QED
      BY <1>1, <1>5, <2>2, <3>1 DEF rec
  <2> QED
    BY <2>1, <2>2
<1>7. Holds(s, more, base, n + 1)
  BY <1>5, <1>6 DEF Holds
<1>8. s = Slice(more, base, n + 1)
  BY <1>2, <1>7, IsSlice
<1> QED
  BY <1>2, <1>8 DEF s, old, rec, more

\* The slice without its last record.
LEMMA ShorterSlice ==
    ASSUME NEW values, NEW base, NEW n, Fits(values, base, n), n # 0
    PROVE  Cut(Slice(values, base, n), n - 1) = Slice(values, base, n - 1)
<1> DEFINE s == Slice(values, base, n)
           t == SubSeq(s, 1, n - 1)
<1>1. values \in Seq(Nat) /\ base \in Nat /\ n \in Nat /\ n - 1 \in Nat
        /\ Fits(values, base, n - 1) /\ 1 \in Int /\ n - 1 \in Int
  BY DEF Fits
<1>2. /\ s \in Seq(Entry) /\ Len(s) = n
      /\ \A i \in 1 .. n : s[i] = [off |-> base + i - 1, val |-> values[base + i]]
  BY SliceIs DEF Holds
<1> HIDE DEF s
<1>3. \A i \in 1 .. n - 1 : s[i] \in Entry
  BY <1>1, <1>2
<1>4. /\ t \in Seq(Entry)
      /\ Len(t) = IF 1 <= n - 1 THEN (n - 1) - 1 + 1 ELSE 0
      /\ \A i \in 1 .. (n - 1) - 1 + 1 : t[i] = s[1 + i - 1]
  BY <1>1, <1>3, SubSeqProperties
<1> HIDE DEF t
<1>5. Len(t) = n - 1 /\ \A i \in 1 .. n - 1 : t[i] = s[i]
  BY <1>1, <1>4
<1>6. \A i \in 1 .. n - 1 : t[i] = [off |-> base + i - 1, val |-> values[base + i]]
  BY <1>1, <1>2, <1>5
<1>7. t = Slice(values, base, n - 1)
  <2>1. Holds(t, values, base, n - 1)
    BY <1>4, <1>5, <1>6 DEF Holds
  <2> QED
    BY <1>1, <2>1, IsSlice
<1> DEFINE zeros == [i \in 1 .. ((n - 1) - Len(s)) |-> [off |-> 0, val |-> Torn]]
<1>8. zeros = <<>>
  <2>1. 1 .. ((n - 1) - Len(s)) = {}
    BY <1>1, <1>2
  <2> QED
    BY <2>1
<1>9. Cut(s, n - 1) = t \o zeros
  BY DEF Cut, t
<1> HIDE DEF zeros
<1>10. t \o <<>> = t
  BY <1>4, ConcatEmptySeq
<1> QED
  BY <1>7, <1>8, <1>9, <1>10 DEF s

\* A file of whole records is recovered as it is.
LEMMA WholeSlice ==
    ASSUME NEW values, NEW base, NEW n, Fits(values, base, n)
    PROVE  Whole(Slice(values, base, n)) = Slice(values, base, n)
<1> DEFINE s == Slice(values, base, n)
<1>1. Holds(s, values, base, n) /\ \A i \in 1 .. n : values[base + i] \in Nat
  BY SliceIs
<1> HIDE DEF s
<1>2. n \in Nat
  BY DEF Fits
<1>3. s # <<>> => n \in 1 .. n /\ Last(s) = s[n]
  BY <1>1, <1>2, EmptySeq DEF Holds, Last
<1>4. s # <<>> => Last(s).val \in Nat
  BY <1>1, <1>3 DEF Holds
<1>5. Whole(s) = s
  BY <1>4, TornAssumption DEF Whole
<1> QED
  BY <1>5 DEF s

\* From a file that ends in a torn record, that record is cut.
LEMMA WholeTorn ==
    ASSUME NEW s \in Seq(Entry), NEW torn \in Entry, torn.val = Torn
    PROVE  Whole(Append(s, torn)) = s
<1> DEFINE t == Append(s, torn)
           u == SubSeq(t, 1, Len(t) - 1)
<1>1. /\ t \in Seq(Entry) /\ Len(t) = Len(s) + 1 /\ t # <<>>
      /\ \A i \in 1 .. Len(s) : t[i] = s[i]
      /\ t[Len(s) + 1] = torn
  BY AppendProperties
<1>2. Len(s) \in Nat /\ 1 \in Int
  BY LenProperties
<1> HIDE DEF t
<1>3. Whole(t) = u
  <2>1. Last(t).val = Torn /\ Front(t) = u
    BY <1>1, <1>2 DEF Last, Front
  <2> QED
    BY <1>1, <2>1 DEF Whole
<1>4. Len(t) - 1 = Len(s) /\ Len(s) \in Int
  BY <1>1, <1>2
<1>5. \A i \in 1 .. Len(s) : t[i] \in Entry
  BY <1>1, ElementOfSeq
<1>6. /\ u \in Seq(Entry)
      /\ Len(u) = IF 1 <= Len(s) THEN Len(s) - 1 + 1 ELSE 0
      /\ \A i \in 1 .. Len(s) - 1 + 1 : u[i] = t[1 + i - 1]
  BY <1>2, <1>4, <1>5, SubSeqProperties
<1> HIDE DEF u
<1>7. Len(u) = Len(s) /\ \A i \in 1 .. Len(u) : u[i] = s[i]
  BY <1>1, <1>2, <1>6
<1>8. u = s
  BY <1>6, <1>7, SeqEqual
<1> QED
  BY <1>3, <1>8 DEF t

\* recoverIndex finds the position of each record.
LEMMA NewSegmentIs ==
    ASSUME NEW values, NEW base, NEW n, Fits(values, base, n),
           NEW content, Whole(content) = Slice(values, base, n)
    PROVE  NewSegment(base, content) = Handle(base, n, TRUE)
<1> DEFINE s == Slice(values, base, n)
           offsets == {s[i].off : i \in DOMAIN s}
<1>1. base \in Nat /\ n \in Nat
  BY DEF Fits
<1>2. /\ s \in Seq(Entry) /\ Len(s) = n /\ DOMAIN s = 1 .. n
      /\ \A i \in 1 .. n : s[i] = [off |-> base + i - 1, val |-> values[base + i]]
  BY SliceIs DEF Holds
<1>3. NewSegment(base, content) =
        [next  |-> IF s = <<>> THEN base ELSE Last(s).off + 1,
         index |-> [o \in offsets |-> PositionOf(s, o)],
         size  |-> Len(s),
         open  |-> TRUE]
  BY DEF NewSegment
<1> HIDE DEF s
<1>4. \A i \in 1 .. n : s[i].off = base + i - 1
  BY <1>2
<1>5. offsets = base .. (base + n - 1)
  <2>1. ASSUME NEW o \in offsets PROVE o \in base .. (base + n - 1)
    <3>1. PICK i \in 1 .. n : o = s[i].off
      BY <1>2
    <3> QED
      BY <1>1, <1>4, <3>1
  <2>2. ASSUME NEW o \in base .. (base + n - 1) PROVE o \in offsets
    <3>1. o - base + 1 \in 1 .. n /\ o = base + (o - base + 1) - 1
      BY <1>1
    <3>2. s[o - base + 1].off = o
      BY <1>4, <3>1
    <3> QED
      BY <1>2, <3>1, <3>2
  <2> QED
    BY <2>1, <2>2
<1>6. ASSUME NEW o \in base .. (base + n - 1) PROVE PositionOf(s, o) = o - base
  <2> DEFINE at == {i \in DOMAIN s : s[i].off = o}
  <2>1. at = {o - base + 1}
    <3>1. o - base + 1 \in 1 .. n /\ o = base + (o - base + 1) - 1
      BY <1>1
    <3>2. \A i \in 1 .. n : s[i].off = o <=> i = o - base + 1
      BY <1>1, <1>4
    <3> QED
      BY <1>2, <3>1, <3>2
  <2>2. PositionOf(s, o) = Max(at) - 1
    BY DEF PositionOf
  <2> HIDE DEF at
  <2>3. Max(at) = o - base + 1
    BY <1>1, <2>1 DEF Max
  <2> QED
    BY <1>1, <2>2, <2>3
<1>7. [o \in offsets |-> PositionOf(s, o)] = [o \in base .. (base + n - 1) |-> o - base]
  BY <1>5, <1>6
<1>8. (IF s = <<>> THEN base ELSE Last(s).off + 1) = base + n
  <2>1. CASE n = 0
    <3>1. s = <<>>
      BY <1>2, <2>1, EmptySeq
    <3> QED
      BY <1>1, <2>1, <3>1
  <2>2. CASE n # 0
    <3>1. s # <<>> /\ n \in 1 .. n /\ Last(s) = s[n]
      BY <1>1, <1>2, <2>2, EmptySeq DEF Last
    <3>2. s[n].off = base + n - 1
      BY <1>4, <3>1
    <3> QED
      BY <1>1, <3>1, <3>2
  <2> QED
    BY <2>1, <2>2
<1> QED
  BY <1>2, <1>3, <1>7, <1>8 DEF Handle

\* A new file has no record.
LEMMA NewFileIs ==
    ASSUME NEW values \in Seq(Nat), NEW base \in Nat, base <= Len(values)
    PROVE  /\ Fits(values, base, 0)
           /\ Slice(values, base, 0) = <<>>
           /\ NewSegment(base, <<>>) = Handle(base, 0, TRUE)
<1>1. Fits(values, base, 0)
  BY LenProperties DEF Fits
<1>2. Slice(values, base, 0) = <<>>
  BY DEF Slice
<1>3. Whole(<<>>) = <<>>
  BY DEF Whole
<1> QED
  BY <1>1, <1>2, <1>3, NewSegmentIs

\* Append counts and indexes the new record.
LEMMA HandleAppended ==
    ASSUME NEW base \in Nat, NEW n \in Nat, NEW q \in BOOLEAN
    PROVE  Appended(Handle(base, n, q), base + n) = Handle(base, n + 1, q)
<1> DEFINE h == Handle(base, n, q)
           indexes == base .. (base + n - 1)
<1>1. /\ h.next = base + n /\ h.size = n /\ h.open = q
      /\ h.index = [o \in indexes |-> o - base]
  BY DEF Handle
<1>2. DOMAIN h.index \cup {base + n} = base .. (base + (n + 1) - 1)
  BY <1>1
<1>3. \A o \in base .. (base + (n + 1) - 1) :
        (IF o = base + n THEN h.size ELSE h.index[o]) = o - base
  BY <1>1
<1>4. Appended(h, base + n) =
        [next  |-> (base + n) + 1,
         index |-> [o \in DOMAIN h.index \cup {base + n} |->
                      IF o = base + n THEN h.size ELSE h.index[o]],
         size  |-> h.size + 1,
         open  |-> h.open]
  BY DEF Appended
<1> HIDE DEF h
<1>5. [o \in DOMAIN h.index \cup {base + n} |->
                      IF o = base + n THEN h.size ELSE h.index[o]]
        = [o \in base .. (base + (n + 1) - 1) |-> o - base]
  BY <1>2, <1>3
<1>6. (base + n) + 1 = base + (n + 1) /\ h.size + 1 = n + 1 /\ h.open = q
  BY <1>1
<1>7. Appended(h, base + n) = Handle(base, n + 1, q)
  BY <1>4, <1>5, <1>6 DEF Handle
<1> QED
  BY <1>7 DEF h

\* TruncateFrom forgets the last record.
LEMMA HandleTruncated ==
    ASSUME NEW base \in Nat, NEW n \in Nat \ {0}, NEW q \in BOOLEAN
    PROVE  /\ Handle(base, n, q).index[base + n - 1] = n - 1
           /\ Truncated(Handle(base, n, q), base + n - 1) = Handle(base, n - 1, q)
<1> DEFINE h == Handle(base, n, q)
           off == base + n - 1
           left == {x \in DOMAIN h.index : x < off}
<1>1. /\ h.next = base + n /\ h.size = n /\ h.open = q
      /\ h.index = [o \in base .. off |-> o - base]
  BY DEF Handle
<1>2. left = base .. (base + (n - 1) - 1)
  BY <1>1
<1>3. \A o \in left : h.index[o] = o - base
  BY <1>1
<1>4. h.index[off] = n - 1
  BY <1>1
<1>5. Truncated(h, off) =
        [next  |-> off, index |-> [o \in left |-> h.index[o]],
         size  |-> h.index[off], open  |-> h.open]
  BY DEF Truncated
<1> HIDE DEF h, left
<1>6. [o \in left |-> h.index[o]] = [o \in base .. (base + (n - 1) - 1) |-> o - base]
  BY <1>2, <1>3
<1>7. off = base + (n - 1)
  OBVIOUS
<1>8. Truncated(h, off) = Handle(base, n - 1, q)
  BY <1>1, <1>4, <1>5, <1>6, <1>7 DEF Handle
<1> QED
  BY <1>4, <1>8 DEF h

\* What is read at an offset is the record with this offset.
LEMMA ReadSlice ==
    ASSUME NEW values, NEW base, NEW n, Fits(values, base, n), NEW q \in BOOLEAN,
           NEW o \in base .. (base + n - 1)
    PROVE  /\ Readable(Handle(base, n, q), Slice(values, base, n), o) <=> q = TRUE
           /\ RecordAt(Handle(base, n, q), Slice(values, base, n), o)
                = [off |-> o, val |-> values[o + 1]]
<1> DEFINE h == Handle(base, n, q)
           s == Slice(values, base, n)
<1>1. base \in Nat /\ n \in Nat
  BY DEF Fits
<1>2. /\ Len(s) = n
      /\ \A i \in 1 .. n : s[i] = [off |-> base + i - 1, val |-> values[base + i]]
  BY SliceIs DEF Holds
<1>3. /\ h.open = q
      /\ h.index = [x \in base .. (base + n - 1) |-> x - base]
  BY DEF Handle
<1>4. o \in DOMAIN h.index /\ h.index[o] = o - base
  BY <1>3
<1> HIDE DEF h, s
<1>5. o - base < n /\ (o - base) + 1 \in 1 .. n
  BY <1>1
<1>6. s[(o - base) + 1] = [off |-> base + ((o - base) + 1) - 1,
                           val |-> values[base + ((o - base) + 1)]]
  BY <1>2, <1>5
<1>7. base + ((o - base) + 1) - 1 = o /\ base + ((o - base) + 1) = o + 1
  BY <1>1
<1>8. RecordAt(h, s, o) = [off |-> o, val |-> values[o + 1]]
  BY <1>4, <1>6, <1>7 DEF RecordAt
<1>9. Readable(h, s, o) <=> q = TRUE
  <2>1. h.index[o] < Len(s)
    BY <1>2, <1>4, <1>5
  <2> QED
    BY <1>3, <1>4, <2>1 DEF Readable
<1> QED
  BY <1>8, <1>9 DEF h, s


-----------------------------------------------------------------------------
(* The state.                                                              *)

\* The files f hold the log with these values: every file the records from its
\* base on, no two files the same record, the file of a the last ones.
Files(f, values, a) ==
    /\ values \in Seq(Nat)
    /\ IsFiniteSet(DOMAIN f)
    /\ a \in DOMAIN f
    /\ \A b \in DOMAIN f :
          /\ b \in Nat /\ b <= a
          /\ Len(f[b]) \in Nat
          /\ Fits(values, b, Len(f[b]))
          /\ f[b] = Slice(values, b, Len(f[b]))
    /\ \A b, c \in DOMAIN f : b < c => b + Len(f[b]) <= c
    /\ a + Len(f[a]) = Len(values)

\* The handle of every file agrees with its content, and that of a is open.
Handles(f, s, a) ==
    /\ \A b \in DOMAIN f : /\ b \in DOMAIN s
                           /\ s[b].open \in BOOLEAN
                           /\ s[b] = Handle(b, Len(f[b]), s[b].open)
    /\ s[a].open = TRUE

\* The list cs has every file but that of a, in order.
Listed(f, cs, a) ==
    /\ cs \in Seq(Nat)
    /\ \A i, j \in 1 .. Len(cs) : i < j => cs[i] < cs[j]
    /\ \A b : (\E i \in 1 .. Len(cs) : cs[i] = b) <=> b \in DOMAIN f /\ b # a

\* Where the log starts.
FirstOf(cs, a) == IF cs = <<>> THEN a ELSE cs[1]

\* Every file is open, and every one but that of a is followed by another.
Chained(f, s, a) ==
    \A b \in DOMAIN f :
        /\ s[b].open = TRUE
        /\ b # a => Len(f[b]) # 0 /\ b + Len(f[b]) \in DOMAIN f

Good ==
    /\ Files(file, acked, active)
    /\ Handles(file, seg, active)
    /\ Listed(file, closed, active)
    /\ baseOffset = FirstOf(closed, active)
    /\ nextOffset = Len(acked)

Counters ==
    /\ budget \in [FaultKind -> Nat]
    /\ \A k \in FaultKind : budget[k] <= MaxFaults[k]
    /\ written \in Nat

\* What holds as long as no fsync and no rotation has failed; and what the
\* removals of files keep unless one of them fails.
IInv ==
    /\ Counters
    /\ Never("sync") /\ Never("rotate") => Good
    /\ Never("sync") /\ Never("rotate") /\ Never("remove") => Chained(file, seg, active)

\* A file that may come to be the last: the one that is, or one after its end.
IsNext(f, a, t) == t = a \/ (Len(f[a]) # 0 /\ t = a + Len(f[a]))

\* The values other are those of the log up to t, and m more.
Follows(other, values, t, m) ==
    /\ other \in Seq(Nat) /\ m \in Nat /\ t + m = Len(other)
    /\ \A i \in 1 .. t : other[i] = values[i]

\* The last file gets another content, or a new last file is added.
LEMMA FilesWith ==
    ASSUME NEW f, NEW values, NEW a, Files(f, values, a),
           NEW t, IsNext(f, a, t),
           NEW other, NEW m, Follows(other, values, t, m),
           NEW g, g = Put(f, t, Slice(other, t, m))
    PROVE  Files(g, other, t)
<1> DEFINE x == Slice(other, t, m)
<1>1. /\ DOMAIN g = DOMAIN f \cup {t} /\ g[t] = x
      /\ \A b \in DOMAIN f : b # t => g[b] = f[b]
  BY DEF Put
<1>2. a \in DOMAIN f /\ a \in Nat /\ Len(f[a]) \in Nat
  BY DEF Files
<1>a. /\ other \in Seq(Nat) /\ m \in Nat /\ t + m = Len(other)
      /\ \A i \in 1 .. t : other[i] = values[i]
  BY DEF Follows
<1>3. t \in Nat /\ a <= t
  BY <1>2 DEF IsNext
<1>4. Fits(other, t, m)
  BY <1>3, <1>a DEF Fits
<1>5. Len(x) = m
  BY <1>4, SliceIs DEF Holds
<1> HIDE DEF x
<1>6. \A b \in DOMAIN f : b # t => b < t /\ b + Len(f[b]) <= t
  <2> TAKE b \in DOMAIN f
  <2> HAVE b # t
  <2>1. b \in Nat /\ b <= a /\ Len(f[b]) \in Nat
    BY DEF Files
  <2>2. CASE b = a
    BY <1>2, <2>2 DEF IsNext
  <2>3. CASE b # a
    <3>1. b < a /\ b + Len(f[b]) <= a
      BY <1>2, <2>1, <2>3 DEF Files
    <3> QED
      BY <1>2, <1>3, <2>1, <3>1
  <2> QED
    BY <2>2, <2>3
<1>7. ASSUME NEW b \in DOMAIN g
      PROVE  /\ b \in Nat /\ b <= t
             /\ Len(g[b]) \in Nat
             /\ Fits(other, b, Len(g[b]))
             /\ g[b] = Slice(other, b, Len(g[b]))
  <2>1. CASE b = t
    BY <1>1, <1>3, <1>4, <1>5, <2>1 DEF x
  <2>2. CASE b # t
    <3>1. b \in DOMAIN f /\ g[b] = f[b]
      BY <1>1, <2>2
    <3> DEFINE n == Len(f[b])
    <3>2. b \in Nat /\ n \in Nat /\ Fits(values, b, n) /\ f[b] = Slice(values, b, n)
      BY <3>1 DEF Files
    <3> HIDE DEF n
    <3>3. b < t /\ b + n <= t
      BY <1>6, <2>2, <3>1 DEF n
    <3>a. Len(other) \in Nat
      BY <1>a, LenProperties
    <3>b. t + m = Len(other) /\ m \in Nat /\ t \in Nat /\ n \in Nat /\ b \in Nat
      BY <1>3, <1>a, <3>2
    <3>4. b + n <= Len(other)
      BY <3>3, <3>a, <3>b
    <3>5. Fits(other, b, n)
      BY <1>a, <3>2, <3>4 DEF Fits
    <3>6. \A i \in 1 .. b + n : other[i] = values[i]
      BY <1>3, <1>a, <3>2, <3>3
    <3>7. Slice(other, b, n) = Slice(values, b, n)
      BY <3>2, <3>5, <3>6, SameSlice
    <3> QED
      BY <1>3, <3>1, <3>2, <3>3, <3>5, <3>7 DEF n
  <2> QED
    BY <2>1, <2>2
<1>8. \A b, c \in DOMAIN g : b < c => b + Len(g[b]) <= c
  <2> TAKE b, c \in DOMAIN g
  <2> HAVE b < c
  <2>1. b \in Nat /\ c \in Nat /\ c <= t
    BY <1>7
  <2>2. b # t /\ b \in DOMAIN f /\ g[b] = f[b]
    BY <1>1, <1>3, <2>1
  <2>3. CASE c = t
    BY <1>6, <2>2, <2>3
  <2>4. CASE c # t
    BY <1>1, <2>2, <2>4 DEF Files
  <2> QED
    BY <2>3, <2>4
<1>9. IsFiniteSet(DOMAIN g)
  BY <1>1, FS_AddElement DEF Files
<1>10. Files(g, other, t)
  BY <1>1, <1>5, <1>7, <1>8, <1>9, <1>a DEF Files
<1> QED
  BY <1>10

\* The handle of the last file is replaced with it.
LEMMA HandlesWith ==
    ASSUME NEW f, NEW s, NEW a, NEW t, NEW x, NEW m, Len(x) = m,
           Handles(f, s, a)
    PROVE  Handles(Put(f, t, x), Put(s, t, Handle(t, m, TRUE)), t)
<1> DEFINE g == Put(f, t, x)
           h == Handle(t, m, TRUE)
           r == Put(s, t, h)
<1>1. /\ DOMAIN g = DOMAIN f \cup {t} /\ g[t] = x
      /\ \A b \in DOMAIN f : b # t => g[b] = f[b]
  BY DEF Put
<1>2. /\ DOMAIN r = DOMAIN s \cup {t} /\ r[t] = h
      /\ \A b \in DOMAIN s : b # t => r[b] = s[b]
  BY DEF Put
<1>3. h.open = TRUE /\ h = Handle(t, m, TRUE)
  BY DEF Handle
<1> HIDE DEF g, r, h
<1>4. ASSUME NEW b \in DOMAIN g
      PROVE  /\ b \in DOMAIN r
             /\ r[b].open \in BOOLEAN
             /\ r[b] = Handle(b, Len(g[b]), r[b].open)
  <2>1. CASE b = t
    BY <1>1, <1>2, <1>3, <2>1
  <2>2. CASE b # t
    <3>1. b \in DOMAIN f /\ g[b] = f[b]
      BY <1>1, <2>2
    <3>2. b \in DOMAIN s /\ s[b].open \in BOOLEAN /\ s[b] = Handle(b, Len(f[b]), s[b].open)
      BY <3>1 DEF Handles
    <3>3. r[b] = s[b]
      BY <1>2, <2>2, <3>2
    <3> QED
      BY <1>2, <3>1, <3>2, <3>3
  <2> QED
    BY <2>1, <2>2
<1>5. Handles(g, r, t)
  BY <1>2, <1>3, <1>4 DEF Handles
<1> QED
  BY <1>5 DEF g, r, h

\* A new last file follows the one that was.
LEMMA ChainedWith ==
    ASSUME NEW f, NEW values, NEW a, Files(f, values, a),
           NEW t, IsNext(f, a, t), NEW s, Handles(f, s, a), Chained(f, s, a), NEW x, NEW m
    PROVE  Chained(Put(f, t, x), Put(s, t, Handle(t, m, TRUE)), t)
<1> DEFINE g == Put(f, t, x)
           h == Handle(t, m, TRUE)
           r == Put(s, t, h)
<1>1. /\ DOMAIN g = DOMAIN f \cup {t}
      /\ \A b \in DOMAIN f : b # t => g[b] = f[b]
  BY DEF Put
<1>2. /\ r[t] = h
      /\ \A b \in DOMAIN s : b # t => r[b] = s[b]
  BY DEF Put
<1>3. h.open = TRUE
  BY DEF Handle
<1> HIDE DEF g, r, h
<1>4. ASSUME NEW b \in DOMAIN g, b # t
      PROVE  r[b].open = TRUE /\ Len(g[b]) # 0 /\ b + Len(g[b]) \in DOMAIN g
  <2>1. b \in DOMAIN f /\ g[b] = f[b] /\ b \in DOMAIN s
    BY <1>1, <1>4 DEF Handles
  <2>2. r[b].open = TRUE
    BY <1>2, <1>4, <2>1 DEF Chained
  <2>3. CASE b = a
    BY <1>1, <1>4, <2>1, <2>2, <2>3 DEF IsNext
  <2>4. CASE b # a
    BY <1>1, <2>1, <2>2, <2>4 DEF Chained
  <2> QED
    BY <2>3, <2>4
<1>5. Chained(g, r, t)
  BY <1>2, <1>3, <1>4 DEF Chained
<1> QED
  BY <1>5 DEF g, r, h

\* The list of the closed files, when a new file takes the place of the last.
LEMMA ListedWith ==
    ASSUME NEW f, NEW values, NEW a, Files(f, values, a), NEW cs, Listed(f, cs, a),
           NEW t, Len(f[a]) # 0, t = a + Len(f[a]), NEW x
    PROVE  /\ Listed(Put(f, t, x), Append(cs, a), t)
           /\ FirstOf(Append(cs, a), t) = FirstOf(cs, a)
<1> DEFINE g == Put(f, t, x)
           ds == Append(cs, a)
<1>1. DOMAIN g = DOMAIN f \cup {t}
  BY DEF Put
<1>2. a \in DOMAIN f /\ a \in Nat /\ Len(f[a]) \in Nat /\ cs \in Seq(Nat)
  BY DEF Files, Listed
<1>3. t \in Nat /\ a < t
  BY <1>2
<1>4. /\ ds \in Seq(Nat) /\ Len(ds) = Len(cs) + 1 /\ ds # <<>>
      /\ \A i \in 1 .. Len(cs) : ds[i] = cs[i]
      /\ ds[Len(cs) + 1] = a
  BY <1>2, AppendProperties
<1>5. Len(cs) \in Nat
  BY <1>2, LenProperties
<1> HIDE DEF g, ds
<1>6. \A b \in DOMAIN f : b \in Nat /\ b <= a
  BY DEF Files
<1>7. \A i \in 1 .. Len(cs) : cs[i] \in DOMAIN f /\ cs[i] # a
  BY DEF Listed
<1>8. \A i, j \in 1 .. Len(ds) : i < j => ds[i] < ds[j]
  <2> TAKE i, j \in 1 .. Len(ds)
  <2> HAVE i < j
  <2> DEFINE n == Len(cs)
  <2>a. n \in Nat /\ i \in 1 .. n + 1 /\ j \in 1 .. n + 1
    BY <1>4, <1>5
  <2> HIDE DEF n
  <2>b. i \in 1 .. n /\ (j \in 1 .. n \/ j = n + 1)
    BY <2>a
  <2>1. i \in 1 .. Len(cs) /\ ds[i] = cs[i] /\ (j \in 1 .. Len(cs) \/ j = Len(cs) + 1)
    BY <1>4, <2>b DEF n
  <2>2. CASE j \in 1 .. Len(cs)
    BY <1>4, <2>1, <2>2 DEF Listed
  <2>3. CASE j = Len(cs) + 1
    <3>1. cs[i] \in Nat /\ cs[i] <= a /\ cs[i] # a /\ ds[j] = a
      BY <1>4, <1>6, <1>7, <2>1, <2>3
    <3> QED
      BY <1>2, <2>1, <3>1
  <2> QED
    BY <2>1, <2>2, <2>3
<1>9. \A b : (\E i \in 1 .. Len(ds) : ds[i] = b) <=> b \in DOMAIN g /\ b # t
  <2> TAKE b
  <2>1. t \notin DOMAIN f
    BY <1>2, <1>3, <1>6
  <2>2. ASSUME NEW i \in 1 .. Len(ds), ds[i] = b PROVE b \in DOMAIN f
    <3>1. i \in 1 .. Len(cs) \/ i = Len(cs) + 1
      BY <1>4, <1>5
    <3> QED
      BY <1>2, <1>4, <1>7, <2>2, <3>1
  <2>3. ASSUME b \in DOMAIN f PROVE \E i \in 1 .. Len(ds) : ds[i] = b
    <3>1. CASE b = a
      <4>1. Len(cs) + 1 \in 1 .. Len(ds)
        BY <1>4, <1>5
      <4> QED
        BY <1>4, <3>1, <4>1
    <3>2. CASE b # a
      <4>1. PICK i \in 1 .. Len(cs) : cs[i] = b
        BY <2>3, <3>2 DEF Listed
      <4>2. i \in 1 .. Len(ds)
        BY <1>4, <1>5
      <4> QED
        BY <1>4, <4>1, <4>2
    <3> QED
      BY <3>1, <3>2
  <2> QED
    BY <1>1, <2>1, <2>2, <2>3
<1>10. Listed(g, ds, t)
  BY <1>4, <1>8, <1>9 DEF Listed
<1>11. FirstOf(ds, t) = FirstOf(cs, a)
  <2>1. CASE cs = <<>>
    <3>1. Len(cs) = 0 /\ ds[1] = a
      BY <1>4, <2>1
    <3> QED
      BY <1>4, <2>1, <3>1 DEF FirstOf
  <2>2. CASE cs # <<>>
    <3>1. 1 \in 1 .. Len(cs)
      BY <1>2, <1>5, <2>2, EmptySeq
    <3> QED
      BY <1>4, <2>2, <3>1 DEF FirstOf
  <2> QED
    BY <2>1, <2>2
<1> QED
  BY <1>10, <1>11 DEF g, ds

\* The same files have the same list.
LEMMA ListedSame ==
    ASSUME NEW f, NEW g, NEW cs, NEW a, Listed(f, cs, a), DOMAIN g = DOMAIN f
    PROVE  Listed(g, cs, a)
BY DEF Listed

\* The log starts with the first of the files.
LEMMA FirstIsLeast ==
    ASSUME NEW f, NEW values, NEW a, Files(f, values, a), NEW cs, Listed(f, cs, a)
    PROVE  /\ FirstOf(cs, a) \in DOMAIN f /\ FirstOf(cs, a) \in Nat
           /\ \A b \in DOMAIN f : FirstOf(cs, a) <= b
<1>1. /\ a \in DOMAIN f /\ a \in Nat /\ cs \in Seq(Nat) /\ Len(cs) \in Nat
      /\ \A b \in DOMAIN f : b \in Nat
  BY LenProperties DEF Files, Listed
<1>2. CASE cs = <<>>
  <2>1. FirstOf(cs, a) = a /\ Len(cs) = 0
    BY <1>2 DEF FirstOf
  <2>2. \A b \in DOMAIN f : b = a
    BY <2>1 DEF Listed
  <2> QED
    BY <1>1, <2>1, <2>2
<1>3. CASE cs # <<>>
  <2>1. FirstOf(cs, a) = cs[1] /\ 1 \in 1 .. Len(cs)
    BY <1>1, <1>3, EmptySeq DEF FirstOf
  <2>2. cs[1] \in DOMAIN f
    BY <2>1 DEF Listed
  <2>3. ASSUME NEW b \in DOMAIN f PROVE cs[1] <= b
    <3>1. b \in Nat /\ cs[1] \in Nat /\ cs[1] <= a
      BY <1>1, <2>2 DEF Files
    <3>2. CASE b = a
      BY <3>1, <3>2
    <3>3. CASE b # a
      <4>1. PICK i \in 1 .. Len(cs) : cs[i] = b
        BY <2>3, <3>3 DEF Listed
      <4>2. i = 1 \/ 1 < i
        BY <1>1
      <4>3. 1 < i => cs[1] < cs[i]
        BY <2>1 DEF Listed
      <4> QED
        BY <3>1, <4>1, <4>2, <4>3
    <3> QED
      BY <3>2, <3>3
  <2> QED
    BY <1>1, <2>1, <2>2, <2>3
<1> QED
  BY <1>2, <1>3

-----------------------------------------------------------------------------
(* Appends and the roll-back of the last record.                           *)

\* The segment the next record goes to ends where the log ends.
LEMMA TargetFacts ==
    ASSUME Good
    PROVE  /\ Target \in Nat
           /\ IsNext(file, active, Target)
           /\ Full => Len(file[active]) # 0 /\ Target = active + Len(file[active])
           /\ ~Full => Target = active
           /\ \E m \in Nat : /\ Target + m = Len(acked)
                             /\ Fits(acked, Target, m)
                             /\ TargetFile = Slice(acked, Target, m)
                             /\ TargetSeg = Handle(Target, m, TRUE)
<1> DEFINE n == Len(file[active])
<1>1. /\ active \in DOMAIN file /\ active \in Nat /\ n \in Nat
      /\ Fits(acked, active, n) /\ file[active] = Slice(acked, active, n)
      /\ active + n = Len(acked) /\ acked \in Seq(Nat) /\ nextOffset = active + n
  BY DEF Good, Files
<1>2. seg[active] = Handle(active, n, TRUE)
  BY <1>1 DEF Good, Handles
<1>3. seg[active].size = n
  BY <1>2 DEF Handle
<1>4. CASE Full
  <2>1. n # 0
    BY <1>1, <1>3, <1>4, LogAssumption DEF Full
  <2>2. Target = nextOffset
    BY <1>4 DEF Target
  <2>3. Target \notin DOMAIN file
    <3>1. ASSUME Target \in DOMAIN file PROVE Target <= active
      BY <3>1 DEF Good, Files
    <3> HIDE DEF n
    <3> QED
      BY <1>1, <2>1, <2>2, <3>1
  <2>4. TargetFile = <<>>
    BY <2>3 DEF TargetFile
  <2>5. TargetSeg = NewSegment(Target, <<>>)
    BY <1>4, <2>4 DEF TargetSeg
  <2> HIDE DEF n
  <2>6. /\ Target \in Nat /\ Target = Len(acked) /\ Target + 0 = Len(acked)
        /\ Target <= Len(acked)
    BY <1>1, <2>2
  <2>7. /\ Fits(acked, Target, 0) /\ Slice(acked, Target, 0) = <<>>
        /\ NewSegment(Target, <<>>) = Handle(Target, 0, TRUE)
    BY <1>1, <2>6, NewFileIs
  <2>8. IsNext(file, active, Target) /\ Target = active + Len(file[active])
    BY <1>1, <2>1, <2>2 DEF IsNext, n
  <2> QED
    BY <1>4, <2>1, <2>4, <2>5, <2>6, <2>7, <2>8 DEF n
<1>5. CASE ~Full
  <2>1. Target = active /\ TargetSeg = seg[active]
    BY <1>5 DEF Target, TargetSeg
  <2>2. TargetFile = file[active]
    BY <1>1, <1>5, <2>1 DEF TargetFile
  <2> HIDE DEF n
  <2> QED
    BY <1>1, <1>2, <1>5, <2>1, <2>2 DEF IsNext
<1> QED
  BY <1>4, <1>5

\* With the rotation, if it is due, the log keeps its values and may get more.
LEMMA RotateKeeps ==
    ASSUME Good, NEW m \in Nat, acked' \in Seq(Nat), Target + m = Len(acked'),
           \A i \in 1 .. Target : acked'[i] = acked[i],
           Rotate(Slice(acked', Target, m), Handle(Target, m, TRUE)),
           nextOffset' = Len(acked'), baseOffset' = baseOffset
    PROVE  Good' /\ (Chained(file, seg, active) => Chained(file, seg, active)')
<1> DEFINE x == Slice(acked', Target, m)
<1>1. /\ file' = Put(file, Target, x)
      /\ seg' = Put(seg, Target, Handle(Target, m, TRUE))
      /\ closed' = IF Full THEN Append(closed, active) ELSE closed
      /\ active' = Target
  BY DEF Rotate
<1>2. /\ Files(file, acked, active) /\ Handles(file, seg, active)
      /\ Listed(file, closed, active) /\ baseOffset = FirstOf(closed, active)
  BY DEF Good
<1>3. /\ IsNext(file, active, Target)
      /\ Full => Len(file[active]) # 0 /\ Target = active + Len(file[active])
      /\ ~Full => Target = active
  BY TargetFacts
<1>4. Files(file', acked', Target)
  <2>1. Follows(acked', acked, Target, m)
    BY DEF Follows
  <2> QED
    BY <1>1, <1>2, <1>3, <2>1, FilesWith
<1>5. DOMAIN file' = DOMAIN file \cup {Target} /\ file'[Target] = x
  BY <1>1 DEF Put
<1>a. Len(x) = m
  <2>1. Target \in Nat
    BY TargetFacts
  <2>2. Fits(acked', Target, m)
    BY <2>1 DEF Fits
  <2> QED
    BY <2>2, SliceIs DEF Holds
<1> HIDE DEF x
<1>7. Handles(file', seg', active')
  BY <1>1, <1>2, <1>a, HandlesWith
<1>8. Listed(file', closed', active') /\ baseOffset' = FirstOf(closed', active')
  <2>1. CASE Full
    BY <1>1, <1>2, <1>3, <2>1, ListedWith
  <2>2. CASE ~Full
    <3>1. active' = active /\ closed' = closed /\ active \in DOMAIN file
      BY <1>1, <1>2, <1>3, <2>2 DEF Files
    <3>2. DOMAIN file' = DOMAIN file
      BY <1>1, <1>3, <1>5, <2>2, <3>1
    <3> QED
      BY <1>2, <3>1, <3>2, ListedSame
  <2> QED
    BY <2>1, <2>2
<1>9. Chained(file, seg, active) => Chained(file', seg', active')
  BY <1>1, <1>2, <1>3, ChainedWith
<1> QED
  BY <1>1, <1>4, <1>7, <1>8, <1>9 DEF Good

\* appendLocked adds the record at the end of the log.
LEMMA AppendKeeps ==
    ASSUME Good, Counters, AppendLocked
    PROVE  Good' /\ (Chained(file, seg, active) => Chained(file, seg, active)')
<1>1. Target \in Nat
  BY TargetFacts
<1>2. PICK m \in Nat : /\ Target + m = Len(acked)
                       /\ Fits(acked, Target, m)
                       /\ TargetFile = Slice(acked, Target, m)
                       /\ TargetSeg = Handle(Target, m, TRUE)
  BY TargetFacts
<1>3. acked \in Seq(Nat) /\ nextOffset = Len(acked) /\ written + 1 \in Nat
  BY DEF Good, Files, Counters
<1>4. NewRecord = [off |-> Target + m, val |-> written + 1] /\ NewRecord.val = written + 1
  BY <1>2, <1>3 DEF NewRecord
<1>5. /\ acked' = Append(acked, written + 1) /\ nextOffset' = nextOffset + 1
      /\ baseOffset' = baseOffset
      /\ Rotate(Append(TargetFile, NewRecord), Appended(TargetSeg, nextOffset))
  BY <1>4 DEF AppendLocked
<1>6. /\ acked' \in Seq(Nat) /\ Len(acked') = Len(acked) + 1
      /\ \A i \in 1 .. Len(acked) : acked'[i] = acked[i]
  BY <1>3, <1>5, AppendProperties
<1>7. Append(TargetFile, NewRecord) = Slice(acked', Target, m + 1)
  BY <1>1, <1>2, <1>3, <1>4, <1>5, LongerSlice
<1>8. Appended(TargetSeg, nextOffset) = Handle(Target, m + 1, TRUE)
  BY <1>1, <1>2, <1>3, HandleAppended
<1>9. \A i \in 1 .. Target : acked'[i] = acked[i]
  BY <1>1, <1>2, <1>6
<1>10. /\ m + 1 \in Nat /\ Target + (m + 1) = Len(acked')
       /\ nextOffset' = Len(acked')
  BY <1>1, <1>2, <1>3, <1>5, <1>6
<1>11. Rotate(Slice(acked', Target, m + 1), Handle(Target, m + 1, TRUE))
  BY <1>5, <1>7, <1>8
<1> HIDE DEF AppendLocked
<1> QED
  BY <1>5, <1>6, <1>9, <1>10, <1>11, RotateKeeps

\* A write that fails, and is cut off again, leaves the log as it was.
LEMMA WriteFailsKeeps ==
    ASSUME Good, WriteFails
    PROVE  Good' /\ (Chained(file, seg, active) => Chained(file, seg, active)')
<1>1. Target \in Nat
  BY TargetFacts
<1>2. PICK m \in Nat : /\ Target + m = Len(acked)
                       /\ TargetFile = Slice(acked, Target, m)
                       /\ TargetSeg = Handle(Target, m, TRUE)
  BY TargetFacts
<1>3. acked \in Seq(Nat) /\ nextOffset = Len(acked)
  BY DEF Good, Files
<1>4. /\ acked' = acked /\ nextOffset' = nextOffset /\ baseOffset' = baseOffset
      /\ Rotate(TargetFile, TargetSeg)
  BY DEF WriteFails
<1>5. Rotate(Slice(acked', Target, m), Handle(Target, m, TRUE))
  BY <1>2, <1>4
<1>6. /\ acked' \in Seq(Nat) /\ Target + m = Len(acked') /\ nextOffset' = Len(acked')
      /\ \A i \in 1 .. Target : acked'[i] = acked[i]
  BY <1>2, <1>3, <1>4
<1> QED
  BY <1>4, <1>5, <1>6, RotateKeeps

\* InvalidateOffset takes the last record off the log.
LEMMA InvalidateKeeps ==
    ASSUME Good, InvalidateOffset
    PROVE  Good' /\ (Chained(file, seg, active) => Chained(file, seg, active)')
<1> DEFINE n == Len(file[active])
<1>1. /\ active \in DOMAIN file /\ active \in Nat /\ n \in Nat
      /\ Fits(acked, active, n) /\ file[active] = Slice(acked, active, n)
      /\ active + n = Len(acked) /\ acked \in Seq(Nat) /\ nextOffset = active + n
  BY DEF Good, Files
<1>2. seg[active] = Handle(active, n, TRUE) /\ active \in DOMAIN seg
  BY <1>1 DEF Good, Handles
<1>3. /\ nextOffset > 0 /\ nextOffset - 1 >= active
      /\ file' = [file EXCEPT ![active] = Cut(file[active], seg[active].index[nextOffset - 1])]
      /\ seg' = [seg EXCEPT ![active] = Truncated(seg[active], nextOffset - 1)]
      /\ nextOffset' = nextOffset - 1 /\ acked' = SubSeq(acked, 1, nextOffset - 1)
      /\ closed' = closed /\ active' = active /\ baseOffset' = baseOffset
  BY DEF InvalidateOffset, CanInvalidate, CutLast, LastOffset
<1> DEFINE m == n - 1
           l == active + n - 1
<1>4. n # 0 /\ n \in Nat \ {0} /\ m \in Nat /\ nextOffset - 1 = l /\ active + m = l
        /\ l \in Nat /\ l + 1 = Len(acked)
  BY <1>1, <1>3
<1>5. /\ Handle(active, n, TRUE).index[l] = m
      /\ Truncated(Handle(active, n, TRUE), l) = Handle(active, m, TRUE)
  BY <1>1, <1>4, HandleTruncated
<1>6. Cut(Slice(acked, active, n), m) = Slice(acked, active, m)
  BY <1>1, <1>4, ShorterSlice
<1>7. /\ acked' \in Seq(Nat) /\ Len(acked') = l
      /\ \A i \in 1 .. l : acked'[i] = acked[i]
  <2>1. 1 \in Int /\ l \in Int
    BY <1>4
  <2>2. \A i \in 1 .. l : acked[i] \in Nat
    <3>1. \A i \in 1 .. l : i \in 1 .. Len(acked)
      BY <1>4
    <3> QED
      BY <1>1, <3>1, ElementOfSeq
  <2>3. acked' = SubSeq(acked, 1, l)
    BY <1>3, <1>4
  <2> HIDE DEF l
  <2>4. /\ acked' \in Seq(Nat)
        /\ Len(acked') = IF 1 <= l THEN l - 1 + 1 ELSE 0
        /\ \A i \in 1 .. l - 1 + 1 : acked'[i] = acked[1 + i - 1]
    BY <2>1, <2>2, <2>3, SubSeqProperties
  <2>5. Len(acked') = l
    BY <1>4, <2>4
  <2>6. \A i \in 1 .. l : i \in 1 .. l - 1 + 1 /\ 1 + i - 1 = i
    BY <1>4
  <2> QED
    BY <2>4, <2>5, <2>6
<1>8. Slice(acked', active, m) = Slice(acked, active, m)
  <2>1. Fits(acked', active, m) /\ Fits(acked, active, m)
    BY <1>1, <1>4, <1>7 DEF Fits
  <2>2. \A i \in 1 .. active + m : acked'[i] = acked[i]
    BY <1>4, <1>7
  <2> QED
    BY <2>1, <2>2, SameSlice
<1> DEFINE x == Slice(acked', active, m)
<1> HIDE DEF n, m, l, x
<1>9. file' = Put(file, active, x)
  <2>1. file' = [file EXCEPT ![active] = x]
    BY <1>1, <1>2, <1>3, <1>4, <1>5, <1>6, <1>8 DEF x
  <2> QED
    BY <1>1, <2>1 DEF Put
<1>10. seg' = Put(seg, active, Handle(active, m, TRUE))
  <2>1. seg' = [seg EXCEPT ![active] = Handle(active, m, TRUE)]
    BY <1>2, <1>3, <1>4, <1>5
  <2> QED
    BY <1>2, <2>1 DEF Put
<1>11. /\ Files(file, acked, active) /\ Handles(file, seg, active)
       /\ Listed(file, closed, active) /\ baseOffset = FirstOf(closed, active)
       /\ IsNext(file, active, active)
  BY DEF Good, IsNext
<1>12. /\ active + m = Len(acked')
       /\ \A i \in 1 .. active : acked'[i] = acked[i]
  <2>1. \A i \in 1 .. active : i \in 1 .. l
    BY <1>1, <1>4
  <2> QED
    BY <1>4, <1>7, <2>1
<1>13. Files(file', acked', active)
  <2>1. Follows(acked', acked, active, m)
    BY <1>4, <1>7, <1>12 DEF Follows
  <2> QED
    BY <1>9, <1>11, <2>1, FilesWith DEF x
<1>14. DOMAIN file' = DOMAIN file /\ Len(x) = m
  <2>1. Fits(acked', active, m)
    BY <1>1, <1>4, <1>7, <1>12 DEF Fits
  <2>2. Len(x) = m
    BY <2>1, SliceIs DEF Holds, x
  <2> QED
    BY <1>3, <2>2
<1>15. Handles(file', seg', active)
  BY <1>9, <1>10, <1>11, <1>14, HandlesWith
<1>16. Listed(file', closed, active)
  BY <1>3, <1>11, <1>14, ListedSame
<1>17. Chained(file, seg, active) => Chained(file', seg', active)
  BY <1>9, <1>10, <1>11, ChainedWith
<1>18. nextOffset' = Len(acked')
  BY <1>3, <1>4, <1>7
<1> QED
  BY <1>3, <1>11, <1>13, <1>15, <1>16, <1>17, <1>18 DEF Good

-----------------------------------------------------------------------------
(* Retention.                                                              *)

Increasing(cs) ==
    /\ cs \in Seq(Nat)
    /\ \A i, j \in 1 .. Len(cs) : i < j => cs[i] < cs[j]

\* The list ds has what is in cs and not in R.
Leaves(ds, cs, R) ==
    \A b : (\E i \in 1 .. Len(ds) : ds[i] = b)
              <=> b \notin R /\ \E i \in 1 .. Len(cs) : cs[i] = b

\* What is left of an ordered list without some bases: the others, in order.
LEMMA WithoutFacts ==
    ASSUME NEW cs, Increasing(cs), NEW R
    PROVE  Increasing(Without(cs, R)) /\ Leaves(Without(cs, R), cs, R)
<1> DEFINE N == Len(cs)
           kept == {i \in DOMAIN cs : cs[i] \in R => \E j \in 1 .. i - 1 : cs[j] = cs[i]}
           M == Cardinality(kept)
           at == InOrder(kept)
           ds == Without(cs, R)
<1>a. cs \in Seq(Nat) /\ \A i, j \in 1 .. Len(cs) : i < j => cs[i] < cs[j]
  BY DEF Increasing
<1>1. N \in Nat /\ DOMAIN cs = 1 .. N /\ \A i \in 1 .. N : cs[i] \in Nat
  BY <1>a, LenProperties, ElementOfSeq
<1>2. \A i \in 1 .. N : \A j \in 1 .. i - 1 : cs[j] # cs[i]
  <2> TAKE i \in 1 .. N
  <2> TAKE j \in 1 .. i - 1
  <2> DEFINE k == N
  <2>1. k \in Nat /\ i \in 1 .. k /\ j \in 1 .. i - 1
    BY <1>1
  <2> HIDE DEF k
  <2>2. j \in 1 .. k /\ j < i
    BY <2>1
  <2>3. cs[j] < cs[i] /\ cs[j] \in Nat /\ cs[i] \in Nat
    BY <1>1, <1>a, <2>2 DEF k
  <2> QED
    BY <2>3
<1>3. \A i : i \in kept <=> i \in 1 .. N /\ cs[i] \notin R
  BY <1>1, <1>2
<1>4. ds = [n \in 1 .. M |-> cs[at[n]]]
  BY DEF Without
<1> HIDE DEF kept, ds, N
<1>5. kept \subseteq Nat /\ IsFiniteSet(kept)
  <2>1. kept \subseteq 1 .. N /\ 1 .. N \subseteq Nat
    BY <1>1, <1>3
  <2>2. IsFiniteSet(1 .. N)
    BY <1>1, FS_Interval
  <2> QED
    BY <2>1, <2>2, FS_Subset
<1>6. /\ M \in Nat /\ at \in [1 .. M -> kept]
      /\ \A m, n \in 1 .. M : m < n => at[m] < at[n]
      /\ \A x \in kept : \E n \in 1 .. M : at[n] = x
  BY <1>5, InOrderFacts
<1> HIDE DEF M, at
<1>7. \A n \in 1 .. M : at[n] \in kept /\ at[n] \in 1 .. N /\ ds[n] = cs[at[n]]
  BY <1>3, <1>4, <1>6
<1>8. ds \in Seq(Nat) /\ Len(ds) = M
  <2>1. \A n \in 1 .. M : ds[n] \in Nat
    BY <1>1, <1>7
  <2>2. ds \in [1 .. M -> Nat]
    BY <1>4, <2>1
  <2> QED
    BY <1>6, <2>2
<1>9. \A i, j \in 1 .. Len(ds) : i < j => ds[i] < ds[j]
  <2> TAKE i, j \in 1 .. Len(ds)
  <2> HAVE i < j
  <2>1. at[i] < at[j] /\ at[i] \in 1 .. N /\ at[j] \in 1 .. N
    BY <1>6, <1>7, <1>8
  <2>2. ds[i] = cs[at[i]] /\ ds[j] = cs[at[j]]
    BY <1>7, <1>8
  <2>3. cs[at[i]] < cs[at[j]]
    BY <1>a, <2>1 DEF N
  <2> QED
    BY <2>2, <2>3
<1>10. ASSUME NEW b
       PROVE  (\E i \in 1 .. Len(ds) : ds[i] = b)
                 <=> b \notin R /\ \E i \in 1 .. N : cs[i] = b
  <2>1. ASSUME NEW i \in 1 .. Len(ds), ds[i] = b
        PROVE  b \notin R /\ \E j \in 1 .. N : cs[j] = b
    BY <1>3, <1>7, <1>8, <2>1
  <2>2. ASSUME b \notin R, NEW j \in 1 .. N, cs[j] = b
        PROVE  \E i \in 1 .. Len(ds) : ds[i] = b
    <3>1. j \in kept
      BY <1>3, <2>2
    <3>2. PICK i \in 1 .. M : at[i] = j
      BY <1>6, <3>1
    <3> QED
      BY <1>7, <1>8, <2>2, <3>2
  <2> QED
    BY <2>1, <2>2
<1> QED
  BY <1>8, <1>9, <1>10 DEF Increasing, Leaves, ds, N

\* Fewer files, with the same last one, hold what they held.
LEMMA FilesLess ==
    ASSUME NEW f, NEW values, NEW a, Files(f, values, a),
           NEW R, a \notin R, NEW g, g = [b \in DOMAIN f \ R |-> f[b]]
    PROVE  Files(g, values, a)
<1>1. /\ DOMAIN g = DOMAIN f \ R
      /\ \A b \in DOMAIN g : b \in DOMAIN f /\ g[b] = f[b]
  OBVIOUS
<1>2. IsFiniteSet(DOMAIN g)
  BY <1>1, FS_Subset DEF Files
<1>3. a \in DOMAIN g /\ g[a] = f[a]
  BY <1>1 DEF Files
<1> QED
  BY <1>1, <1>2, <1>3 DEF Files

\* Close leaves the rest of the handle as it is.
LEMMA HandleClosed ==
    ASSUME NEW base, NEW n, NEW q, NEW p
    PROVE  [Handle(base, n, q) EXCEPT !.open = p] = Handle(base, n, p)
<1> DEFINE h == Handle(base, n, q)
           g == [h EXCEPT !.open = p]
           k == Handle(base, n, p)
           fields == {"next", "index", "size", "open"}
<1>1. DOMAIN g = fields
  BY DEF Handle
<1>2. g.next = k.next /\ g.index = k.index /\ g.size = k.size
  BY DEF Handle
<1>3. g.open = p /\ k.open = p
  BY DEF Handle
<1>4. g = [i \in DOMAIN g |-> g[i]]
  OBVIOUS
<1>5. k = [i \in fields |-> k[i]]
  BY DEF Handle
<1> HIDE DEF g, k
<1>6. g = k
  BY <1>1, <1>2, <1>3, <1>4, <1>5
<1> QED
  BY <1>6 DEF g, h, k

\* The handles of files that are closed still agree with their content.
LEMMA HandlesLess ==
    ASSUME NEW f, NEW s, NEW a, Handles(f, s, a), NEW R, a \in DOMAIN f,
           NEW g, g = [b \in DOMAIN f \ R |-> f[b]],
           NEW C, a \notin C,
           NEW r, r = [b \in DOMAIN s |-> [s[b] EXCEPT !.open = s[b].open /\ b \notin C]]
    PROVE  Handles(g, r, a)
<1>1. ASSUME NEW b \in DOMAIN g
      PROVE  /\ b \in DOMAIN r
             /\ r[b].open \in BOOLEAN
             /\ r[b] = Handle(b, Len(g[b]), r[b].open)
  <2>1. b \in DOMAIN f /\ g[b] = f[b]
    OBVIOUS
  <2> DEFINE q == s[b].open
             p == q /\ b \notin C
             n == Len(f[b])
  <2>2. b \in DOMAIN s /\ q \in BOOLEAN /\ s[b] = Handle(b, n, q)
    BY <2>1 DEF Handles
  <2>3. r[b] = [s[b] EXCEPT !.open = p]
    BY <2>2
  <2>4. p \in BOOLEAN
    BY <2>2
  <2> HIDE DEF q, p, n
  <2>5. [Handle(b, n, q) EXCEPT !.open = p] = Handle(b, n, p)
    BY HandleClosed
  <2>6. r[b] = Handle(b, n, p)
    BY <2>2, <2>3, <2>5
  <2>7. r[b].open = p
    BY <2>6 DEF Handle
  <2>8. r[b].open \in BOOLEAN
    BY <2>4, <2>7
  <2>9. r[b] = Handle(b, Len(g[b]), r[b].open)
    BY <2>1, <2>6, <2>7 DEF n
  <2>10. b \in DOMAIN r
    BY <2>2
  <2> QED
    BY <2>8, <2>9, <2>10
<1>2. r[a].open = TRUE
  <2>1. a \in DOMAIN s /\ s[a].open = TRUE /\ s[a] = Handle(a, Len(f[a]), s[a].open)
    BY DEF Handles
  <2>2. r[a] = [s[a] EXCEPT !.open = s[a].open /\ a \notin C]
    BY <2>1
  <2>3. (s[a].open /\ a \notin C) = TRUE
    BY <2>1
  <2>4. [Handle(a, Len(f[a]), TRUE) EXCEPT !.open = TRUE].open = TRUE
    BY DEF Handle
  <2> QED
    BY <2>1, <2>2, <2>3, <2>4
<1> QED
  BY <1>1, <1>2 DEF Handles

\* The first k of the list.
LEMMA PrefixSet ==
    ASSUME NEW cs \in Seq(Nat), NEW k \in 1 .. Len(cs), NEW b
    PROVE  b \in ToSet(SubSeq(cs, 1, k)) <=> \E i \in 1 .. k : cs[i] = b
<1> DEFINE N == Len(cs)
           s == SubSeq(cs, 1, k)
<1>1. N \in Nat /\ k \in 1 .. N /\ \A i \in 1 .. N : cs[i] \in Nat
  BY LenProperties, ElementOfSeq
<1> HIDE DEF N
<1>2. k \in Nat /\ k \in Int /\ 1 \in Int /\ 1 <= k /\ 1 .. k \subseteq 1 .. N
  BY <1>1
<1>3. \A i \in 1 .. k : cs[i] \in Nat
  BY <1>1, <1>2
<1>4. /\ s \in Seq(Nat)
      /\ Len(s) = IF 1 <= k THEN k - 1 + 1 ELSE 0
      /\ \A i \in 1 .. k - 1 + 1 : s[i] = cs[1 + i - 1]
  BY <1>2, <1>3, SubSeqProperties
<1> HIDE DEF s
<1>5. Len(s) = k /\ \A i \in 1 .. k : s[i] = cs[i]
  <2>1. k - 1 + 1 = k /\ \A i \in 1 .. k : 1 + i - 1 = i
    BY <1>2
  <2> QED
    BY <1>2, <1>4, <2>1
<1>6. DOMAIN s = 1 .. k
  BY <1>4, <1>5, LenProperties
<1>7. ToSet(s) = {s[i] : i \in 1 .. k}
  BY <1>6 DEF ToSet
<1>8. b \in ToSet(s) <=> \E i \in 1 .. k : cs[i] = b
  BY <1>5, <1>7
<1> QED
  BY <1>8 DEF s

\* Retention leaves the end of the log, and no gap unless a removal fails.
LEMMA CleanKeeps ==
    ASSUME Good, CleanOldMessages
    PROVE  /\ Good'
           /\ \/ Spend("remove")
              \/ UNCHANGED budget /\ (Chained(file, seg, active) => Chained(file, seg, active)')
<1>1. PICK k \in 1 .. Len(closed) :
        LET closing == {b \in ToSet(SubSeq(closed, 1, k)) : seg[b].open}
        IN \E failed \in {{}} \cup {{b} : b \in closing} :
             LET removed == closing \ failed
             IN /\ IF failed = {} THEN UNCHANGED budget ELSE Spend("remove")
                /\ closing # {}
                /\ file' = [b \in DOMAIN file \ removed |-> file[b]]
                /\ seg' = [b \in DOMAIN seg |->
                              [seg[b] EXCEPT !.open = @ /\ b \notin closing]]
                /\ closed' = Without(closed, removed)
                /\ baseOffset' = First(closed')
                /\ UNCHANGED <<active, nextOffset, acked, written>>
  BY DEF CleanOldMessages
<1> DEFINE closing == {b \in ToSet(SubSeq(closed, 1, k)) : seg[b].open}
<1>2. PICK failed \in {{}} \cup {{b} : b \in closing} :
        LET removed == closing \ failed
        IN /\ IF failed = {} THEN UNCHANGED budget ELSE Spend("remove")
           /\ closing # {}
           /\ file' = [b \in DOMAIN file \ removed |-> file[b]]
           /\ seg' = [b \in DOMAIN seg |->
                         [seg[b] EXCEPT !.open = @ /\ b \notin closing]]
           /\ closed' = Without(closed, removed)
           /\ baseOffset' = First(closed')
           /\ UNCHANGED <<active, nextOffset, acked, written>>
  BY <1>1
<1> DEFINE removed == closing \ failed
<1>3. /\ Files(file, acked, active) /\ Handles(file, seg, active)
      /\ Listed(file, closed, active) /\ nextOffset = Len(acked)
      /\ active \in DOMAIN file
  BY DEF Good, Files
<1>4. /\ closed \in Seq(Nat) /\ Len(closed) \in Nat
      /\ \A i, j \in 1 .. Len(closed) : i < j => closed[i] < closed[j]
      /\ \A b : (\E i \in 1 .. Len(closed) : closed[i] = b) <=> b \in DOMAIN file /\ b # active
  BY <1>3, LenProperties DEF Listed
<1>5. \A b : b \in ToSet(SubSeq(closed, 1, k)) <=> \E i \in 1 .. k : closed[i] = b
  BY <1>4, PrefixSet
<1>6. \A i \in 1 .. k : i \in 1 .. Len(closed)
  BY <1>4
<1>7. active \notin closing /\ active \notin removed
  <2>1. active \notin ToSet(SubSeq(closed, 1, k))
    BY <1>4, <1>5, <1>6
  <2> QED
    BY <2>1
<1>8. /\ file' = [b \in DOMAIN file \ removed |-> file[b]]
      /\ seg' = [b \in DOMAIN seg |-> [seg[b] EXCEPT !.open = seg[b].open /\ b \notin closing]]
      /\ closed' = Without(closed, removed) /\ baseOffset' = First(closed')
      /\ active' = active /\ nextOffset' = nextOffset /\ acked' = acked
      /\ IF failed = {} THEN UNCHANGED budget ELSE Spend("remove")
  BY <1>2
<1>9. \A b : b \in closing <=> (\E i \in 1 .. k : closed[i] = b) /\ seg[b].open
  BY <1>5
<1> HIDE DEF closing
<1>10. failed = {} => removed = closing
  OBVIOUS
<1> HIDE DEF removed
<1>11. Files(file', acked, active)
  BY <1>3, <1>7, <1>8, FilesLess
<1>12. Handles(file', seg', active)
  BY <1>3, <1>7, <1>8, HandlesLess
<1>13. Listed(file', closed', active)
  <2>1. DOMAIN file' = DOMAIN file \ removed
    BY <1>8
  <2>2. /\ closed' \in Seq(Nat)
        /\ \A i, j \in 1 .. Len(closed') : i < j => closed'[i] < closed'[j]
        /\ \A b : (\E i \in 1 .. Len(closed') : closed'[i] = b)
                    <=> b \notin removed /\ \E i \in 1 .. Len(closed) : closed[i] = b
    <3>1. Increasing(closed)
      BY <1>4 DEF Increasing
    <3>2. Increasing(closed') /\ Leaves(closed', closed, removed)
      BY <1>8, <3>1, WithoutFacts
    <3> QED
      BY <3>2 DEF Increasing, Leaves
  <2>3. \A b : (\E i \in 1 .. Len(closed') : closed'[i] = b)
                    <=> b \in DOMAIN file' /\ b # active
    BY <1>4, <2>1, <2>2
  <2> QED
    BY <2>2, <2>3 DEF Listed
<1>14. baseOffset' = FirstOf(closed', active)
  BY <1>8 DEF First, FirstOf
<1>15. Good'
  BY <1>3, <1>8, <1>11, <1>12, <1>13, <1>14 DEF Good
<1>16. ASSUME failed = {}, Chained(file, seg, active)
       PROVE  Chained(file', seg', active)
  <2>1. \A b \in DOMAIN file : /\ seg[b].open = TRUE
                               /\ b # active => /\ Len(file[b]) # 0
                                                /\ b + Len(file[b]) \in DOMAIN file
    BY <1>16 DEF Chained
  <2>2. \A b : b \in closing <=> \E i \in 1 .. k : closed[i] = b
    <3>1. \A b : (\E i \in 1 .. k : closed[i] = b) => b \in DOMAIN file
      BY <1>4, <1>6
    <3> QED
      BY <1>9, <2>1, <3>1
  <2>3. ASSUME NEW b \in DOMAIN file'
        PROVE  /\ seg'[b].open = TRUE
               /\ b # active => /\ Len(file'[b]) # 0
                                /\ b + Len(file'[b]) \in DOMAIN file'
    <3>1. b \in DOMAIN file /\ b \notin closing /\ file'[b] = file[b]
      BY <1>8, <1>10, <1>16
    <3>2. seg'[b].open = TRUE
      <4>1. b \in DOMAIN seg /\ seg[b] = Handle(b, Len(file[b]), seg[b].open)
        BY <1>3, <3>1 DEF Handles
      <4>2. seg[b].open = TRUE
        BY <2>1, <3>1
      <4>3. (seg[b].open /\ b \notin closing) = TRUE
        BY <3>1, <4>2
      <4>4. seg'[b] = [seg[b] EXCEPT !.open = TRUE]
        BY <1>8, <4>1, <4>3
      <4>5. [Handle(b, Len(file[b]), TRUE) EXCEPT !.open = TRUE].open = TRUE
        BY DEF Handle
      <4> QED
        BY <4>1, <4>2, <4>4, <4>5
    <3>3. ASSUME b # active
          PROVE  /\ Len(file'[b]) # 0
                 /\ b + Len(file'[b]) \in DOMAIN file'
      <4> DEFINE c == b + Len(file[b])
      <4>1. Len(file[b]) # 0 /\ c \in DOMAIN file
        BY <2>1, <3>1, <3>3
      <4>2. b \in Nat /\ Len(file[b]) \in Nat /\ c \in Nat /\ b < c
        <5>1. b \in Nat /\ Len(file[b]) \in Nat
          BY <1>3, <3>1 DEF Files
        <5> QED
          BY <4>1, <5>1
      <4> HIDE DEF c
      <4>3. PICK i \in 1 .. Len(closed) : closed[i] = b
        BY <1>4, <3>1, <3>3
      <4>4. ~(i \in 1 .. k)
        BY <2>2, <3>1, <4>3
      <4>5. ASSUME NEW j \in 1 .. k, closed[j] = c PROVE FALSE
        <5>1. j < i
          BY <1>4, <4>4
        <5>2. j \in 1 .. Len(closed)
          BY <1>6
        <5>3. c < b
          BY <1>4, <4>3, <4>5, <5>1, <5>2
        <5> QED
          BY <4>2, <5>3
      <4>6. c \notin closing
        BY <2>2, <4>5
      <4>7. c \in DOMAIN file'
        BY <1>8, <1>10, <1>16, <4>1, <4>6
      <4> QED
        BY <3>1, <4>1, <4>7 DEF c
    <3> QED
      BY <3>2, <3>3
  <2> QED
    BY <2>3 DEF Chained
<1>17. Chained(file', seg', active) => Chained(file, seg, active)'
  BY <1>8
<1> QED
  BY <1>8, <1>15, <1>16, <1>17

-----------------------------------------------------------------------------
(* Recovery.                                                               *)

\* Recovery orders the files, and the last one becomes the active one.
LEMMA Recovered ==
    ASSUME NEW disk, NEW values, NEW t,
           NEW g, g = [b \in DOMAIN disk |-> Whole(disk[b])], Files(g, values, t),
           NEW bases, bases = InOrder(DOMAIN disk)
    PROVE  /\ Last(bases) = t
           /\ Listed(g, Front(bases), t)
           /\ bases[1] = FirstOf(Front(bases), t)
<1> DEFINE D == DOMAIN disk
           N == Cardinality(D)
           cs == Front(bases)
<1>1. DOMAIN g = D
  OBVIOUS
<1>2. /\ D \subseteq Nat /\ IsFiniteSet(D) /\ t \in D
      /\ \A b \in D : b <= t
  BY <1>1 DEF Files
<1>3. /\ N \in Nat
      /\ bases \in [1 .. N -> D]
      /\ \A m, n \in 1 .. N : m < n => bases[m] < bases[n]
      /\ \A x \in D : \E n \in 1 .. N : bases[n] = x
  BY <1>2, InOrderFacts
<1> HIDE DEF N, D
<1>4. \A n \in 1 .. N : bases[n] \in D /\ bases[n] \in Nat /\ bases[n] <= t
  BY <1>2, <1>3
<1>5. bases \in Seq(Nat) /\ Len(bases) = N
  <2>1. bases \in [1 .. N -> Nat]
    BY <1>2, <1>3
  <2> QED
    BY <1>3, <2>1
<1>6. N # 0 /\ bases[N] = t
  <2>1. PICK n \in 1 .. N : bases[n] = t
    BY <1>2, <1>3
  <2>2. N # 0 /\ N \in 1 .. N /\ (n = N \/ n < N)
    BY <1>3
  <2>3. ~(n < N)
    <3>1. n < N => bases[n] < bases[N]
      BY <1>3, <2>2
    <3>2. bases[N] \in Nat /\ bases[N] <= t /\ t \in Nat
      BY <1>2, <1>4, <2>2
    <3> QED
      BY <2>1, <3>1, <3>2
  <2> QED
    BY <2>1, <2>2, <2>3
<1>7. Last(bases) = t
  BY <1>5, <1>6 DEF Last
<1>8. cs = SubSeq(bases, 1, N - 1)
  BY <1>5 DEF Front
<1> DEFINE M == N - 1
<1>9. M \in Nat /\ M \in Int /\ 1 \in Int /\ N = M + 1 /\ \A i \in 1 .. M : i \in 1 .. N
  BY <1>3, <1>6
<1>10. cs \in Seq(Nat) /\ Len(cs) = M /\ \A i \in 1 .. M : cs[i] = bases[i]
  <2>1. \A i \in 1 .. M : bases[i] \in Nat
    BY <1>4, <1>9
  <2> HIDE DEF cs, M
  <2>2. cs = SubSeq(bases, 1, M)
    BY <1>8 DEF M
  <2>3. /\ cs \in Seq(Nat)
        /\ Len(cs) = IF 1 <= M THEN M - 1 + 1 ELSE 0
        /\ \A i \in 1 .. M - 1 + 1 : cs[i] = bases[1 + i - 1]
    BY <1>9, <2>1, <2>2, SubSeqProperties
  <2>4. M - 1 + 1 = M /\ \A i \in 1 .. M : 1 + i - 1 = i
    BY <1>9
  <2> QED
    BY <1>9, <2>3, <2>4
<1> HIDE DEF cs, M
<1>11. \A i, j \in 1 .. Len(cs) : i < j => cs[i] < cs[j]
  BY <1>3, <1>9, <1>10
<1>12. \A b : (\E i \in 1 .. Len(cs) : cs[i] = b) <=> b \in DOMAIN g /\ b # t
  <2> TAKE b
  <2>1. ASSUME NEW i \in 1 .. Len(cs), cs[i] = b PROVE b \in D /\ b # t
    <3>1. i \in 1 .. N /\ N \in 1 .. N /\ i < N /\ bases[i] = b
      BY <1>9, <1>10, <2>1
    <3>2. bases[i] < bases[N] /\ bases[i] \in Nat /\ bases[i] \in D
      BY <1>3, <1>4, <3>1
    <3> QED
      BY <1>6, <3>1, <3>2
  <2>2. ASSUME b \in D, b # t PROVE \E i \in 1 .. Len(cs) : cs[i] = b
    <3>1. PICK n \in 1 .. N : bases[n] = b
      BY <1>3, <2>2
    <3>2. n # N
      BY <1>6, <2>2, <3>1
    <3>3. n \in 1 .. M
      BY <1>9, <3>2
    <3> QED
      BY <1>10, <3>1, <3>3
  <2> QED
    BY <1>1, <2>1, <2>2
<1>13. Listed(g, cs, t)
  BY <1>10, <1>11, <1>12 DEF Listed
<1>14. bases[1] = FirstOf(cs, t)
  <2>1. CASE M = 0
    <3>1. cs = <<>> /\ N = 1
      BY <1>9, <1>10, <2>1, EmptySeq
    <3> QED
      BY <1>6, <3>1 DEF FirstOf
  <2>2. CASE M # 0
    <3>1. cs # <<>> /\ 1 \in 1 .. M
      BY <1>9, <1>10, <2>2, EmptySeq
    <3> QED
      BY <1>10, <3>1 DEF FirstOf
  <2> QED
    BY <2>1, <2>2
<1> QED
  BY <1>7, <1>13, <1>14 DEF cs

\* Recovery finds every record, and opens every segment.
LEMMA RecoveredHandles ==
    ASSUME NEW disk, NEW values, NEW t,
           NEW g, g = [b \in DOMAIN disk |-> Whole(disk[b])], Files(g, values, t),
           NEW r, r = [b \in DOMAIN disk |-> NewSegment(b, disk[b])]
    PROVE  /\ Handles(g, r, t)
           /\ \A b \in DOMAIN g : r[b].open = TRUE
<1>1. ASSUME NEW b \in DOMAIN g
      PROVE  b \in DOMAIN r /\ r[b] = Handle(b, Len(g[b]), TRUE) /\ r[b].open = TRUE
  <2>1. b \in DOMAIN disk /\ g[b] = Whole(disk[b]) /\ r[b] = NewSegment(b, disk[b])
    OBVIOUS
  <2>2. Fits(values, b, Len(g[b])) /\ g[b] = Slice(values, b, Len(g[b]))
    BY DEF Files
  <2> DEFINE n == Len(g[b])
  <2>3. Fits(values, b, n) /\ Whole(disk[b]) = Slice(values, b, n)
    BY <2>1, <2>2
  <2> HIDE DEF n
  <2>4. r[b] = Handle(b, n, TRUE)
    BY <2>1, <2>3, NewSegmentIs
  <2>5. r[b].open = TRUE
    BY <2>4 DEF Handle
  <2>6. b \in DOMAIN r
    BY <2>1
  <2> QED
    BY <2>4, <2>5, <2>6 DEF n
<1>2. t \in DOMAIN g
  BY DEF Files
<1>4. \A b \in DOMAIN g : r[b].open \in BOOLEAN /\ r[b] = Handle(b, Len(g[b]), r[b].open)
  BY <1>1
<1>5. Handles(g, r, t)
  BY <1>1, <1>2, <1>4 DEF Handles
<1> QED
  BY <1>1, <1>5

\* What a crash leaves is recovered to these values, with t as the last file
\* and x in it: those of the log, and it may be the record being written.
RecoversTo(left, t, x, values) ==
    /\ IsNext(file, active, t)
    /\ [b \in DOMAIN left |-> Whole(left[b])] = Put(file, t, x)
    /\ Files(Put(file, t, x), values, t)
    /\ values = acked \/ (x # <<>> /\ values = Append(acked, Last(x).val))

\* What a crash leaves on the disk can be recovered.
LEMMA CrashLeaves ==
    ASSUME Good, Counters, NEW left \in {file} \cup CrashFiles
    PROVE  \E t, x, values : RecoversTo(left, t, x, values)
<1>1. /\ Files(file, acked, active) /\ acked \in Seq(Nat) /\ nextOffset = Len(acked)
      /\ active \in DOMAIN file /\ active \in Nat
  BY DEF Good, Files
<1>2. \A b \in DOMAIN file : Whole(file[b]) = file[b]
  BY <1>1, WholeSlice DEF Files
<1>3. CASE left = file
  <2> DEFINE n == Len(file[active])
             x == Slice(acked, active, n)
  <2>1. x = file[active] /\ active + n = Len(acked) /\ n \in Nat
    BY <1>1 DEF Files
  <2>2. Follows(acked, acked, active, n)
    BY <1>1, <2>1 DEF Follows
  <2> HIDE DEF n
  <2>3. IsNext(file, active, active)
    BY DEF IsNext
  <2>4. Files(Put(file, active, x), acked, active)
    BY <1>1, <2>2, <2>3, FilesWith
  <2> HIDE DEF x
  <2>5. [b \in DOMAIN left |-> Whole(left[b])] = Put(file, active, x)
    <3>1. DOMAIN file \cup {active} = DOMAIN file
      BY <1>1
    <3>2. \A b \in DOMAIN file : Whole(left[b]) = IF b = active THEN x ELSE file[b]
      BY <1>2, <1>3, <2>1
    <3> QED
      BY <1>3, <3>1, <3>2 DEF Put
  <2> QED
    BY <2>3, <2>4, <2>5 DEF RecoversTo
<1>4. CASE left # file
  <2> DEFINE torn == [NewRecord EXCEPT !.val = Torn]
  <2>1. PICK tail \in {<<>>, <<torn>>, <<NewRecord>>} :
           left = Put(file, Target, TargetFile \o tail)
    BY <1>4 DEF CrashFiles
  <2>2. Target \in Nat /\ IsNext(file, active, Target)
    BY TargetFacts
  <2>3. PICK m \in Nat : /\ Target + m = Len(acked)
                         /\ Fits(acked, Target, m)
                         /\ TargetFile = Slice(acked, Target, m)
    BY TargetFacts
  <2>4. TargetFile \in Seq(Entry) /\ Whole(TargetFile) = TargetFile
    BY <2>3, SliceIs, WholeSlice DEF Holds
  <2>5. written + 1 \in Nat /\ NewRecord = [off |-> Target + m, val |-> written + 1]
    BY <1>1, <2>3 DEF Counters, NewRecord
  <2>6. NewRecord \in Entry /\ torn \in Entry /\ torn.val = Torn /\ NewRecord.val = written + 1
    <3>1. torn = [off |-> Target + m, val |-> Torn]
      BY <2>5
    <3>2. Target + m \in Nat
      BY <2>2
    <3> QED
      BY <2>5, <3>1, <3>2 DEF Entry
  <2> HIDE DEF torn
  <2> DEFINE content == TargetFile \o tail
  <2>7. ASSUME NEW x, Whole(content) = x
        PROVE  [b \in DOMAIN left |-> Whole(left[b])] = Put(file, Target, x)
    <3> HIDE DEF content
    <3>1. left = Put(file, Target, content)
      BY <2>1 DEF content
    <3>2. DOMAIN left = DOMAIN file \cup {Target}
      BY <3>1 DEF Put
    <3>3. \A b \in DOMAIN left : Whole(left[b]) = IF b = Target THEN x ELSE file[b]
      <4> TAKE b \in DOMAIN left
      <4>1. left[b] = IF b = Target THEN content ELSE file[b]
        BY <3>1, <3>2 DEF Put
      <4>2. b # Target => Whole(left[b]) = file[b]
        BY <1>2, <3>2, <4>1
      <4>3. b = Target => Whole(left[b]) = x
        BY <2>7, <4>1
      <4> QED
        BY <4>2, <4>3
    <3> QED
      BY <3>2, <3>3 DEF Put
  <2>8. CASE tail = <<>> \/ tail = <<torn>>
    <3>1. Whole(content) = TargetFile
      <4>1. tail = <<>> => content = TargetFile
        BY <2>4, ConcatEmptySeq
      <4>2. tail = <<torn>> => content = Append(TargetFile, torn)
        BY <2>4, <2>6, AppendIsConcat
      <4>3. Whole(Append(TargetFile, torn)) = TargetFile
        BY <2>4, <2>6, WholeTorn
      <4> QED
        BY <2>4, <2>8, <4>1, <4>2, <4>3
    <3> HIDE DEF content
    <3>2. [b \in DOMAIN left |-> Whole(left[b])] = Put(file, Target, TargetFile)
      BY <2>7, <3>1
    <3>3. Follows(acked, acked, Target, m)
      BY <1>1, <2>3 DEF Follows
    <3>4. Files(Put(file, Target, TargetFile), acked, Target)
      BY <1>1, <2>2, <2>3, <3>3, FilesWith
    <3>5. RecoversTo(left, Target, TargetFile, acked)
      BY <2>2, <3>2, <3>4 DEF RecoversTo
    <3> QED
      BY <3>5
  <2>9. CASE tail = <<NewRecord>>
    <3> DEFINE x == Append(TargetFile, NewRecord)
               values == Append(acked, written + 1)
    <3>1. content = x
      BY <2>4, <2>6, <2>9, AppendIsConcat
    <3>2. x = Slice(values, Target, m + 1) /\ Fits(values, Target, m + 1)
      BY <1>1, <2>2, <2>3, <2>5, LongerSlice
    <3>3. x # <<>> /\ Last(x) = NewRecord
      <4>1. Len(x) = Len(TargetFile) + 1 /\ x[Len(TargetFile) + 1] = NewRecord /\ x # <<>>
        BY <2>4, <2>6, AppendProperties
      <4> QED
        BY <4>1 DEF Last
    <3>4. Follows(values, acked, Target, m + 1)
      <4>1. /\ values \in Seq(Nat) /\ Len(values) = Len(acked) + 1
            /\ \A i \in 1 .. Len(acked) : values[i] = acked[i]
        BY <1>1, <2>5, AppendProperties
      <4> HIDE DEF values
      <4>2. m + 1 \in Nat /\ Target + (m + 1) = Len(values)
        <5>1. Len(values) = (Target + m) + 1
          BY <2>3, <4>1
        <5>2. Target \in Nat /\ m \in Nat
          BY <2>2
        <5> QED
          BY <5>1, <5>2
      <4>3. \A i \in 1 .. Target : values[i] = acked[i]
        BY <2>2, <2>3, <4>1
      <4> QED
        BY <4>1, <4>2, <4>3 DEF Follows
    <3> HIDE DEF values, x, content
    <3>5. Whole(content) = x
      BY <3>1, <3>2, WholeSlice
    <3>6. [b \in DOMAIN left |-> Whole(left[b])] = Put(file, Target, x)
      BY <2>7, <3>5
    <3>7. Files(Put(file, Target, x), values, Target)
      BY <1>1, <2>2, <3>2, <3>4, FilesWith
    <3>8. RecoversTo(left, Target, x, values)
      BY <2>2, <2>6, <3>3, <3>6, <3>7 DEF RecoversTo, values
    <3> QED
      BY <3>8
  <2> QED
    BY <2>1, <2>8, <2>9
<1> QED
  BY <1>3, <1>4

\* After a crash the log has what it had, and it may be one record more.
LEMMA RestartKeeps ==
    ASSUME Good, Counters, Restart
    PROVE  /\ Good'
           /\ Chained(file, seg, active) => Chained(file, seg, active)'
           /\ baseOffset' \in DOMAIN file' /\ IsNext(file, active, active')
           /\ DOMAIN file' = DOMAIN file \cup {active'}
<1>1. PICK left \in {file} \cup CrashFiles :
         LET disk == IF left = <<>> THEN [b \in {0} |-> <<>>] ELSE left
             bases == InOrder(DOMAIN disk)
             tail == Whole(disk[Last(bases)])
         IN /\ file' = [b \in DOMAIN disk |-> Whole(disk[b])]
            /\ seg' = [b \in DOMAIN disk |-> NewSegment(b, disk[b])]
            /\ closed' = Front(bases)
            /\ active' = Last(bases)
            /\ baseOffset' = bases[1]
            /\ nextOffset' = seg'[active'].next
            /\ acked' = IF nextOffset' = Len(acked) + 1 /\ tail # <<>>
                        THEN Append(acked, Last(tail).val)
                        ELSE acked
  BY DEF Restart, CrashFiles
<1>2. PICK t, x, values : RecoversTo(left, t, x, values)
  BY CrashLeaves
<1>3. /\ IsNext(file, active, t)
      /\ [b \in DOMAIN left |-> Whole(left[b])] = Put(file, t, x)
      /\ Files(Put(file, t, x), values, t)
      /\ values = acked \/ (x # <<>> /\ values = Append(acked, Last(x).val))
  BY <1>2 DEF RecoversTo
<1>4. DOMAIN Put(file, t, x) = DOMAIN file \cup {t} /\ Put(file, t, x)[t] = x
  BY DEF Put
<1>5. t \in DOMAIN left /\ left # <<>> /\ Whole(left[t]) = x
  <2>1. DOMAIN left = DOMAIN Put(file, t, x)
    BY <1>3
  <2>2. t \in DOMAIN left
    BY <1>4, <2>1
  <2>3. Put(file, t, x)[t] = Whole(left[t])
    BY <1>3, <2>2
  <2>4. left # <<>>
    BY <2>2
  <2> QED
    BY <1>4, <2>2, <2>3, <2>4
<1> DEFINE bases == InOrder(DOMAIN left)
<1>6. /\ file' = [b \in DOMAIN left |-> Whole(left[b])]
      /\ seg' = [b \in DOMAIN left |-> NewSegment(b, left[b])]
      /\ closed' = Front(bases)
      /\ active' = Last(bases)
      /\ baseOffset' = bases[1]
      /\ nextOffset' = seg'[active'].next
      /\ acked' = IF nextOffset' = Len(acked) + 1 /\ Whole(left[Last(bases)]) # <<>>
                  THEN Append(acked, Last(Whole(left[Last(bases)])).val)
                  ELSE acked
  BY <1>1, <1>5
<1> HIDE DEF bases
<1>7. file' = Put(file, t, x) /\ Files(file', values, t)
  BY <1>3, <1>6
<1>8. Last(bases) = t /\ Listed(file', Front(bases), t) /\ bases[1] = FirstOf(Front(bases), t)
  BY <1>6, <1>7, Recovered DEF bases
<1>9. /\ Handles(file', seg', t)
      /\ \A b \in DOMAIN file' : seg'[b].open = TRUE
      /\ seg'[t].next = Len(values)
  <2>1. Handles(file', seg', t)
    BY <1>6, <1>7, RecoveredHandles
  <2>2. \A b \in DOMAIN file' : seg'[b].open = TRUE
    BY <1>6, <1>7, RecoveredHandles
  <2>3. seg'[t].next = Len(values)
    <3> DEFINE n == Len(file'[t])
               q == seg'[t].open
    <3>1. t \in DOMAIN file' /\ t + n = Len(values)
      BY <1>7 DEF Files
    <3>2. seg'[t] = Handle(t, n, q)
      BY <2>1, <3>1 DEF Handles
    <3> HIDE DEF n, q
    <3>3. Handle(t, n, q).next = t + n
      BY DEF Handle
    <3> QED
      BY <3>1, <3>2, <3>3
  <2> QED
    BY <2>1, <2>2, <2>3
<1>10. active' = t /\ nextOffset' = Len(values)
  BY <1>6, <1>8, <1>9
<1>11. acked' = values
  <2>1. acked \in Seq(Nat) /\ Len(acked) \in Nat
    BY LenProperties DEF Good, Files
  <2>2. CASE values = acked
    <3>1. nextOffset' # Len(acked) + 1
      BY <1>10, <2>1, <2>2
    <3> QED
      BY <1>6, <2>2, <3>1
  <2>3. CASE x # <<>> /\ values = Append(acked, Last(x).val)
    <3>1. Len(values) = Len(acked) + 1
      BY <2>1, <2>3 
    <3> QED
      BY <1>5, <1>6, <1>8, <1>10, <2>3, <3>1
  <2> QED
    BY <1>3, <2>2, <2>3
<1>12. Good'
  BY <1>6, <1>7, <1>8, <1>9, <1>10, <1>11 DEF Good
<1>13. Chained(file, seg, active) => Chained(file', seg', t)
  <2> HAVE Chained(file, seg, active)
  <2>1. Files(file, acked, active) /\ Handles(file, seg, active)
    BY DEF Good
  <2>2. Chained(Put(file, t, x), Put(seg, t, Handle(t, 0, TRUE)), t)
    BY <1>3, <2>1, ChainedWith
  <2>3. \A b \in DOMAIN file' : b # t => Len(file'[b]) # 0 /\ b + Len(file'[b]) \in DOMAIN file'
    BY <1>7, <2>2 DEF Chained
  <2> QED
    BY <1>9, <2>3 DEF Chained
<1>14. baseOffset' \in DOMAIN file'
  BY <1>6, <1>7, <1>8, FirstIsLeast
<1> QED
  BY <1>3, <1>4, <1>7, <1>10, <1>12, <1>13, <1>14

-----------------------------------------------------------------------------
(* The steps.                                                              *)

\* An empty partition satisfies the invariant.
LEMMA InitInv == Init => IInv
<1> SUFFICES ASSUME Init PROVE IInv
  OBVIOUS
<1>1. /\ file = [b \in {0} |-> <<>>] /\ seg = [b \in {0} |-> NewSegment(0, <<>>)]
      /\ closed = <<>> /\ active = 0 /\ baseOffset = 0 /\ nextOffset = 0
      /\ acked = <<>> /\ written = 0 /\ budget = MaxFaults
  BY DEF Init
<1>2. acked \in Seq(Nat) /\ Len(acked) = 0 /\ Len(closed) = 0 /\ closed \in Seq(Nat)
  BY <1>1, EmptySeq
<1>3. /\ Fits(acked, 0, 0) /\ Slice(acked, 0, 0) = <<>>
      /\ NewSegment(0, <<>>) = Handle(0, 0, TRUE)
  <2>1. 0 \in Nat /\ 0 <= Len(acked)
    BY <1>2
  <2> QED
    BY <1>2, <2>1, NewFileIs
<1>4. DOMAIN file = {0} /\ file[0] = <<>> /\ Len(file[0]) = 0
  BY <1>1, EmptySeq
<1>5. DOMAIN seg = {0} /\ seg[0] = Handle(0, 0, TRUE) /\ seg[0].open = TRUE
  BY <1>1, <1>3 DEF Handle
<1>6. Files(file, acked, active)
  <2>1. IsFiniteSet(DOMAIN file)
    BY <1>4, FS_Singleton
  <2> QED
    BY <1>1, <1>2, <1>3, <1>4, <2>1 DEF Files
<1>7. Handles(file, seg, active)
  BY <1>1, <1>4, <1>5 DEF Handles
<1>8. Listed(file, closed, active)
  BY <1>1, <1>2, <1>4 DEF Listed
<1>9. Good
  BY <1>1, <1>2, <1>6, <1>7, <1>8 DEF Good, FirstOf
<1>10. Chained(file, seg, active)
  BY <1>1, <1>4, <1>5 DEF Chained
<1>11. Counters
  BY <1>1, LogAssumption DEF Counters
<1> QED
  BY <1>9, <1>10, <1>11 DEF IInv

\* A fault is paid for: what never failed did not fail before.
LEMMA Spending ==
    ASSUME Counters, UNCHANGED budget \/ \E kind \in FaultKind : Spend(kind)
    PROVE  /\ budget' \in [FaultKind -> Nat]
           /\ \A k \in FaultKind : budget'[k] <= MaxFaults[k]
           /\ \A k \in FaultKind : Never(k)' => Never(k)
           /\ \A k \in FaultKind : Spend(k) => ~Never(k)'
<1>1. /\ budget \in [FaultKind -> Nat] /\ MaxFaults \in [FaultKind -> Nat]
      /\ \A k \in FaultKind : budget[k] <= MaxFaults[k]
  BY LogAssumption DEF Counters
<1>2. CASE UNCHANGED budget
  <2>1. \A k \in FaultKind : ~Spend(k)
    <3> TAKE k \in FaultKind
    <3>1. budget[k] \in Nat /\ budget'[k] = budget[k]
      BY <1>1, <1>2
    <3>2. Spend(k) => budget'[k] = budget[k] - 1
      BY <1>1 DEF Spend
    <3> QED
      BY <3>1, <3>2
  <2> QED
    BY <1>1, <1>2, <2>1 DEF Never
<1>3. ASSUME NEW kind \in FaultKind, Spend(kind)
      PROVE  /\ budget' \in [FaultKind -> Nat]
             /\ \A k \in FaultKind : budget'[k] <= MaxFaults[k]
             /\ \A k \in FaultKind : Never(k)' => Never(k)
             /\ \A k \in FaultKind : Spend(k) => ~Never(k)'
  <2>1. budget[kind] > 0 /\ budget' = [budget EXCEPT ![kind] = budget[kind] - 1]
    BY <1>3 DEF Spend
  <2>2. budget[kind] \in Nat /\ budget[kind] - 1 \in Nat /\ budget[kind] - 1 < budget[kind]
    BY <1>1, <2>1
  <2>3. budget' \in [FaultKind -> Nat]
    BY <1>1, <2>1, <2>2
  <2>4. \A k \in FaultKind : /\ budget[k] \in Nat /\ MaxFaults[k] \in Nat /\ budget'[k] \in Nat
                             /\ budget[k] <= MaxFaults[k]
                             /\ budget'[k] <= budget[k]
                             /\ k = kind => budget'[k] < budget[k]
    BY <1>1, <2>1, <2>2
  <2>5. \A k \in FaultKind : budget'[k] <= MaxFaults[k]
    BY <2>4
  <2>6. \A k \in FaultKind : Never(k)' => Never(k)
    <3> TAKE k \in FaultKind
    <3>1. budget'[k] = MaxFaults[k] => budget[k] = MaxFaults[k]
      BY <2>4
    <3> QED
      BY <3>1 DEF Never
  <2>7. \A k \in FaultKind : Spend(k) => ~Never(k)'
    <3> TAKE k \in FaultKind
    <3>1. Spend(k) => budget'[k] = budget[k] - 1
      BY <1>1 DEF Spend
    <3>2. budget[k] \in Nat /\ MaxFaults[k] \in Nat /\ budget[k] <= MaxFaults[k]
      BY <2>4
    <3>3. Spend(k) => budget'[k] # MaxFaults[k]
      BY <3>1, <3>2
    <3> QED
      BY <3>3 DEF Never
  <2> QED
    BY <2>3, <2>5, <2>6, <2>7
<1> QED
  BY <1>2, <1>3

\* Every step keeps the invariant.
LEMMA StepInv == IInv /\ [Next]_vars => IInv'
<1> SUFFICES ASSUME IInv, [Next]_vars PROVE IInv'
  OBVIOUS
<1>1. Counters
  BY DEF IInv
<1>2. /\ UNCHANGED budget \/ \E kind \in FaultKind : Spend(kind)
      /\ written' \in Nat
  <2>1. written \in Nat /\ written + 1 \in Nat
    BY <1>1 DEF Counters
  <2>2. {"write", "sync", "rotate", "remove", "crash"} \subseteq FaultKind
    BY DEF FaultKind
  <2>3. CASE AppendLocked
    BY <2>1, <2>3 DEF AppendLocked
  <2>4. CASE RotationFails
    BY <2>1, <2>2, <2>4 DEF RotationFails
  <2>5. CASE WriteFails
    BY <2>1, <2>2, <2>5 DEF WriteFails
  <2>6. CASE SyncFails
    BY <2>1, <2>2, <2>6 DEF SyncFails
  <2>7. CASE InvalidateOffset
    BY <2>1, <2>7 DEF InvalidateOffset
  <2>8. CASE InvalidateSyncFails
    BY <2>1, <2>2, <2>8 DEF InvalidateSyncFails
  <2>9. CASE CleanOldMessages
    <3>1. written' = written /\ (UNCHANGED budget \/ Spend("remove"))
      BY <2>9 DEF CleanOldMessages
    <3> QED
      BY <2>1, <2>2, <3>1
  <2>10. CASE Restart
    BY <2>1, <2>2, <2>10 DEF Restart
  <2>11. CASE UNCHANGED vars
    BY <2>1, <2>11 DEF vars
  <2> QED
    BY <2>3, <2>4, <2>5, <2>6, <2>7, <2>8, <2>9, <2>10, <2>11 DEF Next
<1>3. /\ Never("sync")' => Never("sync")
      /\ Never("rotate")' => Never("rotate")
      /\ Never("remove")' => Never("remove")
      /\ Spend("sync") => ~Never("sync")'
      /\ Spend("rotate") => ~Never("rotate")'
      /\ Spend("remove") => ~Never("remove")'
  BY <1>1, <1>2, Spending DEF FaultKind
<1>4. Counters'
  BY <1>1, <1>2, Spending DEF Counters
<1>5. ASSUME Never("sync")', Never("rotate")'
      PROVE  /\ Good'
             /\ \/ ~Never("remove")'
                \/ Chained(file, seg, active) => Chained(file, seg, active)'
  <2>1. Good
    BY <1>3, <1>5 DEF IInv
  <2>2. CASE AppendLocked
    BY <1>1, <2>1, <2>2, AppendKeeps
  <2>3. CASE RotationFails
    BY <1>3, <1>5, <2>3 DEF RotationFails
  <2>4. CASE WriteFails
    BY <2>1, <2>4, WriteFailsKeeps
  <2>5. CASE SyncFails
    BY <1>3, <1>5, <2>5 DEF SyncFails
  <2>6. CASE InvalidateOffset
    BY <2>1, <2>6, InvalidateKeeps
  <2>7. CASE InvalidateSyncFails
    <3>1. seg[active].open = TRUE
      BY <2>1 DEF Good, Handles
    <3> QED
      BY <1>3, <1>5, <2>7, <3>1 DEF InvalidateSyncFails
  <2>8. CASE CleanOldMessages
    BY <1>3, <2>1, <2>8, CleanKeeps
  <2>9. CASE Restart
    BY <1>1, <2>1, <2>9, RestartKeeps
  <2>10. CASE UNCHANGED vars
    BY <2>1, <2>10 DEF vars, Good
  <2> QED
    BY <2>2, <2>3, <2>4, <2>5, <2>6, <2>7, <2>8, <2>9, <2>10 DEF Next
<1>6. ASSUME Never("sync")', Never("rotate")', Never("remove")'
      PROVE  Chained(file, seg, active)'
  BY <1>3, <1>5, <1>6 DEF IInv
<1> QED
  BY <1>4, <1>5, <1>6 DEF IInv

\* Whatever fails besides fsyncs and rotations, the files on the disk and the
\* handles of the process hold the log (IInv).
THEOREM Invariant == Spec => []IInv
<1> QED
  BY InitInv, StepInv, PTL DEF Spec

-----------------------------------------------------------------------------
(* Reads.                                                                  *)

\* The closed segments and the active one are the files.
LEMMA InToSet ==
    ASSUME Good, NEW b
    PROVE  /\ b \in ToSet(closed) <=> \E i \in 1 .. Len(closed) : closed[i] = b
           /\ b \in ToSet(closed) \cup {active} <=> b \in DOMAIN file
<1>1. closed \in Seq(Nat) /\ DOMAIN closed = 1 .. Len(closed) /\ active \in DOMAIN file
  BY LenProperties DEF Good, Listed, Files
<1>2. b \in ToSet(closed) <=> \E i \in 1 .. Len(closed) : closed[i] = b
  BY <1>1 DEF ToSet
<1>3. (\E i \in 1 .. Len(closed) : closed[i] = b) <=> b \in DOMAIN file /\ b # active
  BY DEF Good, Listed
<1> QED
  BY <1>1, <1>2, <1>3

\* findSegment finds a file that has the offset, if one has it.
LEMMA FindSegmentFinds ==
    ASSUME Good, NEW o, InLog(o)
    PROVE  FindSegment(o) \in DOMAIN file /\ Spans(FindSegment(o), o)
<1>1. CASE \E b \in ToSet(closed) : Spans(b, o)
  <2> DEFINE S == {i \in 1 .. Len(closed) : Spans(closed[i], o)}
  <2>1. DOMAIN closed = 1 .. Len(closed) /\ Len(closed) \in Nat
    BY LenProperties DEF Good, Listed
  <2>2. S # {} /\ S \subseteq Nat
    BY <1>1, <2>1, InToSet
  <2>3. PICK x \in S : \A y \in S : x <= y
    BY <2>2, NatMin
  <2>4. \A j \in 1 .. x - 1 : ~Spans(closed[j], o)
    <3> TAKE j \in 1 .. x - 1
    <3>1. x \in 1 .. Len(closed) /\ x \in Nat
      BY <2>3
    <3>2. j \in 1 .. Len(closed) /\ ~(x <= j)
      BY <2>1, <3>1
    <3> QED
      BY <2>3, <3>2
  <2> DEFINE i == CHOOSE i \in DOMAIN closed :
                    /\ Spans(closed[i], o)
                    /\ \A j \in 1 .. i - 1 : ~Spans(closed[j], o)
  <2>5. i \in DOMAIN closed /\ Spans(closed[i], o)
    <3>1. x \in DOMAIN closed /\ Spans(closed[x], o)
      BY <2>1, <2>3
    <3> QED
      BY <2>4, <3>1
  <2>6. FindSegment(o) = closed[i]
    BY <1>1 DEF FindSegment
  <2> HIDE DEF i
  <2>7. closed[i] \in ToSet(closed)
    BY <2>1, <2>5, InToSet
  <2> QED
    BY <2>5, <2>6, <2>7, InToSet
<1>2. CASE ~\E b \in ToSet(closed) : Spans(b, o)
  <2>1. FindSegment(o) = active
    BY <1>2 DEF FindSegment
  <2>2. Spans(active, o)
    BY <1>2 DEF InLog
  <2> QED
    BY <2>1, <2>2 DEF Good, Files
<1> QED
  BY <1>1, <1>2

\* What the file of a segment has at an offset it spans.
LEMMA SpannedRead ==
    ASSUME Good, NEW b \in DOMAIN file, NEW o \in Nat, Spans(b, o)
    PROVE  /\ Readable(seg[b], Content(b), o) <=> seg[b].open = TRUE
           /\ RecordAt(seg[b], Content(b), o) = [off |-> o, val |-> acked[o + 1]]
<1> DEFINE n == Len(file[b])
           q == seg[b].open
<1>1. b \in Nat /\ n \in Nat /\ Fits(acked, b, n) /\ file[b] = Slice(acked, b, n)
  BY DEF Good, Files
<1>2. q \in BOOLEAN /\ seg[b] = Handle(b, n, q)
  BY DEF Good, Handles
<1>3. Content(b) = Slice(acked, b, n)
  BY <1>1 DEF Content
<1> HIDE DEF n, q
<1>4. Handle(b, n, q).next = b + n
  BY DEF Handle
<1>5. o \in b .. (b + n - 1)
  <2>1. b <= o /\ o < b + n
    BY <1>2, <1>4 DEF Spans
  <2> QED
    BY <1>1, <2>1
<1>6. Readable(Handle(b, n, q), Slice(acked, b, n), o) <=> q = TRUE
  <2>1. Fits(acked, b, n) /\ q \in BOOLEAN
    BY <1>1, <1>2
  <2> QED
    BY <1>5, <2>1, ReadSlice
<1>7. RecordAt(Handle(b, n, q), Slice(acked, b, n), o)
        = [off |-> o, val |-> acked[o + 1]]
  <2>1. Fits(acked, b, n) /\ q \in BOOLEAN
    BY <1>1, <1>2
  <2> QED
    BY <1>5, <2>1, ReadSlice
<1> QED
  BY <1>2, <1>3, <1>6, <1>7 DEF q

\* The invariant gives what a read returns.
LEMMA InvReads == IInv => ReadsBackStored
<1> SUFFICES ASSUME IInv, Never("sync"), Never("rotate")
             PROVE  /\ nextOffset = Len(acked)
                    /\ \A o \in 0 .. (nextOffset - 1) : CanRead(o) =>
                          Read(o) = [off |-> o, val |-> acked[o + 1]]
  BY DEF ReadsBackStored
<1>1. Good
  BY DEF IInv
<1>2. ASSUME NEW o \in 0 .. (nextOffset - 1), CanRead(o)
      PROVE  Read(o) = [off |-> o, val |-> acked[o + 1]]
  <2> DEFINE b == FindSegment(o)
  <2>1. InLog(o) /\ o \in Nat
    BY <1>2 DEF CanRead
  <2>2. b \in DOMAIN file /\ Spans(b, o)
    BY <1>1, <2>1, FindSegmentFinds
  <2>3. Read(o) = RecordAt(seg[b], Content(b), o)
    BY DEF Read
  <2> HIDE DEF b
  <2> QED
    BY <1>1, <2>1, <2>2, <2>3, SpannedRead
<1> QED
  BY <1>1, <1>2 DEF Good

\* The invariant gives what can be read.
LEMMA InvReadable == IInv => ReadableFromBase
<1> SUFFICES ASSUME IInv, Never("sync"), Never("rotate"), Never("remove"),
                    NEW o \in baseOffset .. (nextOffset - 1)
             PROVE  CanRead(o)
  BY DEF ReadableFromBase
<1>1. Good /\ Chained(file, seg, active)
  BY DEF IInv
<1>2. /\ \A b \in DOMAIN file : b \in Nat /\ Len(file[b]) \in Nat /\ b <= active
      /\ active \in DOMAIN file /\ active + Len(file[active]) = nextOffset
      /\ nextOffset \in Nat
  BY <1>1, LenProperties DEF Good, Files
<1>3. baseOffset \in DOMAIN file /\ baseOffset \in Nat
  BY <1>1, FirstIsLeast DEF Good
<1>4. o \in Nat /\ baseOffset <= o /\ o < nextOffset
  BY <1>2, <1>3
<1> DEFINE S == {o - b : b \in {c \in DOMAIN file : c <= o}}
<1>5. S \subseteq Nat /\ S # {}
  <2>1. \A b \in DOMAIN file : b <= o => o - b \in Nat
    BY <1>2, <1>4
  <2>2. o - baseOffset \in S
    BY <1>3, <1>4
  <2> QED
    BY <2>1, <2>2
<1>6. PICK x \in S : \A y \in S : x <= y
  BY <1>5, NatMin
<1>7. PICK b \in DOMAIN file : b <= o /\ x = o - b
  BY <1>6
<1>8. \A c \in DOMAIN file : c <= o => c <= b
  <2> TAKE c \in DOMAIN file
  <2> HAVE c <= o
  <2>1. o - b <= o - c
    BY <1>6, <1>7
  <2> QED
    BY <1>2, <1>4, <2>1
<1>9. o < b + Len(file[b])
  <2>1. CASE b = active
    BY <1>2, <1>4, <2>1
  <2>2. CASE b # active
    <3> DEFINE c == b + Len(file[b])
    <3>1. Len(file[b]) # 0 /\ c \in DOMAIN file
      BY <1>1, <2>2 DEF Chained
    <3>2. b \in Nat /\ Len(file[b]) \in Nat
      BY <1>2
    <3>3. ~(c <= b)
      BY <3>1, <3>2
    <3>4. ~(c <= o)
      BY <1>8, <3>1, <3>3
    <3> QED
      BY <1>4, <3>2, <3>4
  <2> QED
    BY <2>1, <2>2
<1>10. Spans(b, o)
  <2>1. seg[b] = Handle(b, Len(file[b]), seg[b].open)
    BY <1>1 DEF Good, Handles
  <2>2. seg[b].next = b + Len(file[b])
    BY <2>1 DEF Handle
  <2> QED
    BY <1>7, <1>9, <2>2 DEF Spans
<1>11. InLog(o)
  <2>1. b \in ToSet(closed) \cup {active}
    BY <1>1, InToSet
  <2> QED
    BY <1>10, <2>1 DEF InLog
<1> DEFINE found == FindSegment(o)
<1>12. found \in DOMAIN file /\ Spans(found, o)
  BY <1>1, <1>11, FindSegmentFinds
<1>13. CanRead(o) <=> Readable(seg[found], Content(found), o)
  BY <1>11 DEF CanRead
<1> HIDE DEF found
<1>14. seg[found].open = TRUE
  BY <1>1, <1>12 DEF Chained
<1> QED
  BY <1>1, <1>4, <1>12, <1>13, <1>14, SpannedRead

\* A step from a state of the invariant does not move the base back.
LEMMA StepBase ==
    IInv /\ [Next]_vars =>
        [Never("sync") /\ Never("rotate") => baseOffset' >= baseOffset]_vars
<1> SUFFICES ASSUME IInv, Next, Never("sync"), Never("rotate")
             PROVE  baseOffset' >= baseOffset
  OBVIOUS
<1>1. Good /\ Counters
  BY DEF IInv
<1>2. /\ baseOffset \in DOMAIN file /\ baseOffset \in Nat
      /\ \A b \in DOMAIN file : b \in Nat /\ baseOffset <= b
  BY <1>1, FirstIsLeast DEF Good, Files
<1>3. CASE UNCHANGED baseOffset
  BY <1>2, <1>3
<1>4. CASE CleanOldMessages
  <2>1. Good'
    BY <1>1, <1>4, CleanKeeps
  <2>2. baseOffset' \in DOMAIN file'
    <3>1. /\ Files(file', acked', active') /\ Listed(file', closed', active')
          /\ baseOffset' = FirstOf(closed', active')
      BY <2>1 DEF Good
    <3> QED
      BY <3>1, FirstIsLeast
  <2>3. DOMAIN file' \subseteq DOMAIN file
    BY <1>4 DEF CleanOldMessages
  <2> QED
    BY <1>2, <2>2, <2>3
<1>5. CASE Restart
  <2>1. /\ baseOffset' \in DOMAIN file' /\ IsNext(file, active, active')
        /\ DOMAIN file' = DOMAIN file \cup {active'}
    BY <1>1, <1>5, RestartKeeps
  <2>2. active \in DOMAIN file /\ Len(file[active]) \in Nat
    BY <1>1 DEF Good, Files
  <2>3. active \in Nat /\ baseOffset <= active
    BY <1>2, <2>2
  <2>4. active' \in Nat /\ baseOffset <= active'
    BY <1>2, <2>1, <2>2, <2>3 DEF IsNext
  <2> QED
    BY <1>2, <2>1, <2>4
<1> QED
  BY <1>3, <1>4, <1>5 DEF Next, AppendLocked, RotationFails, WriteFails, SyncFails,
     InvalidateOffset, InvalidateSyncFails

-----------------------------------------------------------------------------
(* The theorems.                                                           *)

\* ReadsBackStored: as long as no fsync and no rotation of the partition's log
\* has failed, a read (findSegment, Segment.Read) of an offset below nextOffset
\* returns the record that was reported as stored there, or fails.
THEOREM ReadsWhatWasStored == Spec => []ReadsBackStored
<1>1. Spec => []IInv
  BY Invariant
<1> QED
  BY <1>1, InvReads, PTL

\* ReadableFromBase: unless a removal of CleanOldMessages has failed either,
\* every offset from baseOffset to nextOffset is found and can be read.
THEOREM LogHasNoHoles == Spec => []ReadableFromBase
<1>1. Spec => []IInv
  BY Invariant
<1> QED
  BY <1>1, InvReadable, PTL

\* BaseMovesForward: CleanOldMessages and recoverSegments never bring back an
\* offset that retention has deleted.
THEOREM BaseNeverMovesBack == Spec => BaseMovesForward
<1>1. Spec => []IInv
  BY Invariant
<1> QED
  BY <1>1, StepBase, PTL DEF Spec, BaseMovesForward

=============================================================================
