----------------------- MODULE PartitionHostingProofs -----------------------
(***************************************************************************)
(* Theorems about PartitionHosting, for every number of partitions, of     *)
(* concurrent pushes, of records in a segment and at the leaders, and for  *)
(* every bound.                                                            *)
(*                                                                         *)
(* The argument: of all processors of a partition there ever were, at most *)
(* one writes.  It is the one in the pool, or the one the watch has taken  *)
(* out of the pool and not closed yet; and while there is one of those the *)
(* watch makes no new processor.                                           *)
(***************************************************************************)
EXTENDS PartitionHosting, SequenceTheorems, TLAPS

-----------------------------------------------------------------------------
(* The inductive invariants.                                               *)

\* States of a catch-up that holds a processor it looked up.
Holding == {"fetch", "append", "finalize"}

\* A processor in the pool is one of its partition and at work; those about to
\* be closed are not, and are of different partitions; a push and a catch-up
\* hold on to a processor there is, the catch-up to one of its partition.
LinkInv ==
    /\ versions # <<>>
    /\ \A p \in Partition :
          hosts[p] # 0 => /\ procs[hosts[p]].part = p
                          /\ procs[hosts[p]].state = "Active"
    /\ \A i \in closing : procs[i].state = "Stopping"
    /\ \A i, j \in closing : procs[i].part = procs[j].part => i = j
    /\ \A s \in Starter, p \in Partition :
          catchUp[<<s, p>>].pc \in Holding => /\ catchUp[<<s, p>>].proc # 0
                                          /\ procs[catchUp[<<s, p>>].proc].part = p
    /\ \A h \in Push : push[h] # NoPush => push[h].proc # 0

\* A processor that is not in the pool does not append, and has its files open
\* only until the watch has closed them.
OneWriter ==
    \A i \in DOMAIN procs :
        (procs[i].part \notin adrift /\ i # hosts[procs[i].part]) =>
            /\ procs[i].state # "Active"
            /\ procs[i].open => /\ i \in closing
                                /\ hosts[procs[i].part] = 0
                                /\ procs[i].end = Len(disk[procs[i].part])

PoolIsOpen == \A p \in Partition \ adrift : hosts[p] # 0 => procs[hosts[p]].open

FilesInv == TypeOK /\ LinkInv /\ OneWriter /\ PoolIsOpen /\ FilesInOrder

\* The value of the topic that the watch has applied to a partition last.
Applied(p) == IF p < next THEN versions[seen + 1][p]
              ELSE IF seen = 0 THEN "away" ELSE versions[seen][p]

\* The topic is there for all of its partitions or for none.
Whole(value) == \A p, q \in Partition : value[p] = "gone" => value[q] = "gone"

StandingInv ==
    /\ \A v \in DOMAIN versions : Whole(versions[v])
    /\ next > 0 => seen < Len(versions) /\ versions[seen + 1][0] # "gone"
    /\ \A p \in Partition : /\ (hosts[p] # 0) = IsReplica(Applied(p))
                            /\ Applied(p) = "isr" => procs[hosts[p]].inSync

-----------------------------------------------------------------------------
(* What the parts of a step do.                                            *)

\* Partitions are numbered from 0.
LEMMA PartitionFacts ==
    /\ Partition \subseteq Nat
    /\ 0 \in Partition
    /\ \A p \in Partition : p < Partitions
    /\ \A n \in Nat : n < Partitions => n \in Partition
BY HostingAssumption DEF Partition

\* One processor changes.
LEMMA ChangeOne ==
    ASSUME procs \in Seq(Proc), NEW i \in 1..Len(procs), NEW r \in Proc,
           procs' = [procs EXCEPT ![i] = r]
    PROVE  /\ procs' \in Seq(Proc)
           /\ Len(procs') = Len(procs)
           /\ procs'[i] = r
           /\ \A j \in 1..Len(procs) : j # i => procs'[j] = procs[j]
<1>1. procs' \in Seq(Proc) /\ Len(procs') = Len(procs)
  BY ExceptSeq
<1>2. DOMAIN procs = 1..Len(procs)
  BY LenProperties
<1> QED
  BY <1>1, <1>2

\* A processor is made.
LEMMA AddOne ==
    ASSUME procs \in Seq(Proc), NEW r \in Proc, procs' = Append(procs, r)
    PROVE  /\ procs' \in Seq(Proc)
           /\ Len(procs') = Len(procs) + 1
           /\ procs'[Len(procs) + 1] = r
           /\ \A j \in 1..Len(procs) : procs'[j] = procs[j]
BY AppendProperties

\* What the writing of a record makes of a processor.
LEMMA WrittenProc ==
    ASSUME NEW r \in Proc, NEW q, q = [r EXCEPT !.end = @ + 1, !.open = TRUE]
    PROVE  /\ q \in Proc
           /\ q.part = r.part /\ q.state = r.state /\ q.inSync = r.inSync
           /\ q.open = TRUE
           /\ q.end = r.end + 1
<1>1. q \in Proc
  <2> DEFINE e == r.end + 1
  <2>1. r.end \in Nat
    BY DEF Proc
  <2>2. e \in Nat /\ q = [r EXCEPT !.end = e, !.open = TRUE]
    BY <2>1
  <2> HIDE DEF e
  <2> QED
    BY <2>2 DEF Proc
<1>2. q.part = r.part /\ q.state = r.state /\ q.inSync = r.inSync /\ q.open = TRUE
  BY DEF Proc
<1>3. q.end = r.end + 1
  BY DEF Proc
<1> QED
  BY <1>1, <1>2, <1>3

\* A record is written through processor i, in a partition of its own.
LEMMA WriteToFacts ==
    ASSUME TypeOK, NEW i \in 1..Len(procs), WriteTo(i)
    PROVE  /\ procs' \in Seq(Proc)
           /\ Len(procs') = Len(procs)
           /\ procs'[i].part = procs[i].part
           /\ procs'[i].state = procs[i].state
           /\ procs'[i].inSync = procs[i].inSync
           /\ procs'[i].open = TRUE
           /\ procs'[i].end = procs[i].end + 1
           /\ \A j \in 1..Len(procs) : j # i => procs'[j] = procs[j]
           /\ disk' \in [Partition -> Seq(Nat)]
           /\ disk'[procs[i].part] = Append(disk[procs[i].part], procs[i].end)
           /\ \A p \in Partition : p # procs[i].part => disk'[p] = disk[p]
<1>1. procs \in Seq(Proc) /\ procs[i] \in Proc
  BY ElementOfSeq DEF TypeOK
<1> DEFINE r == [procs[i] EXCEPT !.end = @ + 1, !.open = TRUE]
<1>2. /\ r \in Proc
      /\ r.part = procs[i].part /\ r.state = procs[i].state
      /\ r.inSync = procs[i].inSync /\ r.open = TRUE
      /\ r.end = procs[i].end + 1
  BY <1>1, WrittenProc
<1>3. procs' = [procs EXCEPT ![i] = r]
  BY DEF WriteTo
<1> HIDE DEF r
<1>4. /\ procs' \in Seq(Proc)
      /\ Len(procs') = Len(procs)
      /\ procs'[i] = r
      /\ \A j \in 1..Len(procs) : j # i => procs'[j] = procs[j]
  BY <1>1, <1>2, <1>3, ChangeOne
<1>5. procs[i].part \in Partition /\ procs[i].end \in Nat
  BY <1>1 DEF Proc
<1>6. /\ disk \in [Partition -> Seq(Nat)]
      /\ disk' = [disk EXCEPT ![procs[i].part] = Append(@, procs[i].end)]
  BY DEF TypeOK, WriteTo
<1>7. Append(disk[procs[i].part], procs[i].end) \in Seq(Nat)
  BY <1>5, <1>6, AppendProperties
<1> QED
  BY <1>2, <1>4, <1>5, <1>6, <1>7

-----------------------------------------------------------------------------
(* Types, and who holds on to which processor.                             *)

CatchUpState(length) ==
    [pc : {"off", "lookup", "fetch", "append", "finalize", "mark"},
     proc : 0..length, from : Nat]

PushState(length) == [proc : 0..length, offset : Nat]

WatchOK ==
    /\ versions \in Seq([Partition -> Standing]) /\ versions # <<>>
    /\ seen \in 0..Len(versions)
    /\ next \in Partition

PoolOK ==
    /\ procs \in Seq(Proc)
    /\ hosts \in [Partition -> 0..Len(procs)]
    /\ disk \in [Partition -> Seq(Nat)]
    /\ closing \subseteq 1..Len(procs)
    /\ adrift \subseteq Partition
    /\ early \subseteq Partition
    /\ \A p \in Partition :
          hosts[p] # 0 => /\ procs[hosts[p]].part = p
                          /\ procs[hosts[p]].state = "Active"
    /\ \A i \in closing : procs[i].state = "Stopping"
    /\ \A i, j \in closing : procs[i].part = procs[j].part => i = j

HoldersOK ==
    /\ push \in [Push -> PushState(Len(procs))]
    /\ catchUp \in [Starter \X Partition -> CatchUpState(Len(procs))]
    /\ syncing \subseteq Partition
    /\ \A s \in Starter, p \in Partition :
          catchUp[<<s, p>>].pc \in Holding => /\ catchUp[<<s, p>>].proc # 0
                                          /\ procs[catchUp[<<s, p>>].proc].part = p
    /\ \A h \in Push : push[h] # NoPush => push[h].proc # 0

RestOK == /\ failed \in BOOLEAN
          /\ budget \in [change : 0..MaxChanges, fault : 0..MaxFaults]

TypeLink == TypeOK /\ LinkInv

LEMMA Parts == TypeLink <=> WatchOK /\ PoolOK /\ HoldersOK /\ RestOK
<1>1. procs \in Seq(Proc) => DOMAIN procs = 1..Len(procs)
  BY LenProperties
<1>2. TypeLink => WatchOK /\ RestOK
  BY DEF TypeLink, TypeOK, LinkInv, WatchOK, RestOK
<1>3. TypeLink => PoolOK
  BY <1>1 DEF TypeLink, TypeOK, LinkInv, PoolOK
<1>4. TypeLink => HoldersOK
  BY DEF TypeLink, TypeOK, LinkInv, HoldersOK, CatchUpState, PushState
<1>5. WatchOK /\ PoolOK /\ HoldersOK /\ RestOK => TypeOK
  BY <1>1 DEF TypeOK, WatchOK, PoolOK, HoldersOK, RestOK, CatchUpState, PushState
<1>6. WatchOK /\ PoolOK /\ HoldersOK => LinkInv
  BY DEF LinkInv, WatchOK, PoolOK, HoldersOK
<1> QED
  BY <1>2, <1>3, <1>4, <1>5, <1>6 DEF TypeLink

LEMMA PartsNext == WatchOK' /\ PoolOK' /\ HoldersOK' /\ RestOK' => TypeLink'
<1>1. procs' \in Seq(Proc) => DOMAIN procs' = 1..Len(procs')
  BY LenProperties
<1>2. WatchOK' /\ PoolOK' /\ HoldersOK' /\ RestOK' => TypeOK'
  BY <1>1 DEF TypeOK, WatchOK, PoolOK, HoldersOK, RestOK, CatchUpState, PushState
<1>3. WatchOK' /\ PoolOK' /\ HoldersOK' => LinkInv'
  BY DEF LinkInv, WatchOK, PoolOK, HoldersOK
<1> QED
  BY <1>2, <1>3 DEF TypeLink

\* The processors there are stay, each of its partition.
Grows == /\ procs' \in Seq(Proc)
         /\ Len(procs) <= Len(procs')
         /\ \A i \in 1..Len(procs) : procs'[i].part = procs[i].part

\* What a push or a catch-up may take hold of.
PushGoes == \E h \in Push, new \in PushState(Len(procs)) :
               /\ new # NoPush => new.proc # 0
               /\ push' = [push EXCEPT ![h] = new]

CatchUpMoves == \E s \in Starter, p \in Partition, c \in CatchUpState(Len(procs)) :
                   /\ c.pc \in Holding => c.proc # 0 /\ procs[c.proc].part = p
                   /\ catchUp' = [catchUp EXCEPT ![<<s, p>>] = c]

\* A step that lets a push or a catch-up take hold of a processor there is
\* leaves all of them with processors there are.
LEMMA HoldersKept ==
    ASSUME PoolOK, HoldersOK, Grows, syncing' \subseteq Partition,
           push' = push \/ PushGoes, catchUp' = catchUp \/ CatchUpMoves
    PROVE  HoldersOK'
<1>1. /\ Len(procs) \in Nat /\ Len(procs') \in Nat
      /\ Len(procs) <= Len(procs')
  BY LenProperties DEF PoolOK, Grows
<1>2. /\ push' \in [Push -> PushState(Len(procs'))]
      /\ \A h \in Push : push'[h] # NoPush => push'[h].proc # 0
  <2>1. \A r \in PushState(Len(procs)) : r \in PushState(Len(procs'))
    BY <1>1 DEF PushState
  <2>2. CASE push' = push
    BY <2>1, <2>2 DEF HoldersOK
  <2>3. CASE PushGoes
    BY <2>1, <2>3 DEF HoldersOK, PushGoes
  <2> QED
    BY <2>2, <2>3
<1>3. /\ catchUp' \in [Starter \X Partition -> CatchUpState(Len(procs'))]
      /\ \A s \in Starter, p \in Partition :
            catchUp'[<<s, p>>].pc \in Holding => /\ catchUp'[<<s, p>>].proc # 0
                                             /\ procs'[catchUp'[<<s, p>>].proc].part = p
  <2>1. \A r \in CatchUpState(Len(procs)) :
           /\ r \in CatchUpState(Len(procs'))
           /\ r.proc # 0 => procs'[r.proc].part = procs[r.proc].part
    BY <1>1 DEF CatchUpState, Grows
  <2>2. CASE catchUp' = catchUp
    BY <2>1, <2>2 DEF HoldersOK
  <2>3. CASE CatchUpMoves
    <3>1. PICK s \in Starter, p \in Partition, c \in CatchUpState(Len(procs)) :
             /\ c.pc \in Holding => c.proc # 0 /\ procs[c.proc].part = p
             /\ catchUp' = [catchUp EXCEPT ![<<s, p>>] = c]
      BY <2>3 DEF CatchUpMoves
    <3>2. catchUp' \in [Starter \X Partition -> CatchUpState(Len(procs'))]
      BY <2>1, <3>1 DEF HoldersOK
    <3>3. ASSUME NEW z \in Starter, NEW q \in Partition,
                 catchUp'[<<z, q>>].pc \in Holding
          PROVE  /\ catchUp'[<<z, q>>].proc # 0
                 /\ procs'[catchUp'[<<z, q>>].proc].part = q
      <4>1. CASE z = s /\ q = p
        BY <2>1, <3>1, <3>3, <4>1 DEF HoldersOK
      <4>2. CASE ~(z = s /\ q = p)
        <5>1. catchUp'[<<z, q>>] = catchUp[<<z, q>>] /\ catchUp[<<z, q>>] \in CatchUpState(Len(procs))
          BY <3>1, <4>2 DEF HoldersOK
        <5> QED
          BY <2>1, <3>3, <5>1 DEF HoldersOK
      <4> QED
        BY <4>1, <4>2
    <3> QED
      BY <3>2, <3>3
  <2> QED
    BY <2>2, <2>3
<1> QED
  BY <1>2, <1>3 DEF HoldersOK

-----------------------------------------------------------------------------
(* What a step does to the pool.                                           *)

\* Whoever changes processors without touching their states leaves the pool as
\* it is.
LEMMA PoolKept ==
    ASSUME PoolOK,
           procs' \in Seq(Proc), Len(procs') = Len(procs),
           \A i \in 1..Len(procs) : /\ procs'[i].part = procs[i].part
                                    /\ procs'[i].state = procs[i].state,
           disk' \in [Partition -> Seq(Nat)],
           adrift' \subseteq Partition, early' \subseteq Partition,
           UNCHANGED <<closing, hosts>>
    PROVE  PoolOK' /\ Grows
<1>1. Len(procs) \in Nat
  BY LenProperties DEF PoolOK
<1>2. Grows
  BY <1>1 DEF Grows
<1>3. \A i \in closing : i \in 1..Len(procs)
  BY DEF PoolOK
<1>4. \A p \in Partition : hosts[p] # 0 => hosts[p] \in 1..Len(procs)
  BY <1>1 DEF PoolOK
<1>5. /\ hosts' \in [Partition -> 0..Len(procs')]
      /\ closing' \subseteq 1..Len(procs')
  BY DEF PoolOK
<1>6. \A p \in Partition :
         hosts'[p] # 0 => /\ procs'[hosts'[p]].part = p
                          /\ procs'[hosts'[p]].state = "Active"
  BY <1>4 DEF PoolOK
<1>7. \A i \in closing' : procs'[i].state = "Stopping"
  BY <1>3 DEF PoolOK
<1>8. \A i, j \in closing' : procs'[i].part = procs'[j].part => i = j
  BY <1>3 DEF PoolOK
<1> QED
  BY <1>2, <1>5, <1>6, <1>7, <1>8 DEF PoolOK

\* One that touches nothing.
LEMMA PoolSame ==
    ASSUME PoolOK, UNCHANGED <<procs, closing, hosts, disk, adrift, early>>
    PROVE  PoolOK' /\ Grows
BY PoolKept DEF PoolOK

LEMMA PoolWritten ==
    ASSUME TypeLink, NEW i \in 1..Len(procs), WriteTo(i),
           adrift' \subseteq Partition, UNCHANGED <<closing, hosts, early>>
    PROVE  PoolOK' /\ Grows
<1>1. TypeOK /\ PoolOK
  BY Parts DEF TypeLink
<1>2. /\ procs' \in Seq(Proc) /\ Len(procs') = Len(procs)
      /\ procs'[i].part = procs[i].part /\ procs'[i].state = procs[i].state
      /\ \A j \in 1..Len(procs) : j # i => procs'[j] = procs[j]
      /\ disk' \in [Partition -> Seq(Nat)]
  BY <1>1, WriteToFacts
<1>3. \A j \in 1..Len(procs) : /\ procs'[j].part = procs[j].part
                               /\ procs'[j].state = procs[j].state
  BY <1>2
<1>4. early' \subseteq Partition
  BY <1>1 DEF PoolOK
<1> QED
  BY <1>1, <1>2, <1>3, <1>4, PoolKept

\* TryFinalizeInSync, and the topic watch that hosts what it hosts already.
LEMMA InSyncSet ==
    ASSUME PoolOK, NEW i \in 1..Len(procs), NEW b \in BOOLEAN,
           procs' = [procs EXCEPT ![i] = [procs[i] EXCEPT !.inSync = b]]
    PROVE  /\ procs' \in Seq(Proc) /\ Len(procs') = Len(procs)
           /\ \A j \in 1..Len(procs) : /\ procs'[j].part = procs[j].part
                                       /\ procs'[j].state = procs[j].state
                                       /\ procs'[j].open = procs[j].open
                                       /\ procs'[j].end = procs[j].end
                                       /\ j # i => procs'[j] = procs[j]
           /\ procs'[i].inSync = b
<1> DEFINE r == [procs[i] EXCEPT !.inSync = b]
<1>1. procs \in Seq(Proc) /\ procs[i] \in Proc
  BY ElementOfSeq DEF PoolOK
<1>2. /\ r \in Proc
      /\ r.part = procs[i].part /\ r.state = procs[i].state
      /\ r.open = procs[i].open /\ r.end = procs[i].end
  BY <1>1 DEF Proc
<1>3. r.inSync = b
  BY <1>1 DEF Proc
<1>4. procs' = [procs EXCEPT ![i] = r]
  OBVIOUS
<1> HIDE DEF r
<1>5. /\ procs' \in Seq(Proc)
      /\ Len(procs') = Len(procs)
      /\ procs'[i] = r
      /\ \A j \in 1..Len(procs) : j # i => procs'[j] = procs[j]
  BY <1>1, <1>2, <1>4, ChangeOne
<1> QED
  BY <1>2, <1>3, <1>5

\* The topic watch takes one processor out of the pool, or closes it.
LEMMA StateSet ==
    ASSUME PoolOK, NEW i \in 1..Len(procs),
           NEW st \in {"Active", "Stopping", "Deleted"}, NEW r \in Proc,
           r.part = procs[i].part, r.state = st,
           procs' = [procs EXCEPT ![i] = r]
    PROVE  /\ procs' \in Seq(Proc) /\ Len(procs') = Len(procs)
           /\ procs'[i] = r
           /\ \A j \in 1..Len(procs) : j # i => procs'[j] = procs[j]
           /\ Grows
<1>1. procs \in Seq(Proc) /\ Len(procs) \in Nat
  BY LenProperties DEF PoolOK
<1>2. /\ procs' \in Seq(Proc)
      /\ Len(procs') = Len(procs)
      /\ procs'[i] = r
      /\ \A j \in 1..Len(procs) : j # i => procs'[j] = procs[j]
  BY <1>1, ChangeOne
<1> QED
  BY <1>1, <1>2 DEF Grows

LEMMA StoppingProc ==
    ASSUME NEW r \in Proc
    PROVE  LET q == [r EXCEPT !.state = "Stopping"] IN
           /\ q \in Proc /\ q.part = r.part /\ q.state = "Stopping"
           /\ q.open = r.open /\ q.end = r.end /\ q.inSync = r.inSync
<1> DEFINE q == [r EXCEPT !.state = "Stopping"]
<1>1. q \in Proc /\ q.part = r.part /\ q.state = "Stopping"
  BY DEF Proc
<1>2. q.open = r.open /\ q.end = r.end /\ q.inSync = r.inSync
  BY DEF Proc
<1> QED
  BY <1>1, <1>2

LEMMA ClosedProc ==
    ASSUME NEW r \in Proc
    PROVE  LET q == [r EXCEPT !.state = "Deleted", !.open = FALSE] IN
           /\ q \in Proc /\ q.part = r.part /\ q.state = "Deleted"
           /\ ~q.open /\ q.end = r.end /\ q.inSync = r.inSync
<1> DEFINE q == [r EXCEPT !.state = "Deleted", !.open = FALSE]
<1>1. q \in Proc /\ q.part = r.part /\ q.state = "Deleted"
  BY DEF Proc
<1>2. ~q.open
  BY DEF Proc
<1>3. q.end = r.end /\ q.inSync = r.inSync
  BY DEF Proc
<1> QED
  BY <1>1, <1>2, <1>3

LEMMA HostedFacts ==
    ASSUME PoolOK, NEW p \in Partition, hosts[p] # 0
    PROVE  /\ hosts[p] \in 1..Len(procs)
           /\ procs[hosts[p]] \in Proc
           /\ procs[hosts[p]].part = p
           /\ procs[hosts[p]].state = "Active"
<1>1. procs \in Seq(Proc) /\ Len(procs) \in Nat /\ hosts[p] \in 0..Len(procs)
  BY LenProperties DEF PoolOK
<1>2. hosts[p] \in 1..Len(procs)
  BY <1>1
<1> QED
  BY <1>1, <1>2, ElementOfSeq DEF PoolOK

LEMMA GiveUpFacts ==
    ASSUME PoolOK, next \in Partition, GiveUp
    PROVE  LET i == hosts[next] IN
           /\ PoolOK' /\ Grows /\ Len(procs') = Len(procs)
           /\ i \in 1..Len(procs) /\ procs[i].part = next
           /\ \A j \in 1..Len(procs) : j # i => procs'[j] = procs[j]
           /\ procs'[i].part = next /\ procs'[i].state = "Stopping"
           /\ procs'[i].open = procs[i].open /\ procs'[i].end = procs[i].end
           /\ procs'[i].inSync = procs[i].inSync
           /\ closing = {} /\ closing' = {i}
           /\ hosts' = [hosts EXCEPT ![next] = 0]
           /\ UNCHANGED <<disk, adrift>>
<1> DEFINE i == hosts[next]
           r == [procs[i] EXCEPT !.state = "Stopping"]
<1>1. /\ i # 0 /\ closing = {} /\ closing' = {i}
      /\ procs' = [procs EXCEPT ![i] = r]
      /\ hosts' = [hosts EXCEPT ![next] = 0]
      /\ UNCHANGED <<adrift, early, disk>>
  BY DEF GiveUp, Applies
<1>2. i \in 1..Len(procs) /\ procs[i] \in Proc /\ procs[i].part = next
  BY <1>1, HostedFacts
<1>3. /\ r \in Proc /\ r.part = procs[i].part /\ r.state = "Stopping"
      /\ r.open = procs[i].open /\ r.end = procs[i].end
      /\ r.inSync = procs[i].inSync
  BY <1>2, StoppingProc
<1> HIDE DEF r
<1>4. /\ procs' \in Seq(Proc) /\ Len(procs') = Len(procs)
      /\ procs'[i] = r
      /\ \A j \in 1..Len(procs) : j # i => procs'[j] = procs[j]
      /\ Grows
  BY <1>1, <1>2, <1>3, StateSet
<1>5. /\ hosts' \in [Partition -> 0..Len(procs')]
      /\ hosts'[next] = 0
      /\ \A p \in Partition : p # next => hosts'[p] = hosts[p]
  <2>1. 0 \in 0..Len(procs) /\ hosts \in [Partition -> 0..Len(procs)]
    BY LenProperties DEF PoolOK
  <2> QED
    BY <1>1, <1>4, <2>1
<1>6. ASSUME NEW p \in Partition, hosts'[p] # 0
      PROVE  procs'[hosts'[p]].part = p /\ procs'[hosts'[p]].state = "Active"
  <2>1. p # next /\ hosts[p] # 0 /\ hosts'[p] = hosts[p]
    BY <1>5, <1>6
  <2>2. /\ hosts[p] \in 1..Len(procs) /\ procs[hosts[p]].part = p
        /\ procs[hosts[p]].state = "Active"
    BY <2>1, HostedFacts
  <2>3. hosts[p] # i
    BY <1>2, <2>1, <2>2
  <2> QED
    BY <1>4, <2>1, <2>2, <2>3
<1>7. PoolOK'
  BY <1>1, <1>2, <1>3, <1>4, <1>5, <1>6 DEF PoolOK
<1> QED
  BY <1>1, <1>2, <1>3, <1>4, <1>7

LEMMA CloseFacts ==
    ASSUME PoolOK, NEW i \in closing, closing' = closing \ {i},
           procs' = StopAndRemove(i), UNCHANGED <<hosts, adrift, early, disk>>
    PROVE  /\ PoolOK' /\ Grows /\ Len(procs') = Len(procs)
           /\ i \in 1..Len(procs)
           /\ \A j \in 1..Len(procs) : j # i => procs'[j] = procs[j]
           /\ procs'[i].part = procs[i].part
           /\ procs'[i].state = "Deleted" /\ ~procs'[i].open
           /\ procs'[i].end = procs[i].end /\ procs'[i].inSync = procs[i].inSync
           /\ \A p \in Partition : hosts[p] # i
<1> DEFINE r == [procs[i] EXCEPT !.state = "Deleted", !.open = FALSE]
<1>1. /\ i \in 1..Len(procs) /\ procs[i] \in Proc /\ i # 0
      /\ procs[i].state = "Stopping"
  BY ElementOfSeq, LenProperties DEF PoolOK
<1>2. /\ r \in Proc /\ r.part = procs[i].part /\ r.state = "Deleted"
      /\ ~r.open /\ r.end = procs[i].end /\ r.inSync = procs[i].inSync
  BY <1>1, ClosedProc
<1>3. procs' = [procs EXCEPT ![i] = r]
  BY DEF StopAndRemove
<1> HIDE DEF r
<1>4. /\ procs' \in Seq(Proc) /\ Len(procs') = Len(procs)
      /\ procs'[i] = r
      /\ \A j \in 1..Len(procs) : j # i => procs'[j] = procs[j]
      /\ Grows
  BY <1>1, <1>2, <1>3, StateSet
<1>5. \A p \in Partition : hosts[p] # i
  BY <1>1 DEF PoolOK
<1>6. ASSUME NEW p \in Partition, hosts'[p] # 0
      PROVE  procs'[hosts'[p]].part = p /\ procs'[hosts'[p]].state = "Active"
  BY <1>4, <1>5, <1>6, HostedFacts
<1>7. PoolOK'
  <2>1. closing' \subseteq closing /\ i \notin closing'
    OBVIOUS
  <2>2. /\ \A j \in closing' : /\ j \in 1..Len(procs) /\ procs'[j] = procs[j]
                               /\ procs[j].state = "Stopping"
        /\ \A j, k \in closing' : procs[j].part = procs[k].part => j = k
    BY <1>4, <2>1 DEF PoolOK
  <2> QED
    BY <1>4, <1>6, <2>1, <2>2 DEF PoolOK
<1> QED
  BY <1>1, <1>2, <1>4, <1>5, <1>7

\* A partition the node did not host gets a processor on its files.
LEMMA HostNewFacts ==
    ASSUME PoolOK, next \in Partition, Host, hosts[next] = 0
    PROVE  LET i == Len(procs) + 1 IN
           /\ PoolOK' /\ Grows /\ Len(procs') = i
           /\ \A j \in 1..Len(procs) : procs'[j] = procs[j]
           /\ procs'[i].part = next /\ procs'[i].state = "Active"
           /\ procs'[i].open /\ procs'[i].end = Len(disk[next])
           /\ procs'[i].inSync = (Value[next] = "isr")
           /\ hosts' = [hosts EXCEPT ![next] = i]
           /\ closing = {} /\ closing' = {}
           /\ UNCHANGED <<disk, adrift>>
<1> DEFINE i == Len(procs) + 1
           r == NewProc(next, Value[next] = "isr")
<1>1. /\ procs' = Append(procs, r)
      /\ hosts' = [hosts EXCEPT ![next] = i]
      /\ closing = {} /\ UNCHANGED <<closing, disk, adrift>>
      /\ early' \in {early, early \cup {next}}
  BY DEF Host, Applies
<1>2. disk[next] \in Seq(Nat) /\ Len(disk[next]) \in Nat
  BY LenProperties DEF PoolOK
<1>3. /\ r \in Proc /\ r.part = next /\ r.state = "Active"
      /\ r.end = Len(disk[next])
  BY <1>2 DEF NewProc, Proc
<1>4. r.open /\ r.inSync = (Value[next] = "isr")
  BY DEF NewProc
<1> HIDE DEF r
<1>5. procs \in Seq(Proc) /\ Len(procs) \in Nat
  BY LenProperties DEF PoolOK
<1>6. /\ procs' \in Seq(Proc) /\ Len(procs') = i
      /\ procs'[i] = r
      /\ \A j \in 1..Len(procs) : procs'[j] = procs[j]
  BY <1>1, <1>3, <1>5, AddOne
<1>7. Grows
  BY <1>5, <1>6 DEF Grows
<1>8. /\ hosts' \in [Partition -> 0..Len(procs')]
      /\ hosts'[next] = i
      /\ \A p \in Partition : p # next => hosts'[p] = hosts[p]
  <2>1. hosts \in [Partition -> 0..Len(procs)]
    BY DEF PoolOK
  <2>2. \A h \in 0..Len(procs) : h \in 0..i
    BY <1>5
  <2>3. hosts \in [Partition -> 0..i] /\ i \in 0..i
    BY <1>5, <2>1, <2>2
  <2> HIDE DEF i
  <2> QED
    BY <1>1, <1>6, <2>3
<1>9. ASSUME NEW p \in Partition, hosts'[p] # 0
      PROVE  procs'[hosts'[p]].part = p /\ procs'[hosts'[p]].state = "Active"
  <2>1. CASE p = next
    BY <1>3, <1>6, <1>8, <2>1
  <2>2. CASE p # next
    <3>1. hosts'[p] = hosts[p] /\ hosts[p] # 0
      BY <1>8, <1>9, <2>2
    <3> QED
      BY <1>6, <3>1, HostedFacts
  <2> QED
    BY <2>1, <2>2
<1>10. PoolOK'
  BY <1>1, <1>6, <1>8, <1>9 DEF PoolOK
<1> QED
  BY <1>1, <1>3, <1>4, <1>6, <1>7, <1>10

\* One it hosts keeps its processor, which may become in sync.
LEMMA HostAgainFacts ==
    ASSUME PoolOK, next \in Partition, Host, hosts[next] # 0
    PROVE  LET i == hosts[next] IN
           /\ PoolOK' /\ Grows /\ Len(procs') = Len(procs)
           /\ i \in 1..Len(procs)
           /\ \A j \in 1..Len(procs) : /\ procs'[j].part = procs[j].part
                                       /\ procs'[j].state = procs[j].state
                                       /\ procs'[j].open = procs[j].open
                                       /\ procs'[j].end = procs[j].end
                                       /\ j # i => procs'[j] = procs[j]
           /\ procs'[i].inSync = (procs[i].inSync \/ Value[next] = "isr")
           /\ UNCHANGED <<hosts, closing, disk, adrift>>
<1> DEFINE i == hosts[next]
           b == procs[i].inSync \/ Value[next] = "isr"
<1>1. i \in 1..Len(procs)
  BY HostedFacts
<1>2. /\ procs' = [procs EXCEPT ![i] = [procs[i] EXCEPT !.inSync = b]]
      /\ hosts' = [hosts EXCEPT ![next] = i]
      /\ UNCHANGED <<closing, disk, adrift>>
      /\ early' \in {early, early \cup {next}}
  <2>1. i \in DOMAIN procs
    BY <1>1, LenProperties DEF PoolOK
  <2> QED
    BY <2>1 DEF Host, Applies
<1>3. hosts' = hosts
  BY <1>2 DEF PoolOK
<1>4. b \in BOOLEAN
  OBVIOUS
<1> HIDE DEF b
<1>5. /\ procs' \in Seq(Proc) /\ Len(procs') = Len(procs)
      /\ \A j \in 1..Len(procs) : /\ procs'[j].part = procs[j].part
                                  /\ procs'[j].state = procs[j].state
                                  /\ procs'[j].open = procs[j].open
                                  /\ procs'[j].end = procs[j].end
                                  /\ j # i => procs'[j] = procs[j]
  BY <1>1, <1>2, <1>4, InSyncSet
<1>9. procs'[i].inSync = b
  BY <1>1, <1>2, <1>4, InSyncSet
<1>6. /\ disk' \in [Partition -> Seq(Nat)] /\ adrift' \subseteq Partition
      /\ early' \subseteq Partition /\ UNCHANGED <<closing, hosts>>
  BY <1>2, <1>3 DEF PoolOK
<1>7. PoolOK' /\ Grows
  <2>1. /\ procs' \in Seq(Proc) /\ Len(procs') = Len(procs)
        /\ \A j \in 1..Len(procs) : /\ procs'[j].part = procs[j].part
                                    /\ procs'[j].state = procs[j].state
    BY <1>5
  <2> QED
    BY <1>6, <2>1, PoolKept
<1>8. procs'[i].inSync = (procs[i].inSync \/ Value[next] = "isr")
  BY <1>9 DEF b
<1> QED
  BY <1>1, <1>2, <1>3, <1>5, <1>7, <1>8

\* The deletion of the topic: a processor is about to be closed or left behind.
LEMMA RemoveTopicFacts ==
    ASSUME PoolOK, RemoveTopic
    PROVE  /\ PoolOK' /\ Grows /\ Len(procs') = Len(procs)
           /\ \A j \in 1..Len(procs) :
                /\ procs'[j].part = procs[j].part /\ procs'[j].open = procs[j].open
                /\ procs'[j].end = procs[j].end
                /\ procs'[j].state = IF j \in closing' THEN "Stopping"
                                                       ELSE procs[j].state
           /\ \A p \in Partition : /\ hosts'[p] = 0
                                   /\ hosts[p] # 0 /\ p \notin adrift'
                                         => hosts[p] \in closing'
           /\ closing = {} /\ adrift \subseteq adrift' /\ UNCHANGED disk
<1> DEFINE hosted == {p \in Partition : hosts[p] # 0}
           reached == Reached(hosted)
<1>1. /\ closing = {}
      /\ closing' = {hosts[p] : p \in reached}
      /\ procs' = [i \in DOMAIN procs |->
                      IF i \in closing'
                      THEN [procs[i] EXCEPT !.state = "Stopping"] ELSE procs[i]]
      /\ adrift' = adrift \cup (hosted \ reached)
      /\ hosts' = [p \in Partition |-> 0]
      /\ UNCHANGED <<early, disk>>
  BY DEF RemoveTopic, Applies
<1>2. reached \subseteq hosted /\ hosted \subseteq Partition
  BY DEF Reached
<1> HIDE DEF reached
<1>3. procs \in Seq(Proc) /\ Len(procs) \in Nat /\ DOMAIN procs = 1..Len(procs)
  BY LenProperties DEF PoolOK
<1>4. \A j \in 1..Len(procs) : procs[j] \in Proc
  BY <1>3, ElementOfSeq
<1>5. ASSUME NEW j \in 1..Len(procs)
      PROVE  /\ procs'[j] \in Proc
             /\ procs'[j].part = procs[j].part /\ procs'[j].open = procs[j].open
             /\ procs'[j].end = procs[j].end
             /\ procs'[j].state = IF j \in closing' THEN "Stopping"
                                                    ELSE procs[j].state
  <2>1. procs[j] \in Proc
    BY <1>4
  <2>2. CASE j \in closing'
    BY <1>1, <1>3, <2>1, <2>2, StoppingProc
  <2>3. CASE j \notin closing'
    BY <1>1, <1>3, <2>1, <2>3
  <2> QED
    BY <2>2, <2>3
<1>6. procs' \in Seq(Proc) /\ Len(procs') = Len(procs)
  <2>1. DOMAIN procs' = 1..Len(procs)
    BY <1>1, <1>3
  <2>2. procs' = [j \in 1..Len(procs) |-> procs'[j]]
    BY <1>1, <2>1
  <2>3. procs' \in [1..Len(procs) -> Proc]
    BY <1>5, <2>2
  <2> QED
    BY <1>3, <2>1, <2>3, SeqDef, LenProperties
<1>7. Grows
  BY <1>3, <1>5, <1>6 DEF Grows
<1>8. \A i \in closing' : /\ i \in 1..Len(procs)
                          /\ \E p \in Partition : i = hosts[p] /\ procs[i].part = p
  <2> SUFFICES ASSUME NEW i \in closing'
               PROVE  /\ i \in 1..Len(procs)
                      /\ \E p \in Partition : i = hosts[p] /\ procs[i].part = p
    OBVIOUS
  <2>1. PICK p \in reached : i = hosts[p]
    BY <1>1
  <2>2. p \in Partition /\ hosts[p] # 0
    BY <1>2, <2>1
  <2> QED
    BY <2>1, <2>2, HostedFacts
<1>9. \A i, j \in closing' : procs'[i].part = procs'[j].part => i = j
  BY <1>5, <1>8
<1>10. \A p \in Partition : /\ hosts'[p] = 0
                            /\ hosts[p] # 0 /\ p \notin adrift'
                                  => hosts[p] \in closing'
  BY <1>1
<1>11. /\ hosts' \in [Partition -> 0..Len(procs')]
       /\ adrift' \subseteq Partition
  BY <1>1, <1>2, <1>3, <1>6 DEF PoolOK
<1>12. PoolOK'
  <2>1. disk' \in [Partition -> Seq(Nat)] /\ early' \subseteq Partition
    BY <1>1 DEF PoolOK
  <2>2. closing' \subseteq 1..Len(procs')
    BY <1>6, <1>8
  <2>3. \A i \in closing' : procs'[i].state = "Stopping"
    BY <1>5, <1>8
  <2> QED
    BY <1>6, <1>9, <1>10, <1>11, <2>1, <2>2, <2>3 DEF PoolOK
<1>13. closing = {} /\ adrift \subseteq adrift' /\ UNCHANGED disk
  BY <1>1
<1> QED
  BY <1>5, <1>6, <1>7, <1>10, <1>12, <1>13

-----------------------------------------------------------------------------
(* Every step keeps types and links.                                       *)

LEMMA InitTypeLink == Init => TypeLink
<1> SUFFICES ASSUME Init PROVE TypeLink
  OBVIOUS
<1>1. WatchOK
  <2>1. PICK replica \in SUBSET Partition : versions = <<Assigned(replica)>>
    BY DEF Init
  <2>2. Assigned(replica) \in [Partition -> Standing]
    BY DEF Assigned, Standing
  <2>3. versions \in Seq([Partition -> Standing]) /\ Len(versions) = 1
    BY <2>1, <2>2
  <2> QED
    BY <2>1, <2>3, PartitionFacts DEF Init, WatchOK
<1>2. procs = <<>> /\ Len(procs) = 0 /\ procs \in Seq(Proc)
  BY DEF Init
<1>3. PoolOK
  <2>1. /\ hosts \in [Partition -> 0..Len(procs)]
        /\ \A p \in Partition : hosts[p] = 0
    BY <1>2 DEF Init
  <2>2. disk \in [Partition -> Seq(Nat)]
    BY DEF Init
  <2> QED
    BY <1>2, <2>1, <2>2 DEF Init, PoolOK
<1>4. HoldersOK
  <2>1. NoPush \in PushState(Len(procs)) /\ NoCatchUp \in CatchUpState(Len(procs))
    BY <1>2 DEF NoPush, NoCatchUp, PushState, CatchUpState
  <2>2. NoCatchUp.pc \notin Holding
    BY DEF NoCatchUp, Holding
  <2>3. /\ push = [h \in Push |-> NoPush]
        /\ catchUp = [z \in Starter \X Partition |-> NoCatchUp]
        /\ syncing = {}
    BY DEF Init
  <2> QED
    BY <2>1, <2>2, <2>3 DEF HoldersOK
<1>5. RestOK
  BY DEF Init, RestOK
<1> QED
  BY <1>1, <1>3, <1>4, <1>5, Parts

\* The parts of a step that only the topic watch, or the cluster, takes.
LEMMA AppendVersion ==
    ASSUME WatchOK, NEW value \in [Partition -> Standing],
           versions' = Append(versions, value), UNCHANGED <<seen, next>>
    PROVE  WatchOK'
<1>1. /\ versions' \in Seq([Partition -> Standing])
      /\ Len(versions') = Len(versions) + 1 /\ versions' # <<>>
  BY AppendProperties DEF WatchOK
<1>2. Len(versions) \in Nat
  BY LenProperties DEF WatchOK
<1> QED
  BY <1>1, <1>2 DEF WatchOK

LEMMA SameWatch == WatchOK /\ UNCHANGED <<versions, seen, next>> => WatchOK'
BY DEF WatchOK

LEMMA WatchGoes ==
    ASSUME WatchOK, UNCHANGED versions, Applies,
           Advance \/ (next' = 0 /\ seen' = seen + 1)
    PROVE  WatchOK'
<1>1. Len(versions) \in Nat
  BY LenProperties DEF WatchOK
<1>2. next \in Nat
  BY PartitionFacts DEF WatchOK
<1>3. next' \in Partition /\ seen' \in 0..Len(versions)
  BY <1>1, <1>2, PartitionFacts DEF WatchOK, Applies, Advance
<1> QED
  BY <1>3 DEF WatchOK

LEMMA LastFacts ==
    ASSUME WatchOK
    PROVE  /\ Last \in [Partition -> Standing]
           /\ Len(versions) \in Nat \ {0}
           /\ \A v \in 1..Len(versions) : versions[v] \in [Partition -> Standing]
<1>1. Len(versions) \in Nat \ {0}
  BY LenProperties, EmptySeq DEF WatchOK
<1>2. \A v \in 1..Len(versions) : versions[v] \in [Partition -> Standing]
  BY ElementOfSeq DEF WatchOK
<1> QED
  BY <1>1, <1>2 DEF Last

LEMMA SpendTypes ==
    ASSUME RestOK, failed' \in BOOLEAN,
           budget' = budget \/ Spend("change") \/ Spend("fault")
    PROVE  RestOK'
<1>1. budget \in [change : 0..MaxChanges, fault : 0..MaxFaults]
  BY DEF RestOK
<1>2. MaxChanges \in Nat /\ MaxFaults \in Nat
  BY HostingAssumption
<1>3. CASE budget' = budget
  BY <1>1, <1>3 DEF RestOK
<1>4. CASE Spend("change")
  <2>1. budget.change - 1 \in 0..MaxChanges
    BY <1>1, <1>2, <1>4 DEF Spend
  <2>2. budget' = [budget EXCEPT !.change = budget.change - 1]
    BY <1>4 DEF Spend
  <2> QED
    BY <1>1, <2>1, <2>2 DEF RestOK
<1>5. CASE Spend("fault")
  <2>1. budget.fault - 1 \in 0..MaxFaults
    BY <1>1, <1>2, <1>5 DEF Spend
  <2>2. budget' = [budget EXCEPT !.fault = budget.fault - 1]
    BY <1>5 DEF Spend
  <2> QED
    BY <1>1, <2>1, <2>2 DEF RestOK
<1> QED
  BY <1>3, <1>4, <1>5

\* A catch-up that goes on with a processor it may hold.
LEMMA CatchUpTypes ==
    ASSUME TypeLink, NEW s \in Starter, NEW p \in Partition,
           NEW c \in CatchUpState(Len(procs)),
           c.pc \in Holding => c.proc # 0 /\ procs[c.proc].part = p,
           CatchUpGoes(s, p, c), PoolOK', Grows, RestOK'
    PROVE  TypeLink'
<1>1. WatchOK /\ PoolOK /\ HoldersOK
  BY Parts
<1>2. WatchOK'
  BY <1>1, SameWatch DEF CatchUpGoes, watchVars
<1>3. syncing' \subseteq Partition /\ push' = push
  BY <1>1 DEF CatchUpGoes, NoLongerSyncing, HoldersOK
<1>4. CatchUpMoves
  BY DEF CatchUpGoes, CatchUpMoves
<1>5. HoldersOK'
  BY <1>1, <1>3, <1>4, HoldersKept
<1> QED
  BY <1>2, <1>5, PartsNext

\* What a catch-up holds.
LEMMA HeldFacts ==
    ASSUME TypeLink, NEW s \in Starter, NEW p \in Partition
    PROVE  LET c == catchUp[<<s, p>>] IN
           /\ c \in CatchUpState(Len(procs))
           /\ c.pc \in Holding => /\ c.proc \in 1..Len(procs)
                                  /\ procs[c.proc] \in Proc
                                  /\ procs[c.proc].part = p
<1> DEFINE c == catchUp[<<s, p>>]
<1>1. PoolOK /\ HoldersOK
  BY Parts
<1>2. procs \in Seq(Proc) /\ Len(procs) \in Nat
  BY <1>1, LenProperties DEF PoolOK
<1>3. c \in CatchUpState(Len(procs))
  BY <1>1 DEF HoldersOK
<1>4. c.pc \in Holding => c.proc # 0 /\ procs[c.proc].part = p
  BY <1>1 DEF HoldersOK
<1>5. c.proc \in 0..Len(procs)
  BY <1>3 DEF CatchUpState
<1>6. c.pc \in Holding => c.proc \in 1..Len(procs)
  BY <1>2, <1>4, <1>5
<1> HIDE DEF c
<1>7. c.pc \in Holding => procs[c.proc] \in Proc
  BY <1>2, <1>6, ElementOfSeq
<1> QED
  BY <1>3, <1>4, <1>6, <1>7 DEF c

\* What the states a catch-up may go to hold.
LEMMA NextStates ==
    ASSUME Len(procs) \in Nat, NEW s
    PROVE  /\ NoCatchUp \in CatchUpState(Len(procs)) /\ NoCatchUp.pc \notin Holding
           /\ Caught(s, 0) \in CatchUpState(Len(procs))
           /\ Caught(s, 0).pc \notin Holding
           /\ [NoCatchUp EXCEPT !.pc = "lookup"] \in CatchUpState(Len(procs))
           /\ [NoCatchUp EXCEPT !.pc = "lookup"].pc \notin Holding
BY DEF Caught, NoCatchUp, CatchUpState, Holding

LEMMA CatchUpStepTypes ==
    ASSUME TypeLink, NEW s \in Starter, NEW p \in Partition,
           \/ Lookup(s, p) \/ FetchLog(s, p) \/ AppendEntry(s, p)
           \/ TryFinalizeInSync(s, p) \/ CatchUpFails(s, p)
    PROVE  TypeLink' /\ Grows
<1> DEFINE c == catchUp[<<s, p>>]
<1>1. WatchOK /\ PoolOK /\ HoldersOK /\ RestOK
  BY Parts
<1>2. procs \in Seq(Proc) /\ Len(procs) \in Nat
  BY <1>1, LenProperties DEF PoolOK
<1>3. /\ c \in CatchUpState(Len(procs))
      /\ c.pc \in Holding => /\ c.proc \in 1..Len(procs)
                             /\ procs[c.proc] \in Proc
                             /\ procs[c.proc].part = p
  BY HeldFacts
<1>4. /\ NoCatchUp \in CatchUpState(Len(procs)) /\ NoCatchUp.pc \notin Holding
      /\ Caught(s, p) \in CatchUpState(Len(procs)) /\ Caught(s, p).pc \notin Holding
  BY <1>2, NextStates DEF Caught
<1>5. CASE Lookup(s, p)
  <2>1. /\ PoolOK' /\ Grows
        /\ RestOK'
    BY <1>1, <1>5, PoolSame DEF Lookup, CatchUpGoes, watchVars, RestOK
  <2>2. CASE hosts[p] = 0 \/ procs[hosts[p]].inSync
    <3>1. CatchUpGoes(s, p, NoCatchUp) \/ CatchUpGoes(s, p, Caught(s, p))
      BY <1>5, <2>2 DEF Lookup
    <3> QED
      BY <1>4, <2>1, <3>1, CatchUpTypes
  <2>3. CASE hosts[p] # 0 /\ ~procs[hosts[p]].inSync
    <3> DEFINE d == [pc |-> "fetch", proc |-> hosts[p], from |-> 0]
    <3>1. CatchUpGoes(s, p, d)
      BY <1>5, <2>3 DEF Lookup
    <3>2. hosts[p] \in 1..Len(procs) /\ procs[hosts[p]].part = p
      BY <1>1, <2>3, HostedFacts
    <3>3. d \in CatchUpState(Len(procs)) /\ d.proc = hosts[p]
      BY <1>2, <3>2 DEF CatchUpState
    <3> HIDE DEF d
    <3> QED
      BY <2>1, <2>3, <3>1, <3>2, <3>3, CatchUpTypes
  <2> QED
    BY <2>1, <2>2, <2>3
<1>6. CASE FetchLog(s, p)
  <2> DEFINE end == procs[c.proc].end
             d == [c EXCEPT !.from = end,
                            !.pc = IF end < LeaderRecords THEN "append" ELSE "finalize"]
  <2>1. PoolOK' /\ Grows /\ RestOK'
    BY <1>1, <1>6, PoolSame DEF FetchLog, CatchUpGoes, watchVars, RestOK
  <2>2. CatchUpGoes(s, p, d) /\ c.pc \in Holding
    BY <1>6 DEF FetchLog, At, Holding
  <2>3. end \in Nat
    BY <1>3, <2>2 DEF Proc
  <2>4. d \in CatchUpState(Len(procs)) /\ d.proc = c.proc
    <3> HIDE DEF end
    <3> QED
      BY <1>3, <2>3 DEF CatchUpState
  <2>5. c.proc # 0
    BY <1>3, <2>2
  <2> HIDE DEF d
  <2> QED
    BY <1>3, <2>1, <2>2, <2>4, <2>5, CatchUpTypes
<1>7. CASE AppendEntry(s, p)
  <2>1. c.pc \in Holding /\ c.proc \in 1..Len(procs)
    BY <1>3, <1>7 DEF AppendEntry, At, Holding
  <2>2. /\ WriteTo(c.proc) \/ UNCHANGED <<procs, disk>>
        /\ UNCHANGED <<closing, hosts, adrift, early, failed, budget>>
    BY <1>7 DEF AppendEntry, CatchUpGoes, watchVars
  <2>3. adrift' \subseteq Partition
    BY <1>1, <2>2 DEF PoolOK
  <2>4. PoolOK' /\ Grows /\ RestOK'
    <3>1. CASE WriteTo(c.proc)
      <4>1. PoolOK' /\ Grows
        BY <2>1, <2>2, <2>3, <3>1, PoolWritten
      <4> QED
        BY <1>1, <2>2, <4>1 DEF RestOK
    <3>2. CASE UNCHANGED <<procs, disk>>
      BY <1>1, <2>2, <3>2, PoolSame DEF RestOK
    <3> QED
      BY <2>2, <3>1, <3>2
  <2> DEFINE d == [c EXCEPT !.pc = "finalize", !.from = 0]
  <2>5. CatchUpGoes(s, p, d) \/ CatchUpGoes(s, p, NoCatchUp)
    BY <1>7 DEF AppendEntry
  <2>6. d \in CatchUpState(Len(procs)) /\ d.proc = c.proc
    BY <1>3 DEF CatchUpState
  <2>7. c.proc # 0
    BY <2>1
  <2> HIDE DEF d
  <2> QED
    BY <1>3, <1>4, <2>1, <2>4, <2>5, <2>6, <2>7, CatchUpTypes
<1>8. CASE TryFinalizeInSync(s, p)
  <2>1. c.pc \in Holding /\ c.proc \in 1..Len(procs)
    BY <1>3, <1>8 DEF TryFinalizeInSync, At, Holding
  <2>2. UNCHANGED <<closing, hosts, adrift, early, disk, failed, budget>>
    BY <1>8 DEF TryFinalizeInSync, CatchUpGoes, watchVars
  <2>3. RestOK'
    BY <1>1, <2>2 DEF RestOK
  <2>4. CASE procs[c.proc].end >= LeaderRecords
    <3>1. procs' = [procs EXCEPT ![c.proc] = [procs[c.proc] EXCEPT !.inSync = TRUE]]
      BY <1>8, <2>4 DEF TryFinalizeInSync
    <3>2. /\ procs' \in Seq(Proc) /\ Len(procs') = Len(procs)
          /\ \A j \in 1..Len(procs) : /\ procs'[j].part = procs[j].part
                                      /\ procs'[j].state = procs[j].state
      BY <1>1, <2>1, <3>1, InSyncSet
    <3>3. /\ disk' \in [Partition -> Seq(Nat)]
          /\ adrift' \subseteq Partition /\ early' \subseteq Partition
      BY <1>1, <2>2 DEF PoolOK
    <3>4. PoolOK' /\ Grows
      BY <1>1, <2>2, <3>2, <3>3, PoolKept
    <3>5. CatchUpGoes(s, p, Caught(s, p))
      BY <1>8, <2>4 DEF TryFinalizeInSync
    <3> QED
      BY <1>4, <2>3, <3>4, <3>5, CatchUpTypes
  <2>5. CASE ~(procs[c.proc].end >= LeaderRecords)
    <3> DEFINE d == [c EXCEPT !.pc = "fetch"]
    <3>1. PoolOK' /\ Grows
      BY <1>1, <1>8, <2>2, <2>5, PoolSame DEF TryFinalizeInSync
    <3>2. CatchUpGoes(s, p, d)
      BY <1>8, <2>5 DEF TryFinalizeInSync
    <3>3. d \in CatchUpState(Len(procs)) /\ d.proc = c.proc /\ c.proc # 0
      BY <1>3, <2>1 DEF CatchUpState
    <3> HIDE DEF d
    <3> QED
      BY <1>3, <2>1, <2>3, <3>1, <3>2, <3>3, CatchUpTypes
  <2> QED
    BY <2>4, <2>5
<1>9. CASE CatchUpFails(s, p)
  <2>1. /\ CatchUpGoes(s, p, NoCatchUp)
        /\ UNCHANGED <<procs, disk, closing, hosts, adrift, early>>
        /\ failed' = TRUE /\ Spend("fault")
    BY <1>9 DEF CatchUpFails, CatchUpGoes, watchVars
  <2>2. PoolOK' /\ Grows
    BY <1>1, <2>1, PoolSame
  <2>3. RestOK'
    BY <1>1, <2>1, SpendTypes
  <2> QED
    BY <1>4, <2>1, <2>2, <2>3, CatchUpTypes
<1> QED
  BY <1>5, <1>6, <1>7, <1>8, <1>9

\* A new value of the topic is one of every partition's standing.
LEMMA ChangeValues ==
    ASSUME WatchOK, CreateTopic \/ DeleteTopic
                    \/ \E p \in Partition : AddReplica(p) \/ RemoveReplica(p)
    PROVE  \E value \in [Partition -> Standing] : Changes(value)
<1>1. Last \in [Partition -> Standing]
  BY LastFacts
<1>2. CASE CreateTopic
  <2>1. \A replica \in SUBSET Partition : Assigned(replica) \in [Partition -> Standing]
    BY DEF Assigned, Standing
  <2> QED
    BY <1>2, <2>1 DEF CreateTopic
<1>3. CASE DeleteTopic
  <2>1. [p \in Partition |-> "gone"] \in [Partition -> Standing]
    BY DEF Standing
  <2> QED
    BY <1>3, <2>1 DEF DeleteTopic
<1>4. CASE \E p \in Partition : AddReplica(p) \/ RemoveReplica(p)
  <2>1. PICK p \in Partition : AddReplica(p) \/ RemoveReplica(p)
    BY <1>4
  <2>2. /\ [Last EXCEPT ![p] = "replica"] \in [Partition -> Standing]
        /\ [Last EXCEPT ![p] = "away"] \in [Partition -> Standing]
    BY <1>1 DEF Standing
  <2> QED
    BY <2>1, <2>2 DEF AddReplica, RemoveReplica
<1> QED
  BY <1>2, <1>3, <1>4

LEMMA OutsideStepTypes ==
    ASSUME TypeLink,
           \/ \E value \in [Partition -> Standing] : Changes(value)
           \/ \E p \in Partition : MarkNodeInSync(p) \/ RestoreData(p)
           \/ \E h \in Push : PushArrives(h)
    PROVE  /\ TypeLink'
           /\ UNCHANGED <<watchVars, procs, disk>>
<1>1. WatchOK /\ PoolOK /\ HoldersOK /\ RestOK
  BY Parts
<1>2. procs \in Seq(Proc) /\ Len(procs) \in Nat
  BY <1>1, LenProperties DEF PoolOK
<1>3. UNCHANGED <<watchVars, procs, disk>>
  BY DEF Changes, MarkNodeInSync, RestoreData, CatchUpGoes, PushArrives
<1>4. PoolOK' /\ Grows
  BY <1>1, <1>3, PoolSame DEF watchVars
<1>5. UNCHANGED <<seen, next>>
  BY <1>3 DEF watchVars
<1>6. /\ NoCatchUp \in CatchUpState(Len(procs)) /\ NoCatchUp.pc \notin Holding
      /\ [NoCatchUp EXCEPT !.pc = "lookup"] \in CatchUpState(Len(procs))
      /\ [NoCatchUp EXCEPT !.pc = "lookup"].pc \notin Holding
  BY <1>2, NextStates
<1>7. CASE \E value \in [Partition -> Standing] : Changes(value)
  <2>1. PICK value \in [Partition -> Standing] : Changes(value)
    BY <1>7
  <2>2. WatchOK'
    BY <1>1, <1>5, <2>1, AppendVersion DEF Changes
  <2>3. HoldersOK'
    BY <1>1, <1>4, <2>1, HoldersKept DEF Changes, HoldersOK
  <2>4. RestOK'
    BY <1>1, <2>1, SpendTypes DEF Changes, RestOK
  <2> QED
    BY <1>3, <1>4, <2>2, <2>3, <2>4, PartsNext
<1>8. ASSUME NEW p \in Partition, MarkNodeInSync(p) PROVE TypeLink'
  <2>1. WatchOK'
    <3>1. Last \in [Partition -> Standing]
      BY <1>1, LastFacts
    <3>2. [Last EXCEPT ![p] = "isr"] \in [Partition -> Standing]
      BY <3>1 DEF Standing
    <3>3. \/ versions' = Append(versions, [Last EXCEPT ![p] = "isr"])
          \/ versions' = versions
      BY <1>8 DEF MarkNodeInSync
    <3> QED
      BY <1>1, <1>5, <3>2, <3>3, AppendVersion, SameWatch
  <2>2. CatchUpMoves
    <3>1. "watch" \in Starter /\ catchUp' = [catchUp EXCEPT ![<<"watch", p>>] = NoCatchUp]
      BY <1>8 DEF MarkNodeInSync, Starter
    <3> QED
      BY <1>6, <3>1 DEF CatchUpMoves
  <2>3. push' = push /\ syncing' \subseteq Partition
    BY <1>1, <1>8 DEF MarkNodeInSync, NoLongerSyncing, HoldersOK
  <2>4. HoldersOK'
    BY <1>1, <1>4, <2>2, <2>3, HoldersKept
  <2>5. RestOK'
    BY <1>1, <1>8 DEF MarkNodeInSync, RestOK
  <2> QED
    BY <1>4, <2>1, <2>4, <2>5, PartsNext
<1>9. ASSUME NEW p \in Partition, RestoreData(p) PROVE TypeLink'
  <2>1. /\ CatchUpGoes("restore", p, [NoCatchUp EXCEPT !.pc = "lookup"])
        /\ Spend("fault") /\ failed' = failed
    BY <1>9 DEF RestoreData
  <2>2. RestOK'
    BY <1>1, <2>1, SpendTypes DEF RestOK
  <2>3. "restore" \in Starter
    BY DEF Starter
  <2> QED
    BY <1>4, <1>6, <2>1, <2>2, <2>3, CatchUpTypes
<1>10. ASSUME NEW h \in Push, PushArrives(h) PROVE TypeLink'
  <2>1. PICK p \in Partition, o \in 0..LeaderRecords :
           /\ hosts[p] # 0
           /\ push' = [push EXCEPT ![h] = [proc |-> hosts[p], offset |-> o]]
    BY <1>10 DEF PushArrives
  <2>2. [proc |-> hosts[p], offset |-> o] \in PushState(Len(procs))
    <3>1. hosts[p] \in 0..Len(procs) /\ o \in Nat
      BY <1>1, HostingAssumption DEF PoolOK
    <3> QED
      BY <3>1 DEF PushState
  <2>3. PushGoes
    BY <2>1, <2>2 DEF PushGoes
  <2>4. UNCHANGED <<versions, catchUp, syncing, failed, budget>>
    BY <1>10 DEF PushArrives
  <2>5. HoldersOK'
    BY <1>1, <1>4, <2>3, <2>4, HoldersKept DEF HoldersOK
  <2>6. WatchOK' /\ RestOK'
    BY <1>1, <1>5, <2>4, SameWatch DEF RestOK
  <2> QED
    BY <1>4, <2>5, <2>6, PartsNext
<1> QED
  BY <1>3, <1>7, <1>8, <1>9, <1>10

\* A processor a push holds.
LEMMA PushedFacts ==
    ASSUME TypeLink, NEW h \in Push, push[h] # NoPush
    PROVE  push[h].proc \in 1..Len(procs) /\ push[h].offset \in Nat
<1>1. PoolOK /\ HoldersOK
  BY Parts
<1>2. Len(procs) \in Nat
  BY <1>1, LenProperties DEF PoolOK
<1>3. push[h] \in PushState(Len(procs)) /\ push[h].proc # 0
  BY <1>1 DEF HoldersOK
<1>4. push[h].proc \in 0..Len(procs) /\ push[h].offset \in Nat
  BY <1>3 DEF PushState
<1> QED
  BY <1>2, <1>3, <1>4

LEMMA ApplyTypes ==
    ASSUME TypeLink, NEW h \in Push, TryApplyPush(h)
    PROVE  TypeLink'
<1> DEFINE i == push[h].proc
<1>1. WatchOK /\ PoolOK /\ HoldersOK /\ RestOK
  BY Parts
<1>2. i \in 1..Len(procs) /\ push[h] # NoPush
  BY PushedFacts DEF TryApplyPush
<1> HIDE DEF i
<1>0. procs \in Seq(Proc)
  BY <1>1 DEF PoolOK
<1>p. procs[i] \in Proc
  BY <1>0, <1>2, ElementOfSeq
<1>3. procs[i].part \in Partition
  BY <1>p DEF Proc
<1>4. /\ UNCHANGED <<versions, seen, next, closing, hosts, early, catchUp, syncing,
                     failed, budget>>
      /\ push' = [push EXCEPT ![h] = NoPush]
      /\ \/ WriteTo(i) /\ adrift' \in {adrift, adrift \cup {procs[i].part}}
         \/ UNCHANGED <<procs, disk, adrift>>
  BY DEF TryApplyPush, i
<1>5. adrift' \subseteq Partition
  BY <1>1, <1>3, <1>4 DEF PoolOK
<1>6. PoolOK' /\ Grows
  BY <1>1, <1>2, <1>4, <1>5, PoolWritten, PoolSame
<1>7. PushGoes
  <2>1. NoPush \in PushState(Len(procs))
    BY <1>1, LenProperties DEF NoPush, PushState, PoolOK
  <2> QED
    BY <1>4, <2>1 DEF PushGoes
<1>8. HoldersOK'
  BY <1>1, <1>4, <1>6, <1>7, HoldersKept DEF HoldersOK
<1>9. WatchOK' /\ RestOK'
  BY <1>1, <1>4, SameWatch DEF RestOK
<1> QED
  BY <1>6, <1>8, <1>9, PartsNext

LEMMA WatchStepTypes ==
    ASSUME TypeLink, Watch
    PROVE  TypeLink'
<1>1. WatchOK /\ PoolOK /\ HoldersOK /\ RestOK /\ next \in Partition
  BY Parts DEF WatchOK
<1>2. WatchOK'
  <2>1. CASE Close
    BY <1>1, <2>1, SameWatch DEF Close
  <2>2. CASE ~Close
    <3>1. /\ Applies /\ UNCHANGED versions
          /\ Advance \/ (next' = 0 /\ seen' = seen + 1)
      BY <2>2 DEF Watch, Skip, GiveUp, Host, RemoveTopic
    <3> QED
      BY <1>1, <3>1, WatchGoes
  <2> QED
    BY <2>1, <2>2
<1>3. push' = push /\ UNCHANGED <<failed, budget>>
  BY DEF Watch, Skip, GiveUp, Close, Host, RemoveTopic
<1>4. PoolOK' /\ Grows
  <2>1. CASE Skip
    BY <1>1, <2>1, PoolSame DEF Skip
  <2>2. CASE GiveUp
    BY <1>1, <2>2, GiveUpFacts
  <2>3. CASE Close
    BY <1>1, <2>3, CloseFacts DEF Close
  <2>4. CASE Host /\ hosts[next] = 0
    BY <1>1, <2>4, HostNewFacts
  <2>5. CASE Host /\ hosts[next] # 0
    BY <1>1, <2>5, HostAgainFacts
  <2>6. CASE RemoveTopic
    BY <1>1, <2>6, RemoveTopicFacts
  <2> QED
    BY <2>1, <2>2, <2>3, <2>4, <2>5, <2>6 DEF Watch
<1>5. syncing' \subseteq Partition /\ (catchUp' = catchUp \/ CatchUpMoves)
  <2>1. CASE Host
    <3>1. UNCHANGED <<catchUp, syncing>> \/ Start(next)
      BY <2>1 DEF Host
    <3>2. CASE UNCHANGED <<catchUp, syncing>>
      BY <1>1, <3>2 DEF HoldersOK
    <3>3. CASE Start(next) /\ next \notin syncing
      <4> DEFINE c == [NoCatchUp EXCEPT !.pc = "lookup"]
      <4>1. /\ syncing' = syncing \cup {next} /\ "watch" \in Starter
            /\ catchUp' = [catchUp EXCEPT ![<<"watch", next>>] = c]
        BY <3>3 DEF Start, Starter
      <4>2. c \in CatchUpState(Len(procs)) /\ c.pc \notin Holding
        BY <1>1, LenProperties, NextStates DEF PoolOK
      <4> HIDE DEF c
      <4>3. CatchUpMoves
        BY <1>1, <4>1, <4>2 DEF CatchUpMoves
      <4> QED
        BY <1>1, <4>1, <4>3 DEF HoldersOK
    <3> QED
      BY <3>1, <3>2, <3>3 DEF Start
  <2>2. CASE ~Host
    BY <1>1, <2>2 DEF Watch, Skip, GiveUp, Close, RemoveTopic, HoldersOK
  <2> QED
    BY <2>1, <2>2
<1>6. HoldersOK'
  BY <1>1, <1>3, <1>4, <1>5, HoldersKept
<1>7. RestOK'
  BY <1>1, <1>3 DEF RestOK
<1> QED
  BY <1>2, <1>4, <1>6, <1>7, PartsNext

LEMMA NextTypeLink == TypeLink /\ [Next]_vars => TypeLink'
<1> SUFFICES ASSUME TypeLink, [Next]_vars PROVE TypeLink'
  OBVIOUS
<1>1. WatchOK
  BY Parts
<1>2. CASE CreateTopic \/ DeleteTopic
           \/ \E p \in Partition : AddReplica(p) \/ RemoveReplica(p)
  BY <1>1, <1>2, ChangeValues, OutsideStepTypes
<1>3. CASE Watch
  BY <1>3, WatchStepTypes
<1>4. CASE \E h \in Push : PushArrives(h) \/ TryApplyPush(h)
  BY <1>4, OutsideStepTypes, ApplyTypes
<1>5. CASE \E p \in Partition : RestoreData(p)
  BY <1>5, OutsideStepTypes
<1>6. CASE \E s \in Starter, p \in Partition : CatchUp(s, p) \/ CatchUpFails(s, p)
  BY <1>6, OutsideStepTypes, CatchUpStepTypes DEF CatchUp
<1>7. CASE UNCHANGED vars
  BY <1>7 DEF vars, watchVars, TypeLink, TypeOK, LinkInv
<1> QED
  BY <1>2, <1>3, <1>4, <1>5, <1>6, <1>7 DEF Next

-----------------------------------------------------------------------------
(* At most one processor of a partition writes.                            *)

Files == OneWriter /\ PoolIsOpen /\ FilesInOrder

LEMMA FilesInvParts == FilesInv <=> TypeLink /\ Files
BY DEF FilesInv, Files, TypeLink

LEMMA ProcDomain ==
    ASSUME PoolOK
    PROVE  /\ DOMAIN procs = 1..Len(procs) /\ Len(procs) \in Nat
           /\ \A i \in 1..Len(procs) : /\ procs[i] \in Proc
                                       /\ procs[i].part \in Partition
                                       /\ procs[i].end \in Nat
           /\ \A p \in Partition : disk[p] \in Seq(Nat) /\ Len(disk[p]) \in Nat
<1>1. procs \in Seq(Proc) /\ disk \in [Partition -> Seq(Nat)]
  BY DEF PoolOK
<1>2. DOMAIN procs = 1..Len(procs) /\ Len(procs) \in Nat
  BY <1>1, LenProperties
<1>3. \A i \in 1..Len(procs) : procs[i] \in Proc
  BY <1>1, ElementOfSeq
<1>4. \A p \in Partition : disk[p] \in Seq(Nat) /\ Len(disk[p]) \in Nat
  BY <1>1, LenProperties
<1> QED
  BY <1>2, <1>3, <1>4 DEF Proc

\* Whoever writes nothing, opens and closes nothing.
LEMMA FilesKept ==
    ASSUME PoolOK, PoolOK', Files, Len(procs') = Len(procs),
           \A i \in 1..Len(procs) : /\ procs'[i].part = procs[i].part
                                    /\ procs'[i].state = procs[i].state
                                    /\ procs'[i].open = procs[i].open
                                    /\ procs'[i].end = procs[i].end,
           UNCHANGED <<closing, hosts, disk, adrift>>
    PROVE  Files'
<1>1. DOMAIN procs = 1..Len(procs) /\ Len(procs) \in Nat
  BY ProcDomain
<1>2. DOMAIN procs' = 1..Len(procs)
  BY LenProperties DEF PoolOK
<1>3. OneWriter'
  BY <1>1, <1>2 DEF Files, OneWriter
<1>4. \A p \in Partition : hosts[p] # 0 => hosts[p] \in 1..Len(procs)
  BY HostedFacts
<1>5. PoolIsOpen'
  BY <1>4 DEF Files, PoolIsOpen
<1>6. FilesInOrder'
  BY <1>4 DEF Files, FilesInOrder
<1> QED
  BY <1>3, <1>5, <1>6 DEF Files

\* A record is written by a processor with its files open, or, late, by one
\* with its files closed, which leaves the partition adrift.
LEMMA FilesWritten ==
    ASSUME TypeLink, PoolOK', Files, NEW i \in 1..Len(procs), WriteTo(i),
           adrift \subseteq adrift', procs[i].open \/ procs[i].part \in adrift',
           UNCHANGED <<closing, hosts>>
    PROVE  Files'
<1>1. PoolOK /\ TypeOK
  BY Parts DEF TypeLink
<1>2. /\ Len(procs') = Len(procs)
      /\ procs'[i].part = procs[i].part /\ procs'[i].state = procs[i].state
      /\ procs'[i].end = procs[i].end + 1
      /\ \A j \in 1..Len(procs) : j # i => procs'[j] = procs[j]
      /\ disk'[procs[i].part] = Append(disk[procs[i].part], procs[i].end)
      /\ \A p \in Partition : p # procs[i].part => disk'[p] = disk[p]
  BY <1>1, WriteToFacts
<1>3. procs'[i].open
  BY <1>1, WriteToFacts
<1>4. /\ DOMAIN procs = 1..Len(procs) /\ Len(procs) \in Nat
      /\ procs[i].part \in Partition /\ procs[i].end \in Nat
      /\ disk[procs[i].part] \in Seq(Nat) /\ Len(disk[procs[i].part]) \in Nat
  BY <1>1, ProcDomain
<1>5. DOMAIN procs' = 1..Len(procs)
  BY <1>2, LenProperties DEF PoolOK
<1> DEFINE d == disk[procs[i].part]
<1>6. /\ Len(disk'[procs[i].part]) = Len(d) + 1
      /\ \A k \in 1..Len(d) : disk'[procs[i].part][k] = d[k]
      /\ disk'[procs[i].part][Len(d) + 1] = procs[i].end
  BY <1>2, <1>4, AppendProperties
<1>7. \A p \in Partition : hosts[p] # 0 => /\ hosts[p] \in 1..Len(procs)
                                           /\ procs[hosts[p]].part = p
  BY <1>1, HostedFacts
\* The writer knows where the files end.
<1>8. procs[i].part \notin adrift' => procs[i].end = Len(d)
  <2> SUFFICES ASSUME procs[i].part \notin adrift' PROVE procs[i].end = Len(d)
    OBVIOUS
  <2>1. procs[i].open /\ procs[i].part \notin adrift
    OBVIOUS
  <2>2. CASE i = hosts[procs[i].part]
    BY <1>4, <2>1, <2>2 DEF Files, FilesInOrder
  <2>3. CASE i # hosts[procs[i].part]
    BY <1>4, <2>1, <2>3 DEF Files, OneWriter
  <2> QED
    BY <2>2, <2>3
\* Any other processor that could write is of another partition.
<1>9. ASSUME NEW j \in 1..Len(procs), j # i, procs[j].part = procs[i].part,
             procs[i].part \notin adrift'
      PROVE  ~(j # hosts[procs[j].part] /\ procs[j].open) /\ j # hosts[procs[j].part]
  <2>1. procs[i].open /\ procs[i].part \notin adrift
    BY <1>9
  <2>2. CASE i = hosts[procs[i].part]
    BY <1>4, <1>9, <2>1, <2>2 DEF Files, OneWriter
  <2>3. CASE i # hosts[procs[i].part]
    <3>1. i \in closing /\ hosts[procs[i].part] = 0
      BY <1>4, <2>1, <2>3 DEF Files, OneWriter
    <3>2. j # hosts[procs[j].part]
      BY <1>4, <1>9, <3>1
    <3>3. procs[j].open => j \in closing
      BY <1>4, <1>9, <2>1, <3>2 DEF Files, OneWriter
    <3>4. j \notin closing
      BY <1>1, <1>9, <3>1 DEF PoolOK
    <3> QED
      BY <3>2, <3>3, <3>4
  <2> QED
    BY <2>2, <2>3
<1>10. OneWriter'
  <2> SUFFICES ASSUME NEW j \in 1..Len(procs), procs'[j].part \notin adrift',
                      j # hosts[procs'[j].part]
               PROVE  /\ procs'[j].state # "Active"
                      /\ procs'[j].open => /\ j \in closing
                                           /\ hosts[procs'[j].part] = 0
                                           /\ procs'[j].end = Len(disk'[procs'[j].part])
    BY <1>5 DEF OneWriter
  <2>1. procs'[j].part = procs[j].part /\ procs'[j].state = procs[j].state
    BY <1>2
  <2>2. procs[j].part \notin adrift /\ j # hosts[procs[j].part]
    BY <2>1
  <2>3. /\ procs[j].state # "Active"
        /\ procs[j].open => /\ j \in closing
                            /\ hosts[procs[j].part] = 0
                            /\ procs[j].end = Len(disk[procs[j].part])
    BY <1>4, <2>2 DEF Files, OneWriter
  <2>4. CASE j = i
    <3>1. procs[i].open
      BY <2>1, <2>4
    <3>2. procs'[i].end = Len(d) + 1
      BY <1>2, <1>8, <2>1, <2>4
    <3> QED
      BY <1>6, <2>1, <2>3, <2>4, <3>1, <3>2
  <2>5. CASE j # i /\ procs[j].part = procs[i].part
    BY <1>2, <1>9, <2>1, <2>2, <2>3, <2>5
  <2>6. CASE j # i /\ procs[j].part # procs[i].part
    <3>1. procs[j].part \in Partition /\ procs'[j] = procs[j]
      BY <1>1, <1>2, <2>6, ProcDomain
    <3>2. disk'[procs[j].part] = disk[procs[j].part]
      BY <1>2, <2>6, <3>1
    <3> QED
      BY <2>3, <3>1, <3>2
  <2> QED
    BY <2>4, <2>5, <2>6
<1>11. PoolIsOpen'
  <2> SUFFICES ASSUME NEW p \in Partition, p \notin adrift', hosts[p] # 0
               PROVE  procs'[hosts[p]].open
    BY DEF PoolIsOpen
  <2>1. procs[hosts[p]].open
    BY DEF Files, PoolIsOpen
  <2>2. CASE hosts[p] = i
    BY <1>3, <2>2
  <2>3. CASE hosts[p] # i
    BY <1>2, <1>7, <2>1, <2>3
  <2> QED
    BY <2>2, <2>3
<1>12. FilesInOrder'
  <2> SUFFICES ASSUME NEW p \in Partition, p \notin adrift'
               PROVE  /\ \A k \in 1..Len(disk'[p]) : disk'[p][k] = k - 1
                      /\ hosts[p] # 0 => procs'[hosts[p]].end = Len(disk'[p])
    BY DEF FilesInOrder
  <2>1. /\ \A k \in 1..Len(disk[p]) : disk[p][k] = k - 1
        /\ hosts[p] # 0 => procs[hosts[p]].end = Len(disk[p])
    BY DEF Files, FilesInOrder
  <2>2. CASE p = procs[i].part
    <3>1. procs[i].end = Len(d)
      BY <1>8, <2>2
    <3>2. \A k \in 1..(Len(d) + 1) : k \in 1..Len(d) \/ k = Len(d) + 1
      BY <1>4
    <3>3. \A k \in 1..Len(disk'[p]) : disk'[p][k] = k - 1
      <4> SUFFICES ASSUME NEW k \in 1..(Len(d) + 1) PROVE disk'[p][k] = k - 1
        BY <1>6, <2>2
      <4>1. CASE k \in 1..Len(d)
        BY <1>6, <2>1, <2>2, <4>1
      <4>2. CASE k = Len(d) + 1
        BY <1>4, <1>6, <2>2, <3>1, <4>2
      <4> QED
        BY <3>2, <4>1, <4>2
    <3>4. hosts[p] # 0 => hosts[p] = i
      BY <1>7, <1>9, <2>2
    <3>5. procs'[i].end = Len(d) + 1
      BY <1>2, <3>1
    <3> QED
      BY <1>6, <2>2, <3>3, <3>4, <3>5
  <2>3. CASE p # procs[i].part
    <3>1. disk'[p] = disk[p]
      BY <1>2, <2>3
    <3>2. hosts[p] # 0 => procs'[hosts[p]] = procs[hosts[p]]
      BY <1>2, <1>7, <2>3
    <3> QED
      BY <2>1, <3>1, <3>2
  <2> QED
    BY <2>2, <2>3
<1> QED
  BY <1>10, <1>11, <1>12 DEF Files

LEMMA WatchStepFiles ==
    ASSUME FilesInv, PoolOK', Watch
    PROVE  Files'
<1>1. WatchOK /\ PoolOK /\ next \in Partition /\ Files
  BY FilesInvParts, Parts DEF WatchOK
<1>2. /\ DOMAIN procs = 1..Len(procs) /\ Len(procs) \in Nat
      /\ \A i \in 1..Len(procs) : procs[i].part \in Partition
      /\ \A p \in Partition : hosts[p] # 0 => /\ hosts[p] \in 1..Len(procs)
                                              /\ procs[hosts[p]].part = p
  BY <1>1, ProcDomain, HostedFacts
<1>3. DOMAIN procs' = 1..Len(procs')
  BY LenProperties DEF PoolOK
<1>4. CASE Skip
  BY <1>1, <1>4, FilesKept DEF Skip
\* The processor is about to be closed.
<1>5. CASE GiveUp
  <2> DEFINE i == hosts[next]
  <2>1. /\ Len(procs') = Len(procs)
        /\ i \in 1..Len(procs) /\ procs[i].part = next
        /\ \A j \in 1..Len(procs) : j # i => procs'[j] = procs[j]
        /\ procs'[i].part = next /\ procs'[i].state = "Stopping"
        /\ procs'[i].open = procs[i].open /\ procs'[i].end = procs[i].end
        /\ closing = {} /\ closing' = {i}
        /\ hosts' = [hosts EXCEPT ![next] = 0]
        /\ UNCHANGED <<disk, adrift>>
    BY <1>1, <1>5, GiveUpFacts
  <2>2. /\ hosts'[next] = 0 /\ \A p \in Partition : p # next => hosts'[p] = hosts[p]
        /\ i # 0
    BY <1>1, <2>1 DEF PoolOK
  <2> HIDE DEF i
  <2>i. i = hosts[next]
    BY DEF i
  <2>3. OneWriter'
    <3> SUFFICES ASSUME NEW j \in 1..Len(procs), procs'[j].part \notin adrift,
                        j # hosts'[procs'[j].part]
                 PROVE  /\ procs'[j].state # "Active"
                        /\ procs'[j].open => /\ j \in closing'
                                             /\ hosts'[procs'[j].part] = 0
                                             /\ procs'[j].end = Len(disk[procs'[j].part])
      BY <1>3, <2>1 DEF OneWriter
    <3>1. CASE j = i
      <4>1. next \notin adrift /\ procs[i].open /\ procs[i].end = Len(disk[next])
        BY <1>1, <2>1, <2>2, <2>i, <3>1 DEF Files, PoolIsOpen, FilesInOrder
      <4> QED
        BY <2>1, <2>2, <3>1, <4>1
    <3>2. CASE j # i
      <4>1. procs'[j] = procs[j] /\ j # hosts[procs[j].part]
        <5>1. procs'[j] = procs[j] /\ procs[j].part \in Partition
          BY <1>2, <2>1, <3>2
        <5>2. CASE procs[j].part = next
          BY <2>i, <3>2, <5>1, <5>2
        <5>3. CASE procs[j].part # next
          BY <2>2, <5>1, <5>3
        <5> QED
          BY <5>1, <5>2, <5>3
      <4>2. procs[j].state # "Active" /\ ~procs[j].open
        BY <1>1, <1>2, <2>1, <4>1 DEF Files, OneWriter
      <4> QED
        BY <4>1, <4>2
    <3> QED
      BY <3>1, <3>2
  <2>4. PoolIsOpen'
    <3> SUFFICES ASSUME NEW p \in Partition, p \notin adrift, hosts'[p] # 0
                 PROVE  procs'[hosts'[p]].open
      BY <2>1 DEF PoolIsOpen
    <3>1. p # next /\ hosts'[p] = hosts[p] /\ hosts[p] # 0
      BY <2>2
    <3>2. procs'[hosts[p]] = procs[hosts[p]]
      BY <1>2, <2>1, <3>1
    <3> QED
      BY <1>1, <3>1, <3>2 DEF Files, PoolIsOpen
  <2>5. FilesInOrder'
    <3> SUFFICES ASSUME NEW p \in Partition, p \notin adrift
                 PROVE  /\ \A k \in 1..Len(disk[p]) : disk[p][k] = k - 1
                        /\ hosts'[p] # 0 => procs'[hosts'[p]].end = Len(disk[p])
      BY <2>1 DEF FilesInOrder
    <3>1. /\ \A k \in 1..Len(disk[p]) : disk[p][k] = k - 1
          /\ hosts[p] # 0 => procs[hosts[p]].end = Len(disk[p])
      BY <1>1 DEF Files, FilesInOrder
    <3>2. hosts'[p] # 0 => p # next /\ hosts'[p] = hosts[p]
      BY <2>2
    <3>3. hosts'[p] # 0 => procs'[hosts[p]] = procs[hosts[p]]
      BY <1>2, <2>1, <3>2
    <3> QED
      BY <3>1, <3>2, <3>3
  <2> QED
    BY <2>3, <2>4, <2>5 DEF Files
\* It is closed.
<1>6. CASE Close
  <2>1. PICK i \in closing : /\ closing' = closing \ {i} /\ procs' = StopAndRemove(i)
                             /\ UNCHANGED <<hosts, adrift, early, disk>>
    BY <1>6 DEF Close
  <2>2. /\ Len(procs') = Len(procs) /\ i \in 1..Len(procs)
        /\ \A j \in 1..Len(procs) : j # i => procs'[j] = procs[j]
        /\ procs'[i].part = procs[i].part
        /\ procs'[i].state = "Deleted"
        /\ \A p \in Partition : hosts[p] # i
    BY <1>1, <2>1, CloseFacts
  <2>3. ~procs'[i].open
    BY <1>1, <2>1, CloseFacts
  <2>4. OneWriter'
    <3> SUFFICES ASSUME NEW j \in 1..Len(procs), procs'[j].part \notin adrift,
                        j # hosts[procs'[j].part]
                 PROVE  /\ procs'[j].state # "Active"
                        /\ procs'[j].open => /\ j \in closing'
                                             /\ hosts[procs'[j].part] = 0
                                             /\ procs'[j].end = Len(disk[procs'[j].part])
      BY <1>3, <2>1, <2>2 DEF OneWriter
    <3>1. CASE j = i
      BY <2>2, <2>3, <3>1
    <3>2. CASE j # i
      BY <1>1, <1>2, <2>1, <2>2, <3>2 DEF Files, OneWriter
    <3> QED
      BY <3>1, <3>2
  <2>5. \A p \in Partition : hosts[p] # 0 => procs'[hosts[p]] = procs[hosts[p]]
    BY <1>2, <2>2
  <2>6. PoolIsOpen' /\ FilesInOrder'
    BY <1>1, <2>1, <2>5 DEF Files, PoolIsOpen, FilesInOrder
  <2> QED
    BY <2>4, <2>6 DEF Files
\* A new processor knows where the files end, and all earlier ones are closed.
<1>7. CASE Host /\ hosts[next] = 0
  <2> DEFINE i == Len(procs) + 1
  <2>1. /\ Len(procs') = i
        /\ \A j \in 1..Len(procs) : procs'[j] = procs[j]
        /\ procs'[i].part = next
        /\ procs'[i].end = Len(disk[next])
        /\ hosts' = [hosts EXCEPT ![next] = i]
        /\ closing = {} /\ closing' = {}
        /\ UNCHANGED <<disk, adrift>>
    BY <1>1, <1>7, HostNewFacts
  <2>2. procs'[i].open
    BY <1>1, <1>7, HostNewFacts
  <2>3. hosts'[next] = i /\ \A p \in Partition : p # next => hosts'[p] = hosts[p]
    BY <1>1, <2>1 DEF PoolOK
  <2>4. \A j \in 1..i : j \in 1..Len(procs) \/ j = i
    BY <1>2
  <2> HIDE DEF i
  <2>5. OneWriter'
    <3> SUFFICES ASSUME NEW j \in 1..i, procs'[j].part \notin adrift,
                        j # hosts'[procs'[j].part]
                 PROVE  procs'[j].state # "Active" /\ ~procs'[j].open
      BY <1>3, <2>1 DEF OneWriter
    <3>1. j \in 1..Len(procs)
      BY <2>1, <2>3, <2>4
    <3>2. procs'[j] = procs[j] /\ procs[j].part \in Partition /\ j # 0
      BY <1>2, <2>1, <3>1
    <3>3. j # hosts[procs[j].part]
      <4>1. CASE procs[j].part = next
        BY <1>7, <3>2, <4>1
      <4>2. CASE procs[j].part # next
        BY <2>3, <3>2, <4>2
      <4> QED
        BY <4>1, <4>2
    <3> QED
      BY <1>1, <1>2, <2>1, <3>1, <3>2, <3>3 DEF Files, OneWriter
  <2>6. PoolIsOpen'
    <3> SUFFICES ASSUME NEW p \in Partition, p \notin adrift, hosts'[p] # 0
                 PROVE  procs'[hosts'[p]].open
      BY <2>1 DEF PoolIsOpen
    <3>1. CASE p = next
      BY <2>2, <2>3, <3>1
    <3>2. CASE p # next
      BY <1>1, <1>2, <2>1, <2>3, <3>2 DEF Files, PoolIsOpen
    <3> QED
      BY <3>1, <3>2
  <2>7. FilesInOrder'
    <3> SUFFICES ASSUME NEW p \in Partition, p \notin adrift
                 PROVE  /\ \A k \in 1..Len(disk[p]) : disk[p][k] = k - 1
                        /\ hosts'[p] # 0 => procs'[hosts'[p]].end = Len(disk[p])
      BY <2>1 DEF FilesInOrder
    <3>1. /\ \A k \in 1..Len(disk[p]) : disk[p][k] = k - 1
          /\ hosts[p] # 0 => procs[hosts[p]].end = Len(disk[p])
      BY <1>1 DEF Files, FilesInOrder
    <3>2. hosts'[p] # 0 => procs'[hosts'[p]].end = Len(disk[p])
      <4>1. CASE p = next
        BY <2>1, <2>3, <4>1
      <4>2. CASE p # next
        BY <1>2, <2>1, <2>3, <3>1, <4>2
      <4> QED
        BY <4>1, <4>2
    <3> QED
      BY <3>1, <3>2
  <2> QED
    BY <2>5, <2>6, <2>7 DEF Files
<1>8. CASE Host /\ hosts[next] # 0
  <2>1. /\ Len(procs') = Len(procs)
        /\ \A j \in 1..Len(procs) : /\ procs'[j].part = procs[j].part
                                    /\ procs'[j].state = procs[j].state
                                    /\ procs'[j].open = procs[j].open
                                    /\ procs'[j].end = procs[j].end
        /\ UNCHANGED <<hosts, closing, disk, adrift>>
    BY <1>1, <1>8, HostAgainFacts
  <2> QED
    BY <1>1, <2>1, FilesKept
\* Of what is hosted, all is about to be closed or left adrift.
<1>9. CASE RemoveTopic
  <2>1. /\ Len(procs') = Len(procs)
        /\ \A j \in 1..Len(procs) :
             /\ procs'[j].part = procs[j].part /\ procs'[j].open = procs[j].open
             /\ procs'[j].end = procs[j].end
             /\ procs'[j].state = IF j \in closing' THEN "Stopping"
                                                    ELSE procs[j].state
        /\ \A p \in Partition : /\ hosts'[p] = 0
                                /\ hosts[p] # 0 /\ p \notin adrift'
                                      => hosts[p] \in closing'
        /\ closing = {} /\ adrift \subseteq adrift' /\ UNCHANGED disk
    BY <1>1, <1>9, RemoveTopicFacts
  <2>2. OneWriter'
    <3> SUFFICES ASSUME NEW j \in 1..Len(procs), procs'[j].part \notin adrift',
                        j # hosts'[procs'[j].part]
                 PROVE  /\ procs'[j].state # "Active"
                        /\ procs'[j].open => /\ j \in closing'
                                             /\ hosts'[procs'[j].part] = 0
                                             /\ procs'[j].end = Len(disk[procs'[j].part])
      BY <1>3, <2>1 DEF OneWriter
    <3>1. procs[j].part \in Partition /\ procs[j].part \notin adrift /\ j # 0
      BY <1>2, <2>1
    <3>2. CASE j = hosts[procs[j].part]
      <4>1. j \in closing'
        BY <2>1, <3>1, <3>2
      <4>2. procs[j].end = Len(disk[procs[j].part])
        BY <1>1, <3>1, <3>2 DEF Files, FilesInOrder
      <4> QED
        BY <2>1, <3>1, <4>1, <4>2
    <3>3. CASE j # hosts[procs[j].part]
      <4>1. procs[j].state # "Active" /\ ~procs[j].open
        BY <1>1, <1>2, <2>1, <3>1, <3>3 DEF Files, OneWriter
      <4> QED
        BY <2>1, <4>1
    <3> QED
      BY <3>2, <3>3
  <2>3. PoolIsOpen' /\ FilesInOrder'
    BY <1>1, <2>1 DEF Files, PoolIsOpen, FilesInOrder
  <2> QED
    BY <2>2, <2>3 DEF Files
<1> QED
  BY <1>4, <1>5, <1>6, <1>7, <1>8, <1>9 DEF Watch

LEMMA InitFiles == Init => FilesInv
<1> SUFFICES ASSUME Init PROVE FilesInv
  OBVIOUS
<1>1. TypeLink
  BY InitTypeLink
<1>2. /\ procs = <<>> /\ DOMAIN procs = {}
      /\ hosts = [p \in Partition |-> 0] /\ disk = [p \in Partition |-> <<>>]
  BY DEF Init
<1>3. \A p \in Partition : hosts[p] = 0 /\ disk[p] = <<>> /\ Len(disk[p]) = 0
  BY <1>2
<1>4. \A p \in Partition : 1..Len(disk[p]) = {}
  BY <1>3
<1>5. OneWriter
  BY <1>2 DEF OneWriter
<1>6. PoolIsOpen
  BY <1>3 DEF PoolIsOpen
<1>7. FilesInOrder
  BY <1>3, <1>4 DEF FilesInOrder
<1> QED
  BY <1>1, <1>5, <1>6, <1>7, FilesInvParts DEF Files

LEMMA NextFiles == FilesInv /\ [Next]_vars => FilesInv'
<1> SUFFICES ASSUME FilesInv, [Next]_vars PROVE FilesInv'
  OBVIOUS
<1>1. TypeLink /\ Files
  BY FilesInvParts
<1>2. WatchOK /\ PoolOK
  BY <1>1, Parts
<1>3. TypeLink'
  BY <1>1, NextTypeLink
<1>4. PoolOK'
  <2>1. procs' \in Seq(Proc) => DOMAIN procs' = 1..Len(procs')
    BY LenProperties
  <2> QED
    BY <1>3, <2>1 DEF TypeLink, TypeOK, LinkInv, PoolOK
<1> SUFFICES Files'
  BY <1>3 DEF FilesInv, Files, TypeLink
<1>5. ASSUME UNCHANGED <<procs, closing, hosts, disk, adrift>> PROVE Files'
  BY <1>1, <1>2, <1>4, <1>5, FilesKept
<1>6. CASE CreateTopic \/ DeleteTopic
           \/ \E p \in Partition : AddReplica(p) \/ RemoveReplica(p)
  BY <1>1, <1>2, <1>5, <1>6, ChangeValues, OutsideStepTypes DEF watchVars
<1>7. CASE Watch
  BY <1>4, <1>7, WatchStepFiles
<1>8. ASSUME NEW h \in Push, PushArrives(h) PROVE Files'
  BY <1>1, <1>5, <1>8, OutsideStepTypes DEF watchVars
<1>9. ASSUME NEW h \in Push, TryApplyPush(h) PROVE Files'
  <2> DEFINE i == push[h].proc
  <2>1. i \in 1..Len(procs)
    BY <1>1, <1>9, PushedFacts DEF TryApplyPush
  <2>2. UNCHANGED <<hosts, closing>>
    BY <1>9 DEF TryApplyPush
  <2>3. CASE WriteTo(i) /\ adrift' = IF procs[i].open THEN adrift
                                                      ELSE adrift \cup {procs[i].part}
    <3>1. adrift \subseteq adrift' /\ (procs[i].open \/ procs[i].part \in adrift')
      BY <2>3
    <3> HIDE DEF i
    <3> QED
      BY <1>1, <1>4, <2>1, <2>2, <2>3, <3>1, FilesWritten
  <2>4. CASE UNCHANGED <<procs, disk, adrift>>
    BY <1>5, <2>2, <2>4
  <2> QED
    BY <1>9, <2>3, <2>4 DEF TryApplyPush
<1>10. ASSUME NEW p \in Partition, RestoreData(p) PROVE Files'
  BY <1>1, <1>5, <1>10, OutsideStepTypes DEF watchVars
<1>11. ASSUME NEW s \in Starter, NEW p \in Partition, CatchUp(s, p) \/ CatchUpFails(s, p)
       PROVE  Files'
  <2> DEFINE c == catchUp[<<s, p>>]
             i == c.proc
  <2>1. CASE Lookup(s, p) \/ FetchLog(s, p) \/ CatchUpFails(s, p)
    <3>1. UNCHANGED <<procs, closing, hosts, disk, adrift>>
      BY <2>1 DEF Lookup, FetchLog, CatchUpFails, CatchUpGoes, watchVars
    <3> QED
      BY <1>5, <3>1
  <2>2. CASE AppendEntry(s, p)
    <3>1. i \in 1..Len(procs)
      BY <1>1, <2>2, HeldFacts DEF AppendEntry, At, Holding
    <3>2. UNCHANGED <<closing, hosts, adrift>>
      BY <2>2 DEF AppendEntry, CatchUpGoes, watchVars
    <3>3. CASE UNCHANGED <<procs, disk>>
      BY <1>5, <3>2, <3>3
    <3>4. CASE WriteTo(i) /\ procs[i].state = "Active"
      <4>1. i \in DOMAIN procs /\ procs[i].part \in Partition /\ i # 0
        BY <1>2, <3>1, ProcDomain
      <4>2. procs[i].part \notin adrift => i = hosts[procs[i].part]
        BY <1>1, <3>4, <4>1 DEF Files, OneWriter
      <4>3. procs[i].part \notin adrift => procs[i].open
        BY <1>1, <4>1, <4>2 DEF Files, PoolIsOpen
      <4> HIDE DEF i
      <4>4. procs[i].open \/ procs[i].part \in adrift'
        BY <3>2, <4>3
      <4>5. adrift \subseteq adrift'
        BY <3>2
      <4> QED
        BY <1>1, <1>4, <3>1, <3>2, <3>4, <4>4, <4>5, FilesWritten
    <3> QED
      BY <2>2, <3>3, <3>4 DEF AppendEntry
  <2>3. CASE TryFinalizeInSync(s, p)
    <3>1. i \in 1..Len(procs)
      BY <1>1, <2>3, HeldFacts DEF TryFinalizeInSync, At, Holding
    <3>2. UNCHANGED <<closing, hosts, disk, adrift>>
      BY <2>3 DEF TryFinalizeInSync, CatchUpGoes, watchVars
    <3>3. CASE UNCHANGED procs
      BY <1>5, <3>2, <3>3
    <3>4. CASE procs' = [procs EXCEPT ![i] = [procs[i] EXCEPT !.inSync = TRUE]]
      <4>1. /\ Len(procs') = Len(procs)
            /\ \A j \in 1..Len(procs) : /\ procs'[j].part = procs[j].part
                                        /\ procs'[j].state = procs[j].state
                                        /\ procs'[j].open = procs[j].open
                                        /\ procs'[j].end = procs[j].end
        BY <1>2, <3>1, <3>4, InSyncSet
      <4> QED
        BY <1>1, <1>2, <1>4, <3>2, <4>1, FilesKept
    <3> QED
      BY <2>3, <3>3, <3>4 DEF TryFinalizeInSync
  <2>4. CASE s = "watch" /\ MarkNodeInSync(p)
    BY <1>1, <1>5, <2>4, OutsideStepTypes DEF watchVars
  <2> QED
    BY <1>11, <2>1, <2>2, <2>3, <2>4 DEF CatchUp
<1>12. CASE UNCHANGED vars
  BY <1>5, <1>12 DEF vars, watchVars
<1> QED
  BY <1>6, <1>7, <1>8, <1>9, <1>10, <1>11, <1>12 DEF Next

\* The files of a partition hold every offset once and in order, and the
\* processor in the pool knows where they end, through every removal of the
\* partition and its return, and whoever still holds an old processor; except
\* for a partition with a processor left open by the deletion of the topic or
\* opened again by a late push.
THEOREM FilesStayInOrder == Spec => []FilesInOrder
<1>1. FilesInv => FilesInOrder
  BY DEF FilesInv
<1> QED
  BY <1>1, InitFiles, NextFiles, PTL DEF Spec

-----------------------------------------------------------------------------
(* The pool follows the topic.                                             *)

LEMMA InitStanding == Init => StandingInv
<1> SUFFICES ASSUME Init PROVE StandingInv
  OBVIOUS
<1>1. PICK replica \in SUBSET Partition : versions = <<Assigned(replica)>>
  BY DEF Init
<1>2. DOMAIN versions = {1} /\ versions[1] = Assigned(replica)
  BY <1>1
<1>3. Whole(Assigned(replica))
  BY DEF Whole, Assigned
<1>4. \A v \in DOMAIN versions : Whole(versions[v])
  BY <1>2, <1>3
<1>5. next = 0 /\ seen = 0 /\ \A p \in Partition : hosts[p] = 0
  BY DEF Init
<1>6. \A p \in Partition : Applied(p) = "away"
  BY <1>5, PartitionFacts DEF Applied
<1> QED
  BY <1>4, <1>5, <1>6 DEF StandingInv, IsReplica

\* Nobody takes a processor out of sync, and only the watch changes the pool.
LEMMA StandingKept ==
    ASSUME TypeLink, StandingInv, UNCHANGED <<seen, next, hosts>>,
           \A p \in Partition : hosts[p] # 0 /\ procs[hosts[p]].inSync
                                    => procs'[hosts[p]].inSync,
           \/ versions' = versions
           \/ \E value \in [Partition -> Standing] :
                 Whole(value) /\ versions' = Append(versions, value)
    PROVE  StandingInv'
<1>1. WatchOK /\ PoolOK
  BY Parts
<1>2. /\ versions \in Seq([Partition -> Standing]) /\ Len(versions) \in Nat
      /\ DOMAIN versions = 1..Len(versions)
  BY <1>1, LenProperties DEF WatchOK
<1>3. /\ Len(versions) <= Len(versions')
      /\ \A v \in 1..Len(versions) : versions'[v] = versions[v]
      /\ \A v \in DOMAIN versions' : Whole(versions'[v])
  <2>1. CASE versions' = versions
    BY <1>2, <2>1 DEF StandingInv
  <2>2. CASE \E value \in [Partition -> Standing] :
                Whole(value) /\ versions' = Append(versions, value)
    <3>1. PICK value \in [Partition -> Standing] :
             Whole(value) /\ versions' = Append(versions, value)
      BY <2>2
    <3>2. /\ versions' \in Seq([Partition -> Standing])
          /\ Len(versions') = Len(versions) + 1
          /\ \A v \in 1..Len(versions) : versions'[v] = versions[v]
          /\ versions'[Len(versions) + 1] = value
      <4> DEFINE S == [Partition -> Standing]
      <4>1. versions' = Append(versions, value) /\ versions \in Seq(S) /\ value \in S
        BY <1>2, <3>1
      <4> HIDE DEF S
      <4>2. /\ versions' \in Seq(S)
            /\ Len(versions') = Len(versions) + 1
            /\ \A v \in 1..Len(versions) : versions'[v] = versions[v]
            /\ versions'[Len(versions) + 1] = value
        BY <4>1, AppendProperties
      <4> QED
        BY <4>2 DEF S
    <3>3. DOMAIN versions' = 1..(Len(versions) + 1)
      BY <3>2, LenProperties
    <3>4. ASSUME NEW v \in DOMAIN versions' PROVE Whole(versions'[v])
      <4>1. CASE v \in 1..Len(versions)
        BY <1>2, <3>2, <4>1 DEF StandingInv
      <4>2. CASE v = Len(versions) + 1
        BY <3>1, <3>2, <4>2
      <4> QED
        BY <1>2, <3>3, <4>1, <4>2
    <3> QED
      BY <1>2, <3>2, <3>4
  <2> QED
    BY <2>1, <2>2
<1>4. seen \in 0..Len(versions) /\ next \in Nat
  BY <1>1, PartitionFacts DEF WatchOK
<1>5. next > 0 => /\ seen + 1 \in 1..Len(versions)
                  /\ seen' < Len(versions') /\ versions'[seen + 1][0] # "gone"
  <2>1. next > 0 => seen < Len(versions) /\ versions[seen + 1][0] # "gone"
    BY DEF StandingInv
  <2>2. next > 0 => seen + 1 \in 1..Len(versions)
    BY <1>2, <1>4, <2>1
  <2>3. Len(versions') \in Nat
    BY <1>2, AppendProperties
  <2>4. next > 0 => seen < Len(versions')
    BY <1>2, <1>3, <1>4, <2>1, <2>3
  <2> QED
    BY <1>3, <2>1, <2>2, <2>4
<1>6. \A p \in Partition : Applied(p)' = Applied(p)
  <2> SUFFICES ASSUME NEW p \in Partition
               PROVE  (IF p < next THEN versions'[seen + 1][p]
                       ELSE IF seen = 0 THEN "away" ELSE versions'[seen][p]) = Applied(p)
    BY DEF Applied
  <2>1. CASE p < next
    <3>1. next > 0
      BY <1>4, <2>1, PartitionFacts
    <3> QED
      BY <1>3, <1>5, <2>1, <3>1 DEF Applied
  <2>2. CASE ~(p < next) /\ seen # 0
    <3>1. seen \in 1..Len(versions)
      BY <1>4, <2>2
    <3> QED
      BY <1>3, <2>2, <3>1 DEF Applied
  <2>3. CASE ~(p < next) /\ seen = 0
    BY <2>3 DEF Applied
  <2> QED
    BY <2>1, <2>2, <2>3
<1>7. \A p \in Partition : /\ (hosts[p] # 0) = IsReplica(Applied(p))
                           /\ Applied(p) = "isr" => hosts[p] # 0 /\ procs[hosts[p]].inSync
  BY DEF StandingInv, IsReplica
<1>8. \A p \in Partition : /\ (hosts'[p] # 0) = IsReplica(Applied(p)')
                           /\ Applied(p)' = "isr" => procs'[hosts'[p]].inSync
  BY <1>6, <1>7
<1> QED
  BY <1>3, <1>5, <1>8 DEF StandingInv

\* The watch goes on to the next partition, and has given this one what the
\* value says.
LEMMA StandingAdvanced ==
    ASSUME TypeLink, StandingInv, Applies, versions' = versions, Advance,
           Value[next] # "gone",
           \A p \in Partition \ {next} :
              /\ hosts'[p] = hosts[p]
              /\ hosts[p] # 0 /\ procs[hosts[p]].inSync => procs'[hosts[p]].inSync,
           (hosts'[next] # 0) = IsReplica(Value[next]),
           Value[next] = "isr" => procs'[hosts'[next]].inSync
    PROVE  StandingInv'
<1>1. WatchOK
  BY Parts
<1>2. /\ Len(versions) \in Nat /\ DOMAIN versions = 1..Len(versions)
      /\ seen \in 0..Len(versions) /\ seen < Len(versions)
      /\ next \in Partition /\ next \in Nat
  BY <1>1, LenProperties, PartitionFacts DEF WatchOK, Applies
<1>3. seen + 1 \in 1..Len(versions)
  BY <1>2
<1>4. Value[0] # "gone"
  BY <1>2, <1>3, PartitionFacts DEF StandingInv, Whole, Value
<1>5. \A p \in Partition :
         Applied(p)' = IF p < next + 1 THEN Value[p]
                       ELSE IF seen = 0 THEN "away" ELSE versions[seen][p]
  <2> SUFFICES ASSUME NEW p \in Partition
               PROVE  (IF p < next' THEN versions[seen' + 1][p]
                       ELSE IF seen' = 0 THEN "away" ELSE versions[seen'][p]) =
                      IF p < next + 1 THEN Value[p]
                      ELSE IF seen = 0 THEN "away" ELSE versions[seen][p]
    BY DEF Applied
  <2>0. p \in Nat /\ p < Partitions /\ Partitions \in Nat
    BY PartitionFacts, HostingAssumption
  <2>1. CASE next + 1 < Partitions
    <3>1. next' = next + 1 /\ seen' = seen
      BY <2>1 DEF Advance
    <3> QED
      BY <3>1 DEF Value
  <2>2. CASE ~(next + 1 < Partitions)
    <3>1. next' = 0 /\ seen' = seen + 1 /\ seen' # 0
      BY <1>2, <2>2 DEF Advance
    <3>2. p < next + 1 /\ ~(p < next')
      BY <1>2, <2>0, <2>2, <3>1
    <3> QED
      BY <3>1, <3>2 DEF Value
  <2> QED
    BY <2>1, <2>2
<1>6. ASSUME NEW p \in Partition
      PROVE  /\ (hosts'[p] # 0) = IsReplica(Applied(p)')
             /\ Applied(p)' = "isr" => procs'[hosts'[p]].inSync
  <2>1. p \in Nat
    BY PartitionFacts
  <2>2. CASE p = next
    <3>1. Applied(p)' = Value[next]
      BY <1>2, <1>5, <2>2
    <3> QED
      BY <2>2, <3>1
  <2>3. CASE p # next
    <3>1. Applied(p)' = Applied(p)
      <4>1. p < next + 1 <=> p < next
        BY <1>2, <2>1, <2>3
      <4> QED
        BY <1>5, <4>1 DEF Applied, Value
    <3>2. /\ (hosts[p] # 0) = IsReplica(Applied(p))
          /\ Applied(p) = "isr" => hosts[p] # 0 /\ procs[hosts[p]].inSync
      BY DEF StandingInv, IsReplica
    <3> QED
      BY <2>3, <3>1, <3>2
  <2> QED
    BY <2>2, <2>3
<1>7. next' > 0 => seen' < Len(versions) /\ versions[seen' + 1][0] # "gone"
  <2>1. next' > 0 => seen' = seen
    BY DEF Advance
  <2> QED
    BY <1>2, <1>4, <2>1 DEF Value
<1> QED
  BY <1>6, <1>7 DEF StandingInv

LEMMA WatchStepStanding ==
    ASSUME TypeLink, StandingInv, Watch
    PROVE  StandingInv'
<1>1. WatchOK /\ PoolOK /\ next \in Partition /\ hosts \in [Partition -> 0..Len(procs)]
  BY Parts DEF WatchOK, PoolOK
<1>2. CASE Skip
  <2>1. /\ Applies /\ versions' = versions /\ Advance /\ UNCHANGED <<hosts, procs>>
        /\ Value[next] = "away" /\ hosts[next] = 0
    BY <1>2 DEF Skip
  <2> QED
    BY <2>1, StandingAdvanced DEF IsReplica
<1>3. CASE GiveUp
  <2>1. /\ Applies /\ versions' = versions /\ Advance /\ Value[next] = "away"
        /\ hosts' = [hosts EXCEPT ![next] = 0]
    BY <1>3 DEF GiveUp
  <2>2. hosts'[next] = 0 /\ \A p \in Partition \ {next} : hosts'[p] = hosts[p]
    BY <1>1, <2>1
  <2>3. \A p \in Partition \ {next} : hosts[p] # 0 => procs'[hosts[p]] = procs[hosts[p]]
    <3>1. /\ procs[hosts[next]].part = next
          /\ \A j \in 1..Len(procs) : j # hosts[next] => procs'[j] = procs[j]
      BY <1>1, <1>3, GiveUpFacts
    <3>2. \A p \in Partition : hosts[p] # 0 => /\ hosts[p] \in 1..Len(procs)
                                               /\ procs[hosts[p]].part = p
      BY <1>1, HostedFacts
    <3> QED
      BY <3>1, <3>2
  <2> QED
    BY <2>1, <2>2, <2>3, StandingAdvanced DEF IsReplica
<1>4. CASE Close
  <2>1. PICK i \in closing : /\ closing' = closing \ {i} /\ procs' = StopAndRemove(i)
                             /\ UNCHANGED <<hosts, adrift, early, disk>>
    BY <1>4 DEF Close
  <2>2. /\ \A j \in 1..Len(procs) : j # i => procs'[j] = procs[j]
        /\ \A p \in Partition : hosts[p] # i
    BY <1>1, <2>1, CloseFacts
  <2>3. \A p \in Partition : hosts[p] # 0 => procs'[hosts[p]] = procs[hosts[p]]
    BY <1>1, <2>2, HostedFacts
  <2>4. UNCHANGED <<versions, seen, next, hosts>>
    BY <1>4 DEF Close
  <2> QED
    BY <2>3, <2>4, StandingKept
<1>5. CASE Host /\ hosts[next] = 0
  <2>1. /\ Applies /\ versions' = versions /\ Advance /\ IsReplica(Value[next])
    BY <1>5 DEF Host
  <2>2. /\ hosts' = [hosts EXCEPT ![next] = Len(procs) + 1]
        /\ \A j \in 1..Len(procs) : procs'[j] = procs[j]
    BY <1>1, <1>5, HostNewFacts
  <2>3. procs'[Len(procs) + 1].inSync = (Value[next] = "isr")
    BY <1>1, <1>5, HostNewFacts
  <2>4. /\ hosts'[next] = Len(procs) + 1 /\ hosts'[next] # 0
        /\ \A p \in Partition \ {next} : hosts'[p] = hosts[p]
    BY <1>1, <2>2, LenProperties DEF PoolOK
  <2>5. \A p \in Partition : hosts[p] # 0 => procs'[hosts[p]] = procs[hosts[p]]
    BY <1>1, <2>2, HostedFacts
  <2>6. Value[next] = "isr" => procs'[hosts'[next]].inSync
    BY <2>3, <2>4
  <2> QED
    BY <2>1, <2>4, <2>5, <2>6, StandingAdvanced DEF IsReplica
<1>6. CASE Host /\ hosts[next] # 0
  <2>1. /\ Applies /\ versions' = versions /\ Advance /\ IsReplica(Value[next])
    BY <1>6 DEF Host
  <2>2. /\ hosts' = hosts
        /\ \A j \in 1..Len(procs) : j # hosts[next] => procs'[j] = procs[j]
        /\ hosts[next] \in 1..Len(procs) /\ procs[hosts[next]].part = next
    BY <1>1, <1>6, HostAgainFacts, HostedFacts
  <2>3. Value[next] = "isr" => procs'[hosts[next]].inSync
    BY <1>1, <1>6, HostAgainFacts
  <2>4. \A p \in Partition \ {next} : hosts[p] # 0 => procs'[hosts[p]] = procs[hosts[p]]
    BY <1>1, <2>2, HostedFacts
  <2> QED
    BY <1>6, <2>1, <2>2, <2>3, <2>4, StandingAdvanced DEF IsReplica
<1>7. CASE RemoveTopic
  <2>1. /\ Applies /\ Value[0] = "gone" /\ versions' = versions
        /\ next' = 0 /\ seen' = seen + 1
    BY <1>7 DEF RemoveTopic
  <2>2. \A p \in Partition : hosts'[p] = 0
    BY <1>1, <1>7, RemoveTopicFacts
  <2>3. /\ Len(versions) \in Nat /\ DOMAIN versions = 1..Len(versions)
        /\ seen \in Nat /\ seen + 1 \in 1..Len(versions)
    BY <1>1, <2>1, LenProperties DEF WatchOK, Applies
  <2>4. \A p \in Partition : Value[p] = "gone"
    BY <2>1, <2>3, PartitionFacts DEF StandingInv, Whole, Value
  <2>5. ASSUME NEW p \in Partition PROVE Applied(p)' = "gone"
    <3>1. ~(p < next') /\ seen' # 0 /\ seen' = seen + 1
      BY <2>1, <2>3, PartitionFacts
    <3>2. Applied(p)' = versions[seen + 1][p]
      BY <2>1, <3>1 DEF Applied
    <3> QED
      BY <2>4, <3>2 DEF Value
  <2>6. ASSUME NEW p \in Partition
        PROVE  /\ (hosts'[p] # 0) = IsReplica(Applied(p)')
               /\ Applied(p)' # "isr"
    <3>1. Applied(p)' = "gone"
      BY <2>5
    <3> QED
      BY <2>2, <3>1 DEF IsReplica
  <2>7. \A v \in DOMAIN versions' : Whole(versions'[v])
    BY <2>1 DEF StandingInv
  <2>8. ~(next' > 0)
    BY <2>1
  <2> QED
    BY <2>6, <2>7, <2>8 DEF StandingInv
<1> QED
  BY <1>2, <1>3, <1>4, <1>5, <1>6, <1>7 DEF Watch

\* A change of the topic is one of all its partitions, or of one of a topic
\* that is there.
LEMMA WholeChanges ==
    ASSUME WatchOK, StandingInv
    PROVE  /\ CreateTopic \/ DeleteTopic
                \/ (\E p \in Partition : AddReplica(p) \/ RemoveReplica(p))
              => \E value \in [Partition -> Standing] : Whole(value) /\ Changes(value)
           /\ \A p \in Partition : MarkNodeInSync(p) =>
                \/ versions' = versions
                \/ \E value \in [Partition -> Standing] :
                      Whole(value) /\ versions' = Append(versions, value)
<1>1. /\ Last \in [Partition -> Standing] /\ Len(versions) \in 1..Len(versions)
      /\ DOMAIN versions = 1..Len(versions)
  BY LastFacts, LenProperties DEF WatchOK
<1>2. \A p \in Partition : Last[p] # "gone" => \A q \in Partition : Last[q] # "gone"
  BY <1>1 DEF StandingInv, Whole, Last
<1>3. ASSUME NEW p \in Partition, Last[p] # "gone", NEW st \in {"replica", "isr", "away"}
      PROVE  [Last EXCEPT ![p] = st] \in [Partition -> Standing]
             /\ Whole([Last EXCEPT ![p] = st])
  <2>1. [Last EXCEPT ![p] = st] \in [Partition -> Standing]
    BY <1>1 DEF Standing
  <2>2. \A q \in Partition : [Last EXCEPT ![p] = st][q] # "gone"
    BY <1>1, <1>2, <1>3
  <2> QED
    BY <2>1, <2>2 DEF Whole
<1>4. CASE CreateTopic
  <2>1. \A replica \in SUBSET Partition : /\ Assigned(replica) \in [Partition -> Standing]
                                          /\ Whole(Assigned(replica))
    BY DEF Assigned, Standing, Whole
  <2>2. \E value \in [Partition -> Standing] : Whole(value) /\ Changes(value)
    BY <1>4, <2>1 DEF CreateTopic
  <2>3. versions' # versions \/ versions' = versions
    OBVIOUS
  <2> QED
    BY <2>2 DEF Changes
<1>5. CASE DeleteTopic
  <2>1. /\ [p \in Partition |-> "gone"] \in [Partition -> Standing]
        /\ Whole([p \in Partition |-> "gone"])
    BY DEF Standing, Whole
  <2>2. \E value \in [Partition -> Standing] : Whole(value) /\ Changes(value)
    BY <1>5, <2>1 DEF DeleteTopic
  <2> QED
    BY <2>2 DEF Changes
<1>6. CASE \E p \in Partition : AddReplica(p) \/ RemoveReplica(p)
  <2>1. PICK p \in Partition : AddReplica(p) \/ RemoveReplica(p)
    BY <1>6
  <2>2. \E st \in {"replica", "away"} : /\ Last[p] # "gone"
                                        /\ Changes([Last EXCEPT ![p] = st])
    BY <2>1 DEF AddReplica, RemoveReplica, IsReplica
  <2>3. \E value \in [Partition -> Standing] : Whole(value) /\ Changes(value)
    BY <1>3, <2>2
  <2> QED
    BY <2>3 DEF Changes
<1>7. ASSUME NEW p \in Partition, MarkNodeInSync(p)
      PROVE  \/ versions' = versions
             \/ \E value \in [Partition -> Standing] :
                   Whole(value) /\ versions' = Append(versions, value)
  <2>1. CASE Last[p] = "replica"
    <3>1. versions' = Append(versions, [Last EXCEPT ![p] = "isr"])
      BY <1>7, <2>1 DEF MarkNodeInSync
    <3> QED
      BY <1>3, <2>1, <3>1
  <2>2. CASE Last[p] # "replica"
    BY <1>7, <2>2 DEF MarkNodeInSync
  <2> QED
    BY <2>1, <2>2
<1> QED
  BY <1>4, <1>5, <1>6, <1>7

LEMMA NextStanding == TypeLink /\ StandingInv /\ [Next]_vars => StandingInv'
<1> SUFFICES ASSUME TypeLink, StandingInv, [Next]_vars PROVE StandingInv'
  OBVIOUS
<1>1. WatchOK /\ PoolOK
  BY Parts
<1>2. CASE CreateTopic \/ DeleteTopic
           \/ \E p \in Partition : AddReplica(p) \/ RemoveReplica(p)
  <2>1. PICK value \in [Partition -> Standing] : Whole(value) /\ Changes(value)
    BY <1>1, <1>2, WholeChanges
  <2>2. UNCHANGED <<seen, next, hosts, procs>> /\ versions' = Append(versions, value)
    BY <2>1 DEF Changes, watchVars
  <2> QED
    BY <2>1, <2>2, StandingKept
<1>3. CASE Watch
  BY <1>3, WatchStepStanding
<1>4. ASSUME UNCHANGED <<versions, seen, next, hosts>>,
             \A j \in 1..Len(procs) : procs[j].inSync => procs'[j].inSync
      PROVE  StandingInv'
  <2>1. \A p \in Partition : hosts[p] # 0 => hosts[p] \in 1..Len(procs)
    BY <1>1, HostedFacts
  <2>2. \A p \in Partition : hosts[p] # 0 /\ procs[hosts[p]].inSync
                                => procs'[hosts[p]].inSync
    BY <1>4, <2>1
  <2> QED
    BY <1>4, <2>2, StandingKept
<1>5. ASSUME NEW i \in 1..Len(procs), WriteTo(i)
      PROVE  \A j \in 1..Len(procs) : procs[j].inSync => procs'[j].inSync
  <2>1. /\ procs'[i].inSync = procs[i].inSync
        /\ \A j \in 1..Len(procs) : j # i => procs'[j] = procs[j]
    BY <1>5, WriteToFacts DEF TypeLink
  <2> QED
    BY <2>1
<1>6. ASSUME NEW h \in Push, PushArrives(h) \/ TryApplyPush(h) PROVE StandingInv'
  <2>1. UNCHANGED <<versions, seen, next, hosts>>
    BY <1>6 DEF PushArrives, TryApplyPush, watchVars
  <2>2. procs' = procs \/ (push[h] # NoPush /\ WriteTo(push[h].proc))
    BY <1>6 DEF PushArrives, TryApplyPush
  <2>3. push[h] # NoPush => push[h].proc \in 1..Len(procs)
    BY PushedFacts
  <2> QED
    BY <1>4, <1>5, <2>1, <2>2, <2>3
<1>7. ASSUME NEW p \in Partition, RestoreData(p) PROVE StandingInv'
  BY <1>4, <1>7 DEF RestoreData, CatchUpGoes, watchVars
<1>8. ASSUME NEW s \in Starter, NEW p \in Partition, CatchUp(s, p) \/ CatchUpFails(s, p)
      PROVE  StandingInv'
  <2> DEFINE i == catchUp[<<s, p>>].proc
  <2>1. CASE Lookup(s, p) \/ FetchLog(s, p) \/ CatchUpFails(s, p)
    BY <1>4, <2>1 DEF Lookup, FetchLog, CatchUpFails, CatchUpGoes, watchVars
  <2>2. CASE AppendEntry(s, p)
    <3>1. i \in 1..Len(procs)
      BY <2>2, HeldFacts DEF AppendEntry, At, Holding
    <3>2. UNCHANGED <<versions, seen, next, hosts>> /\ (procs' = procs \/ WriteTo(i))
      BY <2>2 DEF AppendEntry, CatchUpGoes, watchVars
    <3> HIDE DEF i
    <3> QED
      BY <1>4, <1>5, <3>1, <3>2
  <2>3. CASE TryFinalizeInSync(s, p)
    <3>1. i \in 1..Len(procs)
      BY <2>3, HeldFacts DEF TryFinalizeInSync, At, Holding
    <3>2. /\ UNCHANGED <<versions, seen, next, hosts>>
          /\ \/ procs' = procs
             \/ procs' = [procs EXCEPT ![i] = [procs[i] EXCEPT !.inSync = TRUE]]
      BY <2>3 DEF TryFinalizeInSync, CatchUpGoes, watchVars
    <3> HIDE DEF i
    <3>3. CASE procs' = [procs EXCEPT ![i] = [procs[i] EXCEPT !.inSync = TRUE]]
      <4>1. \A j \in 1..Len(procs) : j # i => procs'[j] = procs[j]
        BY <1>1, <3>1, <3>3, InSyncSet
      <4>2. procs'[i].inSync
        BY <1>1, <3>1, <3>3, InSyncSet
      <4> QED
        BY <1>4, <3>2, <4>1, <4>2
    <3> QED
      BY <1>4, <3>2, <3>3
  <2>4. CASE s = "watch" /\ MarkNodeInSync(p)
    <3>1. UNCHANGED <<seen, next, hosts, procs>>
      BY <2>4 DEF MarkNodeInSync, watchVars
    <3> QED
      BY <1>1, <2>4, <3>1, StandingKept, WholeChanges
  <2> QED
    BY <1>8, <2>1, <2>2, <2>3, <2>4 DEF CatchUp
<1>9. CASE UNCHANGED vars
  BY <1>4, <1>9 DEF vars, watchVars
<1> QED
  BY <1>2, <1>3, <1>6, <1>7, <1>8, <1>9 DEF Next

-----------------------------------------------------------------------------
(* Every replica joins.                                                    *)

\* How many values the watch has applied to a partition.
Index(p) == IF p < next THEN seen + 1 ELSE seen

\* A value that is still to be applied makes it something else than a replica.
Coming(p) == \E k \in 1..Len(versions) : k > Index(p) /\ versions[k][p] # "replica"

\* Who has been in the ISR is taken away before being a mere replica again.
Succession ==
    \A k \in 1..Len(versions) : k + 1 <= Len(versions) =>
        \A p \in Partition : versions[k][p] = "isr" => versions[k + 1][p] # "replica"

Watched(p) == catchUp[<<"watch", p>>]

\* The map of startCatchUp has no partition without a catch-up; a batch begins in
\* the log or at its end; a catch-up is of the processor in the pool; and a replica
\* that is hosted has one at work, unless it is in the ISR or about to be something
\* else.
Joins(p) ==
    /\ p \in syncing => Watched(p) # NoCatchUp
    /\ Watched(p).pc = "append" => Watched(p).from <= procs[Watched(p).proc].end
    /\ hosts[p] # 0 /\ p \notin early /\ Watched(p).pc \in Holding
          => Watched(p).proc = hosts[p]
    /\ hosts[p] # 0 /\ p \notin early /\ ~failed
          => Watched(p).pc # "off" \/ Applied(p) = "isr" \/ Coming(p)

JoinInv == Succession /\ \A p \in Partition : Joins(p)

\* No log becomes shorter.
EndsGrow == \A j \in 1..Len(procs) : procs[j].end <= procs'[j].end

LEMMA InitJoins == Init => JoinInv
<1> SUFFICES ASSUME Init PROVE JoinInv
  OBVIOUS
<1>1. PICK replica \in SUBSET Partition : versions = <<Assigned(replica)>>
  BY DEF Init
<1>2. Len(versions) = 1
  BY <1>1
<1>3. Succession
  BY <1>2 DEF Succession
<1>4. ASSUME NEW p \in Partition PROVE Joins(p)
  <2>1. Watched(p) = NoCatchUp /\ hosts[p] = 0 /\ syncing = {}
    BY DEF Init, Watched, Starter
  <2> QED
    BY <2>1 DEF Joins, NoCatchUp
<1> QED
  BY <1>3, <1>4 DEF JoinInv

\* What a step that leaves the catch-up of a partition alone has to keep.
LEMMA JoinsKept ==
    ASSUME TypeLink, Grows, EndsGrow, NEW p \in Partition, Joins(p),
           Watched(p)' = Watched(p), p \in syncing' => p \in syncing,
           hosts'[p] = hosts[p] \/ hosts'[p] = 0,
           early \subseteq early', failed => failed',
           hosts'[p] # 0 =>
              (Applied(p) = "isr" \/ Coming(p) => Applied(p)' = "isr" \/ Coming(p)')
    PROVE  Joins(p)'
<1> DEFINE c == Watched(p)
<1>1. /\ c.pc \in Holding => c.proc \in 1..Len(procs)
      /\ c.from \in Nat
  BY HeldFacts DEF Watched, Starter, CatchUpState
<1>2. c.pc = "append" => /\ c.from <= procs[c.proc].end
                         /\ procs[c.proc].end <= procs'[c.proc].end
                         /\ procs[c.proc].end \in Nat /\ procs'[c.proc].end \in Nat
  <2> SUFFICES ASSUME c.pc = "append"
               PROVE  /\ c.from <= procs[c.proc].end
                      /\ procs[c.proc].end <= procs'[c.proc].end
                      /\ procs[c.proc].end \in Nat /\ procs'[c.proc].end \in Nat
    OBVIOUS
  <2>1. c.proc \in 1..Len(procs)
    BY <1>1 DEF Holding
  <2>2. /\ procs \in Seq(Proc) /\ procs' \in Seq(Proc) /\ Len(procs) \in Nat
        /\ Len(procs') \in Nat /\ Len(procs) <= Len(procs')
    BY Parts, LenProperties DEF PoolOK, Grows
  <2>3. c.proc \in 1..Len(procs')
    BY <2>1, <2>2
  <2>4. procs[c.proc] \in Proc /\ procs'[c.proc] \in Proc
    BY <2>1, <2>2, <2>3, ElementOfSeq
  <2>5. procs[c.proc].end \in Nat /\ procs'[c.proc].end \in Nat
    BY <2>4 DEF Proc
  <2>6. c.from <= procs[c.proc].end
    BY DEF Joins
  <2> HIDE DEF c
  <2> QED
    BY <2>1, <2>5, <2>6 DEF EndsGrow
<1>3. c.pc = "append" => c.from <= procs'[c.proc].end
  <2> HIDE DEF c
  <2> QED
    BY <1>1, <1>2
<1>4. /\ p \in syncing' => c # NoCatchUp
      /\ hosts'[p] # 0 /\ p \notin early' /\ c.pc \in Holding => c.proc = hosts'[p]
      /\ hosts'[p] # 0 /\ p \notin early' /\ ~failed'
            => c.pc # "off" \/ Applied(p)' = "isr" \/ Coming(p)'
  BY DEF Joins
<1> HIDE DEF c
<1>5. Watched(p)' = c
  BY DEF c
<1> QED
  BY <1>3, <1>4, <1>5 DEF Joins

LEMMA IndexFacts ==
    ASSUME WatchOK, StandingInv, NEW p \in Partition
    PROVE  /\ Index(p) \in 0..Len(versions) /\ Len(versions) \in Nat
           /\ Index(p) = 0 => Applied(p) = "away"
           /\ Index(p) # 0 => Applied(p) = versions[Index(p)][p]
<1>1. seen \in 0..Len(versions) /\ next \in Nat /\ p \in Nat /\ Len(versions) \in Nat
  BY PartitionFacts, LastFacts DEF WatchOK
<1>2. p < next => seen < Len(versions)
  BY <1>1 DEF StandingInv
<1> QED
  BY <1>1, <1>2 DEF Index, Applied

\* The steps that leave watch and topic alone leave this too.
LEMMA AppliedSame ==
    ASSUME UNCHANGED <<versions, seen, next>>, NEW p \in Partition
    PROVE  Applied(p)' = Applied(p) /\ Coming(p)' = Coming(p)
BY DEF Applied, Coming, Index

\* A new value of the topic is still to come.
LEMMA VersionAdded ==
    ASSUME WatchOK, StandingInv, Succession, NEW value \in [Partition -> Standing],
           versions' = Append(versions, value), UNCHANGED <<seen, next>>,
           \A p \in Partition : Last[p] = "isr" => value[p] # "replica"
    PROVE  /\ Succession'
           /\ \A p \in Partition : /\ Applied(p)' = Applied(p)
                                   /\ Coming(p) => Coming(p)'
                                   /\ value[p] # "replica" => Coming(p)'
<1> DEFINE n == Len(versions)
<1>1. /\ n \in Nat \ {0} /\ Len(versions') = n + 1
      /\ \A v \in 1..n : versions'[v] = versions[v]
      /\ versions'[n + 1] = value
  <2> DEFINE S == [Partition -> Standing]
  <2>1. versions \in Seq(S) /\ value \in S /\ n \in Nat \ {0}
    BY LastFacts DEF WatchOK
  <2> HIDE DEF S
  <2> QED
    BY <2>1, AppendProperties
<1>2. Last = versions[n]
  BY DEF Last
<1> HIDE DEF n
<1>3. Succession'
  <2> SUFFICES ASSUME NEW k \in 1..(n + 1), k + 1 <= n + 1, NEW p \in Partition,
                      versions'[k][p] = "isr"
               PROVE  versions'[k + 1][p] # "replica"
    BY <1>1 DEF Succession
  <2>1. CASE k = n
    BY <1>1, <1>2, <2>1
  <2>2. CASE k # n
    <3>1. k \in 1..n /\ k + 1 \in 1..n
      BY <1>1, <2>2
    <3>2. versions[k + 1][p] # "replica"
      BY <1>1, <3>1 DEF Succession, n
    <3> QED
      BY <1>1, <3>1, <3>2
  <2> QED
    BY <2>1, <2>2
<1>4. ASSUME NEW p \in Partition
      PROVE  /\ Applied(p)' = Applied(p)
             /\ Coming(p) => Coming(p)'
             /\ value[p] # "replica" => Coming(p)'
  <2>1. /\ Index(p) \in 0..n
        /\ Index(p) = 0 => Applied(p) = "away"
        /\ Index(p) # 0 => Applied(p) = versions[Index(p)][p]
    BY IndexFacts DEF n
  <2>2. Index(p)' = Index(p)
    BY DEF Index
  <2>3. Applied(p)' = Applied(p)
    <3>1. CASE p < next
      <4>1. Index(p) = seen + 1 /\ Index(p) # 0
        BY <3>1, <2>1, PartitionFacts DEF Index, WatchOK
      <4>2. seen + 1 \in 1..n
        BY <1>1, <2>1, <4>1
      <4>3. Applied(p)' = versions'[seen + 1][p]
        BY <3>1 DEF Applied
      <4> QED
        BY <1>1, <2>1, <4>1, <4>2, <4>3
    <3>2. CASE ~(p < next)
      <4>1. Index(p) = seen
        BY <3>2 DEF Index
      <4>2. Applied(p)' = IF seen = 0 THEN "away" ELSE versions'[seen][p]
        BY <3>2 DEF Applied
      <4>3. seen # 0 => seen \in 1..n
        BY <1>1, <2>1, <4>1
      <4> QED
        BY <1>1, <2>1, <4>1, <4>2, <4>3
    <3> QED
      BY <3>1, <3>2
  <2>4. ASSUME Coming(p) PROVE Coming(p)'
    <3>1. PICK k \in 1..n : k > Index(p) /\ versions[k][p] # "replica"
      BY <2>4 DEF Coming, n
    <3>2. k \in 1..(n + 1) /\ versions'[k][p] # "replica" /\ k > Index(p)'
      BY <1>1, <2>2, <3>1
    <3> QED
      BY <1>1, <3>2 DEF Coming
  <2>5. ASSUME value[p] # "replica" PROVE Coming(p)'
    <3>1. n + 1 \in 1..(n + 1) /\ n + 1 > Index(p)' /\ versions'[n + 1][p] # "replica"
      BY <1>1, <2>1, <2>2, <2>5
    <3> QED
      BY <1>1, <3>1 DEF Coming
  <2> QED
    BY <2>3, <2>4, <2>5
<1> QED
  BY <1>3, <1>4

\* The watch goes on: the value is applied to one partition, and nothing changes
\* for the others.
LEMMA AdvanceFacts ==
    ASSUME WatchOK, StandingInv, Succession, Applies, Advance, versions' = versions
    PROVE  /\ \A p \in Partition \ {next} : /\ Applied(p)' = Applied(p)
                                            /\ Coming(p)' = Coming(p)
           /\ \A p \in {next} :
                 /\ Applied(p)' = Value[p]
                 /\ Value[p] = "replica" => /\ Applied(p) # "isr"
                                            /\ Coming(p) => Coming(p)'
<1>1. /\ seen \in Nat /\ next \in Nat /\ next \in Partition /\ next < Partitions
      /\ Partitions \in Nat /\ Len(versions) \in Nat
      /\ seen < Len(versions) /\ seen + 1 \in 1..Len(versions)
  BY PartitionFacts, LastFacts, HostingAssumption DEF WatchOK, Applies
<1>2. ASSUME NEW p \in Partition
      PROVE  /\ Index(p)' = IF p = next THEN seen + 1 ELSE Index(p)
             /\ Index(next) = seen
  <2>1. p \in Nat /\ p < Partitions
    BY PartitionFacts
  <2>2. CASE next + 1 < Partitions
    <3>1. next' = next + 1 /\ seen' = seen
      BY <2>2 DEF Advance
    <3> QED
      BY <1>1, <2>1, <3>1 DEF Index
  <2>3. CASE ~(next + 1 < Partitions)
    <3>1. next' = 0 /\ seen' = seen + 1
      BY <2>3 DEF Advance
    <3>2. p < next \/ p = next
      BY <1>1, <2>1, <2>3
    <3> QED
      BY <1>1, <2>1, <3>1, <3>2 DEF Index
  <2> QED
    BY <2>2, <2>3
<1>3. ASSUME NEW p \in Partition
      PROVE  Applied(p)' = IF Index(p)' = 0 THEN "away" ELSE versions[Index(p)'][p]
  <2>1. p \in Nat /\ p < Partitions
    BY PartitionFacts
  <2>2. seen' \in Nat /\ next' \in Nat
    BY <1>1 DEF Advance
  <2>3. CASE p < next'
    <3>1. Index(p)' = seen' + 1
      BY <2>1, <2>2, <2>3 DEF Index
    <3>2. seen' + 1 # 0
      <4>1. \A m \in Nat : m + 1 # 0
        OBVIOUS
      <4> QED
        BY <2>2, <4>1
    <3>3. Applied(p)' = versions[seen' + 1][p]
      BY <2>3 DEF Applied
    <3> QED
      BY <3>1, <3>2, <3>3
  <2>4. CASE ~(p < next')
    BY <2>4 DEF Index, Applied
  <2> QED
    BY <2>3, <2>4
<1>4. ASSUME NEW p \in Partition, p # next
      PROVE  Applied(p)' = Applied(p) /\ Coming(p)' = Coming(p)
  <2>1. Index(p)' = Index(p)
    BY <1>2, <1>4
  <2>2. Applied(p)' = Applied(p)
    BY <1>3, <2>1, IndexFacts
  <2>3. Coming(p)' = Coming(p)
    BY <2>1 DEF Coming
  <2> QED
    BY <2>2, <2>3
<1>5. ASSUME NEW p \in {next}
      PROVE  /\ Applied(p)' = Value[p]
             /\ Value[p] = "replica" => /\ Applied(p) # "isr"
                                        /\ Coming(p) => Coming(p)'
  <2>0. p \in Partition /\ p = next
    BY <1>1
  <2>1. Index(p)' = seen + 1 /\ Index(p) = seen /\ seen + 1 # 0
    BY <1>1, <1>2, <2>0
  <2>2. Applied(p)' = Value[p]
    BY <1>3, <2>0, <2>1 DEF Value
  <2>3. ASSUME Value[p] = "replica" PROVE Applied(p) # "isr"
    <3>1. CASE seen = 0
      BY <2>0, <2>1, <3>1, IndexFacts
    <3>2. CASE seen # 0
      <4>1. seen \in 1..Len(versions) /\ seen + 1 <= Len(versions)
        BY <1>1, <3>2
      <4>2. versions[seen][p] # "isr"
        BY <2>0, <2>3, <4>1 DEF Succession, Value
      <4>3. Applied(p) = versions[seen][p]
        BY <2>0, <2>1, <3>2, IndexFacts
      <4> QED
        BY <4>2, <4>3
    <3> QED
      BY <3>1, <3>2
  <2>4. ASSUME Value[p] = "replica", Coming(p) PROVE Coming(p)'
    <3>1. PICK k \in 1..Len(versions) : k > Index(p) /\ versions[k][p] # "replica"
      BY <2>4 DEF Coming
    <3>2. k # seen + 1
      BY <2>4, <3>1 DEF Value
    <3>3. k > Index(p)'
      BY <1>1, <2>1, <3>1, <3>2
    <3> QED
      BY <3>1, <3>3 DEF Coming
  <2> QED
    BY <2>2, <2>3, <2>4
<1> QED
  BY <1>4, <1>5

\* A partition the node does not host any more needs no catch-up.
LEMMA WatchStepJoins ==
    ASSUME TypeLink, StandingInv, JoinInv, Watch
    PROVE  JoinInv'
<1>1. WatchOK /\ PoolOK /\ HoldersOK /\ next \in Partition
  BY Parts DEF WatchOK
<1>2. versions' = versions /\ Succession'
  BY DEF Watch, Skip, GiveUp, Close, Host, RemoveTopic, JoinInv, Succession
<1>3. hosts \in [Partition -> 0..Len(procs)] /\ Len(procs) \in Nat
  BY <1>1, LenProperties DEF PoolOK
<1>4. ASSUME \A j \in 1..Len(procs) : procs'[j].end = procs[j].end
      PROVE  EndsGrow
  <2>1. \A j \in 1..Len(procs) : procs[j] \in Proc
    BY <1>1, ElementOfSeq DEF PoolOK
  <2>2. \A j \in 1..Len(procs) : procs[j].end \in Nat
    BY <2>1 DEF Proc
  <2> QED
    BY <1>4, <2>2 DEF EndsGrow
<1>5. ASSUME Grows, EndsGrow, Applies, Advance, UNCHANGED <<catchUp, syncing, early, failed>>,
             \A p \in Partition : hosts'[p] = IF p = next THEN 0 ELSE hosts[p]
      PROVE  JoinInv'
  <2>1. ASSUME NEW p \in Partition PROVE Joins(p)'
    <3>1. p # next => Applied(p)' = Applied(p) /\ Coming(p)' = Coming(p)
      BY <1>1, <1>2, <1>5, AdvanceFacts DEF JoinInv
    <3>2. Joins(p) /\ Watched(p)' = Watched(p)
      BY <1>5 DEF JoinInv, Watched
    <3>3. hosts'[p] # 0 => p # next
      BY <1>5
    <3>4. hosts'[p] = hosts[p] \/ hosts'[p] = 0
      BY <1>5
    <3> QED
      BY <1>5, <3>1, <3>2, <3>3, <3>4, JoinsKept
  <2> QED
    BY <1>2, <2>1 DEF JoinInv
<1>6. CASE Skip
  <2>1. /\ Applies /\ Advance /\ UNCHANGED <<catchUp, syncing, early, failed>>
        /\ hosts' = hosts /\ procs' = procs /\ hosts[next] = 0
    BY <1>6 DEF Skip
  <2>2. Grows /\ EndsGrow
    BY <1>1, <1>3, <1>4, <2>1 DEF Grows, PoolOK
  <2> QED
    BY <1>5, <2>1, <2>2
<1>7. CASE GiveUp
  <2>1. /\ Applies /\ Advance /\ UNCHANGED <<catchUp, syncing, early, failed>>
        /\ hosts' = [hosts EXCEPT ![next] = 0]
    BY <1>7 DEF GiveUp
  <2>2. Grows /\ \A j \in 1..Len(procs) : procs'[j].end = procs[j].end
    BY <1>1, <1>7, GiveUpFacts
  <2>3. \A p \in Partition : hosts'[p] = IF p = next THEN 0 ELSE hosts[p]
    BY <1>3, <2>1
  <2> QED
    BY <1>4, <1>5, <2>1, <2>2, <2>3
<1>8. CASE Close
  <2>1. PICK i \in closing : /\ closing' = closing \ {i} /\ procs' = StopAndRemove(i)
                             /\ UNCHANGED <<hosts, adrift, early, disk>>
    BY <1>8 DEF Close
  <2>2. Grows /\ \A j \in 1..Len(procs) : procs'[j].end = procs[j].end
    BY <1>1, <2>1, CloseFacts
  <2>3. UNCHANGED <<versions, seen, next, hosts, early, catchUp, syncing, failed>>
    BY <1>8 DEF Close
  <2>4. ASSUME NEW p \in Partition PROVE Joins(p)'
    <3>1. Applied(p)' = Applied(p) /\ Coming(p)' = Coming(p)
      BY <2>3, AppliedSame
    <3>2. Joins(p) /\ Watched(p)' = Watched(p)
      BY <2>3 DEF JoinInv, Watched
    <3> QED
      BY <1>4, <2>2, <2>3, <3>1, <3>2, JoinsKept
  <2> QED
    BY <1>2, <2>4 DEF JoinInv
<1>9. CASE RemoveTopic
  <2>1. /\ UNCHANGED <<early, catchUp, syncing, failed>>
        /\ \A p \in Partition : hosts'[p] = 0
    BY <1>9 DEF RemoveTopic
  <2>2. Grows /\ \A j \in 1..Len(procs) : procs'[j].end = procs[j].end
    BY <1>1, <1>9, RemoveTopicFacts
  <2>3. ASSUME NEW p \in Partition PROVE Joins(p)'
    <3>1. Joins(p) /\ Watched(p)' = Watched(p)
      BY <2>1 DEF JoinInv, Watched
    <3> QED
      BY <1>4, <2>1, <2>2, <3>1, JoinsKept
  <2> QED
    BY <1>2, <2>3 DEF JoinInv
<1>10. CASE Host
  <2>1. /\ Applies /\ Advance /\ IsReplica(Value[next]) /\ failed' = failed
        /\ early \subseteq early'
    BY <1>10 DEF Host
  <2>2. Grows /\ \A j \in 1..Len(procs) : procs'[j].end = procs[j].end
    BY <1>1, <1>10, HostNewFacts, HostAgainFacts
  <2>3. \/ UNCHANGED <<catchUp, syncing>>
        \/ /\ next \notin syncing /\ syncing' = syncing \cup {next}
           /\ catchUp' = [catchUp EXCEPT ![<<"watch", next>>] =
                             [NoCatchUp EXCEPT !.pc = "lookup"]]
    BY <1>10 DEF Host, Start
  <2>4. ASSUME NEW p \in Partition, p # next PROVE Joins(p)'
    <3>1. Applied(p)' = Applied(p) /\ Coming(p)' = Coming(p)
      BY <1>1, <1>2, <2>1, <2>4, AdvanceFacts DEF JoinInv
    <3>2. Joins(p)
      BY DEF JoinInv
    <3>3. Watched(p)' = Watched(p) /\ (p \in syncing' => p \in syncing)
      BY <1>1, <2>3, <2>4 DEF Watched, HoldersOK, Starter
    <3>4. hosts'[p] = hosts[p]
      BY <1>1, <1>3, <1>10, <2>4, HostNewFacts, HostAgainFacts
    <3> QED
      BY <1>4, <2>1, <2>2, <3>1, <3>2, <3>3, <3>4, JoinsKept
  <2>5. ASSUME NEW p \in {next} PROVE Joins(p)'
    <3>0. p \in Partition /\ p = next
      BY <1>1
    <3>1. Joins(p)
      BY <3>0, <1>1 DEF JoinInv
    <3>2. /\ Applied(p)' = Value[p]
          /\ Value[p] = "replica" => /\ Applied(p) # "isr"
                                     /\ Coming(p) => Coming(p)'
      BY <3>0, <1>1, <1>2, <2>1, AdvanceFacts DEF JoinInv
    <3>3. Value[p] = "isr" \/ Value[p] = "replica"
      BY <3>0, <2>1 DEF IsReplica
    <3>4. CASE Watched(p)' = [NoCatchUp EXCEPT !.pc = "lookup"]
      BY <3>0, <3>4 DEF Joins, NoCatchUp, Holding
    <3>5. CASE UNCHANGED <<catchUp, syncing>>
      <4>1. Watched(p)' = Watched(p)
        BY <3>0, <3>5 DEF Watched
      <4>2. CASE hosts[p] # 0
        <5>1. hosts'[p] = hosts[p]
          BY <3>0, <1>1, <1>10, <4>2, HostAgainFacts
        <5>2. Applied(p) = "isr" \/ Coming(p) => Applied(p)' = "isr" \/ Coming(p)'
          BY <3>2, <3>3
        <5>3. (p \in syncing' => p \in syncing) /\ (failed => failed')
          BY <2>1, <3>5
        <5>4. EndsGrow
          BY <1>4, <2>2
        <5> QED
          BY <2>1, <2>2, <3>0, <3>1, <4>1, <5>1, <5>2, <5>3, <5>4, JoinsKept
      <4>3. CASE hosts[p] = 0
        <5>1. CASE Watched(p) # NoCatchUp
          <6>1. p \in early'
            BY <3>0, <1>10, <4>3, <5>1 DEF Host, Watched
          <6>2. hosts'[p] # 0
            BY <3>0, <1>1, <1>3, <1>10, <4>3, HostNewFacts
          <6>3. Watched(p)'.pc = "append" =>
                   Watched(p)'.from <= procs'[Watched(p)'.proc].end
            BY <3>0, <1>1, <2>2, <3>1, <4>1, HeldFacts DEF Joins, Watched, Starter, Holding
          <6> QED
            BY <3>0, <3>1, <3>5, <4>1, <6>1, <6>3 DEF Joins
        <5>2. CASE Watched(p) = NoCatchUp
          <6>1. p \notin syncing
            BY <3>0, <3>1, <5>2 DEF Joins
          <6>2. procs'[hosts'[p]].inSync
            <7>1. \/ procs'[hosts'[p]].inSync
                  \/ syncing' = syncing \cup {p}
              <8>1. hosts' = [hosts EXCEPT ![p] = Len(procs) + 1]
                BY <3>0, <1>1, <1>10, <4>3, HostNewFacts
              <8>2. hosts'[p] = Len(procs) + 1
                BY <3>0, <1>1, <1>3, <8>1
              <8> QED
                BY <3>0, <1>10, <4>3, <6>1, <8>2 DEF Host, Start
            <7> QED
              BY <3>0, <3>5, <6>1, <7>1
          <6>3. Value[p] = "isr"
            <7>1. hosts' = [hosts EXCEPT ![p] = Len(procs) + 1]
              BY <3>0, <1>1, <1>10, <4>3, HostNewFacts
            <7>2. hosts'[p] = Len(procs) + 1
              BY <3>0, <1>1, <1>3, <7>1
            <7> QED
              BY <3>0, <1>1, <1>10, <4>3, <6>2, <7>2, HostNewFacts
          <6> QED
            BY <3>0, <3>1, <3>2, <3>5, <4>1, <5>2, <6>3 DEF Joins, NoCatchUp, Holding
        <5> QED
          BY <3>0, <5>1, <5>2
      <4> QED
        BY <3>0, <4>2, <4>3
    <3>6. Watched(p)' = [NoCatchUp EXCEPT !.pc = "lookup"] \/ UNCHANGED <<catchUp, syncing>>
      BY <3>0, <1>1, <2>3 DEF Watched, HoldersOK, Starter
    <3> QED
      BY <3>0, <3>4, <3>5, <3>6
  <2> QED
    BY <1>2, <2>4, <2>5 DEF JoinInv
<1> QED
  BY <1>6, <1>7, <1>8, <1>9, <1>10 DEF Watch

\* A change of the topic takes nobody out of the ISR but by taking it away.
LEMMA ChangesSucceed ==
    ASSUME WatchOK, StandingInv,
           CreateTopic \/ DeleteTopic
                \/ \E p \in Partition : AddReplica(p) \/ RemoveReplica(p)
    PROVE  \E value \in [Partition -> Standing] :
              /\ Changes(value)
              /\ \A p \in Partition : Last[p] = "isr" => value[p] # "replica"
<1>1. /\ Last \in [Partition -> Standing] /\ Len(versions) \in 1..Len(versions)
      /\ DOMAIN versions = 1..Len(versions)
  BY LastFacts, LenProperties DEF WatchOK
<1>2. CASE CreateTopic
  <2>1. PICK replica \in SUBSET Partition : Last[0] = "gone" /\ Changes(Assigned(replica))
    BY <1>2 DEF CreateTopic
  <2>2. Assigned(replica) \in [Partition -> Standing]
    BY DEF Assigned, Standing
  <2>3. \A p \in Partition : Last[p] = "gone"
    BY <1>1, <2>1, PartitionFacts DEF StandingInv, Whole, Last
  <2> QED
    BY <2>1, <2>2, <2>3
<1>3. CASE DeleteTopic
  <2> DEFINE none == [p \in Partition |-> "gone"]
  <2>1. Changes(none)
    BY <1>3 DEF DeleteTopic
  <2>2. none \in [Partition -> Standing] /\ \A p \in Partition : none[p] # "replica"
    BY DEF Standing
  <2> HIDE DEF none
  <2> QED
    BY <2>1, <2>2
<1>4. ASSUME NEW p \in Partition, AddReplica(p) \/ RemoveReplica(p)
      PROVE  \E value \in [Partition -> Standing] :
                /\ Changes(value)
                /\ \A q \in Partition : Last[q] = "isr" => value[q] # "replica"
  <2>1. PICK st \in {"replica", "away"} :
           /\ st = "replica" => Last[p] = "away"
           /\ Changes([Last EXCEPT ![p] = st])
    BY <1>4 DEF AddReplica, RemoveReplica
  <2> DEFINE value == [Last EXCEPT ![p] = st]
  <2>2. value \in [Partition -> Standing]
    BY <1>1 DEF Standing
  <2>3. \A q \in Partition : Last[q] = "isr" => value[q] # "replica"
    BY <1>1, <2>1
  <2> HIDE DEF value
  <2>4. Changes(value)
    BY <2>1 DEF value
  <2> QED
    BY <2>2, <2>3, <2>4
<1> QED
  BY <1>2, <1>3, <1>4

\* A value is added, and the catch-ups of the watch go on as they were.
LEMMA ValueJoins ==
    ASSUME TypeLink, StandingInv, JoinInv, NEW value \in [Partition -> Standing],
           versions' = Append(versions, value), UNCHANGED <<seen, next>>,
           \A p \in Partition : Last[p] = "isr" => value[p] # "replica",
           NEW p \in Partition, Watched(p)' = Watched(p), p \in syncing' => p \in syncing,
           UNCHANGED <<procs, hosts, early, failed>>
    PROVE  Joins(p)'
<1>1. WatchOK /\ PoolOK /\ Joins(p) /\ Succession
  BY Parts DEF JoinInv
<1>2. Grows /\ EndsGrow
  <2>1. \A j \in 1..Len(procs) : procs[j] \in Proc
    BY <1>1, ElementOfSeq DEF PoolOK
  <2>2. \A j \in 1..Len(procs) : procs[j].end \in Nat
    BY <2>1 DEF Proc
  <2>3. Len(procs) \in Nat
    BY <1>1, LenProperties DEF PoolOK
  <2> QED
    BY <1>1, <2>2, <2>3 DEF Grows, EndsGrow, PoolOK
<1>3. Applied(p)' = Applied(p) /\ (Coming(p) => Coming(p)')
  BY <1>1, VersionAdded
<1>4. Applied(p) = "isr" \/ Coming(p) => Applied(p)' = "isr" \/ Coming(p)'
  BY <1>3
<1> QED
  BY <1>1, <1>2, <1>4, JoinsKept

\* The processors grow, and the watch's catch-up of the partition stands still.
LEMMA StandsStill ==
    ASSUME TypeLink, Grows, EndsGrow, NEW p \in Partition, Joins(p),
           UNCHANGED <<versions, seen, next, hosts, early>>, failed => failed',
           Watched(p)' = Watched(p), p \in syncing' => p \in syncing
    PROVE  Joins(p)'
<1>1. Applied(p)' = Applied(p) /\ Coming(p)' = Coming(p)
  BY AppliedSame
<1> QED
  BY <1>1, JoinsKept

\* A step writes to one processor, or to none.
LEMMA WrittenGrows ==
    ASSUME TypeLink, procs' = procs \/ \E i \in 1..Len(procs) : WriteTo(i)
    PROVE  Grows /\ EndsGrow
<1>1. PoolOK /\ TypeOK /\ Len(procs) \in Nat
  BY Parts, LenProperties DEF TypeLink, PoolOK
<1>2. \A j \in 1..Len(procs) : procs[j] \in Proc
  BY <1>1, ElementOfSeq DEF PoolOK
<1>3. \A j \in 1..Len(procs) : procs[j].end \in Nat
  BY <1>2 DEF Proc
<1>4. CASE procs' = procs
  BY <1>1, <1>3, <1>4 DEF Grows, EndsGrow, PoolOK
<1>5. ASSUME NEW i \in 1..Len(procs), WriteTo(i) PROVE Grows /\ EndsGrow
  <2>1. /\ procs' \in Seq(Proc) /\ Len(procs') = Len(procs)
        /\ procs'[i].part = procs[i].part /\ procs'[i].end = procs[i].end + 1
        /\ \A j \in 1..Len(procs) : j # i => procs'[j] = procs[j]
    BY <1>1, <1>5, WriteToFacts
  <2>2. \A j \in 1..Len(procs) : procs[j].end <= procs'[j].end
    BY <1>3, <2>1
  <2>3. \A j \in 1..Len(procs) : procs'[j].part = procs[j].part
    BY <2>1
  <2> QED
    BY <1>1, <2>1, <2>2, <2>3 DEF Grows, EndsGrow
<1> QED
  BY <1>4, <1>5

\* A catch-up of the watch goes on.
LEMMA WatchedGoes ==
    ASSUME TypeLink, NEW p \in Partition, Joins(p), NEW c, CatchUpGoes("watch", p, c),
           c.pc = "append" => c.from <= procs'[c.proc].end,
           hosts[p] # 0 /\ p \notin early /\ c.pc \in Holding => c.proc = hosts[p],
           hosts[p] # 0 /\ p \notin early /\ ~failed'
              => c.pc # "off" \/ Applied(p) = "isr" \/ Coming(p)
    PROVE  Joins(p)'
<1>1. HoldersOK
  BY Parts
<1>2. UNCHANGED <<versions, seen, next, hosts, early>>
  BY DEF CatchUpGoes, watchVars
<1>3. Applied(p)' = Applied(p) /\ Coming(p)' = Coming(p)
  BY <1>2, AppliedSame
<1>4. Watched(p)' = c
  BY <1>1 DEF CatchUpGoes, Watched, HoldersOK, Starter
<1>5. p \in syncing' => c # NoCatchUp
  BY DEF CatchUpGoes, NoLongerSyncing
<1> QED
  BY <1>2, <1>3, <1>4, <1>5 DEF Joins

\* The others do not notice.
LEMMA OthersStandStill ==
    ASSUME TypeLink, JoinInv, Grows, EndsGrow, NEW s \in Starter, NEW p \in Partition,
           NEW c, CatchUpGoes(s, p, c), failed => failed', NEW q \in Partition,
           s # "watch" \/ q # p
    PROVE  Joins(q)'
<1>1. HoldersOK /\ Joins(q)
  BY Parts DEF JoinInv
<1>2. UNCHANGED <<versions, seen, next, hosts, early>>
  BY DEF CatchUpGoes, watchVars
<1>3. <<"watch", q>> # <<s, p>> /\ <<"watch", q>> \in Starter \X Partition
  BY DEF Starter
<1>4. Watched(q)' = Watched(q)
  BY <1>1, <1>3 DEF CatchUpGoes, Watched, HoldersOK
<1>5. q \in syncing' => q \in syncing
  BY DEF CatchUpGoes, NoLongerSyncing
<1> QED
  BY <1>1, <1>2, <1>4, <1>5, StandsStill

LEMMA CatchUpStepJoins ==
    ASSUME TypeLink, StandingInv, JoinInv, NEW s \in Starter, NEW p \in Partition,
           \/ Lookup(s, p) \/ FetchLog(s, p) \/ AppendEntry(s, p)
           \/ TryFinalizeInSync(s, p) \/ CatchUpFails(s, p)
    PROVE  JoinInv'
<1> DEFINE c == catchUp[<<s, p>>]
<1>1. /\ PoolOK /\ Joins(p) /\ Succession
      /\ \A j \in 1..Len(procs) : procs[j] \in Proc
  BY Parts, ElementOfSeq DEF JoinInv, PoolOK
<1>2. /\ c \in CatchUpState(Len(procs))
      /\ c.pc \in Holding => /\ c.proc \in 1..Len(procs)
                             /\ procs[c.proc].end \in Nat
  <2>1. c \in CatchUpState(Len(procs)) /\ (c.pc \in Holding => c.proc \in 1..Len(procs))
    BY HeldFacts
  <2>2. c.pc \in Holding => procs[c.proc] \in Proc
    BY <1>1, <2>1
  <2> HIDE DEF c
  <2> QED
    BY <2>1, <2>2 DEF Proc
<1>3. versions' = versions /\ Succession'
  BY <1>1 DEF Lookup, FetchLog, AppendEntry, TryFinalizeInSync, CatchUpFails, CatchUpGoes,
     Succession
<1>4. (failed => failed') /\ \E d : CatchUpGoes(s, p, d)
  BY DEF Lookup, FetchLog, AppendEntry, TryFinalizeInSync, CatchUpFails
<1>5. Grows /\ EndsGrow
  <2>1. CASE procs' = procs
    BY <2>1, WrittenGrows
  <2>2. CASE AppendEntry(s, p)
    <3>1. c.pc \in Holding
      BY <2>2 DEF AppendEntry, At, Holding
    <3>2. WriteTo(c.proc) \/ procs' = procs
      BY <2>2 DEF AppendEntry
    <3> QED
      BY <1>2, <3>1, <3>2, WrittenGrows
  <2>3. CASE TryFinalizeInSync(s, p)
    <3>1. c.pc \in Holding
      BY <2>3 DEF TryFinalizeInSync, At, Holding
    <3>2. \/ procs' = procs
          \/ procs' = [procs EXCEPT ![c.proc] = [procs[c.proc] EXCEPT !.inSync = TRUE]]
      BY <2>3 DEF TryFinalizeInSync
    <3>3. CASE procs' = [procs EXCEPT ![c.proc] = [procs[c.proc] EXCEPT !.inSync = TRUE]]
      <4>1. /\ procs' \in Seq(Proc) /\ Len(procs') = Len(procs)
            /\ \A j \in 1..Len(procs) : /\ procs'[j].part = procs[j].part
                                        /\ procs'[j].end = procs[j].end
        BY <1>1, <1>2, <3>1, <3>3, InSyncSet
      <4>2. Len(procs) \in Nat /\ \A j \in 1..Len(procs) : procs[j].end \in Nat
        BY <1>1, LenProperties DEF PoolOK, Proc
      <4> QED
        BY <4>1, <4>2 DEF Grows, EndsGrow
    <3> QED
      BY <2>1, <3>2, <3>3
  <2> QED
    BY <2>1, <2>2, <2>3 DEF Lookup, FetchLog, CatchUpFails
<1>6. ASSUME NEW q \in Partition, s # "watch" \/ q # p PROVE Joins(q)'
  BY <1>4, <1>5, <1>6, OthersStandStill
<1>7. ASSUME s = "watch" PROVE Joins(p)'
  <2>0. c = Watched(p) /\ CatchUpGoes("watch", p, NoCatchUp) = CatchUpGoes(s, p, NoCatchUp)
    BY <1>7 DEF Watched
  <2>1. /\ hosts[p] # 0 /\ p \notin early /\ c.pc \in Holding => c.proc = hosts[p]
        /\ c.pc = "append" => c.from <= procs[c.proc].end
    BY <1>1, <2>0 DEF Joins
  <2>2. /\ Caught(s, p).pc = "mark"
        /\ NoCatchUp.pc = "off" /\ "mark" \notin Holding /\ "off" \notin Holding
    BY <1>7 DEF Caught, NoCatchUp, Holding
  <2>3. CASE Lookup(s, p)
    <3>1. CASE hosts[p] = 0
      <4>1. CatchUpGoes("watch", p, NoCatchUp)
        BY <1>7, <2>3, <3>1 DEF Lookup
      <4> QED
        BY <1>1, <2>2, <3>1, <4>1, WatchedGoes
    <3>2. CASE hosts[p] # 0 /\ procs[hosts[p]].inSync
      <4>1. CatchUpGoes("watch", p, Caught(s, p))
        BY <1>7, <2>3, <3>2 DEF Lookup
      <4> QED
        BY <1>1, <2>2, <4>1, WatchedGoes
    <3>3. CASE hosts[p] # 0 /\ ~procs[hosts[p]].inSync
      <4> DEFINE d == [pc |-> "fetch", proc |-> hosts[p], from |-> 0]
      <4>1. CatchUpGoes("watch", p, d)
        BY <1>7, <2>3, <3>3 DEF Lookup
      <4>2. d.pc = "fetch" /\ d.proc = hosts[p]
        OBVIOUS
      <4> HIDE DEF d
      <4> QED
        BY <1>1, <4>1, <4>2, WatchedGoes
    <3> QED
      BY <3>1, <3>2, <3>3
  <2>4. CASE FetchLog(s, p)
    <3> DEFINE end == procs[c.proc].end
               d == [c EXCEPT !.from = end,
                              !.pc = IF end < LeaderRecords THEN "append" ELSE "finalize"]
    <3>1. CatchUpGoes("watch", p, d) /\ c.pc \in Holding /\ procs' = procs
      BY <1>7, <2>4 DEF FetchLog, At, Holding
    <3>2. d.pc \in {"append", "finalize"} /\ d.proc = c.proc /\ d.from = end
      BY <1>2 DEF CatchUpState
    <3>3. end <= procs'[c.proc].end
      BY <1>2, <3>1
    <3> HIDE DEF d, end, c
    <3>4. hosts[p] # 0 /\ p \notin early /\ d.pc \in Holding => d.proc = hosts[p]
      BY <2>1, <3>1, <3>2
    <3> QED
      BY <1>1, <3>1, <3>2, <3>3, <3>4, WatchedGoes
  <2>5. CASE AppendEntry(s, p)
    <3> DEFINE d == [c EXCEPT !.pc = "finalize", !.from = 0]
    <3>1. c.pc = "append" /\ c.pc \in Holding
      BY <2>5 DEF AppendEntry, At, Holding
    <3>2. IF procs[c.proc].state = "Active" /\ c.from <= procs[c.proc].end
          THEN CatchUpGoes("watch", p, d) ELSE CatchUpGoes("watch", p, NoCatchUp)
      BY <1>7, <2>5 DEF AppendEntry
    <3>3. d.pc = "finalize" /\ d.proc = c.proc
      BY <1>2 DEF CatchUpState
    <3>4. hosts[p] # 0 /\ p \notin early =>
             procs[c.proc].state = "Active" /\ c.from <= procs[c.proc].end
      BY <1>1, <2>1, <3>1, HostedFacts
    <3> HIDE DEF d, c
    <3>5. CASE procs[c.proc].state = "Active" /\ c.from <= procs[c.proc].end
      BY <1>1, <2>1, <3>1, <3>2, <3>3, <3>5, WatchedGoes
    <3>6. CASE ~(procs[c.proc].state = "Active" /\ c.from <= procs[c.proc].end)
      BY <1>1, <2>2, <3>2, <3>4, <3>6, WatchedGoes
    <3> QED
      BY <3>5, <3>6
  <2>6. CASE TryFinalizeInSync(s, p)
    <3> DEFINE d == [c EXCEPT !.pc = "fetch"]
    <3>1. c.pc \in Holding
      BY <2>6 DEF TryFinalizeInSync, At, Holding
    <3>2. CatchUpGoes("watch", p, Caught(s, p)) \/ CatchUpGoes("watch", p, d)
      BY <1>7, <2>6 DEF TryFinalizeInSync
    <3>3. d.pc = "fetch" /\ d.proc = c.proc
      BY <1>2 DEF CatchUpState
    <3> HIDE DEF d, c
    <3>4. CASE CatchUpGoes("watch", p, Caught(s, p))
      BY <1>1, <2>2, <3>4, WatchedGoes
    <3>5. CASE CatchUpGoes("watch", p, d)
      BY <1>1, <2>1, <3>1, <3>3, <3>5, WatchedGoes
    <3> QED
      BY <3>2, <3>4, <3>5
  <2>7. CASE CatchUpFails(s, p)
    <3>1. CatchUpGoes("watch", p, NoCatchUp) /\ failed'
      BY <1>7, <2>7 DEF CatchUpFails
    <3> QED
      BY <1>1, <2>2, <3>1, WatchedGoes
  <2> QED
    BY <2>3, <2>4, <2>5, <2>6, <2>7
<1>8. ASSUME NEW q \in Partition PROVE Joins(q)'
  BY <1>6, <1>7
<1> QED
  BY <1>3, <1>8 DEF JoinInv

\* The catch-up that ends has put its replica into the ISR, or there is a value
\* to come that is not the one of a mere replica.
LEMMA MarkJoins ==
    ASSUME TypeLink, StandingInv, JoinInv, NEW p \in Partition, MarkNodeInSync(p)
    PROVE  JoinInv'
<1>1. /\ WatchOK /\ PoolOK /\ HoldersOK /\ Succession
      /\ \A q \in Partition : Joins(q)
  BY Parts DEF JoinInv
<1>2. /\ UNCHANGED <<seen, next, hosts, early, procs, failed>>
      /\ catchUp' = [catchUp EXCEPT ![<<"watch", p>>] = NoCatchUp]
      /\ syncing' = syncing \ {p}
  BY DEF MarkNodeInSync, watchVars, NoLongerSyncing
<1>3. /\ Last \in [Partition -> Standing] /\ Len(versions) \in Nat \ {0}
      /\ Last = versions[Len(versions)]
  BY <1>1, LastFacts DEF Last
<1>4. Watched(p)' = NoCatchUp /\ \A q \in Partition \ {p} : Watched(q)' = Watched(q)
  BY <1>1, <1>2 DEF Watched, HoldersOK, Starter
<1>5. Grows /\ EndsGrow
  BY <1>2, WrittenGrows
<1>6. ASSUME hosts[p] # 0 => Applied(p)' = "isr" \/ Coming(p)' PROVE Joins(p)'
  BY <1>2, <1>4, <1>6 DEF Joins, NoCatchUp, Holding
<1>7. CASE Last[p] = "replica"
  <2> DEFINE value == [Last EXCEPT ![p] = "isr"]
  <2>1. versions' = Append(versions, value)
    BY <1>7 DEF MarkNodeInSync
  <2>2. /\ value \in [Partition -> Standing] /\ value[p] # "replica"
        /\ \A q \in Partition : Last[q] = "isr" => value[q] # "replica"
    BY <1>3 DEF Standing
  <2> HIDE DEF value
  <2>3. Succession' /\ Coming(p)'
    BY <1>1, <1>2, <2>1, <2>2, VersionAdded
  <2>4. ASSUME NEW q \in Partition, q # p PROVE Joins(q)'
    <3>1. Watched(q)' = Watched(q) /\ (q \in syncing' => q \in syncing)
      BY <1>2, <1>4, <2>4
    <3> QED
      BY <1>2, <2>1, <2>2, <3>1, ValueJoins
  <2>5. Joins(p)'
    BY <1>6, <2>3
  <2> QED
    BY <2>3, <2>4, <2>5 DEF JoinInv
<1>8. CASE Last[p] # "replica"
  <2>1. versions' = versions
    BY <1>8 DEF MarkNodeInSync
  <2>2. Succession'
    BY <1>1, <2>1 DEF Succession
  <2>3. Applied(p)' = Applied(p) /\ Coming(p)' = Coming(p)
    BY <1>2, <2>1, AppliedSame
  <2>4. ASSUME hosts[p] # 0 PROVE Applied(p) = "isr" \/ Coming(p)
    <3>1. Index(p) \in 0..Len(versions)
      BY <1>1, IndexFacts
    <3>2. CASE Index(p) = Len(versions)
      <4>1. Applied(p) = Last[p]
        BY <1>1, <1>3, <3>2, IndexFacts
      <4>2. IsReplica(Applied(p))
        BY <2>4 DEF StandingInv
      <4> QED
        BY <1>8, <4>1, <4>2 DEF IsReplica
    <3>3. CASE Index(p) # Len(versions)
      <4>1. Len(versions) > Index(p) /\ Len(versions) \in 1..Len(versions)
        BY <1>3, <3>1, <3>3
      <4> QED
        BY <1>3, <1>8, <4>1 DEF Coming
    <3> QED
      BY <3>2, <3>3
  <2>5. Joins(p)'
    BY <1>6, <2>3, <2>4
  <2>6. ASSUME NEW q \in Partition, q # p PROVE Joins(q)'
    <3>1. Watched(q)' = Watched(q) /\ (q \in syncing' => q \in syncing)
      BY <1>2, <1>4, <2>6
    <3> QED
      BY <1>1, <1>2, <1>5, <2>1, <3>1, StandsStill
  <2> QED
    BY <2>2, <2>5, <2>6 DEF JoinInv
<1> QED
  BY <1>7, <1>8

LEMMA NextJoins == TypeLink /\ StandingInv /\ JoinInv /\ [Next]_vars => JoinInv'
<1> SUFFICES ASSUME TypeLink, StandingInv, JoinInv, [Next]_vars PROVE JoinInv'
  OBVIOUS
<1>1. WatchOK /\ PoolOK /\ Succession /\ \A p \in Partition : Joins(p)
  BY Parts DEF JoinInv
<1>2. CASE CreateTopic \/ DeleteTopic
           \/ \E p \in Partition : AddReplica(p) \/ RemoveReplica(p)
  <2>1. PICK value \in [Partition -> Standing] :
           /\ Changes(value)
           /\ \A p \in Partition : Last[p] = "isr" => value[p] # "replica"
    BY <1>1, <1>2, ChangesSucceed
  <2>2. /\ versions' = Append(versions, value)
        /\ UNCHANGED <<seen, next, hosts, early, procs, catchUp, syncing, failed>>
    BY <2>1 DEF Changes, watchVars
  <2>3. Succession'
    BY <1>1, <2>1, <2>2, VersionAdded
  <2>4. \A p \in Partition : Watched(p)' = Watched(p)
    BY <2>2 DEF Watched
  <2>5. \A p \in Partition : Joins(p)'
    BY <2>1, <2>2, <2>4, ValueJoins
  <2> QED
    BY <2>3, <2>5 DEF JoinInv
<1>3. CASE Watch
  BY <1>3, WatchStepJoins
<1>4. ASSUME UNCHANGED <<versions, seen, next, hosts, early, catchUp, syncing, failed>>,
             procs' = procs \/ \E i \in 1..Len(procs) : WriteTo(i)
      PROVE  JoinInv'
  <2>1. Succession'
    BY <1>1, <1>4 DEF Succession
  <2>2. \A p \in Partition : Watched(p)' = Watched(p)
    BY <1>4 DEF Watched
  <2>3. Grows /\ EndsGrow
    BY <1>4, WrittenGrows
  <2>4. \A p \in Partition : Joins(p)'
    BY <1>1, <1>4, <2>2, <2>3, StandsStill
  <2> QED
    BY <2>1, <2>4 DEF JoinInv
<1>5. ASSUME NEW h \in Push, PushArrives(h) \/ TryApplyPush(h) PROVE JoinInv'
  <2>1. UNCHANGED <<versions, seen, next, hosts, early, catchUp, syncing, failed>>
    BY <1>5 DEF PushArrives, TryApplyPush, watchVars
  <2>2. procs' = procs \/ (push[h] # NoPush /\ WriteTo(push[h].proc))
    BY <1>5 DEF PushArrives, TryApplyPush
  <2>3. push[h] # NoPush => push[h].proc \in 1..Len(procs)
    BY PushedFacts
  <2> QED
    BY <1>4, <2>1, <2>2, <2>3
<1>6. ASSUME NEW p \in Partition, RestoreData(p) PROVE JoinInv'
  <2> DEFINE c == [NoCatchUp EXCEPT !.pc = "lookup"]
  <2>1. CatchUpGoes("restore", p, c) /\ procs' = procs /\ failed' = failed
    BY <1>6 DEF RestoreData
  <2>2. Succession'
    BY <1>1, <2>1 DEF Succession, CatchUpGoes
  <2>3. Grows /\ EndsGrow
    BY <2>1, WrittenGrows
  <2>4. "restore" \in Starter
    BY DEF Starter
  <2> HIDE DEF c
  <2>5. \A q \in Partition : Joins(q)'
    BY <2>1, <2>3, <2>4, OthersStandStill
  <2> QED
    BY <2>2, <2>5 DEF JoinInv
<1>7. ASSUME NEW s \in Starter, NEW p \in Partition, CatchUp(s, p) \/ CatchUpFails(s, p)
      PROVE  JoinInv'
  BY <1>7, CatchUpStepJoins, MarkJoins DEF CatchUp
<1>8. CASE UNCHANGED vars
  BY <1>4, <1>8 DEF vars, watchVars
<1> QED
  BY <1>2, <1>3, <1>5, <1>6, <1>7, <1>8 DEF Next

\* When the watch has applied every value of the topic, the broker hosts the
\* partitions it is a replica of and no others, a partition whose ISR lists it has
\* a processor that believes itself in sync, and one whose ISR does not list it has
\* a catch-up at work, unless a call has failed or its processor was replaced.
THEOREM HostsTheRightPartitions == Spec => []HostsWhatItShould
<1>1. TypeLink /\ StandingInv /\ JoinInv => HostsWhatItShould
  <2> SUFFICES ASSUME TypeLink, StandingInv, JoinInv, seen = Len(versions),
                      NEW p \in Partition
               PROVE  /\ (hosts[p] # 0) = IsReplica(Last[p])
                      /\ Last[p] = "isr" => procs[hosts[p]].inSync
                      /\ Last[p] = "replica" /\ ~failed /\ p \notin early
                            => ~At("watch", p, "off")
    BY DEF HostsWhatItShould
  <2>1. WatchOK /\ Joins(p)
    BY Parts DEF JoinInv
  <2>2. Len(versions) \in Nat \ {0} /\ next \in Nat /\ p \in Nat
    BY <2>1, LastFacts, PartitionFacts DEF WatchOK
  <2>3. ~(next > 0)
    BY <2>2 DEF StandingInv
  <2>4. Applied(p) = Last[p] /\ Index(p) = Len(versions)
    BY <2>2, <2>3 DEF Applied, Last, Index
  <2>5. ~Coming(p)
    BY <2>2, <2>4 DEF Coming
  <2>6. /\ (hosts[p] # 0) = IsReplica(Last[p])
        /\ Last[p] = "isr" => procs[hosts[p]].inSync
    BY <2>4 DEF StandingInv
  <2>7. Last[p] = "replica" => hosts[p] # 0 /\ Applied(p) # "isr"
    BY <2>4, <2>6 DEF IsReplica
  <2>8. ASSUME Last[p] = "replica", ~failed, p \notin early PROVE ~At("watch", p, "off")
    BY <2>1, <2>5, <2>7, <2>8 DEF Joins, At, Watched
  <2> QED
    BY <2>6, <2>8
<1> QED
  BY <1>1, InitTypeLink, NextTypeLink, InitStanding, NextStanding, InitJoins, NextJoins,
     PTL DEF Spec

=============================================================================
