---------------------------- MODULE PartitionLog ----------------------------
(***************************************************************************)
(* The log of one partition on the disk of one broker: appends with        *)
(* rotation of the segment file (appendLocked), roll-back of the last      *)
(* record (InvalidateOffset), retention (CleanOldMessages), reads          *)
(* (findSegment, Segment.Read) and recovery (recoverSegments), with        *)
(* failing disk operations and crashes in the middle of an append.         *)
(*                                                                         *)
(* All operations hold the partition's lock, so each is one action.  Each  *)
(* append writes a value of its own, so that a read that returns another   *)
(* record can be told from the right one.                                  *)
(***************************************************************************)
EXTENDS Segment

CONSTANTS
    MaxSegmentSize, \* maxSegmentSize, in records
    MaxAppends,     \* bound: appends, failed ones included
    MaxFaults       \* bounds of the faults: a record indexed by FaultKind

FaultKind == {"write", "sync", "rotate", "remove", "crash"}

ASSUME LogAssumption == /\ MaxSegmentSize \in Nat \ {0}
                        /\ MaxAppends \in Nat
                        /\ MaxFaults \in [FaultKind -> Nat]

VARIABLES
    file,       \* the files of the partition's directory, by base offset
    seg,        \* the segments the process has opened, by base offset
    closed,     \* closedSegments, as base offsets
    active,     \* activeSegment
    baseOffset,
    nextOffset,
    acked,      \* history: the value stored at each offset, as reported
    written,    \* number of records written so far
    budget      \* faults that may still happen

vars == <<file, seg, closed, active, baseOffset, nextOffset, acked, written, budget>>

diskVars == <<file, seg, closed, active>>

Spend(kind) == /\ budget[kind] > 0
               /\ budget' = [budget EXCEPT ![kind] = @ - 1]

Never(kind) == budget[kind] = MaxFaults[kind]

Init ==
    /\ file = [b \in {0} |-> <<>>]
    /\ seg = [b \in {0} |-> NewSegment(0, <<>>)]
    /\ closed = <<>>
    /\ active = 0
    /\ baseOffset = 0
    /\ nextOffset = 0
    /\ acked = <<>>
    /\ written = 0
    /\ budget = MaxFaults

\* A set of numbers in their order.
InOrder(S) == [n \in 1..Cardinality(S) |->
                  CHOOSE x \in S : Cardinality({y \in S : y <= x}) = n]

-----------------------------------------------------------------------------
(* Appends.  A full active segment is replaced first.                      *)

Full == seg[active].size >= MaxSegmentSize

Target == IF Full THEN nextOffset ELSE active

TargetFile ==
    IF Target \notin DOMAIN file THEN <<>>
    ELSE IF Full THEN Whole(file[Target]) ELSE file[Target]

TargetSeg == IF Full THEN NewSegment(Target, TargetFile) ELSE seg[active]

\* What the file holds after the write.
NewRecord == [off |-> nextOffset, val |-> written + 1]

Put(f, base, x) == [b \in DOMAIN f \cup {base} |-> IF b = base THEN x ELSE f[b]]

\* The rotation, if it is due, leaves the target with this content and handle.
Rotate(content, handle) ==
    /\ file' = Put(file, Target, content)
    /\ seg' = Put(seg, Target, handle)
    /\ closed' = IF Full THEN Append(closed, active) ELSE closed
    /\ active' = Target

\* AppendEntry and TryApplyPush, once they found the offset to be the next.
AppendLocked ==
    /\ written < MaxAppends
    /\ TargetSeg.open
    /\ Rotate(Append(TargetFile, NewRecord), Appended(TargetSeg, nextOffset))
    /\ nextOffset' = nextOffset + 1
    /\ acked' = Append(acked, NewRecord.val)
    /\ written' = written + 1
    /\ UNCHANGED <<baseOffset, budget>>

\* The new file cannot be opened: the active segment has joined the closed ones.
RotationFails ==
    /\ Full
    /\ Spend("rotate")
    /\ closed' = Append(closed, active)
    /\ UNCHANGED <<file, seg, active, baseOffset, nextOffset, acked, written>>

\* Slip: what was written stays.
WriteFailsUncut ==
    /\ TargetSeg.open
    /\ Spend("write")
    /\ Rotate(Append(TargetFile, [NewRecord EXCEPT !.val = Torn]), TargetSeg)
    /\ UNCHANGED <<baseOffset, nextOffset, acked, written>>

\* The write fails and what was written is cut off again; the rotation stays.
WriteFails ==
    /\ TargetSeg.open
    /\ Spend("write")
    /\ Rotate(TargetFile, TargetSeg)
    /\ UNCHANGED <<baseOffset, nextOffset, acked, written>>

\* The write succeeds and the fsync fails: only the file has the record.
SyncFails ==
    /\ written < MaxAppends
    /\ TargetSeg.open
    /\ Spend("sync")
    /\ Rotate(Append(TargetFile, NewRecord), TargetSeg)
    /\ written' = written + 1
    /\ UNCHANGED <<baseOffset, nextOffset, acked>>

-----------------------------------------------------------------------------
(* Roll-back of the last record.                                           *)

LastOffset == nextOffset - 1

\* InvalidateOffset refuses a record of a closed segment.
CanInvalidate ==
    /\ nextOffset > 0
    /\ LastOffset >= active
    /\ LastOffset \in DOMAIN seg[active].index
    /\ active \in DOMAIN file

CutLast == file' = [file EXCEPT ![active] = Cut(@, seg[active].index[LastOffset])]

InvalidateOffset ==
    /\ CanInvalidate
    /\ seg[active].open
    /\ CutLast
    /\ seg' = [seg EXCEPT ![active] = Truncated(@, LastOffset)]
    /\ nextOffset' = LastOffset
    /\ acked' = SubSeq(acked, 1, LastOffset)
    /\ UNCHANGED <<closed, active, baseOffset, written, budget>>

\* The file is cut and the fsync fails (on a closed file it always does): the
\* handle keeps the record.
InvalidateSyncFails ==
    /\ CanInvalidate
    /\ IF seg[active].open THEN Spend("sync") ELSE UNCHANGED budget
    /\ CutLast
    /\ UNCHANGED <<seg, closed, active, baseOffset, nextOffset, acked, written>>

-----------------------------------------------------------------------------
(* Retention: the first k closed segments are older than the ttl.          *)

\* Slip: the base is taken from the second closed segment.
SecondOf(cs) == IF Len(cs) > 1 THEN cs[2] ELSE active

First(cs) == IF cs = <<>> THEN active ELSE cs[1]

\* A list without the first occurrence of each of some bases.
Without(cs, bases) ==
    LET kept == {i \in DOMAIN cs : cs[i] \in bases => \E j \in 1..i - 1 : cs[j] = cs[i]}
    IN  [n \in 1..Cardinality(kept) |-> cs[InOrder(kept)[n]]]

\* Of these the ones whose file can be examined are closed and removed (except
\* those whose removal fails); the others stay in the list.
CleanOldMessages ==
    \E k \in 1..Len(closed) :
      LET closing == {b \in ToSet(SubSeq(closed, 1, k)) : seg[b].open}
      IN \E failed \in {{}} \cup {{b} : b \in closing} :
           LET removed == closing \ failed
           IN /\ IF failed = {} THEN UNCHANGED budget ELSE Spend("remove")
              /\ closing # {}
              /\ file' = [b \in DOMAIN file \ removed |-> file[b]]
              /\ seg' = [b \in DOMAIN seg |->
                            [seg[b] EXCEPT !.open = @ /\ b \notin closing]]
              /\ closed' = Without(closed, removed)
              /\ baseOffset' = First(closed')
              /\ UNCHANGED <<active, nextOffset, acked, written>>

-----------------------------------------------------------------------------
(* Crash and recovery.                                                     *)

\* What a crash in the middle of an append may leave on the disk: nothing, a
\* new segment file, a torn record, the whole record.
CrashFiles ==
    {file} \cup
    {Put(file, Target, TargetFile \o tail) :
        tail \in {<<>>, <<[NewRecord EXCEPT !.val = Torn]>>, <<NewRecord>>}}

\* recoverSegments: the files in the order of their names; the last is active.
Restart ==
    /\ Spend("crash")
    /\ written < MaxAppends
    /\ \E left \in IF TargetSeg.open THEN CrashFiles ELSE {file} :
         LET disk == IF left = <<>> THEN [b \in {0} |-> <<>>] ELSE left
             bases == InOrder(DOMAIN disk)
             tail == Whole(disk[Last(bases)])
         IN /\ file' = [b \in DOMAIN disk |-> Whole(disk[b])]
            /\ seg' = [b \in DOMAIN disk |-> NewSegment(b, disk[b])]
            /\ closed' = Front(bases)
            /\ active' = Last(bases)
            /\ baseOffset' = bases[1]
            /\ nextOffset' = seg'[active'].next
            /\ acked' = IF nextOffset' = Len(acked) + 1 /\ tail # <<>>
                        THEN Append(acked, Last(tail).val)
                        ELSE acked
    /\ written' = written + 1

-----------------------------------------------------------------------------
Next ==
    \/ AppendLocked \/ RotationFails \/ WriteFails \/ SyncFails
    \/ InvalidateOffset \/ InvalidateSyncFails
    \/ CleanOldMessages
    \/ Restart

Spec == Init /\ [][Next]_vars

-----------------------------------------------------------------------------
(* Reads.                                                                  *)

\* findSegment: the first closed segment that spans the offset, or the active.
Spans(b, off) == b <= off /\ off < seg[b].next

InLog(off) == \E b \in ToSet(closed) \cup {active} : Spans(b, off)

FindSegment(off) ==
    IF \E b \in ToSet(closed) : Spans(b, off)
    THEN closed[CHOOSE i \in DOMAIN closed :
                    /\ Spans(closed[i], off)
                    /\ \A j \in 1..i - 1 : ~Spans(closed[j], off)]
    ELSE active

Content(b) == IF b \in DOMAIN file THEN file[b] ELSE <<>>

CanRead(off) ==
    InLog(off) /\ LET b == FindSegment(off) IN Readable(seg[b], Content(b), off)

Read(off) == LET b == FindSegment(off) IN RecordAt(seg[b], Content(b), off)

-----------------------------------------------------------------------------
(* Properties.                                                             *)

Entry == [off : Nat, val : Nat \cup {Torn}]

TypeOK ==
    /\ DOMAIN file \subseteq 0..MaxAppends
    /\ \A b \in DOMAIN file : file[b] \in Seq(Entry)
    /\ DOMAIN seg \subseteq 0..MaxAppends
    /\ \A b \in DOMAIN seg : /\ seg[b].next \in Nat
                             /\ seg[b].size \in Nat
                             /\ seg[b].open \in BOOLEAN
                             /\ \A o \in DOMAIN seg[b].index : seg[b].index[o] \in Nat
    /\ closed \in Seq(DOMAIN seg)
    /\ active \in DOMAIN seg
    /\ baseOffset \in 0..nextOffset
    /\ nextOffset \in Nat
    /\ acked \in Seq(Nat)
    /\ written \in 0..MaxAppends
    /\ budget \in [FaultKind -> Nat]

\* A record the broker reported as stored, and did not roll back, is neither
\* lost nor moved by rotation, failed writes, retention, failed removals and
\* crashes: the next offset counts all of them, and what a read of an offset
\* returns is the record stored there, unless the read fails.  (A failed fsync
\* breaks it, and so does a failed rotation: the active segment is then among
\* the closed ones, and retention may delete it.)
ReadsBackStored ==
    Never("sync") /\ Never("rotate") =>
        /\ nextOffset = Len(acked)
        /\ \A o \in 0..(nextOffset - 1) : CanRead(o) =>
              Read(o) = [off |-> o, val |-> acked[o + 1]]

\* Unless the removal of a file has failed as well, every offset from
\* baseOffset on can be read: readFrom refuses exactly what retention deleted.
ReadableFromBase ==
    Never("sync") /\ Never("rotate") /\ Never("remove") =>
        \A o \in baseOffset..(nextOffset - 1) : CanRead(o)

\* Retention and recovery move the start of the log forward only.
BaseMovesForward ==
    [][Never("sync") /\ Never("rotate") => baseOffset' >= baseOffset]_vars

-----------------------------------------------------------------------------
(* What the code's comments say of it, and the code does not do.           *)

\* Segment.index is the position of each offset in the file.
IndexIsPosition ==
    \A b \in DOMAIN seg \cap DOMAIN file : \A o \in DOMAIN seg[b].index :
        Readable(seg[b], file[b], o) => RecordAt(seg[b], file[b], o).off = o

\* InvalidateOffset: the last record is always in the active segment.
LastRecordInActive == nextOffset > baseOffset => LastOffset >= active

=============================================================================
