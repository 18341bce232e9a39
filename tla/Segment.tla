------------------------------ MODULE Segment ------------------------------
(***************************************************************************)
(* aol.Segment: one file of the log and the handle the broker keeps of it, *)
(* as pure operators.  A file is the sequence of its records; all records  *)
(* have one size, so a position is the number of records before it.  A     *)
(* record that was not written to its end has the value Torn.              *)
(***************************************************************************)
EXTENDS Naturals, Sequences, SequencesExt

CONSTANT Torn

ASSUME TornAssumption == Torn \notin Nat

\* recoverIndex cuts the torn record a crash has left at the end of a file.
Whole(content) ==
    IF content # <<>> /\ Last(content).val = Torn THEN Front(content) ELSE content

PositionOf(content, off) ==
    Max({i \in DOMAIN content : content[i].off = off}) - 1

\* Slip: an empty segment starts at 0, whatever its name.
NewSegmentAtZero(base, content) ==
    LET kept == Whole(content)
        offsets == {kept[i].off : i \in DOMAIN kept}
    IN [next  |-> IF kept = <<>> THEN 0 ELSE Last(kept).off + 1,
        index |-> [o \in offsets |-> PositionOf(kept, o)],
        size  |-> Len(kept),
        open  |-> TRUE]

\* NewSegment on a file with this content (none for a new file): of several
\* records with one offset recoverIndex keeps the last.
NewSegment(base, content) ==
    LET kept == Whole(content)
        offsets == {kept[i].off : i \in DOMAIN kept}
    IN [next  |-> IF kept = <<>> THEN base ELSE Last(kept).off + 1,
        index |-> [o \in offsets |-> PositionOf(kept, o)],
        size  |-> Len(kept),
        open  |-> TRUE]

\* The handle after a complete Append.
Appended(seg, off) ==
    [next  |-> off + 1,
     index |-> [o \in DOMAIN seg.index \cup {off} |->
                   IF o = off THEN seg.size ELSE seg.index[o]],
     size  |-> seg.size + 1,
     open  |-> seg.open]

\* os.Truncate; beyond its end it would fill the file with zeros.
Cut(content, pos) ==
    SubSeq(content, 1, pos) \o [i \in 1..(pos - Len(content)) |-> [off |-> 0, val |-> Torn]]

\* Slip: CurrentSize keeps the old value.
TruncatedIndex(seg, off) ==
    [seg EXCEPT !.index = [o \in {x \in DOMAIN seg.index : x < off} |-> seg.index[o]],
                !.next = off]

\* The handle after a complete TruncateFrom.
Truncated(seg, off) ==
    [next  |-> off,
     index |-> [o \in {x \in DOMAIN seg.index : x < off} |-> seg.index[o]],
     size  |-> seg.index[off],
     open  |-> seg.open]

\* Read: does it find a record, and which.
Readable(seg, content, off) ==
    seg.open /\ off \in DOMAIN seg.index /\ seg.index[off] < Len(content)

RecordAt(seg, content, off) == content[seg.index[off] + 1]

=============================================================================
