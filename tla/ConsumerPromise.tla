-------------------------- MODULE ConsumerPromise --------------------------
(***************************************************************************)
(* What a live consumer of a partition is promised, over the part of the   *)
(* state that is needed to say it.  PartitionStream is what keeps it.      *)
(***************************************************************************)
EXTENDS Naturals, Sequences

CONSTANT Stream     \* live consumers

VARIABLES
    log,        \* value of the record at each offset, from 0
    baseOffset, \* first offset retention has left
    rolledBack, \* values rolled back
    state,      \* PartitionState; p.Done is closed in "deleted"
    pc,         \* where the consumer's goroutine stands
    cur,        \* currentOffset
    got,        \* records sent to the consumer
    ctxDone,    \* the consumer's context is done
    waker       \* the goroutine that turns Done into a Broadcast

NextOffset == Len(log)

Record(off) == [off |-> off, val |-> log[off + 1]]

\* The record is the one of the log, or was rolled back.
Stored(r) == (r.off < NextOffset /\ r = Record(r.off)) \/ r.val \in rolledBack

\* What a consumer is sent is the log from where it starts: in order, each
\* offset once, skipping nothing but what retention has deleted, across the
\* switch from history to stream and across roll-backs; and each record is the
\* one of the log, unless it was rolled back later.
StreamFollowsLog ==
    \A s \in Stream :
        /\ \A i \in 1..Len(got[s]) : Stored(got[s][i])
        /\ \A i \in 2..Len(got[s]) :
              /\ got[s][i - 1].off < got[s][i].off
              /\ \A o \in (got[s][i - 1].off + 1)..(got[s][i].off - 1) : o < baseOffset

\* getStream looks at the log and at its context before it waits on the condition
\* variable, and everything that changes either broadcasts after it: so nobody
\* sleeps in front of a record, and a sleeper whose consumer is gone has its
\* broadcast still to come.  A deleted partition is excepted (WokenWhenCancelled).
NoWakeUpIsLost ==
    \A s \in Stream :
        pc[s] = "asleep" =>
            /\ cur[s] >= NextOffset
            /\ ctxDone[s] => waker[s] = "armed" \/ state = "deleted"
=============================================================================
