-------------------------- MODULE PartitionStream --------------------------
(***************************************************************************)
(* Live consumers of one partition: the part of the log that is there is   *)
(* read at once (readFrom), then a goroutine follows the log (getStream)   *)
(* and sleeps on the partition's condition variable at its end, while the  *)
(* log grows, is rolled back, loses its oldest records to retention, and   *)
(* while consumers go away and the partition is deleted.                   *)
(*                                                                         *)
(* What is behind the partition's lock is one action.  log keeps the       *)
(* records retention deleted; they are below baseOffset.                   *)
(***************************************************************************)
EXTENDS ConsumerPromise, SequencesExt

CONSTANTS
    ChannelSize,   \* capacity of the channel out (100 in the code)
    MaxAppends,    \* bound: records appended
    MaxRollBacks   \* bound: records rolled back

ASSUME StreamAssumption == /\ ChannelSize \in Nat \ {0}
                           /\ MaxAppends \in Nat
                           /\ MaxRollBacks \in Nat

VARIABLES
    end,        \* endOffset of readFrom
    msg,        \* record the goroutine is about to send
    out,        \* the channel to the handler
    written     \* records appended so far

logVars == <<log, baseOffset, state, written, rolledBack>>
streamVars == <<pc, cur, end, msg, out, got, ctxDone, waker>>
vars == <<logVars, streamVars>>

Init ==
    /\ log = <<>>
    /\ baseOffset = 0
    /\ state = "active"
    /\ pc = [s \in Stream |-> "idle"]
    /\ cur = [s \in Stream |-> 0]
    /\ end = [s \in Stream |-> 0]
    /\ msg = [s \in Stream |-> <<>>]
    /\ out = [s \in Stream |-> <<>>]
    /\ got = [s \in Stream |-> <<>>]
    /\ ctxDone = [s \in Stream |-> FALSE]
    /\ waker = [s \in Stream |-> "none"]
    /\ written = 0
    /\ rolledBack = {}

-----------------------------------------------------------------------------
(* The log.                                                                *)

\* cond.Broadcast: the sleepers will look again, without the check before it.
Broadcast(p) == [s \in Stream |-> IF p[s] = "asleep" THEN "look" ELSE p[s]]

AppendLocked ==
    /\ state = "active"
    /\ written < MaxAppends
    /\ log' = Append(log, written + 1)
    /\ written' = written + 1
    /\ pc' = Broadcast(pc)
    /\ UNCHANGED <<baseOffset, state, rolledBack, cur, end, msg, out, got,
                   ctxDone, waker>>

\* Slip: a record of a closed segment is rolled back too.
InvalidateAnywhere ==
    /\ state = "active"
    /\ Len(log) > 0
    /\ Cardinality(rolledBack) < MaxRollBacks
    /\ rolledBack' = rolledBack \cup {Last(log)}
    /\ log' = Front(log)
    /\ pc' = Broadcast(pc)
    /\ UNCHANGED <<baseOffset, state, written, cur, end, msg, out, got,
                   ctxDone, waker>>

InvalidateOffset ==
    /\ state = "active"
    /\ Len(log) > baseOffset
    /\ Cardinality(rolledBack) < MaxRollBacks
    /\ rolledBack' = rolledBack \cup {Last(log)}
    /\ log' = Front(log)
    /\ pc' = Broadcast(pc)
    /\ UNCHANGED <<baseOffset, state, written, cur, end, msg, out, got,
                   ctxDone, waker>>

\* Whole segments go; the newest may be empty.  (The cleaner runs until the
\* partition's context ends.)
CleanOldMessages ==
    /\ state # "deleted"
    /\ baseOffset' \in (baseOffset + 1)..NextOffset
    /\ UNCHANGED <<log, state, written, rolledBack, streamVars>>

\* DeletePartition marks the partition and wakes the streams ...
MarkStopping ==
    /\ state = "active"
    /\ state' = "stopping"
    /\ pc' = Broadcast(pc)
    /\ UNCHANGED <<log, baseOffset, written, rolledBack, cur, end, msg, out,
                   got, ctxDone, waker>>

\* ... then StopAndRemove ends its context and closes its files.
StopAndRemove ==
    /\ state = "stopping"
    /\ state' = "deleted"
    /\ UNCHANGED <<log, baseOffset, written, rolledBack, streamVars>>

-----------------------------------------------------------------------------
(* readFrom.                                                               *)

Goto(s, label) == pc' = [pc EXCEPT ![s] = label]

\* The consumer names an offset, or the beginning, which ReadMessages resolves
\* before readFrom locks the partition.
ReadMessages(s) ==
    /\ pc[s] = "idle"
    /\ Goto(s, "start")
    /\ \E start \in {baseOffset} \cup 0..MaxAppends :
          cur' = [cur EXCEPT ![s] = start]
    /\ UNCHANGED <<logVars, end, msg, out, got, ctxDone, waker>>

ReadFromBegins(s) ==
    /\ pc[s] = "start"
    /\ Goto(s, IF cur[s] < baseOffset THEN "refused" ELSE "history")
    /\ end' = [end EXCEPT ![s] = NextOffset]
    /\ UNCHANGED <<logVars, cur, msg, out, got, ctxDone, waker>>

\* What is readable at the second lock, up to the end seen at the first; it
\* stops at a deleted segment or a closed file.
LastRead(s) ==
    IF state = "deleted" \/ cur[s] < baseOffset THEN cur[s]
    ELSE Max({cur[s], Min({end[s], NextOffset})})

HistoryOf(s) == [i \in 1..(LastRead(s) - cur[s]) |-> Record(cur[s] + i - 1)]

\* Slip: the stream starts where the log ended when the history was asked for.
ReadHistoryToEnd(s) ==
    /\ pc[s] = "history"
    /\ got' = [got EXCEPT ![s] = @ \o HistoryOf(s)]
    /\ cur' = [cur EXCEPT ![s] = Max({@, end[s]})]
    /\ Goto(s, "check")
    /\ waker' = [waker EXCEPT ![s] = "armed"]
    /\ UNCHANGED <<logVars, end, msg, out, ctxDone>>

\* The history goes to the consumer before the handler turns to the channel.
ReadHistory(s) ==
    /\ pc[s] = "history"
    /\ got' = [got EXCEPT ![s] = @ \o HistoryOf(s)]
    /\ cur' = [cur EXCEPT ![s] = LastRead(s)]
    /\ Goto(s, "check")
    /\ waker' = [waker EXCEPT ![s] = "armed"]
    /\ UNCHANGED <<logVars, end, msg, out, ctxDone>>

-----------------------------------------------------------------------------
(* getStream.                                                              *)

\* Slip: the contexts are watched and nobody is woken.
WakeNobody(s) ==
    /\ waker[s] = "armed"
    /\ ctxDone[s] \/ state = "deleted"
    /\ waker' = [waker EXCEPT ![s] = "none"]
    /\ UNCHANGED <<logVars, pc, cur, end, msg, out, got, ctxDone>>

\* One Broadcast when the consumer's or the partition's context ends.
Wake(s) ==
    /\ waker[s] = "armed"
    /\ ctxDone[s] \/ state = "deleted"
    /\ waker' = [waker EXCEPT ![s] = "none"]
    /\ pc' = Broadcast(pc)
    /\ UNCHANGED <<logVars, cur, end, msg, out, got, ctxDone>>

Check(s) ==
    /\ pc[s] = "check"
    /\ Goto(s, IF ctxDone[s] \/ state = "deleted" THEN "ended" ELSE "look")
    /\ UNCHANGED <<logVars, cur, end, msg, out, got, ctxDone, waker>>

\* Slip: the contexts are looked at only before the lock.
SleepAtOnce(s) ==
    /\ pc[s] = "look"
    /\ cur[s] >= NextOffset
    /\ Goto(s, "asleep")
    /\ UNCHANGED <<logVars, cur, end, msg, out, got, ctxDone, waker>>

\* At the end of the log: only the consumer's context is looked at.
Sleep(s) ==
    /\ pc[s] = "look"
    /\ cur[s] >= NextOffset
    /\ Goto(s, IF ctxDone[s] THEN "ended" ELSE "asleep")
    /\ UNCHANGED <<logVars, cur, end, msg, out, got, ctxDone, waker>>

\* Slip: a deleted offset is waited for.
StayBehind(s) ==
    /\ pc[s] = "look"
    /\ cur[s] < NextOffset
    /\ cur[s] < baseOffset
    /\ Goto(s, "check")
    /\ UNCHANGED <<logVars, cur, end, msg, out, got, ctxDone, waker>>

\* Retention has deleted the segment.
SkipDeleted(s) ==
    /\ pc[s] = "look"
    /\ cur[s] < NextOffset
    /\ cur[s] < baseOffset
    /\ cur' = [cur EXCEPT ![s] = baseOffset]
    /\ Goto(s, "check")
    /\ UNCHANGED <<logVars, end, msg, out, got, ctxDone, waker>>

\* From a deleted partition the read fails, and is tried again.
ReadRecord(s) ==
    /\ pc[s] = "look"
    /\ cur[s] < NextOffset
    /\ cur[s] >= baseOffset
    /\ IF state = "deleted"
       THEN Goto(s, "check") /\ UNCHANGED msg
       ELSE Goto(s, "send") /\ msg' = [msg EXCEPT ![s] = <<Record(cur[s])>>]
    /\ UNCHANGED <<logVars, cur, end, out, got, ctxDone, waker>>

Send(s) ==
    /\ pc[s] = "send"
    /\ Len(out[s]) < ChannelSize
    /\ out' = [out EXCEPT ![s] = @ \o msg[s]]
    /\ msg' = [msg EXCEPT ![s] = <<>>]
    /\ cur' = [cur EXCEPT ![s] = @ + 1]
    /\ Goto(s, "check")
    /\ UNCHANGED <<logVars, end, got, ctxDone, waker>>

SendEnds(s) ==
    /\ pc[s] = "send"
    /\ ctxDone[s] \/ state = "deleted"
    /\ msg' = [msg EXCEPT ![s] = <<>>]
    /\ Goto(s, "ended")
    /\ UNCHANGED <<logVars, cur, end, out, got, ctxDone, waker>>

\* consumerHandler passes a record on.
Receive(s) ==
    /\ ~ctxDone[s]
    /\ out[s] # <<>>
    /\ got' = [got EXCEPT ![s] = Append(@, Head(out[s]))]
    /\ out' = [out EXCEPT ![s] = Tail(@)]
    /\ UNCHANGED <<logVars, pc, cur, end, msg, ctxDone, waker>>

\* The connection ends.
Cancel(s) ==
    /\ pc[s] # "idle"
    /\ ~ctxDone[s]
    /\ ctxDone' = [ctxDone EXCEPT ![s] = TRUE]
    /\ UNCHANGED <<logVars, pc, cur, end, msg, out, got, waker>>

-----------------------------------------------------------------------------
LogStep ==
    \/ AppendLocked \/ InvalidateOffset \/ CleanOldMessages
    \/ MarkStopping \/ StopAndRemove

StreamStep(s) ==
    \/ ReadFromBegins(s) \/ ReadHistory(s) \/ Check(s) \/ Sleep(s)
    \/ SkipDeleted(s) \/ ReadRecord(s) \/ Send(s) \/ SendEnds(s)

Next ==
    \/ LogStep
    \/ \E s \in Stream :
          ReadMessages(s) \/ StreamStep(s) \/ Wake(s) \/ Receive(s) \/ Cancel(s)

Spec == Init /\ [][Next]_vars

\* Goroutines run; the consumer reads from its connection, and a deletion that
\* has begun is finished.  Nothing appends, cancels or deletes.
Fairness == /\ WF_vars(StopAndRemove)
            /\ \A s \in Stream : /\ WF_vars(StreamStep(s))
                                 /\ WF_vars(Wake(s))
                                 /\ WF_vars(Receive(s))

FairSpec == Spec /\ Fairness

-----------------------------------------------------------------------------
(* Properties.                                                             *)

TypeOK ==
    /\ log \in Seq(1..MaxAppends)
    /\ baseOffset \in 0..NextOffset
    /\ state \in {"active", "stopping", "deleted"}
    /\ pc \in [Stream -> {"idle", "start", "refused", "history", "check", "look",
                          "asleep", "send", "ended"}]
    /\ cur \in [Stream -> 0..MaxAppends]
    /\ end \in [Stream -> 0..MaxAppends]
    /\ \A s \in Stream : /\ Len(msg[s]) = (IF pc[s] = "send" THEN 1 ELSE 0)
                         /\ Len(out[s]) <= ChannelSize
    /\ ctxDone \in [Stream -> BOOLEAN]
    /\ waker \in [Stream -> {"none", "armed"}]

\* A stream whose consumer reads never sleeps on a record it has not sent: it
\* catches up with the log again and again, or it ends.
StreamCatchesUp ==
    \A s \in Stream :
        pc[s] = "check" ~> \/ cur[s] >= NextOffset /\ out[s] = <<>>
                           \/ pc[s] = "ended" \/ ctxDone[s]

\* A stream whose consumer is gone ends, also one that sleeps or whose channel
\* is full; unless its partition is being deleted.
CancelledStreamEnds ==
    \A s \in Stream :
        ctxDone[s] ~> pc[s] \in {"refused", "ended"} \/ state # "active"

-----------------------------------------------------------------------------
(* What the code's comments say of it, and the code does not do.           *)

\* getStream: when a request is cancelled all waiting streams are woken and
\* look at their contexts; so the cancelled one ends.
WokenWhenCancelled ==
    \A s \in Stream : ctxDone[s] ~> pc[s] \in {"refused", "ended"}

\* InvalidateOffset: a stream that has read the record rolled back sleeps until
\* the real record with that offset appears; so it sends that record too.
RealRecordIsSent ==
    \A s \in Stream :
        pc[s] = "asleep" /\ ~ctxDone[s] /\ out[s] = <<>> =>
            \A i \in 1..Len(got[s]) :
                got[s][i].off < NextOffset =>
                    \E j \in 1..Len(got[s]) : got[s][j] = Record(got[s][i].off)

=============================================================================
