--------------------------- MODULE AnswerPromise ---------------------------
(***************************************************************************)
(* What the clients of the TCP server are promised of their requests, over *)
(* two history variables.  Connections is what keeps it.                   *)
(***************************************************************************)

VARIABLES
    ran,        \* history: requests run on a connection they were not sent on
    answers     \* history: requests answered on such a connection

\* A connection runs the command that was sent on it, if any: not one an earlier
\* connection has left in the buffer it gets from the pool.
RunsWhatWasSent == ran = {}

\* A client is given answers to its own request: no two handlers lay out their
\* messages in one buffer.
AnswersItsOwn == answers = {}
=============================================================================
