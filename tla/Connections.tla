---------------------------- MODULE Connections -----------------------------
(***************************************************************************)
(* A broker and its clients: the TCP server with its pool of buffers, the  *)
(* event streams of the HTTP server, each of two goroutines on one writer, *)
(* the command-line client that waits for the answers, and the shutdown of *)
(* the process.                                                            *)
(*                                                                         *)
(* One partition, read from its beginning.  A request stands for its own   *)
(* content, and is known by the connection it was sent on.  That a record  *)
(* is stored before the answer is the business of PartitionReplication.    *)
(***************************************************************************)
EXTENDS AnswerPromise, Naturals, Sequences, FiniteSets

CONSTANTS
    Connections,   \* TCP connections, each for one request, in the order they come
    Web,           \* GET /consume streams
    MaxRecords,    \* bound: records of the partition
    MaxOpened,     \* bound: connections and streams opened
    MaxTurns       \* bound: times a client stops reading, or reads again

Conn == 1..Connections
Nobody == 0

ASSUME ConnectionsAssumption == /\ Connections \in Nat /\ Conn \cap Web = {}
                                /\ MaxRecords \in Nat /\ MaxOpened \in Nat
                                /\ MaxTurns \in Nat

\* A connection holds one buffer, so there are never more of them.
Buffer == Conn

\* produce; consume; consume --follow; the topic command of old clients.
Kind == {"produce", "consume", "follow", "topic"}

\* What reaches the server of the request: all of it; nothing; a part of the
\* header; the header without the body; a header that announces no body; one
\* beyond MaxBodySize.
Sends == {"all", "nothing", "part", "header", "empty", "big"}

\* The steps of main after the signal, in their order.
Phase == <<"up", "stopping", "web", "broker", "exited">>

VARIABLES
    phase,      \* where main is
    listening,  \* TRUE: ReadLoop accepts
    records,    \* how many records the partition holds
    conn,       \* handleConnection, of each connection
    pool,       \* reqbodyPool: the buffers in it
    buffer,     \* whose header, body and reply each buffer holds
    web,        \* the stream writer of each stream, its heartbeat and its lock
    peer,       \* the other end of each connection and stream
    outcome,    \* what the client of each connection has been told
    budget      \* openings and turns of clients that may still happen

bufferVars == <<pool, buffer>>
clientVars == <<outcome, answers>>
vars == <<phase, listening, records, conn, bufferVars, web, peer,
          clientVars, ran, budget>>

Fresh == [head |-> Nobody, body |-> Nobody, reply |-> [to |-> Nobody, says |-> "nothing"]]

\* "reset": one write after the peer has gone is lost, and later ones fail.
Peer == {"off", "there", "stalled", "gone", "reset"}

Idle == [pc |-> "off", kind |-> "produce", sends |-> "all", buf |-> Nobody,
         of |-> Nobody, next |-> 0]
Quiet == [pc |-> "off", beat |-> "off", lock |-> "free", cancelled |-> FALSE,
          live |-> FALSE, next |-> 0]

Init ==
    /\ phase = 1
    /\ listening = TRUE
    /\ records = 0
    /\ conn = [c \in Conn |-> Idle]
    /\ pool = {}
    /\ buffer = [b \in Buffer |-> Fresh]
    /\ web = [w \in Web |-> Quiet]
    /\ peer = [x \in Conn \cup Web |-> "off"]
    /\ outcome = [c \in Conn |-> "none"]
    /\ ran = {}
    /\ answers = {}
    /\ budget = [open |-> MaxOpened, turn |-> MaxTurns]

Spend(kind) == /\ budget[kind] > 0
               /\ budget' = [budget EXCEPT ![kind] = @ - 1]

Now(label) == Phase[phase] = label
Running == ~Now("exited")

\* rootCancel: the contexts of the broker and of the TCP commands are done.
Cancelled == phase > 1

-----------------------------------------------------------------------------
(* The clients.                                                            *)

Waiting(c) == outcome[c] = "waiting"

\* What the client makes of a connection that closes, if it still waits: to
\* consume, the range has no messages.
OnClose(c) == IF ~Waiting(c) THEN outcome[c]
              ELSE CASE conn[c].kind = "consume" -> "nothing"
                     [] conn[c].kind = "follow"  -> "ended"
                     [] OTHER                    -> "error"

Connect(c) ==
    \E k \in Kind, s \in Sends :
        /\ conn[c].pc = "off" /\ Running
        /\ \A d \in 1..c - 1 : conn[d].pc # "off"
        /\ k = "produce" \/ s = "all"
        /\ Spend("open")
        /\ conn' = [conn EXCEPT ![c] = [Idle EXCEPT !.pc = "queued", !.kind = k, !.sends = s]]
        /\ LET stays == s \in {"all", "empty", "big"} IN
             /\ peer' = [peer EXCEPT ![c] = IF stays THEN "there" ELSE "gone"]
             /\ outcome' = [outcome EXCEPT ![c] = IF stays THEN "waiting" ELSE "none"]
        /\ UNCHANGED <<phase, listening, records, bufferVars, web, answers, ran>>

Connected(x) == IF x \in Conn THEN conn[x].pc # "closed" ELSE web[x].pc # "done"

\* A client reads at once, or stops reading for a while, or goes.
Stalls(x) ==
    /\ Running /\ Connected(x)
    /\ Spend("turn")
    /\ \/ peer[x] = "there" /\ peer' = [peer EXCEPT ![x] = "stalled"]
       \/ peer[x] = "stalled" /\ peer' = [peer EXCEPT ![x] = "there"]
    /\ UNCHANGED <<phase, listening, records, conn, bufferVars, web,
                   clientVars, ran>>

Leaves(x) ==
    /\ Running /\ Connected(x)
    /\ peer[x] \in {"there", "stalled"}
    /\ peer' = [peer EXCEPT ![x] = "gone"]
    /\ outcome' = [c \in Conn |-> IF c = x THEN "none" ELSE outcome[c]]
    /\ UNCHANGED <<phase, listening, records, conn, bufferVars, web, answers,
                   ran, budget>>

\* A write to x blocks while the client does not read.
CanWrite(x) == peer[x] # "stalled"
Fails(x) == peer[x] = "reset"
Written(x) == peer' = [peer EXCEPT ![x] = IF @ = "gone" THEN "reset" ELSE @]

-----------------------------------------------------------------------------
(* TCPServer.                                                              *)

At(c, label) == conn[c].pc = label /\ Running

Goes(c, label) == conn' = [conn EXCEPT ![c].pc = label]

Pooled(b) == b \in pool
Unused(b) == ~Pooled(b) /\ \A d \in Conn : conn[d].buf # b

\* ReadLoop; the buffer is one of the pool, or a new one.
Accept(c) ==
    /\ At(c, "queued")
    /\ listening
    /\ \E b \in Buffer :
         /\ Pooled(b) \/ (Unused(b) /\ \A d \in 1..b - 1 : ~Unused(d))
         /\ pool' = pool \ {b}
         /\ buffer' = IF Pooled(b) THEN buffer ELSE [buffer EXCEPT ![b] = Fresh]
         /\ conn' = [conn EXCEPT ![c].pc = "header", ![c].buf = b]
    /\ UNCHANGED <<phase, listening, records, web, peer, clientVars, ran, budget>>

\* An error of Accept ends the loop.
AcceptFails ==
    /\ listening /\ Running
    /\ listening' = FALSE
    /\ UNCHANGED <<phase, records, conn, bufferVars, web, peer, clientVars, ran, budget>>

\* Slip: the connection stays open.
LeftOpen(c) == outcome

\* conn.Close, which the client sees.
Closes(c) == [outcome EXCEPT ![c] = OnClose(c)]

\* The handler of a command ends: its buffer goes to the pool.
Ends(c) ==
    /\ conn' = [conn EXCEPT ![c] = [Idle EXCEPT !.pc = "closed"]]
    /\ pool' = pool \cup {conn[c].buf}
    /\ UNCHANGED buffer

Close(c) == Ends(c) /\ outcome' = Closes(c)

\* The handler ends before there is a command: it writes the error as text,
\* which is no frame for the client, and drops the buffer.
Refuse(c) ==
    /\ conn' = [conn EXCEPT ![c] = [Idle EXCEPT !.pc = "closed"]]
    /\ outcome' = [outcome EXCEPT ![c] = IF Waiting(c) THEN "error" ELSE @]
    /\ UNCHANGED bufferVars

\* An end of file before the first byte is let pass: the server goes on with the
\* header that is in the buffer.
ReadHeader(c) ==
    /\ At(c, "header")
    /\ LET b == conn[c].buf
           stale == conn[c].sends = "nothing"
       IN \/ /\ conn[c].sends = "part" \/ (stale /\ buffer[b].head = Nobody)
             /\ Refuse(c)
          \/ /\ stale /\ buffer[b].head # Nobody
             /\ Goes(c, "body")
             /\ UNCHANGED <<bufferVars, outcome>>
          \/ /\ conn[c].sends \notin {"part", "nothing"}
             /\ buffer' = [buffer EXCEPT ![b].head = c]
             /\ Goes(c, "body")
             /\ UNCHANGED <<pool, outcome>>
    /\ UNCHANGED <<phase, listening, records, web, peer, answers, ran, budget>>

\* A message without a body is no command and no error: the connection is
\* closed, and the buffer dropped.
HangUp(c) ==
    /\ conn' = [conn EXCEPT ![c] = [Idle EXCEPT !.pc = "closed"]]
    /\ outcome' = Closes(c)
    /\ UNCHANGED bufferVars

\* Slip: the error of the second ReadFull is dropped.
Whatever(c) == conn[c].sends \notin {"empty", "big"}

\* The body fits and arrives.
Arrives(c) == conn[c].sends = "all"

ReadBody(c) ==
    /\ At(c, "body")
    /\ \/ /\ Arrives(c)
          /\ buffer' = IF conn[c].sends = "all"
                       THEN [buffer EXCEPT ![conn[c].buf].body = c] ELSE buffer
          /\ Goes(c, "command")
          /\ UNCHANGED <<pool, outcome>>
       \/ ~Arrives(c) /\ conn[c].sends # "empty" /\ Refuse(c)
       \/ conn[c].sends = "empty" /\ HangUp(c)
    /\ UNCHANGED <<phase, listening, records, web, peer, answers, ran, budget>>

-----------------------------------------------------------------------------
(* Broker.HandleCommand, on whatever request the buffer holds.             *)

\* Slip: the buffer goes to the pool once the body is decoded.
GivenBack(c) == {conn[c].buf}

\* The handler keeps its buffer.
GivenEarly(c) == {}

Command(c) ==
    LET request == buffer[conn[c].buf].body IN
      /\ At(c, "command")
      /\ request # Nobody
      /\ ran' = ran \cup ({request} \ {c})
      /\ conn' = [conn EXCEPT ![c].pc = conn[request].kind, ![c].of = request]
      /\ pool' = pool \cup GivenEarly(c)
      /\ UNCHANGED <<phase, listening, records, buffer, web, peer, clientVars, budget>>

\* Respond: the message is laid out in the buffer, and then written.
Respond(c, says, next) ==
    /\ conn' = [conn EXCEPT ![c].pc = "write", ![c].next = next]
    /\ buffer' = [buffer EXCEPT ![conn[c].buf].reply = [to |-> conn[c].of, says |-> says]]
    /\ UNCHANGED <<pool, outcome>>

\* A node that does not lead refuses; SendMessage may fail, before the record is
\* in the log or after.
Produce(c) ==
    /\ At(c, "produce")
    /\ \/ Respond(c, "answered", 0) /\ UNCHANGED records
       \/ records < MaxRecords /\ records' = records + 1 /\ Respond(c, "answered", 0)
       \/ records < MaxRecords /\ records' = records + 1 /\ Close(c)
       \/ UNCHANGED records /\ Close(c)
    /\ UNCHANGED <<phase, listening, web, peer, answers, ran, budget>>

Topic(c) ==
    /\ At(c, "topic")
    /\ Respond(c, "answered", 0)
    /\ UNCHANGED <<phase, listening, records, web, peer, answers, ran, budget>>

\* A replica that is not in sync refuses.  There is no answer if there are no
\* records, and none if reading fails or there are more than a frame holds.
Consume(c) ==
    /\ At(c, "consume")
    /\ \/ Respond(c, "answered", 0)
       \/ records > 0 /\ Respond(c, "answered", records)
       \/ Close(c)
    /\ UNCHANGED <<phase, listening, records, web, peer, answers, ran, budget>>

\* The same, and then live.
Follow(c) ==
    /\ At(c, "follow")
    /\ \/ Respond(c, "answered", 0)
       \/ records > 0 /\ Respond(c, "streams", records)
       \/ records = 0 /\ Goes(c, "stream") /\ UNCHANGED <<bufferVars, outcome>>
       \/ Close(c)
    /\ UNCHANGED <<phase, listening, records, web, peer, answers, ran, budget>>

\* The select of consumerHandler.
Stream(c) ==
    /\ At(c, "stream")
    /\ \/ conn[c].next < records /\ Respond(c, "streams", conn[c].next + 1)
       \/ Cancelled /\ Close(c)
    /\ UNCHANGED <<phase, listening, records, web, peer, answers, ran, budget>>

\* TCPContext.Write; the client takes the first frame, or with follow each.
Write(c) ==
    LET reply == buffer[conn[c].buf].reply IN
      /\ At(c, "write")
      /\ CanWrite(c)
      /\ Written(c)
      /\ answers' = IF Fails(c) THEN answers ELSE answers \cup ({reply.to} \ {c})
      /\ \/ /\ reply.says = "streams" /\ ~Fails(c)
            /\ Goes(c, "stream")
            /\ outcome' = [outcome EXCEPT ![c] = IF Waiting(c) THEN "streams" ELSE @]
            /\ UNCHANGED bufferVars
         \/ /\ reply.says # "streams" \/ Fails(c)
            /\ Ends(c)
            /\ outcome' = [outcome EXCEPT ![c] = IF Waiting(c) THEN reply.says ELSE @]
      /\ UNCHANGED <<phase, listening, records, web, ran, budget>>

-----------------------------------------------------------------------------
(* HttpServer.consumeHandler: the stream writer and its heartbeat.         *)

StreamAt(w, label) == web[w].pc = label /\ Running

Others == UNCHANGED <<phase, listening, records, conn, bufferVars, clientVars,
                      ran, budget>>

WebOpens(w) ==
    /\ StreamAt(w, "off")
    /\ \A n \in 1..phase : Phase[n] # "web"
    /\ \E live \in BOOLEAN :
         web' = [web EXCEPT ![w] = [Quiet EXCEPT !.pc = "consume", !.beat = "sleep",
                                                 !.live = live]]
    /\ peer' = [peer EXCEPT ![w] = "there"]
    /\ Spend("open")
    /\ UNCHANGED <<phase, listening, records, conn, bufferVars, clientVars, ran>>

\* consumerHandler up to the select: refused, an error, or what there is.
WebConsumes(w) ==
    /\ StreamAt(w, "consume")
    /\ \/ web' = [web EXCEPT ![w].pc = "write", ![w].live = FALSE]
       \/ web' = [web EXCEPT ![w].pc = "error"]
       \/ /\ records > 0
          /\ web' = [web EXCEPT ![w].pc = "write", ![w].next = records]
       \/ /\ records = 0
          /\ web' = [web EXCEPT ![w].pc = IF web[w].live THEN "stream" ELSE "end"]
    /\ UNCHANGED peer /\ Others

\* The select.
WebStreams(w) ==
    /\ StreamAt(w, "stream")
    /\ \/ /\ web[w].next < records
          /\ web' = [web EXCEPT ![w].pc = "write", ![w].next = @ + 1]
       \/ /\ web[w].cancelled \/ Cancelled
          /\ web' = [web EXCEPT ![w].pc = "end"]
    /\ UNCHANGED peer /\ Others

\* The mutex of sseResponder.
WebLocks(w) ==
    /\ StreamAt(w, "write") \/ StreamAt(w, "error")
    /\ web[w].lock = "free"
    /\ web' = [web EXCEPT ![w].lock = "stream"]
    /\ UNCHANGED peer /\ Others

\* writeEvent; a message that cannot be written cancels the stream, and an event
\* of the error is tried as well.
WebWrites(w) ==
    /\ Running
    /\ web[w].lock = "stream" /\ CanWrite(w)
    /\ web' = [web EXCEPT ![w].lock = "free",
                          ![w].cancelled = @ \/ Fails(w),
                          ![w].pc = IF @ = "error" THEN "end"
                                    ELSE IF Fails(w) THEN "error"
                                    ELSE IF web[w].live THEN "stream" ELSE "end"]
    /\ Written(w)
    /\ Others

WebEnds(w) ==
    /\ StreamAt(w, "end")
    /\ web' = [web EXCEPT ![w].pc = "wait", ![w].cancelled = TRUE]
    /\ UNCHANGED peer /\ Others

\* Slip: the handler does not wait for the heartbeat.
ReturnsAtOnce(w) == TRUE

\* heartbeatDone is closed.
BeatIsOver(w) == web[w].beat = "done"

WebReturns(w) ==
    /\ StreamAt(w, "wait") /\ BeatIsOver(w)
    /\ web' = [web EXCEPT ![w].pc = "done"]
    /\ UNCHANGED peer /\ Others

\* The ticker, or the context.
BeatWakes(w) ==
    /\ Running
    /\ web[w].beat = "sleep"
    /\ \/ web' = [web EXCEPT ![w].beat = "tick"]
       \/ web[w].cancelled /\ web' = [web EXCEPT ![w].beat = "done"]
    /\ UNCHANGED peer /\ Others

BeatLocks(w) ==
    /\ Running
    /\ web[w].beat = "tick" /\ web[w].lock = "free"
    /\ web' = [web EXCEPT ![w].beat = "write", ![w].lock = "beat"]
    /\ UNCHANGED peer /\ Others

\* Slip: the failed heartbeat only ends itself.
OnlyEnds(w) == web[w].cancelled

CancelsStream(w) == web[w].cancelled \/ Fails(w)

\* writeHeartbeat.
BeatWrites(w) ==
    /\ Running
    /\ web[w].lock = "beat" /\ CanWrite(w)
    /\ web' = [web EXCEPT ![w].lock = "free", ![w].cancelled = CancelsStream(w),
                          ![w].beat = IF Fails(w) THEN "done" ELSE "sleep"]
    /\ Written(w)
    /\ Others

-----------------------------------------------------------------------------
(* main: the signal, and the steps of the shutdown.                        *)

MainOnly == UNCHANGED <<listening, records, conn, bufferVars, web, peer, answers, ran, budget>>

Advances == phase' = phase + 1 /\ UNCHANGED outcome /\ MainOnly

\* rootCancel.
Signalled == Now("up") /\ Advances

\* The graceful stops of the replication and of the control server, and Close of
\* the coordinator, come to an end: they have no limit of time.
ServersStop == Now("stopping") /\ Advances

\* The streams of the web server are over, or out of time.
WebStops == Now("web") /\ Advances

\* Broker.Shutdown waits for a group nobody joins; main returns, and the process
\* ends with all that it still does.
BrokerStops ==
    /\ Now("broker")
    /\ phase' = phase + 1
    /\ outcome' = [c \in Conn |-> OnClose(c)]
    /\ MainOnly

-----------------------------------------------------------------------------
Main == ServersStop \/ WebStops \/ BrokerStops

Handler(c) ==
    \/ Accept(c) \/ ReadHeader(c) \/ ReadBody(c) \/ Command(c)
    \/ Produce(c) \/ Topic(c) \/ Consume(c) \/ Follow(c)
    \/ Stream(c) \/ Write(c)

Streaming(w) == \/ WebConsumes(w) \/ WebStreams(w) \/ WebLocks(w) \/ WebWrites(w)
                \/ WebEnds(w) \/ WebReturns(w)

Heartbeat(w) == BeatWakes(w) \/ BeatLocks(w) \/ BeatWrites(w)

Over == ~Running /\ UNCHANGED vars

Next ==
    \/ \E c \in Conn : Connect(c) \/ Handler(c)
    \/ \E x \in Conn \cup Web : Stalls(x) \/ Leaves(x)
    \/ \E w \in Web : WebOpens(w) \/ Streaming(w) \/ Heartbeat(w)
    \/ AcceptFails \/ Signalled \/ Main \/ Over

Spec == Init /\ [][Next]_vars

\* Goroutines that can run do, and the ticker ticks; no client has to read or to
\* leave, no signal has to come, and no shutdown to end.
FairSpec ==
    /\ Spec
    /\ \A c \in Conn : WF_vars(Handler(c))
    /\ \A w \in Web : WF_vars(Streaming(w)) /\ WF_vars(Heartbeat(w))

-----------------------------------------------------------------------------
(* Properties.                                                             *)

ConnState == {"off", "queued", "header", "body", "command", "produce", "topic",
              "consume", "follow", "stream", "write", "closed"}

TypeOK ==
    /\ phase \in 1..Len(Phase)
    /\ listening \in BOOLEAN
    /\ records \in 0..MaxRecords
    /\ conn \in [Conn -> [pc : ConnState, kind : Kind, sends : Sends,
                          buf : Buffer \cup {Nobody}, of : Conn \cup {Nobody},
                          next : 0..MaxRecords]]
    /\ pool \subseteq Buffer
    /\ buffer \in [Buffer -> [head : Conn \cup {Nobody}, body : Conn \cup {Nobody},
                              reply : [to : Conn \cup {Nobody},
                                       says : {"nothing", "answered", "streams"}]]]
    /\ web \in [Web -> [pc : {"off", "consume", "write", "error", "stream", "end",
                              "wait", "done"},
                        beat : {"off", "sleep", "tick", "write", "done"},
                        lock : {"free", "stream", "beat"},
                        cancelled : BOOLEAN, live : BOOLEAN, next : 0..MaxRecords]]
    /\ peer \in [Conn \cup Web -> Peer]
    /\ outcome \in [Conn -> {"none", "waiting", "nothing", "ended", "error",
                             "answered", "streams"}]
    /\ ran \subseteq Conn
    /\ answers \subseteq Conn
    /\ budget \in [open : 0..MaxOpened, turn : 0..MaxTurns]

\* The two goroutines of an event stream end together: neither is over, or waits
\* for the other to be, without having cancelled it; a lock that is taken is held
\* by one that writes; and nothing writes once the handler has returned.
StreamsEndTogether ==
    \A w \in Web :
        /\ web[w].beat = "done" \/ web[w].pc \in {"wait", "done"} => web[w].cancelled
        /\ web[w].lock = "beat" <=> web[w].beat = "write"
        /\ web[w].lock = "stream" => web[w].pc \in {"write", "error"}
        /\ web[w].pc = "done" => web[w].beat = "done" /\ web[w].lock = "free"

\* A client that waits has a connection that is queued or has a handler, of a
\* process that runs: every way to end a handler tells the client something.
WaitsOnlyIfServed ==
    \A c \in Conn : Waiting(c) => Running /\ conn[c].pc \notin {"off", "closed"}

\* The handler of an event stream whose client has gone comes to its end,
\* whatever its two goroutines were at, and with no record or shutdown to help.
AbandonedStreamEnds ==
    \A w \in Web : peer[w] \in {"gone", "reset"} ~> (web[w].pc = "done" \/ ~Running)

\* A client of the command line does not wait for ever on a connection that has
\* been accepted, unless it follows, or has stopped reading.
ClientHears ==
    \A c \in Conn :
        (conn[c].pc = "header" /\ conn[c].kind # "follow" /\ Waiting(c))
            ~> (~Waiting(c) \/ peer[c] = "stalled")

-----------------------------------------------------------------------------
(* What the code's comments and messages say, and the code does not do.    *)

\* Shutdown: "wait until all background goroutines (clients, workers) have
\* finished", and then the state is flushed.
ClientsAreDone ==
    Now("exited") => \A c \in Conn : conn[c].pc \in {"off", "queued", "closed"}

\* "no messages in requested range", where there were messages.
NothingMeansNone ==
    [][\A c \in Conn : outcome[c] = "waiting" /\ outcome'[c] = "nothing"
                           => records = 0]_vars
=============================================================================
