------------------------------ MODULE Exchange ------------------------------
(***************************************************************************)
(* The exchange (src/Exchange.cpp): the thread that starts and stops it,   *)
(* and its four threads with the queues between them.  The network thread  *)
(* and the session manager are an instance of ZmqServer.  Of a request     *)
(* the matching thread handles, only the pushes it makes matter here, in   *)
(* the order of MatchingEngine's handlers; the feed handler                *)
(* (src/FeedHandler.cpp) and the dummy generator's thread are reduced to   *)
(* their queue operations.                                                 *)
(*                                                                         *)
(* The loops of the matching and the feed thread,                          *)
(*    while (running_) { while (pop) handle; }  while (pop) handle;        *)
(* are a step per pop, and a last step that needs running_ to be false and *)
(* the queue to be empty: while the thread lives, running_ does not become *)
(* true again, so it does not matter which of the two loops a pop is in.   *)
(***************************************************************************)
EXTENDS Naturals, Sequences

CONSTANTS
  Identity, NoClient, DUMMY_SESSION_ID, MaxSessions, InboundBound, OutboundBound,
  FeedBound,        \* items the feed queue holds
  EnableDummyGenerator, \* enableDummyGenerator: there is a generator
  OrdersPerSecond,  \* its rate; 0 for a thread that returns at once
  MaxStarts         \* bound: calls of start; main.cpp makes one

ASSUME ExchangeAssumption ==
  /\ NoClient \notin Identity
  /\ MaxSessions \in Nat
  /\ DUMMY_SESSION_ID \notin 1 .. MaxSessions
  /\ InboundBound \in Nat /\ OutboundBound \in Nat /\ FeedBound \in Nat
  /\ EnableDummyGenerator \in BOOLEAN /\ OrdersPerSecond \in Nat
  /\ MaxStarts \in Nat

VARIABLES
  zmqRunning, zmqThread, context, identityToSession, sessionToIdentity, sessions,
  identityOfManager, nextSessionId, inbound, outbound, accepted,
  exRunning,         \* Exchange::running_
  shutdownRequested,
  main,              \* what the owner's thread is doing
  left,              \* components it still has to start or to stop
  starts,            \* calls of start so far
  running,           \* running_ of the feed handler, the engine and the generator
  thread,            \* and where their threads are
  multicastOpen,     \* socketFd_ of the feed handler's UdpMulticast
  feed,              \* number of messages in the feed queue
  todo,              \* pushes the handler of the current request has yet to make
  resting,           \* owners of orders in the book, as messages
  gone               \* clients that have disconnected for good

netVars == <<zmqRunning, zmqThread, context, identityToSession, sessionToIdentity,
             sessions, identityOfManager, nextSessionId, inbound, outbound, accepted>>
mainVars == <<exRunning, shutdownRequested, main, left, starts>>
componentVars == <<running, thread, multicastOpen>>
engineVars == <<feed, todo, resting>>
vars == <<netVars, mainVars, componentVars, engineVars, gone>>

Net == INSTANCE ZmqServer WITH running <- zmqRunning, thread <- zmqThread

\* The components besides the ZeroMQ server.
Component == {"feed", "engine", "dummy"}

Init ==
  /\ Net!Init
  /\ exRunning = FALSE
  /\ shutdownRequested = FALSE
  /\ main = "idle"
  /\ left = <<>>
  /\ starts = 0
  /\ running = [k \in Component |-> FALSE]
  /\ thread = [k \in Component |-> "none"]
  /\ multicastOpen = FALSE
  /\ feed = 0
  /\ todo = <<>>
  /\ resting = {}
  /\ gone = {}

----------------------------------------------------------------------------
(* Exchange::start *)

StartSequence ==
  IF EnableDummyGenerator THEN <<"feed", "engine", "zmq", "dummy">>
  ELSE <<"feed", "engine", "zmq">>

BeginStart ==
  /\ main = "idle" /\ starts < MaxStarts
  /\ exRunning' = TRUE
  /\ shutdownRequested' = FALSE
  /\ main' = "starting"
  /\ left' = StartSequence
  /\ starts' = starts + 1
  /\ UNCHANGED <<netVars, componentVars, engineVars, gone>>

Starting(k) == main = "starting" /\ left # <<>> /\ Head(left) = k

\* The next component, or waitForShutdown when all are up.
Started ==
  /\ left' = Tail(left)
  /\ main' = IF left' = <<>> THEN "waiting" ELSE "starting"
  /\ UNCHANGED <<exRunning, shutdownRequested, starts>>

Launch(k) ==
  /\ running' = [running EXCEPT ![k] = TRUE]
  /\ thread' = [thread EXCEPT ![k] = "work"]

StartFeed ==
  /\ Starting("feed")
  /\ Launch("feed")
  /\ multicastOpen' = TRUE
  /\ Started
  /\ UNCHANGED <<netVars, engineVars, gone>>

\* No socket, or no TTL for it: nothing has been started yet.
StartFeedFails ==
  /\ Starting("feed")
  /\ exRunning' = FALSE
  /\ main' = "idle"
  /\ left' = <<>>
  /\ UNCHANGED <<netVars, shutdownRequested, starts, componentVars, engineVars, gone>>

StartEngine ==
  /\ Starting("engine")
  /\ Launch("engine")
  /\ Started
  /\ UNCHANGED <<netVars, multicastOpen, engineVars, gone>>

StartDummy ==
  /\ Starting("dummy")
  /\ Launch("dummy")
  /\ Started
  /\ UNCHANGED <<netVars, multicastOpen, engineVars, gone>>

StartZmq ==
  /\ Starting("zmq")
  /\ Net!Start
  /\ Started
  /\ UNCHANGED <<componentVars, engineVars, gone>>

\* Mutant: the feed handler is forgotten.
UnwindSequenceEngineOnly == <<"engine">>

\* What a failing start of the server takes down again.
UnwindSequence == <<"engine", "feed">>

StartZmqFails ==
  /\ Starting("zmq")
  /\ Net!StartFails
  /\ main' = "stopping"
  /\ left' = UnwindSequence
  /\ UNCHANGED <<exRunning, shutdownRequested, starts, componentVars, engineVars, gone>>

----------------------------------------------------------------------------
(* Exchange::waitForShutdown and Exchange::stop *)

Signal ==
  /\ starts > 0 /\ ~shutdownRequested
  /\ shutdownRequested' = TRUE
  /\ UNCHANGED <<netVars, exRunning, main, left, starts, componentVars, engineVars, gone>>

\* Mutant: the generator, which keeps the engine busy, is stopped last.
StopSequenceDummyLast == <<"zmq", "engine", "feed", "dummy">>

\* Mutant: the feed handler is stopped before the engine.
StopSequenceFeedFirst == <<"dummy", "zmq", "feed", "engine">>

StopSequence ==
  IF EnableDummyGenerator THEN <<"dummy", "zmq", "engine", "feed">>
  ELSE <<"zmq", "engine", "feed">>

BeginStop ==
  /\ main = "waiting" /\ shutdownRequested
  /\ exRunning' = FALSE
  /\ main' = "stopping"
  /\ left' = StopSequence
  /\ UNCHANGED <<netVars, shutdownRequested, starts, componentVars, engineVars, gone>>

Stopping(k) == main = "stopping" /\ left # <<>> /\ Head(left) = k

\* The next component; a start that failed reports so only when it has taken
\* everything down.
Stopped ==
  /\ left' = Tail(left)
  /\ main' = IF left' = <<>> THEN "idle" ELSE "stopping"
  /\ exRunning' = IF left' = <<>> THEN FALSE ELSE exRunning
  /\ UNCHANGED <<shutdownRequested, starts>>

\* Mutant: the socket is shut down before the thread is joined.
StopBeginShutdown(k) ==
  /\ Stopping(k) /\ running[k]
  /\ running' = [running EXCEPT ![k] = FALSE]
  /\ multicastOpen' = (multicastOpen /\ k # "feed")
  /\ UNCHANGED <<netVars, mainVars, thread, engineVars, gone>>

StopBegin(k) ==
  /\ Stopping(k) /\ running[k]
  /\ running' = [running EXCEPT ![k] = FALSE]
  /\ UNCHANGED <<netVars, mainVars, thread, multicastOpen, engineVars, gone>>

\* The thread is joined; the feed handler then shuts its socket down.
StopEnd(k) ==
  /\ Stopping(k) /\ ~running[k] /\ thread[k] = "ended"
  /\ thread' = [thread EXCEPT ![k] = "none"]
  /\ multicastOpen' = (multicastOpen /\ k # "feed")
  /\ Stopped
  /\ UNCHANGED <<netVars, running, engineVars, gone>>

StopZmqBegin ==
  /\ Stopping("zmq")
  /\ Net!StopBegin
  /\ UNCHANGED <<mainVars, componentVars, engineVars, gone>>

StopZmqEnd ==
  /\ Stopping("zmq")
  /\ Net!StopEnd
  /\ Stopped
  /\ UNCHANGED <<componentVars, engineVars, gone>>

Main ==
  \/ StartFeed \/ StartFeedFails \/ StartEngine \/ StartDummy
  \/ StartZmq \/ StartZmqFails
  \/ BeginStop \/ StopZmqBegin \/ StopZmqEnd
  \/ \E k \in Component : StopBegin(k) \/ StopEnd(k)

----------------------------------------------------------------------------
(* The clients and the network thread *)

\* The server is not told: handleClientDisconnect is called by nobody.
Disconnect(c) ==
  /\ c \in DOMAIN identityToSession /\ c \notin gone
  /\ gone' = gone \cup {c}
  /\ UNCHANGED <<netVars, mainVars, componentVars, engineVars>>

NetworkThread ==
  /\ \/ Net!EventLoop
     \/ \E c \in Identity \ gone, wellFormed \in BOOLEAN :
          Net!ProcessIncoming(c, wellFormed)
     \/ Net!NoIncoming
     \/ Net!ProcessOutbound
     \/ Net!OutboundEmpty
  /\ UNCHANGED <<mainVars, componentVars, engineVars, gone>>

----------------------------------------------------------------------------
(* The matching thread *)

Respond(m) == [queue |-> "outbound", message |-> m]
Publish == [queue |-> "feed"]

\* The pushes of a handler, with what it does to the book: a request is
\* rejected; it is acknowledged, the orders of its session in the book change,
\* and a tick follows; or it trades with an order that rests, is reported to
\* both owners, acknowledged, and a tick follows.
Handle(m) ==
  \/ /\ todo' = <<Respond(m)>>
     /\ UNCHANGED resting
  \/ /\ todo' = <<Respond(m), Publish>>
     /\ resting' \in {resting, resting \cup {m}, resting \ {m}}
  \/ \E passive \in resting :
       /\ todo' = <<Publish, Respond(m), Respond(passive), Respond(m), Publish>>
       /\ resting' \in {resting, resting \ {passive}}

EngineTake ==
  /\ thread["engine"] = "work" /\ todo = <<>>
  /\ Net!EngineTake
  /\ Handle(Head(inbound))
  /\ UNCHANGED <<mainVars, componentVars, feed, gone>>

\* A response or market data for a full queue is lost: the handlers ignore the
\* result of push.
EngineRespond ==
  /\ todo # <<>> /\ Head(todo).queue = "outbound"
  /\ Net!EngineRespond(Head(todo).message)
  /\ todo' = Tail(todo)
  /\ UNCHANGED <<mainVars, componentVars, feed, resting, gone>>

\* Mutant: the queue takes one message more than it has room for.
EnginePublishOverfull ==
  /\ todo # <<>> /\ Head(todo).queue = "feed"
  /\ feed' = IF feed <= FeedBound THEN feed + 1 ELSE feed
  /\ todo' = Tail(todo)
  /\ UNCHANGED <<netVars, mainVars, componentVars, resting, gone>>

EnginePublish ==
  /\ todo # <<>> /\ Head(todo).queue = "feed"
  /\ feed' = IF feed < FeedBound THEN feed + 1 ELSE feed
  /\ todo' = Tail(todo)
  /\ UNCHANGED <<netVars, mainVars, componentVars, resting, gone>>

EngineEnds ==
  /\ thread["engine"] = "work" /\ todo = <<>> /\ ~running["engine"] /\ inbound = <<>>
  /\ thread' = [thread EXCEPT !["engine"] = "ended"]
  /\ UNCHANGED <<netVars, mainVars, running, multicastOpen, engineVars, gone>>

MatchingThread == EngineTake \/ EngineRespond \/ EnginePublish \/ EngineEnds

----------------------------------------------------------------------------
(* The feed thread and the generator's thread *)

FeedPublish ==
  /\ thread["feed"] = "work" /\ feed > 0
  /\ feed' = feed - 1
  /\ UNCHANGED <<netVars, mainVars, componentVars, todo, resting, gone>>

FeedEnds ==
  /\ thread["feed"] = "work" /\ feed = 0 /\ ~running["feed"]
  /\ thread' = [thread EXCEPT !["feed"] = "ended"]
  /\ UNCHANGED <<netVars, mainVars, running, multicastOpen, engineVars, gone>>

FeedThread == FeedPublish \/ FeedEnds

\* An order, dropped when the inbound queue is full.
DummyOrder ==
  /\ thread["dummy"] = "work" /\ running["dummy"] /\ OrdersPerSecond > 0
  /\ Net!DummyPush
  /\ UNCHANGED <<mainVars, componentVars, engineVars, gone>>

\* When it finds running_ false; without a rate, before it looks.
DummyEnds ==
  /\ thread["dummy"] = "work"
  /\ OrdersPerSecond > 0 => ~running["dummy"]
  /\ thread' = [thread EXCEPT !["dummy"] = "ended"]
  /\ UNCHANGED <<netVars, mainVars, running, multicastOpen, engineVars, gone>>

DummyThread == DummyOrder \/ DummyEnds

Next ==
  \/ BeginStart \/ Main \/ Signal
  \/ \E c \in Identity : Disconnect(c)
  \/ NetworkThread \/ MatchingThread \/ FeedThread \/ DummyThread

Spec == Init /\ [][Next]_vars

\* Every thread is scheduled.  Nothing makes anybody call start, send a
\* request or a signal.
Fairness ==
  /\ WF_vars(Main) /\ WF_vars(NetworkThread) /\ WF_vars(MatchingThread)
  /\ WF_vars(FeedThread) /\ WF_vars(DummyThread)

FairSpec == Spec /\ Fairness
----------------------------------------------------------------------------
(* Properties *)

\* Every variable has its type.
TypeOK ==
  /\ Net!TypeOK
  /\ exRunning \in BOOLEAN /\ shutdownRequested \in BOOLEAN
  /\ main \in {"idle", "starting", "waiting", "stopping"}
  /\ left \in Seq(Component \cup {"zmq"})
  /\ starts \in 0 .. MaxStarts
  /\ running \in [Component -> BOOLEAN]
  /\ thread \in [Component -> {"none", "work", "ended"}]
  /\ multicastOpen \in BOOLEAN
  /\ feed \in 0 .. FeedBound
  /\ \A i \in DOMAIN todo :
       todo[i] \in {Publish} \cup {Respond(m) : m \in accepted}
  /\ resting \subseteq accepted
  /\ gone \subseteq Identity

\* When start has failed or stop has returned, no thread runs, and no socket
\* is open but one of a failed start.
NothingLeftRunning ==
  main = "idle" =>
    /\ ~exRunning /\ ~zmqRunning /\ zmqThread = "none" /\ context # "open"
    /\ \A k \in Component : ~running[k] /\ thread[k] = "none"
    /\ ~multicastOpen

\* stop loses no request and no market data that was in a queue: when nothing
\* runs, the inbound and the feed queue have been drained, and no handler was
\* cut short.
Drained == main = "idle" => inbound = <<>> /\ feed = 0 /\ todo = <<>>

\* A thread never finds the socket it uses closed.
SocketsOutliveThreads ==
  /\ zmqThread \in {"top", "incoming", "outbound"} => context = "open"
  /\ thread["feed"] = "work" => multicastOpen

\* Every start comes to an end, and after a signal the exchange is stopped in
\* the end, whatever clients and the generator go on sending; unless start hangs
\* on what a failed one left.
StartAndStopReturn ==
  /\ main = "starting" /\ context # "left" ~> main # "starting"
  /\ shutdownRequested /\ main # "idle" /\ context # "left" ~> main = "idle"

\* include/Exchange.h:102: the components are stopped in an order that ensures
\* message draining, so that no response either is left in its queue when
\* nothing runs.  The network thread ends without looking at the queue again.
ResponsesDrained == main = "idle" => outbound = <<>>

\* include/MatchingEngine.h:45: what a handler has to tell a client is sent to
\* the outbound queue.  The queue may be full, and nobody looks whether it was.
ResponsesSent ==
  [][todo # <<>> /\ Head(todo).queue = "outbound" /\ todo' = Tail(todo) =>
       Len(outbound') = Len(outbound) + 1]_vars

\* README.md:38: orders are cancelled automatically on disconnect, while the
\* exchange goes on running.
OrdersCancelledOnDisconnect ==
  \A c \in Identity :
    c \in gone ~> main # "waiting" \/ \A m \in resting : m.client # c
=============================================================================
