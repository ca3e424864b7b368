--------------------------- MODULE ExchangeProofs ---------------------------
(***************************************************************************)
(* For every number of clients, sessions, queue slots and starts: the      *)
(* exchange uses the network server as its specification allows, so that   *)
(* what is proved of the server holds in it; every variable keeps its      *)
(* type; and what start and stop promise about threads, sockets and queues *)
(* holds.                                                                  *)
(***************************************************************************)
EXTENDS Exchange, SequenceTheorems, TLAPS

\* What the owner may have left to do.
Phase ==
  \/ main \in {"idle", "waiting"} /\ left = <<>>
  \/ /\ main = "starting"
     /\ left \in IF EnableDummyGenerator
                THEN {<<"feed", "engine", "zmq", "dummy">>, <<"engine", "zmq", "dummy">>,
                      <<"zmq", "dummy">>, <<"dummy">>}
                ELSE {<<"feed", "engine", "zmq">>, <<"engine", "zmq">>, <<"zmq">>}
  \/ /\ main = "stopping"
     /\ \/ left \in {<<"zmq", "engine", "feed">>, <<"engine", "feed">>, <<"feed">>}
        \/ EnableDummyGenerator /\ left = <<"dummy", "zmq", "engine", "feed">>

\* The components that are up, those that are down, and the one in between that
\* stop has to do with.
Up(k) ==
  /\ k = "dummy" => EnableDummyGenerator
  /\ \/ main = "waiting"
     \/ main = "starting" /\ \A i \in DOMAIN left : left[i] # k
     \/ main = "stopping" /\ Head(left) # k /\ \E i \in DOMAIN left : left[i] = k

InStop(k) == main = "stopping" /\ Head(left) = k

Down(k) == ~Up(k) /\ ~InStop(k)

Threads ==
  \A k \in Component :
    /\ Up(k) => running[k] /\ thread[k] # "none"
    /\ InStop(k) => thread[k] # "none"
    /\ running[k] /\ k # "dummy" => thread[k] = "work"
    /\ Down(k) => ~running[k] /\ thread[k] = "none"

Server ==
  /\ ~Down("zmq") => zmqThread # "none" /\ context = "open"
  /\ Up("zmq") => zmqRunning
  /\ zmqRunning => zmqThread # "ended"
  /\ Down("zmq") => ~zmqRunning /\ zmqThread = "none" /\ context # "open"

\* A thread that has left its loops has left nothing in its queue.
Quiet ==
  /\ thread["engine"] # "work" => inbound = <<>> /\ todo = <<>>
  /\ thread["feed"] # "work" => feed = 0

Lifecycle ==
  /\ running \in [Component -> BOOLEAN]
  /\ thread \in [Component -> {"none", "work", "ended"}]
  /\ zmqRunning \in BOOLEAN /\ multicastOpen \in BOOLEAN /\ feed \in Nat
  /\ Phase
  /\ main = "idle" => ~exRunning
  /\ Threads
  /\ Server
  /\ multicastOpen <=> ~Down("feed")
  /\ Quiet

----------------------------------------------------------------------------
(* The network server in the exchange *)

LEMMA ServerStep == [Next]_vars => [Net!Next]_(Net!vars)
<1> SUFFICES ASSUME [Next]_vars PROVE [Net!Next]_(Net!vars)
  OBVIOUS
<1> USE DEF Net!vars, Net!mapVars, Net!queueVars, netVars
<1>1. CASE UNCHANGED vars
  BY <1>1 DEF vars
<1>2. CASE BeginStart \/ Signal \/ \E c \in Identity : Disconnect(c)
  BY <1>2 DEF BeginStart, Signal, Disconnect
<1>3. CASE Main
  <2>1. CASE StartZmq
    BY <2>1 DEF StartZmq, Net!Next
  <2>2. CASE StartZmqFails
    BY <2>2 DEF StartZmqFails, Net!Next
  <2>3. CASE StopZmqBegin
    BY <2>3 DEF StopZmqBegin, Net!Next
  <2>4. CASE StopZmqEnd
    BY <2>4 DEF StopZmqEnd, Net!Next
  <2>5. CASE StartFeed \/ StartFeedFails \/ StartEngine \/ StartDummy \/ BeginStop
    BY <2>5 DEF StartFeed, StartFeedFails, StartEngine, StartDummy, BeginStop
  <2>6. CASE \E k \in Component : StopBegin(k) \/ StopEnd(k)
    BY <2>6 DEF StopBegin, StopEnd
  <2> QED BY <1>3, <2>1, <2>2, <2>3, <2>4, <2>5, <2>6 DEF Main
<1>4. CASE NetworkThread
  BY <1>4 DEF NetworkThread, Net!NetworkThread, Net!Next
<1>5. CASE MatchingThread
  <2>1. CASE EngineTake
    BY <2>1 DEF EngineTake, Net!Next
  <2>2. CASE EngineRespond
    <3>1. Net!EngineRespond(Head(todo).message)
      BY <2>2 DEF EngineRespond
    <3>2. Head(todo).message \in accepted
      BY <3>1 DEF Net!EngineRespond
    <3> QED BY <3>1, <3>2 DEF Net!Next
  <2>3. CASE EnginePublish \/ EngineEnds
    BY <2>3 DEF EnginePublish, EngineEnds
  <2> QED BY <1>5, <2>1, <2>2, <2>3 DEF MatchingThread
<1>6. CASE FeedThread
  BY <1>6 DEF FeedThread, FeedPublish, FeedEnds
<1>7. CASE DummyThread
  BY <1>7 DEF DummyThread, DummyOrder, DummyEnds, Net!Next
<1> QED BY <1>1, <1>2, <1>3, <1>4, <1>5, <1>6, <1>7 DEF Next

\* In every step of the exchange the network thread, the session manager and
\* the queues do what ZmqServer allows, or nothing: how the exchange is put
\* together from it.
LEMMA UsesServer == Spec => Net!Spec
<1>1. Init => Net!Init
  BY DEF Init
<1> QED BY <1>1, ServerStep, PTL DEF Spec, Net!Spec

----------------------------------------------------------------------------
(* What the owner's steps mean for the components *)

All == {"feed", "engine", "zmq", "dummy"}

\* Heads, tails and members of what may be left to do.
LEMMA Sequences ==
  /\ Head(<<"feed", "engine", "zmq", "dummy">>) = "feed"
  /\ Head(<<"engine", "zmq", "dummy">>) = "engine"
  /\ Head(<<"zmq", "dummy">>) = "zmq"
  /\ Head(<<"dummy">>) = "dummy"
  /\ Head(<<"feed", "engine", "zmq">>) = "feed"
  /\ Head(<<"engine", "zmq">>) = "engine"
  /\ Head(<<"zmq">>) = "zmq"
  /\ Head(<<"dummy", "zmq", "engine", "feed">>) = "dummy"
  /\ Head(<<"zmq", "engine", "feed">>) = "zmq"
  /\ Head(<<"engine", "feed">>) = "engine"
  /\ Head(<<"feed">>) = "feed"
  /\ Tail(<<"feed", "engine", "zmq", "dummy">>) = <<"engine", "zmq", "dummy">>
  /\ Tail(<<"engine", "zmq", "dummy">>) = <<"zmq", "dummy">>
  /\ Tail(<<"zmq", "dummy">>) = <<"dummy">>
  /\ Tail(<<"dummy">>) = <<>>
  /\ Tail(<<"feed", "engine", "zmq">>) = <<"engine", "zmq">>
  /\ Tail(<<"engine", "zmq">>) = <<"zmq">>
  /\ Tail(<<"zmq">>) = <<>>
  /\ Tail(<<"dummy", "zmq", "engine", "feed">>) = <<"zmq", "engine", "feed">>
  /\ Tail(<<"zmq", "engine", "feed">>) = <<"engine", "feed">>
  /\ Tail(<<"engine", "feed">>) = <<"feed">>
  /\ Tail(<<"feed">>) = <<>>
OBVIOUS

\* What is up at each point of start and stop.
LEMMA UpTable ==
  ASSUME NEW k \in All, Phase
  PROVE  /\ main = "idle" => Down(k)
         /\ main = "waiting" => (Up(k) <=> (k = "dummy" => EnableDummyGenerator)) /\ ~InStop(k)
         /\ main = "starting" =>
              /\ ~InStop(k)
              /\ Head(left) = "feed" => Down(k)
              /\ Head(left) = "engine" => (Up(k) <=> k = "feed")
              /\ Head(left) = "zmq" => (Up(k) <=> k \in {"feed", "engine"})
              /\ Head(left) = "dummy" => (Up(k) <=> k # "dummy")
         /\ main = "stopping" =>
              /\ Head(left) = "dummy" => (Up(k) <=> k # "dummy") /\ (InStop(k) <=> k = "dummy")
              /\ Head(left) = "zmq" =>
                   (Up(k) <=> k \in {"engine", "feed"}) /\ (InStop(k) <=> k = "zmq")
              /\ Head(left) = "engine" => (Up(k) <=> k = "feed") /\ (InStop(k) <=> k = "engine")
              /\ Head(left) = "feed" => ~Up(k) /\ (InStop(k) <=> k = "feed")
<1>1. CASE main \in {"idle", "waiting"}
  BY <1>1 DEF Up, InStop, Down
<1>2. CASE main = "starting"
  BY <1>2, Sequences DEF All, Phase, Up, InStop, Down
<1>3. CASE main = "stopping"
  BY <1>3, Sequences DEF All, Phase, Up, InStop, Down
<1> QED BY <1>1, <1>2, <1>3 DEF Phase

LEMMA SameWork ==
  ASSUME UNCHANGED <<main, left>>, NEW k
  PROVE  (Up(k)' <=> Up(k)) /\ (InStop(k)' <=> InStop(k)) /\ (Phase' <=> Phase)
BY DEF Up, InStop, Phase

\* start has brought one more component up.
LEMMA StartedStep ==
  ASSUME Phase, NEW j \in All, Starting(j), Started, NEW k \in All
  PROVE  /\ Phase' /\ main' # "idle"
         /\ ~InStop(k) /\ ~InStop(k)'
         /\ Down(j)
         /\ Up(k)' <=> Up(k) \/ k = j
<1>1. /\ main = "starting" /\ Head(left) = j /\ left' = Tail(left)
      /\ main' = IF left' = <<>> THEN "waiting" ELSE "starting"
  BY DEF Starting, Started
<1>2. CASE left = <<"feed", "engine", "zmq", "dummy">>
  BY <1>1, <1>2, Sequences DEF All, Phase, Up, InStop, Down
<1>3. CASE left = <<"engine", "zmq", "dummy">>
  BY <1>1, <1>3, Sequences DEF All, Phase, Up, InStop, Down
<1>4. CASE left = <<"zmq", "dummy">>
  BY <1>1, <1>4, Sequences DEF All, Phase, Up, InStop, Down
<1>5. CASE left = <<"dummy">>
  BY <1>1, <1>5, Sequences DEF All, Phase, Up, InStop, Down
<1>6. CASE left = <<"feed", "engine", "zmq">>
  BY <1>1, <1>6, Sequences DEF All, Phase, Up, InStop, Down
<1>7. CASE left = <<"engine", "zmq">>
  BY <1>1, <1>7, Sequences DEF All, Phase, Up, InStop, Down
<1>8. CASE left = <<"zmq">>
  BY <1>1, <1>8, Sequences DEF All, Phase, Up, InStop, Down
<1> QED BY <1>1, <1>2, <1>3, <1>4, <1>5, <1>6, <1>7, <1>8 DEF Phase

\* stop has taken one more component down, and turns to the next.
LEMMA StoppedStep ==
  ASSUME Phase, NEW j \in All, Stopping(j), Stopped, NEW k \in All
  PROVE  /\ Phase'
         /\ main' = "idle" => ~exRunning'
         /\ InStop(j) /\ ~Up(j) /\ (InStop(k) => k = j)
         /\ Up(k)' \/ InStop(k)' <=> Up(k)
<1>1. /\ main = "stopping" /\ Head(left) = j /\ left' = Tail(left)
      /\ main' = IF left' = <<>> THEN "idle" ELSE "stopping"
      /\ exRunning' = IF left' = <<>> THEN FALSE ELSE exRunning
  BY DEF Stopping, Stopped
<1>2. CASE left = <<"dummy", "zmq", "engine", "feed">>
  BY <1>1, <1>2, Sequences DEF All, Phase, Up, InStop, Down
<1>3. CASE left = <<"zmq", "engine", "feed">>
  BY <1>1, <1>3, Sequences DEF All, Phase, Up, InStop, Down
<1>4. CASE left = <<"engine", "feed">>
  BY <1>1, <1>4, Sequences DEF All, Phase, Up, InStop, Down
<1>5. CASE left = <<"feed">>
  BY <1>1, <1>5, Sequences DEF All, Phase, Up, InStop, Down
<1> QED BY <1>1, <1>2, <1>3, <1>4, <1>5 DEF Phase

\* Once the matching thread has ended, nothing is left that pushes requests, and
\* once the feed thread has ended, the matching thread is gone.
LEMMA StopOrder ==
  ASSUME Lifecycle
  PROVE  /\ thread["engine"] # "work" => zmqThread = "none" /\ thread["dummy"] = "none"
         /\ thread["feed"] # "work" => thread["engine"] = "none"
<1>1. Phase /\ Threads /\ Server
  BY DEF Lifecycle
<1>2. CASE thread["engine"] # "work"
  <2>1. ~Up("engine")
    BY <1>1, <1>2 DEF Threads, Component
  <2>2. Down("zmq") /\ Down("dummy")
    BY <1>1, <2>1, UpTable DEF Phase, All, Down
  <2> QED BY <1>1, <1>2, <2>2 DEF Threads, Server, Component
<1>3. CASE thread["feed"] # "work"
  <2>1. ~Up("feed")
    BY <1>1, <1>3 DEF Threads, Component
  <2>2. Down("engine")
    BY <1>1, <2>1, UpTable DEF Phase, All, Down
  <2> QED BY <1>1, <1>3, <2>2 DEF Threads, Component
<1> QED BY <1>2, <1>3

----------------------------------------------------------------------------
(* The inductive invariant *)

LEMMA LifecycleInit == Init => Lifecycle
<1> SUFFICES ASSUME Init PROVE Lifecycle
  OBVIOUS
<1>1. \A k : Down(k)
  BY DEF Init, Up, InStop, Down
<1>2. zmqRunning = FALSE /\ zmqThread = "none" /\ context = "none" /\ inbound = <<>>
  BY DEF Init, Net!Init
<1> QED
  BY <1>1, <1>2 DEF Init, Lifecycle, Phase, Threads, Server, Quiet, Component, Down

\* Steps of the owner that start a component or give up.
LEMMA StartSteps ==
  ASSUME Lifecycle,
         BeginStart \/ StartFeed \/ StartFeedFails \/ StartEngine \/ StartDummy
           \/ StartZmq \/ StartZmqFails
  PROVE  Lifecycle'
<1> USE DEF Lifecycle, Component, All
<1>1. CASE BeginStart
  <2>1. \A k \in All : Down(k)
    BY <1>1, UpTable DEF BeginStart
  <2>2. Phase' /\ \A k \in All : Down(k)'
    BY <1>1, Sequences DEF BeginStart, StartSequence, Phase, Up, InStop, Down
  <2> QED
    BY <1>1, <2>1, <2>2
    DEF BeginStart, Threads, Server, Quiet, netVars, componentVars, engineVars, Down
<1>2. CASE StartFeed
  <2>1. Starting("feed") /\ Started
    BY <1>2 DEF StartFeed
  <2>2. Phase' /\ main' # "idle" /\ Down("feed")
    BY <2>1, StartedStep
  <2>3. \A k \in All : ~InStop(k) /\ ~InStop(k)' /\ (Up(k)' <=> Up(k) \/ k = "feed")
    BY <2>1, StartedStep
  <2> QED
    BY <1>2, <2>2, <2>3
    DEF StartFeed, Launch, Threads, Server, Quiet, netVars, engineVars, Down
<1>3. CASE StartFeedFails
  <2>1. \A k \in All : Down(k)
    BY <1>3, UpTable, Sequences DEF StartFeedFails, Starting, Phase
  <2>2. Phase' /\ \A k \in All : Down(k)'
    BY <1>3 DEF StartFeedFails, Phase, Up, InStop, Down
  <2> QED
    BY <1>3, <2>1, <2>2
    DEF StartFeedFails, Threads, Server, Quiet, netVars, componentVars, engineVars, Down
<1>4. CASE StartEngine
  <2>1. Starting("engine") /\ Started
    BY <1>4 DEF StartEngine
  <2>2. Phase' /\ main' # "idle" /\ Down("engine")
    BY <2>1, StartedStep
  <2>3. \A k \in All : ~InStop(k) /\ ~InStop(k)' /\ (Up(k)' <=> Up(k) \/ k = "engine")
    BY <2>1, StartedStep
  <2> QED
    BY <1>4, <2>2, <2>3
    DEF StartEngine, Launch, Threads, Server, Quiet, netVars, engineVars, Down
<1>5. CASE StartDummy
  <2>1. Starting("dummy") /\ Started
    BY <1>5 DEF StartDummy
  <2>2. Phase' /\ main' # "idle" /\ Down("dummy")
    BY <2>1, StartedStep
  <2>3. \A k \in All : ~InStop(k) /\ ~InStop(k)' /\ (Up(k)' <=> Up(k) \/ k = "dummy")
    BY <2>1, StartedStep
  <2> QED
    BY <1>5, <2>2, <2>3
    DEF StartDummy, Launch, Threads, Server, Quiet, netVars, engineVars, Down
<1>6. CASE StartZmq
  <2>1. Starting("zmq") /\ Started
    BY <1>6 DEF StartZmq
  <2>2. Phase' /\ main' # "idle" /\ Down("zmq")
    BY <2>1, StartedStep
  <2>3. \A k \in All : ~InStop(k) /\ ~InStop(k)' /\ (Up(k)' <=> Up(k) \/ k = "zmq")
    BY <2>1, StartedStep
  <2>4. /\ zmqRunning' = TRUE /\ zmqThread' = "top" /\ context' = "open"
        /\ UNCHANGED <<inbound, componentVars, engineVars>>
    BY <1>6 DEF StartZmq, Net!Start, Net!queueVars
  <2> QED
    BY <2>2, <2>3, <2>4 DEF Threads, Server, Quiet, componentVars, engineVars, Down
<1>7. CASE StartZmqFails
  <2>1. Head(left) = "zmq" /\ main = "starting"
    BY <1>7 DEF StartZmqFails, Starting
  <2>2. \A k \in All : (Up(k) <=> k \in {"feed", "engine"}) /\ ~InStop(k)
    BY <2>1, UpTable
  <2>3. main' = "stopping" /\ left' = <<"engine", "feed">>
    BY <1>7 DEF StartZmqFails, UnwindSequence
  <2>4. Phase' /\ \A k \in All : (Up(k)' <=> k = "feed") /\ (InStop(k)' <=> k = "engine")
    BY <2>3, Sequences DEF Phase, Up, InStop
  <2>5. /\ UNCHANGED <<zmqRunning, zmqThread, inbound, componentVars, engineVars>>
        /\ context' \in {"none", "left"}
    BY <1>7 DEF StartZmqFails, Net!StartFails, Net!queueVars
  <2> QED
    BY <2>2, <2>3, <2>4, <2>5 DEF Threads, Server, Quiet, componentVars, engineVars, Down
<1> QED BY <1>1, <1>2, <1>3, <1>4, <1>5, <1>6, <1>7

\* Steps of the owner that stop a component.
LEMMA StopSteps ==
  ASSUME Lifecycle,
         BeginStop \/ StopZmqBegin \/ StopZmqEnd
           \/ \E k \in Component : StopBegin(k) \/ StopEnd(k)
  PROVE  Lifecycle'
<1> USE DEF Lifecycle, Component, All
<1>1. CASE BeginStop
  <2>1. \A k \in All : ~InStop(k) /\ (Up(k) <=> (k = "dummy" => EnableDummyGenerator))
    BY <1>1, UpTable DEF BeginStop
  <2>2. main' = "stopping" /\ left' = StopSequence
    BY <1>1 DEF BeginStop
  <2>3. Phase' /\ \A k \in All : Up(k)' \/ InStop(k)' <=> Up(k)
    BY <2>1, <2>2, Sequences DEF StopSequence, Phase, Up, InStop
  <2>4. UNCHANGED <<zmqRunning, zmqThread, context, inbound, running, thread, multicastOpen,
                    feed, todo>>
    BY <1>1 DEF BeginStop, netVars, componentVars, engineVars
  <2> QED
    BY <2>1, <2>2, <2>3, <2>4 DEF Threads, Server, Quiet, Down
<1>2. CASE StopZmqBegin
  <2>1. InStop("zmq") /\ ~Up("zmq")
    BY <1>2 DEF StopZmqBegin, Stopping, InStop, Up
  <2>2. \A k : (Up(k)' <=> Up(k)) /\ (InStop(k)' <=> InStop(k)) /\ Phase'
    BY <1>2, SameWork DEF StopZmqBegin, mainVars
  <2>3. /\ zmqRunning' = FALSE
        /\ UNCHANGED <<zmqThread, context, inbound, mainVars, componentVars, engineVars>>
    BY <1>2 DEF StopZmqBegin, Net!StopBegin, Net!queueVars
  <2> QED
    BY <2>1, <2>2, <2>3
    DEF Threads, Server, Quiet, mainVars, componentVars, engineVars, Down
<1>3. CASE StopZmqEnd
  <2>1. Stopping("zmq") /\ Stopped
    BY <1>3 DEF StopZmqEnd
  <2>2. /\ Phase' /\ (main' = "idle" => ~exRunning')
        /\ InStop("zmq") /\ ~Up("zmq")
    BY <2>1, StoppedStep
  <2>3. \A k \in All : (InStop(k) => k = "zmq") /\ (Up(k)' \/ InStop(k)' <=> Up(k))
    BY <2>1, StoppedStep
  <2>4. /\ zmqRunning = FALSE /\ zmqThread' = "none" /\ context' = "none"
        /\ UNCHANGED <<zmqRunning, inbound, componentVars, engineVars>>
    BY <1>3 DEF StopZmqEnd, Net!StopEnd, Net!queueVars
  <2> QED
    BY <2>2, <2>3, <2>4 DEF Threads, Server, Quiet, componentVars, engineVars, Down
<1>4. ASSUME NEW k \in Component, StopBegin(k)
      PROVE  Lifecycle'
  <2>1. InStop(k) /\ ~Up(k)
    BY <1>4 DEF StopBegin, Stopping, InStop, Up
  <2>2. \A j : (Up(j)' <=> Up(j)) /\ (InStop(j)' <=> InStop(j)) /\ Phase'
    BY <1>4, SameWork DEF StopBegin, mainVars
  <2>3. /\ running' = [running EXCEPT ![k] = FALSE]
        /\ UNCHANGED <<netVars, mainVars, thread, multicastOpen, engineVars>>
    BY <1>4 DEF StopBegin
  <2> QED
    BY <2>1, <2>2, <2>3
    DEF Threads, Server, Quiet, netVars, mainVars, engineVars, Down
<1>5. ASSUME NEW k \in Component, StopEnd(k)
      PROVE  Lifecycle'
  <2>1. Stopping(k) /\ Stopped
    BY <1>5 DEF StopEnd
  <2>2. /\ Phase' /\ (main' = "idle" => ~exRunning')
        /\ InStop(k) /\ ~Up(k)
    BY <2>1, StoppedStep
  <2>3. \A j \in All : (InStop(j) => j = k) /\ (Up(j)' \/ InStop(j)' <=> Up(j))
    BY <2>1, StoppedStep
  <2>4. /\ ~running[k] /\ thread[k] = "ended"
        /\ thread' = [thread EXCEPT ![k] = "none"]
        /\ multicastOpen' = (multicastOpen /\ k # "feed")
        /\ UNCHANGED <<netVars, running, engineVars>>
    BY <1>5 DEF StopEnd
  <2>5. Threads'
    BY <2>2, <2>3, <2>4 DEF Threads, Down
  <2>6. Server'
    BY <2>2, <2>3, <2>4 DEF Server, Down, netVars
  <2>7. Quiet'
    BY <2>4 DEF Quiet, netVars, engineVars
  <2>8. multicastOpen' <=> ~Down("feed")'
    BY <2>2, <2>3, <2>4 DEF Down
  <2> QED
    BY <2>2, <2>4, <2>5, <2>6, <2>7, <2>8 DEF netVars, engineVars
<1> QED BY <1>1, <1>2, <1>3, <1>4, <1>5

\* Steps of the four threads, and of the world outside.
LEMMA ThreadSteps ==
  ASSUME Lifecycle,
         \/ NetworkThread \/ MatchingThread \/ FeedThread \/ DummyThread
         \/ Signal \/ \E c \in Identity : Disconnect(c)
         \/ UNCHANGED vars
  PROVE  Lifecycle'
<1> USE DEF Lifecycle, Component
<1>1. UNCHANGED <<exRunning, main, left, running, multicastOpen>>
  BY DEF NetworkThread, MatchingThread, FeedThread, DummyThread, Signal, Disconnect, vars,
         EngineTake, EngineRespond, EnginePublish, EngineEnds, FeedPublish, FeedEnds,
         DummyOrder, DummyEnds, mainVars, componentVars
<1>2. \A k : (Up(k)' <=> Up(k)) /\ (InStop(k)' <=> InStop(k)) /\ Phase'
  BY <1>1, SameWork
<1>3. CASE NetworkThread
  <2>1. UNCHANGED <<thread, feed, todo, zmqRunning, context>>
    BY <1>3 DEF NetworkThread, componentVars, engineVars, Net!EventLoop, Net!ProcessIncoming,
                Net!NoIncoming, Net!ProcessOutbound, Net!OutboundEmpty
  <2>2. /\ zmqThread # "none" /\ zmqThread' # "none"
        /\ zmqThread' = "ended" => ~zmqRunning
    BY <1>3 DEF NetworkThread, Net!EventLoop, Net!ProcessIncoming, Net!NoIncoming,
                Net!ProcessOutbound, Net!OutboundEmpty, Server
  <2>3. thread["engine"] = "work"
    BY <2>2, StopOrder
  <2> QED
    BY <1>1, <1>2, <2>1, <2>2, <2>3 DEF Threads, Server, Quiet, Down
<1>4. CASE MatchingThread
  <2>1. UNCHANGED <<zmqRunning, zmqThread, context>>
    BY <1>4 DEF MatchingThread, EngineTake, EngineRespond, EnginePublish, EngineEnds,
                Net!EngineTake, Net!EngineRespond, netVars
  <2>2. thread["engine"] = "work"
    BY <1>4 DEF MatchingThread, EngineTake, EngineRespond, EnginePublish, EngineEnds, Quiet
  <2>3. thread["feed"] = "work"
    BY <2>2, StopOrder
  <2>4. CASE EngineEnds
    BY <1>1, <1>2, <2>1, <2>2, <2>4
    DEF EngineEnds, Threads, Server, Quiet, Down, engineVars, netVars
  <2>5. CASE EngineTake \/ EngineRespond \/ EnginePublish
    <3>1. UNCHANGED thread /\ feed' \in Nat
      BY <2>5, ExchangeAssumption
      DEF EngineTake, EngineRespond, EnginePublish, componentVars
    <3> QED
      BY <1>1, <1>2, <2>1, <2>2, <2>3, <3>1 DEF Threads, Server, Quiet, Down
  <2> QED BY <1>4, <2>4, <2>5 DEF MatchingThread
<1>5. CASE FeedThread
  <2>1. CASE FeedPublish
    <3>1. UNCHANGED <<netVars, thread, todo>> /\ feed' \in Nat /\ thread["feed"] = "work"
      BY <2>1 DEF FeedPublish, componentVars
    <3> QED
      BY <1>1, <1>2, <3>1 DEF Threads, Server, Quiet, Down, netVars
  <2>2. CASE FeedEnds
    BY <1>1, <1>2, <2>2 DEF FeedEnds, Threads, Server, Quiet, Down, engineVars, netVars
  <2> QED BY <1>5, <2>1, <2>2 DEF FeedThread
<1>6. CASE DummyThread
  <2>1. CASE DummyOrder
    <3>1. /\ UNCHANGED <<zmqRunning, zmqThread, context, thread, feed, todo>>
          /\ thread["dummy"] = "work"
      BY <2>1 DEF DummyOrder, Net!DummyPush, componentVars, engineVars
    <3>2. thread["engine"] = "work"
      BY <3>1, StopOrder
    <3> QED
      BY <1>1, <1>2, <3>1, <3>2 DEF Threads, Server, Quiet, Down
  <2>2. CASE DummyEnds
    BY <1>1, <1>2, <2>2 DEF DummyEnds, Threads, Server, Quiet, Down, engineVars, netVars
  <2> QED BY <1>6, <2>1, <2>2 DEF DummyThread
<1>7. CASE Signal \/ (\E c \in Identity : Disconnect(c)) \/ UNCHANGED vars
  <2>1. UNCHANGED <<netVars, thread, feed, todo>>
    BY <1>7 DEF Signal, Disconnect, vars, componentVars, engineVars
  <2> QED
    BY <1>1, <1>2, <2>1 DEF Threads, Server, Quiet, Down, netVars
<1> QED BY <1>3, <1>4, <1>5, <1>6, <1>7

LEMMA LifecycleHolds == Spec => []Lifecycle
<1>1. Lifecycle /\ [Next]_vars => Lifecycle'
  BY StartSteps, StopSteps, ThreadSteps DEF Next, Main
<1> QED BY <1>1, LifecycleInit, PTL DEF Spec

----------------------------------------------------------------------------
(* Theorems *)

\* When Exchange::start has failed or Exchange::stop has returned, every thread
\* has been joined and no socket is open but one of a failed start.
THEOREM AllIsTakenDown == Spec => []NothingLeftRunning
<1>1. Lifecycle => NothingLeftRunning
  BY DEF Lifecycle, NothingLeftRunning, Threads, Server, Up, InStop, Down, Component
<1> QED BY <1>1, LifecycleHolds, PTL

\* The order in which stop joins the threads empties the inbound and the feed
\* queue.
THEOREM QueuesAreDrained == Spec => []Drained
<1>1. Lifecycle => Drained
  BY DEF Lifecycle, Drained, Quiet, Threads, Up, InStop, Down, Component
<1> QED BY <1>1, LifecycleHolds, PTL

\* The network thread and the feed thread end before their sockets are closed.
THEOREM SocketsStayOpen == Spec => []SocketsOutliveThreads
<1>1. Lifecycle => SocketsOutliveThreads
  BY DEF Lifecycle, SocketsOutliveThreads, Threads, Server, Component, Up, InStop, Down
<1> QED BY <1>1, LifecycleHolds, PTL
----------------------------------------------------------------------------
(* What is proved of the network server, in the exchange *)

NetP == INSTANCE ZmqServerProofs WITH running <- zmqRunning, thread <- zmqThread

LEMMA SameServerOperators ==
  /\ \A map, key, value : Net!WithEntry(map, key, value) = NetP!WithEntry(map, key, value)
  /\ \A queue, bound, m : Net!PushTo(queue, bound, m) = NetP!PushTo(queue, bound, m)
BY DEF Net!WithEntry, NetP!WithEntry, Net!PushTo, NetP!PushTo

LEMMA SameServerNext == Net!Next => NetP!Next
<1> USE DEF Net!mapVars, NetP!mapVars, Net!queueVars, NetP!queueVars
<1>1. Net!Start => NetP!Start
  BY DEF Net!Start, NetP!Start
<1>2. Net!StartFails => NetP!StartFails
  BY DEF Net!StartFails, NetP!StartFails
<1>3. Net!StopBegin => NetP!StopBegin
  BY DEF Net!StopBegin, NetP!StopBegin
<1>4. Net!StopEnd => NetP!StopEnd
  BY DEF Net!StopEnd, NetP!StopEnd
<1>5. Net!EventLoop => NetP!EventLoop
  BY DEF Net!EventLoop, NetP!EventLoop
<1>6. ASSUME NEW c \in Identity, NEW wellFormed \in BOOLEAN,
             Net!ProcessIncoming(c, wellFormed)
      PROVE  NetP!ProcessIncoming(c, wellFormed)
  <2>1. Net!CreateSession(c) => NetP!CreateSession(c)
    BY SameServerOperators
    DEF Net!CreateSession, NetP!CreateSession, Net!NewSessionId, NetP!NewSessionId
  <2> QED
    BY <1>6, <2>1, SameServerOperators DEF Net!ProcessIncoming, NetP!ProcessIncoming
<1>7. Net!NoIncoming => NetP!NoIncoming
  BY DEF Net!NoIncoming, NetP!NoIncoming
<1>8. Net!ProcessOutbound => NetP!ProcessOutbound
  BY DEF Net!ProcessOutbound, NetP!ProcessOutbound
<1>9. Net!OutboundEmpty => NetP!OutboundEmpty
  BY DEF Net!OutboundEmpty, NetP!OutboundEmpty
<1>10. Net!NetworkThread => NetP!NetworkThread
  BY <1>5, <1>6, <1>7, <1>8, <1>9 DEF Net!NetworkThread, NetP!NetworkThread
<1>11. Net!DummyPush => NetP!DummyPush
  BY SameServerOperators DEF Net!DummyPush, NetP!DummyPush, Net!DummyMessage, NetP!DummyMessage
<1>12. Net!EngineTake => NetP!EngineTake
  BY DEF Net!EngineTake, NetP!EngineTake
<1>13. ASSUME NEW m, Net!EngineRespond(m)
       PROVE  NetP!EngineRespond(m)
  BY <1>13, SameServerOperators DEF Net!EngineRespond, NetP!EngineRespond
<1> QED
  BY <1>1, <1>2, <1>3, <1>4, <1>10, <1>11, <1>12, <1>13 DEF Net!Next, NetP!Next

\* The server of the exchange satisfies the server's specification, so its
\* theorems hold.
LEMMA ServerOfExchange == Spec => NetP!Spec /\ NetP!ServerAssumption
<1>1. NetP!ServerAssumption
  BY ExchangeAssumption DEF NetP!ServerAssumption
<1>2. Net!Init => NetP!Init
  BY DEF Net!Init, NetP!Init
<1>3. [Net!Next]_(Net!vars) => [NetP!Next]_(NetP!vars)
  BY SameServerNext
  DEF Net!vars, NetP!vars, Net!mapVars, NetP!mapVars, Net!queueVars, NetP!queueVars
<1>4. Net!Spec => NetP!Spec
  BY <1>2, <1>3, PTL DEF Net!Spec, NetP!Spec
<1> QED BY <1>1, <1>4, UsesServer, PTL

\* What the server's theorems say of the variables the exchange shares with it.
ServerOK == NetP!TypeOK /\ NetP!TablesAgree /\ NetP!OwnResponses

LEMMA ServerIsOK == Spec => []ServerOK
<1>1. NetP!ServerAssumption => (NetP!Spec => []NetP!TypeOK)
  BY NetP!ServerTypeCorrect
<1>2. NetP!ServerAssumption => (NetP!Spec => []NetP!TablesAgree)
  BY NetP!TablesAlwaysAgree
<1>3. NetP!ServerAssumption => (NetP!Spec => []NetP!OwnResponses)
  BY NetP!ResponsesReachTheirClient
<1>4. NetP!TypeOK /\ NetP!TablesAgree /\ NetP!OwnResponses => ServerOK
  BY DEF ServerOK
<1> QED BY <1>1, <1>2, <1>3, <1>4, ServerOfExchange, PTL

\* However the exchange is started, stopped and used: the tables of the server
\* and of the session manager are the same bijection, and a response the engine
\* has queued goes to no client but the one it is about.
THEOREM ExchangeServesSessions == Spec => [](Net!TablesAgree /\ Net!OwnResponses)
<1>1. ServerOK => Net!TablesAgree /\ Net!OwnResponses
  BY DEF ServerOK, NetP!TablesAgree, Net!TablesAgree, NetP!OwnResponses, Net!OwnResponses
<1> QED BY <1>1, ServerIsOK, PTL

----------------------------------------------------------------------------
(* Types *)

Push == {Publish} \cup {Respond(m) : m \in accepted}

\* The types of what is not the server's, and of what Lifecycle does not bound.
\* Whatever the engine still has to answer, and whatever rests in its book, it
\* has taken from the inbound queue.
EngineTypes ==
  /\ exRunning \in BOOLEAN /\ shutdownRequested \in BOOLEAN
  /\ starts \in 0 .. MaxStarts
  /\ feed \in 0 .. FeedBound
  /\ todo \in Seq(Push)
  /\ resting \subseteq accepted
  /\ gone \subseteq Identity

LEMMA PushGrows ==
  ASSUME accepted \subseteq accepted'
  PROVE  Push \subseteq Push'
BY DEF Push, Publish, Respond

LEMMA SameTodo ==
  ASSUME todo \in Seq(Push), accepted \subseteq accepted'
  PROVE  /\ todo \in Seq(Push')
         /\ todo # <<>> => Tail(todo) \in Seq(Push')
<1>1. Push \subseteq Push'
  BY PushGrows
<1> DEFINE P1 == Push'
<1> HIDE DEF P1
<1>2. todo \in Seq(P1)
  <2>1. Push \subseteq P1
    BY <1>1 DEF P1
  <2> QED BY <2>1, SeqDef
<1> QED BY <1>2 DEF P1

LEMMA EngineTypesStep ==
  ASSUME EngineTypes, [Next]_vars
  PROVE  EngineTypes'
<1> USE DEF EngineTypes
<1>1. CASE UNCHANGED vars
  BY <1>1 DEF vars, netVars, mainVars, engineVars, Push
<1>2. CASE BeginStart \/ Signal \/ \E c \in Identity : Disconnect(c)
  <2>1. /\ UNCHANGED <<accepted, feed, todo, resting>>
        /\ exRunning' \in BOOLEAN /\ shutdownRequested' \in BOOLEAN
        /\ starts' \in 0 .. MaxStarts /\ gone' \subseteq Identity
    <3>1. CASE BeginStart
      <4>1. starts' \in 0 .. MaxStarts
        BY <3>1, ExchangeAssumption DEF BeginStart
      <4> QED BY <3>1, <4>1, Zenon DEF BeginStart, netVars, engineVars
    <3>2. CASE Signal
      BY <3>2 DEF Signal, netVars, engineVars
    <3>3. CASE \E c \in Identity : Disconnect(c)
      BY <3>3 DEF Disconnect, netVars, mainVars, engineVars
    <3> QED BY <1>2, <3>1, <3>2, <3>3
  <2> QED BY <2>1 DEF Push
<1>3. CASE Main
  <2>1. /\ UNCHANGED <<accepted, feed, todo, resting, gone, starts, shutdownRequested>>
        /\ exRunning' \in BOOLEAN
    <3>1. CASE StartFeed \/ StartFeedFails \/ StartEngine \/ StartDummy \/ BeginStop
      BY <3>1
      DEF StartFeed, StartFeedFails, StartEngine, StartDummy, BeginStop, Started, netVars,
          engineVars
    <3>2. CASE StartZmq \/ StartZmqFails
      BY <3>2
      DEF StartZmq, StartZmqFails, Started, Net!Start, Net!StartFails, Net!queueVars, engineVars
    <3>3. CASE StopZmqBegin \/ StopZmqEnd
      BY <3>3
      DEF StopZmqBegin, StopZmqEnd, Stopped, Net!StopBegin, Net!StopEnd, Net!queueVars,
          engineVars, mainVars
    <3>4. CASE \E k \in Component : StopBegin(k) \/ StopEnd(k)
      BY <3>4 DEF StopBegin, StopEnd, Stopped, netVars, engineVars, mainVars
    <3> QED BY <1>3, <3>1, <3>2, <3>3, <3>4 DEF Main
  <2> QED BY <2>1 DEF Push
<1>4. CASE NetworkThread
  <2>1. UNCHANGED <<accepted, mainVars, engineVars, gone>>
    BY <1>4
    DEF NetworkThread, Net!EventLoop, Net!ProcessIncoming, Net!NoIncoming, Net!ProcessOutbound,
        Net!OutboundEmpty, Net!queueVars
  <2> QED BY <2>1 DEF Push, mainVars, engineVars
<1>5. CASE MatchingThread
  <2>1. CASE EngineTake
    <3> DEFINE m == Head(inbound)
    <3>1. accepted' = accepted \cup {m} /\ UNCHANGED <<mainVars, feed, gone>>
      BY <2>1 DEF EngineTake, Net!EngineTake
    <3>2. Handle(m)
      BY <2>1 DEF EngineTake
    <3> HIDE DEF m
    <3>3. /\ Publish \in Push' /\ Respond(m) \in Push'
          /\ \A p \in resting : Respond(p) \in Push'
      BY <3>1 DEF Push
    <3>4. todo' \in Seq(Push') /\ resting' \subseteq accepted'
      <4>1. CASE todo' = <<Respond(m)>> /\ UNCHANGED resting
        BY <3>1, <3>3, <4>1
      <4>2. CASE /\ todo' = <<Respond(m), Publish>>
                 /\ resting' \in {resting, resting \cup {m}, resting \ {m}}
        BY <3>1, <3>3, <4>2
      <4>3. CASE \E passive \in resting :
                   /\ todo' = <<Publish, Respond(m), Respond(passive), Respond(m), Publish>>
                   /\ resting' \in {resting, resting \ {passive}}
        <5>1. PICK passive \in resting :
                /\ todo' = <<Publish, Respond(m), Respond(passive), Respond(m), Publish>>
                /\ resting' \in {resting, resting \ {passive}}
          BY <4>3
        <5>2. Respond(passive) \in Push'
          BY <3>3
        <5> QED BY <3>1, <3>3, <5>1, <5>2
      <4> QED BY <3>2, <4>1, <4>2, <4>3 DEF Handle
    <3> QED BY <3>1, <3>4 DEF mainVars
  <2>2. CASE EngineRespond
    <3>1. /\ UNCHANGED <<accepted, mainVars, feed, resting, gone>>
          /\ todo' = Tail(todo) /\ todo # <<>>
      BY <2>2 DEF EngineRespond, Net!EngineRespond
    <3> QED BY <3>1, SameTodo DEF mainVars
  <2>3. CASE EnginePublish
    <3>1. /\ UNCHANGED <<accepted, mainVars, resting, gone>>
          /\ todo' = Tail(todo) /\ todo # <<>>
      BY <2>3 DEF EnginePublish, netVars
    <3>2. feed' \in 0 .. FeedBound
      BY <2>3, ExchangeAssumption DEF EnginePublish
    <3> QED BY <3>1, <3>2, SameTodo DEF mainVars
  <2>4. CASE EngineEnds
    BY <2>4 DEF EngineEnds, netVars, mainVars, engineVars, Push
  <2> QED BY <1>5, <2>1, <2>2, <2>3, <2>4 DEF MatchingThread
<1>6. CASE FeedThread
  BY <1>6, ExchangeAssumption
  DEF FeedThread, FeedPublish, FeedEnds, netVars, mainVars, engineVars, Push
<1>7. CASE DummyThread
  BY <1>7
  DEF DummyThread, DummyOrder, DummyEnds, Net!DummyPush, netVars, mainVars, engineVars, Push
<1> QED BY <1>1, <1>2, <1>3, <1>4, <1>5, <1>6, <1>7 DEF Next

LEMMA LeftTyped ==
  ASSUME Phase
  PROVE  /\ left \in Seq(Component \cup {"zmq"})
         /\ main \in {"idle", "starting", "waiting", "stopping"}
<1> DEFINE S == Component \cup {"zmq"}
<1>1. <<>> \in Seq(S)
  OBVIOUS
<1>2. "feed" \in S /\ "engine" \in S /\ "zmq" \in S /\ "dummy" \in S
  BY DEF Component
<1> HIDE DEF S
<1>3. /\ <<"feed", "engine", "zmq", "dummy">> \in Seq(S)
      /\ <<"engine", "zmq", "dummy">> \in Seq(S)
      /\ <<"zmq", "dummy">> \in Seq(S) /\ <<"dummy">> \in Seq(S)
  BY <1>2
<1>4. /\ <<"feed", "engine", "zmq">> \in Seq(S)
      /\ <<"engine", "zmq">> \in Seq(S) /\ <<"zmq">> \in Seq(S)
  BY <1>2
<1>5. /\ <<"dummy", "zmq", "engine", "feed">> \in Seq(S)
      /\ <<"zmq", "engine", "feed">> \in Seq(S)
      /\ <<"engine", "feed">> \in Seq(S) /\ <<"feed">> \in Seq(S)
  BY <1>2
<1>6. left \in Seq(S)
  BY <1>1, <1>3, <1>4, <1>5 DEF Phase
<1> QED BY <1>6 DEF Phase, S

LEMMA SameServerType == NetP!TypeOK => Net!TypeOK
BY DEF Net!TypeOK, NetP!TypeOK, Net!SessionId, NetP!SessionId, Net!Message, NetP!Message

\* Every variable of the exchange keeps its type, those of the network server in
\* it included; the engine answers nobody whose request it has not taken.
THEOREM ExchangeTypeCorrect == Spec => []TypeOK
<1>1. Init => EngineTypes
  <2>1. <<>> \in Seq(Push)
    OBVIOUS
  <2>2. 0 \in 0 .. MaxStarts /\ 0 \in 0 .. FeedBound
    BY ExchangeAssumption
  <2> QED BY <2>1, <2>2 DEF Init, EngineTypes
<1>2. EngineTypes /\ [Next]_vars => EngineTypes'
  BY EngineTypesStep
<1>3. EngineTypes /\ Lifecycle /\ ServerOK => TypeOK
  <2> SUFFICES ASSUME EngineTypes, Lifecycle, ServerOK PROVE TypeOK
    OBVIOUS
  <2>1. Net!TypeOK
    BY SameServerType DEF ServerOK
  <2>2. /\ running \in [Component -> BOOLEAN]
        /\ thread \in [Component -> {"none", "work", "ended"}]
        /\ multicastOpen \in BOOLEAN /\ Phase
    BY DEF Lifecycle
  <2>3. \A i \in DOMAIN todo : todo[i] \in Push
    BY DEF EngineTypes
  <2> QED BY <2>1, <2>2, <2>3, LeftTyped DEF TypeOK, EngineTypes, Push
<1> QED BY <1>1, <1>2, <1>3, LifecycleHolds, ServerIsOK, PTL DEF Spec
=============================================================================
