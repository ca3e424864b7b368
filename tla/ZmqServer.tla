----------------------------- MODULE ZmqServer -----------------------------
(***************************************************************************)
(* The network thread: ZmqServer (src/ZmqServer.cpp) on top of             *)
(* SessionManager (include/SessionManager.h).  The event loop alternates   *)
(* between one request from a client, which it routes to the inbound       *)
(* queue, and emptying the outbound queue, whose responses it sends to the *)
(* client of their session.                                                *)
(*                                                                         *)
(* A message is a record of its sessionId and of the client its contents   *)
(* belong to, so that one can see whether a response reaches the client it *)
(* is about.  The maps are used by the network thread alone, and by the    *)
(* thread that calls stop once the network thread is joined, so one        *)
(* iteration of processIncoming and one of processOutbound are one step    *)
(* each, at the queue operation in them.  The queues are what              *)
(* LockFreeQueue is shown to implement.  The engine and the other producer *)
(* are the environment.                                                    *)
(***************************************************************************)
EXTENDS Naturals, Sequences

CONSTANTS
  Identity,         \* ZeroMQ identities of the clients
  NoClient,         \* in place of the client for the dummy generator
  DUMMY_SESSION_ID,
  MaxSessions,      \* bound: sessions created; the ids of the code have 32 bits
  InboundBound,     \* items the inbound queue holds
  OutboundBound     \* items the outbound queue holds

ASSUME ServerAssumption ==
  /\ NoClient \notin Identity
  /\ MaxSessions \in Nat
  /\ DUMMY_SESSION_ID \notin 1 .. MaxSessions
  /\ InboundBound \in Nat /\ OutboundBound \in Nat

SessionId == 1 .. MaxSessions

\* What is known of a message: the session it is for and whose it is.
Message == [session : SessionId, client : Identity]
             \cup {[session |-> DUMMY_SESSION_ID, client |-> NoClient]}

DummyMessage == [session |-> DUMMY_SESSION_ID, client |-> NoClient]

VARIABLES
  running,              \* running_
  thread,               \* where the network thread is
  context,              \* context_ and socket_: none, open, or left by a failed start
  identityToSession,    \* ZmqServer::identityToSession_
  sessionToIdentity,    \* ZmqServer::sessionToIdentity_
  sessions,             \* SessionManager::sessions_, each with its identity
  identityOfManager,    \* SessionManager::identityToSession_
  nextSessionId,
  inbound, outbound,    \* the two queues
  accepted              \* whose requests the engine has taken so far

mapVars == <<identityToSession, sessionToIdentity, sessions, identityOfManager,
             nextSessionId>>
queueVars == <<inbound, outbound, accepted>>
vars == <<running, thread, context, mapVars, queueVars>>

Init ==
  /\ running = FALSE
  /\ thread = "none"
  /\ context = "none"
  /\ identityToSession = [c \in {} |-> 0]
  /\ sessionToIdentity = [s \in {} |-> NoClient]
  /\ sessions = [s \in {} |-> NoClient]
  /\ identityOfManager = [c \in {} |-> 0]
  /\ nextSessionId = 1
  /\ inbound = <<>>
  /\ outbound = <<>>
  /\ accepted = {}

\* The map with the entry key |-> value put in.
WithEntry(map, key, value) ==
  [k \in DOMAIN map \cup {key} |-> IF k = key THEN value ELSE map[k]]

\* push: the message is lost when the queue is full.
PushTo(queue, bound, m) == IF Len(queue) < bound THEN Append(queue, m) ELSE queue

----------------------------------------------------------------------------
(* Start and stop, called by the thread that owns the exchange *)

\* A start first replaces context_.  When a failed start left a socket in the
\* old one, destroying it waits for ever for that socket to be closed: start
\* does not return.
Start ==
  /\ ~running
  /\ thread = "none"
  /\ context = "none"
  /\ running' = TRUE
  /\ context' = "open"
  /\ thread' = "top"
  /\ UNCHANGED <<mapVars, queueVars>>

\* Creating the context or the socket throws, or binding the socket does: then
\* both stay, and so does whatever else there was.
StartFails ==
  /\ ~running
  /\ thread = "none"
  /\ context = "none"
  /\ context' \in {"none", "left"}
  /\ UNCHANGED <<running, thread, mapVars, queueVars>>

StopBegin ==
  /\ running
  /\ running' = FALSE
  /\ UNCHANGED <<thread, context, mapVars, queueVars>>

\* Mutant: the maps of the server keep the sessions that are destroyed.
StopEndKeepsMaps ==
  /\ ~running
  /\ thread = "ended"
  /\ thread' = "none"
  /\ sessions' = [s \in DOMAIN sessions \ DOMAIN sessionToIdentity |-> sessions[s]]
  /\ identityOfManager' = [c \in DOMAIN identityOfManager \ DOMAIN identityToSession
                             |-> identityOfManager[c]]
  /\ context' = "none"
  /\ UNCHANGED <<running, identityToSession, sessionToIdentity, nextSessionId, queueVars>>

\* After the join: destroySession for every session the server knows.  The
\* disconnect callback is not called, because activeOrders is always empty:
\* nothing calls addOrderToSession.
StopEnd ==
  /\ ~running
  /\ thread = "ended"
  /\ thread' = "none"
  /\ LET destroyed == {identityToSession[c] : c \in DOMAIN identityToSession}
         left      == {sessions[s] : s \in destroyed \cap DOMAIN sessions}
     IN  /\ sessions' = [s \in DOMAIN sessions \ destroyed |-> sessions[s]]
         /\ identityOfManager' = [c \in DOMAIN identityOfManager \ left
                                    |-> identityOfManager[c]]
  /\ identityToSession' = [c \in {} |-> 0]
  /\ sessionToIdentity' = [s \in {} |-> NoClient]
  /\ context' = "none"
  /\ UNCHANGED <<running, nextSessionId, queueVars>>

----------------------------------------------------------------------------
(* The network thread *)

EventLoop ==
  /\ thread = "top"
  /\ thread' = IF running THEN "incoming" ELSE "ended"
  /\ UNCHANGED <<running, context, mapVars, queueVars>>

\* Mutant: the id that is free again is used again.
NewSessionIdRecycled == CHOOSE id \in SessionId : id \notin DOMAIN sessions

\* Mutant: the id after the next one.
NewSessionIdPreIncrement == nextSessionId + 1

\* nextSessionId_++
NewSessionId == nextSessionId

\* createSession, and the entries processIncoming adds for its result.
CreateSession(c) ==
  LET id == IF c \in DOMAIN identityOfManager THEN identityOfManager[c] ELSE NewSessionId
  IN  /\ identityToSession' = WithEntry(identityToSession, c, id)
      /\ sessionToIdentity' = WithEntry(sessionToIdentity, id, c)
      /\ IF c \in DOMAIN identityOfManager
         THEN UNCHANGED <<sessions, identityOfManager, nextSessionId>>
         ELSE /\ nextSessionId <= MaxSessions
              /\ nextSessionId' = nextSessionId + 1
              /\ sessions' = WithEntry(sessions, id, c)
              /\ identityOfManager' = WithEntry(identityOfManager, c, id)

\* One request of client c; a malformed one opens a session all the same, and
\* is then dropped.  A request for a full inbound queue is dropped silently.
\* The three frames of a request, identity, delimiter and message, arrive
\* together and are read in one step; a client that sends no delimiter, whose
\* frames the reads would take for one another, is not modelled.
ProcessIncoming(c, wellFormed) ==
  /\ thread = "incoming"
  /\ thread' = "outbound"
  /\ IF c \in DOMAIN identityToSession THEN UNCHANGED mapVars ELSE CreateSession(c)
  /\ inbound' = IF wellFormed
                THEN PushTo(inbound, InboundBound,
                            [session |-> identityToSession'[c], client |-> c])
                ELSE inbound
  /\ UNCHANGED <<running, context, outbound, accepted>>

\* There is no message, or none that is complete; or receiving it throws, and
\* eventLoop starts over.
NoIncoming ==
  /\ thread = "incoming"
  /\ thread' \in {"outbound", "top"}
  /\ UNCHANGED <<running, context, mapVars, queueVars>>

\* One response: it is sent to the client of its session, or dropped when
\* there is none.  Neither changes the state of the server.
ProcessOutbound ==
  /\ thread = "outbound"
  /\ outbound # <<>>
  /\ outbound' = Tail(outbound)
  /\ UNCHANGED <<running, thread, context, mapVars, inbound, accepted>>

OutboundEmpty ==
  /\ thread = "outbound"
  /\ outbound = <<>>
  /\ thread' = "top"
  /\ UNCHANGED <<running, context, mapVars, queueVars>>

NetworkThread ==
  \/ EventLoop
  \/ \E c \in Identity, wellFormed \in BOOLEAN : ProcessIncoming(c, wellFormed)
  \/ NoIncoming
  \/ ProcessOutbound
  \/ OutboundEmpty

----------------------------------------------------------------------------
(* The environment: the other producer, and the matching engine, which      *)
(* responds to the sessions whose requests it has taken.                    *)

DummyPush ==
  /\ inbound' = PushTo(inbound, InboundBound, DummyMessage)
  /\ UNCHANGED <<running, thread, context, mapVars, outbound, accepted>>

EngineTake ==
  /\ inbound # <<>>
  /\ inbound' = Tail(inbound)
  /\ accepted' = accepted \cup {Head(inbound)}
  /\ UNCHANGED <<running, thread, context, mapVars, outbound>>

EngineRespond(m) ==
  /\ m \in accepted
  /\ outbound' = PushTo(outbound, OutboundBound, m)
  /\ UNCHANGED <<running, thread, context, mapVars, inbound, accepted>>

Next ==
  \/ Start \/ StartFails \/ StopBegin \/ StopEnd
  \/ NetworkThread
  \/ DummyPush \/ EngineTake
  \/ \E m \in accepted : EngineRespond(m)

Spec == Init /\ [][Next]_vars
----------------------------------------------------------------------------
(* Properties *)

\* Every variable has its type, and the id of the dummy generator is never
\* given to a client.
TypeOK ==
  /\ running \in BOOLEAN
  /\ context \in {"none", "open", "left"}
  /\ thread \in {"none", "top", "incoming", "outbound", "ended"}
  /\ DOMAIN identityToSession \subseteq Identity
  /\ \A c \in DOMAIN identityToSession : identityToSession[c] \in SessionId
  /\ DOMAIN sessionToIdentity \subseteq SessionId
  /\ \A s \in DOMAIN sessionToIdentity : sessionToIdentity[s] \in Identity
  /\ DOMAIN sessions \subseteq SessionId
  /\ \A s \in DOMAIN sessions : sessions[s] \in Identity
  /\ DOMAIN identityOfManager \subseteq Identity
  /\ \A c \in DOMAIN identityOfManager : identityOfManager[c] \in SessionId
  /\ nextSessionId \in 1 .. MaxSessions + 1
  /\ inbound \in Seq(Message) /\ outbound \in Seq(Message)
  /\ accepted \subseteq Message

\* The server and the session manager keep the same table twice each, in two
\* directions, and stop clears the manager's copies only through the server: all
\* four are one bijection between clients and sessions, across reconnects and
\* restarts.
TablesAgree ==
  /\ sessions = sessionToIdentity
  /\ identityOfManager = identityToSession
  /\ DOMAIN sessions = {identityToSession[c] : c \in DOMAIN identityToSession}
  /\ \A c \in DOMAIN identityToSession : sessions[identityToSession[c]] = c

\* A response is only ever sent to the client it belongs to, also when it was
\* left in the outbound queue by a stop and the server has been started again
\* since: it reaches that client or nobody (processOutbound drops it).
OwnResponses ==
  \A i \in DOMAIN outbound :
    outbound[i].session \in DOMAIN sessionToIdentity =>
      sessionToIdentity[outbound[i].session] = outbound[i].client
=============================================================================
