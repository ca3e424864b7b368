--------------------------- MODULE ZmqServerProofs ---------------------------
(***************************************************************************)
(* For every number of clients, sessions and queue slots: the tables of    *)
(* the server and of the session manager agree, and a response reaches     *)
(* nobody but the client it belongs to.                                    *)
(***************************************************************************)
EXTENDS ZmqServer, SequenceTheorems, TLAPS

\* Everything that is in a queue, or may still be answered.
InTransit ==
  {inbound[i] : i \in DOMAIN inbound} \cup {outbound[i] : i \in DOMAIN outbound}
    \cup accepted

\* A message of a client carries the id of a session that has been created; if
\* that session still exists, it is the client's.
Own(m) ==
  m.session \in SessionId =>
    /\ m.session < nextSessionId
    /\ m.session \in DOMAIN sessionToIdentity => sessionToIdentity[m.session] = m.client

\* Session ids are handed out once.
IdsUsed == \A s \in DOMAIN sessionToIdentity : s < nextSessionId

ServerInvariant ==
  TypeOK /\ TablesAgree /\ IdsUsed /\ \A m \in InTransit : Own(m)

----------------------------------------------------------------------------
(* Queues *)

\* A push adds its message or nothing.
LEMMA PushedMessages ==
  ASSUME NEW q \in Seq(Message), NEW bound, NEW m \in Message
  PROVE  /\ PushTo(q, bound, m) \in Seq(Message)
         /\ \A i \in DOMAIN PushTo(q, bound, m) :
              \/ PushTo(q, bound, m)[i] = m
              \/ \E j \in DOMAIN q : PushTo(q, bound, m)[i] = q[j]
<1>1. /\ Append(q, m) \in Seq(Message)
      /\ Len(Append(q, m)) = Len(q) + 1
      /\ \A i \in 1 .. Len(q) : Append(q, m)[i] = q[i]
      /\ Append(q, m)[Len(q) + 1] = m
  BY AppendProperties
<1>2. DOMAIN q = 1 .. Len(q) /\ Len(q) \in Nat /\ DOMAIN Append(q, m) = 1 .. Len(q) + 1
  BY <1>1, LenProperties
<1>3. CASE Len(q) < bound
  BY <1>1, <1>2, <1>3 DEF PushTo
<1>4. CASE ~(Len(q) < bound)
  BY <1>4 DEF PushTo
<1> QED BY <1>3, <1>4

\* A pop returns a message of the queue and leaves the others.
LEMMA PoppedMessages ==
  ASSUME NEW q \in Seq(Message), q # <<>>
  PROVE  /\ Head(q) \in Message /\ Tail(q) \in Seq(Message)
         /\ \E j \in DOMAIN q : Head(q) = q[j]
         /\ \A i \in DOMAIN Tail(q) : \E j \in DOMAIN q : Tail(q)[i] = q[j]
<1>1. Len(q) \in Nat /\ Len(q) # 0 /\ DOMAIN q = 1 .. Len(q)
  BY EmptySeq, LenProperties
<1>2. /\ Head(q) \in Message /\ Tail(q) \in Seq(Message)
      /\ Len(Tail(q)) = Len(q) - 1
      /\ \A i \in 1 .. Len(Tail(q)) : Tail(q)[i] = q[i + 1]
      /\ Head(q) = q[1]
  BY HeadTailProperties
<1>3. DOMAIN Tail(q) = 1 .. Len(q) - 1
  BY <1>2, LenProperties
<1> QED BY <1>1, <1>2, <1>3

----------------------------------------------------------------------------
(* The inductive invariant *)

LEMMA InvariantInit == Init => ServerInvariant
<1> SUFFICES ASSUME Init PROVE ServerInvariant
  OBVIOUS
<1>1. TypeOK
  <2>1. inbound \in Seq(Message) /\ outbound \in Seq(Message)
    BY EmptySeq DEF Init
  <2>2. nextSessionId \in 1 .. MaxSessions + 1
    BY ServerAssumption DEF Init
  <2> QED BY <2>1, <2>2 DEF Init, TypeOK
<1>2. TablesAgree /\ IdsUsed
  BY DEF Init, TablesAgree, IdsUsed
<1>3. InTransit = {}
  BY DEF Init, InTransit
<1> QED BY <1>1, <1>2, <1>3 DEF ServerInvariant

\* A step that leaves the tables alone, and puts into the queues only messages
\* that were in transit before and messages of the dummy generator.
LEMMA TablesUnchanged ==
  ASSUME ServerInvariant, UNCHANGED mapVars, TypeOK',
         InTransit' \subseteq InTransit \cup {DummyMessage}
  PROVE  ServerInvariant'
<1>1. TablesAgree' /\ IdsUsed'
  BY DEF ServerInvariant, TablesAgree, IdsUsed, mapVars
<1>2. Own(DummyMessage)
  BY ServerAssumption DEF Own, DummyMessage, SessionId
<1>3. ASSUME NEW m \in InTransit' PROVE Own(m)'
  <2>1. Own(m)
    BY <1>2, <1>3 DEF ServerInvariant
  <2> QED BY <2>1 DEF Own, mapVars
<1> QED BY <1>1, <1>3 DEF ServerInvariant

\* A client's message carries the session the tables give it.
LEMMA MessageOfClient ==
  ASSUME TypeOK, NEW c \in DOMAIN identityToSession
  PROVE  [session |-> identityToSession[c], client |-> c] \in Message
BY DEF TypeOK, Message

\* createSession: the new id is not in use, nor in any message.
LEMMA CreateSessionStep ==
  ASSUME ServerInvariant, NEW c \in Identity, c \notin DOMAIN identityToSession,
         CreateSession(c)
  PROVE  /\ TablesAgree' /\ IdsUsed'
         /\ nextSessionId' \in 1 .. MaxSessions + 1
         /\ DOMAIN identityToSession' \subseteq Identity
         /\ \A k \in DOMAIN identityToSession' : identityToSession'[k] \in SessionId
         /\ DOMAIN sessionToIdentity' \subseteq SessionId
         /\ \A s \in DOMAIN sessionToIdentity' : sessionToIdentity'[s] \in Identity
         /\ c \in DOMAIN identityToSession'
         /\ sessionToIdentity'[identityToSession'[c]] = c
         /\ identityToSession'[c] \in DOMAIN sessionToIdentity'
         /\ \A m \in InTransit : Own(m)'
<1> DEFINE id == nextSessionId
<1>1. /\ identityOfManager = identityToSession /\ sessions = sessionToIdentity
      /\ MaxSessions \in Nat /\ id \in 1 .. MaxSessions + 1
      /\ DOMAIN sessionToIdentity \subseteq 1 .. MaxSessions
  BY ServerAssumption DEF ServerInvariant, TablesAgree, TypeOK, SessionId
<1>2. /\ id \in SessionId
      /\ nextSessionId' = id + 1
      /\ identityToSession' = WithEntry(identityToSession, c, id)
      /\ sessionToIdentity' = WithEntry(sessionToIdentity, id, c)
      /\ sessions' = sessionToIdentity' /\ identityOfManager' = identityToSession'
  BY <1>1 DEF CreateSession, NewSessionId, SessionId
<1>3. /\ DOMAIN identityToSession' = DOMAIN identityToSession \cup {c}
      /\ identityToSession'[c] = id
      /\ \A k \in DOMAIN identityToSession : identityToSession'[k] = identityToSession[k]
  BY <1>2 DEF WithEntry
<1>4. id \notin DOMAIN sessionToIdentity
  BY <1>1 DEF ServerInvariant, IdsUsed
<1>5. /\ DOMAIN sessionToIdentity' = DOMAIN sessionToIdentity \cup {id}
      /\ sessionToIdentity'[id] = c
      /\ \A s \in DOMAIN sessionToIdentity : sessionToIdentity'[s] = sessionToIdentity[s]
  BY <1>2, <1>4 DEF WithEntry
<1>6. TablesAgree'
  <2>1. DOMAIN sessionToIdentity' = {identityToSession'[k] : k \in DOMAIN identityToSession'}
    BY <1>1, <1>3, <1>5 DEF ServerInvariant, TablesAgree
  <2>2. \A k \in DOMAIN identityToSession' : sessionToIdentity'[identityToSession'[k]] = k
    BY <1>1, <1>3, <1>5 DEF ServerInvariant, TablesAgree
  <2> QED BY <1>2, <2>1, <2>2 DEF TablesAgree
<1>7. IdsUsed'
  BY <1>1, <1>2, <1>5 DEF ServerInvariant, IdsUsed
<1>8. nextSessionId' \in 1 .. MaxSessions + 1
  BY <1>1, <1>2 DEF SessionId
<1>9. /\ DOMAIN identityToSession' \subseteq Identity
      /\ \A k \in DOMAIN identityToSession' : identityToSession'[k] \in SessionId
      /\ DOMAIN sessionToIdentity' \subseteq SessionId
      /\ \A s \in DOMAIN sessionToIdentity' : sessionToIdentity'[s] \in Identity
  BY <1>2, <1>3, <1>5 DEF ServerInvariant, TypeOK
<1>10. ASSUME NEW m \in InTransit PROVE Own(m)'
  <2>1. SUFFICES ASSUME m.session \in SessionId
        PROVE  /\ m.session < nextSessionId'
               /\ m.session \in DOMAIN sessionToIdentity' =>
                    sessionToIdentity'[m.session] = m.client
    BY DEF Own
  <2>2. /\ m.session < id
        /\ m.session \in DOMAIN sessionToIdentity => sessionToIdentity[m.session] = m.client
    BY <2>1 DEF ServerInvariant, Own
  <2>3. m.session \in Nat /\ id \in Nat
    BY <1>1, <2>1 DEF SessionId
  <2> QED BY <1>2, <1>5, <2>2, <2>3
<1> QED BY <1>3, <1>5, <1>6, <1>7, <1>8, <1>9, <1>10

LEMMA ProcessIncomingStep ==
  ASSUME ServerInvariant, NEW c \in Identity, NEW wellFormed \in BOOLEAN,
         ProcessIncoming(c, wellFormed)
  PROVE  ServerInvariant'
<1> DEFINE m == [session |-> identityToSession'[c], client |-> c]
<1>1. /\ TablesAgree' /\ IdsUsed'
      /\ nextSessionId' \in 1 .. MaxSessions + 1
      /\ DOMAIN identityToSession' \subseteq Identity
      /\ \A k \in DOMAIN identityToSession' : identityToSession'[k] \in SessionId
      /\ DOMAIN sessionToIdentity' \subseteq SessionId
      /\ \A s \in DOMAIN sessionToIdentity' : sessionToIdentity'[s] \in Identity
      /\ c \in DOMAIN identityToSession'
      /\ sessionToIdentity'[identityToSession'[c]] = c
      /\ identityToSession'[c] \in DOMAIN sessionToIdentity'
      /\ \A n \in InTransit : Own(n)'
  <2>1. CASE c \in DOMAIN identityToSession
    <3>1. UNCHANGED mapVars
      BY <2>1 DEF ProcessIncoming
    <3>2. TablesAgree' /\ IdsUsed'
      BY <3>1 DEF ServerInvariant, TablesAgree, IdsUsed, mapVars
    <3>3. \A n \in InTransit : Own(n)'
      BY <3>1 DEF ServerInvariant, Own, mapVars
    <3>4. /\ sessionToIdentity[identityToSession[c]] = c
          /\ identityToSession[c] \in DOMAIN sessionToIdentity
      BY <2>1 DEF ServerInvariant, TablesAgree
    <3> QED BY <2>1, <3>1, <3>2, <3>3, <3>4 DEF ServerInvariant, TypeOK, mapVars
  <2>2. CASE c \notin DOMAIN identityToSession
    <3>1. CreateSession(c)
      BY <2>2 DEF ProcessIncoming
    <3> HIDE DEF m
    <3> QED BY <2>2, <3>1, CreateSessionStep
  <2> QED BY <2>1, <2>2
<1>2. m \in Message
  BY <1>1 DEF Message
<1>3. ASSUME NEW n, n = m PROVE Own(n)'
  <2>1. n.session \in DOMAIN sessionToIdentity' /\ sessionToIdentity'[n.session] = n.client
    BY <1>1, <1>3
  <2> QED BY <1>1, <2>1 DEF Own, IdsUsed
<1>4. /\ inbound' \in Seq(Message)
      /\ \A i \in DOMAIN inbound' : inbound'[i] = m \/ \E j \in DOMAIN inbound : inbound'[i] = inbound[j]
  <2>1. inbound' = IF wellFormed THEN PushTo(inbound, InboundBound, m) ELSE inbound
    BY DEF ProcessIncoming
  <2>2. inbound \in Seq(Message)
    BY DEF ServerInvariant, TypeOK
  <2> HIDE DEF m
  <2> QED BY <1>2, <2>1, <2>2, PushedMessages
<1>5. UNCHANGED <<running, context, outbound, accepted>> /\ thread' = "outbound"
  BY DEF ProcessIncoming
<1>6. TypeOK'
  <2>1. sessions' = sessionToIdentity' /\ identityOfManager' = identityToSession'
    BY <1>1 DEF TablesAgree
  <2> HIDE DEF m
  <2> QED BY <1>1, <1>4, <1>5, <2>1 DEF ServerInvariant, TypeOK
<1>7. InTransit' \subseteq InTransit \cup {m}
  <2> HIDE DEF m
  <2> QED BY <1>4, <1>5 DEF InTransit
<1>8. \A n \in InTransit' : Own(n)'
  <2> HIDE DEF m
  <2> QED BY <1>1, <1>3, <1>7
<1> QED BY <1>1, <1>6, <1>8 DEF ServerInvariant

\* stop destroys every session, so all four tables end up empty.
LEMMA StopEndStep ==
  ASSUME ServerInvariant, StopEnd
  PROVE  ServerInvariant'
<1> DEFINE destroyed == {identityToSession[c] : c \in DOMAIN identityToSession}
           left      == {sessions[s] : s \in destroyed \cap DOMAIN sessions}
<1>1. DOMAIN sessions = destroyed
  BY DEF ServerInvariant, TablesAgree
<1>2. DOMAIN identityOfManager \subseteq left
  BY <1>1 DEF ServerInvariant, TablesAgree
<1>3. /\ sessions' = [s \in {} |-> NoClient] /\ sessionToIdentity' = [s \in {} |-> NoClient]
      /\ identityOfManager' = [c \in {} |-> 0] /\ identityToSession' = [c \in {} |-> 0]
  <2>1. sessions' = [s \in DOMAIN sessions \ destroyed |-> sessions[s]]
    BY DEF StopEnd
  <2>2. identityOfManager' = [c \in DOMAIN identityOfManager \ left |-> identityOfManager[c]]
    BY DEF StopEnd
  <2>3. DOMAIN sessions \ destroyed = {} /\ DOMAIN identityOfManager \ left = {}
    BY <1>1, <1>2
  <2>4. sessionToIdentity' = [s \in {} |-> NoClient] /\ identityToSession' = [c \in {} |-> 0]
    BY DEF StopEnd
  <2> HIDE DEF destroyed, left
  <2> QED BY <2>1, <2>2, <2>3, <2>4
<1>4. TablesAgree' /\ IdsUsed'
  BY <1>3 DEF TablesAgree, IdsUsed
<1>5. /\ UNCHANGED <<running, nextSessionId, inbound, outbound, accepted>>
      /\ thread' = "none" /\ context' = "none"
  BY DEF StopEnd, queueVars
<1>6. TypeOK'
  BY <1>3, <1>5 DEF ServerInvariant, TypeOK
<1>7. ASSUME NEW m \in InTransit' PROVE Own(m)'
  <2>1. Own(m)
    BY <1>5, <1>7 DEF InTransit, ServerInvariant
  <2> QED BY <1>3, <1>5, <2>1 DEF Own
<1> QED BY <1>4, <1>6, <1>7 DEF ServerInvariant

LEMMA InvariantStep == ServerInvariant /\ [Next]_vars => ServerInvariant'
<1> SUFFICES ASSUME ServerInvariant, [Next]_vars PROVE ServerInvariant'
  OBVIOUS
<1> USE DEF ServerInvariant
<1>1. /\ inbound \in Seq(Message) /\ outbound \in Seq(Message) /\ accepted \subseteq Message
      /\ DummyMessage \in Message
  BY DEF TypeOK, Message, DummyMessage
<1>2. ASSUME Start \/ StartFails \/ StopBegin \/ EventLoop \/ NoIncoming \/ OutboundEmpty
             \/ UNCHANGED vars
      PROVE  ServerInvariant'
  <2>1. UNCHANGED mapVars /\ UNCHANGED queueVars
    BY <1>2 DEF Start, StartFails, StopBegin, EventLoop, NoIncoming, OutboundEmpty, vars
  <2>2. TypeOK'
    BY <1>2, <2>1 DEF TypeOK, mapVars, queueVars, Start, StartFails, StopBegin, EventLoop,
                      NoIncoming, OutboundEmpty, vars
  <2>3. InTransit' = InTransit
    BY <2>1 DEF InTransit, queueVars
  <2> QED BY <2>1, <2>2, <2>3, TablesUnchanged
<1>3. ASSUME NEW c \in Identity, NEW wellFormed \in BOOLEAN, ProcessIncoming(c, wellFormed)
      PROVE  ServerInvariant'
  BY <1>3, ProcessIncomingStep
<1>4. CASE StopEnd
  BY <1>4, StopEndStep
<1>5. CASE ProcessOutbound
  <2>1. /\ outbound' = Tail(outbound)
        /\ UNCHANGED <<running, thread, context, mapVars, inbound, accepted>>
    BY <1>5 DEF ProcessOutbound
  <2>2. /\ outbound' \in Seq(Message)
        /\ \A i \in DOMAIN outbound' : \E j \in DOMAIN outbound : outbound'[i] = outbound[j]
    BY <1>1, <1>5, <2>1, PoppedMessages DEF ProcessOutbound
  <2>3. TypeOK'
    BY <2>1, <2>2 DEF TypeOK, mapVars
  <2>4. InTransit' \subseteq InTransit
    BY <2>1, <2>2 DEF InTransit
  <2> QED BY <2>1, <2>3, <2>4, TablesUnchanged
<1>6. CASE DummyPush
  <2>1. /\ inbound' = PushTo(inbound, InboundBound, DummyMessage)
        /\ UNCHANGED <<running, thread, context, mapVars, outbound, accepted>>
    BY <1>6 DEF DummyPush
  <2>2. /\ inbound' \in Seq(Message)
        /\ \A i \in DOMAIN inbound' :
             inbound'[i] = DummyMessage \/ \E j \in DOMAIN inbound : inbound'[i] = inbound[j]
    BY <1>1, <2>1, PushedMessages
  <2>3. TypeOK'
    BY <2>1, <2>2 DEF TypeOK, mapVars
  <2>4. InTransit' \subseteq InTransit \cup {DummyMessage}
    BY <2>1, <2>2 DEF InTransit
  <2> QED BY <2>1, <2>3, <2>4, TablesUnchanged
<1>7. CASE EngineTake
  <2>1. /\ inbound # <<>> /\ inbound' = Tail(inbound)
        /\ accepted' = accepted \cup {Head(inbound)}
        /\ UNCHANGED <<running, thread, context, mapVars, outbound>>
    BY <1>7 DEF EngineTake
  <2>2. /\ Head(inbound) \in Message /\ inbound' \in Seq(Message)
        /\ \E j \in DOMAIN inbound : Head(inbound) = inbound[j]
        /\ \A i \in DOMAIN inbound' : \E j \in DOMAIN inbound : inbound'[i] = inbound[j]
    BY <1>1, <2>1, PoppedMessages
  <2>3. TypeOK'
    BY <2>1, <2>2 DEF TypeOK, mapVars
  <2>4. InTransit' \subseteq InTransit
    BY <2>1, <2>2 DEF InTransit
  <2> QED BY <2>1, <2>3, <2>4, TablesUnchanged
<1>8. ASSUME NEW m \in accepted, EngineRespond(m)
      PROVE  ServerInvariant'
  <2>1. /\ outbound' = PushTo(outbound, OutboundBound, m)
        /\ UNCHANGED <<running, thread, context, mapVars, inbound, accepted>>
    BY <1>8 DEF EngineRespond
  <2>2. /\ outbound' \in Seq(Message)
        /\ \A i \in DOMAIN outbound' :
             outbound'[i] = m \/ \E j \in DOMAIN outbound : outbound'[i] = outbound[j]
    BY <1>1, <2>1, PushedMessages
  <2>3. TypeOK'
    BY <2>1, <2>2 DEF TypeOK, mapVars
  <2>4. InTransit' \subseteq InTransit
    BY <2>1, <2>2 DEF InTransit
  <2> QED BY <2>1, <2>3, <2>4, TablesUnchanged
<1> QED
  BY <1>2, <1>3, <1>4, <1>5, <1>6, <1>7, <1>8 DEF Next, NetworkThread

LEMMA InvariantHolds == Spec => []ServerInvariant
BY InvariantInit, InvariantStep, PTL DEF Spec

----------------------------------------------------------------------------
(* Theorems *)

\* The session tables and the messages in the queues keep their types.
THEOREM ServerTypeCorrect == Spec => []TypeOK
<1>1. ServerInvariant => TypeOK
  BY DEF ServerInvariant
<1> QED BY <1>1, InvariantHolds, PTL

\* The four session tables are one bijection between clients and sessions,
\* through createSession, destroySession and any number of restarts.
THEOREM TablesAlwaysAgree == Spec => []TablesAgree
<1>1. ServerInvariant => TablesAgree
  BY DEF ServerInvariant
<1> QED BY <1>1, InvariantHolds, PTL

\* processOutbound never sends a response to a client it does not belong to.
THEOREM ResponsesReachTheirClient == Spec => []OwnResponses
<1>1. ServerInvariant => OwnResponses
  <2>1. SUFFICES ASSUME ServerInvariant, NEW i \in DOMAIN outbound,
                        outbound[i].session \in DOMAIN sessionToIdentity
        PROVE  sessionToIdentity[outbound[i].session] = outbound[i].client
    BY DEF OwnResponses
  <2>2. outbound[i].session \in SessionId /\ Own(outbound[i])
    BY <2>1 DEF ServerInvariant, TypeOK, InTransit
  <2> QED BY <2>1, <2>2 DEF Own
<1> QED BY <1>1, InvariantHolds, PTL
=============================================================================
