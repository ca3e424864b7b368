---------------------------- MODULE ClientProofs ----------------------------
(***************************************************************************)
(* For any number of requests and reports: how far the answers the client  *)
(* prints lag behind its commands, that no message is read that was not    *)
(* sent, and what its receiver thread may do after stop.                   *)
(***************************************************************************)
EXTENDS Client, Integers, FiniteSetTheorems, SequenceTheorems, TLAPS

Frames == {Message("answer"), Message("report")}

AnswersIn(messages) == {i \in DOMAIN messages : messages[i] = Message("answer")}

LEMMA TwoKinds == Message("answer") # Message("report")
BY DEF Message

----------------------------------------------------------------------------
(* Counting the answers under way *)

LEMMA Counted ==
  ASSUME NEW r \in Seq(Frames)
  PROVE  /\ IsFiniteSet(AnswersIn(r)) /\ Cardinality(AnswersIn(r)) \in Nat
         /\ Len(r) \in Nat /\ Cardinality(AnswersIn(r)) <= Len(r)
<1>1. DOMAIN r = 1 .. Len(r) /\ Len(r) \in Nat
  BY LenProperties
<1>2. IsFiniteSet(DOMAIN r)
  BY <1>1, FS_Interval
<1>3. AnswersIn(r) \in SUBSET DOMAIN r
  BY DEF AnswersIn
<1>4. IsFiniteSet(AnswersIn(r)) /\ Cardinality(AnswersIn(r)) <= Cardinality(DOMAIN r)
  BY <1>2, <1>3, FS_Subset
<1>5. Cardinality(DOMAIN r) = Len(r)
  <2>1. PICK n \in Nat : n = Len(r)
    BY <1>1
  <2>2. Cardinality(1 .. n) = IF 1 > n THEN 0 ELSE n - 1 + 1
    BY FS_Interval
  <2>3. Cardinality(1 .. n) = n
    BY <2>2
  <2> QED BY <1>1, <2>1, <2>3
<1> QED BY <1>1, <1>4, <1>5, FS_CardinalityType

\* An answer that joins the messages under way is one more, a report none.
LEMMA CountAppend ==
  ASSUME NEW r \in Seq(Frames), NEW m \in Frames
  PROVE  /\ Append(r, m) \in Seq(Frames) /\ Len(Append(r, m)) = Len(r) + 1
         /\ Cardinality(AnswersIn(Append(r, m)))
              = Cardinality(AnswersIn(r)) + (IF m = Message("answer") THEN 1 ELSE 0)
<1> DEFINE s == Append(r, m)
<1>1. /\ s \in Seq(Frames) /\ Len(s) = Len(r) + 1
      /\ \A i \in 1 .. Len(r) : s[i] = r[i]
      /\ s[Len(r) + 1] = m
  BY AppendProperties
<1>2. /\ DOMAIN r = 1 .. Len(r) /\ Len(r) \in Nat
      /\ DOMAIN s = 1 .. Len(r) + 1
  BY <1>1, LenProperties
<1>3. IsFiniteSet(AnswersIn(r)) /\ Cardinality(AnswersIn(r)) \in Nat
  BY Counted
<1>4. CASE m = Message("answer")
  <2>1. AnswersIn(s) = AnswersIn(r) \cup {Len(r) + 1}
    BY <1>1, <1>2, <1>4 DEF AnswersIn
  <2>2. Len(r) + 1 \notin AnswersIn(r)
    BY <1>2 DEF AnswersIn
  <2> QED BY <1>1, <1>3, <1>4, <2>1, <2>2, FS_AddElement
<1>5. CASE m # Message("answer")
  <2>1. AnswersIn(s) = AnswersIn(r)
    BY <1>1, <1>2, <1>5 DEF AnswersIn
  <2> QED BY <1>1, <1>3, <1>5, <2>1
<1> QED BY <1>4, <1>5

\* Any number of reports is no answer.
LEMMA CountReports ==
  ASSUME NEW r \in Seq(Frames), NEW n \in Nat
  PROVE  LET s == r \o [i \in 1 .. n |-> Message("report")]
         IN  s \in Seq(Frames) /\ Len(s) = Len(r) + n /\ AnswersIn(s) = AnswersIn(r)
<1> DEFINE f == [i \in 1 .. n |-> Message("report")]
           s == r \o f
<1>1. f \in Seq(Frames) /\ Len(f) = n /\ \A i \in 1 .. n : f[i] = Message("report")
  BY DEF Frames
<1> HIDE DEF f
<1>2. /\ s \in Seq(Frames)
      /\ Len(s) = Len(r) + n
      /\ \A i \in 1 .. Len(r) + n : s[i] = IF i <= Len(r) THEN r[i] ELSE f[i - Len(r)]
  BY <1>1, ConcatProperties
<1>3. /\ DOMAIN r = 1 .. Len(r) /\ Len(r) \in Nat
      /\ DOMAIN s = 1 .. Len(r) + n
  BY <1>2, LenProperties
<1> HIDE DEF s
<1>4. ASSUME NEW i \in 1 .. Len(r) + n, i > Len(r)
      PROVE  s[i] = Message("report")
  <2>1. i - Len(r) \in 1 .. n /\ ~(i <= Len(r))
    BY <1>3, <1>4
  <2> QED BY <1>1, <1>2, <2>1
<1>5. \A i \in 1 .. Len(r) : s[i] = r[i]
  BY <1>2, <1>3
<1>6. AnswersIn(s) = AnswersIn(r)
  BY <1>3, <1>4, <1>5, TwoKinds DEF AnswersIn
<1> QED BY <1>2, <1>6 DEF s, f

\* The message that is read leaves the others.
LEMMA CountTail ==
  ASSUME NEW r \in Seq(Frames), r # <<>>
  PROVE  /\ Head(r) \in Frames /\ Tail(r) \in Seq(Frames) /\ Len(Tail(r)) = Len(r) - 1
         /\ Cardinality(AnswersIn(r))
              = Cardinality(AnswersIn(Tail(r)))
                  + (IF Head(r) = Message("answer") THEN 1 ELSE 0)
<1> DEFINE t == Tail(r)
           Rest == AnswersIn(r) \ {1}
           f == [i \in AnswersIn(t) |-> i + 1]
<1>1. /\ Head(r) = r[1] /\ Head(r) \in Frames /\ t \in Seq(Frames)
      /\ Len(t) = Len(r) - 1
      /\ \A i \in 1 .. Len(t) : t[i] = r[i + 1]
  BY HeadTailProperties
<1>2. /\ DOMAIN r = 1 .. Len(r) /\ Len(r) \in Nat /\ Len(r) # 0
      /\ DOMAIN t = 1 .. Len(r) - 1
  BY <1>1, LenProperties, EmptySeq
<1> HIDE DEF t
<1>3. \A i \in AnswersIn(t) : i \in 1 .. Len(r) - 1 /\ r[i + 1] = Message("answer")
  BY <1>1, <1>2 DEF AnswersIn
<1>4. \A j \in Rest : j - 1 \in AnswersIn(t)
  BY <1>1, <1>2 DEF AnswersIn
<1>5. f \in Bijection(AnswersIn(t), Rest)
  <2>1. f \in [AnswersIn(t) -> Rest]
    BY <1>2, <1>3 DEF AnswersIn
  <2>2. \A i, j \in AnswersIn(t) : f[i] = f[j] => i = j
    BY <1>3
  <2>3. \A j \in Rest : \E i \in AnswersIn(t) : f[i] = j
    <3>1. ASSUME NEW j \in Rest PROVE \E i \in AnswersIn(t) : f[i] = j
      <4>1. j - 1 \in AnswersIn(t) /\ j \in Nat
        BY <1>2, <1>4 DEF AnswersIn
      <4>2. f[j - 1] = j
        BY <4>1
      <4> QED BY <4>1, <4>2
    <3> QED BY <3>1
  <2> QED BY <2>1, <2>2, <2>3 DEF Bijection, Injection, Surjection, IsInjective
<1>6. Cardinality(Rest) = Cardinality(AnswersIn(t))
  BY <1>1, <1>5, Counted, FS_Bijection DEF ExistsBijection
<1>7. /\ IsFiniteSet(AnswersIn(r)) /\ Cardinality(AnswersIn(r)) \in Nat
      /\ 1 \in AnswersIn(r) <=> Head(r) = Message("answer")
  <2>1. 1 \in DOMAIN r
    BY <1>2
  <2>2. 1 \in AnswersIn(r) <=> Head(r) = Message("answer")
    BY <1>1, <2>1 DEF AnswersIn
  <2> QED BY <2>2, Counted
<1>8. Cardinality(Rest) = IF 1 \in AnswersIn(r) THEN Cardinality(AnswersIn(r)) - 1
                          ELSE Cardinality(AnswersIn(r))
  BY <1>7, FS_RemoveElement
<1> QED BY <1>1, <1>6, <1>7, <1>8 DEF t

----------------------------------------------------------------------------
(* The inductive invariant *)

Types ==
  /\ replies \in Seq(Frames)
  /\ requests \in Nat /\ lost \in Nat /\ reportsRead \in Nat /\ late \in Nat
  /\ reports \in 0 .. MaxReports
  /\ sent \in 0 .. MaxCommands

Places ==
  /\ main \in {"start", "connect", "prompt", "receive", "close", "exited"}
  /\ printed \in {"none", "answer", "report"}
  /\ running \in BOOLEAN
  /\ descriptor \in {"none", "open", "closed"}
  /\ thread \in {"none", "top", "recv", "handle", "ended"}

\* Nothing is made up: every report sent is under way or has been read, and there
\* are no more answers than requests.
Conserved ==
  /\ reportsRead + Len(replies) = reports + Cardinality(AnswersIn(replies))
  /\ requests + Cardinality(AnswersIn(replies)) + lost <= sent

\* Every request sent and not yet answered to the client is under way or lost;
\* the client has read as many reports in place of answers.
Balance ==
  requests + Cardinality(AnswersIn(replies)) + lost
    = reportsRead + (IF main = "receive" THEN 1 ELSE 0)

\* After stop the thread has at most the datagram that it was waiting for.
Lateness ==
  /\ main = "start" => thread = "none" /\ ~running
  /\ running => late = 0
  /\ thread \in {"none", "recv", "handle"} => late = 0
  /\ late <= 1

ClientInvariant == Types /\ Places /\ Conserved /\ Balance /\ Lateness

\* What Conserved needs of a step: the changes of the counts are in balance.
LEMMA ConservedStep ==
  ASSUME Types, Conserved, Types', sent' = sent,
         NEW n \in Int, NEW a \in Int,
         Len(replies') = Len(replies) + n,
         Cardinality(AnswersIn(replies')) = Cardinality(AnswersIn(replies)) + a,
         (reportsRead' - reportsRead) + n = (reports' - reports) + a,
         (requests' - requests) + a + (lost' - lost) <= 0
  PROVE  Conserved'
<1>0. Cardinality(AnswersIn(replies)) \in Nat /\ Len(replies) \in Nat
  BY Counted DEF Types
<1>1. PICK count \in Int : count = Cardinality(AnswersIn(replies))
  BY <1>0
<1>2. PICK length \in Int : length = Len(replies)
  BY <1>0
<1>3. PICK read \in Int, made \in Int, asked \in Int, gone \in Int, bound \in Int :
        /\ read = reportsRead /\ made = reports
        /\ asked = requests /\ gone = lost /\ bound = sent
  BY DEF Types
<1>4. PICK read1 \in Int, made1 \in Int, asked1 \in Int, gone1 \in Int :
        /\ read1 = reportsRead' /\ made1 = reports'
        /\ asked1 = requests' /\ gone1 = lost'
  BY DEF Types
<1>5. read + length = made + count /\ asked + count + gone <= bound
  BY <1>1, <1>2, <1>3 DEF Conserved
<1>6. (read1 - read) + n = (made1 - made) + a /\ (asked1 - asked) + a + (gone1 - gone) <= 0
  BY <1>3, <1>4
<1>7. read1 + (length + n) = made1 + (count + a)
  BY <1>5, <1>6
<1>8. asked1 + (count + a) + gone1 <= bound
  BY <1>5, <1>6
<1> QED BY <1>1, <1>2, <1>3, <1>4, <1>7, <1>8 DEF Conserved

LEMMA InvariantInit == Init => ClientInvariant
<1> SUFFICES ASSUME Init PROVE ClientInvariant
  OBVIOUS
<1>1. Types
  BY ClientAssumption DEF Init, Types
<1>2. AnswersIn(replies) = {}
  BY DEF Init, AnswersIn
<1>3. Balance
  BY <1>2, FS_EmptySet DEF Init, Balance
<1>4. Lateness
  BY DEF Init, Lateness
<1>5. Conserved
  BY <1>2, FS_EmptySet DEF Init, Conserved
<1>6. Places
  BY DEF Init, Places
<1> QED BY <1>1, <1>3, <1>4, <1>5, <1>6 DEF ClientInvariant

\* A request goes out, and the client waits for one message more.
LEMMA SendRequestStep ==
  ASSUME ClientInvariant, main \in {"connect", "prompt"}, SendRequest
  PROVE  ClientInvariant'
<1> USE DEF ClientInvariant, SendRequest, exchangeVars, receiverVars
<1>1. Types'
  BY ClientAssumption DEF Types
<1>2. Balance'
  BY Counted DEF Types, Balance
<1>3. Lateness'
  BY DEF Lateness
<1>4. Conserved'
  BY Counted DEF Types, Conserved
<1>5. Places'
  BY DEF Places
<1> QED BY <1>1, <1>2, <1>3, <1>4, <1>5

LEMMA ReceiveStep ==
  ASSUME ClientInvariant, Receive
  PROVE  ClientInvariant'
<1> USE DEF ClientInvariant
<1>1. /\ Head(replies) \in Frames /\ Tail(replies) \in Seq(Frames)
      /\ Len(Tail(replies)) = Len(replies) - 1
      /\ Cardinality(AnswersIn(replies))
           = Cardinality(AnswersIn(Tail(replies)))
               + (IF Head(replies) = Message("answer") THEN 1 ELSE 0)
  BY CountTail DEF Types, Receive
<1>2. /\ reportsRead' = IF Head(replies) = Message("answer") THEN reportsRead
                        ELSE reportsRead + 1
      /\ printed' \in {"answer", "report"}
  <2>1. /\ reportsRead' = IF Payload(Head(replies)) = "report" THEN reportsRead + 1
                          ELSE reportsRead
        /\ printed' = Payload(Head(replies))
    BY DEF Receive, PrintResponse
  <2>2. Payload(Message("answer")) = "answer" /\ Payload(Message("report")) = "report"
    BY DEF Payload, Message
  <2> QED BY <1>1, <2>1, <2>2, TwoKinds DEF Frames
<1>3. Types'
  BY <1>1, <1>2 DEF Types, Receive, receiverVars
<1>4. Balance'
  <2>1. /\ Cardinality(AnswersIn(replies)) \in Nat
        /\ Cardinality(AnswersIn(Tail(replies))) \in Nat
    BY <1>1, Counted DEF Types
  <2>2. /\ main = "receive" /\ main' = "prompt" /\ replies' = Tail(replies)
        /\ requests' = requests /\ lost' = lost
    BY DEF Receive
  <2>3. requests + Cardinality(AnswersIn(replies)) + lost = reportsRead + 1
    BY <2>2 DEF Balance
  <2>4. requests + Cardinality(AnswersIn(Tail(replies))) + lost = reportsRead'
    <3>0. requests \in Nat /\ lost \in Nat /\ reportsRead \in Nat
      BY DEF Types
    <3>1. CASE Head(replies) = Message("answer")
      <4>1. /\ Cardinality(AnswersIn(replies)) = Cardinality(AnswersIn(Tail(replies))) + 1
            /\ reportsRead' = reportsRead
        BY <1>1, <1>2, <3>1
      <4> QED BY <2>1, <2>3, <3>0, <4>1
    <3>2. CASE Head(replies) # Message("answer")
      <4>1. /\ Cardinality(AnswersIn(replies)) = Cardinality(AnswersIn(Tail(replies))) + 0
            /\ reportsRead' = reportsRead + 1
        BY <1>1, <1>2, <3>2
      <4> QED BY <2>1, <2>3, <3>0, <4>1
    <3> QED BY <3>1, <3>2
  <2>5. reportsRead' \in Nat
    BY <1>3 DEF Types
  <2>6. requests' + Cardinality(AnswersIn(replies')) + lost' = reportsRead' + 0
    BY <2>2, <2>4, <2>5
  <2> QED BY <2>2, <2>6 DEF Balance
<1>5. Lateness'
  BY DEF Lateness, Receive, receiverVars
<1>6. Conserved'
  <2>1. /\ Cardinality(AnswersIn(replies)) \in Nat /\ Len(replies) \in Nat
        /\ Cardinality(AnswersIn(Tail(replies))) \in Nat
    BY <1>1, Counted DEF Types
  <2>2. replies' = Tail(replies) /\ UNCHANGED <<requests, lost, reports, sent>>
    BY DEF Receive
  <2>3. Len(replies') = Len(replies) + (-1)
    BY <1>1, <2>1, <2>2
  <2>4. CASE Head(replies) = Message("answer")
    <3>1. /\ Cardinality(AnswersIn(replies')) = Cardinality(AnswersIn(replies)) + (-1)
          /\ reportsRead' = reportsRead
      BY <1>1, <1>2, <2>1, <2>2, <2>4
    <3>2. /\ (reportsRead' - reportsRead) + (-1) = (reports' - reports) + (-1)
          /\ (requests' - requests) + (-1) + (lost' - lost) <= 0
      BY <2>2, <3>1 DEF Types
    <3> QED BY <1>3, <2>2, <2>3, <3>1, <3>2, ConservedStep
  <2>5. CASE Head(replies) # Message("answer")
    <3>1. /\ Cardinality(AnswersIn(replies')) = Cardinality(AnswersIn(replies)) + 0
          /\ reportsRead' = reportsRead + 1
      BY <1>1, <1>2, <2>1, <2>2, <2>5
    <3>2. /\ (reportsRead' - reportsRead) + (-1) = (reports' - reports) + 0
          /\ (requests' - requests) + 0 + (lost' - lost) <= 0
      BY <2>2, <3>1 DEF Types
    <3> QED BY <1>3, <2>2, <2>3, <3>1, <3>2, ConservedStep
  <2> QED BY <2>4, <2>5
<1>7. Places'
  BY <1>2 DEF Places, Receive, receiverVars
<1> QED BY <1>3, <1>4, <1>5, <1>6, <1>7

\* The reports before the answer to a request change no balance.
LEMMA AnswerStep ==
  ASSUME ClientInvariant, Answer
  PROVE  ClientInvariant'
<1> USE DEF ClientInvariant
<1>1. PICK fills \in 0 .. MaxReports - reports :
        /\ reports' = reports + fills
        /\ replies' = replies \o [i \in 1 .. fills |-> Message("report")]
                              \o <<Message("answer")>>
  BY DEF Answer
<1> DEFINE r == replies \o [i \in 1 .. fills |-> Message("report")]
<1>2. fills \in Nat /\ reports' \in 0 .. MaxReports
  BY <1>1, ClientAssumption DEF Types
<1>3. /\ r \in Seq(Frames) /\ Len(r) = Len(replies) + fills
      /\ AnswersIn(r) = AnswersIn(replies)
  BY <1>2, CountReports DEF Types
<1> HIDE DEF r
<1>4. replies' = Append(r, Message("answer"))
  BY <1>1, <1>3, AppendIsConcat DEF r, Frames
<1>5. /\ replies' \in Seq(Frames) /\ Len(replies') = Len(replies) + fills + 1
      /\ Cardinality(AnswersIn(replies')) = Cardinality(AnswersIn(replies)) + 1
  BY <1>3, <1>4, CountAppend DEF Frames
<1>6. Types'
  BY <1>2, <1>5 DEF Types, Answer, commandVars, receiverVars
<1>7. Balance'
  BY <1>5, Counted DEF Types, Balance, Answer, commandVars
<1>8. Lateness'
  BY DEF Lateness, Answer, commandVars, receiverVars
<1>9. Conserved'
  <2>1. /\ requests' = requests - 1 /\ UNCHANGED <<reportsRead, lost, sent>>
    BY DEF Answer, commandVars
  <2>2. Len(replies') = Len(replies) + (fills + 1)
    BY <1>2, <1>5, Counted DEF Types
  <2>3. /\ (reportsRead' - reportsRead) + (fills + 1) = (reports' - reports) + 1
        /\ (requests' - requests) + 1 + (lost' - lost) <= 0
    BY <1>1, <1>2, <2>1 DEF Types
  <2> QED BY <1>2, <1>5, <1>6, <2>1, <2>2, <2>3, ConservedStep
<1>10. Places'
  BY DEF Places, Answer, commandVars, receiverVars
<1> QED BY <1>6, <1>7, <1>8, <1>9, <1>10

LEMMA ReportStep ==
  ASSUME ClientInvariant, Report
  PROVE  ClientInvariant'
<1> USE DEF ClientInvariant
<1>1. /\ replies' \in Seq(Frames) /\ Len(replies') = Len(replies) + 1
      /\ Cardinality(AnswersIn(replies')) = Cardinality(AnswersIn(replies)) + 0
  BY CountAppend, TwoKinds DEF Types, Report, Frames
<1>2. Types'
  BY <1>1, ClientAssumption DEF Types, Report, commandVars, receiverVars
<1>3. Balance'
  BY <1>1, Counted DEF Types, Balance, Report, commandVars
<1>4. Lateness'
  BY DEF Lateness, Report, commandVars, receiverVars
<1>5. Conserved'
  <2>1. reports' = reports + 1 /\ UNCHANGED <<requests, reportsRead, lost, sent>>
    BY DEF Report, commandVars
  <2>2. /\ (reportsRead' - reportsRead) + 1 = (reports' - reports) + 0
        /\ (requests' - requests) + 0 + (lost' - lost) <= 0
    BY <2>1 DEF Types
  <2> QED BY <1>1, <1>2, <2>1, <2>2, ConservedStep
<1>6. Places'
  BY DEF Places, Report, commandVars, receiverVars
<1> QED BY <1>2, <1>3, <1>4, <1>5, <1>6

\* All other steps leave the messages alone.
LEMMA OtherSteps ==
  ASSUME ClientInvariant,
         \/ StartReceiver \/ StartReceiverFails
         \/ main \in {"connect", "prompt"} /\ Prompt
         \/ StopBegin \/ StopEnd
         \/ ReceiverThread \/ Lose
         \/ UNCHANGED vars
  PROVE  ClientInvariant'
<1> USE DEF ClientInvariant, StartReceiver, StartReceiverFails, Prompt, StopBegin, StopEnd,
            ReceiverThread, LoopTop, RecvFails, Handle, Datagram, Lose, vars,
            commandVars, receiverVars, exchangeVars
<1>1. Types'
  BY DEF Types
<1>2. Balance'
  BY Counted DEF Types, Balance
<1>3. Lateness'
  BY DEF Lateness, Types
<1>4. Conserved'
  <2>1. /\ UNCHANGED <<replies, reports, reportsRead, sent>>
        /\ \/ UNCHANGED <<requests, lost>>
           \/ requests' = requests - 1 /\ lost' = lost + 1
    OBVIOUS
  <2>2. Cardinality(AnswersIn(replies)) \in Nat /\ requests \in Nat /\ lost \in Nat
    BY Counted DEF Types
  <2>3. requests' + Cardinality(AnswersIn(replies)) + lost'
          = requests + Cardinality(AnswersIn(replies)) + lost
    BY <2>1, <2>2
  <2> QED BY <2>1, <2>3 DEF Conserved
<1>5. Places'
  BY DEF Places
<1> QED BY <1>1, <1>2, <1>3, <1>4, <1>5

LEMMA InvariantStep == ClientInvariant /\ [Next]_vars => ClientInvariant'
<1> SUFFICES ASSUME ClientInvariant, [Next]_vars PROVE ClientInvariant'
  OBVIOUS
<1>1. CASE Connect
  BY <1>1, SendRequestStep, OtherSteps DEF Connect
<1>2. ASSUME NEW understood \in BOOLEAN, Command(understood) PROVE ClientInvariant'
  BY <1>2, SendRequestStep, OtherSteps DEF Command
<1>3. CASE Exchange
  BY <1>3, AnswerStep, ReportStep, OtherSteps DEF Exchange
<1> QED BY <1>1, <1>2, <1>3, ReceiveStep, OtherSteps DEF Next

LEMMA InvariantHolds == Spec => []ClientInvariant
BY InvariantInit, InvariantStep, PTL DEF Spec

\* At the prompt, as many answers are still to be read, or lost, as execution
\* reports have been printed in place of answers (main.cpp:342).
THEOREM ClientFallsBehind == Spec => []AnswersBehind
<1>1. ClientInvariant => AnswersBehind
  <2> SUFFICES ASSUME ClientInvariant, main = "prompt"
               PROVE  UnreadAnswers + lost = reportsRead
    BY DEF AnswersBehind
  <2>1. UnreadAnswers = requests + Cardinality(AnswersIn(replies))
    BY DEF UnreadAnswers, AnswersIn
  <2>2. requests + Cardinality(AnswersIn(replies)) + lost = reportsRead + 0
    BY DEF ClientInvariant, Balance
  <2> QED BY <2>1, <2>2 DEF ClientInvariant, Types
<1> QED BY <1>1, InvariantHolds, PTL

\* Every variable keeps its type, for any number of commands and reports: the
\* client prints no more reports than were sent, and no more answers are owed to
\* it, or lost, than it sent requests.
THEOREM ClientTypeCorrect == Spec => []TypeOK
<1>1. ClientInvariant => TypeOK
  <2> SUFFICES ASSUME ClientInvariant PROVE TypeOK
    OBVIOUS
  <2> USE DEF ClientInvariant
  <2>1. /\ Cardinality(AnswersIn(replies)) \in Nat /\ Len(replies) \in Nat
        /\ Cardinality(AnswersIn(replies)) <= Len(replies)
    BY Counted DEF Types
  <2>2. reportsRead \in 0 .. MaxReports
    BY <2>1, ClientAssumption DEF Types, Conserved
  <2>3. requests \in 0 .. sent /\ lost \in 0 .. sent
    BY <2>1, ClientAssumption DEF Types, Conserved
  <2>4. \A i \in DOMAIN replies : replies[i] \in {Message("answer"), Message("report")}
    BY DEF Types, Frames
  <2> QED BY <2>2, <2>3, <2>4 DEF Types, Places, TypeOK
<1> QED BY <1>1, InvariantHolds, PTL

\* stop() does not wait for the receiver thread, which then handles at most the
\* datagram it was waiting for.
THEOREM AtMostOneLateDatagram == Spec => []OneLateDatagram
<1>1. ClientInvariant => OneLateDatagram
  BY DEF ClientInvariant, Lateness, OneLateDatagram
<1> QED BY <1>1, InvariantHolds, PTL
=============================================================================
