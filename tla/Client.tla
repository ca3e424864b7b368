------------------------------- MODULE Client -------------------------------
(***************************************************************************)
(* The C++ client: the command loop of cpp_client/src/main.cpp, which      *)
(* sends a request and then waits for one message, and the multicast       *)
(* receiver (cpp_client/src/UdpMulticastReceiver.cpp) with its detached    *)
(* thread.                                                                 *)
(*                                                                         *)
(* The environment is the exchange.  It answers a request with the reports *)
(* of the fills of a new order and then the answer itself, reports the     *)
(* fills of a resting order at any time, and may lose a request or an      *)
(* answer when a queue is full.  What the user types is a choice, and so   *)
(* is what the thread gets from a descriptor that has been closed: the     *)
(* call may have been waiting in it, or the number may be in use again.    *)
(* The model ends with main(): that the receiver is destroyed there, with  *)
(* its handler, while the thread may still use it, is not part of it.      *)
(***************************************************************************)
EXTENDS Naturals, Sequences, SequencesExt, FiniteSets

CONSTANTS
  MaxCommands,      \* bound: requests sent
  MaxReports        \* bound: execution reports

ASSUME ClientAssumption == MaxCommands \in Nat /\ MaxReports \in Nat

VARIABLES
  main,             \* where main() is
  sent,             \* requests sent
  printed,          \* the message printed last
  reportsRead,      \* execution reports printed
  running,          \* UdpMulticastReceiver::running_
  descriptor,       \* the descriptor in socketFd_: none, open or closed
  thread,           \* where the detached thread is
  late,             \* datagrams handled since stop
  requests,         \* requests under way to the exchange
  replies,          \* messages under way to the client, each a sequence of frames
  reports,          \* execution reports sent
  lost              \* answers that will never come

commandVars == <<main, sent, printed, reportsRead>>
receiverVars == <<running, descriptor, thread, late>>
exchangeVars == <<requests, replies, reports, lost>>
vars == <<commandVars, receiverVars, exchangeVars>>

Init ==
  /\ main = "start"
  /\ sent = 0 /\ printed = "none" /\ reportsRead = 0
  /\ running = FALSE /\ descriptor = "none" /\ thread = "none" /\ late = 0
  /\ requests = 0 /\ replies = <<>> /\ reports = 0 /\ lost = 0

----------------------------------------------------------------------------
(* main() *)

StartReceiver ==
  /\ main = "start"
  /\ running' = TRUE
  /\ descriptor' = "open"
  /\ thread' = "top"
  /\ main' = "connect"
  /\ UNCHANGED <<sent, printed, reportsRead, late, exchangeVars>>

\* No socket; or bind, the group's address or joining it failed, and the socket
\* is closed again.
StartReceiverFails ==
  /\ main = "start"
  /\ descriptor' \in {"none", "closed"}
  /\ main' = "exited"
  /\ UNCHANGED <<sent, printed, reportsRead, running, thread, late, exchangeVars>>

\* A request is sent, and its response is waited for.
SendRequest ==
  /\ sent < MaxCommands
  /\ sent' = sent + 1
  /\ requests' = requests + 1
  /\ main' = "receive"
  /\ UNCHANGED <<printed, reportsRead, receiverVars, replies, reports, lost>>

Prompt ==
  /\ main' = "prompt"
  /\ UNCHANGED <<sent, printed, reportsRead, receiverVars, exchangeVars>>

Connect ==
  /\ main = "connect"
  /\ Prompt \/ SendRequest          \* the demo order

\* Mutant: a command that is not understood is reported, but not skipped.
CommandNotSkipped(understood) ==
  /\ main = "prompt"
  /\ IF understood THEN SendRequest
     ELSE /\ main' = "receive"
          /\ UNCHANGED <<sent, printed, reportsRead, receiverVars, exchangeVars>>

\* One line of input.
Command(understood) ==
  /\ main = "prompt"
  /\ IF understood THEN SendRequest ELSE Prompt

\* Mutant: the first frame is taken for the message.
PayloadFirst(frames) == frames[1]

\* zmqRecvPayload
Payload(frames) == IF Len(frames) > 1 THEN frames[2] ELSE frames[1]

\* printResponse
PrintResponse(message) ==
  /\ printed' = message
  /\ reportsRead' = IF message = "report" THEN reportsRead + 1 ELSE reportsRead

\* One message, whatever it is.
Receive ==
  /\ main = "receive" /\ replies # <<>>
  /\ PrintResponse(Payload(Head(replies)))
  /\ replies' = Tail(replies)
  /\ main' = "prompt"
  /\ UNCHANGED <<sent, receiverVars, requests, reports, lost>>

\* quit, or the end of the input; then mcast.stop(), which does not wait for
\* the thread.  It does nothing when the receiver is not running.
StopBegin ==
  /\ main = "prompt"
  /\ running' = FALSE
  /\ main' = "close"
  /\ UNCHANGED <<sent, printed, reportsRead, descriptor, thread, late, exchangeVars>>

StopEnd ==
  /\ main = "close"
  /\ descriptor' = "closed"
  /\ main' = "exited"
  /\ UNCHANGED <<sent, printed, reportsRead, running, thread, late, exchangeVars>>

----------------------------------------------------------------------------
(* UdpMulticastReceiver::loop *)

\* Mutant: the thread relies on the error of the closed descriptor alone.
LoopTopForever ==
  /\ thread = "top"
  /\ thread' = "recv"
  /\ UNCHANGED <<commandVars, running, descriptor, late, exchangeVars>>

LoopTop ==
  /\ thread = "top"
  /\ thread' = IF running THEN "recv" ELSE "ended"
  /\ UNCHANGED <<commandVars, running, descriptor, late, exchangeVars>>

\* recvfrom returns a datagram; one that is too small for a header is ignored.
Datagram(tooSmall) ==
  /\ thread = "recv"
  /\ thread' = IF tooSmall THEN "top" ELSE "handle"
  /\ UNCHANGED <<commandVars, running, descriptor, late, exchangeVars>>

\* recvfrom fails: interrupted, or the descriptor is closed.
RecvFails ==
  /\ thread = "recv"
  /\ thread' = IF running THEN "top" ELSE "ended"
  /\ UNCHANGED <<commandVars, running, descriptor, late, exchangeVars>>

\* handleMarketData
Handle ==
  /\ thread = "handle"
  /\ thread' = "top"
  /\ late' = IF running THEN late ELSE late + 1
  /\ UNCHANGED <<commandVars, running, descriptor, exchangeVars>>

ReceiverThread ==
  \/ LoopTop \/ RecvFails \/ Handle
  \/ \E tooSmall \in BOOLEAN : Datagram(tooSmall)

----------------------------------------------------------------------------
(* The exchange *)

Message(kind) == <<"empty", kind>>

Answer ==
  /\ requests > 0
  /\ requests' = requests - 1
  /\ \E fills \in 0 .. MaxReports - reports :
       /\ reports' = reports + fills
       /\ replies' = replies \o [i \in 1 .. fills |-> Message("report")]
                             \o <<Message("answer")>>
  /\ UNCHANGED <<commandVars, receiverVars, lost>>

\* A resting order of the client is filled.
Report ==
  /\ sent > 0 /\ reports < MaxReports
  /\ reports' = reports + 1
  /\ replies' = Append(replies, Message("report"))
  /\ UNCHANGED <<commandVars, receiverVars, requests, lost>>

Lose ==
  /\ requests > 0
  /\ requests' = requests - 1
  /\ lost' = lost + 1
  /\ UNCHANGED <<commandVars, receiverVars, replies, reports>>

Exchange == Answer \/ Report \/ Lose

Next ==
  \/ StartReceiver \/ StartReceiverFails \/ Connect
  \/ \E understood \in BOOLEAN : Command(understood)
  \/ Receive
  \/ StopBegin \/ StopEnd
  \/ ReceiverThread
  \/ Exchange

Spec == Init /\ [][Next]_vars

\* The exchange answers what it has not lost, and what has been sent arrives.
\* Nobody makes the user type.
FairSpec == Spec /\ WF_vars(Receive) /\ WF_vars(Answer \/ Lose)
----------------------------------------------------------------------------
(* Properties *)

\* Every variable has its type; the client prints messages, never delimiters.
TypeOK ==
  /\ main \in {"start", "connect", "prompt", "receive", "close", "exited"}
  /\ sent \in 0 .. MaxCommands
  /\ printed \in {"none", "answer", "report"}
  /\ reportsRead \in 0 .. MaxReports
  /\ running \in BOOLEAN
  /\ descriptor \in {"none", "open", "closed"}
  /\ thread \in {"none", "top", "recv", "handle", "ended"}
  /\ late \in Nat
  /\ requests \in 0 .. sent
  /\ \A i \in DOMAIN replies : replies[i] \in {Message("answer"), Message("report")}
  /\ reports \in 0 .. MaxReports
  /\ lost \in 0 .. sent

UnreadAnswers ==
  requests + Cardinality({i \in DOMAIN replies : replies[i] = Message("answer")})

\* Each execution report that is read in place of an answer leaves the client
\* one answer behind, and it never catches up: at the prompt, as many answers
\* are still to be read, or lost, as reports have been printed.
AnswersBehind == main = "prompt" => UnreadAnswers + lost = reportsRead

\* The wait for a response, which has no timeout, ends unless an answer was
\* lost: a command always has a message of its own to read.
ReceiveReturns == main = "receive" /\ lost = 0 ~> main # "receive" \/ lost > 0

\* cpp_client/src/main.cpp:341: after a command one response is read, and when
\* there is none the client says so and goes on.  zmqRecvPayload gives up on an
\* error only, not on an answer that does not come.
EveryCommandReturns == main = "receive" ~> main # "receive"

\* The thread, which stop() does not wait for, handles at most one datagram
\* after it.
OneLateDatagram == late <= 1
=============================================================================
