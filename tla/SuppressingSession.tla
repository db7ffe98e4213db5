-------------------------- MODULE SuppressingSession --------------------------
(***************************************************************************)
(* handleClient of the name server and of the list server: the thread that *)
(* serves one connection.  It greets the client with its client id, then   *)
(* reads length-prefixed frames, answers each one in order, and suppresses *)
(* a request that repeats the message id of the request before it by       *)
(* sending the previous response again.                                    *)
(*                                                                         *)
(* The two directions of the connection are FIFO streams of frames; the    *)
(* stream towards the client is bounded, as the buffers of TCP are, so a   *)
(* send may have to wait for the client to read.  Either end may disappear *)
(* at any moment.  What a request does is left to the service: a run of it *)
(* is told from every other run by its number.                             *)
(***************************************************************************)
EXTENDS Integers, Sequences

CONSTANTS ClientId,     \* the id this connection was given
          OtherId,      \* the id of some other connection
          MessageIds,   \* message ids a client may choose
          Opcodes,      \* opcodes, Quit among them
          Quit,
          NoOpcode,     \* the frame ends where the opcode should be
          Capacity,     \* replies the stream towards the client holds
          MaxFrames     \* bound: frames the client sends

ASSUME SessionAssumption ==
    /\ ClientId # OtherId
    /\ MessageIds \subseteq Int
    /\ Quit \in Opcodes /\ NoOpcode \notin Opcodes
    /\ Capacity \in Nat \ {0}
    /\ MaxFrames \in Nat

VARIABLES pc,                   \* where the thread is
          clientOpen,           \* the client's end of the connection
          inbox,                \* frames on their way to the server
          outbox,               \* replies on their way to the client
          request,              \* the frame being handled
          response,             \* the response being sent
          lastMessage,          \* message id of the last request answered
          lastResponsePayload,  \* and the response it got
          executed,             \* history: the requests the service ran
          handled,              \* history: the requests read and let through
          replies,              \* history: the responses sent to them, a client
                                \* that has gone included
          received,             \* history: what the client has read
          frames                \* how many frames the client has sent

cache == <<lastMessage, lastResponsePayload>>
history == <<executed, handled, replies>>
client == <<received, frames>>
vars == <<pc, clientOpen, inbox, outbox, request, response, cache, history, client>>

\* A frame of length zero; a payload too short for the two ids; a payload with
\* the two ids, whose opcode may be missing.
Frame == [kind : {"empty", "short"}] \cup
         [kind : {"request"}, client : {ClientId, OtherId}, id : MessageIds,
          opcode : Opcodes \cup {NoOpcode}]
Request == {f \in Frame : f.kind = "request"}

\* A response is the greeting, an error of the session, the empty payload the
\* cache starts with, or what run number `run' of the service answered.
Ran == [kind : {"ran", "bye"}, run : Nat]
Greeting == [kind |-> "clientId", run |-> 0]
ErrorReply == [kind |-> "error", run |-> 0]
EmptyPayload == [kind |-> "empty", run |-> 0]
Reply == Ran \cup {Greeting, ErrorReply, EmptyPayload}

TypeOK ==
    /\ pc \in {"greet", "read", "check", "respond", "closed"}
    /\ clientOpen \in BOOLEAN
    /\ inbox \in Seq(Frame)
    /\ outbox \in Seq(Reply)
    /\ request \in Frame
    /\ pc = "check" => request.kind # "empty"
    /\ pc = "respond" => request \in Request
    /\ response \in Reply
    /\ lastMessage \in Int
    /\ lastResponsePayload \in Reply
    /\ executed \in Seq(Request)
    /\ handled \in Seq(Request)
    /\ replies \in Seq(Reply)
    /\ received \in Seq(Reply)
    /\ frames \in Nat

-----------------------------------------------------------------------------
\* sendAll: true puts the reply on the stream, waiting for room if the client
\* is there to make some; a vanished client makes it fail, at once or, while
\* the kernel still takes the bytes, not yet.
SendOk(reply) ==
    IF clientOpen THEN Len(outbox) < Capacity /\ outbox' = Append(outbox, reply)
                  ELSE UNCHANGED outbox
SendFails == ~clientOpen /\ UNCHANGED outbox
SendEither(reply) == SendOk(reply) \/ SendFails

Greet ==
    /\ pc = "greet"
    /\ \/ SendOk(Greeting) /\ pc' = "read"
       \/ SendFails /\ pc' = "closed"
    /\ UNCHANGED <<clientOpen, inbox, request, response, cache, history, client>>

\* readMessage: a frame of length zero is no message, and ends the session.
ReadFrame ==
    /\ pc = "read" /\ inbox # <<>>
    /\ inbox' = Tail(inbox)
    /\ request' = Head(inbox)
    /\ pc' = IF Head(inbox).kind = "empty" THEN "closed" ELSE "check"
    /\ UNCHANGED <<clientOpen, outbox, response, cache, history, client>>

\* Mutant: recv returning 0 is not taken for the end of the stream.
ReadFailsOnReset ==
    /\ pc = "read" /\ ~clientOpen /\ inbox # <<>>
    /\ pc' = "closed"
    /\ UNCHANGED <<clientOpen, inbox, outbox, request, response, cache, history, client>>

\* recv returns 0 or fails: the client is gone and all it sent has been read,
\* or is lost (a reset).
ReadFails ==
    /\ pc = "read" /\ ~clientOpen
    /\ pc' = "closed"
    /\ UNCHANGED <<clientOpen, inbox, outbox, request, response, cache, history, client>>

Repeated == request.id = lastMessage

\* The checks before suppression: both ids present, the client id right.
Malformed == IF request.kind = "short" THEN TRUE ELSE request.client # ClientId

\* An error reply, sent or not, ends the session: for a malformed frame, and
\* for a request that is not suppressed and has no opcode.
Refuse ==
    /\ pc = "check"
    /\ IF Malformed THEN TRUE ELSE ~Repeated /\ request.opcode = NoOpcode
    /\ SendEither(ErrorReply)
    /\ pc' = "closed"
    /\ UNCHANGED <<clientOpen, inbox, request, response, cache, history, client>>

\* What handleRequest makes of the request: run number `run'.
Outcome(run) == [kind |-> IF request.opcode = Quit THEN "bye" ELSE "ran", run |-> run]

\* Mutant: the `continue' is missing, so that a request that was answered as a
\* repetition is run as well, and answered again.
SuppressRunsOn ==
    /\ pc = "check" /\ ~Malformed /\ Repeated /\ request.opcode # NoOpcode
    /\ SendEither(lastResponsePayload)
    /\ handled' = Append(handled, request)
    /\ replies' = Append(replies, lastResponsePayload)
    /\ executed' = Append(executed, request)
    /\ response' = Outcome(Len(executed) + 1)
    /\ pc' = "respond"
    /\ UNCHANGED <<clientOpen, inbox, request, cache, client>>

\* The message id of the last answered request: the thread sends the response
\* of that request again and does not ask whether it could.
Suppress ==
    /\ pc = "check" /\ ~Malformed /\ Repeated
    /\ SendEither(lastResponsePayload)
    /\ handled' = Append(handled, request)
    /\ replies' = Append(replies, lastResponsePayload)
    /\ pc' = "read"
    /\ UNCHANGED <<clientOpen, inbox, request, response, cache, executed, client>>

\* handleRequest: the service runs the request (an unknown opcode is run too,
\* and answered with an error the session treats like any response).
Execute ==
    /\ pc = "check" /\ ~Malformed /\ ~Repeated /\ request.opcode # NoOpcode
    /\ executed' = Append(executed, request)
    /\ handled' = Append(handled, request)
    /\ response' = Outcome(Len(executed) + 1)
    /\ pc' = "respond"
    /\ UNCHANGED <<clientOpen, inbox, outbox, request, cache, replies, client>>

\* Mutants: the id is not remembered; the response is not; Bye does not end the
\* session.
RespondForgetsId ==
    /\ pc = "respond"
    /\ SendOk(response)
    /\ lastResponsePayload' = response
    /\ replies' = Append(replies, response)
    /\ pc' = IF response.kind = "bye" THEN "closed" ELSE "read"
    /\ UNCHANGED <<clientOpen, inbox, request, response, lastMessage, executed,
                   handled, client>>

RespondForgetsReply ==
    /\ pc = "respond"
    /\ SendOk(response)
    /\ lastMessage' = request.id
    /\ replies' = Append(replies, response)
    /\ pc' = IF response.kind = "bye" THEN "closed" ELSE "read"
    /\ UNCHANGED <<clientOpen, inbox, request, response, lastResponsePayload,
                   executed, handled, client>>

RespondGoesOn ==
    /\ pc = "respond"
    /\ SendOk(response)
    /\ lastMessage' = request.id
    /\ lastResponsePayload' = response
    /\ replies' = Append(replies, response)
    /\ pc' = "read"
    /\ UNCHANGED <<clientOpen, inbox, request, response, executed, handled, client>>

\* Only a response that was sent is remembered; Bye ends the session.
Respond ==
    /\ pc = "respond"
    /\ SendOk(response)
    /\ lastMessage' = request.id
    /\ lastResponsePayload' = response
    /\ replies' = Append(replies, response)
    /\ pc' = IF response.kind = "bye" THEN "closed" ELSE "read"
    /\ UNCHANGED <<clientOpen, inbox, request, response, executed, handled, client>>

RespondFails ==
    /\ pc = "respond"
    /\ SendFails
    /\ pc' = "closed"
    /\ UNCHANGED <<clientOpen, inbox, request, response, cache, history, client>>

ServerStep == \/ Greet \/ ReadFrame \/ ReadFails \/ Refuse \/ Suppress
              \/ Execute \/ Respond \/ RespondFails

\* The server process dies, wherever this thread is (a send on a connection
\* that was reset raises SIGPIPE, which no thread handles).
Crash ==
    /\ pc # "closed"
    /\ pc' = "closed"
    /\ UNCHANGED <<clientOpen, inbox, outbox, request, response, cache, history, client>>

-----------------------------------------------------------------------------
\* The client: sends any frames without waiting for answers, reads replies,
\* and hangs up when it likes.
Send(f) ==
    /\ clientOpen /\ frames < MaxFrames
    /\ inbox' = Append(inbox, f)
    /\ frames' = frames + 1
    /\ UNCHANGED <<pc, clientOpen, outbox, request, response, cache, history, received>>

Receive ==
    /\ clientOpen /\ outbox # <<>>
    /\ outbox' = Tail(outbox)
    /\ received' = Append(received, Head(outbox))
    /\ UNCHANGED <<pc, clientOpen, inbox, request, response, cache, history, frames>>

HangUp ==
    /\ clientOpen
    /\ clientOpen' = FALSE
    /\ UNCHANGED <<pc, inbox, outbox, request, response, cache, history, client>>

Init ==
    /\ pc = "greet" /\ clientOpen = TRUE
    /\ inbox = <<>> /\ outbox = <<>>
    /\ request = [kind |-> "empty"] /\ response = EmptyPayload
    /\ lastMessage = 0 /\ lastResponsePayload = EmptyPayload
    /\ executed = <<>> /\ handled = <<>> /\ replies = <<>>
    /\ received = <<>> /\ frames = 0

Next == \/ ServerStep \/ Crash
        \/ \E f \in Frame : Send(f)
        \/ Receive \/ HangUp

Spec == Init /\ [][Next]_vars

\* The scheduler runs the thread, and a client that stays reads its replies.
\* It need not send anything, and no end is obliged to stay.
FairSpec == Spec /\ WF_vars(ServerStep) /\ WF_vars(Receive)

-----------------------------------------------------------------------------
(* Properties.                                                             *)

\* Message ids before the k-th handled request: 0 before the first.
PrecedingId(k) == IF k = 1 THEN 0 ELSE handled[k - 1].id
PrecedingReply(k) == IF k = 1 THEN EmptyPayload ELSE replies[k - 1]

\* The k-th reply answers the k-th request: a request that repeats the id
\* before it gets the very response before it, any other gets the response of
\* a run of its own, and of its own opcode.  Pipelining, failed sends and the
\* order in which thread and client move cannot shift one against the other.
RepliesMatch ==
    \A k \in 1..Len(replies) :
        IF handled[k].id = PrecedingId(k)
          THEN replies[k] = PrecedingReply(k)
          ELSE /\ replies[k].run \in 1..Len(executed)
               /\ executed[replies[k].run] = handled[k]
               /\ \A j \in 1..(k - 1) : replies[j].run < replies[k].run

\* The answers the client has: all it has read but the greeting.
Answers == IF received = <<>> THEN 0 ELSE Len(received) - 1

\* The service ran a request for the client, and the client has read no answer
\* that tells of it.
InDoubt(n) == \A k \in 1..Len(received) : received[k].run # n

\* A client that sent m frames more than it has answers has to find out, when
\* the connection breaks, about the last m runs at most, whatever was lost on
\* the way or went to a connection that was gone.  A client that waits for each
\* answer, as registerWithNameServer does, has to find out about one.
DoubtBounded ==
    \A n \in 1..Len(executed) : InDoubt(n) => Len(executed) - n < frames - Answers

\* A run is never repeated: the id a retransmission carries is that of the last
\* run, so no two runs in a row are of the same message id, nor is a first
\* request with id 0 ever run.
NoRepeatedRun ==
    \A n \in 1..Len(executed) :
        executed[n].id # (IF n = 1 THEN 0 ELSE executed[n - 1].id)

\* After Bye nothing runs: the thread handles no request behind a QUIT.
NothingAfterBye ==
    [][(\E k \in 1..Len(replies) : replies[k].kind = "bye") => UNCHANGED history]_vars

\* A session whose client has gone ends: no thread is left behind waiting.
SessionEnds == ~clientOpen ~> pc = "closed"

-----------------------------------------------------------------------------
(* The inductive invariant behind the safety properties.                   *)

\* The run that the last reply came from; 0 before the first.
LastRun == lastResponsePayload.run

\* The cache is the last request answered, its reply, and the last run of
\* which the client was told.
CacheIsLast ==
    /\ lastMessage = PrecedingId(Len(replies) + 1)
    /\ lastResponsePayload = PrecedingReply(Len(replies) + 1)
    /\ LastRun \in 0..Len(executed)
    /\ LastRun = 0 => lastMessage = 0
    /\ LastRun # 0 => executed[LastRun].id = lastMessage

\* The replies told the client of every run up to the last one, and no other.
RunsTold ==
    /\ \A k \in 1..Len(replies) : replies[k].run <= LastRun
    /\ \A n \in 1..LastRun : \E k \in 1..Len(replies) : replies[k].run = n

\* Between running a request and sending its response there is one run of which
\* the client was not told; if the send fails, it stays so.
Pending ==
    /\ Len(replies) <= Len(handled)
    /\ pc \in {"greet", "read", "check"} =>
           Len(executed) = LastRun /\ Len(handled) = Len(replies)
    /\ pc = "respond" =>
           /\ Len(executed) = LastRun + 1 /\ Len(handled) = Len(replies) + 1
           /\ response.run = LastRun + 1
           /\ executed[LastRun + 1] = request /\ handled[Len(replies) + 1] = request
           /\ request.id # lastMessage
    /\ Len(executed) <= LastRun + 1

ByeIsLast == (\E k \in 1..Len(replies) : replies[k].kind = "bye") => pc = "closed"

IInv == /\ TypeOK /\ CacheIsLast /\ RunsTold /\ Pending /\ ByeIsLast
        /\ RepliesMatch /\ NoRepeatedRun

\* What the client is sent, one after the other: the greeting, the replies, and
\* the error that ends the session.
Told == [k \in Nat |-> IF k = 1 THEN Greeting
                       ELSE IF k <= Len(replies) + 1 THEN replies[k - 1] ELSE ErrorReply]

Sent == Len(received) + Len(outbox)

\* The stream carries it without a gap; what is missing went to a client that
\* had gone, and is missing at the end.
AsTold ==
    /\ \A k \in 1..Len(received) : received[k] = Told[k]
    /\ \A k \in 1..Len(outbox) : outbox[k] = Told[Len(received) + k]
    /\ pc = "greet" => Sent = 0 /\ Len(replies) = 0
    /\ pc # "closed" => Sent <= Len(replies) + 1
    /\ clientOpen /\ pc \in {"read", "check", "respond"} => Sent = Len(replies) + 1
    /\ Sent <= Len(replies) + 1 \/ Len(executed) = LastRun

\* Every frame is handled once at most, and a run without a reply is that of a
\* handled frame without one.
Accounted ==
    /\ Len(handled) + Len(inbox) + (IF pc = "check" THEN 1 ELSE 0) <= frames
    /\ Len(executed) - LastRun = Len(handled) - Len(replies)

\* From one reply to the next there is one run at most.
RunsGrow ==
    \A j \in 1..Len(replies) : \A k \in 1..j : replies[j].run <= replies[k].run + (j - k)

ClientInv == AsTold /\ Accounted /\ RunsGrow
=============================================================================
