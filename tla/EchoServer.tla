------------------------------ MODULE EchoServer ------------------------------
(***************************************************************************)
(* The echo server that serves at most MAX_CLIENTS at a time               *)
(* (Sockets/echo-server) and the client that waits a moment after it has   *)
(* connected, in case it is turned away (Sockets/echo-client).  One thread *)
(* serves one connection.  A thread that turns its client away holds the   *)
(* mutex of the counter while it sends the refusal and sleeps.             *)
(*                                                                         *)
(* Only the sleep and the client's wait take time; everything else is done *)
(* before time goes on.  A client is a terminal at which the program is    *)
(* run again and again.                                                    *)
(*                                                                         *)
(* A line is one message, and no longer than one recv() takes (1023        *)
(* bytes).  A longer one the server would take for several lines, and      *)
(* answer several times; the limit and the counter do not depend on it.    *)
(***************************************************************************)
EXTENDS Integers, FiniteSets

CONSTANTS Clients, NoClient,
          MAX_CLIENTS,
          Sleep,   \* how long a thread sleeps after a refusal: 100 ms
          Window   \* how long the client waits for one: 100 ms

ASSUME EchoAssumption ==
    /\ IsFiniteSet(Clients) /\ NoClient \notin Clients
    /\ MAX_CLIENTS \in Nat \ {0} /\ Sleep \in Nat \ {0} /\ Window \in Nat \ {0}

VARIABLES active,  \* active_clients
          mutex,   \* who holds active_clients_mutex
          thread,  \* per client: where the thread of its connection is
          asleep,  \* how long that thread still sleeps
          line,    \* what the client sent and the thread has not received
          told,    \* current_clients: the count the thread has read, until it answers
          inbox,   \* what the server sent and the client has not received
          pc,      \* per client: where its program is
          patience \* how long its select() still waits

serverVars == <<active, mutex, thread, asleep, told>>
clientVars == <<pc, patience>>
vars == <<serverVars, clientVars, line, inbox>>

Nothing == [kind |-> "none"]
Refusal == [kind |-> "too many clients"]
Goodbye == [kind |-> "goodbye"]
Text == [kind |-> "text"]
Count(n) == [kind |-> "count", count |-> n]
Replies == {Refusal, Goodbye, Text} \cup {Count(n) : n \in 0..MAX_CLIENTS}

\* "other" stands for ECHO, TIME, HELP and every line that is no command.
Lines == {"CLIENTS", "QUIT", "other"}

Counted == {"serving", "counting", "answering", "leaving"}

TypeOK ==
    /\ active \in 0..MAX_CLIENTS
    /\ mutex \in Clients \cup {NoClient}
    /\ thread \in [Clients -> {"gone", "starting", "refusing"} \cup Counted]
    /\ asleep \in [Clients -> 0..Sleep]
    /\ line \in [Clients -> Lines \cup {"none"}]
    /\ told \in [Clients -> 0..MAX_CLIENTS]
    /\ inbox \in [Clients -> Replies \cup {Nothing}]
    /\ pc \in [Clients -> {"away", "checking", "prompt", "waiting"}]
    /\ patience \in [Clients -> 0..Window]

-----------------------------------------------------------------------------
(* The server: handleClient.                                               *)

Thread(c, from, to) == thread[c] = from /\ thread' = [thread EXCEPT ![c] = to]
SendTo(c, reply) == inbox' = [inbox EXCEPT ![c] = reply]

\* Mutant: the counter is compared with > instead of >=.
AdmitOneMore(c) ==
    /\ Thread(c, "starting", "serving")
    /\ mutex = NoClient /\ active <= MAX_CLIENTS
    /\ active' = active + 1
    /\ UNCHANGED <<mutex, asleep, told, line, inbox, clientVars>>

Admit(c) ==
    /\ Thread(c, "starting", "serving")
    /\ mutex = NoClient /\ active < MAX_CLIENTS
    /\ active' = active + 1
    /\ UNCHANGED <<mutex, asleep, told, line, inbox, clientVars>>

\* Mutant: the thread sleeps first and sends the refusal when it closes.
RefuseLate(c) ==
    /\ Thread(c, "starting", "refusing")
    /\ mutex = NoClient /\ active >= MAX_CLIENTS
    /\ mutex' = c
    /\ asleep' = [asleep EXCEPT ![c] = Sleep]
    /\ UNCHANGED <<active, told, line, inbox, clientVars>>

Refuse(c) ==
    /\ Thread(c, "starting", "refusing")
    /\ mutex = NoClient /\ active >= MAX_CLIENTS
    /\ mutex' = c
    /\ SendTo(c, Refusal)
    /\ asleep' = [asleep EXCEPT ![c] = Sleep]
    /\ UNCHANGED <<active, told, line, clientVars>>

\* Mutant: the refused thread goes through the cleanup at the end.
CloseRefusedCounted(c) ==
    /\ Thread(c, "refusing", "gone")
    /\ asleep[c] = 0
    /\ mutex' = NoClient
    /\ active' = active - 1
    /\ line' = [line EXCEPT ![c] = "none"]
    /\ UNCHANGED <<asleep, told, inbox, clientVars>>

\* The sleep is over: the socket is closed, and the lock_guard releases the
\* mutex on return.
CloseRefused(c) ==
    /\ Thread(c, "refusing", "gone")
    /\ asleep[c] = 0
    /\ mutex' = NoClient
    /\ line' = [line EXCEPT ![c] = "none"]
    /\ UNCHANGED <<active, asleep, told, inbox, clientVars>>

\* recv(): a whole line at once.
Receive(c) ==
    /\ Thread(c, "serving", "counting")
    /\ line[c] # "none"
    /\ UNCHANGED <<active, mutex, asleep, told, line, inbox, clientVars>>

\* Mutant: recv() is compared with < 0, and its 0 taken for an empty line.
ReceiveEndless(c) ==
    /\ Thread(c, "serving", "serving")
    /\ line[c] = "none" /\ pc[c] = "away"
    /\ UNCHANGED <<active, mutex, asleep, told, line, inbox, clientVars>>

\* recv() returns 0: the client has closed its end.
ReceiveEnd(c) ==
    /\ Thread(c, "serving", "leaving")
    /\ line[c] = "none" /\ pc[c] = "away"
    /\ UNCHANGED <<active, mutex, asleep, told, line, inbox, clientVars>>

\* The count is read under the mutex for every line, whatever it asks.
ReadCount(c) ==
    /\ Thread(c, "counting", "answering")
    /\ mutex = NoClient
    /\ told' = [told EXCEPT ![c] = active]
    /\ UNCHANGED <<active, mutex, asleep, line, inbox, clientVars>>

\* Mutant: a line that is no command gets an empty response.
ResponseOrNothing(c) ==
    CASE line[c] = "CLIENTS" -> Count(told[c])
      [] line[c] = "QUIT" -> Goodbye
      [] line[c] = "other" -> Nothing

build_response(c) ==
    CASE line[c] = "CLIENTS" -> Count(told[c])
      [] line[c] = "QUIT" -> Goodbye
      [] line[c] = "other" -> Text

\* The response is sent, to a client that may have left.  QUIT ends the loop,
\* and so may a response that could not be sent.
Answer(c) ==
    /\ \/ Thread(c, "answering", "serving") /\ line[c] # "QUIT"
       \/ Thread(c, "answering", "leaving") /\ (line[c] = "QUIT" \/ pc[c] = "away")
    /\ inbox' = IF pc[c] = "away" THEN inbox ELSE [inbox EXCEPT ![c] = build_response(c)]
    /\ line' = [line EXCEPT ![c] = "none"]
    /\ told' = [told EXCEPT ![c] = 0]
    /\ UNCHANGED <<active, mutex, asleep, clientVars>>

Leave(c) ==
    /\ Thread(c, "leaving", "gone")
    /\ mutex = NoClient
    /\ active' = active - 1
    /\ line' = [line EXCEPT ![c] = "none"]
    /\ UNCHANGED <<mutex, asleep, told, inbox, clientVars>>

ThreadStep(c) == \/ Admit(c) \/ Refuse(c) \/ CloseRefused(c) \/ Receive(c) \/ ReceiveEnd(c)
                 \/ ReadCount(c) \/ Answer(c) \/ Leave(c)

-----------------------------------------------------------------------------
(* The client: main.                                                       *)

Goto(c, from, to) == pc[c] = from /\ pc' = [pc EXCEPT ![c] = to]

\* The server accepts the connection and starts its thread.
Connect(c) ==
    /\ Goto(c, "away", "checking")
    /\ Thread(c, "gone", "starting")
    /\ patience' = [patience EXCEPT ![c] = Window]
    /\ SendTo(c, Nothing)
    /\ UNCHANGED <<active, mutex, asleep, told, line>>

\* A message before select() gives up is a refusal: it is printed, and the
\* program ends.
TurnAway(c) ==
    /\ Goto(c, "checking", "away")
    /\ inbox[c] # Nothing
    /\ SendTo(c, Nothing)
    /\ patience' = [patience EXCEPT ![c] = 0]
    /\ UNCHANGED <<serverVars, line>>

\* select() gives up, and the program takes itself to be served.
Proceed(c) ==
    /\ Goto(c, "checking", "prompt")
    /\ patience[c] = 0
    /\ UNCHANGED <<serverVars, line, inbox, patience>>

\* A line that reaches a closed socket is answered with a reset, which may
\* take what was not received yet with it.
SendLine(c, text) ==
    /\ Goto(c, "prompt", "waiting")
    /\ IF thread[c] = "gone"
         THEN inbox' \in {inbox, [inbox EXCEPT ![c] = Nothing]} /\ UNCHANGED line
         ELSE line' = [line EXCEPT ![c] = text] /\ UNCHANGED inbox
    /\ UNCHANGED <<serverVars, patience>>

PrintReply(c) ==
    /\ Goto(c, "waiting", "prompt")
    /\ inbox[c] # Nothing
    /\ SendTo(c, Nothing)
    /\ UNCHANGED <<serverVars, line, patience>>

\* The server has closed the connection, or the user ends the program.
Stop(c) ==
    /\ Goto(c, "waiting", "away") \/ Goto(c, "prompt", "away")
    /\ SendTo(c, Nothing)
    /\ UNCHANGED <<serverVars, line, patience>>

ClientStep(c) == \/ Connect(c) \/ TurnAway(c) \/ Proceed(c) \/ PrintReply(c) \/ Stop(c)
                 \/ \E text \in Lines : SendLine(c, text)

-----------------------------------------------------------------------------
\* The thread has ended, sleeps, or waits for its client or for the mutex.
Idle(c) ==
    \/ thread[c] = "gone"
    \/ thread[c] = "refusing" /\ asleep[c] > 0
    \/ thread[c] = "serving" /\ line[c] = "none" /\ pc[c] # "away"
    \/ thread[c] \in {"starting", "counting", "leaving"} /\ mutex # NoClient

\* Time goes on when no thread has anything to do and no client overlooks a
\* message or the end of its wait.
Tick ==
    /\ \A c \in Clients :
           /\ Idle(c)
           /\ pc[c] = "checking" => inbox[c] = Nothing /\ patience[c] > 0
    /\ \E c \in Clients : asleep[c] > 0 \/ pc[c] = "checking"
    /\ asleep' = [c \in Clients |-> IF asleep[c] > 0 THEN asleep[c] - 1 ELSE 0]
    /\ patience' = [c \in Clients |-> IF patience[c] > 0 THEN patience[c] - 1 ELSE 0]
    /\ UNCHANGED <<active, mutex, thread, told, line, inbox, pc>>

Init ==
    /\ active = 0 /\ mutex = NoClient
    /\ thread = [c \in Clients |-> "gone"]
    /\ asleep = [c \in Clients |-> 0]
    /\ line = [c \in Clients |-> "none"]
    /\ told = [c \in Clients |-> 0]
    /\ inbox = [c \in Clients |-> Nothing]
    /\ pc = [c \in Clients |-> "away"]
    /\ patience = [c \in Clients |-> 0]

Next == Tick \/ \E c \in Clients : ThreadStep(c) \/ ClientStep(c)

Spec == Init /\ [][Next]_vars

\* What the program does on its own, or because the server closed the connection;
\* connecting, typing a line and ending the program are up to the user.
ProgramStep(c) == \/ TurnAway(c) \/ Proceed(c) \/ PrintReply(c)
                  \/ pc[c] = "waiting" /\ thread[c] = "gone" /\ Stop(c)

\* Every thread and every program that can go on does, and time passes.
FairSpec == /\ Spec /\ WF_vars(Tick)
            /\ \A c \in Clients : WF_vars(ThreadStep(c)) /\ WF_vars(ProgramStep(c))

-----------------------------------------------------------------------------
(* Properties.                                                             *)

\* The counter is the number of connections that were admitted and have not
\* been cleaned up, through refusals, QUIT, failed sends and hang-ups.
Admitted == {c \in Clients : thread[c] \in Counted}
CountExact == active = Cardinality(Admitted)

\* A client that is turned away learns it from its check: it does not go on as
\* if it were served.
RefusalNoticed ==
    \A c \in Clients :
        pc[c] \in {"prompt", "waiting"} => inbox[c] # Refusal /\ thread[c] # "refusing"

\* Each thread waits for its client and each client for its thread, but never
\* both at once: a client that waits for an answer has a line on its way, an
\* answer on its way, or no connection any more.
NobodyStuck ==
    \A c \in Clients : pc[c] = "waiting" =>
        \/ line[c] # "none" \/ inbox[c] # Nothing \/ thread[c] = "gone"

\* The count a thread is about to answer with, and the one on its way to a client.
Noted(c) == IF thread[c] = "answering" THEN told[c] ELSE -1
Report(c) == IF inbox[c].kind = "count" THEN inbox[c].count ELSE -1

Gate == INSTANCE Turnstile WITH
    Limit <- MAX_CLIENTS,
    inside <- Admitted,
    turned <- {c \in Clients : thread[c] = "refusing"},
    noted <- [c \in Clients |-> Noted(c)],
    report <- [c \in Clients |-> Report(c)]

\* Counter, mutex and threads together are a turnstile: a client is let in while
\* there is room and turned away only when there is none, and the answer to
\* CLIENTS, although the thread lets go of the mutex before it answers, is the
\* number of clients there were at one moment since the question came.
Admission == Gate!TurnstileSpec

\* A thread waits for the mutex while another one sleeps with it, and a mutex
\* favours nobody: a thread may be passed over as long as there are refusals.
RefusalsEnd == <>[](mutex = NoClient)

\* Once refusals end, whoever sent a line gets an answer or the end of the
\* connection.
Answered == RefusalsEnd => \A c \in Clients : pc[c] = "waiting" ~> pc[c] # "waiting"

\* Once refusals end, the place of a client that has left becomes free, whatever
\* the client was doing when it left.
PlaceFreed == RefusalsEnd => \A c \in Clients :
    (thread[c] # "gone" /\ pc[c] = "away") ~> thread[c] = "gone"

-----------------------------------------------------------------------------
(* The inductive invariant.                                                *)

\* A thread that counts or answers has a line to answer.
AnsweringLine == \A c \in Clients : thread[c] \in {"counting", "answering"} => line[c] # "none"

IInv == TypeOK /\ CountExact /\ NobodyStuck /\ AnsweringLine

\* A client that is or will be served hears one answer to one line, and a count
\* that was sent stands until its client hears it or leaves.
Dialog(c) ==
    /\ thread[c] = "gone" => line[c] = "none"
    /\ thread[c] = "starting" => inbox[c] = Nothing
    /\ thread[c] \in Counted \cup {"starting"} =>
          /\ inbox[c] # Nothing => pc[c] = "waiting" /\ line[c] = "none"
          /\ line[c] # "none" => pc[c] \in {"waiting", "away"}
    /\ inbox[c].kind = "count" => pc[c] = "waiting"

DialogInv == \A c \in Clients : Dialog(c)

-----------------------------------------------------------------------------
(* RefusalNoticed holds where at most one client is refused at a time.     *)

OneTooMany == Cardinality(Clients) <= MAX_CLIENTS + 1

\* The mutex is held by the thread that refuses, and all other clients have the
\* places.
Alone(c) == mutex = c /\ \A d \in Clients \ {c} : thread[d] \in Counted

RefusalFor(c) ==
    /\ mutex = c => thread[c] = "refusing"
    /\ thread[c] = "refusing" => Alone(c) /\ (pc[c] = "away" \/ inbox[c] = Refusal)
    /\ thread[c] = "starting" => pc[c] = "checking" /\ inbox[c] = Nothing
    /\ thread[c] = "starting" \/ inbox[c] = Refusal => pc[c] = "checking" /\ patience[c] > 0

RefusalInv == \A c \in Clients : RefusalFor(c)
=============================================================================
