--------------------------- MODULE SequentialServer ---------------------------
(***************************************************************************)
(* The key-value server that serves one client at a time                   *)
(* (Sockets/key-value-server) and the terminals at which its client        *)
(* (Sockets/key-value-client) is run.  The server accepts a connection,    *)
(* serves it until it ends, and only then accepts the next; connections    *)
(* that wait for that are queued by the kernel, and their clients wait for *)
(* the greeting.                                                           *)
(***************************************************************************)
EXTENDS MapRequests, Sequences

CONSTANTS Clients,
          Nobody, Gone,  \* no connection; one whose client has closed it
          Backlog,       \* the connections that may wait: listen(fd, 10)
          Unknown        \* the client cannot say what the key has

ASSUME SequentialAssumption ==
    /\ Nobody \notin Clients /\ Gone \notin Clients /\ Nobody # Gone
    /\ Backlog \in Nat \ {0}
    /\ Unknown \notin Values \cup {NoValue}

VARIABLES store,     \* the map
          serverPc,  \* where the server is
          peer,      \* whose connection it serves
          line,      \* what it received on it and has not read
          command,   \* the command it runs
          response,  \* and what it answers
          queue,     \* the connections that wait to be accepted
          pc,        \* per client: where its program is
          asked,     \* the line it waits to see answered
          inbox,     \* what was sent to it and it has not read
          known      \* ghost: what its own commands told it of the keys, in this session

serverVars == <<store, serverPc, peer, command, response>>
vars == <<serverVars, line, queue, pc, asked, inbox, known>>

Commands == Requests \cup [op : {"exist"}, key : Keys] \cup [op : {"clear", "keys"}]

True == [kind |-> "true"]
False == [kind |-> "false"]
Empty == [kind |-> "empty"]
Greeting == [kind |-> "greeting"]
KeysReply(ks) == [kind |-> "keys", keys |-> ks]
Responses == Replies \cup {True, False, Empty} \cup [kind : {"keys"}, keys : SUBSET Keys]

TypeOK ==
    /\ store \in Stores
    /\ serverPc \in {"accepting", "reading", "running", "sending"}
    /\ peer \in Clients \cup {Nobody, Gone}
    /\ line \in Commands \cup {NoRequest}
    /\ command \in Commands \cup {NoRequest}
    /\ response \in Responses \cup {NoReply}
    /\ queue \in Seq(Clients \cup {Gone}) /\ Len(queue) <= Backlog
    /\ pc \in [Clients -> {"away", "greeting", "prompt", "waiting"}]
    /\ asked \in [Clients -> Commands \cup {NoRequest}]
    /\ inbox \in [Clients -> Seq(Responses \cup {Greeting})]
    /\ known \in [Clients -> [Keys -> Values \cup {NoValue, Unknown}]]

-----------------------------------------------------------------------------
(* handleCommand.                                                          *)

Held == {k \in Keys : store[k] # NoValue}
Is(op) == command.op = op
Answer(reply) == response' = reply /\ UNCHANGED store

\* Mutant: the map is passed by value.
PutCopy == Is("put") /\ Answer(Ok)
Put ==
    /\ Is("put")
    /\ store' = [store EXCEPT ![command.key] = command.value]
    /\ response' = Ok

Get ==
    /\ Is("get")
    /\ Answer(IF command.key \in Held THEN ValueReply(store[command.key]) ELSE NotFound)

Delete ==
    /\ Is("delete")
    /\ store' = [store EXCEPT ![command.key] = NoValue]
    /\ response' = IF command.key \in Held THEN Ok ELSE NotFound

Exist == Is("exist") /\ Answer(IF command.key \in Held THEN True ELSE False)
Clear == Is("clear") /\ store' = EmptyStore /\ response' = Ok
ListKeys == Is("keys") /\ Answer(IF Held = {} THEN Empty ELSE KeysReply(Held))
Count == Is("count") /\ Answer(CountReply(Size(store)))
Quit == Is("quit") /\ Answer(Bye)
Refuse == Is("invalid") /\ Answer(Error)

handleCommand ==
    /\ serverPc = "running" /\ serverPc' = "sending"
    /\ \/ Put \/ Get \/ Delete \/ Exist \/ Clear \/ ListKeys \/ Count \/ Quit \/ Refuse
    /\ UNCHANGED <<peer, line, command, queue, pc, asked, inbox, known>>

-----------------------------------------------------------------------------
(* handleClient and main.                                                  *)

Deliver(reply) ==
    inbox' = [c \in Clients |-> IF c = peer THEN Append(inbox[c], reply) ELSE inbox[c]]

\* accept() and the greeting.
Accept ==
    /\ serverPc = "accepting" /\ queue # <<>>
    /\ LET c == Head(queue) IN
           /\ peer' = c
           /\ inbox' = IF c = Gone THEN inbox ELSE [inbox EXCEPT ![c] = Append(@, Greeting)]
    /\ queue' = Tail(queue)
    /\ serverPc' = "reading"
    /\ UNCHANGED <<store, line, command, response, pc, asked, known>>

ReadLine ==
    /\ serverPc = "reading" /\ line # NoRequest
    /\ command' = line /\ line' = NoRequest
    /\ serverPc' = "running"
    /\ UNCHANGED <<store, peer, response, queue, pc, asked, inbox, known>>

\* The session ends: the socket is closed, and the server accepts again.
Close ==
    /\ serverPc' = "accepting" /\ peer' = Nobody
    /\ command' = NoRequest /\ response' = NoReply
    /\ UNCHANGED <<store, line, queue, pc, asked, known>>

\* Mutant: only a recv that fails ends the session, not one that returns 0: the
\* server goes on receiving nothing from a client that has gone.
ReadEndIgnored ==
    /\ serverPc = "reading" /\ line = NoRequest /\ peer = Gone
    /\ UNCHANGED vars

\* readMessage finds the end of the connection.
ReadEnd ==
    /\ serverPc = "reading" /\ line = NoRequest /\ peer = Gone
    /\ Close
    /\ UNCHANGED inbox

Send ==
    /\ serverPc = "sending" /\ response # Bye
    /\ Deliver(response)
    /\ serverPc' = "reading"
    /\ command' = NoRequest /\ response' = NoReply
    /\ UNCHANGED <<store, peer, line, queue, pc, asked, known>>

\* After BYE, and when the client has gone and the send fails.
SendLast ==
    /\ serverPc = "sending" /\ (response = Bye \/ peer = Gone)
    /\ Deliver(response)
    /\ Close

ServerStep == Accept \/ ReadLine \/ handleCommand \/ Send \/ SendLast \/ ReadEnd

-----------------------------------------------------------------------------
(* The client.                                                             *)

Goto(c, from, to) == pc[c] = from /\ pc' = [pc EXCEPT ![c] = to]
Ignorant == [k \in Keys |-> Unknown]

\* The kernel completes the connection; the program waits for the greeting.
Connect(c) ==
    /\ Goto(c, "away", "greeting")
    /\ Len(queue) < Backlog
    /\ queue' = Append(queue, c)
    /\ UNCHANGED <<serverVars, line, asked, inbox, known>>

\* Mutant: the program does not read the greeting.
GreetingLeft(c) ==
    /\ Goto(c, "greeting", "prompt")
    /\ inbox[c] # <<>>
    /\ UNCHANGED <<serverVars, line, queue, asked, inbox, known>>

ReadGreeting(c) ==
    /\ Goto(c, "greeting", "prompt")
    /\ inbox[c] # <<>>
    /\ inbox' = [inbox EXCEPT ![c] = Tail(@)]
    /\ UNCHANGED <<serverVars, line, queue, asked, known>>

\* A line on a connection the server has closed goes nowhere.
SendLine(c, r) ==
    /\ Goto(c, "prompt", "waiting")
    /\ line' = IF peer = c THEN r ELSE line
    /\ asked' = IF peer = c THEN [asked EXCEPT ![c] = r] ELSE asked
    /\ UNCHANGED <<serverVars, queue, inbox, known>>

\* What a reply tells its client of the keys.
Learnt(c, reply) ==
    LET r == asked[c]
        Of(k, x) == [known[c] EXCEPT ![k] = x]
    IN CASE r.op = "put" -> Of(r.key, r.value)
         [] r.op = "delete" -> Of(r.key, NoValue)
         [] r.op = "get" -> Of(r.key, IF reply = NotFound THEN NoValue ELSE reply.value)
         [] r.op = "clear" -> [k \in Keys |-> NoValue]
         [] r.op = "quit" -> Ignorant
         [] OTHER -> known[c]

\* The reply is printed.  The program ends after a line that is QUIT to the
\* letter, and not after one the server takes for it ("QUIT" and a blank).
ReadReply(c) ==
    /\ inbox[c] # <<>>
    /\ \/ Goto(c, "waiting", "prompt")
       \/ Goto(c, "waiting", "away") /\ Head(inbox[c]) = Bye
    /\ inbox' = [inbox EXCEPT ![c] = Tail(@)]
    /\ known' = [known EXCEPT ![c] = Learnt(c, Head(inbox[c]))]
    /\ asked' = [asked EXCEPT ![c] = NoRequest]
    /\ UNCHANGED <<serverVars, line, queue>>

\* "server disconnected".
FindClosed(c) ==
    /\ Goto(c, "waiting", "away")
    /\ inbox[c] = <<>> /\ peer # c
    /\ UNCHANGED <<serverVars, line, queue, asked, inbox, known>>

\* The user ends the input or the program, wherever it is.
Leave(c) ==
    /\ pc[c] # "away" /\ pc' = [pc EXCEPT ![c] = "away"]
    /\ peer' = IF peer = c THEN Gone ELSE peer
    /\ queue' = [i \in DOMAIN queue |-> IF queue[i] = c THEN Gone ELSE queue[i]]
    /\ inbox' = [inbox EXCEPT ![c] = <<>>]
    /\ asked' = [asked EXCEPT ![c] = NoRequest]
    /\ known' = [known EXCEPT ![c] = Ignorant]
    /\ UNCHANGED <<store, serverPc, command, response, line>>

ProgramStep(c) == ReadGreeting(c) \/ ReadReply(c) \/ FindClosed(c)
UserStep(c) == Connect(c) \/ Leave(c) \/ \E r \in Commands : SendLine(c, r)

Init ==
    /\ store = EmptyStore
    /\ serverPc = "accepting" /\ peer = Nobody
    /\ line = NoRequest /\ command = NoRequest /\ response = NoReply
    /\ queue = <<>>
    /\ pc = [c \in Clients |-> "away"]
    /\ asked = [c \in Clients |-> NoRequest]
    /\ inbox = [c \in Clients |-> <<>>]
    /\ known = [c \in Clients |-> Ignorant]

Next == ServerStep \/ \E c \in Clients : ProgramStep(c) \/ UserStep(c)

Spec == Init /\ [][Next]_vars

\* The server and the client programs run on; users do as they like.
FairSpec == Spec /\ WF_vars(ServerStep) /\ \A c \in Clients : WF_vars(ProgramStep(c))

-----------------------------------------------------------------------------
(* Properties.                                                             *)

\* The replies that can answer a command.
Fitting(op) ==
    CASE op \in {"put", "clear"} -> {"ok"}
      [] op = "get" -> {"value", "not found"}
      [] op = "delete" -> {"ok", "not found"}
      [] op = "exist" -> {"true", "false"}
      [] op = "keys" -> {"keys", "empty"}
      [] op = "count" -> {"count"}
      [] op = "quit" -> {"bye"}
      [] op = "invalid" -> {"error"}

\* What a client reads next answers the line it has sent, and nothing is left
\* over: neither a reply to an earlier line nor one to another client's.
AnswersFit ==
    \A c \in Clients :
        /\ pc[c] \in {"away", "prompt"} => inbox[c] = <<>>
        /\ pc[c] = "waiting" /\ inbox[c] # <<>> =>
               Len(inbox[c]) = 1 /\ Head(inbox[c]).kind \in Fitting(asked[c].op)

\* During its session a client is alone with the map: every reply agrees with
\* what its own commands have told it before.
Agrees(c, reply) ==
    LET r == asked[c]
        Has == {k \in Keys : known[c][k] \in Values}
        Lacks == {k \in Keys : known[c][k] = NoValue}
    IN /\ r.op = "get" /\ r.key \in Has => reply = ValueReply(known[c][r.key])
       /\ r.op = "get" /\ r.key \in Lacks => reply = NotFound
       /\ r.op = "delete" /\ r.key \in Has => reply = Ok
       /\ r.op = "exist" => r.key \notin (IF reply = True THEN Lacks ELSE Has)
       /\ r.op = "count" => reply.count \in Cardinality(Has) .. Cardinality(Keys \ Lacks)
       /\ r.op = "keys" /\ reply = Empty => Has = {}
       /\ r.op = "keys" /\ reply # Empty => Has \subseteq reply.keys /\ Lacks \cap reply.keys = {}

SessionAlone ==
    \A c \in Clients : pc[c] = "waiting" /\ inbox[c] # <<>> => Agrees(c, Head(inbox[c]))

\* As long as no session lasts for ever, every client that waits for the
\* greeting gets it, or gives up: no one is overtaken for ever.
Served ==
    (\A d \in Clients : []<>(peer # d)) =>
        \A c \in Clients : pc[c] = "greeting" ~> pc[c] # "greeting"

-----------------------------------------------------------------------------
(* The inductive invariant behind the safety properties.                   *)

\* Where the server is tells what it holds.
ServerInv ==
    /\ serverPc = "accepting" <=> peer = Nobody
    /\ serverPc \in {"accepting", "reading"} => command = NoRequest /\ response = NoReply
    /\ serverPc # "reading" => line = NoRequest
    /\ serverPc = "running" => command # NoRequest
    /\ serverPc = "sending" => command # NoRequest /\ response.kind \in Fitting(command.op)

\* What c knows is what the map has.
Informed(c, view) == \A k \in Keys : view[k] # Unknown => view[k] = store[k]

\* A reply that c is to read: it agrees with what c knows, and what c learns from it
\* is true while the session lasts.
Reply(c, reply) ==
    /\ asked[c] # NoRequest
    /\ reply.kind \in Fitting(asked[c].op)
    /\ Agrees(c, reply)
    /\ IF peer = c THEN Informed(c, Learnt(c, reply)) ELSE asked[c].op = "quit"

Queued(c) == \E i \in 1..Len(queue) : queue[i] = c
Idle(c) == peer # c /\ asked[c] = NoRequest /\ known[c] = Ignorant /\ inbox[c] = <<>>
Once(c) == \A i, j \in 1..Len(queue) : queue[i] = c /\ queue[j] = c => i = j
InSession(c) == peer = c /\ serverPc = "reading" /\ line = NoRequest /\ ~Queued(c)

ClientInv(c) ==
    /\ Once(c)
    /\ pc[c] = "away" => Idle(c) /\ ~Queued(c)
    /\ pc[c] = "greeting" =>
          \/ Idle(c) /\ Queued(c)
          \/ /\ InSession(c) /\ inbox[c] = <<Greeting>>
             /\ asked[c] = NoRequest /\ known[c] = Ignorant
    /\ pc[c] = "prompt" =>
          \/ Idle(c) /\ ~Queued(c)
          \/ InSession(c) /\ inbox[c] = <<>> /\ asked[c] = NoRequest /\ Informed(c, known[c])
    /\ pc[c] = "waiting" => ~Queued(c) /\
          \/ Idle(c)
          \/ /\ peer = c /\ inbox[c] = <<>> /\ asked[c] # NoRequest
             /\ serverPc = "reading" => line = asked[c] /\ Informed(c, known[c])
             /\ serverPc = "running" => command = asked[c] /\ Informed(c, known[c])
             /\ serverPc = "sending" => command = asked[c] /\ Reply(c, response)
          \/ /\ Len(inbox[c]) = 1 /\ Reply(c, inbox[c][1])
             /\ peer = c => InSession(c) /\ asked[c].op # "quit"

IInv == TypeOK /\ ServerInv /\ \A c \in Clients : ClientInv(c)
=============================================================================
