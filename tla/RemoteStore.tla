------------------------------ MODULE RemoteStore ------------------------------
(***************************************************************************)
(* The remote key-value store of RPC: the menu of the client program       *)
(* (main.cpp), the RemoteKeyValueStore whose methods are remote calls, the *)
(* stub that sends a request and waits for its response, and the server    *)
(* that runs the handlers.  Connections break and the server may die at    *)
(* any moment; a stub that has lost its connection never makes another.    *)
(* Programs of other kinds put and delete keys as they like.               *)
(* A handler is one step here, for it holds the mutex of the store from    *)
(* its first use of the map to its last.                                   *)
(***************************************************************************)
EXTENDS Naturals, FiniteSets

CONSTANTS Clients, Keys, Values, NoValue,
          NoMessage,
          MaxPuts  \* bound: the pairs one client enters

VARIABLES
    values,     \* the map of the server's SharedStore
    up,         \* the server process lives
    thread,     \* per connection: "serving", "replying" or "gone"
    reply,      \* the response its thread is about to send
    link,       \* the connection stands
    inbox,      \* the request on its way to the server
    outbox,     \* the response on its way to the client
    pc,         \* per client: where the program is
    connected,  \* socket_fd_ >= 0
    asked,      \* the request the stub waits for
    toGet,      \* the keys optionPrintValues has not asked for yet
    shown,      \* per key, the value it collected
    warned,     \* the keys it printed a warning for
    added,      \* the puts that were reported as done
    applied,    \* ghost: the puts of this client the server carried out
    mine,       \* ghost: the keys of the puts that were reported as done
    since,      \* ghost: the values each key had since the keys were asked for
    deleted     \* ghost: some key was deleted

server == <<values, up, thread, reply>>
network == <<link, inbox, outbox>>
program == <<pc, connected, asked, toGet, shown, warned, added>>
ghosts == <<applied, mine, since, deleted>>
vars == <<server, network, program, ghosts>>

Requests == [op : {"put"}, key : Keys, value : Values] \cup [op : {"get"}, key : Keys]
                                                      \cup [op : {"keys"}]
Ok == [kind |-> "ok"]
NotFound == [kind |-> "not found"]
Replies == {Ok, NotFound} \cup [kind : {"value"}, value : Values]
                          \cup [kind : {"keys"}, keys : SUBSET Keys]

ASSUME RemoteAssumption ==
    /\ NoValue \notin Values /\ MaxPuts \in Nat
    /\ NoMessage \notin Requests \cup Replies

Maybe == Values \cup {NoValue}
Awaiting == {"putting", "listing", "fetching", "getting"}

TypeOK ==
    /\ values \in [Keys -> Maybe] /\ up \in BOOLEAN
    /\ thread \in [Clients -> {"serving", "replying", "gone"}]
    /\ reply \in [Clients -> Replies \cup {NoMessage}]
    /\ link \in [Clients -> BOOLEAN]
    /\ inbox \in [Clients -> Requests \cup {NoMessage}]
    /\ outbox \in [Clients -> Replies \cup {NoMessage}]
    /\ pc \in [Clients -> {"start", "menu", "typing", "printing", "exited"} \cup Awaiting]
    /\ connected \in [Clients -> BOOLEAN]
    /\ asked \in [Clients -> Requests \cup {NoMessage}]
    /\ toGet \in [Clients -> SUBSET Keys]
    /\ shown \in [Clients -> [Keys -> Maybe]]
    /\ warned \in [Clients -> SUBSET Keys]
    /\ added \in [Clients -> 0..MaxPuts]
    /\ applied \in [Clients -> 0..MaxPuts]
    /\ mine \in [Clients -> SUBSET Keys]
    /\ since \in [Clients -> [Keys -> SUBSET Values]]
    /\ deleted \in BOOLEAN

Present == {k \in Keys : values[k] # NoValue}

-----------------------------------------------------------------------------
(* The server.                                                             *)

\* Every key's value joins what the key has had since the keys were asked for.
Record == since' = [c \in Clients |-> [k \in Keys |-> since[c][k] \cup ({values'[k]} \cap Values)]]

\* Mutant: the map is assigned to, not the key.
MapAssigned(k, v) == [l \in Keys |-> IF l = k THEN v ELSE NoValue]

\* store.values[key] = value
Assigned(k, v) == [values EXCEPT ![k] = v]

handlePutRequest(c, r) ==
    /\ r.op = "put"
    /\ values' = Assigned(r.key, r.value)
    /\ reply' = [reply EXCEPT ![c] = Ok]
    /\ applied' = [applied EXCEPT ![c] = @ + 1]

handleGetRequest(c, r) ==
    /\ r.op = "get"
    /\ reply' = [reply EXCEPT ![c] = IF values[r.key] = NoValue
                                       THEN NotFound
                                       ELSE [kind |-> "value", value |-> values[r.key]]]
    /\ UNCHANGED <<values, applied>>

\* Mutant: one key too few is copied.
KeysShort(c, r) ==
    /\ r.op = "keys"
    /\ \E k \in Keys :
           reply' = [reply EXCEPT ![c] = [kind |-> "keys", keys |-> Present \ {k}]]
    /\ UNCHANGED <<values, applied>>

handleKeysRequest(c, r) ==
    /\ r.op = "keys"
    /\ reply' = [reply EXCEPT ![c] = [kind |-> "keys", keys |-> Present]]
    /\ UNCHANGED <<values, applied>>

\* The thread of a connection reads a request and runs its handler.
handleRequest(c) ==
    /\ thread[c] = "serving" /\ inbox[c] # NoMessage
    /\ \/ handlePutRequest(c, inbox[c])
       \/ handleGetRequest(c, inbox[c])
       \/ handleKeysRequest(c, inbox[c])
    /\ Record
    /\ inbox' = [inbox EXCEPT ![c] = NoMessage]
    /\ thread' = [thread EXCEPT ![c] = "replying"]
    /\ UNCHANGED <<up, link, outbox, program, mine, deleted>>

\* Mutant: nothing is sent for a key that is not there.
SendFound(c) ==
    /\ thread[c] = "replying"
    /\ outbox' = IF link[c] /\ reply[c] # NotFound
                   THEN [outbox EXCEPT ![c] = reply[c]] ELSE outbox
    /\ thread' = [thread EXCEPT ![c] = IF link[c] THEN "serving" ELSE "gone"]
    /\ reply' = [reply EXCEPT ![c] = NoMessage]
    /\ UNCHANGED <<values, up, link, inbox, program, ghosts>>

\* The response is sent, or sending fails and the thread ends.
sendResponse(c) ==
    /\ thread[c] = "replying"
    /\ outbox' = IF link[c] THEN [outbox EXCEPT ![c] = reply[c]] ELSE outbox
    /\ thread' = [thread EXCEPT ![c] = IF link[c] THEN "serving" ELSE "gone"]
    /\ reply' = [reply EXCEPT ![c] = NoMessage]
    /\ UNCHANGED <<values, up, link, inbox, program, ghosts>>

\* readMessage finds the end of the connection.
endThread(c) ==
    /\ thread[c] = "serving" /\ ~link[c] /\ inbox[c] = NoMessage
    /\ thread' = [thread EXCEPT ![c] = "gone"]
    /\ UNCHANGED <<values, up, reply, network, program, ghosts>>

ServerStep(c) == handleRequest(c) \/ sendResponse(c) \/ endThread(c)

\* Another program puts or deletes on a connection of its own.
OtherPuts(k, v) ==
    /\ up
    /\ values' = Assigned(k, v)
    /\ Record
    /\ UNCHANGED <<up, thread, reply, network, program, applied, mine, deleted>>

handleDeleteRequest(k) ==
    /\ up /\ values[k] # NoValue
    /\ values' = [values EXCEPT ![k] = NoValue]
    /\ Record
    /\ deleted' = TRUE
    /\ UNCHANGED <<up, thread, reply, network, program, applied, mine>>

\* The server process dies: the map is gone and every connection ends.  A
\* response that was sent may still arrive, or not.
Crash ==
    /\ up
    /\ up' = FALSE
    /\ values' = [k \in Keys |-> NoValue]
    /\ thread' = [c \in Clients |-> "gone"]
    /\ reply' = [c \in Clients |-> NoMessage]
    /\ link' = [c \in Clients |-> FALSE]
    /\ inbox' = [c \in Clients |-> NoMessage]
    /\ \E arrives \in SUBSET Clients :
           outbox' = [c \in Clients |-> IF c \in arrives THEN outbox[c] ELSE NoMessage]
    /\ UNCHANGED <<program, ghosts>>

\* A connection breaks.  What is on its way may still arrive, or not.
Break(c) ==
    /\ link[c]
    /\ link' = [link EXCEPT ![c] = FALSE]
    /\ inbox' \in {inbox, [inbox EXCEPT ![c] = NoMessage]}
    /\ outbox' \in {outbox, [outbox EXCEPT ![c] = NoMessage]}
    /\ UNCHANGED <<server, program, ghosts>>

-----------------------------------------------------------------------------
(* The client.                                                             *)

Goto(c, place) == pc' = [pc EXCEPT ![c] = place]

\* main constructs the store; without a server that throws, and main returns.
Start(c) ==
    /\ pc[c] = "start"
    /\ connected' = [connected EXCEPT ![c] = up]
    /\ link' = [link EXCEPT ![c] = up]
    /\ thread' = [thread EXCEPT ![c] = IF up THEN "serving" ELSE "gone"]
    /\ Goto(c, IF up THEN "menu" ELSE "exited")
    /\ UNCHANGED <<values, up, reply, inbox, outbox, asked, toGet, shown, warned, added, ghosts>>

\* The stub sends a request and the program waits for the response.  On a
\* broken connection the send may succeed all the same.
sendRequest(c, r, place) ==
    /\ connected[c]
    /\ inbox' = IF link[c] THEN [inbox EXCEPT ![c] = r] ELSE inbox
    /\ asked' = [asked EXCEPT ![c] = r]
    /\ Goto(c, place)
    /\ UNCHANGED <<server, link, outbox, connected>>

\* The stub has no connection and returns nothing at once.
Refuse(c, place) ==
    /\ ~connected[c]
    /\ Goto(c, place)
    /\ UNCHANGED <<server, network, connected, asked>>

ChooseAdd(c) ==
    /\ pc[c] = "menu"
    /\ Goto(c, "typing")
    /\ UNCHANGED <<server, network, connected, asked, toGet, shown, warned, added, ghosts>>

\* A line with a key and a value.  Lines that are skipped, and pairs entered
\* when the stub has no connection, change nothing.
put(c, k, v) ==
    /\ pc[c] = "typing" /\ added[c] < MaxPuts
    /\ sendRequest(c, [op |-> "put", key |-> k, value |-> v], "putting")
    /\ UNCHANGED <<toGet, shown, warned, added, ghosts>>

\* The empty line: the program lists the keys.
FinishAdding(c) ==
    /\ pc[c] = "typing"
    /\ sendRequest(c, [op |-> "keys"], "listing") \/ Refuse(c, "menu")
    /\ UNCHANGED <<toGet, shown, warned, added, ghosts>>

\* Mutant: the values of an earlier listing are still in the vector.
ChoosePrintAgain(c) ==
    /\ pc[c] = "menu" /\ connected[c]
    /\ sendRequest(c, [op |-> "keys"], "fetching")
    /\ since' = [since EXCEPT ![c] = [k \in Keys |-> {values[k]} \cap Values]]
    /\ warned' = [warned EXCEPT ![c] = {}]
    /\ UNCHANGED <<toGet, shown, added, applied, mine, deleted>>

\* Without a connection the program prints an error and is back in its menu.
ChoosePrint(c) ==
    /\ pc[c] = "menu" /\ connected[c]
    /\ sendRequest(c, [op |-> "keys"], "fetching")
    /\ since' = [since EXCEPT ![c] = [k \in Keys |-> {values[k]} \cap Values]]
    /\ shown' = [shown EXCEPT ![c] = [k \in Keys |-> NoValue]]
    /\ warned' = [warned EXCEPT ![c] = {}]
    /\ UNCHANGED <<toGet, added, applied, mine, deleted>>

Exit(c) ==
    /\ pc[c] = "menu"
    /\ Goto(c, "exited")
    /\ connected' = [connected EXCEPT ![c] = FALSE]
    /\ link' = [link EXCEPT ![c] = FALSE]
    /\ UNCHANGED <<server, inbox, outbox, asked, toGet, shown, warned, added, ghosts>>

\* The response arrives.
Take(c, place) ==
    /\ pc[c] = place /\ outbox[c] # NoMessage
    /\ outbox' = [outbox EXCEPT ![c] = NoMessage]
    /\ asked' = [asked EXCEPT ![c] = NoMessage]
    /\ UNCHANGED <<server, link, inbox, connected>>

ReceivePut(c) ==
    /\ Take(c, "putting")
    /\ Goto(c, "typing")
    /\ IF outbox[c] = Ok
         THEN /\ added' = [added EXCEPT ![c] = @ + 1]
              /\ mine' = [mine EXCEPT ![c] = @ \cup {asked[c].key}]
         ELSE UNCHANGED <<added, mine>>
    /\ UNCHANGED <<toGet, shown, warned, applied, since, deleted>>

ReceiveList(c) ==
    /\ Take(c, "listing")
    /\ Goto(c, "menu")
    /\ UNCHANGED <<toGet, shown, warned, added, ghosts>>

\* After the last key the program prints what it has and is back in its menu.
Onward(left) == IF left = {} THEN "menu" ELSE "printing"

ReceiveKeys(c) ==
    /\ Take(c, "fetching")
    /\ toGet' = [toGet EXCEPT ![c] = outbox[c].keys]
    /\ Goto(c, Onward(outbox[c].keys))
    /\ UNCHANGED <<shown, warned, added, ghosts>>

get(c, k) ==
    /\ pc[c] = "printing" /\ k \in toGet[c]
    /\ sendRequest(c, [op |-> "get", key |-> k], "getting")
    /\ toGet' = [toGet EXCEPT ![c] = @ \ {k}]
    /\ UNCHANGED <<shown, warned, added, ghosts>>

Warn(c, k) == warned' = [warned EXCEPT ![c] = @ \cup {k}]

\* get returns nothing: a warning for the key.
getFails(c, k) ==
    /\ pc[c] = "printing" /\ k \in toGet[c]
    /\ Refuse(c, Onward(toGet[c] \ {k}))
    /\ toGet' = [toGet EXCEPT ![c] = @ \ {k}]
    /\ Warn(c, k)
    /\ UNCHANGED <<shown, added, ghosts>>

ReceiveValue(c) ==
    /\ Take(c, "getting")
    /\ Goto(c, Onward(toGet[c]))
    /\ IF outbox[c].kind = "value"
         THEN shown' = [shown EXCEPT ![c][asked[c].key] = outbox[c].value] /\ UNCHANGED warned
         ELSE Warn(c, asked[c].key) /\ UNCHANGED shown
    /\ UNCHANGED <<toGet, added, ghosts>>

\* Mutant: main counts the pair although put failed.
LosePutCounted(c) ==
    /\ pc[c] = "putting" /\ ~link[c] /\ outbox[c] = NoMessage
    /\ connected' = [connected EXCEPT ![c] = FALSE]
    /\ asked' = [asked EXCEPT ![c] = NoMessage]
    /\ Goto(c, "typing")
    /\ added' = [added EXCEPT ![c] = @ + 1]
    /\ UNCHANGED <<server, network, toGet, shown, warned, ghosts>>

\* The stub finds the connection broken, closes it for good, and the program
\* goes on as if the call had failed.
Lose(c, place, next) ==
    /\ pc[c] = place /\ ~link[c] /\ outbox[c] = NoMessage
    /\ connected' = [connected EXCEPT ![c] = FALSE]
    /\ asked' = [asked EXCEPT ![c] = NoMessage]
    /\ Goto(c, next)
    /\ UNCHANGED <<server, network, toGet, shown, added, ghosts>>

LosePut(c) == Lose(c, "putting", "typing") /\ UNCHANGED warned
LoseKeys(c) ==
    (Lose(c, "listing", "menu") \/ Lose(c, "fetching", "menu")) /\ UNCHANGED warned
LoseValue(c) == Lose(c, "getting", Onward(toGet[c])) /\ Warn(c, asked[c].key)

\* What the program does without its user.
ProgramStep(c) ==
    \/ ReceivePut(c) \/ ReceiveList(c) \/ ReceiveKeys(c) \/ ReceiveValue(c)
    \/ LosePut(c) \/ LoseKeys(c) \/ LoseValue(c)
    \/ \E k \in Keys : get(c, k) \/ getFails(c, k)

UserStep(c) == \/ Start(c) \/ ChooseAdd(c) \/ FinishAdding(c) \/ ChoosePrint(c) \/ Exit(c)
               \/ \E k \in Keys, v \in Values : put(c, k, v)

Init ==
    /\ values = [k \in Keys |-> NoValue] /\ up = TRUE
    /\ thread = [c \in Clients |-> "gone"] /\ reply = [c \in Clients |-> NoMessage]
    /\ link = [c \in Clients |-> FALSE]
    /\ inbox = [c \in Clients |-> NoMessage] /\ outbox = [c \in Clients |-> NoMessage]
    /\ pc = [c \in Clients |-> "start"] /\ connected = [c \in Clients |-> FALSE]
    /\ asked = [c \in Clients |-> NoMessage]
    /\ toGet = [c \in Clients |-> {}] /\ warned = [c \in Clients |-> {}]
    /\ shown = [c \in Clients |-> [k \in Keys |-> NoValue]]
    /\ added = [c \in Clients |-> 0] /\ applied = [c \in Clients |-> 0]
    /\ mine = [c \in Clients |-> {}]
    /\ since = [c \in Clients |-> [k \in Keys |-> {}]]
    /\ deleted = FALSE

Next == \/ \E c \in Clients : ServerStep(c) \/ ProgramStep(c) \/ UserStep(c) \/ Break(c)
        \/ \E k \in Keys : handleDeleteRequest(k) \/ \E v \in Values : OtherPuts(k, v)
        \/ Crash

Spec == Init /\ [][Next]_vars

\* The threads of the server and the client programs run on; users, failures
\* and other programs do as they like.
FairSpec == Spec /\ \A c \in Clients : WF_vars(ServerStep(c)) /\ WF_vars(ProgramStep(c))

-----------------------------------------------------------------------------
(* Properties.                                                             *)

\* The number of pairs the client reports is the number the server carried
\* out, but for one: the put whose answer was lost with the connection.  As
\* long as the connection serves, nothing is in doubt.
PutsAccounted ==
    \A c \in Clients :
        /\ added[c] <= applied[c] /\ applied[c] <= added[c] + 1
        /\ connected[c] /\ pc[c] # "putting" => applied[c] = added[c]

\* The keys the program lists after adding pairs include every pair it reported
\* as put, as long as nobody has deleted any.
OwnKeysListed ==
    [][\A c \in Clients : ReceiveList(c) /\ ~deleted => mine[c] \subseteq outbox[c].keys]_vars

\* As long as nobody has deleted any, every key the server named has a value when the
\* program asks for it, in calls of its own: a warning means a lost connection.
NoMissingValue == \A c \in Clients : connected[c] /\ ~deleted => warned[c] = {}

\* A value the program prints was the key's value at some moment after the
\* program had asked for the keys, whatever else it shows beside it.
ShownWasStored ==
    \A c \in Clients, k \in Keys : shown[c][k] # NoValue => shown[c][k] \in since[c][k]

\* A call always comes back, with a response or without.
CallsReturn == \A c \in Clients : pc[c] \in Awaiting ~> pc[c] \notin Awaiting

-----------------------------------------------------------------------------
(* The inductive invariant behind the safety properties.                   *)

\* The response of the call that c is in: not yet sent, or not yet received.
Coming(c) == {reply[c], outbox[c]} \ {NoMessage}

Answers(c, m) ==
    /\ pc[c] = "putting" => m = Ok
    /\ pc[c] \in {"listing", "fetching"} => m \in [kind : {"keys"}, keys : SUBSET Keys]
    /\ pc[c] = "getting" =>
           m = NotFound \/ m \in [kind : {"value"}, value : since[c][asked[c].key]]

\* A client has one call at a time, and what is on its connection belongs to it.
\* Only a request whose client has given up may still be on its way.
CallFor(c) ==
    /\ pc[c] \in Awaiting => connected[c]
    /\ pc[c] \in {"start", "exited"} => ~connected[c]
    /\ pc[c] = "start" => inbox[c] = NoMessage /\ reply[c] = NoMessage
    /\ pc[c] = "putting" => asked[c] \in [op : {"put"}, key : Keys, value : Values]
    /\ pc[c] \in {"listing", "fetching"} => asked[c] = [op |-> "keys"]
    /\ pc[c] = "getting" => asked[c] \in [op : {"get"}, key : Keys]
    /\ link[c] => connected[c] /\ up
    /\ ~up => thread[c] = "gone" /\ inbox[c] = NoMessage
    /\ thread[c] = "replying" <=> reply[c] # NoMessage
    /\ inbox[c] # NoMessage => Coming(c) = {}
    /\ reply[c] = NoMessage \/ outbox[c] = NoMessage
    /\ ~connected[c] => outbox[c] = NoMessage
    /\ connected[c] /\ inbox[c] # NoMessage => pc[c] \in Awaiting /\ inbox[c] = asked[c]
    /\ connected[c] => \A m \in Coming(c) : pc[c] \in Awaiting /\ Answers(c, m)

\* Nothing has failed on the connection of c so far.
Sound(c) == connected[c] \/ pc[c] = "start"

\* A put is counted by the server when it runs, by the client when it is answered.
PutsFor(c) ==
    /\ added[c] <= applied[c] /\ applied[c] <= added[c] + 1
    /\ Sound(c) /\ pc[c] # "putting" => applied[c] = added[c]
    /\ pc[c] = "putting" => added[c] < MaxPuts
    /\ pc[c] = "putting" /\ Coming(c) # {} => applied[c] = added[c] + 1
    /\ inbox[c] # NoMessage /\ inbox[c].op = "put" => applied[c] = added[c] /\ added[c] < MaxPuts

\* Until something is deleted, a key that was seen stays as long as the server.
KeysFor(c) ==
    /\ Sound(c) => warned[c] = {} /\ NotFound \notin Coming(c)
    /\ connected[c] /\ pc[c] = "listing" => \A m \in Coming(c) : mine[c] \subseteq m.keys
    /\ up => mine[c] \subseteq Present
    /\ up /\ Sound(c) =>
          /\ toGet[c] \subseteq Present
          /\ pc[c] = "getting" => asked[c].key \in Present
          /\ pc[c] = "putting" /\ Coming(c) # {} => asked[c].key \in Present
          /\ pc[c] = "fetching" => \A m \in Coming(c) : m.keys \subseteq Present

ShownFor(c) == \A k \in Keys : shown[c][k] # NoValue => shown[c][k] \in since[c][k]

InvFor(c) == CallFor(c) /\ PutsFor(c) /\ (~deleted => KeysFor(c)) /\ ShownFor(c)

IInv == TypeOK /\ \A c \in Clients : InvFor(c)
=============================================================================
