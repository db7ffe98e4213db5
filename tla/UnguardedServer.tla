---------------------------- MODULE UnguardedServer ----------------------------
(***************************************************************************)
(* The key-value server with one thread per client and nothing to guard    *)
(* its map (Sockets/key-value-multi-server-flawed).  handleClient reads a  *)
(* line, parses it, and handleCommand uses the map and builds the          *)
(* response.  Each of these is a step; GET is two, for it finds the key    *)
(* and then reads the value through the iterator.  KeyValueServer puts a   *)
(* mutex around the uses of the map.                                       *)
(***************************************************************************)
EXTENDS MapRequests

CONSTANT Clients

VARIABLES values,   \* store
          pc,       \* per client: where its thread is
          request,  \* the command it handles
          local,    \* what handleCommand has from the map
          response  \* the response it sends

uvars == <<values, pc, request, local, response>>

NoLocal == [kind |-> "none"]
Locals == {NoLocal} \cup [kind : {"value"}, value : Values]
                    \cup [kind : {"removed"}, removed : {0, 1}]
                    \cup [kind : {"size"}, size : Nat]

\* Inside the map: "using" is the first operation of a command, "copying" the
\* read of it->second.
Inside == {"using", "copying"}
Entered == Inside \cup {"leaving"}

ThreadsOK ==
    /\ values \in Stores
    /\ pc \in [Clients -> {"closed", "reading", "parsing", "entering", "sending"} \cup Entered]
    /\ request \in [Clients -> Requests \cup {NoRequest}]
    /\ local \in [Clients -> Locals]
    /\ response \in [Clients -> Replies \cup {NoReply}]

-----------------------------------------------------------------------------
Goto(c, place) == pc' = [pc EXCEPT ![c] = place]
Respond(c, reply) == response' = [response EXCEPT ![c] = reply]
Keep(c, result) == local' = [local EXCEPT ![c] = result]

Accept(c) ==
    /\ pc[c] = "closed"
    /\ Goto(c, "reading")
    /\ UNCHANGED <<values, request, local, response>>

\* A line that ends with the connection instead of a newline is dropped.
Disconnect(c) ==
    /\ pc[c] = "reading"
    /\ Goto(c, "closed")
    /\ UNCHANGED <<values, request, local, response>>

ReadLine(c, r) ==
    /\ pc[c] = "reading"
    /\ request' = [request EXCEPT ![c] = r]
    /\ Goto(c, "parsing")
    /\ UNCHANGED <<values, local, response>>

UsesMap(r) == r.op \in {"put", "get", "delete", "count"}

\* What is wrong with the line shows before the map is used.
Parse(c) ==
    /\ pc[c] = "parsing"
    /\ \/ request[c].op = "invalid" /\ Respond(c, Error) /\ Goto(c, "sending")
       \/ request[c].op = "quit" /\ Respond(c, Bye) /\ Goto(c, "sending")
       \/ UsesMap(request[c]) /\ Goto(c, "entering") /\ UNCHANGED response
    /\ UNCHANGED <<values, request, local>>

\* handleCommand begins to use the map.
Enter(c) ==
    /\ pc[c] = "entering"
    /\ Goto(c, "using")
    /\ UNCHANGED <<values, request, local, response>>

Using(c, op) == pc[c] = "using" /\ request[c].op = op

PutValue(c) ==
    /\ Using(c, "put")
    /\ values' = [values EXCEPT ![request[c].key] = request[c].value]
    /\ Goto(c, "leaving")
    /\ UNCHANGED <<request, local, response>>

FindKey(c) ==
    /\ Using(c, "get")
    /\ Goto(c, IF values[request[c].key] = NoValue THEN "leaving" ELSE "copying")
    /\ UNCHANGED <<values, request, local, response>>

CopyValue(c) ==
    /\ pc[c] = "copying"
    /\ Keep(c, [kind |-> "value", value |-> values[request[c].key]])
    /\ Goto(c, "leaving")
    /\ UNCHANGED <<values, request, response>>

EraseKey(c) ==
    /\ Using(c, "delete")
    /\ values' = [values EXCEPT ![request[c].key] = NoValue]
    /\ Keep(c, [kind |-> "removed",
                removed |-> IF values[request[c].key] = NoValue THEN 0 ELSE 1])
    /\ Goto(c, "leaving")
    /\ UNCHANGED <<request, response>>

ReadSize(c) ==
    /\ Using(c, "count")
    /\ Keep(c, [kind |-> "size", size |-> Size(values)])
    /\ Goto(c, "leaving")
    /\ UNCHANGED <<values, request, response>>

\* The response, from the locals.
Built(c) ==
    CASE request[c].op = "put" -> Ok
      [] request[c].op = "get" -> IF local[c] = NoLocal THEN NotFound
                                                        ELSE ValueReply(local[c].value)
      [] request[c].op = "delete" -> IF local[c].removed = 0 THEN NotFound ELSE Ok
      [] request[c].op = "count" -> CountReply(local[c].size)

\* What a command may have got of the map.
Fits(r, got) ==
    \/ r.op = "put" /\ got = NoLocal
    \/ r.op = "get" /\ got.kind \in {"none", "value"}
    \/ r.op = "delete" /\ got.kind = "removed"
    \/ r.op = "count" /\ got.kind = "size"

\* handleCommand has what it needs of the map and returns its response.
Leave(c) ==
    /\ pc[c] = "leaving"
    /\ Respond(c, Built(c))
    /\ Goto(c, "sending")
    /\ UNCHANGED <<values, request, local>>

\* The connection ends after BYE, and when the response cannot be sent.
Send(c) ==
    /\ pc[c] = "sending"
    /\ \/ response[c] # Bye /\ Goto(c, "reading")
       \/ Goto(c, "closed")
    /\ request' = [request EXCEPT ![c] = NoRequest]
    /\ Keep(c, NoLocal)
    /\ Respond(c, NoReply)
    /\ UNCHANGED values

\* handleCommand's uses of the map.
UseMap(c) == PutValue(c) \/ FindKey(c) \/ CopyValue(c) \/ EraseKey(c) \/ ReadSize(c)

\* handleClient outside handleCommand.
Serve(c) == Accept(c) \/ Disconnect(c) \/ Parse(c) \/ Send(c)
            \/ \E r \in Requests : ReadLine(c, r)

Step(c) == Serve(c) \/ Enter(c) \/ UseMap(c) \/ Leave(c)

UInit ==
    /\ values = EmptyStore
    /\ pc = [c \in Clients |-> "closed"]
    /\ request = [c \in Clients |-> NoRequest]
    /\ local = [c \in Clients |-> NoLocal]
    /\ response = [c \in Clients |-> NoReply]

\* Two threads in the map at once, one of them to change it.
Changes(c) == request[c].op \in {"put", "delete"}
Overlap(c, d) == c # d /\ {pc[c], pc[d]} \subseteq Inside /\ (Changes(c) \/ Changes(d))

\* What the map is like afterwards is undefined, and so is what the command got
\* of it: any map, any local, or the end of the process and of every connection.
Race(c) ==
    /\ \E d \in Clients : Overlap(c, d)
    /\ \/ /\ values' \in Stores
          /\ \E result \in Locals : Fits(request[c], result) /\ Keep(c, result)
          /\ Goto(c, "leaving")
          /\ UNCHANGED <<request, response>>
       \/ UInit'

UNext == \E c \in Clients : Step(c) \/ Race(c)

USpec == UInit /\ [][UNext]_uvars

-----------------------------------------------------------------------------
(* Properties.                                                             *)

\* No use of the map meets another one that it could race with: the steps are
\* those of handleClient and handleCommand, and what they do is defined.
RaceFree ==
    UInit /\ [][\E c \in Clients : Step(c) /\ (UseMap(c) => ~\E d \in Clients : Overlap(c, d))]_uvars

\* No two threads race in the map.
NoOverlap == \A c, d \in Clients : ~Overlap(c, d)

\* The iterator that GET reads the value through still points at an element:
\* nobody erases the key between find() and the read.
FoundStays ==
    \A c \in Clients : pc[c] = "copying" => values[request[c].key] # NoValue

\* The answer of a command that has taken effect is fixed from then on.
Answer(c) == IF pc[c] = "leaving" THEN Built(c) ELSE response[c]

\* All threads together are one map that carries out one command at a time:
\* each takes effect where its thread uses the map.
Object == INSTANCE MapObject WITH map <- values, answer <- [c \in Clients |-> Answer(c)]

Linearizable == Object!ObjectSpec

-----------------------------------------------------------------------------
(* The inductive invariant, as long as no two threads race.                *)

\* Each place in the code knows the command and the locals it can have there.
PreparedFor(c) ==
    /\ request[c] = NoRequest <=> pc[c] \in {"closed", "reading"}
    /\ response[c] = NoReply <=> pc[c] # "sending"
    /\ pc[c] \in Entered \cup {"entering"} => UsesMap(request[c])
    /\ pc[c] = "copying" => request[c].op = "get"
    /\ pc[c] \notin {"leaving", "sending"} => local[c] = NoLocal
    /\ pc[c] = "leaving" => Fits(request[c], local[c])

Prepared == \A c \in Clients : PreparedFor(c)

ThreadsInv == ThreadsOK /\ Prepared /\ FoundStays
=============================================================================
