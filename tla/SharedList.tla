------------------------------ MODULE SharedList ------------------------------
(***************************************************************************)
(* The list that the threads of the list server share (RequestHandlers.cpp *)
(* of Discovery/list-server-binary).  A handler decodes its arguments,     *)
(* takes the mutex, compares the index with the size, uses the vector, and *)
(* releases the mutex where its lock_guard goes out of scope; it builds    *)
(* the response after that, from what it copied while it had the lock.     *)
(* Each of these is a step, and the threads of other connections move in   *)
(* between.  One thread serves one connection, so it is named for its      *)
(* client.                                                                 *)
(***************************************************************************)
EXTENDS ListRequests

CONSTANTS Clients,
          NoClient,   \* the mutex is free
          MaxLength   \* bound: how long requests make the list

ASSUME ListAssumption ==
    /\ NoClient \notin Clients
    /\ MaxLength \in Nat

VARIABLES sharedList,  \* the vector
          mutex,       \* who holds the mutex
          pc,          \* per client: where its thread is
          request,     \* the request it handles
          copied,      \* the local variable its handler copies into
          response     \* the response it sends

vars == <<sharedList, mutex, pc, request, copied, response>>

\* A handler that copies from the vector has its copy only after it read it.
NotCopied == [kind |-> "none"]
Copies == {NotCopied} \cup [kind : {"value"}, value : Values]
                      \cup [kind : {"size"}, size : Nat]

Holding == {"checking", "copying", "mutating", "unlocking"}

TypeOK ==
    /\ sharedList \in Seq(Values)
    /\ mutex \in Clients \cup {NoClient}
    /\ pc \in [Clients -> {"closed", "reading", "decoding", "locking", "replying"} \cup Holding]
    /\ request \in [Clients -> Requests \cup {NoRequest}]
    /\ copied \in [Clients -> Copies]
    /\ response \in [Clients -> Replies \cup {NoReply}]

-----------------------------------------------------------------------------
Goto(c, place) == pc' = [pc EXCEPT ![c] = place]
Respond(c, reply) == response' = [response EXCEPT ![c] = reply]

Accept(c) ==
    /\ pc[c] = "closed"
    /\ Goto(c, "reading")
    /\ UNCHANGED <<sharedList, mutex, request, copied, response>>

Grows(r) == r.op \in {"push", "insert"}

Receive(c, r) ==
    /\ pc[c] = "reading"
    /\ Grows(r) => Len(sharedList) < MaxLength
    /\ request' = [request EXCEPT ![c] = r]
    /\ Goto(c, "decoding")
    /\ UNCHANGED <<sharedList, mutex, copied, response>>

\* The handler decodes its arguments.  What it refuses, and QUIT, never come
\* near the mutex.
Decode(c) ==
    /\ pc[c] = "decoding"
    /\ \/ Malformed(request[c]) /\ Respond(c, Error) /\ Goto(c, "replying")
       \/ request[c].op = "quit" /\ Respond(c, Bye) /\ Goto(c, "replying")
       \/ /\ ~Malformed(request[c]) /\ request[c].op # "quit"
          /\ Goto(c, "locking") /\ UNCHANGED response
    /\ UNCHANGED <<sharedList, mutex, request, copied>>

\* Mutant: the handler has no lock_guard.
LockAlways(c) ==
    /\ pc[c] = "locking"
    /\ mutex' = c
    /\ Goto(c, "checking")
    /\ UNCHANGED <<sharedList, request, copied, response>>

Lock(c) ==
    /\ pc[c] = "locking" /\ mutex = NoClient
    /\ mutex' = c
    /\ Goto(c, "checking")
    /\ UNCHANGED <<sharedList, request, copied, response>>

\* Mutant: the index is compared with > where it should be >=.
RefusedPastEnd(r) ==
    \/ r.op = "pop" /\ sharedList = <<>>
    \/ r.op \in {"insert", "remove", "get", "set", "swap"} /\ r.index > Len(sharedList)
    \/ r.op = "swap" /\ r.other > Len(sharedList)

Refused(r) == OutOfRange(r, sharedList)

\* Mutant: the early return keeps the mutex.
RejectLocked(c) ==
    /\ pc[c] = "checking" /\ Refused(request[c])
    /\ Respond(c, Error)
    /\ Goto(c, "replying")
    /\ UNCHANGED <<sharedList, mutex, request, copied>>

\* An early return: the lock_guard releases the mutex on the way out.
Reject(c) ==
    /\ pc[c] = "checking" /\ Refused(request[c])
    /\ mutex' = NoClient
    /\ Respond(c, Error)
    /\ Goto(c, "replying")
    /\ UNCHANGED <<sharedList, request, copied>>

FirstUse(op) == IF op \in {"pop", "remove", "get", "count"} THEN "copying" ELSE "mutating"

Pass(c) ==
    /\ pc[c] = "checking" /\ ~Refused(request[c])
    /\ Goto(c, FirstUse(request[c].op))
    /\ UNCHANGED <<sharedList, mutex, request, copied, response>>

\* Handlers that answer with something of the list copy it first; POP and
\* REMOVE then take it out.
Copy(c, op, copy, next) ==
    /\ pc[c] = "copying" /\ request[c].op = op
    /\ copied' = [copied EXCEPT ![c] = copy]
    /\ Goto(c, next)
    /\ UNCHANGED <<sharedList, mutex, request, response>>

ValueCopy(v) == [kind |-> "value", value |-> v]

CopyForPop(c) == Copy(c, "pop", ValueCopy(Last(sharedList)), "mutating")
CopyForRemove(c) ==
    Copy(c, "remove", ValueCopy(sharedList[request[c].index + 1]), "mutating")
CopyForGet(c) ==
    Copy(c, "get", ValueCopy(sharedList[request[c].index + 1]), "unlocking")
CopyForCount(c) ==
    Copy(c, "count", [kind |-> "size", size |-> Len(sharedList)], "unlocking")

Mutate(c, op, list) ==
    /\ pc[c] = "mutating" /\ request[c].op = op
    /\ sharedList' = list
    /\ Goto(c, "unlocking")
    /\ UNCHANGED <<mutex, request, copied, response>>

PushBack(c) == Mutate(c, "push", Append(sharedList, request[c].value))
PopBack(c) == Mutate(c, "pop", Front(sharedList))
\* Mutant: the value is inserted behind the index.
InsertBehind(c) ==
    Mutate(c, "insert",
           IF request[c].index = Len(sharedList)
             THEN Append(sharedList, request[c].value)
             ELSE InsertAt(sharedList, request[c].index + 2, request[c].value))

InsertValue(c) ==
    Mutate(c, "insert", InsertAt(sharedList, request[c].index + 1, request[c].value))
Erase(c) == Mutate(c, "remove", RemoveAt(sharedList, request[c].index + 1))
Assign(c) ==
    Mutate(c, "set", ReplaceAt(sharedList, request[c].index + 1, request[c].value))
SwapValues(c) ==
    Mutate(c, "swap", Swapped(sharedList, request[c].index + 1, request[c].other + 1))
ClearAll(c) == Mutate(c, "clear", <<>>)

\* Mutant: the count is sent as it is.
CountAsIs(c) ==
    CASE copied[c].kind = "none" -> Ok
      [] copied[c].kind = "value" -> ValueReply(copied[c].value)
      [] copied[c].kind = "size" -> [kind |-> "count", count |-> copied[c].size]

\* The response, from what the handler copied.
Built(c) ==
    CASE copied[c].kind = "none" -> Ok
      [] copied[c].kind = "value" -> ValueReply(copied[c].value)
      [] copied[c].kind = "size" -> CountReply(copied[c].size)

Unlock(c) ==
    /\ pc[c] = "unlocking"
    /\ mutex' = NoClient
    /\ Respond(c, Built(c))
    /\ Goto(c, "replying")
    /\ UNCHANGED <<sharedList, request, copied>>

\* The response is sent or the connection is found broken; Bye ends it too.
\* The locals of the handler are gone.
Reply(c) ==
    /\ pc[c] = "replying"
    /\ \/ response[c] # Bye /\ Goto(c, "reading")
       \/ Goto(c, "closed")
    /\ request' = [request EXCEPT ![c] = NoRequest]
    /\ copied' = [copied EXCEPT ![c] = NotCopied]
    /\ Respond(c, NoReply)
    /\ UNCHANGED <<sharedList, mutex>>

\* The client hangs up between two requests.
Disconnect(c) ==
    /\ pc[c] = "reading"
    /\ Goto(c, "closed")
    /\ UNCHANGED <<sharedList, mutex, request, copied, response>>

Copying(c) == CopyForPop(c) \/ CopyForRemove(c) \/ CopyForGet(c) \/ CopyForCount(c)
Mutating(c) == \/ PushBack(c) \/ PopBack(c) \/ InsertValue(c) \/ Erase(c)
               \/ Assign(c) \/ SwapValues(c) \/ ClearAll(c)

\* The steps of a handler once its request is there.
Handle(c) == \/ Decode(c) \/ Lock(c) \/ Reject(c) \/ Pass(c)
             \/ Copying(c) \/ Mutating(c) \/ Unlock(c) \/ Reply(c)

Init ==
    /\ sharedList = <<>>
    /\ mutex = NoClient
    /\ pc = [c \in Clients |-> "closed"]
    /\ request = [c \in Clients |-> NoRequest]
    /\ copied = [c \in Clients |-> NotCopied]
    /\ response = [c \in Clients |-> NoReply]

Next == \E c \in Clients : \/ Accept(c) \/ Disconnect(c) \/ Handle(c)
                           \/ \E r \in Requests : Receive(c, r)

Spec == Init /\ [][Next]_vars

\* A thread that can go on does go on.  Nothing is fair among the threads that
\* wait for the mutex: std::mutex promises no order.
FairSpec == Spec /\ \A c \in Clients : WF_vars(Handle(c))

-----------------------------------------------------------------------------
(* Properties.                                                             *)

\* What a handler is about to do with the vector is defined: pop_back and back
\* need an element, operator[] and erase an index below the size, insert one
\* that is at most the size.  The check was made steps earlier.
UseDefined ==
    \A c \in Clients :
        pc[c] \in {"copying", "mutating"} => ~OutOfRange(request[c], sharedList)

\* What POP and REMOVE take out is what they are going to answer with: no
\* element is lost and none is handed out twice.
TakenIsAnswered ==
    \A c \in Clients : pc[c] = "mutating" =>
        /\ request[c].op = "pop" => copied[c] = ValueCopy(Last(sharedList))
        /\ request[c].op = "remove" =>
               copied[c] = ValueCopy(sharedList[request[c].index + 1])

\* A mutex that is taken is given back, on the early returns too.
LockReleased == mutex # NoClient ~> mutex = NoClient

\* The answer of a request that has taken effect: from then on it is fixed,
\* though the response is built when the mutex has been released.
Answer(c) == IF pc[c] = "unlocking" THEN Built(c) ELSE response[c]

\* What the threads do together is what one list would do with one request at
\* a time: each takes effect where its handler uses the vector.
Object == INSTANCE ListObject WITH
    list <- sharedList, answer <- [c \in Clients |-> Answer(c)]

Linearizable == Object!ObjectSpec

-----------------------------------------------------------------------------
(* The inductive invariant behind the safety properties.                   *)

\* The mutex is held by the thread that is between its lock_guard and the end
\* of the block, and by nobody else.
Exclusive == \A c \in Clients : pc[c] \in Holding <=> mutex = c

\* The locals of a handler are what its place in the code says.
Prepared ==
    \A c \in Clients :
        /\ request[c] = NoRequest <=> pc[c] \in {"closed", "reading"}
        /\ response[c] = NoReply <=> pc[c] # "replying"
        /\ pc[c] \in Holding \cup {"locking"} =>
               ~Malformed(request[c]) /\ request[c].op # "quit"
        /\ pc[c] = "copying" => request[c].op \in {"pop", "remove", "get", "count"}
        /\ pc[c] = "mutating" => request[c].op \notin {"get", "count"}
        /\ copied[c] # NotCopied =>
               \/ pc[c] \in {"unlocking", "replying"}
               \/ pc[c] = "mutating" /\ request[c].op \in {"pop", "remove"}

IInv == TypeOK /\ Exclusive /\ Prepared /\ UseDefined /\ TakenIsAnswered
=============================================================================
