------------------------------ MODULE ListObject ------------------------------
(***************************************************************************)
(* What the list server promises: a list on which the requests of all its  *)
(* clients take effect one at a time, each at some instant between the     *)
(* moment the request is received and the moment it is answered, and the   *)
(* answer is the one that list gives at that instant.                      *)
(***************************************************************************)
EXTENDS ListRequests

CONSTANT Clients

VARIABLES list,     \* the list
          request,  \* per client: the request it made, or none
          answer    \* and what it is answered, once that is carried out

ovars == <<list, request, answer>>

\* A request the list can satisfy: the list after it, and its answer.
Satisfied(r, before, after, a) ==
    \/ r.op = "push" /\ after = Append(before, r.value) /\ a = Ok
    \/ r.op = "pop" /\ after = Front(before) /\ a = ValueReply(Last(before))
    \/ r.op = "insert" /\ after = InsertAt(before, r.index + 1, r.value) /\ a = Ok
    \/ r.op = "remove" /\ after = RemoveAt(before, r.index + 1)
                       /\ a = ValueReply(before[r.index + 1])
    \/ r.op = "count" /\ after = before /\ a = CountReply(Len(before))
    \/ r.op = "get" /\ after = before /\ a = ValueReply(before[r.index + 1])
    \/ r.op = "set" /\ after = ReplaceAt(before, r.index + 1, r.value) /\ a = Ok
    \/ r.op = "swap" /\ after = Swapped(before, r.index + 1, r.other + 1) /\ a = Ok
    \/ r.op = "clear" /\ after = <<>> /\ a = Ok
    \/ r.op = "quit" /\ after = before /\ a = Bye

Effect(r, before, after, a) ==
    IF Malformed(r) \/ OutOfRange(r, before)
      THEN after = before /\ a = Error
      ELSE Satisfied(r, before, after, a)

Call(c) ==
    /\ request[c] = NoRequest
    /\ \E r \in Requests : request' = [request EXCEPT ![c] = r]
    /\ UNCHANGED <<list, answer>>

Perform(c) ==
    /\ request[c] # NoRequest /\ answer[c] = NoReply
    /\ \E a \in Replies : /\ Effect(request[c], list, list', a)
                         /\ answer' = [answer EXCEPT ![c] = a]
    /\ UNCHANGED request

Return(c) ==
    /\ answer[c] # NoReply
    /\ request' = [request EXCEPT ![c] = NoRequest]
    /\ answer' = [answer EXCEPT ![c] = NoReply]
    /\ UNCHANGED list

OInit ==
    /\ list = <<>>
    /\ request = [c \in Clients |-> NoRequest]
    /\ answer = [c \in Clients |-> NoReply]

ONext == \E c \in Clients : Call(c) \/ Perform(c) \/ Return(c)

ObjectSpec == OInit /\ [][ONext]_ovars
=============================================================================
