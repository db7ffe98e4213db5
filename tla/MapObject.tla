------------------------------- MODULE MapObject -------------------------------
(***************************************************************************)
(* What the threaded key-value server promises: one map on which the       *)
(* commands of all clients take effect one at a time, each between the     *)
(* moment its line is read and the moment it is answered.                  *)
(***************************************************************************)
EXTENDS MapRequests

CONSTANT Clients

VARIABLES map,      \* the map
          request,  \* per client: the command it sent, or none
          answer    \* and its answer, once the command is carried out

ovars == <<map, request, answer>>

Held(k) == map[k] # NoValue

\* The command's effect on the map and its answer.
Effect(r, after, a) ==
    \/ r.op = "put" /\ after = [map EXCEPT ![r.key] = r.value] /\ a = Ok
    \/ r.op = "get" /\ Held(r.key) /\ after = map /\ a = ValueReply(map[r.key])
    \/ r.op = "get" /\ ~Held(r.key) /\ after = map /\ a = NotFound
    \/ r.op = "delete" /\ Held(r.key) /\ after = [map EXCEPT ![r.key] = NoValue] /\ a = Ok
    \/ r.op = "delete" /\ ~Held(r.key) /\ after = map /\ a = NotFound
    \/ r.op = "count" /\ after = map /\ a = CountReply(Size(map))
    \/ r.op = "quit" /\ after = map /\ a = Bye
    \/ r.op = "invalid" /\ after = map /\ a = Error

Call(c) ==
    /\ request[c] = NoRequest
    /\ \E r \in Requests : request' = [request EXCEPT ![c] = r]
    /\ UNCHANGED <<map, answer>>

Perform(c) ==
    /\ request[c] # NoRequest /\ answer[c] = NoReply
    /\ answer' = [answer EXCEPT ![c] = answer'[c]]
    /\ Effect(request[c], map', answer'[c])
    /\ UNCHANGED request

Return(c) ==
    /\ answer[c] # NoReply
    /\ request' = [request EXCEPT ![c] = NoRequest]
    /\ answer' = [answer EXCEPT ![c] = NoReply]
    /\ UNCHANGED map

OInit ==
    /\ map = EmptyStore
    /\ request = [c \in Clients |-> NoRequest]
    /\ answer = [c \in Clients |-> NoReply]

ONext == \E c \in Clients : Call(c) \/ Perform(c) \/ Return(c)

ObjectSpec == OInit /\ [][ONext]_ovars
=============================================================================
