------------------------- MODULE KeyValueServerProofs -------------------------
(***************************************************************************)
(* Theorems about the threaded key-value server, for every number of       *)
(* clients, keys and values.  Without a mutex the threads implement the    *)
(* one map of MapObject as long as no two of them race; with the mutex     *)
(* they never do.                                                          *)
(***************************************************************************)
EXTENDS KeyValueServer, FiniteSetTheorems, TLAPS

-----------------------------------------------------------------------------
(* Requests, locals and responses.                                         *)

LEMMA SizeType ==
    ASSUME NEW map \in Stores
    PROVE  Size(map) \in Nat
<1>1. IsFiniteSet({k \in Keys : map[k] # NoValue})
  BY MapAssumption, FS_Subset
<1> QED
  BY <1>1, FS_CardinalityType DEF Size

LEMMA RequestFields ==
    ASSUME NEW r \in Requests
    PROVE  /\ r.op \in {"put", "get", "delete", "count", "quit", "invalid"}
           /\ r.op \in {"put", "get", "delete"} => r.key \in Keys
           /\ r.op = "put" => r.value \in Values
           /\ r # NoRequest
  BY DEF Requests, NoRequest

LEMMA LocalFields ==
    ASSUME NEW f \in Locals
    PROVE  /\ f.kind \in {"none", "value", "removed", "size"}
           /\ f.kind = "none" <=> f = NoLocal
           /\ f.kind = "value" => f.value \in Values
           /\ f.kind = "removed" => f.removed \in {0, 1}
           /\ f.kind = "size" => f.size \in Nat
  BY DEF Locals, NoLocal

LEMMA RepliesDiffer ==
    /\ Ok # NoReply /\ NotFound # NoReply /\ Bye # NoReply /\ Error # NoReply
    /\ Ok # Bye /\ NotFound # Bye /\ Error # Bye
    /\ \A v : ValueReply(v) # NoReply /\ ValueReply(v) # Bye
    /\ \A n : CountReply(n) # NoReply /\ CountReply(n) # Bye
  BY DEF Ok, NotFound, Bye, Error, NoReply, ValueReply, CountReply

LEMMA RepliesType ==
    /\ Ok \in Replies /\ NotFound \in Replies /\ Bye \in Replies /\ Error \in Replies
    /\ \A v \in Values : ValueReply(v) \in Replies
    /\ \A n \in Nat : CountReply(n) \in Replies
  BY DEF Replies, ValueReply, CountReply

\* At the end of the block the response is settled, and it is a response.
LEMMA BuiltType ==
    ASSUME ThreadsOK, Prepared, NEW c \in Clients, pc[c] = "leaving"
    PROVE  Built(c) \in Replies /\ Built(c) # NoReply /\ Built(c) # Bye
<1>1. local[c] \in Locals /\ PreparedFor(c)
  BY DEF ThreadsOK, Prepared
<1>2. CASE request[c].op = "put"
  BY <1>2, RepliesType, RepliesDiffer DEF Built
<1>3. CASE request[c].op = "get"
  <2>1. local[c] = NoLocal \/ local[c].value \in Values
    BY <1>1, <1>3, LocalFields DEF PreparedFor, Fits
  <2>2. Built(c) = IF local[c] = NoLocal THEN NotFound ELSE ValueReply(local[c].value)
    BY <1>3 DEF Built
  <2> QED
    BY <2>1, <2>2, RepliesType, RepliesDiffer
<1>4. CASE request[c].op = "delete"
  <2>1. Built(c) \in {NotFound, Ok}
    BY <1>4 DEF Built
  <2> QED
    BY <2>1, RepliesType, RepliesDiffer
<1>5. CASE request[c].op = "count"
  <2>1. Built(c) = CountReply(local[c].size) /\ local[c].size \in Nat
    BY <1>1, <1>5, LocalFields DEF Built, PreparedFor, Fits
  <2> QED
    BY <2>1, RepliesType, RepliesDiffer
<1> QED
  BY <1>1, <1>2, <1>3, <1>4, <1>5 DEF PreparedFor, Fits

-----------------------------------------------------------------------------
(* The invariant of the threads.                                           *)

LEMMA InitThreads == UInit => ThreadsInv
<1> SUFFICES ASSUME UInit PROVE ThreadsInv
  OBVIOUS
<1>1. ThreadsOK
  BY DEF UInit, ThreadsOK, Stores, EmptyStore, Locals
<1>2. Prepared /\ FoundStays
  BY DEF UInit, Prepared, PreparedFor, FoundStays, Entered, Inside
<1> QED
  BY <1>1, <1>2 DEF ThreadsInv

\* How a use of the map moves its thread.
LEMMA UseStep ==
    ASSUME NEW c \in Clients, UseMap(c)
    PROVE  /\ pc[c] \in Inside /\ UNCHANGED <<request, response>>
           /\ \E place \in {"copying", "leaving"} : pc' = [pc EXCEPT ![c] = place]
           /\ local' = local \/ \E f : local' = [local EXCEPT ![c] = f]
  BY DEF UseMap, PutValue, FindKey, CopyValue, EraseKey, ReadSize, Using, Goto, Keep, Inside

LEMMA TypeStep ==
    ASSUME ThreadsInv, NEW c \in Clients, Step(c)
    PROVE  ThreadsOK'
<1>0. ThreadsOK /\ Prepared /\ FoundStays
  BY DEF ThreadsInv
<1>2. CASE Serve(c)
  BY <1>0, <1>2, RepliesType
     DEF ThreadsOK, Serve, Accept, Disconnect, Parse, Send, ReadLine, Goto, Respond, Keep,
         Locals
<1>3. CASE Enter(c)
  BY <1>0, <1>3 DEF ThreadsOK, Enter, Goto, Entered, Inside
<1>4. CASE UseMap(c)
  <2>1. request[c] \in Requests /\ UsesMap(request[c]) /\ PreparedFor(c)
    BY <1>0, <1>4, UseStep DEF ThreadsOK, Prepared, PreparedFor, Entered, Inside
  <2>2. /\ request' = request /\ response' = response
        /\ pc' \in [Clients -> {"closed", "reading", "parsing", "entering", "sending"} \cup Entered]
    BY <1>0, <1>4, UseStep DEF ThreadsOK, Entered, Inside
  <2>3. values' \in Stores /\ local' \in [Clients -> Locals]
    <3>1. CASE PutValue(c)
      BY <1>0, <2>1, <3>1, RequestFields DEF ThreadsOK, PutValue, Using, Stores
    <3>2. CASE FindKey(c)
      BY <1>0, <3>2 DEF ThreadsOK, FindKey
    <3>3. CASE CopyValue(c)
      <4>1. values[request[c].key] \in Values
        BY <1>0, <2>1, <3>3, RequestFields
           DEF ThreadsOK, CopyValue, PreparedFor, FoundStays, Stores
      <4> QED
        BY <1>0, <3>3, <4>1 DEF ThreadsOK, CopyValue, Keep, Locals
    <3>4. CASE EraseKey(c)
      BY <1>0, <2>1, <3>4, RequestFields DEF ThreadsOK, EraseKey, Using, Keep, Stores, Locals
    <3>5. CASE ReadSize(c)
      BY <1>0, <3>5, SizeType DEF ThreadsOK, ReadSize, Keep, Locals
    <3> QED
      BY <1>4, <3>1, <3>2, <3>3, <3>4, <3>5 DEF UseMap
  <2> QED
    BY <1>0, <2>2, <2>3 DEF ThreadsOK
<1>5. CASE Leave(c)
  <2>1. Built(c) \in Replies
    BY <1>0, <1>5, BuiltType DEF Leave
  <2> QED
    BY <1>0, <1>5, <2>1 DEF ThreadsOK, Leave, Goto, Respond
<1> QED
  BY <1>2, <1>3, <1>4, <1>5 DEF Step

\* A step of one thread leaves the place and the locals of the others alone.
LEMMA OthersStay ==
    ASSUME ThreadsOK, NEW c \in Clients, NEW d \in Clients, c # d, Step(c)
    PROVE  /\ pc'[d] = pc[d] /\ request'[d] = request[d]
           /\ local'[d] = local[d] /\ response'[d] = response[d]
<1>1. CASE Serve(c)
  BY <1>1 DEF ThreadsOK, Serve, Accept, Disconnect, Parse, Send, ReadLine, Goto, Respond, Keep
<1>2. CASE Enter(c)
  BY <1>2 DEF ThreadsOK, Enter, Goto
<1>3. CASE UseMap(c)
  BY <1>3, UseStep DEF ThreadsOK
<1>4. CASE Leave(c)
  BY <1>4 DEF ThreadsOK, Leave, Goto, Respond
<1> QED
  BY <1>1, <1>2, <1>3, <1>4 DEF Step

LEMMA PreparedStep ==
    ASSUME ThreadsInv, NEW c \in Clients, Step(c)
    PROVE  Prepared'
<1> SUFFICES ASSUME NEW d \in Clients PROVE PreparedFor(d)'
  BY DEF Prepared
<1>0. ThreadsOK /\ PreparedFor(d) /\ Prepared
  BY DEF ThreadsInv, Prepared
<1>1. ASSUME pc'[d] = pc[d], request'[d] = request[d], local'[d] = local[d],
             response'[d] = response[d]
      PROVE  PreparedFor(d)'
  BY <1>0, <1>1 DEF PreparedFor, UsesMap, Fits
<1>3. CASE c # d
  BY <1>0, <1>1, <1>3, OthersStay
<1> USE DEF PreparedFor, Fits, Entered, Inside, UsesMap
<1>4. CASE Serve(d)
  BY <1>0, <1>4, RequestFields, RepliesDiffer
     DEF ThreadsOK, Serve, Accept, Disconnect, Parse, Send, ReadLine, Goto, Respond, Keep
<1>5. CASE Enter(d)
  BY <1>0, <1>5 DEF ThreadsOK, Enter, Goto
<1>6. CASE PutValue(d)
  BY <1>0, <1>6 DEF ThreadsOK, PutValue, Using, Goto
<1>7. CASE FindKey(d)
  BY <1>0, <1>7 DEF ThreadsOK, FindKey, Using, Goto, NoLocal
<1>8. CASE CopyValue(d)
  BY <1>0, <1>8 DEF ThreadsOK, CopyValue, Goto, Keep
<1>9. CASE EraseKey(d)
  BY <1>0, <1>9 DEF ThreadsOK, EraseKey, Using, Goto, Keep
<1>10. CASE ReadSize(d)
  BY <1>0, <1>10 DEF ThreadsOK, ReadSize, Using, Goto, Keep
<1>11. CASE Leave(d)
  <2>1. Built(d) # NoReply
    BY <1>0, <1>11, BuiltType DEF Leave
  <2> QED
    BY <1>0, <1>11, <2>1 DEF ThreadsOK, Leave, Goto, Respond
<1> QED
  BY <1>3, <1>4, <1>5, <1>6, <1>7, <1>8, <1>9, <1>10, <1>11 DEF Step, UseMap

\* As long as no two threads race, a key that was found is there until the value
\* is copied.
LEMMA FoundStep ==
    ASSUME ThreadsInv, NoOverlap, NEW c \in Clients, Step(c)
    PROVE  FoundStays'
<1> SUFFICES ASSUME NEW d \in Clients, pc'[d] = "copying"
             PROVE  values'[request'[d].key] # NoValue
  BY DEF FoundStays
<1>0. ThreadsOK /\ FoundStays
  BY DEF ThreadsInv
<1>1. CASE values' = values /\ c # d
  BY <1>0, <1>1, OthersStay DEF FoundStays
<1>2. CASE c # d /\ UseMap(c)
  <2>1. /\ pc[d] = "copying" /\ pc[c] \in Inside
    BY <1>0, <1>2, OthersStay, UseStep
  <2>2. ~Changes(c)
    BY <1>2, <2>1 DEF NoOverlap, Overlap, Inside
  <2>3. values' = values
    BY <1>2, <2>2 DEF UseMap, PutValue, FindKey, CopyValue, EraseKey, ReadSize, Using, Changes
  <2> QED
    BY <1>1, <1>2, <2>3
<1>3. CASE c # d /\ ~UseMap(c)
  <2>1. values' = values
    BY <1>3 DEF Step, Serve, Accept, Disconnect, Parse, Send, ReadLine, Enter, Leave
  <2> QED
    BY <1>1, <1>3, <2>1
<1>4. ASSUME Serve(d) \/ Enter(d) \/ Leave(d) PROVE FALSE
  BY <1>0, <1>4 DEF ThreadsOK, Serve, Accept, Disconnect, Parse, Send, ReadLine, Enter, Leave, Goto
<1>5. CASE UseMap(d)
  <2>1. FindKey(d)
    BY <1>0, <1>5 DEF ThreadsOK, UseMap, PutValue, CopyValue, EraseKey, ReadSize, Goto
  <2> QED
    BY <1>0, <2>1 DEF ThreadsOK, FindKey, Goto
<1> QED
  BY <1>2, <1>3, <1>4, <1>5 DEF Step

LEMMA ThreadsStep ==
    ASSUME ThreadsInv, NoOverlap, [UNext]_uvars
    PROVE  ThreadsInv'
<1>1. CASE UNCHANGED uvars
  BY <1>1 DEF ThreadsInv, ThreadsOK, Prepared, PreparedFor, Fits, UsesMap, FoundStays, uvars
<1>2. ASSUME NEW c \in Clients, Step(c) PROVE ThreadsInv'
  BY <1>2, TypeStep, PreparedStep, FoundStep DEF ThreadsInv
<1>3. ASSUME NEW c \in Clients, Race(c) PROVE FALSE
  BY <1>3 DEF Race, NoOverlap
<1> QED
  BY <1>1, <1>2, <1>3 DEF UNext

-----------------------------------------------------------------------------
(* The refinement of MapObject.                                            *)

\* MapObject's requests and replies are those of the server.
LEMMA SameRequests ==
    /\ Object!Requests = Requests /\ Object!NoRequest = NoRequest
    /\ Object!Ok = Ok /\ Object!NotFound = NotFound /\ Object!Bye = Bye
    /\ Object!Error = Error /\ Object!NoReply = NoReply
    /\ Object!EmptyStore = EmptyStore
    /\ \A v : Object!ValueReply(v) = ValueReply(v)
    /\ \A n : Object!CountReply(n) = CountReply(n)
  BY DEF Object!Requests, Requests, Object!NoRequest, NoRequest, Object!Ok, Ok,
     Object!NotFound, NotFound, Object!Bye, Bye, Object!Error, Error, Object!NoReply,
     NoReply, Object!EmptyStore, EmptyStore, Object!ValueReply, ValueReply,
     Object!CountReply, CountReply

\* The size of a map is the same number in both modules.
LEMMA SameSize == Object!Size(values) = Size(values)
  BY DEF Object!Size, Size, Object!Cardinality, Cardinality

Answers == [e \in Clients |-> Answer(e)]

\* A step of one thread settles no answer but its own.
LEMMA AnswersStep ==
    ASSUME ThreadsOK, NEW c \in Clients, Step(c)
    PROVE  Answers' = [Answers EXCEPT ![c] = Answer(c)']
<1>1. ASSUME NEW d \in Clients, d # c PROVE Answer(d)' = Answer(d)
  <2>1. /\ pc'[d] = pc[d] /\ request'[d] = request[d]
        /\ local'[d] = local[d] /\ response'[d] = response[d]
    BY <1>1, OthersStay
  <2> QED
    BY <2>1 DEF Answer, Built
<1> QED
  BY <1>1 DEF Answers

\* The effect a use of the map has, and the answer it settles.
LEMMA UseEffect ==
    ASSUME ThreadsInv, NEW c \in Clients, UseMap(c), ~(FindKey(c) /\ pc'[c] = "copying")
    PROVE  /\ request[c] # NoRequest /\ Answer(c) = NoReply
           /\ Object!Effect(request[c], values', Answer(c)')
<1>1. /\ ThreadsOK /\ Prepared /\ PreparedFor(c) /\ FoundStays
      /\ request[c] \in Requests \cup {NoRequest}
  BY DEF ThreadsInv, Prepared, ThreadsOK
<1>2. pc[c] \in Inside
  BY UseStep
<1>3. request[c] # NoRequest /\ response[c] = NoReply /\ Answer(c) = NoReply
  BY <1>1, <1>2 DEF PreparedFor, Inside, Answer
<1>4. request[c].key \in Keys \/ request[c].op = "count"
  BY <1>1, <1>2, <1>3, RequestFields DEF PreparedFor, Entered, Inside, UsesMap
<1>5. pc'[c] = "leaving"
  BY <1>1 DEF ThreadsOK, UseMap, PutValue, FindKey, CopyValue, EraseKey, ReadSize, Goto
<1>6. Answer(c)' = Built(c)'
  BY <1>5 DEF Answer
<1>7. request'[c] = request[c]
  BY UseStep
<1> USE SameRequests
<1>8. CASE PutValue(c)
  BY <1>3, <1>6, <1>7, <1>8 DEF PutValue, Using, Built, Object!Effect
<1>9. CASE FindKey(c)
  <2>1. values[request[c].key] = NoValue /\ values' = values /\ request[c].op = "get"
    BY <1>1, <1>5, <1>9 DEF ThreadsOK, FindKey, Using, Goto
  <2>2. local'[c] = NoLocal
    BY <1>1, <1>2, <1>9 DEF FindKey, PreparedFor, Inside
  <2>3. Answer(c)' = NotFound
    BY <1>6, <1>7, <2>1, <2>2 DEF Built
  <2> QED
    BY <1>3, <2>1, <2>3 DEF Object!Effect, Object!Held
<1>10. CASE CopyValue(c)
  <2>1. /\ values[request[c].key] # NoValue /\ values' = values /\ request[c].op = "get"
        /\ local'[c] = [kind |-> "value", value |-> values[request[c].key]]
    BY <1>1, <1>10 DEF ThreadsOK, CopyValue, Keep, PreparedFor, FoundStays
  <2>2. local'[c] # NoLocal /\ local'[c].value = values[request[c].key]
    BY <2>1 DEF NoLocal
  <2>3. Answer(c)' = ValueReply(values[request[c].key])
    BY <1>6, <1>7, <2>1, <2>2 DEF Built
  <2> QED
    BY <1>3, <2>1, <2>3 DEF Object!Effect, Object!Held
<1>11. CASE EraseKey(c)
  <2>1. /\ request[c].op = "delete"
        /\ values' = [values EXCEPT ![request[c].key] = NoValue]
        /\ local'[c].removed = IF values[request[c].key] = NoValue THEN 0 ELSE 1
    BY <1>1, <1>11 DEF ThreadsOK, EraseKey, Using, Keep
  <2>2. Answer(c)' = IF values[request[c].key] = NoValue THEN NotFound ELSE Ok
    BY <1>6, <1>7, <2>1 DEF Built
  <2>3. CASE values[request[c].key] = NoValue
    <3>1. values' = values
      BY <1>1, <1>4, <2>1, <2>3 DEF ThreadsOK, Stores
    <3> QED
      BY <1>3, <2>1, <2>2, <2>3, <3>1 DEF Object!Effect, Object!Held
  <2>4. CASE values[request[c].key] # NoValue
    BY <1>3, <2>1, <2>2, <2>4 DEF Object!Effect, Object!Held
  <2> QED
    BY <2>3, <2>4
<1>12. CASE ReadSize(c)
  <2>1. request[c].op = "count" /\ values' = values /\ local'[c].size = Size(values)
    BY <1>1, <1>12 DEF ThreadsOK, ReadSize, Using, Keep
  <2>2. Answer(c)' = CountReply(Size(values))
    BY <1>6, <1>7, <2>1 DEF Built
  <2> QED
    BY <1>3, <2>1, <2>2, SameSize DEF Object!Effect
<1> QED
  BY <1>3, <1>8, <1>9, <1>10, <1>11, <1>12 DEF UseMap

\* Every step of the server is a step of the map or leaves it as it is.
LEMMA StepRefines ==
    ASSUME ThreadsInv, NoOverlap, [UNext]_uvars
    PROVE  [Object!ONext]_Object!ovars
<1>0. ThreadsOK /\ Prepared
  BY DEF ThreadsInv
<1> DEFINE Same == values' = values /\ request' = request /\ Answers' = Answers
           MapCall(c) == /\ request[c] = NoRequest
                         /\ \E r \in Requests : request' = [request EXCEPT ![c] = r]
                         /\ values' = values /\ Answers' = Answers
           MapPerform(c) == /\ request[c] # NoRequest /\ Answers[c] = NoReply
                            /\ Answers' = [Answers EXCEPT ![c] = Answers'[c]]
                            /\ Object!Effect(request[c], values', Answers'[c])
                            /\ request' = request
           MapReturn(c) == /\ Answers[c] # NoReply
                           /\ request' = [request EXCEPT ![c] = NoRequest]
                           /\ Answers' = [Answers EXCEPT ![c] = NoReply]
                           /\ values' = values
<1>1. ASSUME NEW c \in Clients, MapCall(c) PROVE Object!ONext
  BY <1>1, SameRequests DEF Object!ONext, Object!Call, Answers
<1>2. ASSUME NEW c \in Clients, MapPerform(c) PROVE Object!ONext
  BY <1>2, SameRequests DEF Object!ONext, Object!Perform, Answers
<1>3. ASSUME NEW c \in Clients, MapReturn(c) PROVE Object!ONext
  BY <1>3, SameRequests DEF Object!ONext, Object!Return, Answers
<1>4. ASSUME Same PROVE UNCHANGED Object!ovars
  BY <1>4 DEF Object!ovars, Answers
<1>5. ASSUME NEW c \in Clients, Step(c)
      PROVE  Same \/ MapCall(c) \/ MapPerform(c) \/ MapReturn(c)
  <2>0. /\ Answers[c] = Answer(c) /\ Answers'[c] = Answer(c)' /\ PreparedFor(c)
        /\ Answers' = [Answers EXCEPT ![c] = Answer(c)']
    BY <1>0, <1>5, AnswersStep DEF Answers, Prepared
  <2>1. ASSUME Answer(c)' = Answer(c) PROVE Answers' = Answers
    BY <2>0, <2>1 DEF Answers
  <2>2. CASE Accept(c) \/ Disconnect(c) \/ Enter(c)
    <3>1. Answer(c)' = Answer(c)
      BY <1>0, <2>2 DEF ThreadsOK, Accept, Disconnect, Enter, Goto, Answer
    <3> QED
      BY <2>1, <2>2, <3>1 DEF Accept, Disconnect, Enter
  <2>3. CASE \E r \in Requests : ReadLine(c, r)
    <3>1. Answer(c)' = Answer(c) /\ request[c] = NoRequest
      BY <1>0, <2>0, <2>3 DEF ThreadsOK, ReadLine, Goto, Answer, PreparedFor
    <3> QED
      BY <2>1, <2>3, <3>1 DEF ReadLine
  <2>4. CASE Parse(c)
    <3>1. /\ request[c] # NoRequest /\ Answer(c) = NoReply
          /\ values' = values /\ request' = request
      BY <2>0, <2>4 DEF Parse, Answer, PreparedFor
    <3>2. CASE UsesMap(request[c]) /\ Goto(c, "entering") /\ UNCHANGED response
      <4>1. Answer(c)' = Answer(c)
        BY <1>0, <2>4, <3>2 DEF ThreadsOK, Goto, Answer, Parse
      <4> QED
        BY <2>1, <3>1, <4>1
    <3>3. CASE request[c].op = "invalid" /\ Respond(c, Error) /\ Goto(c, "sending")
      <4>1. Answer(c)' = Error
        BY <1>0, <3>3 DEF ThreadsOK, Goto, Respond, Answer
      <4>2. Object!Effect(request[c], values', Answer(c)')
        BY <3>1, <3>3, <4>1, SameRequests DEF Object!Effect
      <4> QED
        BY <2>0, <3>1, <4>2
    <3>4. CASE request[c].op = "quit" /\ Respond(c, Bye) /\ Goto(c, "sending")
      <4>1. Answer(c)' = Bye
        BY <1>0, <3>4 DEF ThreadsOK, Goto, Respond, Answer
      <4>2. Object!Effect(request[c], values', Answer(c)')
        BY <3>1, <3>4, <4>1, SameRequests DEF Object!Effect
      <4> QED
        BY <2>0, <3>1, <4>2
    <3> QED
      BY <2>4, <3>2, <3>3, <3>4 DEF Parse
  <2>5. CASE UseMap(c)
    <3>1. CASE FindKey(c) /\ pc'[c] = "copying"
      <4>1. Answer(c)' = Answer(c)
        BY <3>1 DEF FindKey, Using, Answer
      <4> QED
        BY <2>1, <3>1, <4>1 DEF FindKey
    <3>2. CASE ~(FindKey(c) /\ pc'[c] = "copying")
      BY <2>0, <2>5, <3>2, UseEffect, UseStep
    <3> QED
      BY <3>1, <3>2
  <2>6. CASE Leave(c)
    <3>1. Answer(c)' = Answer(c)
      BY <1>0, <2>6 DEF ThreadsOK, Leave, Goto, Respond, Answer
    <3> QED
      BY <2>1, <2>6, <3>1 DEF Leave
  <2>7. CASE Send(c)
    <3>1. Answer(c) # NoReply /\ Answer(c)' = NoReply
      BY <1>0, <2>0, <2>7 DEF ThreadsOK, Send, Goto, Respond, Answer, PreparedFor
    <3> QED
      BY <2>0, <2>7, <3>1 DEF Send
  <2> QED
    BY <1>5, <2>2, <2>3, <2>4, <2>5, <2>6, <2>7 DEF Step, Serve
<1>6. CASE UNCHANGED uvars
  <2>1. Same
    BY <1>6 DEF uvars, Answers, Answer, Built
  <2> QED
    BY <1>4, <2>1
<1>7. ASSUME NEW c \in Clients, Race(c) PROVE FALSE
  BY <1>7 DEF Race, NoOverlap
<1> QED
  BY <1>1, <1>2, <1>3, <1>4, <1>5, <1>6, <1>7 DEF UNext

LEMMA InitRefines == UInit => Object!OInit
  BY SameRequests DEF UInit, Object!OInit, Answer

\* Without a mutex: as long as no two commands meet in the map, the threads are
\* one map that carries out the commands of all clients one at a time.
THEOREM UnguardedImplements == USpec /\ []NoOverlap => Linearizable
<1>1. ThreadsInv /\ NoOverlap /\ [UNext]_uvars => ThreadsInv'
  BY ThreadsStep
<1>2. ThreadsInv /\ NoOverlap /\ [UNext]_uvars => [Object!ONext]_Object!ovars
  BY StepRefines
<1> QED
  BY <1>1, <1>2, InitThreads, InitRefines, PTL DEF USpec, Linearizable, Object!ObjectSpec

-----------------------------------------------------------------------------
(* The server with the mutex.                                              *)

\* Who holds the mutex is alone in the map.
LEMMA HolderAlone == ASSUME Exclusive PROVE NoOverlap
  BY DEF Exclusive, NoOverlap, Overlap, Entered, Inside

\* The mutex only delays the steps of the threads.
LEMMA GuardedStep == ASSUME NEW c \in Clients, handleClient(c) PROVE Step(c)
  BY DEF handleClient, handleCommand, Lock, Unlock, Step

LEMMA ExclusiveStep ==
    ASSUME IInv, [Next]_vars
    PROVE  Exclusive' /\ mutex' \in Clients \cup {NoClient}
<1>0. /\ pc \in [Clients -> {"closed", "reading", "parsing", "entering", "sending"} \cup Entered]
      /\ Exclusive /\ NoClient \notin Clients /\ mutex \in Clients \cup {NoClient}
  BY ServerAssumption DEF IInv, TypeOK, ThreadsOK
<1> USE DEF Exclusive, Entered, Inside
<1>1. CASE UNCHANGED vars
  BY <1>0, <1>1 DEF vars, uvars
<1>2. ASSUME NEW c \in Clients, Serve(c), UNCHANGED mutex PROVE Exclusive'
  BY <1>0, <1>2 DEF Serve, Accept, Disconnect, Parse, Send, ReadLine, Goto
<1>3. ASSUME NEW c \in Clients, Lock(c) PROVE Exclusive'
  BY <1>0, <1>3 DEF Lock, Enter, Goto
<1>4. ASSUME NEW c \in Clients, UseMap(c), UNCHANGED mutex PROVE Exclusive'
  BY <1>0, <1>4, UseStep
<1>5. ASSUME NEW c \in Clients, Unlock(c) PROVE Exclusive'
  BY <1>0, <1>5 DEF Unlock, Leave, Goto
<1>6. mutex' \in Clients \cup {NoClient}
  BY <1>0 DEF Next, handleClient, handleCommand, Lock, Unlock, vars
<1> QED
  BY <1>1, <1>2, <1>3, <1>4, <1>5, <1>6 DEF Next, handleClient, handleCommand

LEMMA Guarded == ASSUME [Next]_vars PROVE [UNext]_uvars
  BY GuardedStep DEF Next, UNext, vars

LEMMA Invariant == Spec => []IInv
<1>1. Init => IInv
  <2> SUFFICES ASSUME Init PROVE IInv
    OBVIOUS
  <2>1. Exclusive
    BY ServerAssumption DEF Init, UInit, Exclusive, Entered, Inside
  <2> QED
    BY <2>1, InitThreads DEF Init, IInv, TypeOK, ThreadsInv
<1>2. IInv /\ [Next]_vars => IInv'
  <2> SUFFICES ASSUME IInv, [Next]_vars PROVE IInv'
    OBVIOUS
  <2>1. ThreadsInv /\ NoOverlap
    BY HolderAlone DEF IInv, TypeOK, ThreadsInv
  <2>2. ThreadsInv'
    BY <2>1, Guarded, ThreadsStep
  <2> QED
    BY <2>2, ExclusiveStep DEF IInv, TypeOK, ThreadsInv
<1> QED
  BY <1>1, <1>2, PTL DEF Spec

\* The variables keep their types.
THEOREM TypeCorrect == Spec => []TypeOK
<1>1. IInv => TypeOK
  BY DEF IInv
<1> QED
  BY <1>1, Invariant, PTL

\* What GET found is still there when it reads the value.
THEOREM IteratorValid == Spec => []FoundStays
<1>1. IInv => FoundStays
  BY DEF IInv
<1> QED
  BY <1>1, Invariant, PTL

\* With the mutex the server does what the server without one does as long as
\* no two commands meet in the map: no command ever races.
THEOREM NeverRaces == Spec => RaceFree
<1> DEFINE Quiet == \E c \in Clients : Step(c) /\ (UseMap(c) => ~\E d \in Clients : Overlap(c, d))
<1>1. Init => UInit
  BY DEF Init
<1>2. IInv /\ [Next]_vars => [Quiet]_uvars
  BY HolderAlone, GuardedStep DEF IInv, Next, NoOverlap, vars
<1> QED
  BY <1>1, <1>2, Invariant, PTL DEF Spec, RaceFree

\* The server is linearizable: its threads together are one map that carries
\* out the commands of all clients one at a time.
THEOREM Implements == Spec => Linearizable
<1>1. Init => UInit
  BY DEF Init
<1>2. IInv /\ [Next]_vars => [UNext]_uvars /\ NoOverlap
  BY HolderAlone, Guarded DEF IInv
<1>3. Spec => USpec /\ []NoOverlap
  BY <1>1, <1>2, Invariant, PTL DEF Spec, USpec
<1> QED
  BY <1>3, UnguardedImplements, PTL
=============================================================================
