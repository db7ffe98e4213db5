--------------------------- MODULE SharedListProofs ---------------------------
(***************************************************************************)
(* Theorems about SharedList, for every set of clients and values, every   *)
(* set of arguments and lists of any length; among them that the threads   *)
(* together implement the abstract list of ListObject.                     *)
(***************************************************************************)
EXTENDS SharedList, SequenceTheorems, TLAPS

-----------------------------------------------------------------------------
(* The vector: what each use of it returns stays a list of values.         *)

LEMMA RequestFields ==
    ASSUME NEW r \in Requests
    PROVE  /\ r.op \in {"push", "insert", "set"} => r.value \in Values
           /\ r.op \in {"insert", "set", "remove", "get", "swap"} => r.index \in Int
           /\ r.op = "swap" => r.other \in Int
           /\ r.op \in {"push", "pop", "count", "clear", "quit", "malformed",
                        "insert", "set", "remove", "get", "swap"}
<1>1. CASE r \in [op : {"push"}, value : Values]
  BY <1>1
<1>2. CASE r \in [op : {"pop", "count", "clear", "quit", "malformed"}]
  BY <1>2
<1>3. CASE r \in [op : {"insert", "set"}, index : Arguments, value : Values]
  <2>1. r.op \in {"insert", "set"} /\ r.index \in Arguments /\ r.value \in Values
    BY <1>3
  <2>2. r.index \in Int
    BY <2>1, RequestAssumption
  <2> QED
    BY <2>1, <2>2
<1>4. CASE r \in [op : {"remove", "get"}, index : Arguments]
  <2>1. r.op \in {"remove", "get"} /\ r.index \in Arguments
    BY <1>4
  <2>2. r.index \in Int
    BY <2>1, RequestAssumption
  <2> QED
    BY <2>1, <2>2
<1>5. CASE r \in [op : {"swap"}, index : Arguments, other : Arguments]
  <2>1. r.op = "swap" /\ r.index \in Arguments /\ r.other \in Arguments
    BY <1>5
  <2>2. r.index \in Int /\ r.other \in Int
    BY <2>1, RequestAssumption
  <2> QED
    BY <2>1, <2>2
<1> QED
  BY <1>1, <1>2, <1>3, <1>4, <1>5 DEF Requests

LEMMA RequestIsOne ==
    ASSUME NEW r \in Requests
    PROVE  r # NoRequest
<1>1. r.op # "none"
  BY RequestFields
<1> QED
  BY <1>1 DEF NoRequest

\* An index that was accepted stands in the vector.
LEMMA AcceptedIndex ==
    ASSUME NEW r \in Requests, NEW s \in Seq(Values),
           ~Malformed(r), ~OutOfRange(r, s)
    PROVE  /\ r.op = "pop" => Len(s) \in 1..Len(s)
           /\ r.op = "insert" => r.index + 1 \in 1..(Len(s) + 1)
           /\ r.op \in {"remove", "get", "set", "swap"} => r.index + 1 \in 1..Len(s)
           /\ r.op = "swap" => r.other + 1 \in 1..Len(s)
<1>1. Len(s) \in Nat /\ (s # <<>> => Len(s) # 0)
  BY EmptySeq, LenProperties
<1> QED
  BY <1>1, RequestFields DEF Malformed, OutOfRange

LEMMA RemoveAtType ==
    ASSUME NEW s \in Seq(Values), NEW i \in 1..Len(s)
    PROVE  RemoveAt(s, i) \in Seq(Values)
<1>1. SubSeq(s, 1, i - 1) \in Seq(Values) /\ SubSeq(s, i + 1, Len(s)) \in Seq(Values)
  OBVIOUS
<1> QED
  BY <1>1, ConcatProperties DEF RemoveAt

LEMMA InsertAtType ==
    ASSUME NEW s \in Seq(Values), NEW i \in 1..(Len(s) + 1), NEW v \in Values
    PROVE  InsertAt(s, i, v) \in Seq(Values)
<1>1. /\ SubSeq(s, 1, i - 1) \in Seq(Values) /\ SubSeq(s, i, Len(s)) \in Seq(Values)
      /\ <<v>> \in Seq(Values)
  OBVIOUS
<1>2. SubSeq(s, 1, i - 1) \o <<v>> \in Seq(Values)
  BY <1>1, ConcatProperties
<1> QED
  BY <1>1, <1>2, ConcatProperties DEF InsertAt

LEMMA FrontType ==
    ASSUME NEW s \in Seq(Values), s # <<>>
    PROVE  Front(s) \in Seq(Values) /\ Last(s) \in Values
<1>1. Len(s) \in Nat \ {0}
  BY EmptySeq
<1>2. SubSeq(s, 1, Len(s) - 1) \in Seq(Values)
  BY <1>1
<1> QED
  BY <1>1, <1>2 DEF Front, Last

LEMMA SwappedType ==
    ASSUME NEW s \in Seq(Values), NEW i \in 1..Len(s), NEW j \in 1..Len(s)
    PROVE  Swapped(s, i, j) \in Seq(Values)
<1>1. s[i] \in Values /\ s[j] \in Values
  BY ElementOfSeq
<1>2. /\ [s EXCEPT ![i] = s[j]] \in Seq(Values)
      /\ Len([s EXCEPT ![i] = s[j]]) = Len(s)
  BY <1>1, ExceptSeq
<1>3. Swapped(s, i, j) = [[s EXCEPT ![i] = s[j]] EXCEPT ![j] = s[i]]
  BY DEF Swapped
<1> QED
  BY <1>1, <1>2, <1>3, ExceptSeq

\* A handler that has passed its check leaves a list of values.
LEMMA MutationType ==
    ASSUME TypeOK, UseDefined, Prepared, NEW c \in Clients, Mutating(c)
    PROVE  sharedList' \in Seq(Values)
<1>1. /\ request[c] \in Requests /\ ~Malformed(request[c])
      /\ ~OutOfRange(request[c], sharedList) /\ sharedList \in Seq(Values)
      /\ pc[c] = "mutating"
  BY RequestFields DEF TypeOK, UseDefined, Prepared, Holding, Mutating, Mutate,
     PushBack, PopBack, InsertValue, Erase, Assign, SwapValues, ClearAll
<1>2. CASE PushBack(c)
  BY <1>1, <1>2, RequestFields, AppendProperties DEF PushBack, Mutate
<1>3. CASE PopBack(c)
  <2>1. sharedList # <<>>
    BY <1>1, <1>3 DEF PopBack, Mutate, OutOfRange
  <2> QED
    BY <1>1, <1>3, <2>1, FrontType DEF PopBack, Mutate
<1>4. CASE InsertValue(c)
  BY <1>1, <1>4, RequestFields, AcceptedIndex, InsertAtType DEF InsertValue, Mutate
<1>5. CASE Erase(c)
  BY <1>1, <1>5, AcceptedIndex, RemoveAtType DEF Erase, Mutate
<1>6. CASE Assign(c)
  BY <1>1, <1>6, RequestFields, AcceptedIndex, ExceptSeq DEF Assign, Mutate, ReplaceAt
<1>7. CASE SwapValues(c)
  BY <1>1, <1>7, AcceptedIndex, SwappedType DEF SwapValues, Mutate
<1>8. CASE ClearAll(c)
  BY <1>8 DEF ClearAll, Mutate
<1> QED
  BY <1>2, <1>3, <1>4, <1>5, <1>6, <1>7, <1>8 DEF Mutating

-----------------------------------------------------------------------------
(* The responses.                                                          *)

LEMMA CountReplyType ==
    ASSUME NEW n \in Nat
    PROVE  CountReply(n) \in Replies /\ CountReply(n).kind \in {"count", "error"}
<1>1. MaxCount \in Nat
  BY RequestAssumption
<1>2. CASE n > MaxCount
  BY <1>2 DEF CountReply, Replies, Error
<1>3. CASE ~(n > MaxCount)
  <2>1. n \in 0..MaxCount
    BY <1>1, <1>3
  <2>2. CountReply(n) = [kind |-> "count", count |-> n]
    BY <1>3 DEF CountReply
  <2> QED
    BY <2>1, <2>2 DEF Replies
<1> QED
  BY <1>2, <1>3

LEMMA CopyFields ==
    ASSUME NEW a \in Copies
    PROVE  /\ a.kind \in {"none", "value", "size"}
           /\ a.kind = "none" => a = NotCopied
           /\ a.kind = "value" => a = ValueCopy(a.value) /\ a.value \in Values
           /\ a.kind = "size" => a.size \in Nat
  BY DEF Copies, NotCopied, ValueCopy

LEMMA BuiltType ==
    ASSUME NEW c \in Clients, copied[c] \in Copies
    PROVE  Built(c) \in Replies /\ Built(c) # NoReply /\ Built(c) # Bye
<1>1. CASE copied[c].kind = "none"
  BY <1>1 DEF Built, Replies, Ok, NoReply, Bye
<1>2. CASE copied[c].kind = "value"
  <2>1. copied[c].value \in Values
    BY <1>2, CopyFields
  <2>2. Built(c) = ValueReply(copied[c].value)
    BY <1>2 DEF Built
  <2>3. Built(c).kind = "value" /\ Built(c) \in Replies
    BY <2>1, <2>2 DEF ValueReply, Replies
  <2> QED
    BY <2>3 DEF NoReply, Bye
<1>3. CASE copied[c].kind = "size"
  <2>1. Built(c) = CountReply(copied[c].size)
    BY <1>3 DEF Built
  <2>2. Built(c) \in Replies /\ Built(c).kind \in {"count", "error"}
    BY <1>3, <2>1, CopyFields, CountReplyType
  <2> QED
    BY <2>2 DEF NoReply, Bye
<1> QED
  BY <1>1, <1>2, <1>3, CopyFields

-----------------------------------------------------------------------------
(* The invariant.                                                          *)

LEMMA InitInvariant == Init => IInv
<1> SUFFICES ASSUME Init PROVE IInv
  OBVIOUS
<1>1. TypeOK
  BY EmptySeq DEF Init, TypeOK, Copies
<1>2. Exclusive /\ Prepared /\ UseDefined /\ TakenIsAnswered
  BY ListAssumption DEF Init, Exclusive, Prepared, UseDefined, TakenIsAnswered, Holding
<1> QED
  BY <1>1, <1>2 DEF IInv

\* Two handlers do not hold the mutex at once.
LEMMA OneHolder ==
    ASSUME Exclusive, NEW c \in Clients, NEW d \in Clients,
           pc[c] \in Holding, pc[d] \in Holding
    PROVE  c = d
  BY DEF Exclusive

LEMMA TypeStep ==
    ASSUME IInv, [Next]_vars
    PROVE  TypeOK'
<1> USE DEF IInv
<1>0. TypeOK /\ Prepared /\ UseDefined
  OBVIOUS
<1>1. CASE UNCHANGED vars
  BY <1>1 DEF TypeOK, vars
<1>2. ASSUME NEW c \in Clients, Accept(c) PROVE TypeOK'
  BY <1>0, <1>2 DEF TypeOK, Accept, Goto
<1>3. ASSUME NEW c \in Clients, Disconnect(c) PROVE TypeOK'
  BY <1>0, <1>3 DEF TypeOK, Disconnect, Goto
<1>4. ASSUME NEW c \in Clients, NEW r \in Requests, Receive(c, r) PROVE TypeOK'
  BY <1>0, <1>4 DEF TypeOK, Receive, Goto
<1>5. ASSUME NEW c \in Clients, Decode(c) PROVE TypeOK'
  <2>1. Error \in Replies /\ Bye \in Replies
    BY DEF Replies
  <2> QED
    BY <1>0, <1>5, <2>1 DEF TypeOK, Decode, Goto, Respond
<1>6. ASSUME NEW c \in Clients, Lock(c) PROVE TypeOK'
  BY <1>0, <1>6 DEF TypeOK, Lock, Goto, Holding
<1>7. ASSUME NEW c \in Clients, Reject(c) PROVE TypeOK'
  <2>1. Error \in Replies
    BY DEF Replies
  <2> QED
    BY <1>0, <1>7, <2>1 DEF TypeOK, Reject, Goto, Respond
<1>8. ASSUME NEW c \in Clients, Pass(c) PROVE TypeOK'
  BY <1>0, <1>8 DEF TypeOK, Pass, Goto, FirstUse, Holding
<1>9. ASSUME NEW c \in Clients, Copying(c) PROVE TypeOK'
  <2> USE DEF Copies
  <2>1. /\ request[c] \in Requests /\ sharedList \in Seq(Values)
        /\ ~Malformed(request[c]) /\ ~OutOfRange(request[c], sharedList)
        /\ pc[c] = "copying"
    BY <1>0, <1>9 DEF TypeOK, Prepared, UseDefined, Holding, Copying, Copy,
       CopyForPop, CopyForRemove, CopyForGet, CopyForCount
  <2>2. ASSUME NEW op, NEW a \in Copies, NEW next \in Holding, Copy(c, op, a, next)
        PROVE  TypeOK'
    BY <1>0, <2>2 DEF TypeOK, Copy, Goto
  <2>3. CASE CopyForPop(c)
    <3>1. sharedList # <<>>
      BY <2>1, <2>3 DEF CopyForPop, Copy, OutOfRange
    <3>2. ValueCopy(Last(sharedList)) \in Copies
      BY <2>1, <3>1, FrontType DEF ValueCopy
    <3> QED
      BY <2>2, <2>3, <3>2 DEF CopyForPop, Holding
  <2>4. ASSUME request[c].op \in {"remove", "get"}
        PROVE  ValueCopy(sharedList[request[c].index + 1]) \in Copies
    <3>1. request[c].index + 1 \in 1..Len(sharedList)
      BY <2>1, <2>4, AcceptedIndex
    <3>2. sharedList[request[c].index + 1] \in Values
      BY <2>1, <3>1, ElementOfSeq
    <3> QED
      BY <3>2 DEF ValueCopy
  <2>5. CASE CopyForRemove(c)
    BY <2>2, <2>4, <2>5 DEF CopyForRemove, Copy, Holding
  <2>6. CASE CopyForGet(c)
    BY <2>2, <2>4, <2>6 DEF CopyForGet, Copy, Holding
  <2>7. CASE CopyForCount(c)
    <3>1. [kind |-> "size", size |-> Len(sharedList)] \in Copies
      BY <2>1
    <3> QED
      BY <2>2, <2>7, <3>1 DEF CopyForCount, Holding
  <2> QED
    BY <1>9, <2>3, <2>5, <2>6, <2>7 DEF Copying
<1>10. ASSUME NEW c \in Clients, Mutating(c) PROVE TypeOK'
  <2>1. sharedList' \in Seq(Values)
    BY <1>0, <1>10, MutationType
  <2>2. /\ pc' = [pc EXCEPT ![c] = "unlocking"]
        /\ UNCHANGED <<mutex, request, copied, response>>
    BY <1>10 DEF Mutating, Mutate, Goto, PushBack, PopBack, InsertValue, Erase,
       Assign, SwapValues, ClearAll
  <2> QED
    BY <1>0, <2>1, <2>2 DEF TypeOK, Holding
<1>11. ASSUME NEW c \in Clients, Unlock(c) PROVE TypeOK'
  <2>1. Built(c) \in Replies
    BY <1>0, <1>11, BuiltType DEF TypeOK
  <2> QED
    BY <1>0, <1>11, <2>1 DEF TypeOK, Unlock, Goto, Respond
<1>12. ASSUME NEW c \in Clients, Reply(c) PROVE TypeOK'
  BY <1>0, <1>12 DEF TypeOK, Reply, Goto, Respond, Copies
<1> QED
  BY <1>1, <1>2, <1>3, <1>4, <1>5, <1>6, <1>7, <1>8, <1>9, <1>10, <1>11, <1>12
     DEF Next, Handle

\* The steps of a handler, by what they do to its place and its locals.
LEMMA CopyingStep ==
    ASSUME NEW c \in Clients, Copying(c)
    PROVE  /\ pc[c] = "copying" /\ UNCHANGED <<sharedList, mutex, request, response>>
           /\ \E a, next : /\ copied' = [copied EXCEPT ![c] = a]
                           /\ pc' = [pc EXCEPT ![c] = next]
                           /\ \/ /\ request[c].op = "pop" /\ next = "mutating"
                                 /\ a = ValueCopy(Last(sharedList))
                              \/ /\ request[c].op = "remove" /\ next = "mutating"
                                 /\ a = ValueCopy(sharedList[request[c].index + 1])
                              \/ /\ request[c].op = "get" /\ next = "unlocking"
                                 /\ a = ValueCopy(sharedList[request[c].index + 1])
                              \/ /\ request[c].op = "count" /\ next = "unlocking"
                                 /\ a = [kind |-> "size", size |-> Len(sharedList)]
  BY DEF Copying, Copy, Goto, CopyForPop, CopyForRemove, CopyForGet, CopyForCount

LEMMA MutatingStep ==
    ASSUME NEW c \in Clients, Mutating(c)
    PROVE  /\ pc[c] = "mutating" /\ UNCHANGED <<mutex, request, copied, response>>
           /\ pc' = [pc EXCEPT ![c] = "unlocking"]
           /\ request[c].op \in {"push", "pop", "insert", "remove", "set", "swap", "clear"}
  BY DEF Mutating, Mutate, Goto, PushBack, PopBack, InsertValue, Erase, Assign,
     SwapValues, ClearAll

LEMMA ExclusiveStep ==
    ASSUME IInv, [Next]_vars
    PROVE  Exclusive'
<1> USE DEF IInv
<1>0. /\ pc \in [Clients -> {"closed", "reading", "decoding", "locking", "replying"} \cup Holding]
      /\ Exclusive /\ NoClient \notin Clients
  BY ListAssumption DEF TypeOK
<1> USE DEF Exclusive, Holding
<1>1. CASE UNCHANGED vars
  BY <1>0, <1>1 DEF vars
<1>2. ASSUME NEW c \in Clients, Accept(c) PROVE Exclusive'
  BY <1>0, <1>2 DEF Accept, Goto
<1>3. ASSUME NEW c \in Clients, Disconnect(c) PROVE Exclusive'
  BY <1>0, <1>3 DEF Disconnect, Goto
<1>4. ASSUME NEW c \in Clients, NEW r \in Requests, Receive(c, r) PROVE Exclusive'
  BY <1>0, <1>4 DEF Receive, Goto
<1>5. ASSUME NEW c \in Clients, Decode(c) PROVE Exclusive'
  BY <1>0, <1>5 DEF Decode, Goto
<1>6. ASSUME NEW c \in Clients, Lock(c) PROVE Exclusive'
  BY <1>0, <1>6 DEF Lock, Goto
<1>7. ASSUME NEW c \in Clients, Reject(c) PROVE Exclusive'
  BY <1>0, <1>7 DEF Reject, Goto
<1>8. ASSUME NEW c \in Clients, Pass(c) PROVE Exclusive'
  BY <1>0, <1>8 DEF Pass, Goto, FirstUse
<1>9. ASSUME NEW c \in Clients, Copying(c) PROVE Exclusive'
  BY <1>0, <1>9, CopyingStep
<1>10. ASSUME NEW c \in Clients, Mutating(c) PROVE Exclusive'
  BY <1>0, <1>10, MutatingStep
<1>11. ASSUME NEW c \in Clients, Unlock(c) PROVE Exclusive'
  BY <1>0, <1>11 DEF Unlock, Goto
<1>12. ASSUME NEW c \in Clients, Reply(c) PROVE Exclusive'
  BY <1>0, <1>12 DEF Reply, Goto
<1> QED
  BY <1>1, <1>2, <1>3, <1>4, <1>5, <1>6, <1>7, <1>8, <1>9, <1>10, <1>11, <1>12
     DEF Next, Handle

\* What Prepared says of one client.
PreparedFor(c) ==
    /\ request[c] = NoRequest <=> pc[c] \in {"closed", "reading"}
    /\ response[c] = NoReply <=> pc[c] # "replying"
    /\ pc[c] \in Holding \cup {"locking"} =>
           ~Malformed(request[c]) /\ request[c].op # "quit"
    /\ pc[c] = "copying" => request[c].op \in {"pop", "remove", "get", "count"}
    /\ pc[c] = "mutating" => request[c].op \notin {"get", "count"}
    /\ copied[c] # NotCopied =>
           \/ pc[c] \in {"unlocking", "replying"}
           \/ pc[c] = "mutating" /\ request[c].op \in {"pop", "remove"}

LEMMA PreparedStep ==
    ASSUME IInv, [Next]_vars
    PROVE  Prepared'
<1>1. TypeOK /\ (\A d \in Clients : PreparedFor(d))
  BY DEF IInv, Prepared, PreparedFor
<1> SUFFICES ASSUME NEW d \in Clients PROVE PreparedFor(d)'
  BY DEF Prepared, PreparedFor
<1>2. PreparedFor(d)
  BY <1>1
<1>3. ASSUME pc'[d] = pc[d], request'[d] = request[d], copied'[d] = copied[d],
             response'[d] = response[d]
      PROVE  PreparedFor(d)'
  BY <1>2, <1>3 DEF PreparedFor, Malformed
<1>4. CASE UNCHANGED vars
  BY <1>3, <1>4 DEF vars
<1>5. ASSUME NEW c \in Clients, c # d,
             \/ Accept(c) \/ Disconnect(c) \/ Handle(c)
             \/ \E r \in Requests : Receive(c, r)
      PROVE  PreparedFor(d)'
  <2>1. /\ pc'[d] = pc[d] /\ request'[d] = request[d] /\ copied'[d] = copied[d]
        /\ response'[d] = response[d]
    BY <1>1, <1>5, CopyingStep, MutatingStep
       DEF TypeOK, Accept, Disconnect, Handle, Receive, Decode, Lock, Reject, Pass,
           Unlock, Reply, Goto, Respond
  <2> QED
    BY <1>3, <2>1
<1> USE DEF PreparedFor, Holding
<1>6. CASE Accept(d)
  BY <1>1, <1>2, <1>6 DEF TypeOK, Accept, Goto
<1>7. CASE Disconnect(d)
  BY <1>1, <1>2, <1>7 DEF TypeOK, Disconnect, Goto
<1>8. ASSUME NEW r \in Requests, Receive(d, r) PROVE PreparedFor(d)'
  BY <1>1, <1>2, <1>8, RequestIsOne DEF TypeOK, Receive, Goto
<1>9. CASE Decode(d)
  <2>1. Error # NoReply /\ Bye # NoReply
    BY DEF Error, Bye, NoReply
  <2> QED
    BY <1>1, <1>2, <1>9, <2>1 DEF TypeOK, Decode, Goto, Respond
<1>10. CASE Lock(d)
  BY <1>1, <1>2, <1>10 DEF TypeOK, Lock, Goto
<1>11. CASE Reject(d)
  <2>1. Error # NoReply
    BY DEF Error, NoReply
  <2> QED
    BY <1>1, <1>2, <1>11, <2>1 DEF TypeOK, Reject, Goto, Respond
<1>12. CASE Pass(d)
  BY <1>1, <1>2, <1>12 DEF TypeOK, Pass, Goto, FirstUse
<1>13. CASE Copying(d)
  BY <1>1, <1>2, <1>13, CopyingStep DEF TypeOK
<1>14. CASE Mutating(d)
  BY <1>1, <1>2, <1>14, MutatingStep DEF TypeOK
<1>15. CASE Unlock(d)
  <2>1. Built(d) # NoReply
    BY <1>1, BuiltType DEF TypeOK
  <2> QED
    BY <1>1, <1>2, <1>15, <2>1 DEF TypeOK, Unlock, Goto, Respond
<1>16. CASE Reply(d)
  BY <1>1, <1>2, <1>16 DEF TypeOK, Reply, Goto, Respond
<1> QED
  BY <1>4, <1>5, <1>6, <1>7, <1>8, <1>9, <1>10, <1>11, <1>12, <1>13, <1>14, <1>15,
     <1>16 DEF Next, Handle

\* A handler that is about to use the vector sees it as it was when it checked
\* the index, for nobody else changes it while the mutex is taken.
LEMMA UseStep ==
    ASSUME IInv, [Next]_vars
    PROVE  UseDefined' /\ TakenIsAnswered'
<1>1. /\ TypeOK /\ Exclusive /\ UseDefined /\ TakenIsAnswered
      /\ \A e \in Clients : PreparedFor(e)
  BY DEF IInv, Prepared, PreparedFor
<1> DEFINE Defined(d) == pc[d] \in {"copying", "mutating"} => ~OutOfRange(request[d], sharedList)
           Taken(d) == pc[d] = "mutating" =>
               /\ request[d].op = "pop" => copied[d] = ValueCopy(Last(sharedList))
               /\ request[d].op = "remove" =>
                      copied[d] = ValueCopy(sharedList[request[d].index + 1])
<1> SUFFICES ASSUME NEW d \in Clients PROVE Defined(d)' /\ Taken(d)'
  BY DEF UseDefined, TakenIsAnswered
<1>2. Defined(d) /\ Taken(d)
  BY <1>1 DEF UseDefined, TakenIsAnswered
<1>3. ASSUME pc'[d] = pc[d], request'[d] = request[d], copied'[d] = copied[d],
             sharedList' = sharedList
      PROVE  Defined(d)' /\ Taken(d)'
  BY <1>2, <1>3
<1>4. CASE UNCHANGED vars
  BY <1>3, <1>4 DEF vars
<1>5. ASSUME NEW c \in Clients, c # d,
             \/ Accept(c) \/ Disconnect(c) \/ Decode(c) \/ Lock(c) \/ Reject(c)
             \/ Pass(c) \/ Copying(c) \/ Unlock(c) \/ Reply(c)
             \/ \E r \in Requests : Receive(c, r)
      PROVE  Defined(d)' /\ Taken(d)'
  <2>1. /\ pc'[d] = pc[d] /\ request'[d] = request[d] /\ copied'[d] = copied[d]
        /\ sharedList' = sharedList
    BY <1>1, <1>5, CopyingStep
       DEF TypeOK, Accept, Disconnect, Receive, Decode, Lock, Reject, Pass,
           Unlock, Reply, Goto, Respond
  <2> QED
    BY <1>3, <2>1
<1>6. ASSUME NEW c \in Clients, c # d, Mutating(c) PROVE Defined(d)' /\ Taken(d)'
  <2>1. pc[d] \notin Holding
    BY <1>1, <1>6, MutatingStep, OneHolder DEF Holding
  <2>2. pc'[d] = pc[d]
    BY <1>1, <1>6, MutatingStep DEF TypeOK
  <2> QED
    BY <2>1, <2>2 DEF Holding
<1>7. ASSUME \/ Accept(d) \/ Disconnect(d) \/ Decode(d) \/ Lock(d) \/ Reject(d)
             \/ Mutating(d) \/ Unlock(d) \/ Reply(d) \/ \E r \in Requests : Receive(d, r)
      PROVE  Defined(d)' /\ Taken(d)'
  <2>1. pc'[d] \notin {"copying", "mutating"}
    BY <1>1, <1>7, MutatingStep
       DEF TypeOK, Accept, Disconnect, Receive, Decode, Lock, Reject, Unlock, Reply, Goto
  <2> QED
    BY <2>1
<1>8. CASE Pass(d)
  <2>1. Defined(d)'
    BY <1>1, <1>8 DEF Pass, Refused, TypeOK
  <2>2. /\ pc'[d] = "mutating" => request'[d].op \notin {"pop", "remove"}
    BY <1>1, <1>8 DEF Pass, Goto, FirstUse, TypeOK
  <2> QED
    BY <2>1, <2>2
<1>9. CASE Copying(d)
  <2>1. Defined(d)'
    BY <1>1, <1>2, <1>9, CopyingStep DEF TypeOK
  <2>2. Taken(d)'
    BY <1>1, <1>9, CopyingStep DEF TypeOK
  <2> QED
    BY <2>1, <2>2
<1> QED
  BY <1>4, <1>5, <1>6, <1>7, <1>8, <1>9 DEF Next, Handle

LEMMA Invariant == Spec => []IInv
<1>1. IInv /\ [Next]_vars => IInv'
  BY TypeStep, ExclusiveStep, PreparedStep, UseStep DEF IInv
<1> QED
  BY <1>1, InitInvariant, PTL DEF Spec

\* The variables keep their types: a vector of values, one holder of the mutex,
\* and a response that fits the protocol.
THEOREM TypeCorrect == Spec => []TypeOK
<1>1. IInv => TypeOK
  BY DEF IInv
<1> QED
  BY <1>1, Invariant, PTL

\* The handlers never use the vector outside its bounds, whatever indices the
\* clients send and whatever the other threads do to its size.
THEOREM UseIsDefined == Spec => []UseDefined
<1>1. IInv => UseDefined
  BY DEF IInv
<1> QED
  BY <1>1, Invariant, PTL

\* POP and REMOVE answer with the element they take out.
THEOREM AnsweredIsTaken == Spec => []TakenIsAnswered
<1>1. IInv => TakenIsAnswered
  BY DEF IInv
<1> QED
  BY <1>1, Invariant, PTL

-----------------------------------------------------------------------------
(* The refinement of ListObject.                                           *)

\* ListObject's requests and replies are those of the server.
LEMMA SameRequests ==
    /\ Object!Requests = Requests /\ Object!NoRequest = NoRequest
    /\ Object!Replies = Replies
    /\ Object!Ok = Ok /\ Object!Bye = Bye /\ Object!Error = Error
    /\ Object!NoReply = NoReply
    /\ \A v : Object!ValueReply(v) = ValueReply(v)
    /\ \A n : Object!CountReply(n) = CountReply(n)
  BY DEF Object!Requests, Requests, Object!NoRequest, NoRequest, Object!Replies, Replies,
     Object!Ok, Ok, Object!Bye, Bye, Object!Error, Error, Object!NoReply, NoReply,
     Object!ValueReply, ValueReply, Object!CountReply, CountReply

\* And so are its operators on lists.
LEMMA SameLists ==
    /\ \A r : Object!Malformed(r) <=> Malformed(r)
    /\ \A r, s : Object!OutOfRange(r, s) <=> OutOfRange(r, s)
    /\ \A s, i, j : Object!Swapped(s, i, j) = Swapped(s, i, j)
    /\ \A s : Object!Front(s) = Front(s) /\ Object!Last(s) = Last(s)
    /\ \A s, i : Object!RemoveAt(s, i) = RemoveAt(s, i)
    /\ \A s, i, v : Object!InsertAt(s, i, v) = InsertAt(s, i, v)
    /\ \A s, i, v : Object!ReplaceAt(s, i, v) = ReplaceAt(s, i, v)
  BY DEF Object!Malformed, Malformed, Object!OutOfRange, OutOfRange, Object!Swapped,
     Swapped, Object!Front, Front, Object!Last, Last, Object!RemoveAt, RemoveAt,
     Object!InsertAt, InsertAt, Object!ReplaceAt, ReplaceAt

Answers == [e \in Clients |-> Answer(e)]

Step(c) == \/ Accept(c) \/ Disconnect(c) \/ Handle(c)
           \/ \E r \in Requests : Receive(c, r)

\* A step of one thread settles no answer but its own.
LEMMA AnswersStep ==
    ASSUME TypeOK, NEW c \in Clients, Step(c)
    PROVE  Answers' = [Answers EXCEPT ![c] = Answer(c)']
<1>1. ASSUME NEW d \in Clients, d # c PROVE Answer(d)' = Answer(d)
  <2>1. pc'[d] = pc[d] /\ copied'[d] = copied[d] /\ response'[d] = response[d]
    BY <1>1, CopyingStep, MutatingStep
       DEF TypeOK, Step, Accept, Disconnect, Handle, Receive, Decode, Lock, Reject, Pass,
           Unlock, Reply, Goto, Respond
  <2> QED
    BY <2>1 DEF Answer, Built
<1> QED
  BY <1>1 DEF Answers

\* A request the list can satisfy has the effect Satisfied describes.
LEMMA AcceptedEffect ==
    ASSUME NEW r, NEW before, NEW after, NEW a, ~Malformed(r), ~OutOfRange(r, before),
           Object!Satisfied(r, before, after, a)
    PROVE  Object!Effect(r, before, after, a)
  BY SameLists DEF Object!Effect

\* The change a handler makes to the vector, and the answer it settles.
LEMMA MutationEffect ==
    ASSUME IInv, NEW c \in Clients, Mutating(c)
    PROVE  /\ Object!Effect(request[c], sharedList, sharedList', Answer(c)')
           /\ Answer(c)' \in Replies
<1>1. TypeOK /\ Prepared /\ UseDefined /\ TakenIsAnswered
  BY DEF IInv
<1>2. /\ pc[c] = "mutating" /\ pc'[c] = "unlocking" /\ copied'[c] = copied[c]
      /\ copied[c] \in Copies
  BY <1>1, MutatingStep DEF TypeOK
<1>3. ~Malformed(request[c]) /\ ~OutOfRange(request[c], sharedList)
  BY <1>1, <1>2 DEF Prepared, Holding, UseDefined
<1>4. Answer(c)' = Built(c)
  BY <1>2 DEF Answer, Built
<1>5. Answer(c)' \in Replies
  BY <1>2, <1>4, BuiltType
<1>6. ASSUME request[c].op \notin {"pop", "remove"} PROVE Answer(c)' = Ok
  <2>1. copied[c] = NotCopied
    BY <1>1, <1>2, <1>6 DEF Prepared
  <2> QED
    BY <1>4, <2>1 DEF Built, NotCopied
<1>7. ASSUME NEW v, copied[c] = ValueCopy(v) PROVE Answer(c)' = ValueReply(v)
  BY <1>4, <1>7 DEF Built, ValueCopy
<1>8. SUFFICES Object!Satisfied(request[c], sharedList, sharedList', Answer(c)')
  BY <1>3, <1>5, AcceptedEffect
<1> USE SameRequests, SameLists
<1>9. CASE PushBack(c)
  BY <1>6, <1>9 DEF PushBack, Mutate, Object!Satisfied
<1>10. CASE PopBack(c)
  BY <1>1, <1>2, <1>7, <1>10 DEF PopBack, Mutate, Object!Satisfied, TakenIsAnswered
<1>11. CASE InsertValue(c)
  BY <1>6, <1>11 DEF InsertValue, Mutate, Object!Satisfied
<1>12. CASE Erase(c)
  BY <1>1, <1>2, <1>7, <1>12 DEF Erase, Mutate, Object!Satisfied, TakenIsAnswered
<1>13. CASE Assign(c)
  BY <1>6, <1>13 DEF Assign, Mutate, Object!Satisfied
<1>14. CASE SwapValues(c)
  BY <1>6, <1>14 DEF SwapValues, Mutate, Object!Satisfied
<1>15. CASE ClearAll(c)
  BY <1>6, <1>15 DEF ClearAll, Mutate, Object!Satisfied
<1> QED
  BY <1>9, <1>10, <1>11, <1>12, <1>13, <1>14, <1>15 DEF Mutating

\* GET and COUNT take effect when they copy.
LEMMA CopyEffect ==
    ASSUME IInv, NEW c \in Clients, CopyForGet(c) \/ CopyForCount(c)
    PROVE  /\ Object!Effect(request[c], sharedList, sharedList', Answer(c)')
           /\ Answer(c)' \in Replies
<1>1. TypeOK /\ Prepared /\ UseDefined /\ TypeOK'
  BY TypeStep DEF IInv, Next, Handle, Copying
<1>2. pc[c] = "copying" /\ pc'[c] = "unlocking" /\ sharedList' = sharedList
  BY <1>1 DEF TypeOK, CopyForGet, CopyForCount, Copy, Goto
<1>3. ~Malformed(request[c]) /\ ~OutOfRange(request[c], sharedList)
  BY <1>1, <1>2 DEF Prepared, Holding, UseDefined
<1>4. Answer(c)' = Built(c)'
  BY <1>2 DEF Answer
<1>5. SUFFICES Object!Satisfied(request[c], sharedList, sharedList', Answer(c)')
  <2>1. Built(c)' \in Replies
    <3>1. copied'[c] \in Copies
      BY <1>1 DEF TypeOK
    <3>2. CASE copied'[c].kind = "none"
      BY <3>2 DEF Built, Replies
    <3>3. CASE copied'[c].kind = "value"
      BY <3>1, <3>3, CopyFields DEF Built, Replies, ValueReply
    <3>4. CASE copied'[c].kind = "size"
      BY <3>1, <3>4, CopyFields, CountReplyType DEF Built
    <3> QED
      BY <3>1, <3>2, <3>3, <3>4, CopyFields
  <2> QED
    BY <1>3, <1>4, <2>1, AcceptedEffect
<1> USE SameRequests
<1>6. CASE CopyForGet(c)
  <2>1. copied'[c] = ValueCopy(sharedList[request[c].index + 1])
    BY <1>1, <1>6 DEF TypeOK, CopyForGet, Copy
  <2>2. Answer(c)' = ValueReply(sharedList[request[c].index + 1])
    BY <1>4, <2>1 DEF Built, ValueCopy
  <2> QED
    BY <1>2, <1>6, <2>2 DEF CopyForGet, Copy, Object!Satisfied
<1>7. CASE CopyForCount(c)
  <2>1. copied'[c] = [kind |-> "size", size |-> Len(sharedList)]
    BY <1>1, <1>7 DEF TypeOK, CopyForCount, Copy
  <2>2. Answer(c)' = CountReply(Len(sharedList))
    BY <1>4, <2>1 DEF Built
  <2> QED
    BY <1>2, <1>7, <2>2 DEF CopyForCount, Copy, Object!Satisfied
<1> QED
  BY <1>6, <1>7

\* Every step of the server is a step of the list or leaves it as it is.
LEMMA StepRefines ==
    ASSUME IInv, [Next]_vars
    PROVE  [Object!ONext]_Object!ovars
<1>0. TypeOK /\ (\A d \in Clients : PreparedFor(d))
  BY DEF IInv, Prepared, PreparedFor
<1> DEFINE Same == sharedList' = sharedList /\ request' = request /\ Answers' = Answers
           ListCall(c) == /\ request[c] = NoRequest
                          /\ \E r \in Requests : request' = [request EXCEPT ![c] = r]
                          /\ sharedList' = sharedList /\ Answers' = Answers
           ListPerform(c) == /\ request[c] # NoRequest /\ Answers[c] = NoReply
                             /\ \E a \in Replies :
                                    /\ Object!Effect(request[c], sharedList, sharedList', a)
                                    /\ Answers' = [Answers EXCEPT ![c] = a]
                             /\ request' = request
           ListReturn(c) == /\ Answers[c] # NoReply
                            /\ request' = [request EXCEPT ![c] = NoRequest]
                            /\ Answers' = [Answers EXCEPT ![c] = NoReply]
                            /\ sharedList' = sharedList
<1>1. ASSUME NEW c \in Clients, ListCall(c) PROVE Object!ONext
  BY <1>1, SameRequests DEF Object!ONext, Object!Call, Answers
<1>2. ASSUME NEW c \in Clients, ListPerform(c) PROVE Object!ONext
  BY <1>2, SameRequests DEF Object!ONext, Object!Perform, Answers
<1>3. ASSUME NEW c \in Clients, ListReturn(c) PROVE Object!ONext
  BY <1>3, SameRequests DEF Object!ONext, Object!Return, Answers
<1>4. ASSUME Same PROVE UNCHANGED Object!ovars
  BY <1>4 DEF Object!ovars, Answers
<1>5. ASSUME NEW c \in Clients, Step(c)
      PROVE  Same \/ ListCall(c) \/ ListPerform(c) \/ ListReturn(c)
  <2>0. /\ Answers[c] = Answer(c) /\ PreparedFor(c)
        /\ Answers' = [Answers EXCEPT ![c] = Answer(c)']
    BY <1>0, <1>5, AnswersStep DEF Answers
  <2>1. ASSUME Answer(c)' = Answer(c) PROVE Answers' = Answers
    BY <2>0, <2>1 DEF Answers
  <2>2. ASSUME request[c] # NoRequest, Answer(c) = NoReply, request' = request,
               Object!Effect(request[c], sharedList, sharedList', Answer(c)'),
               Answer(c)' \in Replies
        PROVE  ListPerform(c)
    BY <2>0, <2>2
  <2>3. Error \in Replies /\ Bye \in Replies
    BY DEF Replies
  <2>4. ASSUME Malformed(request[c]) \/ OutOfRange(request[c], sharedList),
               sharedList' = sharedList
        PROVE  Object!Effect(request[c], sharedList, sharedList', Error)
    BY <2>4, SameRequests, SameLists DEF Object!Effect
  <2>5. CASE Accept(c) \/ Disconnect(c) \/ Lock(c) \/ Pass(c) \/ Unlock(c)
    <3>1. Answer(c)' = Answer(c)
      BY <1>0, <2>5 DEF TypeOK, Accept, Disconnect, Lock, Pass, FirstUse, Unlock, Goto,
         Respond, Answer
    <3> QED
      BY <2>1, <2>5, <3>1 DEF Accept, Disconnect, Lock, Pass, Unlock
  <2>6. CASE \E r \in Requests : Receive(c, r)
    <3>1. Answer(c)' = Answer(c) /\ request[c] = NoRequest
      BY <1>0, <2>0, <2>6 DEF TypeOK, Receive, Goto, Answer, PreparedFor
    <3> QED
      BY <2>1, <2>6, <3>1 DEF Receive
  <2>7. CASE Decode(c)
    <3>1. /\ request[c] # NoRequest /\ Answer(c) = NoReply
          /\ sharedList' = sharedList /\ request' = request
      BY <2>0, <2>7 DEF Decode, Answer, PreparedFor
    <3>2. CASE /\ ~Malformed(request[c]) /\ request[c].op # "quit"
               /\ Goto(c, "locking") /\ UNCHANGED response
      <4>1. Answer(c)' = Answer(c)
        BY <1>0, <2>7, <3>2 DEF TypeOK, Goto, Answer, Decode
      <4> QED
        BY <2>1, <3>1, <4>1
    <3>3. CASE Malformed(request[c]) /\ Respond(c, Error) /\ Goto(c, "replying")
      <4>1. Answer(c)' = Error
        BY <1>0, <3>3 DEF TypeOK, Goto, Respond, Answer
      <4> QED
        BY <2>2, <2>3, <2>4, <3>1, <3>3, <4>1
    <3>4. CASE request[c].op = "quit" /\ Respond(c, Bye) /\ Goto(c, "replying")
      <4>1. Answer(c)' = Bye
        BY <1>0, <3>4 DEF TypeOK, Goto, Respond, Answer
      <4>2. ~Malformed(request[c]) /\ ~OutOfRange(request[c], sharedList)
        BY <3>4 DEF Malformed, OutOfRange
      <4>3. Object!Satisfied(request[c], sharedList, sharedList', Answer(c)')
        BY <3>1, <3>4, <4>1, SameRequests DEF Object!Satisfied
      <4> QED
        BY <2>2, <2>3, <3>1, <4>1, <4>2, <4>3, AcceptedEffect
    <3> QED
      BY <2>7, <3>2, <3>3, <3>4 DEF Decode
  <2>8. CASE Reject(c)
    <3>1. /\ request[c] # NoRequest /\ Answer(c) = NoReply /\ Answer(c)' = Error
          /\ sharedList' = sharedList /\ request' = request
      BY <1>0, <2>0, <2>8 DEF TypeOK, Reject, Answer, PreparedFor, Goto, Respond
    <3>2. OutOfRange(request[c], sharedList)
      BY <2>8 DEF Reject, Refused
    <3> QED
      BY <2>2, <2>3, <2>4, <3>1, <3>2
  <2>9. CASE CopyForPop(c) \/ CopyForRemove(c)
    <3>1. Answer(c)' = Answer(c)
      BY <1>0, <2>9 DEF TypeOK, CopyForPop, CopyForRemove, Copy, Goto, Answer
    <3> QED
      BY <2>1, <2>9, <3>1 DEF CopyForPop, CopyForRemove, Copy
  <2>10. CASE CopyForGet(c) \/ CopyForCount(c)
    <3>1. request[c] # NoRequest /\ Answer(c) = NoReply /\ request' = request
      BY <2>0, <2>10 DEF CopyForGet, CopyForCount, Copy, Answer, PreparedFor
    <3> QED
      BY <2>2, <2>10, <3>1, CopyEffect
  <2>11. CASE Mutating(c)
    <3>1. request[c] # NoRequest /\ Answer(c) = NoReply /\ request' = request
      BY <2>0, <2>11, MutatingStep DEF Answer, PreparedFor
    <3> QED
      BY <2>2, <2>11, <3>1, MutationEffect
  <2>12. CASE Reply(c)
    <3>1. Answer(c) # NoReply /\ Answer(c)' = NoReply
      BY <1>0, <2>0, <2>12 DEF TypeOK, Reply, Goto, Respond, Answer, PreparedFor
    <3> QED
      BY <2>0, <2>12, <3>1 DEF Reply
  <2> QED
    BY <1>5, <2>5, <2>6, <2>7, <2>8, <2>9, <2>10, <2>11, <2>12 DEF Step, Handle, Copying
<1>6. CASE UNCHANGED vars
  <2>1. Same
    BY <1>6 DEF vars, Answers, Answer, Built
  <2> QED
    BY <1>4, <2>1
<1> QED
  BY <1>1, <1>2, <1>3, <1>4, <1>5, <1>6 DEF Next, Step

\* The list server is linearizable: whatever its threads do in between, its
\* clients see one list that carries out their requests one at a time.
THEOREM Implements == Spec => Linearizable
<1>1. Init => Object!OInit
  BY SameRequests DEF Init, Object!OInit, Answer
<1>2. IInv /\ [Next]_vars => [Object!ONext]_Object!ovars
  BY StepRefines
<1> QED
  BY <1>1, <1>2, Invariant, PTL DEF Spec, Linearizable, Object!ObjectSpec
=============================================================================
