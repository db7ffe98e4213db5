----------------------- MODULE SuppressingSessionProofs -----------------------
(***************************************************************************)
(* Theorems about SuppressingSession, for every set of message ids and     *)
(* opcodes, every capacity and any number of frames.                       *)
(***************************************************************************)
EXTENDS SuppressingSession, SequenceTheorems, TLAPS

\* The steps that leave the cache and the histories alone.
LEMMA QuietSteps ==
    ASSUME TypeOK,
           \/ Greet \/ ReadFrame \/ ReadFails \/ Refuse \/ RespondFails \/ Crash
           \/ (\E f \in Frame : Send(f)) \/ Receive \/ HangUp \/ UNCHANGED vars
    PROVE  /\ UNCHANGED <<cache, history>>
           /\ \/ UNCHANGED <<pc, request, response>>
              \/ pc \in {"greet", "read", "check"} /\ pc' \in {"read", "check"}
              \/ pc' = "closed"
<1> USE DEF cache, history, client
<1>1. CASE Greet
  BY <1>1 DEF Greet
<1>2. CASE ReadFrame
  BY <1>2 DEF ReadFrame
<1>3. CASE ReadFails \/ Refuse \/ RespondFails \/ Crash
  BY <1>3 DEF ReadFails, Refuse, RespondFails, Crash
<1>4. CASE (\E f \in Frame : Send(f)) \/ Receive \/ HangUp
  BY <1>4 DEF Send, Receive, HangUp
<1>5. CASE UNCHANGED vars
  BY <1>5 DEF vars
<1> QED
  BY <1>1, <1>2, <1>3, <1>4, <1>5

-----------------------------------------------------------------------------
(* Type correctness.                                                       *)

LEMMA ReplyTypes ==
    Greeting \in Reply /\ ErrorReply \in Reply /\ EmptyPayload \in Reply
BY DEF Reply, Greeting, ErrorReply, EmptyPayload

LEMMA RanType ==
    ASSUME NEW n \in Nat, NEW k \in {"ran", "bye"}
    PROVE  [kind |-> k, run |-> n] \in Reply
BY DEF Reply, Ran

\* Sending appends to the stream or leaves it as it was.
LEMMA SendType ==
    ASSUME TypeOK, NEW r \in Reply, SendOk(r) \/ SendFails \/ SendEither(r)
    PROVE  outbox' \in Seq(Reply)
<1>1. outbox \in Seq(Reply) /\ Append(outbox, r) \in Seq(Reply)
  BY AppendProperties DEF TypeOK
<1>2. outbox' = outbox \/ outbox' = Append(outbox, r)
  BY DEF SendOk, SendFails, SendEither
<1> QED
  BY <1>1, <1>2

LEMMA InitType == Init => TypeOK
<1> SUFFICES ASSUME Init PROVE TypeOK
  OBVIOUS
<1>1. request \in Frame
  BY DEF Init, Frame
<1>2. response \in Reply /\ lastResponsePayload \in Reply
  BY ReplyTypes DEF Init
<1>3. /\ inbox \in Seq(Frame) /\ outbox \in Seq(Reply)
      /\ executed \in Seq(Request) /\ handled \in Seq(Request)
      /\ replies \in Seq(Reply)
  BY DEF Init
<1> QED
  BY <1>1, <1>2, <1>3 DEF Init, TypeOK

LEMMA NextType == TypeOK /\ [Next]_vars => TypeOK'
<1> SUFFICES ASSUME TypeOK, [Next]_vars
             PROVE  TypeOK'
  OBVIOUS
<1> USE DEF cache, history, client
<1>1. CASE Greet
  <2>1. outbox' \in Seq(Reply)
    BY <1>1, SendType, ReplyTypes DEF Greet
  <2> QED
    BY <1>1, <2>1 DEF Greet, TypeOK
<1>2. CASE ReadFrame
  <2>1. Head(inbox) \in Frame /\ Tail(inbox) \in Seq(Frame)
    BY <1>2, HeadTailProperties DEF ReadFrame, TypeOK
  <2> QED
    BY <1>2, <2>1 DEF ReadFrame, TypeOK
<1>3. CASE ReadFails
  BY <1>3 DEF ReadFails, TypeOK
<1>4. CASE Refuse
  <2>1. outbox' \in Seq(Reply)
    BY <1>4, SendType, ReplyTypes DEF Refuse
  <2> QED
    BY <1>4, <2>1 DEF Refuse, TypeOK
<1>5. CASE Suppress
  <2>1. outbox' \in Seq(Reply)
    BY <1>5, SendType DEF Suppress, TypeOK
  <2>2. request \in Request
    BY <1>5 DEF Suppress, Malformed, Request, Frame, TypeOK
  <2>3. handled' \in Seq(Request) /\ replies' \in Seq(Reply)
    BY <1>5, <2>2, AppendProperties DEF Suppress, TypeOK
  <2> QED
    BY <1>5, <2>1, <2>3 DEF Suppress, TypeOK
<1>6. CASE Execute
  <2>1. request \in Request
    BY <1>6 DEF Execute, Malformed, Request, Frame, TypeOK
  <2>2. handled' \in Seq(Request) /\ executed' \in Seq(Request)
    BY <1>6, <2>1, AppendProperties DEF Execute, TypeOK
  <2>3. response' \in Reply
    <3>1. Len(executed) + 1 \in Nat
      BY LenProperties DEF TypeOK
    <3>2. \A k \in {"ran", "bye"} : [kind |-> k, run |-> Len(executed) + 1] \in Reply
      BY <3>1, RanType
    <3> QED
      BY <1>6, <3>2 DEF Execute, Outcome
  <2> QED
    BY <1>6, <2>2, <2>3 DEF Execute, TypeOK
<1>7. CASE Respond
  <2>1. outbox' \in Seq(Reply)
    BY <1>7, SendType DEF Respond, TypeOK
  <2>2. replies' \in Seq(Reply)
    BY <1>7, AppendProperties DEF Respond, TypeOK
  <2>3. lastMessage' \in Int
    BY <1>7, SessionAssumption DEF Respond, Request, Frame, TypeOK
  <2> QED
    BY <1>7, <2>1, <2>2, <2>3 DEF Respond, TypeOK
<1>8. CASE RespondFails
  BY <1>8 DEF RespondFails, SendFails, TypeOK
<1>9. CASE Crash
  BY <1>9 DEF Crash, TypeOK
<1>10. ASSUME NEW f \in Frame, Send(f)
       PROVE  TypeOK'
  <2>1. inbox' \in Seq(Frame)
    BY <1>10, AppendProperties DEF Send, TypeOK
  <2> QED
    BY <1>10, <2>1 DEF Send, TypeOK
<1>11. CASE Receive
  <2>1. outbox' \in Seq(Reply)
    BY <1>11, HeadTailProperties DEF Receive, TypeOK
  <2> QED
    BY <1>11, <2>1 DEF Receive, TypeOK
<1>12. CASE HangUp
  BY <1>12 DEF HangUp, TypeOK
<1>13. CASE UNCHANGED vars
  BY <1>13 DEF vars, TypeOK
<1> QED
  BY <1>1, <1>2, <1>3, <1>4, <1>5, <1>6, <1>7, <1>8, <1>9, <1>10, <1>11, <1>12,
     <1>13 DEF Next, ServerStep

\* The session is always well formed.
THEOREM TypeCorrect == Spec => []TypeOK
BY InitType, NextType, PTL DEF Spec

-----------------------------------------------------------------------------
(* The inductive invariant.                                                *)

LEMMA InitInductive == Init => IInv
<1> SUFFICES ASSUME Init PROVE IInv
  OBVIOUS
<1>1. TypeOK
  BY InitType
<1>2. Len(replies) = 0 /\ Len(executed) = 0 /\ Len(handled) = 0 /\ LastRun = 0
  BY DEF Init, LastRun, EmptyPayload
<1>3. CacheIsLast
  BY <1>2 DEF Init, CacheIsLast, PrecedingId, PrecedingReply
<1>4. RunsTold /\ ByeIsLast /\ RepliesMatch /\ NoRepeatedRun
  BY <1>2 DEF RunsTold, ByeIsLast, RepliesMatch, NoRepeatedRun
<1>5. Pending
  BY <1>2 DEF Init, Pending
<1> QED
  BY <1>1, <1>3, <1>4, <1>5 DEF IInv

LEMMA QuietInductive ==
    ASSUME IInv, TypeOK', UNCHANGED <<cache, history>>,
           \/ UNCHANGED <<pc, request, response>>
           \/ pc \in {"greet", "read", "check"} /\ pc' \in {"read", "check"}
           \/ pc' = "closed"
    PROVE  IInv'
<1> USE DEF IInv, cache, history
<1>1. CacheIsLast' /\ RunsTold' /\ RepliesMatch' /\ NoRepeatedRun'
  BY DEF CacheIsLast, RunsTold, RepliesMatch, NoRepeatedRun, LastRun, PrecedingId,
         PrecedingReply
<1>2. Pending'
  BY DEF Pending, LastRun
<1>3. ByeIsLast'
  BY DEF ByeIsLast
<1> QED
  BY <1>1, <1>2, <1>3

\* What an element appended to a history changes.
LEMMA AppendIndex ==
    ASSUME NEW S, NEW seq \in Seq(S), NEW e \in S
    PROVE  /\ Append(seq, e) \in Seq(S)
           /\ Len(seq) \in Nat
           /\ Len(Append(seq, e)) = Len(seq) + 1
           /\ Append(seq, e)[Len(seq) + 1] = e
           /\ \A k \in 1..Len(seq) : Append(seq, e)[k] = seq[k]
BY AppendProperties, LenProperties

LEMMA SuppressInductive ==
    ASSUME IInv, Suppress
    PROVE  IInv'
<1> USE DEF IInv
<1>1. TypeOK'
  BY NextType DEF Next, ServerStep
<1>2. request \in Request
  BY DEF Suppress, Malformed, Request, Frame, TypeOK
<1>3. /\ handled' = Append(handled, request)
      /\ replies' = Append(replies, lastResponsePayload)
      /\ UNCHANGED <<response, cache, executed, request>>
      /\ pc = "check" /\ pc' = "read"
      /\ request.id = lastMessage
  BY DEF Suppress, Repeated
<1> DEFINE n == Len(replies)
<1>4. /\ n \in Nat /\ Len(handled) = n
      /\ Len(handled') = n + 1 /\ Len(replies') = n + 1
      /\ handled'[n + 1] = request /\ replies'[n + 1] = lastResponsePayload
      /\ \A k \in 1..n : handled'[k] = handled[k] /\ replies'[k] = replies[k]
  BY <1>2, <1>3, AppendIndex DEF TypeOK, Pending
<1> HIDE DEF n
<1>5. LastRun' = LastRun /\ LastRun \in 0..Len(executed) /\ LastRun = Len(executed)
  BY <1>3 DEF LastRun, CacheIsLast, Pending, cache
<1>6. lastMessage = PrecedingId(n + 1) /\ lastResponsePayload = PrecedingReply(n + 1)
  BY DEF CacheIsLast, n
<1>7. \A k \in 1..(n + 1) : PrecedingId(k)' = PrecedingId(k)
                            /\ PrecedingReply(k)' = PrecedingReply(k)
  BY <1>4 DEF PrecedingId, PrecedingReply
<1>8. CacheIsLast'
  BY <1>3, <1>4, <1>5 DEF CacheIsLast, PrecedingId, PrecedingReply, cache
<1>9. RunsTold'
  <2>1. \A k \in 1..(n + 1) : replies'[k].run <= LastRun
    BY <1>4, <1>5 DEF RunsTold, LastRun, n
  <2>2. \A m \in 1..LastRun : \E k \in 1..(n + 1) : replies'[k].run = m
    BY <1>4, <1>5 DEF RunsTold, n
  <2> QED
    BY <1>4, <1>5, <2>1, <2>2 DEF RunsTold
<1>10. Pending'
  BY <1>3, <1>4, <1>5 DEF Pending
<1>11. ByeIsLast'
  <2>1. \A k \in 1..n : replies[k].kind # "bye"
    BY <1>3 DEF ByeIsLast, n
  <2>2. lastResponsePayload.kind # "bye"
    BY <1>4, <1>6, <2>1 DEF PrecedingReply, EmptyPayload
  <2> QED
    BY <1>4, <2>1, <2>2 DEF ByeIsLast
<1>12. RepliesMatch'
  <2> SUFFICES ASSUME NEW k \in 1..(n + 1)
               PROVE  IF handled'[k].id = PrecedingId(k)'
                        THEN replies'[k] = PrecedingReply(k)'
                        ELSE /\ replies'[k].run \in 1..Len(executed)
                             /\ executed[replies'[k].run] = handled'[k]
                             /\ \A j \in 1..(k - 1) : replies'[j].run < replies'[k].run
    BY <1>3, <1>4 DEF RepliesMatch
  <2>1. CASE k = n + 1
    BY <1>3, <1>4, <1>6, <1>7, <2>1
  <2>2. CASE k \in 1..n
    BY <1>4, <1>7, <2>2 DEF RepliesMatch, n
  <2> QED
    BY <1>4, <2>1, <2>2
<1>13. NoRepeatedRun'
  BY <1>3 DEF NoRepeatedRun
<1> QED
  BY <1>1, <1>8, <1>9, <1>10, <1>11, <1>12, <1>13

LEMMA ExecuteInductive ==
    ASSUME IInv, Execute
    PROVE  IInv'
<1> USE DEF IInv
<1>1. TypeOK'
  BY NextType DEF Next, ServerStep
<1>2. request \in Request
  BY DEF Execute, Malformed, Request, Frame, TypeOK
<1>3. /\ handled' = Append(handled, request)
      /\ executed' = Append(executed, request)
      /\ response'.run = Len(executed) + 1
      /\ UNCHANGED <<cache, replies, request>>
      /\ pc = "check" /\ pc' = "respond"
      /\ request.id # lastMessage
  BY DEF Execute, Outcome, Repeated
<1> DEFINE n == Len(replies)
           r == Len(executed)
<1>4. /\ n \in Nat /\ Len(handled) = n /\ r \in Nat
      /\ Len(handled') = n + 1 /\ Len(executed') = r + 1 /\ Len(replies') = n
      /\ handled'[n + 1] = request /\ executed'[r + 1] = request
      /\ \A k \in 1..n : handled'[k] = handled[k] /\ replies'[k] = replies[k]
      /\ \A k \in 1..r : executed'[k] = executed[k]
  <2>1. /\ handled \in Seq(Request) /\ executed \in Seq(Request)
        /\ n \in Nat /\ Len(handled) = n /\ replies' = replies
    BY <1>3, LenProperties DEF TypeOK, Pending
  <2> QED
    BY <1>2, <1>3, <2>1, AppendIndex
<1>5. LastRun' = LastRun /\ LastRun = r
  BY <1>3 DEF LastRun, Pending, cache
<1> HIDE DEF n, r
<1>6. \A k \in 1..(n + 1) : PrecedingId(k)' = PrecedingId(k)
                            /\ PrecedingReply(k)' = PrecedingReply(k)
  BY <1>4 DEF PrecedingId, PrecedingReply
<1>7. CacheIsLast'
  BY <1>3, <1>4, <1>5, <1>6 DEF CacheIsLast, cache, n
<1>8. RunsTold'
  BY <1>3, <1>5 DEF RunsTold
<1>9. Pending'
  BY <1>3, <1>4, <1>5 DEF Pending, cache, r
<1>10. ByeIsLast'
  BY <1>3 DEF ByeIsLast
<1>11. RepliesMatch'
  <2> SUFFICES ASSUME NEW k \in 1..n
               PROVE  IF handled'[k].id = PrecedingId(k)'
                        THEN replies'[k] = PrecedingReply(k)'
                        ELSE /\ replies'[k].run \in 1..Len(executed')
                             /\ executed'[replies'[k].run] = handled'[k]
                             /\ \A j \in 1..(k - 1) : replies'[j].run < replies'[k].run
    BY <1>4 DEF RepliesMatch
  <2>1. /\ handled'[k] = handled[k] /\ replies' = replies
        /\ PrecedingId(k)' = PrecedingId(k) /\ PrecedingReply(k)' = PrecedingReply(k)
    BY <1>3, <1>4, <1>6
  <2>2. CASE handled[k].id = PrecedingId(k)
    BY <2>1, <2>2 DEF RepliesMatch, n
  <2>3. CASE handled[k].id # PrecedingId(k)
    <3>1. /\ replies[k].run \in 1..r /\ executed[replies[k].run] = handled[k]
          /\ \A j \in 1..(k - 1) : replies[j].run < replies[k].run
      BY <2>3 DEF RepliesMatch, n, r
    <3>2. replies[k].run \in 1..(r + 1) /\ executed'[replies[k].run] = executed[replies[k].run]
      BY <1>4, <3>1
    <3> QED
      BY <1>4, <2>1, <2>3, <3>1, <3>2
  <2> QED
    BY <2>2, <2>3
<1>12. NoRepeatedRun'
  <2>1. request.id # IF r = 0 THEN 0 ELSE executed[r].id
    BY <1>3, <1>4, <1>5 DEF CacheIsLast, r
  <2> SUFFICES ASSUME NEW m \in 1..(r + 1)
               PROVE  executed'[m].id # (IF m = 1 THEN 0 ELSE executed'[m - 1].id)
    BY <1>4 DEF NoRepeatedRun
  <2>2. CASE m = r + 1
    <3>1. CASE r = 0
      BY <1>4, <2>1, <2>2, <3>1
    <3>2. CASE r # 0
      <4>1. executed'[m - 1] = executed[r]
        BY <1>4, <2>2, <3>2
      <4> QED
        BY <1>4, <2>1, <2>2, <3>2, <4>1
    <3> QED
      BY <3>1, <3>2
  <2>3. CASE m \in 1..r
    <3>1. executed[m].id # (IF m = 1 THEN 0 ELSE executed[m - 1].id)
      BY <2>3 DEF NoRepeatedRun, r
    <3>2. executed'[m] = executed[m] /\ (m # 1 => executed'[m - 1] = executed[m - 1])
      BY <1>4, <2>3
    <3> QED
      BY <3>1, <3>2
  <2> QED
    BY <1>4, <2>2, <2>3
<1> QED
  BY <1>1, <1>7, <1>8, <1>9, <1>10, <1>11, <1>12

LEMMA RespondInductive ==
    ASSUME IInv, Respond
    PROVE  IInv'
<1> USE DEF IInv
<1>1. TypeOK'
  BY NextType DEF Next, ServerStep
<1>2. /\ replies' = Append(replies, response)
      /\ lastMessage' = request.id /\ lastResponsePayload' = response
      /\ UNCHANGED <<response, executed, handled, request>>
      /\ pc = "respond" /\ pc' \in {"read", "closed"}
      /\ response.kind = "bye" => pc' = "closed"
  BY DEF Respond
<1> DEFINE n == Len(replies)
           r == LastRun
<1>3. /\ n \in Nat /\ r \in Nat /\ Len(handled) = n + 1 /\ Len(executed) = r + 1
      /\ response.run = r + 1
      /\ executed[r + 1] = request /\ handled[n + 1] = request
      /\ request.id # lastMessage
  BY <1>2, LenProperties DEF Pending, CacheIsLast, TypeOK
<1>4. /\ Len(replies') = n + 1 /\ replies'[n + 1] = response
      /\ \A k \in 1..n : replies'[k] = replies[k]
  BY <1>2, AppendIndex DEF TypeOK
<1>5. LastRun' = r + 1
  BY <1>2, <1>3 DEF LastRun
<1>6. \A k \in 1..(n + 1) : PrecedingId(k)' = PrecedingId(k)
                            /\ PrecedingReply(k)' = PrecedingReply(k)
  BY <1>2, <1>3, <1>4 DEF PrecedingId, PrecedingReply
<1>7. /\ \A k \in 1..n : replies[k].run <= r
      /\ \A m \in 1..r : \E k \in 1..n : replies[k].run = m
      /\ lastMessage = PrecedingId(n + 1)
  BY DEF RunsTold, CacheIsLast
<1>8. \A k \in 1..n : replies[k].run \in Nat
  BY DEF TypeOK, Reply, Ran, Greeting, ErrorReply, EmptyPayload
<1> HIDE DEF n, r
<1>9. CacheIsLast'
  BY <1>2, <1>3, <1>4, <1>5 DEF CacheIsLast, PrecedingId, PrecedingReply
<1>10. RunsTold'
  <2>1. \A k \in 1..(n + 1) : replies'[k].run <= r + 1
    BY <1>3, <1>4, <1>7, <1>8
  <2>2. \A m \in 1..(r + 1) : \E k \in 1..(n + 1) : replies'[k].run = m
    BY <1>3, <1>4, <1>7
  <2> QED
    BY <1>4, <1>5, <2>1, <2>2 DEF RunsTold
<1>11. Pending'
  BY <1>2, <1>3, <1>4, <1>5 DEF Pending
<1>12. ByeIsLast'
  <2>1. \A k \in 1..n : replies[k].kind # "bye"
    BY <1>2 DEF ByeIsLast, n
  <2> QED
    BY <1>2, <1>3, <1>4, <2>1 DEF ByeIsLast
<1>13. RepliesMatch'
  <2> SUFFICES ASSUME NEW k \in 1..(n + 1)
               PROVE  IF handled[k].id = PrecedingId(k)'
                        THEN replies'[k] = PrecedingReply(k)'
                        ELSE /\ replies'[k].run \in 1..Len(executed)
                             /\ executed[replies'[k].run] = handled[k]
                             /\ \A j \in 1..(k - 1) : replies'[j].run < replies'[k].run
    BY <1>2, <1>4 DEF RepliesMatch
  <2>1. CASE k = n + 1
    <3>1. handled[k].id # PrecedingId(k)'
      BY <1>3, <1>6, <1>7, <2>1
    <3>2. \A j \in 1..(k - 1) : replies'[j].run < replies'[k].run
      BY <1>3, <1>4, <1>7, <1>8, <2>1
    <3> QED
      BY <1>3, <1>4, <2>1, <3>1, <3>2
  <2>2. CASE k \in 1..n
    BY <1>4, <1>6, <2>2 DEF RepliesMatch, n
  <2> QED
    BY <1>3, <2>1, <2>2
<1>14. NoRepeatedRun'
  BY <1>2 DEF NoRepeatedRun
<1> QED
  BY <1>1, <1>9, <1>10, <1>11, <1>12, <1>13, <1>14

LEMMA NextInductive == IInv /\ [Next]_vars => IInv'
<1> SUFFICES ASSUME IInv, [Next]_vars
             PROVE  IInv'
  OBVIOUS
<1>1. TypeOK /\ TypeOK'
  BY NextType DEF IInv
<1>2. CASE Suppress \/ Execute \/ Respond
  BY <1>2, SuppressInductive, ExecuteInductive, RespondInductive
<1>3. CASE ~(Suppress \/ Execute \/ Respond)
  BY <1>1, <1>3, QuietSteps, QuietInductive DEF Next, ServerStep
<1> QED
  BY <1>2, <1>3

\* Cache, histories and the place of the thread agree in every reachable state.
THEOREM Invariance == Spec => []IInv
BY InitInductive, NextInductive, PTL DEF Spec

-----------------------------------------------------------------------------
(* What the client has read.                                               *)

LEMMA InitClient == Init => ClientInv
<1> SUFFICES ASSUME Init PROVE ClientInv
  OBVIOUS
<1>1. /\ Len(received) = 0 /\ Len(outbox) = 0 /\ Len(inbox) = 0
      /\ Len(replies) = 0 /\ Len(handled) = 0 /\ Len(executed) = 0
      /\ LastRun = 0 /\ frames = 0 /\ pc = "greet"
  BY DEF Init, LastRun, EmptyPayload
<1> QED
  BY <1>1 DEF ClientInv, AsTold, Accounted, RunsGrow, Sent

\* A reply put on the stream is the next thing the client is told; a client
\* that has gone is told nothing more.
LEMMA SendTold ==
    ASSUME TypeOK, AsTold, NEW r \in Reply, SendOk(r) \/ SendFails \/ SendEither(r),
           received' = received,
           \A k \in 1..Sent : Told'[k] = Told[k],
           clientOpen => Told'[Sent + 1] = r
    PROVE  /\ \A k \in 1..Len(received') : received'[k] = Told'[k]
           /\ \A k \in 1..Len(outbox') : outbox'[k] = Told'[Len(received') + k]
           /\ Sent' = IF clientOpen THEN Sent + 1 ELSE Sent
<1>1. /\ received \in Seq(Reply) /\ outbox \in Seq(Reply)
      /\ Len(received) \in Nat /\ Len(outbox) \in Nat
      /\ Sent = Len(received) + Len(outbox)
      /\ Sent' = Len(received) + Len(outbox')
  BY LenProperties DEF TypeOK, Sent
<1>2. \A k \in 1..Len(received') : received'[k] = Told'[k]
  BY <1>1 DEF AsTold
<1>3. \A k \in 1..Len(outbox) : outbox[k] = Told'[Len(received) + k]
  <2> SUFFICES ASSUME NEW k \in 1..Len(outbox)
               PROVE  outbox[k] = Told'[Len(received) + k]
    OBVIOUS
  <2>1. Len(received) + k \in 1..Sent
    BY <1>1
  <2>2. outbox[k] = Told[Len(received) + k]
    BY DEF AsTold
  <2> QED
    BY <2>1, <2>2
<1>4. CASE clientOpen
  <2>1. outbox' = Append(outbox, r)
    BY <1>4 DEF SendOk, SendFails, SendEither
  <2>2. /\ Len(outbox') = Len(outbox) + 1 /\ outbox'[Len(outbox) + 1] = r
        /\ \A k \in 1..Len(outbox) : outbox'[k] = outbox[k]
    BY <1>1, <2>1, AppendIndex
  <2>3. \A k \in 1..Len(outbox') : outbox'[k] = Told'[Len(received') + k]
    <3> SUFFICES ASSUME NEW k \in 1..(Len(outbox) + 1)
                 PROVE  outbox'[k] = Told'[Len(received) + k]
      BY <2>2
    <3>1. CASE k = Len(outbox) + 1
      <4>1. Len(received) + k = Sent + 1
        BY <1>1, <3>1
      <4> QED
        BY <1>4, <2>2, <3>1, <4>1
    <3>2. CASE k \in 1..Len(outbox)
      BY <1>3, <2>2, <3>2
    <3> QED
      BY <1>1, <3>1, <3>2
  <2>4. Sent' = Sent + 1
    BY <1>1, <2>2
  <2> QED
    BY <1>2, <1>4, <2>3, <2>4
<1>5. CASE ~clientOpen
  <2>1. outbox' = outbox
    BY <1>5 DEF SendOk, SendFails, SendEither
  <2> QED
    BY <1>1, <1>2, <1>3, <1>5, <2>1
<1> QED
  BY <1>4, <1>5

LEMMA AsToldInductive ==
    ASSUME IInv, AsTold, [Next]_vars
    PROVE  AsTold'
<1>0. /\ TypeOK /\ TypeOK'
      /\ Len(received) \in Nat /\ Len(outbox) \in Nat /\ Sent \in Nat
      /\ Len(replies) \in Nat /\ LastRun \in Nat /\ Len(executed) \in Nat
  BY NextType, LenProperties DEF IInv, TypeOK, Sent, CacheIsLast
<1> USE DEF cache, history, client
<1>1. ASSUME UNCHANGED <<received, outbox, history, cache>>,
             pc' # "greet", pc' # "closed" => pc \notin {"greet", "closed"},
             clientOpen' => clientOpen
      PROVE  AsTold'
  <2>1. Sent' = Sent /\ LastRun' = LastRun /\ Told' = Told
    BY <1>1 DEF Sent, LastRun, Told
  <2> QED
    BY <1>1, <2>1 DEF AsTold, TypeOK, IInv
<1>2. CASE Greet
  <2>1. Sent = 0 /\ Len(replies) = 0 /\ UNCHANGED <<received, history, cache, clientOpen>>
    BY <1>2 DEF Greet, AsTold
  <2>2. LastRun' = LastRun /\ Told' = Told
    BY <2>1 DEF LastRun, Told
  <2>3. Told'[Sent + 1] = Greeting
    BY <2>1 DEF Told
  <2>4. SendOk(Greeting) \/ SendFails
    BY <1>2 DEF Greet
  <2>5. /\ \A k \in 1..Len(received') : received'[k] = Told'[k]
        /\ \A k \in 1..Len(outbox') : outbox'[k] = Told'[Len(received') + k]
        /\ Sent' = IF clientOpen THEN Sent + 1 ELSE Sent
    BY <1>0, <2>1, <2>2, <2>3, <2>4, SendTold, ReplyTypes
  <2>6. pc' \in {"read", "closed"}
    BY <1>2 DEF Greet
  <2> QED
    BY <1>0, <2>1, <2>5, <2>6 DEF AsTold
<1>3. CASE ReadFrame \/ ReadFails \/ RespondFails \/ Crash
  <2>1. /\ UNCHANGED <<received, outbox, history, cache, clientOpen>>
        /\ pc' # "greet" /\ (pc' # "closed" => pc \notin {"greet", "closed"})
    BY <1>3 DEF ReadFrame, ReadFails, RespondFails, SendFails, Crash
  <2> QED
    BY <1>1, <2>1
<1>4. CASE Refuse
  <2>1. /\ UNCHANGED <<received, history, cache, clientOpen>>
        /\ pc = "check" /\ pc' = "closed" /\ SendEither(ErrorReply)
    BY <1>4 DEF Refuse
  <2>2. LastRun' = LastRun /\ Told' = Told
    BY <2>1 DEF LastRun, Told
  <2>3. clientOpen => Told'[Sent + 1] = ErrorReply
    BY <1>0, <2>1, <2>2 DEF AsTold, Told
  <2>4. /\ \A k \in 1..Len(received') : received'[k] = Told'[k]
        /\ \A k \in 1..Len(outbox') : outbox'[k] = Told'[Len(received') + k]
    BY <1>0, <2>1, <2>2, <2>3, SendTold, ReplyTypes
  <2>5. Len(executed)' = LastRun'
    BY <2>1, <2>2 DEF IInv, Pending
  <2> QED
    BY <2>1, <2>4, <2>5 DEF AsTold
<1>5. ASSUME NEW r \in Reply, SendEither(r) \/ SendOk(r), replies' = Append(replies, r),
             UNCHANGED <<received, clientOpen>>,
             pc \in {"check", "respond"}, pc' \in {"read", "closed"}
      PROVE  AsTold'
  <2>1. /\ Len(replies') = Len(replies) + 1 /\ replies'[Len(replies) + 1] = r
        /\ \A k \in 1..Len(replies) : replies'[k] = replies[k]
    BY <1>5, AppendIndex DEF IInv, TypeOK
  <2>2. /\ Sent <= Len(replies) + 1
        /\ clientOpen => Sent = Len(replies) + 1
    BY <1>5 DEF AsTold
  <2>3. \A k \in 1..Sent : Told'[k] = Told[k]
    <3> SUFFICES ASSUME NEW k \in 1..Sent PROVE Told'[k] = Told[k]
      OBVIOUS
    <3>1. k \in Nat /\ (k = 1 \/ k - 1 \in 1..Len(replies))
      BY <1>0, <2>2
    <3>2. k = 1 \/ (k <= Len(replies) + 1 /\ k <= Len(replies') + 1 /\ replies'[k - 1] = replies[k - 1])
      BY <1>0, <2>1, <3>1
    <3> QED
      BY <3>1, <3>2 DEF Told
  <2>4. clientOpen => Told'[Sent + 1] = r
    BY <1>0, <2>1, <2>2 DEF Told
  <2>5. /\ \A k \in 1..Len(received') : received'[k] = Told'[k]
        /\ \A k \in 1..Len(outbox') : outbox'[k] = Told'[Len(received') + k]
        /\ Sent' = IF clientOpen THEN Sent + 1 ELSE Sent
    BY <1>0, <1>5, <2>3, <2>4, SendTold
  <2> QED
    BY <1>0, <1>5, <2>1, <2>2, <2>5 DEF AsTold
<1>6. CASE Suppress
  <2>1. lastResponsePayload \in Reply
    BY <1>0 DEF TypeOK
  <2> QED
    BY <1>5, <1>6, <2>1 DEF Suppress
<1>7. CASE Respond
  <2>1. response \in Reply
    BY <1>0 DEF TypeOK
  <2> QED
    BY <1>5, <1>7, <2>1 DEF Respond
<1>8. CASE Execute
  <2>1. /\ UNCHANGED <<received, outbox, replies, cache, clientOpen>>
        /\ pc = "check" /\ pc' = "respond"
    BY <1>8 DEF Execute
  <2>2. Sent' = Sent /\ Told' = Told
    BY <2>1 DEF Sent, Told
  <2> QED
    BY <2>1, <2>2 DEF AsTold
<1>9. CASE (\E f \in Frame : Send(f)) \/ HangUp \/ UNCHANGED vars
  <2>1. /\ UNCHANGED <<received, outbox, history, cache, pc>>
        /\ clientOpen' => clientOpen
    BY <1>9 DEF Send, HangUp, vars
  <2>2. Sent' = Sent /\ LastRun' = LastRun /\ Told' = Told
    BY <2>1 DEF Sent, LastRun, Told
  <2> QED
    BY <2>1, <2>2 DEF AsTold
<1>10. CASE Receive
  <2>1. /\ outbox # <<>> /\ outbox' = Tail(outbox) /\ received' = Append(received, Head(outbox))
        /\ UNCHANGED <<history, cache, pc, clientOpen>>
    BY <1>10 DEF Receive
  <2>2. LastRun' = LastRun /\ Told' = Told
    BY <2>1 DEF LastRun, Told
  <2>3. /\ outbox \in Seq(Reply) /\ received \in Seq(Reply) /\ Head(outbox) \in Reply
        /\ Len(outbox') = Len(outbox) - 1 /\ Head(outbox) = outbox[1] /\ Len(outbox) >= 1
        /\ \A k \in 1..(Len(outbox) - 1) : outbox'[k] = outbox[k + 1]
    BY <1>0, <2>1, HeadTailProperties, EmptySeq DEF TypeOK
  <2>4. /\ Len(received') = Len(received) + 1 /\ received'[Len(received) + 1] = outbox[1]
        /\ \A k \in 1..Len(received) : received'[k] = received[k]
    BY <2>1, <2>3, AppendIndex
  <2>5. outbox[1] = Told[Len(received) + 1]
    BY <1>0, <2>3 DEF AsTold
  <2>6. \A k \in 1..Len(received') : received'[k] = Told'[k]
    <3> SUFFICES ASSUME NEW k \in 1..(Len(received) + 1)
                 PROVE  received'[k] = Told[k]
      BY <2>2, <2>4
    <3>1. k = Len(received) + 1 \/ k \in 1..Len(received)
      BY <1>0
    <3> QED
      BY <2>4, <2>5, <3>1 DEF AsTold
  <2>7. \A k \in 1..Len(outbox') : outbox'[k] = Told'[Len(received') + k]
    <3> SUFFICES ASSUME NEW k \in 1..(Len(outbox) - 1)
                 PROVE  outbox[k + 1] = Told[(Len(received) + 1) + k]
      BY <2>2, <2>3, <2>4
    <3>1. k + 1 \in 1..Len(outbox) /\ (Len(received) + 1) + k = Len(received) + (k + 1)
      BY <1>0
    <3> QED
      BY <3>1 DEF AsTold
  <2>8. Sent' = Sent
    BY <1>0, <2>3, <2>4 DEF Sent
  <2> QED
    BY <2>1, <2>2, <2>6, <2>7, <2>8 DEF AsTold
<1> QED
  BY <1>2, <1>3, <1>4, <1>6, <1>7, <1>8, <1>9, <1>10 DEF Next, ServerStep

LEMMA AccountedInductive ==
    ASSUME IInv, Accounted, RunsGrow, [Next]_vars
    PROVE  Accounted' /\ RunsGrow'
<1>0. /\ TypeOK /\ frames \in Nat
      /\ Len(inbox) \in Nat /\ Len(handled) \in Nat /\ Len(replies) \in Nat
      /\ Len(executed) \in Nat /\ LastRun \in Nat
      /\ \A k \in 1..Len(replies) : replies[k].run \in Nat
  BY LenProperties
  DEF IInv, TypeOK, CacheIsLast, Reply, Ran, Greeting, ErrorReply, EmptyPayload
<1> USE DEF cache, history, client
<1>1. ASSUME UNCHANGED <<history, cache>>,
             \/ frames' = frames + 1 /\ Len(inbox') = Len(inbox) + 1 /\ pc' = pc
             \/ frames' = frames /\ Len(inbox') = Len(inbox) - 1 /\ pc = "read"
             \/ frames' = frames /\ inbox' = inbox /\ (pc' = pc \/ pc' # "check")
      PROVE  Accounted' /\ RunsGrow'
  <2>1. LastRun' = LastRun
    BY <1>1 DEF LastRun
  <2>2. (Len(handled) + Len(inbox) + (IF pc = "check" THEN 1 ELSE 0) <= frames)'
    BY <1>0, <1>1 DEF Accounted
  <2> QED
    BY <1>1, <2>1, <2>2 DEF Accounted, RunsGrow
<1>2. CASE Greet \/ ReadFails \/ Refuse \/ RespondFails \/ Crash \/ Receive \/ HangUp \/ UNCHANGED vars
  <2>1. /\ UNCHANGED <<history, cache, frames, inbox>>
        /\ pc' = pc \/ pc' # "check"
    BY <1>2 DEF Greet, ReadFails, Refuse, RespondFails, Crash, Receive, HangUp, vars
  <2> QED
    BY <1>1, <2>1
<1>3. CASE ReadFrame
  <2>1. Len(inbox') = Len(inbox) - 1
    BY <1>0, <1>3, HeadTailProperties DEF ReadFrame, TypeOK
  <2> QED
    BY <1>1, <1>3, <2>1 DEF ReadFrame
<1>4. ASSUME NEW f \in Frame, Send(f)
      PROVE  Accounted' /\ RunsGrow'
  <2>1. Len(inbox') = Len(inbox) + 1
    BY <1>0, <1>4, AppendIndex DEF Send, TypeOK
  <2> QED
    BY <1>1, <1>4, <2>1 DEF Send
<1>5. CASE Execute
  <2>1. request \in Request
    BY <1>0, <1>5 DEF Execute, Malformed, Request, Frame, TypeOK
  <2>2. Len(handled') = Len(handled) + 1 /\ Len(executed') = Len(executed) + 1
    BY <1>0, <1>5, <2>1, AppendIndex DEF Execute, TypeOK
  <2>3. /\ pc = "check" /\ pc' = "respond"
        /\ UNCHANGED <<inbox, replies, cache, frames>>
    BY <1>5 DEF Execute
  <2>4. LastRun' = LastRun
    BY <2>3 DEF LastRun
  <2>5. Len(handled') + Len(inbox') <= frames'
    BY <1>0, <2>2, <2>3 DEF Accounted
  <2>6. Len(executed') - LastRun' = Len(handled') - Len(replies')
    BY <1>0, <2>2, <2>3, <2>4 DEF Accounted
  <2> QED
    BY <2>3, <2>5, <2>6 DEF Accounted, RunsGrow
<1>6. ASSUME NEW r \in Reply, replies' = Append(replies, r), r.run \in LastRun..(LastRun + 1)
      PROVE  RunsGrow'
  <2>1. /\ Len(replies') = Len(replies) + 1 /\ replies'[Len(replies) + 1] = r
        /\ \A k \in 1..Len(replies) : replies'[k] = replies[k]
    BY <1>0, <1>6, AppendIndex DEF TypeOK
  <2>2. Len(replies) # 0 => replies[Len(replies)].run = LastRun
    BY <1>0 DEF IInv, CacheIsLast, PrecedingReply, LastRun
  <2> SUFFICES ASSUME NEW j \in 1..(Len(replies) + 1), NEW k \in 1..j
               PROVE  replies'[j].run <= replies'[k].run + (j - k)
    BY <2>1 DEF RunsGrow
  <2>3. CASE j \in 1..Len(replies)
    <3>1. k \in 1..Len(replies) /\ replies[j].run <= replies[k].run + (j - k)
      BY <1>0, <2>3 DEF RunsGrow
    <3>2. replies'[j] = replies[j] /\ replies'[k] = replies[k]
      BY <2>1, <2>3, <3>1
    <3> QED
      BY <3>1, <3>2
  <2>4. CASE j = Len(replies) + 1 /\ k = j
    BY <1>0, <1>6, <2>1, <2>4
  <2>5. CASE j = Len(replies) + 1 /\ k \in 1..Len(replies)
    <3>1. LastRun <= replies[k].run + (Len(replies) - k)
      <4>1. Len(replies) \in 1..Len(replies) /\ k \in 1..Len(replies)
        BY <1>0, <2>5
      <4>2. replies[Len(replies)].run <= replies[k].run + (Len(replies) - k)
        BY <4>1 DEF RunsGrow
      <4> QED
        BY <2>2, <4>1, <4>2
    <3>2. r.run \in Nat /\ r.run <= LastRun + 1
      BY <1>0, <1>6
    <3>3. replies[k].run \in Nat /\ Len(replies) - k + 1 = j - k
      BY <1>0, <2>5
    <3>4. r.run <= replies[k].run + (j - k)
      BY <1>0, <2>5, <3>1, <3>2, <3>3, SMTT(30)
    <3> QED
      BY <2>1, <2>5, <3>4
  <2> QED
    BY <1>0, <2>3, <2>4, <2>5
<1>7. CASE Suppress
  <2>1. request \in Request /\ lastResponsePayload \in Reply
    BY <1>0, <1>7 DEF Suppress, Malformed, Request, Frame, TypeOK
  <2>2. /\ pc = "check" /\ pc' = "read"
        /\ replies' = Append(replies, lastResponsePayload)
        /\ handled' = Append(handled, request)
        /\ UNCHANGED <<inbox, executed, cache, frames>>
    BY <1>7 DEF Suppress
  <2>3. /\ LastRun' = LastRun
        /\ Len(handled') = Len(handled) + 1 /\ Len(replies') = Len(replies) + 1
    BY <1>0, <2>1, <2>2, AppendIndex DEF TypeOK, LastRun
  <2>4. RunsGrow'
    BY <1>0, <1>6, <2>1, <2>2 DEF LastRun
  <2>5. (Len(handled) + Len(inbox) + (IF pc = "check" THEN 1 ELSE 0) <= frames)'
    BY <1>0, <2>2, <2>3 DEF Accounted
  <2>6. Len(executed') - LastRun' = Len(handled') - Len(replies')
    <3>1. Len(executed') = Len(executed)
      BY <2>2
    <3>2. Len(executed) - LastRun = Len(handled) - Len(replies)
      BY DEF Accounted
    <3>3. /\ LastRun' = LastRun
          /\ Len(handled') = Len(handled) + 1 /\ Len(replies') = Len(replies) + 1
      BY <2>3
    <3>4. (Len(handled) + 1) - (Len(replies) + 1) = Len(handled) - Len(replies)
      BY <1>0
    <3> QED
      BY <3>1, <3>2, <3>3, <3>4
  <2> QED
    BY <2>4, <2>5, <2>6 DEF Accounted
<1>8. CASE Respond
  <2>1. /\ response \in Reply /\ response.run = LastRun + 1
        /\ pc = "respond" /\ pc' # "check"
        /\ replies' = Append(replies, response) /\ LastRun' = response.run
        /\ UNCHANGED <<inbox, handled, executed, frames>>
    BY <1>0, <1>8 DEF Respond, IInv, Pending, TypeOK, LastRun
  <2>2. Len(replies') = Len(replies) + 1
    BY <1>0, <2>1, AppendIndex DEF TypeOK
  <2>3. RunsGrow'
    BY <1>0, <1>6, <2>1
  <2>4. (Len(handled) + Len(inbox) + (IF pc = "check" THEN 1 ELSE 0) <= frames)'
    BY <1>0, <2>1 DEF Accounted
  <2>5. Len(executed') - LastRun' = Len(handled') - Len(replies')
    BY <1>0, <2>1, <2>2 DEF Accounted
  <2> QED
    BY <2>3, <2>4, <2>5 DEF Accounted
<1> QED
  BY <1>2, <1>3, <1>4, <1>5, <1>7, <1>8 DEF Next, ServerStep

\* The client has read a part of what it was told, without a gap.
THEOREM ClientInvariance == Spec => []ClientInv
<1>1. IInv /\ ClientInv /\ [Next]_vars => ClientInv'
  BY AsToldInductive, AccountedInductive DEF ClientInv
<1> QED
  BY Invariance, InitClient, <1>1, PTL DEF Spec

-----------------------------------------------------------------------------
(* The safety properties.                                                  *)

\* The k-th reply always answers the k-th request, and is either the reply to
\* the retransmission's original or that of a run of its own.
THEOREM RepliesAlwaysMatch == Spec => []RepliesMatch
<1>1. IInv => RepliesMatch
  BY DEF IInv
<1> QED
  BY Invariance, <1>1, PTL

\* The runs of which the client has no answer are the last ones, and no more
\* than the frames to which it has none.
THEOREM DoubtIsBounded == Spec => []DoubtBounded
<1>1. IInv /\ ClientInv => DoubtBounded
  <2> SUFFICES ASSUME IInv, ClientInv, NEW n \in 1..Len(executed), InDoubt(n)
               PROVE  Len(executed) - n < frames - Answers
    BY DEF DoubtBounded
  <2>1. /\ Len(received) \in Nat /\ Len(outbox) \in Nat /\ Len(inbox) \in Nat
        /\ Len(handled) \in Nat /\ Len(replies) \in Nat /\ Len(executed) \in Nat
        /\ frames \in Nat /\ LastRun \in Nat
        /\ \A k \in 1..Len(replies) : replies[k].run \in Nat
        /\ received \in Seq(Reply)
    BY LenProperties
    DEF IInv, TypeOK, CacheIsLast, Reply, Ran, Greeting, ErrorReply, EmptyPayload
  <2>2. /\ Len(handled) <= frames
        /\ Len(executed) - LastRun = Len(handled) - Len(replies)
        /\ Len(replies) <= Len(handled) /\ Len(executed) <= LastRun + 1
    BY <2>1 DEF IInv, Pending, ClientInv, Accounted
  <2>3. Answers \in Nat /\ (Answers = 0 \/ Answers = Len(received) - 1)
    BY <2>1 DEF Answers
  <2>4. CASE n > LastRun
    <3>1. Len(received) + Len(outbox) <= Len(replies) + 1
      BY <2>1, <2>4 DEF ClientInv, AsTold, Sent
    <3> QED
      BY <2>1, <2>2, <2>3, <2>4, <3>1
  <2>5. CASE n <= LastRun
    <3>1. PICK k \in 1..Len(replies) : replies[k].run = n
      <4>1. n \in 1..LastRun
        BY <2>1, <2>5
      <4>2. \A m \in 1..LastRun : \E k \in 1..Len(replies) : replies[k].run = m
        BY DEF IInv, RunsTold
      <4> QED
        BY <4>1, <4>2
    <3>2. ~(k + 1 <= Len(received))
      <4> SUFFICES ASSUME k + 1 <= Len(received) PROVE FALSE
        OBVIOUS
      <4>1. received[k + 1] = Told[k + 1]
        BY <2>1 DEF ClientInv, AsTold
      <4>2. Told[k + 1] = replies[k]
        BY <2>1 DEF Told
      <4> QED
        BY <2>1, <3>1, <4>1, <4>2 DEF InDoubt
    <3>3. LastRun - n <= Len(replies) - k
      <4>1. replies[Len(replies)].run = LastRun
        BY <2>1 DEF IInv, CacheIsLast, PrecedingReply, LastRun
      <4>2. Len(replies) \in 1..Len(replies)
        BY <2>1
      <4>3. replies[Len(replies)].run <= replies[k].run + (Len(replies) - k)
        BY <4>2 DEF ClientInv, RunsGrow
      <4> QED
        BY <2>1, <3>1, <4>1, <4>3
    <3> QED
      BY <2>1, <2>2, <2>3, <3>2, <3>3, SMTT(30)
  <2> QED
    BY <2>1, <2>4, <2>5
<1> QED
  BY Invariance, ClientInvariance, <1>1, PTL

\* No two runs in a row carry the same message id.
THEOREM RunsNeverRepeated == Spec => []NoRepeatedRun
<1>1. IInv => NoRepeatedRun
  BY DEF IInv
<1> QED
  BY Invariance, <1>1, PTL

\* Once Bye has been sent, nothing is run, let through or answered.
THEOREM ByeEnds == Spec => NothingAfterBye
<1>1. IInv /\ [Next]_vars =>
          ((\E k \in 1..Len(replies) : replies[k].kind = "bye") => UNCHANGED history)
  <2> SUFFICES ASSUME IInv, [Next]_vars, \E k \in 1..Len(replies) : replies[k].kind = "bye"
               PROVE  UNCHANGED history
    OBVIOUS
  <2>1. pc = "closed"
    BY DEF IInv, ByeIsLast
  <2>2. ~(Suppress \/ Execute \/ Respond)
    BY <2>1 DEF Suppress, Execute, Respond
  <2> QED
    BY <2>2, QuietSteps DEF IInv, Next, ServerStep, history
<1> QED
  BY Invariance, <1>1, PTL DEF Spec, NothingAfterBye
=============================================================================
