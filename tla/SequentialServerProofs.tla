------------------------- MODULE SequentialServerProofs -------------------------
(***************************************************************************)
(* Theorems about SequentialServer, for any number of terminals, any       *)
(* finite set of keys, any values and any backlog.                         *)
(***************************************************************************)
EXTENDS SequentialServer, FiniteSetTheorems, SequenceTheorems, TLAPS

-----------------------------------------------------------------------------
(* Commands and replies.                                                   *)

LEMMA CommandKinds ==
    ASSUME NEW r \in Commands
    PROVE  /\ r.op \in {"put", "get", "delete", "exist", "clear", "keys", "count", "quit",
                        "invalid"}
           /\ r # NoRequest
           /\ r.op = "put" => r.key \in Keys /\ r.value \in Values
           /\ r.op \in {"get", "delete", "exist"} => r.key \in Keys
<1>1. NoRequest.op = "none"
  BY DEF NoRequest
<1> QED
  BY <1>1 DEF Commands, Requests

LEMMA KindOfReply ==
    /\ Ok.kind = "ok" /\ NotFound.kind = "not found" /\ Bye.kind = "bye"
    /\ Error.kind = "error" /\ True.kind = "true" /\ False.kind = "false"
    /\ Empty.kind = "empty" /\ Greeting.kind = "greeting" /\ NoReply.kind = "none"
    /\ \A v : ValueReply(v).kind = "value" /\ ValueReply(v).value = v
    /\ \A n : CountReply(n).kind = "count" /\ CountReply(n).count = n
    /\ \A ks : KeysReply(ks).kind = "keys" /\ KeysReply(ks).keys = ks
  BY DEF Ok, NotFound, Bye, Error, True, False, Empty, Greeting, NoReply, ValueReply,
         CountReply, KeysReply

\* The kind of a reply is the reply, or has the value that comes with it.
LEMMA ReplyOfKind ==
    ASSUME NEW m \in Responses \cup {Greeting, NoReply}
    PROVE  /\ m.kind = "bye" <=> m = Bye
           /\ m.kind = "not found" <=> m = NotFound
           /\ m.kind = "value" => m.value \in Values
           /\ m.kind \notin {"none", "greeting"} => m \in Responses
<1>1. \A n \in [kind : {"value"}, value : Values] : n.kind = "value" /\ n.value \in Values
  OBVIOUS
<1>2. \A n \in [kind : {"count"}, count : Nat] : n.kind = "count"
  OBVIOUS
<1>3. \A n \in [kind : {"keys"}, keys : SUBSET Keys] : n.kind = "keys"
  OBVIOUS
<1>4. \/ m \in [kind : {"value"}, value : Values] \cup [kind : {"count"}, count : Nat]
               \cup [kind : {"keys"}, keys : SUBSET Keys]
      \/ m \in {Ok, NotFound, Bye, Error, True, False, Empty, Greeting, NoReply}
  BY DEF Responses, Replies
<1>5. CASE m \in [kind : {"value"}, value : Values] \cup [kind : {"count"}, count : Nat]
                 \cup [kind : {"keys"}, keys : SUBSET Keys]
  <2>1. m.kind \in {"value", "count", "keys"} /\ (m.kind = "value" => m.value \in Values)
    BY <1>1, <1>2, <1>3, <1>5
  <2>2. m \in Responses
    BY <1>5 DEF Responses, Replies
  <2> QED
    BY <2>1, <2>2, KindOfReply
<1>6. CASE m \in {Ok, NotFound, Bye, Error, True, False, Empty, Greeting, NoReply}
  <2>1. m.kind \in {"ok", "not found", "bye", "error", "true", "false", "empty", "greeting", "none"}
    BY <1>6, KindOfReply
  <2>2. (m.kind = "bye" <=> m = Bye) /\ (m.kind = "not found" <=> m = NotFound)
    BY <1>6, KindOfReply
  <2>3. m \in Responses \/ m = Greeting \/ m = NoReply
    OBVIOUS
  <2> QED
    BY <2>1, <2>2, <2>3, KindOfReply
<1> QED
  BY <1>4, <1>5, <1>6

LEMMA FittingKinds ==
    /\ \A op \in {"put", "clear"} : Fitting(op) = {"ok"}
    /\ Fitting("get") = {"value", "not found"} /\ Fitting("delete") = {"ok", "not found"}
    /\ Fitting("exist") = {"true", "false"} /\ Fitting("keys") = {"keys", "empty"}
    /\ Fitting("count") = {"count"} /\ Fitting("quit") = {"bye"}
    /\ Fitting("invalid") = {"error"}
  BY DEF Fitting

\* A reply that fits a command is neither a greeting nor missing.
LEMMA FittingResponds ==
    ASSUME NEW r \in Commands, NEW m \in Responses \cup {Greeting, NoReply},
           m.kind \in Fitting(r.op)
    PROVE  m \in Responses /\ (m = Bye <=> r.op = "quit")
<1>1. m.kind \notin {"none", "greeting"} /\ (m.kind = "bye" <=> r.op = "quit")
  BY CommandKinds, FittingKinds
<1> QED
  BY <1>1, ReplyOfKind

LEMMA LearntType ==
    ASSUME TypeOK, NEW c \in Clients, asked[c] \in Commands,
           NEW m \in Responses, m.kind \in Fitting(asked[c].op)
    PROVE  Learnt(c, m) \in [Keys -> Values \cup {NoValue, Unknown}]
<1> DEFINE V == Values \cup {NoValue, Unknown}
           r == asked[c]
<1>1. known[c] \in [Keys -> V]
  BY DEF TypeOK
<1>2. \A k, x : x \in V => [known[c] EXCEPT ![k] = x] \in [Keys -> V]
  BY <1>1
<1>3. CASE r.op = "put"
  <2>1. r.value \in V
    BY <1>3, CommandKinds
  <2> QED
    BY <1>2, <1>3, <2>1 DEF Learnt
<1>4. CASE r.op = "delete"
  BY <1>2, <1>4 DEF Learnt
<1>5. CASE r.op = "get"
  <2>1. m = NotFound \/ m.value \in Values
    BY <1>5, FittingKinds, ReplyOfKind
  <2> QED
    BY <1>2, <1>5, <2>1 DEF Learnt
<1>6. CASE r.op = "clear"
  BY <1>6 DEF Learnt
<1>7. CASE r.op = "quit"
  BY <1>7 DEF Learnt, Ignorant
<1>8. CASE r.op \notin {"put", "delete", "get", "clear", "quit"}
  BY <1>1, <1>8 DEF Learnt
<1> QED
  BY <1>3, <1>4, <1>5, <1>6, <1>7, <1>8

-----------------------------------------------------------------------------
(* The command the server runs.                                            *)

LEMMA HandleType ==
    ASSUME TypeOK, ServerInv, handleCommand
    PROVE  /\ store' \in Stores /\ response' \in Responses
           /\ response'.kind \in Fitting(command.op)
           /\ command \in Commands
<1>1. command \in Commands
  BY DEF TypeOK, ServerInv, handleCommand
<1>2. \A v \in Values : ValueReply(v) \in Responses
  BY DEF ValueReply, Responses, Replies
<1>3. CountReply(Size(store)) \in Responses
  <2>1. IsFiniteSet({k \in Keys : store[k] # NoValue})
    BY MapAssumption, FS_Subset
  <2>2. Size(store) \in Nat
    BY <2>1, FS_CardinalityType DEF Size
  <2> QED
    BY <2>2 DEF CountReply, Responses, Replies
<1>4. KeysReply(Held) \in Responses
  BY DEF KeysReply, Held, Responses
<1>5. {Ok, NotFound, Bye, Error, True, False, Empty} \subseteq Responses
  BY DEF Responses, Replies
<1>0. store \in Stores
  BY DEF TypeOK
\* A reply of a kind that fits the command, and a map of the right type, are enough.
<1>e. ASSUME NEW reply \in Responses, NEW kind \in Fitting(command.op),
             response' = reply, reply.kind = kind, store' \in Stores
      PROVE  /\ store' \in Stores /\ response' \in Responses
             /\ response'.kind \in Fitting(command.op)
             /\ command \in Commands
  BY <1>1, <1>e
<1>6. CASE Put
  <2>1. command.op = "put" /\ response' = Ok
    BY <1>6 DEF Put, Is
  <2>2. store' \in Stores
    <3>1. command.value \in Values
      BY <1>1, <2>1, CommandKinds
    <3> QED
      BY <1>0, <1>6, <3>1 DEF Put, Stores
  <2>3. Ok \in Responses /\ Ok.kind = "ok" /\ "ok" \in Fitting(command.op)
    BY <1>5, <2>1, KindOfReply, FittingKinds
  <2> QED
    BY <1>e, <2>1, <2>2, <2>3
<1>7. CASE Get
  <2>1. command.key \in Held => store[command.key] \in Values
    BY DEF Held, TypeOK, Stores
  <2>2. /\ command.op = "get" /\ store' = store
        /\ response' = NotFound \/ \E v \in Values : response' = ValueReply(v)
    BY <1>7, <2>1 DEF Get, Is, Answer
  <2>3. response' \in Responses /\ response'.kind \in {"value", "not found"}
    <3>1. CASE response' = NotFound
      BY <1>5, <3>1, KindOfReply
    <3>2. ASSUME NEW v \in Values, response' = ValueReply(v)
          PROVE  response' \in Responses /\ response'.kind \in {"value", "not found"}
      <4>1. ValueReply(v).kind = "value"
        BY KindOfReply
      <4> QED
        BY <1>2, <3>2, <4>1
    <3> QED
      BY <2>2, <3>1, <3>2
  <2>4. response'.kind \in Fitting(command.op)
    BY <2>2, <2>3, FittingKinds
  <2> QED
    BY <1>0, <1>1, <2>2, <2>3, <2>4
<1>8. CASE Delete
  <2>1. command.op = "delete" /\ (response' = Ok \/ response' = NotFound)
    BY <1>8 DEF Delete, Is
  <2>2. store' \in Stores
    BY <1>0, <1>8 DEF Delete, Stores
  <2>3. /\ Ok \in Responses /\ Ok.kind = "ok" /\ "ok" \in Fitting(command.op)
        /\ NotFound \in Responses /\ NotFound.kind = "not found"
        /\ "not found" \in Fitting(command.op)
    BY <1>5, <2>1, KindOfReply, FittingKinds
  <2> QED
    BY <1>e, <2>1, <2>2, <2>3
<1>9. CASE Exist
  <2>1. command.op = "exist" /\ (response' = True \/ response' = False) /\ store' = store
    BY <1>9 DEF Exist, Is, Answer
  <2>2. /\ True \in Responses /\ True.kind = "true" /\ "true" \in Fitting(command.op)
        /\ False \in Responses /\ False.kind = "false" /\ "false" \in Fitting(command.op)
    BY <1>5, <2>1, KindOfReply, FittingKinds
  <2> QED
    BY <1>0, <1>e, <2>1, <2>2
<1>10. CASE Clear
  <2>1. command.op = "clear" /\ response' = Ok /\ store' \in Stores
    BY <1>10 DEF Clear, Is, EmptyStore, Stores
  <2>2. Ok \in Responses /\ Ok.kind = "ok" /\ "ok" \in Fitting(command.op)
    BY <1>5, <2>1, KindOfReply, FittingKinds
  <2> QED
    BY <1>e, <2>1, <2>2
<1>11. CASE ListKeys
  <2>1. /\ command.op = "keys" /\ store' = store
        /\ response' = Empty \/ response' = KeysReply(Held)
    BY <1>11 DEF ListKeys, Is, Answer
  <2>2. /\ Empty \in Responses /\ Empty.kind = "empty" /\ "empty" \in Fitting(command.op)
        /\ KeysReply(Held).kind = "keys" /\ "keys" \in Fitting(command.op)
    BY <1>5, <2>1, KindOfReply, FittingKinds
  <2> QED
    BY <1>0, <1>4, <1>e, <2>1, <2>2
<1>12. CASE Count
  <2>1. command.op = "count" /\ response' = CountReply(Size(store)) /\ store' = store
    BY <1>12 DEF Count, Is, Answer
  <2>2. CountReply(Size(store)).kind = "count" /\ "count" \in Fitting(command.op)
    BY <2>1, KindOfReply, FittingKinds
  <2> QED
    BY <1>0, <1>3, <1>e, <2>1, <2>2
<1>13. CASE Quit
  <2>1. command.op = "quit" /\ response' = Bye /\ store' = store
    BY <1>13 DEF Quit, Is, Answer
  <2>2. Bye \in Responses /\ Bye.kind = "bye" /\ "bye" \in Fitting(command.op)
    BY <1>5, <2>1, KindOfReply, FittingKinds
  <2> QED
    BY <1>0, <1>e, <2>1, <2>2
<1>14. CASE Refuse
  <2>1. command.op = "invalid" /\ response' = Error /\ store' = store
    BY <1>14 DEF Refuse, Is, Answer
  <2>2. Error \in Responses /\ Error.kind = "error" /\ "error" \in Fitting(command.op)
    BY <1>5, <2>1, KindOfReply, FittingKinds
  <2> QED
    BY <1>0, <1>e, <2>1, <2>2
<1> QED
  BY <1>6, <1>7, <1>8, <1>9, <1>10, <1>11, <1>12, <1>13, <1>14 DEF handleCommand

\* The client the server serves gets a reply that agrees with what it knows, and
\* learns from it what the map has then.
LEMMA HandleReplies ==
    ASSUME TypeOK, ServerInv, handleCommand, NEW c \in Clients, peer = c,
           asked[c] = command, Informed(c, known[c])
    PROVE  Reply(c, response)'
<1> DEFINE r == command
           Has == {k \in Keys : known[c][k] \in Values}
           Lacks == {k \in Keys : known[c][k] = NoValue}
<1>0. /\ r \in Commands /\ r # NoRequest
      /\ response' \in Responses /\ response'.kind \in Fitting(r.op)
  BY HandleType, CommandKinds
<1>1. /\ asked' = asked /\ known' = known /\ peer' = peer
      /\ store \in [Keys -> Values \cup {NoValue}]
      /\ known[c] \in [Keys -> Values \cup {NoValue, Unknown}]
      /\ NoValue \notin Values /\ Unknown \notin Values \cup {NoValue}
  BY MapAssumption, SequentialAssumption DEF handleCommand, TypeOK, Stores
<1>2. Has \subseteq Held /\ Held \subseteq Keys \ Lacks
  BY <1>1 DEF Informed, Held
<1>3. ASSUME Agrees(c, response)', Informed(c, Learnt(c, response))'
      PROVE  Reply(c, response)'
  BY <1>0, <1>1, <1>3 DEF Reply
<1>4. (\A k \in Keys : known[c][k] \in Values => store[k] = known[c][k])
      /\ (\A k \in Keys : known[c][k] = NoValue => store[k] = NoValue)
  BY <1>1 DEF Informed
<1> USE DEF Is, Answer
<1>5. CASE Put
  <2>1. r.op = "put" /\ store' = [store EXCEPT ![r.key] = r.value]
    BY <1>5 DEF Put
  <2>2. Agrees(c, response)'
    BY <1>1, <2>1 DEF Agrees
  <2>3. Informed(c, Learnt(c, response))'
    BY <1>1, <2>1 DEF Informed, Learnt
  <2> QED
    BY <1>3, <2>2, <2>3
<1>6. CASE Get
  <2>1. /\ r.op = "get" /\ store' = store /\ r.key \in Keys
        /\ response' = IF r.key \in Held THEN ValueReply(store[r.key]) ELSE NotFound
    BY <1>0, <1>6, CommandKinds DEF Get
  <2>2. Agrees(c, response)'
    BY <1>1, <1>4, <2>1 DEF Agrees, Held
  <2>3. Learnt(c, response)' = [known[c] EXCEPT ![r.key] = store[r.key]]
    <3>1. ValueReply(store[r.key]).value = store[r.key] /\ ValueReply(store[r.key]) # NotFound
      BY KindOfReply
    <3> QED
      BY <1>1, <2>1, <3>1 DEF Learnt, Held
  <2>4. Informed(c, Learnt(c, response))'
    BY <1>1, <2>1, <2>3 DEF Informed
  <2> QED
    BY <1>3, <2>2, <2>4
<1>7. CASE Delete
  <2>1. /\ r.op = "delete" /\ store' = [store EXCEPT ![r.key] = NoValue] /\ r.key \in Keys
        /\ response' = IF r.key \in Held THEN Ok ELSE NotFound
    BY <1>0, <1>7, CommandKinds DEF Delete
  <2>2. Agrees(c, response)'
    BY <1>1, <1>2, <2>1 DEF Agrees
  <2>3. Informed(c, Learnt(c, response))'
    BY <1>1, <2>1 DEF Informed, Learnt
  <2> QED
    BY <1>3, <2>2, <2>3
<1>8. CASE Exist
  <2>1. /\ r.op = "exist" /\ store' = store /\ r.key \in Keys
        /\ response' = IF r.key \in Held THEN True ELSE False
    BY <1>0, <1>8, CommandKinds DEF Exist
  <2>2. Agrees(c, response)'
    BY <1>1, <1>2, <2>1, KindOfReply DEF Agrees
  <2>3. Informed(c, Learnt(c, response))'
    BY <1>1, <2>1 DEF Informed, Learnt
  <2> QED
    BY <1>3, <2>2, <2>3
<1>9. CASE Clear
  <2>1. r.op = "clear" /\ store' = EmptyStore
    BY <1>9 DEF Clear
  <2>2. Agrees(c, response)'
    BY <1>1, <2>1 DEF Agrees
  <2>3. Informed(c, Learnt(c, response))'
    BY <1>1, <2>1 DEF Informed, Learnt, EmptyStore
  <2> QED
    BY <1>3, <2>2, <2>3
<1>10. CASE ListKeys
  <2>1. /\ r.op = "keys" /\ store' = store
        /\ response' = IF Held = {} THEN Empty ELSE KeysReply(Held)
    BY <1>10 DEF ListKeys
  <2>2. Agrees(c, response)'
    <3>1. Held # {} => response' # Empty /\ response'.keys = Held
      BY <2>1, KindOfReply
    <3> QED
      BY <1>1, <1>2, <2>1, <3>1 DEF Agrees
  <2>3. Informed(c, Learnt(c, response))'
    BY <1>1, <2>1 DEF Informed, Learnt
  <2> QED
    BY <1>3, <2>2, <2>3
<1>11. CASE Count
  <2>1. r.op = "count" /\ store' = store /\ response'.count = Cardinality(Held)
    BY <1>11, KindOfReply DEF Count, Size, Held
  <2>2. Cardinality(Held) \in Cardinality(Has) .. Cardinality(Keys \ Lacks)
    <3>1. IsFiniteSet(Keys \ Lacks)
      BY MapAssumption, FS_Subset
    <3>2. IsFiniteSet(Held) /\ Cardinality(Held) <= Cardinality(Keys \ Lacks)
      BY <1>2, <3>1, FS_Subset
    <3>3. IsFiniteSet(Has) /\ Cardinality(Has) <= Cardinality(Held)
      BY <1>2, <3>2, FS_Subset
    <3> QED
      BY <3>1, <3>2, <3>3, FS_CardinalityType
  <2>3. Agrees(c, response)'
    BY <1>1, <2>1, <2>2 DEF Agrees
  <2>4. Informed(c, Learnt(c, response))'
    BY <1>1, <2>1 DEF Informed, Learnt
  <2> QED
    BY <1>3, <2>3, <2>4
<1>12. CASE Quit \/ Refuse
  <2>1. r.op \in {"quit", "invalid"} /\ store' = store
    BY <1>12 DEF Quit, Refuse
  <2>2. Agrees(c, response)'
    BY <1>1, <2>1 DEF Agrees
  <2>3. Informed(c, Learnt(c, response))'
    BY <1>1, <2>1 DEF Informed, Learnt, Ignorant
  <2> QED
    BY <1>3, <2>2, <2>3
<1> QED
  BY <1>5, <1>6, <1>7, <1>8, <1>9, <1>10, <1>11, <1>12 DEF handleCommand

-----------------------------------------------------------------------------
(* The queue.                                                              *)

LEMMA QueueGrows ==
    ASSUME TypeOK, NEW c \in Clients, NEW d \in Clients, queue' = Append(queue, d),
           Once(c), d = c => ~Queued(c)
    PROVE  Once(c)' /\ (Queued(c)' <=> Queued(c) \/ d = c)
<1>1. /\ queue \in Seq(Clients \cup {Gone}) /\ Len(queue) \in Nat
      /\ Len(queue') = Len(queue) + 1 /\ queue'[Len(queue) + 1] = d
      /\ \A i \in 1..Len(queue) : queue'[i] = queue[i]
  BY DEF TypeOK
<1> QED
  BY <1>1 DEF Once, Queued

LEMMA QueueShrinks ==
    ASSUME TypeOK, NEW c \in Clients, queue # <<>>, queue' = Tail(queue), Once(c)
    PROVE  /\ Once(c)'
           /\ Head(queue) = c => Queued(c) /\ ~Queued(c)'
           /\ Head(queue) # c => (Queued(c)' <=> Queued(c))
<1>1. /\ queue \in Seq(Clients \cup {Gone}) /\ Len(queue) \in Nat \ {0}
      /\ Head(queue) = queue[1] /\ Len(queue') = Len(queue) - 1
      /\ \A i \in 1..Len(queue) - 1 : queue'[i] = queue[i + 1]
  BY DEF TypeOK
<1>2. \A i \in 1..Len(queue)' : i + 1 \in 1..Len(queue) /\ queue'[i] = queue[i + 1]
  BY <1>1
<1>3. Once(c)'
  <2> SUFFICES ASSUME NEW i \in 1..Len(queue)', NEW j \in 1..Len(queue)',
                      queue'[i] = c, queue'[j] = c
               PROVE  i = j
    BY DEF Once
  <2>1. i + 1 = j + 1
    BY <1>2 DEF Once
  <2> QED
    BY <2>1, <1>1
<1>4. Head(queue) = c => Queued(c) /\ ~Queued(c)'
  <2>1. 1 \in 1..Len(queue)
    BY <1>1
  <2>2. ASSUME queue[1] = c, NEW i \in 1..Len(queue)' PROVE queue'[i] # c
    <3>1. i + 1 # 1 /\ i + 1 \in 1..Len(queue) /\ queue'[i] = queue[i + 1]
      BY <1>1, <1>2
    <3> QED
      BY <2>1, <2>2, <3>1 DEF Once
  <2> QED
    BY <1>1, <2>1, <2>2 DEF Queued
<1>5. Head(queue) # c => (Queued(c)' <=> Queued(c))
  <2>1. Queued(c)' => Queued(c)
    BY <1>2 DEF Queued
  <2>2. ASSUME queue[1] # c, NEW i \in 1..Len(queue), queue[i] = c PROVE Queued(c)'
    <3>1. i - 1 \in 1..Len(queue)' /\ (i - 1) + 1 = i
      BY <1>1, <2>2
    <3>2. queue'[i - 1] = c
      BY <1>2, <2>2, <3>1
    <3> QED
      BY <3>1, <3>2 DEF Queued
  <2> QED
    BY <1>1, <2>1, <2>2 DEF Queued
<1> QED
  BY <1>3, <1>4, <1>5

LEMMA QueueLeft ==
    ASSUME TypeOK, NEW d \in Clients,
           queue' = [i \in DOMAIN queue |-> IF queue[i] = d THEN Gone ELSE queue[i]]
    PROVE  /\ queue' \in Seq(Clients \cup {Gone}) /\ Len(queue') = Len(queue)
           /\ ~Queued(d)' /\ Once(d)'
           /\ \A c \in Clients \ {d} : /\ Queued(c)' <=> Queued(c)
                                       /\ Once(c) => Once(c)'
<1>1. /\ queue \in Seq(Clients \cup {Gone}) /\ Len(queue) \in Nat /\ Gone \notin Clients
      /\ DOMAIN queue = 1..Len(queue)
  BY SequentialAssumption DEF TypeOK
<1>2. queue' \in Seq(Clients \cup {Gone}) /\ Len(queue') = Len(queue)
  BY <1>1
<1>3. \A i \in 1..Len(queue) : queue'[i] = IF queue[i] = d THEN Gone ELSE queue[i]
  BY <1>1
<1>4. \A i \in 1..Len(queue) : queue'[i] # d
  BY <1>1, <1>3
<1>5. \A c \in Clients \ {d} : \A i \in 1..Len(queue) : queue'[i] = c <=> queue[i] = c
  BY <1>1, <1>3
<1>6. ~Queued(d)' /\ Once(d)'
  BY <1>2, <1>4 DEF Queued, Once
<1>7. ASSUME NEW c \in Clients \ {d}
      PROVE  (Queued(c)' <=> Queued(c)) /\ (Once(c) => Once(c)')
  BY <1>2, <1>5, ZenonT(60) DEF Queued, Once
<1> QED
  BY <1>2, <1>6, <1>7

-----------------------------------------------------------------------------
(* Types, and the server's own invariant.                                  *)

LEMMA InitInv == Init => IInv
<1> SUFFICES ASSUME Init PROVE IInv
  OBVIOUS
<1>1. TypeOK
  <2>1. EmptyStore \in Stores /\ Ignorant \in [Keys -> Values \cup {NoValue, Unknown}]
    BY DEF EmptyStore, Stores, Ignorant
  <2>2. queue \in Seq(Clients \cup {Gone}) /\ Len(queue) <= Backlog
    BY SequentialAssumption DEF Init
  <2>3. inbox \in [Clients -> Seq(Responses \cup {Greeting})]
    BY DEF Init
  <2> QED
    BY <2>1, <2>2, <2>3 DEF Init, TypeOK
<1>2. ServerInv
  BY DEF Init, ServerInv
<1>3. ASSUME NEW c \in Clients PROVE ClientInv(c)
  <2>1. peer # c /\ Len(queue) = 0
    BY SequentialAssumption DEF Init
  <2> QED
    BY <2>1 DEF Init, ClientInv, Idle, Queued, Once
<1> QED
  BY <1>1, <1>2, <1>3 DEF IInv

\* The client the server serves is there, and where it is goes with where the server is.
LEMMA ServedClient ==
    ASSUME TypeOK, NEW c \in Clients, ClientInv(c), peer = c
    PROVE  /\ pc[c] # "away" /\ ~Queued(c)
           /\ serverPc \in {"running", "sending"} => pc[c] = "waiting" /\ asked[c] = command
           /\ line # NoRequest /\ serverPc = "reading" => pc[c] = "waiting" /\ asked[c] = line
  BY DEF ClientInv, TypeOK, Idle, InSession

\* What a program in "waiting" has to read.
LEMMA ToRead ==
    ASSUME TypeOK, NEW c \in Clients, ClientInv(c), pc[c] = "waiting", inbox[c] # <<>>
    PROVE  /\ Len(inbox[c]) = 1 /\ Head(inbox[c]) = inbox[c][1] /\ Tail(inbox[c]) = <<>>
           /\ Reply(c, inbox[c][1]) /\ ~Queued(c)
           /\ peer = c => InSession(c) /\ asked[c].op # "quit"
           /\ inbox[c][1] \in Responses /\ asked[c] \in Commands
           /\ inbox[c][1] = Bye <=> asked[c].op = "quit"
<1>1. /\ Len(inbox[c]) = 1 /\ Reply(c, inbox[c][1]) /\ ~Queued(c)
      /\ peer = c => InSession(c) /\ asked[c].op # "quit"
  BY DEF ClientInv, Idle
<1>2. inbox[c] \in Seq(Responses \cup {Greeting}) /\ inbox[c][1] \in Responses \cup {Greeting}
  BY <1>1 DEF TypeOK
<1>3. asked[c] \in Commands /\ inbox[c][1].kind \in Fitting(asked[c].op)
  BY <1>1 DEF TypeOK, Reply
<1>4. Head(inbox[c]) = inbox[c][1] /\ Tail(inbox[c]) = <<>>
  <2> DEFINE rest == Tail(inbox[c])
  <2>1. Head(inbox[c]) = inbox[c][1]
    BY <1>1, <1>2
  <2>2. rest \in Seq(Responses \cup {Greeting}) /\ Len(rest) = 0
    BY <1>1, <1>2, HeadTailProperties
  <2>3. rest = <<>>
    <3> HIDE DEF rest
    <3> QED
      BY <2>2, EmptySeq
  <2> QED
    BY <2>1, <2>3
<1> QED
  BY <1>1, <1>2, <1>3, <1>4, FittingResponds

LEMMA Delivered ==
    ASSUME TypeOK, ServerInv, serverPc = "sending", Deliver(response)
    PROVE  /\ response \in Responses
           /\ command \in Commands /\ (response = Bye <=> command.op = "quit")
           /\ inbox' \in [Clients -> Seq(Responses \cup {Greeting})]
           /\ \A c \in Clients : inbox'[c] = IF c = peer THEN Append(inbox[c], response)
                                                         ELSE inbox[c]
<1>1. command \in Commands /\ response.kind \in Fitting(command.op)
  BY DEF TypeOK, ServerInv
<1>2. response \in Responses /\ (response = Bye <=> command.op = "quit")
  BY <1>1, FittingResponds DEF TypeOK
<1> QED
  BY <1>1, <1>2 DEF Deliver, TypeOK

LEMMA TypeStep == IInv /\ [Next]_vars => TypeOK'
<1> SUFFICES ASSUME IInv, [Next]_vars PROVE TypeOK'
  OBVIOUS
<1>0. TypeOK /\ ServerInv /\ \A c \in Clients : ClientInv(c)
  BY DEF IInv
<1> USE <1>0 DEF serverVars, Goto
<1>1. CASE Accept
  <2>1. /\ queue \in Seq(Clients \cup {Gone}) /\ Len(queue) \in Nat \ {0}
        /\ Head(queue) \in Clients \cup {Gone}
        /\ Tail(queue) \in Seq(Clients \cup {Gone}) /\ Len(Tail(queue)) <= Backlog
    BY <1>1, SequentialAssumption DEF TypeOK, Accept
  <2>2. inbox' \in [Clients -> Seq(Responses \cup {Greeting})]
    <3>1. CASE Head(queue) = Gone
      BY <1>1, <3>1 DEF TypeOK, Accept
    <3>2. CASE Head(queue) # Gone
      <4>1. Head(queue) \in Clients
        BY <2>1, <3>2
      <4>2. Append(inbox[Head(queue)], Greeting) \in Seq(Responses \cup {Greeting})
        BY <4>1 DEF TypeOK
      <4> QED
        BY <1>1, <3>2, <4>1, <4>2 DEF TypeOK, Accept
    <3> QED
      BY <3>1, <3>2
  <2> QED
    BY <1>1, <2>1, <2>2 DEF Accept, TypeOK
<1>2. CASE ReadLine
  BY <1>2 DEF ReadLine, TypeOK
<1>3. CASE handleCommand
  BY <1>3, HandleType DEF handleCommand, TypeOK
<1>4. CASE Send
  BY <1>4, Delivered DEF Send, TypeOK
<1>5. CASE SendLast
  BY <1>5, Delivered DEF SendLast, Close, TypeOK
<1>6. CASE ReadEnd
  BY <1>6 DEF ReadEnd, Close, TypeOK
<1>7. ASSUME NEW c \in Clients, Connect(c) PROVE TypeOK'
  <2>1. Append(queue, c) \in Seq(Clients \cup {Gone}) /\ Len(Append(queue, c)) <= Backlog
    BY <1>7, SequentialAssumption DEF Connect, TypeOK
  <2> QED
    BY <1>7, <2>1 DEF Connect, TypeOK
<1>8. ASSUME NEW c \in Clients, ReadGreeting(c) PROVE TypeOK'
  <2>1. Tail(inbox[c]) \in Seq(Responses \cup {Greeting})
    BY <1>8 DEF ReadGreeting, TypeOK
  <2> QED
    BY <1>8, <2>1 DEF ReadGreeting, TypeOK
<1>9. ASSUME NEW c \in Clients, NEW r \in Commands, SendLine(c, r) PROVE TypeOK'
  BY <1>9 DEF SendLine, TypeOK
<1>10. ASSUME NEW c \in Clients, ReadReply(c) PROVE TypeOK'
  <2>1. pc[c] = "waiting" /\ inbox[c] # <<>>
    BY <1>10 DEF ReadReply
  <2>2. /\ Reply(c, inbox[c][1]) /\ Head(inbox[c]) = inbox[c][1] /\ Tail(inbox[c]) = <<>>
        /\ inbox[c][1] \in Responses /\ asked[c] \in Commands
    BY <2>1, ToRead
  <2>3. Learnt(c, Head(inbox[c])) \in [Keys -> Values \cup {NoValue, Unknown}]
    BY <2>2, LearntType DEF Reply
  <2>4. Tail(inbox[c]) \in Seq(Responses \cup {Greeting})
    BY <2>2, EmptySeq
  <2> QED
    BY <1>10, <2>3, <2>4 DEF ReadReply, TypeOK
<1>11. ASSUME NEW c \in Clients, FindClosed(c) PROVE TypeOK'
  BY <1>11 DEF FindClosed, TypeOK
<1>12. ASSUME NEW c \in Clients, Leave(c) PROVE TypeOK'
  <2>1. queue' \in Seq(Clients \cup {Gone}) /\ Len(queue') = Len(queue)
    BY <1>12, QueueLeft DEF Leave
  <2>2. <<>> \in Seq(Responses \cup {Greeting})
    OBVIOUS
  <2>3. Ignorant \in [Keys -> Values \cup {NoValue, Unknown}]
    BY DEF Ignorant
  <2> QED
    BY <1>12, <2>1, <2>2, <2>3 DEF Leave, TypeOK
<1>13. CASE UNCHANGED vars
  BY <1>13 DEF vars, TypeOK
<1> QED
  BY <1>1, <1>2, <1>3, <1>4, <1>5, <1>6, <1>7, <1>8, <1>9, <1>10, <1>11, <1>12, <1>13
  DEF Next, ServerStep, ProgramStep, UserStep

LEMMA ServerStepInv == IInv /\ [Next]_vars => ServerInv'
<1> SUFFICES ASSUME IInv, [Next]_vars PROVE ServerInv'
  OBVIOUS
<1>0. /\ TypeOK /\ ServerInv /\ \A c \in Clients : ClientInv(c)
      /\ Nobody \notin Clients /\ Gone \notin Clients /\ Nobody # Gone
  BY SequentialAssumption DEF IInv
<1> USE <1>0 DEF serverVars, Goto
<1>1. CASE Accept
  <2>1. Head(queue) \in Clients \cup {Gone}
    BY <1>1 DEF TypeOK, Accept
  <2> QED
    BY <1>1, <2>1 DEF Accept, ServerInv
<1>2. CASE ReadLine
  BY <1>2 DEF ReadLine, ServerInv
<1>3. CASE handleCommand
  <2>1. response'.kind \in Fitting(command.op)
    BY <1>3, HandleType
  <2> QED
    BY <1>3, <2>1 DEF handleCommand, ServerInv
<1>4. CASE Send
  BY <1>4 DEF Send, ServerInv
<1>5. CASE SendLast \/ ReadEnd
  BY <1>5 DEF SendLast, ReadEnd, Close, ServerInv
<1>6. ASSUME NEW c \in Clients, ProgramStep(c) \/ Connect(c) PROVE ServerInv'
  <2>1. UNCHANGED <<serverVars, line>>
    BY <1>6 DEF ProgramStep, ReadGreeting, ReadReply, FindClosed, Connect
  <2> QED
    BY <2>1 DEF ServerInv
<1>7. ASSUME NEW c \in Clients, NEW r \in Commands, SendLine(c, r) PROVE ServerInv'
  <2>1. peer = c => serverPc = "reading"
    BY <1>7 DEF SendLine, ClientInv, Idle, InSession
  <2> QED
    BY <1>7, <2>1 DEF SendLine, ServerInv
<1>8. ASSUME NEW c \in Clients, Leave(c) PROVE ServerInv'
  BY <1>8 DEF Leave, ServerInv
<1>9. CASE UNCHANGED vars
  BY <1>9 DEF vars, ServerInv
<1> QED
  BY <1>1, <1>2, <1>3, <1>4, <1>5, <1>6, <1>7, <1>8, <1>9 DEF Next, ServerStep, UserStep

-----------------------------------------------------------------------------
(* The invariant of a client.                                              *)

\* A step that leaves the client where it is, and does not touch what the server
\* does for it.
LEMMA OtherKeeps ==
    ASSUME NEW c \in Clients, ClientInv(c),
           pc'[c] = pc[c], asked'[c] = asked[c], inbox'[c] = inbox[c], known'[c] = known[c],
           peer' = c <=> peer = c,
           peer = c => UNCHANGED <<store, serverPc, line, command, response>>,
           Once(c)', Queued(c)' <=> Queued(c)
    PROVE  ClientInv(c)'
<1>1. Idle(c) => Idle(c)'
  BY DEF Idle
<1>2. InSession(c) => InSession(c)'
  BY DEF InSession
<1>3. \A view : peer = c /\ Informed(c, view) => Informed(c, view)'
  BY DEF Informed
<1>4. \A reply : Agrees(c, reply) => Agrees(c, reply)'
  BY DEF Agrees
<1>5. \A reply : Learnt(c, reply)' = Learnt(c, reply)
  BY DEF Learnt
<1>6. \A reply : Reply(c, reply) => Reply(c, reply)'
  BY <1>3, <1>4, <1>5 DEF Reply, Informed
<1>7. CASE pc[c] = "away"
  BY <1>1, <1>7 DEF ClientInv
<1>8. CASE pc[c] = "greeting"
  BY <1>1, <1>2, <1>8 DEF ClientInv
<1>9. CASE pc[c] = "prompt"
  BY <1>1, <1>2, <1>3, <1>9 DEF ClientInv, InSession, Informed
<1>10. CASE pc[c] = "waiting"
  <2>1. CASE Idle(c)
    BY <1>1, <1>10, <2>1 DEF ClientInv
  <2>2. CASE peer = c /\ inbox[c] = <<>>
    <3>1. Reply(c, response) => Reply(c, response)'
      BY <1>6, <2>2
    <3>2. /\ asked[c] # NoRequest
          /\ serverPc = "reading" => line = asked[c] /\ Informed(c, known[c])
          /\ serverPc = "running" => command = asked[c] /\ Informed(c, known[c])
          /\ serverPc = "sending" => command = asked[c] /\ Reply(c, response)
      BY <1>10, <2>2 DEF ClientInv, Idle
    <3>3. Informed(c, known[c]) => Informed(c, known[c])'
      BY <2>2 DEF Informed
    <3> QED
      BY <1>10, <2>2, <3>1, <3>2, <3>3 DEF ClientInv
  <2>3. CASE /\ Len(inbox[c]) = 1 /\ Reply(c, inbox[c][1])
             /\ peer = c => InSession(c) /\ asked[c].op # "quit"
    <3>1. Reply(c, inbox[c][1])'
      BY <1>6, <2>3
    <3> QED
      BY <1>2, <1>10, <2>3, <3>1 DEF ClientInv
  <2> QED
    BY <1>10, <2>1, <2>2, <2>3 DEF ClientInv
<1>11. CASE pc[c] \notin {"away", "greeting", "prompt", "waiting"}
  BY <1>11 DEF ClientInv
<1> QED
  BY <1>7, <1>8, <1>9, <1>10, <1>11

\* A step that does not touch the queue.
LEMMA QueueKept ==
    ASSUME NEW c \in Clients, ClientInv(c), queue' = queue
    PROVE  Once(c)' /\ (Queued(c)' <=> Queued(c))
  BY DEF ClientInv, Once, Queued

LEMMA AcceptKeeps ==
    ASSUME IInv, NEW c \in Clients, Accept
    PROVE  ClientInv(c)'
<1>0. /\ TypeOK /\ ServerInv /\ ClientInv(c)
      /\ Nobody \notin Clients /\ Gone \notin Clients
  BY SequentialAssumption DEF IInv
<1>1. /\ serverPc = "accepting" /\ peer = Nobody /\ peer' = Head(queue)
      /\ queue # <<>> /\ queue' = Tail(queue)
      /\ serverPc' = "reading" /\ line' = NoRequest
      /\ pc' = pc /\ asked' = asked /\ known' = known
  BY <1>0 DEF Accept, ServerInv
<1>2. /\ Once(c)'
      /\ Head(queue) = c => Queued(c) /\ ~Queued(c)'
      /\ Head(queue) # c => (Queued(c)' <=> Queued(c))
  BY <1>0, <1>1, QueueShrinks DEF ClientInv
<1>3. CASE Head(queue) = c
  <2>1. pc[c] = "greeting" /\ Idle(c)
    BY <1>0, <1>1, <1>2, <1>3 DEF ClientInv, TypeOK, Idle, InSession
  <2>2. inbox'[c] = <<Greeting>>
    <3>1. inbox'[c] = Append(inbox[c], Greeting)
      BY <1>0, <1>3 DEF Accept, TypeOK
    <3> QED
      BY <2>1, <3>1 DEF Idle
  <2> QED
    BY <1>1, <1>2, <1>3, <2>1, <2>2 DEF ClientInv, InSession, Idle
<1>4. CASE Head(queue) # c
  <2>1. inbox'[c] = inbox[c]
    BY <1>0, <1>4 DEF Accept, TypeOK
  <2> QED
    BY <1>0, <1>1, <1>2, <1>4, <2>1, OtherKeeps
<1> QED
  BY <1>3, <1>4

LEMMA ReadLineKeeps ==
    ASSUME IInv, NEW c \in Clients, ReadLine
    PROVE  ClientInv(c)'
<1>0. TypeOK /\ ClientInv(c)
  BY DEF IInv
<1>1. Once(c)' /\ (Queued(c)' <=> Queued(c))
  BY <1>0, QueueKept DEF ReadLine
<1>2. CASE peer = c
  <2>1. /\ pc[c] = "waiting" /\ asked[c] = line /\ asked[c] # NoRequest /\ ~Queued(c)
        /\ inbox[c] = <<>> /\ Informed(c, known[c])
    <3>1. pc[c] = "waiting" /\ asked[c] = line /\ ~Queued(c) /\ line # NoRequest
          /\ serverPc = "reading"
      BY <1>0, <1>2, ServedClient DEF ReadLine
    <3> QED
      BY <1>0, <1>2, <3>1 DEF ClientInv, Idle, InSession
  <2>2. Informed(c, known[c])'
    BY <2>1 DEF ReadLine, Informed
  <2> QED
    BY <1>1, <1>2, <2>1, <2>2 DEF ReadLine, ClientInv
<1>3. CASE peer # c
  BY <1>0, <1>1, <1>3, OtherKeeps DEF ReadLine
<1> QED
  BY <1>2, <1>3

LEMMA HandleKeeps ==
    ASSUME IInv, NEW c \in Clients, handleCommand
    PROVE  ClientInv(c)'
<1>0. TypeOK /\ ServerInv /\ ClientInv(c)
  BY DEF IInv
<1>1. Once(c)' /\ (Queued(c)' <=> Queued(c))
  BY <1>0, QueueKept DEF handleCommand
<1>2. CASE peer = c
  <2>1. pc[c] = "waiting" /\ asked[c] = command /\ ~Queued(c) /\ serverPc = "running"
    BY <1>0, <1>2, ServedClient DEF handleCommand
  <2>2. inbox[c] = <<>> /\ Informed(c, known[c]) /\ asked[c] # NoRequest
    BY <1>0, <1>2, <2>1 DEF ClientInv, Idle, InSession
  <2>3. Reply(c, response)'
    BY <1>0, <1>2, <2>1, <2>2, HandleReplies
  <2> QED
    BY <1>1, <1>2, <2>1, <2>2, <2>3 DEF handleCommand, ClientInv
<1>3. CASE peer # c
  BY <1>0, <1>1, <1>3, OtherKeeps DEF handleCommand
<1> QED
  BY <1>2, <1>3

LEMMA SendKeeps ==
    ASSUME IInv, NEW c \in Clients, Send \/ SendLast
    PROVE  ClientInv(c)'
<1>0. /\ TypeOK /\ ServerInv /\ ClientInv(c)
      /\ Nobody \notin Clients /\ Gone \notin Clients
  BY SequentialAssumption DEF IInv
<1>1. /\ serverPc = "sending" /\ Deliver(response)
      /\ pc' = pc /\ asked' = asked /\ known' = known /\ store' = store /\ queue' = queue
  BY DEF Send, SendLast, Close
<1>2. Once(c)' /\ (Queued(c)' <=> Queued(c))
  BY <1>0, <1>1, QueueKept
<1>3. inbox'[c] = IF c = peer THEN Append(inbox[c], response) ELSE inbox[c]
  BY <1>0, <1>1, Delivered
<1>4. CASE peer = c
  <2>1. pc[c] = "waiting" /\ asked[c] = command /\ ~Queued(c)
    BY <1>0, <1>1, <1>4, ServedClient
  <2>2. inbox[c] = <<>> /\ Reply(c, response)
    BY <1>0, <1>1, <1>4, <2>1 DEF ClientInv, Idle, InSession
  <2>3. inbox'[c] = <<response>>
    BY <1>3, <1>4, <2>2
  <2>4. CASE Send
    <3>1. peer' = c /\ InSession(c)' /\ asked[c].op # "quit"
      BY <1>0, <1>1, <1>2, <1>4, <2>1, <2>4, Delivered DEF Send, InSession, ServerInv
    <3>2. Reply(c, inbox[c][1])'
      BY <1>1, <1>4, <2>2, <2>3, <3>1 DEF Reply, Agrees, Learnt, Informed
    <3> QED
      BY <1>1, <1>2, <2>1, <2>3, <3>1, <3>2 DEF ClientInv
  <2>5. CASE SendLast
    <3>1. peer' # c /\ asked[c].op = "quit"
      BY <1>0, <1>1, <1>4, <2>1, <2>5, Delivered DEF SendLast, Close
    <3>2. Reply(c, inbox[c][1])'
      BY <1>1, <2>2, <2>3, <3>1 DEF Reply, Agrees
    <3> QED
      BY <1>1, <1>2, <2>1, <2>3, <3>1, <3>2 DEF ClientInv
  <2> QED
    BY <2>4, <2>5
<1>5. CASE peer # c
  <2>1. peer' # c
    BY <1>0, <1>5 DEF Send, SendLast, Close
  <2> QED
    BY <1>0, <1>1, <1>2, <1>3, <1>5, <2>1, OtherKeeps
<1> QED
  BY <1>4, <1>5

LEMMA ReadEndKeeps ==
    ASSUME IInv, NEW c \in Clients, ReadEnd
    PROVE  ClientInv(c)'
<1>0. ClientInv(c) /\ Nobody \notin Clients /\ Gone \notin Clients
  BY SequentialAssumption DEF IInv
<1>1. Once(c)' /\ (Queued(c)' <=> Queued(c))
  BY <1>0, QueueKept DEF ReadEnd, Close
<1> QED
  BY <1>0, <1>1, OtherKeeps DEF ReadEnd, Close

\* What the client at one terminal does is nothing to another.
LEMMA OtherTerminal ==
    ASSUME IInv, NEW c \in Clients, NEW d \in Clients \ {c}, ProgramStep(d) \/ UserStep(d)
    PROVE  ClientInv(c)'
<1>0. TypeOK /\ ClientInv(c) /\ Gone \notin Clients
  BY SequentialAssumption DEF IInv
<1> USE DEF serverVars, Goto
<1>1. CASE Connect(d)
  <2>1. Once(c)' /\ (Queued(c)' <=> Queued(c))
    BY <1>0, <1>1, QueueGrows DEF Connect, ClientInv
  <2> QED
    BY <1>0, <1>1, <2>1, OtherKeeps DEF Connect, TypeOK
<1>2. CASE Leave(d)
  <2>1. Once(c)' /\ (Queued(c)' <=> Queued(c))
    BY <1>0, <1>2, QueueLeft DEF Leave, ClientInv
  <2>2. /\ pc'[c] = pc[c] /\ asked'[c] = asked[c] /\ inbox'[c] = inbox[c] /\ known'[c] = known[c]
        /\ peer' = c <=> peer = c
        /\ UNCHANGED <<store, serverPc, line, command, response>>
    BY <1>0, <1>2 DEF Leave, TypeOK
  <2> QED
    BY <1>0, <2>1, <2>2, OtherKeeps
<1>3. CASE ProgramStep(d) \/ \E r \in Commands : SendLine(d, r)
  <2>1. queue' = queue
    BY <1>3 DEF ProgramStep, ReadGreeting, ReadReply, FindClosed, SendLine
  <2>2. Once(c)' /\ (Queued(c)' <=> Queued(c))
    BY <1>0, <2>1, QueueKept
  <2>3. /\ pc'[c] = pc[c] /\ asked'[c] = asked[c] /\ inbox'[c] = inbox[c] /\ known'[c] = known[c]
        /\ UNCHANGED <<store, serverPc, peer, command, response>>
        /\ peer = c => line' = line
    BY <1>0, <1>3 DEF ProgramStep, ReadGreeting, ReadReply, FindClosed, SendLine, TypeOK
  <2> QED
    BY <1>0, <2>2, <2>3, OtherKeeps
<1> QED
  BY <1>1, <1>2, <1>3 DEF UserStep

LEMMA OwnTerminal ==
    ASSUME IInv, NEW c \in Clients, ProgramStep(c) \/ UserStep(c)
    PROVE  ClientInv(c)'
<1>0. TypeOK /\ ClientInv(c) /\ ServerInv /\ Gone \notin Clients
  BY SequentialAssumption DEF IInv
<1> USE DEF serverVars, Goto
<1>1. CASE Connect(c)
  <2>1. pc[c] = "away" /\ Idle(c) /\ ~Queued(c)
    BY <1>0, <1>1 DEF Connect, ClientInv
  <2>2. Once(c)' /\ Queued(c)'
    BY <1>0, <1>1, <2>1, QueueGrows DEF Connect, ClientInv
  <2>3. pc'[c] = "greeting" /\ Idle(c)'
    BY <1>0, <1>1, <2>1 DEF Connect, Idle, TypeOK
  <2> QED
    BY <2>2, <2>3 DEF ClientInv
<1>2. CASE Leave(c)
  <2>1. Once(c)' /\ ~Queued(c)'
    BY <1>0, <1>2, QueueLeft DEF Leave
  <2>2. pc'[c] = "away" /\ Idle(c)'
    BY <1>0, <1>2 DEF Leave, Idle, TypeOK
  <2> QED
    BY <2>1, <2>2 DEF ClientInv
<1>3. CASE ProgramStep(c) \/ \E r \in Commands : SendLine(c, r)
  <2>1. queue' = queue
    BY <1>3 DEF ProgramStep, ReadGreeting, ReadReply, FindClosed, SendLine
  <2>2. Once(c)' /\ (Queued(c)' <=> Queued(c))
    BY <1>0, <2>1, QueueKept
  <2>3. CASE ReadGreeting(c)
    <3>1. /\ InSession(c) /\ inbox[c] = <<Greeting>> /\ asked[c] = NoRequest
          /\ known[c] = Ignorant
      BY <1>0, <2>3 DEF ReadGreeting, ClientInv, Idle
    <3>2. inbox'[c] = <<>>
      BY <1>0, <2>3, <3>1 DEF ReadGreeting, TypeOK
    <3>3. Informed(c, Ignorant)'
      BY DEF Informed, Ignorant
    <3>4. pc'[c] = "prompt" /\ InSession(c)' /\ asked'[c] = NoRequest /\ known'[c] = Ignorant
      BY <1>0, <2>2, <2>3, <3>1 DEF ReadGreeting, InSession, TypeOK
    <3> QED
      BY <2>2, <3>2, <3>3, <3>4 DEF ClientInv, Informed
  <2>4. ASSUME NEW r \in Commands, SendLine(c, r)
        PROVE  ClientInv(c)'
    <3>0. /\ pc[c] = "prompt" /\ pc'[c] = "waiting"
          /\ UNCHANGED <<store, serverPc, peer, command, response, inbox, known>>
      BY <1>0, <2>4 DEF SendLine, TypeOK
    <3>1. CASE peer = c
      <4>1. InSession(c) /\ inbox[c] = <<>> /\ Informed(c, known[c])
        BY <1>0, <3>0, <3>1 DEF ClientInv, Idle
      <4>2. line' = r /\ asked'[c] = r /\ r # NoRequest
        BY <1>0, <2>4, <3>1, CommandKinds DEF SendLine, TypeOK
      <4>3. Informed(c, known[c])'
        BY <3>0, <4>1 DEF Informed
      <4> QED
        BY <2>2, <3>0, <3>1, <4>1, <4>2, <4>3 DEF ClientInv, InSession
    <3>2. CASE peer # c
      <4>1. Idle(c) /\ ~Queued(c)
        BY <1>0, <3>0, <3>2 DEF ClientInv, InSession
      <4>2. Idle(c)'
        BY <2>4, <3>0, <3>2, <4>1 DEF Idle, SendLine
      <4> QED
        BY <2>2, <3>0, <4>1, <4>2 DEF ClientInv
    <3> QED
      BY <3>1, <3>2
  <2>5. CASE ReadReply(c)
    <3>1. pc[c] = "waiting" /\ inbox[c] # <<>>
      BY <2>5 DEF ReadReply
    <3>2. /\ Head(inbox[c]) = inbox[c][1] /\ Tail(inbox[c]) = <<>>
          /\ Reply(c, inbox[c][1]) /\ ~Queued(c)
          /\ peer = c => InSession(c) /\ asked[c].op # "quit"
          /\ (inbox[c][1] = Bye <=> asked[c].op = "quit")
      BY <1>0, <3>1, ToRead
    <3>3. /\ inbox'[c] = <<>> /\ asked'[c] = NoRequest
          /\ known'[c] = Learnt(c, inbox[c][1])
          /\ pc'[c] = "prompt" \/ (pc'[c] = "away" /\ inbox[c][1] = Bye)
          /\ UNCHANGED <<store, serverPc, peer, line, command, response>>
      BY <1>0, <2>5, <3>2 DEF ReadReply, TypeOK
    <3>4. asked[c].op = "quit" => known'[c] = Ignorant
      BY <3>3 DEF Learnt
    <3>5. CASE peer = c
      <4>1. InSession(c)' /\ Informed(c, known[c])'
        BY <2>2, <3>2, <3>3, <3>5 DEF InSession, Reply, Informed
      <4>2. pc'[c] = "prompt" /\ ~Queued(c)
        BY <3>2, <3>3, <3>5
      <4> QED
        BY <2>2, <3>3, <4>1, <4>2 DEF ClientInv
    <3>6. CASE peer # c
      <4>1. Idle(c)'
        BY <3>2, <3>3, <3>4, <3>6 DEF Reply, Idle
      <4> QED
        BY <2>2, <3>2, <3>3, <4>1 DEF ClientInv
    <3> QED
      BY <3>5, <3>6
  <2>6. CASE FindClosed(c)
    <3>1. Idle(c) /\ ~Queued(c)
      BY <1>0, <2>6 DEF FindClosed, ClientInv
    <3>2. pc'[c] = "away" /\ Idle(c)'
      BY <1>0, <2>6, <3>1 DEF FindClosed, Idle, TypeOK
    <3> QED
      BY <2>2, <3>1, <3>2 DEF ClientInv
  <2> QED
    BY <1>3, <2>3, <2>4, <2>5, <2>6 DEF ProgramStep
<1> QED
  BY <1>1, <1>2, <1>3 DEF UserStep

LEMMA NextInv == IInv /\ [Next]_vars => IInv'
<1> SUFFICES ASSUME IInv, [Next]_vars PROVE IInv'
  OBVIOUS
<1>1. TypeOK' /\ ServerInv'
  BY TypeStep, ServerStepInv
<1>2. ASSUME NEW c \in Clients PROVE ClientInv(c)'
  <2>1. CASE ServerStep
    BY <2>1, AcceptKeeps, ReadLineKeeps, HandleKeeps, SendKeeps, ReadEndKeeps DEF ServerStep
  <2>2. ASSUME NEW d \in Clients, ProgramStep(d) \/ UserStep(d)
        PROVE  ClientInv(c)'
    <3>1. CASE d = c
      BY <2>2, <3>1, OwnTerminal
    <3>2. CASE d # c
      BY <2>2, <3>2, OtherTerminal
    <3> QED
      BY <3>1, <3>2
  <2>3. CASE UNCHANGED vars
    <3>1. ClientInv(c)
      BY DEF IInv
    <3>2. Once(c)' /\ (Queued(c)' <=> Queued(c))
      BY <2>3, <3>1, QueueKept DEF vars
    <3> QED
      BY <2>3, <3>1, <3>2, OtherKeeps DEF vars, serverVars
  <2> QED
    BY <2>1, <2>2, <2>3 DEF Next
<1> QED
  BY <1>1, <1>2 DEF IInv

LEMMA Invariance == Spec => []IInv
  BY InitInv, NextInv, PTL DEF Spec

-----------------------------------------------------------------------------
(* The theorems.                                                           *)

\* Type correctness.
THEOREM TypeCorrect == Spec => []TypeOK
<1>1. IInv => TypeOK
  BY DEF IInv
<1> QED
  BY <1>1, Invariance, PTL

\* Whatever the users do, a client of handleClient reads one reply for each line,
\* and that reply answers the line: no greeting, no reply too many, no stranger's.
THEOREM RepliesFit == Spec => []AnswersFit
<1>1. IInv => AnswersFit
  <2> SUFFICES ASSUME IInv, NEW c \in Clients
               PROVE  /\ pc[c] \in {"away", "prompt"} => inbox[c] = <<>>
                      /\ pc[c] = "waiting" /\ inbox[c] # <<>> =>
                             Len(inbox[c]) = 1 /\ Head(inbox[c]).kind \in Fitting(asked[c].op)
    BY DEF AnswersFit
  <2>1. TypeOK /\ ClientInv(c)
    BY DEF IInv
  <2>2. pc[c] \in {"away", "prompt"} => inbox[c] = <<>>
    BY <2>1 DEF ClientInv, Idle
  <2>3. pc[c] = "waiting" /\ inbox[c] # <<>> =>
            Len(inbox[c]) = 1 /\ Head(inbox[c]).kind \in Fitting(asked[c].op)
    BY <2>1, ToRead DEF Reply
  <2> QED
    BY <2>2, <2>3
<1> QED
  BY <1>1, Invariance, PTL

\* A client that is served is alone with the map of main: every reply, the count and
\* the keys included, agrees with what its own commands have told it.
THEOREM AloneWithTheMap == Spec => []SessionAlone
<1>1. IInv => SessionAlone
  <2> SUFFICES ASSUME IInv, NEW c \in Clients, pc[c] = "waiting", inbox[c] # <<>>
               PROVE  Agrees(c, Head(inbox[c]))
    BY DEF SessionAlone
  <2> QED
    BY ToRead DEF IInv, Reply
<1> QED
  BY <1>1, Invariance, PTL
=============================================================================
