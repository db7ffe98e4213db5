--------------------------- MODULE RemoteStoreProofs ---------------------------
(***************************************************************************)
(* Theorems about RemoteStore, for any number of clients, any keys and     *)
(* values and any number of pairs, with connections that break and a       *)
(* server that may die at any moment.                                      *)
(***************************************************************************)
EXTENDS RemoteStore, TLAPS

-----------------------------------------------------------------------------
(* The initial state.                                                      *)

LEMMA InitInv == Init => IInv
<1> SUFFICES ASSUME Init PROVE IInv
  OBVIOUS
<1>1. TypeOK
  <2>1. 0 \in 0..MaxPuts
    BY RemoteAssumption
  <2>2. /\ values \in [Keys -> Maybe]
        /\ shown \in [Clients -> [Keys -> Maybe]]
        /\ since \in [Clients -> [Keys -> SUBSET Values]]
    BY DEF Init, Maybe
  <2> QED
    BY <2>1, <2>2 DEF Init, TypeOK
<1>2. ASSUME NEW c \in Clients PROVE InvFor(c)
  <2>1. Coming(c) = {}
    BY <1>2 DEF Init, Coming
  <2>2. CallFor(c)
    BY <1>2, <2>1 DEF Init, CallFor, Awaiting
  <2>3. PutsFor(c) /\ KeysFor(c) /\ ShownFor(c)
    BY <1>2, <2>1 DEF Init, PutsFor, KeysFor, ShownFor, Sound
  <2> QED
    BY <2>2, <2>3 DEF InvFor
<1> QED
  BY <1>1, <1>2 DEF IInv

-----------------------------------------------------------------------------
(* A client that a step leaves alone.                                      *)

\* The step changes nothing of client c and its connection.
Unmoved(c) ==
    /\ thread'[c] = thread[c] /\ reply'[c] = reply[c]
    /\ link'[c] = link[c] /\ inbox'[c] = inbox[c] /\ outbox'[c] = outbox[c]
    /\ pc'[c] = pc[c] /\ connected'[c] = connected[c] /\ asked'[c] = asked[c]
    /\ toGet'[c] = toGet[c] /\ shown'[c] = shown[c] /\ warned'[c] = warned[c]
    /\ added'[c] = added[c] /\ applied'[c] = applied[c] /\ mine'[c] = mine[c]

\* The server lives on: keys stay, unless one is deleted, and the record grows.
Later(c) ==
    /\ up' = up
    /\ \A k \in Keys : since[c][k] \subseteq since'[c][k]
    /\ ~deleted' => ~deleted /\ Present \subseteq Present'

LEMMA UnmovedKeeps ==
    ASSUME TypeOK, NEW c \in Clients, InvFor(c), Unmoved(c), Later(c)
    PROVE  InvFor(c)'
<1> USE DEF Unmoved, Later
<1>1. Coming(c)' = Coming(c)
  BY DEF Coming
<1>2. \A m : Answers(c, m) /\ pc[c] \in Awaiting /\ CallFor(c) => Answers(c, m)'
  <2> SUFFICES ASSUME NEW m, Answers(c, m), CallFor(c) PROVE Answers(c, m)'
    OBVIOUS
  <2>1. CASE pc[c] = "getting"
    <3>1. asked[c].key \in Keys
      BY <2>1 DEF CallFor
    <3>2. since[c][asked[c].key] \subseteq since'[c][asked[c].key]
      BY <3>1
    <3> QED
      BY <2>1, <3>2 DEF Answers
  <2>2. CASE pc[c] # "getting"
    BY <2>2 DEF Answers
  <2> QED
    BY <2>1, <2>2
<1>3. CallFor(c)'
  <2>1. CallFor(c)
    BY DEF InvFor
  <2> QED
    BY <1>1, <1>2, <2>1 DEF CallFor
<1>4. PutsFor(c)'
  BY <1>1 DEF InvFor, PutsFor, Sound
<1>5. ~deleted' => KeysFor(c)'
  BY <1>1 DEF InvFor, KeysFor, Sound
<1>6. ShownFor(c)'
  BY DEF InvFor, ShownFor
<1> QED
  BY <1>3, <1>4, <1>5, <1>6 DEF InvFor

\* The record of every client grows by what the map holds after the step.
LEMMA RecordGrows ==
    ASSUME TypeOK, Record, NEW c \in Clients
    PROVE  \A k \in Keys : /\ since[c][k] \subseteq since'[c][k]
                           /\ values'[k] \in Values => values'[k] \in since'[c][k]
  BY DEF TypeOK, Record

LEMMA OtherLeaves ==
    ASSUME TypeOK, NEW c \in Clients, NEW d \in Clients \ {c},
           ServerStep(d) \/ ProgramStep(d) \/ UserStep(d) \/ Break(d)
    PROVE  Unmoved(c) /\ Later(c)
<1> USE DEF TypeOK, server, network, program, ghosts, Unmoved, Later, Goto
<1>1. CASE handleRequest(d)
  <2>1. Unmoved(c) /\ up' = up /\ deleted' = deleted
    BY <1>1 DEF handleRequest, handlePutRequest, handleGetRequest, handleKeysRequest
  <2>2. Present \subseteq Present'
    <3>1. CASE values' = values
      BY <3>1 DEF Present
    <3>2. CASE handlePutRequest(d, inbox[d])
      <4>1. inbox[d] \in Requests
        BY <1>1 DEF handleRequest
      <4>2. inbox[d].key \in Keys /\ inbox[d].value \in Values
        BY <3>2, <4>1 DEF handlePutRequest, Requests
      <4> QED
        BY <3>2, <4>2, RemoteAssumption DEF handlePutRequest, Assigned, Present
    <3> QED
      BY <1>1, <3>1, <3>2 DEF handleRequest, handleGetRequest, handleKeysRequest
  <2> QED
    BY <1>1, <2>1, <2>2, RecordGrows DEF handleRequest
<1>2. CASE sendResponse(d) \/ endThread(d)
  BY <1>2 DEF sendResponse, endThread, Present
<1>3. CASE Break(d)
  BY <1>3 DEF Break, Present
<1>4. CASE Start(d) \/ ChooseAdd(d) \/ Exit(d)
  BY <1>4 DEF Start, ChooseAdd, Exit, Present
<1>5. CASE FinishAdding(d) \/ \E k \in Keys, v \in Values : put(d, k, v)
  BY <1>5 DEF FinishAdding, put, sendRequest, Refuse, Present
<1>6. CASE ChoosePrint(d)
  BY <1>6 DEF ChoosePrint, sendRequest, Present
<1>7. CASE ReceivePut(d) \/ ReceiveList(d) \/ ReceiveKeys(d) \/ ReceiveValue(d)
  BY <1>7 DEF ReceivePut, ReceiveList, ReceiveKeys, ReceiveValue, Take, Warn, Present
<1>8. CASE LosePut(d) \/ LoseKeys(d) \/ LoseValue(d)
  BY <1>8 DEF LosePut, LoseKeys, LoseValue, Lose, Warn, Present
<1>9. CASE \E k \in Keys : get(d, k) \/ getFails(d, k)
  BY <1>9 DEF get, getFails, sendRequest, Refuse, Warn, Present
<1> QED
  BY <1>1, <1>2, <1>3, <1>4, <1>5, <1>6, <1>7, <1>8, <1>9
  DEF ServerStep, UserStep, ProgramStep

LEMMA OthersLeave ==
    ASSUME TypeOK, NEW c \in Clients, NEW k \in Keys,
           handleDeleteRequest(k) \/ \E v \in Values : OtherPuts(k, v)
    PROVE  Unmoved(c) /\ Later(c)
<1> USE DEF TypeOK, server, network, program, ghosts, Unmoved, Later
<1>1. CASE handleDeleteRequest(k)
  BY <1>1, RecordGrows DEF handleDeleteRequest
<1>2. ASSUME NEW v \in Values, OtherPuts(k, v)
      PROVE  Unmoved(c) /\ Later(c)
  <2>1. Present \subseteq Present'
    BY <1>2, RemoteAssumption DEF OtherPuts, Assigned, Present
  <2> QED
    BY <1>2, <2>1, RecordGrows DEF OtherPuts
<1> QED
  BY <1>1, <1>2

-----------------------------------------------------------------------------
(* Type correctness.                                                       *)

LEMMA RequestKinds ==
    ASSUME NEW r \in Requests
    PROVE  /\ r.op = "put" => r.key \in Keys /\ r.value \in Values
           /\ r.op = "get" => r.key \in Keys
  BY DEF Requests

LEMMA ReplyTypes ==
    /\ Ok \in Replies /\ NotFound \in Replies
    /\ \A v \in Values : [kind |-> "value", value |-> v] \in Replies
    /\ \A ks \in SUBSET Keys : [kind |-> "keys", keys |-> ks] \in Replies
  BY DEF Replies

LEMMA ValueReplied ==
    ASSUME NEW m \in Replies, m.kind = "value"
    PROVE  m.value \in Values
<1>1. m \in [kind : {"value"}, value : Values]
  <2>1. Ok.kind = "ok" /\ NotFound.kind = "not found"
    BY DEF Ok, NotFound
  <2>2. \A r \in [kind : {"keys"}, keys : SUBSET Keys] : r.kind = "keys"
    OBVIOUS
  <2> QED
    BY <2>1, <2>2 DEF Replies
<1> QED
  BY <1>1

LEMMA RecordType ==
    ASSUME TypeOK, Record
    PROVE  since' \in [Clients -> [Keys -> SUBSET Values]]
  BY DEF TypeOK, Record

LEMMA HandleType ==
    ASSUME TypeOK, NEW c \in Clients, CallFor(c), PutsFor(c), handleRequest(c)
    PROVE  TypeOK'
<1>1. inbox[c] \in Requests /\ NoMessage \notin Requests
  BY RemoteAssumption DEF TypeOK, handleRequest
<1>2. /\ values' \in [Keys -> Maybe]
      /\ reply' \in [Clients -> Replies \cup {NoMessage}]
      /\ applied' \in [Clients -> 0..MaxPuts]
  <2>1. CASE handlePutRequest(c, inbox[c])
    <3>1. applied[c] + 1 \in 0..MaxPuts
      BY <1>1, <2>1, RemoteAssumption DEF handleRequest, handlePutRequest, PutsFor, TypeOK
    <3>2. inbox[c].key \in Keys /\ inbox[c].value \in Maybe
      BY <1>1, <2>1, RequestKinds DEF handlePutRequest, Maybe
    <3> QED
      BY <2>1, <3>1, <3>2, ReplyTypes DEF handlePutRequest, Assigned, TypeOK
  <2>2. CASE handleGetRequest(c, inbox[c])
    <3>1. inbox[c].key \in Keys
      BY <1>1, <2>2, RequestKinds DEF handleGetRequest
    <3>2. values[inbox[c].key] # NoValue => values[inbox[c].key] \in Values
      BY <3>1 DEF TypeOK, Maybe
    <3> QED
      BY <2>2, <3>2, ReplyTypes DEF handleGetRequest, TypeOK
  <2>3. CASE handleKeysRequest(c, inbox[c])
    <3>1. Present \in SUBSET Keys
      BY DEF Present
    <3> QED
      BY <2>3, <3>1, ReplyTypes DEF handleKeysRequest, TypeOK
  <2> QED
    BY <2>1, <2>2, <2>3 DEF handleRequest
<1>3. since' \in [Clients -> [Keys -> SUBSET Values]]
  BY RecordType DEF handleRequest
<1> QED
  BY <1>2, <1>3 DEF handleRequest, TypeOK, program

LEMMA TypeStep == IInv /\ [Next]_vars => TypeOK'
<1> SUFFICES ASSUME IInv, [Next]_vars PROVE TypeOK'
  OBVIOUS
<1>0. /\ TypeOK /\ MaxPuts \in Nat
      /\ \A c \in Clients : CallFor(c) /\ PutsFor(c)
  BY RemoteAssumption DEF IInv, InvFor
<1> USE <1>0 DEF TypeOK, server, network, program, ghosts, Goto
<1>1. ASSUME NEW c \in Clients, ServerStep(c) PROVE TypeOK'
  <2>1. CASE sendResponse(c)
    BY <2>1 DEF sendResponse
  <2>2. CASE endThread(c)
    BY <2>2 DEF endThread
  <2> QED
    BY <1>1, <2>1, <2>2, HandleType DEF ServerStep
<1>2. ASSUME NEW c \in Clients, Break(c) PROVE TypeOK'
  BY <1>2 DEF Break
<1>3. ASSUME NEW c \in Clients, UserStep(c) PROVE TypeOK'
  <2>1. CASE Start(c)
    BY <2>1 DEF Start
  <2>2. CASE ChooseAdd(c) \/ Exit(c)
    BY <2>2 DEF ChooseAdd, Exit
  <2>3. CASE FinishAdding(c)
    <3>1. [op |-> "keys"] \in Requests
      BY DEF Requests
    <3>2. CASE sendRequest(c, [op |-> "keys"], "listing")
      BY <2>3, <3>1, <3>2 DEF FinishAdding, sendRequest, Awaiting
    <3>3. CASE Refuse(c, "menu")
      BY <2>3, <3>3 DEF FinishAdding, Refuse
    <3> QED
      BY <2>3, <3>2, <3>3 DEF FinishAdding
  <2>4. CASE ChoosePrint(c)
    <3>1. [op |-> "keys"] \in Requests
      BY DEF Requests
    <3>2. since' \in [Clients -> [Keys -> SUBSET Values]]
      BY <2>4 DEF ChoosePrint
    <3>3. shown' \in [Clients -> [Keys -> Maybe]]
      BY <2>4 DEF ChoosePrint, Maybe
    <3>4. warned' \in [Clients -> SUBSET Keys]
      BY <2>4 DEF ChoosePrint
    <3> QED
      BY <2>4, <3>1, <3>2, <3>3, <3>4 DEF ChoosePrint, sendRequest, Awaiting
  <2>5. ASSUME NEW k \in Keys, NEW v \in Values, put(c, k, v)
        PROVE  TypeOK'
    <3>1. [op |-> "put", key |-> k, value |-> v] \in Requests
      BY DEF Requests
    <3> QED
      BY <2>5, <3>1 DEF put, sendRequest, Awaiting
  <2> QED
    BY <1>3, <2>1, <2>2, <2>3, <2>4, <2>5 DEF UserStep
<1>4. ASSUME NEW c \in Clients, ProgramStep(c) PROVE TypeOK'
  <2>1. CASE ReceivePut(c)
    <3>1. asked[c].key \in Keys
      BY <2>1 DEF ReceivePut, Take, CallFor
    <3>2. added[c] + 1 \in 0..MaxPuts
      BY <2>1 DEF ReceivePut, Take, PutsFor
    <3>3. added' \in [Clients -> 0..MaxPuts] /\ mine' \in [Clients -> SUBSET Keys]
      <4>1. /\ [added EXCEPT ![c] = @ + 1] \in [Clients -> 0..MaxPuts]
            /\ [mine EXCEPT ![c] = @ \cup {asked[c].key}] \in [Clients -> SUBSET Keys]
        BY <3>1, <3>2
      <4> QED
        BY <2>1, <4>1 DEF ReceivePut
    <3> QED
      BY <2>1, <3>3 DEF ReceivePut, Take
  <2>2. CASE ReceiveList(c)
    BY <2>2 DEF ReceiveList, Take
  <2>3. CASE ReceiveKeys(c)
    <3>1. outbox[c].keys \in SUBSET Keys
      BY <2>3 DEF ReceiveKeys, Take, CallFor, Coming, Answers, Awaiting
    <3> QED
      BY <2>3, <3>1 DEF ReceiveKeys, Take, Onward
  <2>4. CASE ReceiveValue(c)
    <3>1. asked[c].key \in Keys
      BY <2>4 DEF ReceiveValue, Take, CallFor
    <3>2. outbox[c] \in Replies
      BY <2>4 DEF ReceiveValue, Take
    <3>3. outbox[c].kind = "value" => outbox[c].value \in Maybe
      BY <3>2, ValueReplied DEF Maybe
    <3>4. warned' \in [Clients -> SUBSET Keys]
      <4>1. [warned EXCEPT ![c] = @ \cup {asked[c].key}] \in [Clients -> SUBSET Keys]
        BY <3>1
      <4>2. UNCHANGED warned \/ Warn(c, asked[c].key)
        BY <2>4 DEF ReceiveValue
      <4> QED
        BY <4>1, <4>2 DEF Warn
    <3>5. shown' \in [Clients -> [Keys -> Maybe]]
      <4>1. CASE outbox[c].kind = "value"
        <5>1. [shown[c] EXCEPT ![asked[c].key] = outbox[c].value] \in [Keys -> Maybe]
          BY <3>1, <3>3, <4>1
        <5> QED
          BY <2>4, <4>1, <5>1 DEF ReceiveValue
      <4>2. CASE outbox[c].kind # "value"
        BY <2>4, <4>2 DEF ReceiveValue
      <4> QED
        BY <4>1, <4>2
    <3> QED
      BY <2>4, <3>4, <3>5 DEF ReceiveValue, Take, Onward
  <2>5. CASE LosePut(c) \/ LoseKeys(c)
    BY <2>5 DEF LosePut, LoseKeys, Lose
  <2>6. CASE LoseValue(c)
    <3>1. asked[c].key \in Keys
      BY <2>6 DEF LoseValue, Lose, CallFor
    <3> QED
      BY <2>6, <3>1 DEF LoseValue, Lose, Onward, Warn
  <2>7. ASSUME NEW k \in Keys, get(c, k) \/ getFails(c, k)
        PROVE  TypeOK'
    <3>1. [op |-> "get", key |-> k] \in Requests
      BY DEF Requests
    <3>2. CASE get(c, k)
      BY <3>1, <3>2 DEF get, sendRequest, Awaiting
    <3>3. CASE getFails(c, k)
      BY <3>3 DEF getFails, Refuse, Warn, Onward
    <3> QED
      BY <2>7, <3>2, <3>3
  <2> QED
    BY <1>4, <2>1, <2>2, <2>3, <2>4, <2>5, <2>6, <2>7 DEF ProgramStep
<1>5. ASSUME NEW k \in Keys, handleDeleteRequest(k) \/ \E v \in Values : OtherPuts(k, v)
      PROVE  TypeOK'
  <2>1. values' \in [Keys -> Maybe]
    BY <1>5 DEF handleDeleteRequest, OtherPuts, Assigned, Maybe
  <2>2. since' \in [Clients -> [Keys -> SUBSET Values]]
    BY <1>5, RecordType DEF handleDeleteRequest, OtherPuts
  <2> QED
    BY <1>5, <2>1, <2>2 DEF handleDeleteRequest, OtherPuts
<1>6. CASE Crash
  <2>1. values' \in [Keys -> Maybe]
    BY <1>6 DEF Crash, Maybe
  <2> QED
    BY <1>6, <2>1 DEF Crash
<1>7. CASE UNCHANGED vars
  BY <1>7 DEF vars
<1> QED
  BY <1>1, <1>2, <1>3, <1>4, <1>5, <1>6, <1>7 DEF Next

-----------------------------------------------------------------------------
(* The steps of client c and of the thread that serves it.                 *)

\* A connected program that is not in a call has nothing on its connection.
LEMMA IdleConnection ==
    ASSUME NEW c \in Clients, CallFor(c), pc[c] \notin Awaiting
    PROVE  /\ connected[c] => inbox[c] = NoMessage /\ reply[c] = NoMessage
           /\ outbox[c] = NoMessage
  BY DEF CallFor, Coming

\* When a response has arrived nothing else is on the connection.
LEMMA OnlyResponse ==
    ASSUME NEW c \in Clients, CallFor(c), outbox[c] # NoMessage
    PROVE  /\ connected[c] /\ inbox[c] = NoMessage /\ reply[c] = NoMessage
           /\ Coming(c) = {outbox[c]} /\ pc[c] \in Awaiting /\ Answers(c, outbox[c])
  BY DEF CallFor, Coming

\* What the steps of the programs leave alone.
LEMMA Untouched ==
    ASSUME NEW c \in Clients,
           ProgramStep(c) \/ ChooseAdd(c) \/ Exit(c) \/ FinishAdding(c)
           \/ \E k \in Keys, v \in Values : put(c, k, v)
    PROVE  /\ UNCHANGED <<values, up, thread, reply, since, deleted, applied>>
           /\ Present' = Present
<1>1. UNCHANGED <<values, up, thread, reply, since, deleted, applied>>
  BY DEF ProgramStep, ReceivePut, ReceiveList, ReceiveKeys, ReceiveValue, Take,
         LosePut, LoseKeys, LoseValue, Lose, get, getFails, sendRequest, Refuse,
         ChooseAdd, Exit, FinishAdding, put, server, network, ghosts
<1> QED
  BY <1>1 DEF Present

\* The parts of the invariant, and the types they use.
LEMMA PartsFor ==
    ASSUME TypeOK, NEW c \in Clients, InvFor(c)
    PROVE  /\ CallFor(c) /\ PutsFor(c) /\ (~deleted => KeysFor(c)) /\ ShownFor(c)
           /\ added[c] \in Nat /\ applied[c] \in Nat
           /\ connected[c] \in BOOLEAN /\ link[c] \in BOOLEAN /\ up \in BOOLEAN
           /\ inbox[c] \in Requests \cup {NoMessage}
           /\ reply[c] \in Replies \cup {NoMessage}
           /\ outbox[c] \in Replies \cup {NoMessage}
           /\ NoMessage \notin Requests /\ NoMessage \notin Replies
  BY RemoteAssumption DEF InvFor, TypeOK

LEMMA StartKeeps ==
    ASSUME TypeOK, NEW c \in Clients, InvFor(c), Start(c)
    PROVE  InvFor(c)'
<1>0. /\ CallFor(c) /\ PutsFor(c) /\ (~deleted => KeysFor(c)) /\ ShownFor(c)
      /\ up \in BOOLEAN
  BY PartsFor
<1>1. /\ pc[c] = "start" /\ ~connected[c] /\ inbox[c] = NoMessage
      /\ reply[c] = NoMessage /\ outbox[c] = NoMessage
      /\ UNCHANGED <<values, up, reply, inbox, outbox, toGet, shown, warned, added,
                     applied, mine, since, deleted>>
      /\ connected'[c] = up /\ link'[c] = up /\ pc'[c] \in {"menu", "exited"}
      /\ (pc'[c] = "exited") <=> ~up
      /\ thread'[c] = IF up THEN "serving" ELSE "gone"
  BY <1>0 DEF Start, CallFor, TypeOK, ghosts, Goto
<1>2. Coming(c) = {} /\ Coming(c)' = {} /\ Present' = Present
  BY <1>1 DEF Coming, Present
<1>3. CallFor(c)'
  BY <1>0, <1>1, <1>2 DEF CallFor, Awaiting
<1>4. PutsFor(c)' /\ ShownFor(c)'
  BY <1>0, <1>1, <1>2 DEF PutsFor, ShownFor, Sound
<1>5. ~deleted' => KeysFor(c)'
  BY <1>0, <1>1, <1>2 DEF KeysFor, Sound
<1> QED
  BY <1>3, <1>4, <1>5 DEF InvFor

\* The program sends a request: it was in no call, and is in one now.
LEMMA CallBegins ==
    ASSUME TypeOK, NEW c \in Clients, InvFor(c), NEW r \in Requests, NEW place \in Awaiting,
           sendRequest(c, r, place), pc[c] \notin Awaiting
    PROVE  /\ connected[c] /\ connected'[c] /\ pc[c] # "start"
           /\ pc'[c] = place /\ asked'[c] = r
           /\ inbox'[c] \in {r, NoMessage}
           /\ Coming(c) = {} /\ Coming(c)' = {}
           /\ UNCHANGED <<values, up, thread, reply, link, outbox, connected>>
           /\ Present' = Present
<1>1. /\ connected[c] /\ pc'[c] = place /\ asked'[c] = r
      /\ inbox'[c] = IF link[c] THEN r ELSE inbox[c]
      /\ UNCHANGED <<values, up, thread, reply, link, outbox, connected>>
  BY DEF sendRequest, Goto, TypeOK, server
<1>2. inbox[c] = NoMessage /\ reply[c] = NoMessage /\ outbox[c] = NoMessage /\ pc[c] # "start"
  BY <1>1, PartsFor, IdleConnection DEF CallFor
<1> QED
  BY <1>1, <1>2 DEF Coming, Present

\* The invariant after a call has begun.
LEMMA BegunKeeps ==
    ASSUME TypeOK, NEW c \in Clients, InvFor(c), NEW r \in Requests, NEW place \in Awaiting,
           sendRequest(c, r, place), pc[c] \notin Awaiting,
           UNCHANGED <<added, applied, mine, deleted>>,
           \/ place = "putting" /\ r.op = "put" /\ added[c] < MaxPuts
                                /\ r \in [op : {"put"}, key : Keys, value : Values]
           \/ place \in {"listing", "fetching"} /\ r = [op |-> "keys"]
           \/ place = "getting" /\ r \in [op : {"get"}, key : Keys]
                                /\ r.key \in toGet[c],
           toGet'[c] \subseteq toGet[c], warned'[c] \subseteq warned[c],
           ShownFor(c)'
    PROVE  InvFor(c)'
<1>0. /\ CallFor(c) /\ PutsFor(c) /\ (~deleted => KeysFor(c))
      /\ added[c] \in Nat /\ applied[c] \in Nat
      /\ NoMessage \notin Requests
  BY PartsFor
<1>1. /\ connected[c] /\ connected'[c] /\ pc[c] # "start"
      /\ pc'[c] = place /\ asked'[c] = r
      /\ inbox'[c] \in {r, NoMessage}
      /\ Coming(c) = {} /\ Coming(c)' = {}
      /\ UNCHANGED <<values, up, thread, reply, link, outbox, connected>>
      /\ Present' = Present
  BY CallBegins
<1>2. inbox'[c] # NoMessage => link[c]
  <2>1. inbox'[c] = IF link[c] THEN r ELSE inbox[c]
    BY DEF sendRequest, TypeOK
  <2> QED
    BY <1>0, <1>1, <2>1, IdleConnection
<1>3. CallFor(c)'
  BY <1>0, <1>1, <1>2 DEF CallFor, Awaiting
<1>4. PutsFor(c)'
  <2>1. applied[c] = added[c]
    BY <1>0, <1>1 DEF PutsFor, Sound, Awaiting
  <2>2. place = "putting" \/ r.op = "put" => added[c] < MaxPuts
    BY RequestKinds
  <2>3. applied'[c] = applied[c] /\ added'[c] = added[c]
    OBVIOUS
  <2>4. inbox'[c] # NoMessage => inbox'[c] = r
    BY <1>1
  <2> QED
    BY <1>0, <1>1, <2>1, <2>2, <2>3, <2>4 DEF PutsFor, Sound
<1>5. ~deleted' => KeysFor(c)'
  BY <1>0, <1>1 DEF KeysFor, Sound
<1> QED
  BY <1>3, <1>4, <1>5 DEF InvFor

\* The program moves on without a call, with or without a connection.
LEMMA MenuKeeps ==
    ASSUME TypeOK, NEW c \in Clients, InvFor(c), pc[c] \notin Awaiting, pc[c] # "start",
           UNCHANGED <<server, network, connected, added, shown, ghosts>>,
           pc'[c] \in {"menu", "typing", "printing"},
           pc[c] # "exited",
           toGet'[c] \subseteq toGet[c],
           connected[c] => warned'[c] = warned[c]
    PROVE  InvFor(c)'
<1>0. /\ CallFor(c) /\ PutsFor(c) /\ (~deleted => KeysFor(c)) /\ ShownFor(c)
  BY PartsFor
<1>1. Coming(c)' = Coming(c) /\ Present' = Present
  BY DEF Coming, Present, server, network
<1> USE DEF server, network, ghosts
<1>3. CallFor(c)'
  BY <1>0, <1>1 DEF CallFor, Awaiting
<1>4. PutsFor(c)' /\ ShownFor(c)'
  BY <1>0, <1>1 DEF PutsFor, ShownFor, Sound, Awaiting
<1>5. ~deleted' => KeysFor(c)'
  BY <1>0, <1>1 DEF KeysFor, Sound, Awaiting
<1> QED
  BY <1>3, <1>4, <1>5 DEF InvFor

LEMMA ExitKeeps ==
    ASSUME TypeOK, NEW c \in Clients, InvFor(c), Exit(c)
    PROVE  InvFor(c)'
<1>0. CallFor(c) /\ PutsFor(c) /\ (~deleted => KeysFor(c)) /\ ShownFor(c)
  BY PartsFor
<1>1. /\ pc[c] = "menu" /\ pc'[c] = "exited" /\ ~connected'[c] /\ ~link'[c]
      /\ UNCHANGED <<values, up, thread, reply, inbox, outbox, asked, toGet, shown, warned,
                     added, applied, mine, since, deleted>>
  BY DEF Exit, TypeOK, server, ghosts, Goto
<1>2. Coming(c)' = Coming(c) /\ Present' = Present /\ outbox[c] = NoMessage
  BY <1>0, <1>1, IdleConnection DEF Coming, Present, Awaiting
<1>3. CallFor(c)'
  BY <1>0, <1>1, <1>2 DEF CallFor, Awaiting
<1>4. PutsFor(c)' /\ ShownFor(c)'
  BY <1>0, <1>1, <1>2 DEF PutsFor, ShownFor, Sound
<1>5. ~deleted' => KeysFor(c)'
  BY <1>0, <1>1, <1>2 DEF KeysFor, Sound
<1> QED
  BY <1>3, <1>4, <1>5 DEF InvFor

\* The program takes a response: the call is over and the connection is empty.
LEMMA Taken ==
    ASSUME TypeOK, NEW c \in Clients, InvFor(c), NEW place, Take(c, place)
    PROVE  /\ pc[c] = place /\ connected[c] /\ connected'[c]
           /\ outbox[c] \in Coming(c) /\ Answers(c, outbox[c])
           /\ Coming(c)' = {} /\ Present' = Present
           /\ inbox'[c] = NoMessage /\ reply'[c] = NoMessage /\ outbox'[c] = NoMessage
           /\ UNCHANGED <<values, up, thread, reply, link, inbox, connected>>
<1>1. /\ pc[c] = place /\ outbox[c] # NoMessage /\ outbox'[c] = NoMessage
      /\ UNCHANGED <<values, up, thread, reply, link, inbox, connected>>
  BY DEF Take, TypeOK, server
<1> QED
  BY <1>1, PartsFor, OnlyResponse DEF Coming, Present

LEMMA TakenCall ==
    ASSUME TypeOK, NEW c \in Clients, InvFor(c), NEW place, Take(c, place),
           pc'[c] \in {"menu", "typing", "printing"}
    PROVE  CallFor(c)'
  BY PartsFor, Taken DEF CallFor, Awaiting

LEMMA ReceivePutKeeps ==
    ASSUME TypeOK, NEW c \in Clients, InvFor(c), ReceivePut(c)
    PROVE  InvFor(c)'
<1>0. /\ CallFor(c) /\ PutsFor(c) /\ (~deleted => KeysFor(c)) /\ ShownFor(c)
      /\ added[c] \in Nat /\ applied[c] \in Nat
  BY PartsFor
<1>1. /\ Take(c, "putting") /\ pc'[c] = "typing"
      /\ UNCHANGED <<toGet, shown, warned, applied, since, deleted>>
  BY DEF ReceivePut, Goto, TypeOK
<1>2. /\ pc[c] = "putting" /\ connected[c] /\ connected'[c]
      /\ Coming(c) # {} /\ outbox[c] = Ok /\ Coming(c)' = {} /\ Present' = Present
      /\ inbox'[c] = NoMessage /\ up' = up
  BY <1>1, Taken DEF Answers
<1>3. /\ added'[c] = added[c] + 1
      /\ mine'[c] = mine[c] \cup {asked[c].key}
  BY <1>2 DEF ReceivePut, TypeOK
<1>4. CallFor(c)'
  BY <1>1, TakenCall
<1>5. PutsFor(c)'
  <2>1. applied[c] = added[c] + 1
    BY <1>0, <1>2 DEF PutsFor
  <2> QED
    BY <1>0, <1>1, <1>2, <1>3, <2>1 DEF PutsFor, Sound
<1>6. ~deleted' => KeysFor(c)'
  BY <1>0, <1>1, <1>2, <1>3 DEF KeysFor, Sound
<1>7. ShownFor(c)'
  BY <1>0, <1>1 DEF ShownFor
<1> QED
  BY <1>4, <1>5, <1>6, <1>7 DEF InvFor

LEMMA ReceiveKeysKeeps ==
    ASSUME TypeOK, NEW c \in Clients, InvFor(c), ReceiveList(c) \/ ReceiveKeys(c)
    PROVE  InvFor(c)'
<1>0. /\ CallFor(c) /\ PutsFor(c) /\ (~deleted => KeysFor(c)) /\ ShownFor(c)
  BY PartsFor
<1>1. PICK place \in {"listing", "fetching"} :
        /\ Take(c, place) /\ pc'[c] \in {"menu", "printing"}
        /\ UNCHANGED <<shown, warned, added, applied, mine, since, deleted>>
        /\ toGet'[c] = toGet[c] \/ (place = "fetching" /\ toGet'[c] = outbox[c].keys)
  BY DEF ReceiveList, ReceiveKeys, Onward, Goto, TypeOK, ghosts
<1>2. /\ pc[c] = place /\ connected[c] /\ connected'[c]
      /\ outbox[c] \in Coming(c) /\ Coming(c)' = {} /\ Present' = Present
      /\ inbox'[c] = NoMessage /\ up' = up
  BY <1>1, Taken
<1>3. CallFor(c)'
  BY <1>1, TakenCall
<1>4. PutsFor(c)' /\ ShownFor(c)'
  BY <1>0, <1>1, <1>2 DEF PutsFor, ShownFor, Sound
<1>5. ~deleted' => KeysFor(c)'
  BY <1>0, <1>1, <1>2 DEF KeysFor, Sound
<1> QED
  BY <1>3, <1>4, <1>5 DEF InvFor

LEMMA ReceiveValueKeeps ==
    ASSUME TypeOK, NEW c \in Clients, InvFor(c), ReceiveValue(c)
    PROVE  InvFor(c)'
<1>0. /\ CallFor(c) /\ PutsFor(c) /\ (~deleted => KeysFor(c)) /\ ShownFor(c)
  BY PartsFor
<1>1. /\ Take(c, "getting") /\ pc'[c] \in {"menu", "printing"}
      /\ UNCHANGED <<toGet, added, applied, mine, since, deleted>>
  BY DEF ReceiveValue, Onward, Goto, TypeOK, ghosts
<1>2. /\ pc[c] = "getting" /\ connected[c] /\ connected'[c] /\ Answers(c, outbox[c])
      /\ outbox[c] \in Coming(c) /\ Coming(c)' = {} /\ Present' = Present
      /\ inbox'[c] = NoMessage /\ up' = up
  BY <1>1, Taken
<1>3. asked[c].key \in Keys
  BY <1>0, <1>2 DEF CallFor
<1>4. CASE outbox[c] = NotFound
  <2>1. NotFound.kind = "not found"
    BY DEF NotFound
  <2>2. UNCHANGED shown
    BY <1>4, <2>1 DEF ReceiveValue
  <2>3. deleted
    BY <1>0, <1>2, <1>4 DEF KeysFor, Sound
  <2>4. ShownFor(c)'
    BY <1>0, <1>1, <2>2 DEF ShownFor
  <2>5. PutsFor(c)'
    BY <1>0, <1>1, <1>2 DEF PutsFor, Sound
  <2> QED
    BY <1>1, <2>3, <2>4, <2>5, TakenCall DEF InvFor
<1>5. CASE outbox[c] \in [kind : {"value"}, value : since[c][asked[c].key]]
  <2>1. outbox[c].kind = "value" /\ outbox[c].value \in since[c][asked[c].key]
    BY <1>5
  <2>2. shown' = [shown EXCEPT ![c][asked[c].key] = outbox[c].value] /\ UNCHANGED warned
    BY <2>1 DEF ReceiveValue
  <2>3. ShownFor(c)'
    BY <1>0, <1>1, <1>3, <2>1, <2>2 DEF ShownFor, TypeOK
  <2>4. PutsFor(c)'
    BY <1>0, <1>1, <1>2 DEF PutsFor, Sound
  <2>5. ~deleted' => KeysFor(c)'
    BY <1>0, <1>1, <1>2, <2>2 DEF KeysFor, Sound
  <2> QED
    BY <1>1, <2>3, <2>4, <2>5, TakenCall DEF InvFor
<1> QED
  BY <1>2, <1>4, <1>5 DEF Answers

LEMMA LoseKeeps ==
    ASSUME TypeOK, NEW c \in Clients, InvFor(c), LosePut(c) \/ LoseKeys(c) \/ LoseValue(c)
    PROVE  InvFor(c)'
<1>0. /\ CallFor(c) /\ PutsFor(c) /\ (~deleted => KeysFor(c)) /\ ShownFor(c)
  BY PartsFor
<1>1. /\ pc[c] \in Awaiting /\ ~link[c] /\ outbox[c] = NoMessage /\ ~connected'[c]
      /\ pc'[c] \in {"typing", "menu", "printing"}
      /\ UNCHANGED <<values, up, thread, reply, link, inbox, outbox, toGet, shown, added,
                     applied, mine, since, deleted>>
  BY DEF LosePut, LoseKeys, LoseValue, Lose, Onward, Goto, TypeOK, server, network, ghosts, Awaiting
<1>2. Coming(c)' = Coming(c) /\ Present' = Present /\ pc[c] # "start"
  BY <1>1 DEF Coming, Present, Awaiting
<1>3. CallFor(c)'
  BY <1>0, <1>1, <1>2 DEF CallFor, Awaiting
<1>4. PutsFor(c)' /\ ShownFor(c)'
  BY <1>0, <1>1, <1>2 DEF PutsFor, ShownFor, Sound
<1>5. ~deleted' => KeysFor(c)'
  BY <1>0, <1>1, <1>2 DEF KeysFor, Sound
<1> QED
  BY <1>3, <1>4, <1>5 DEF InvFor

\* A failure or the end of a thread: the programs have moved nowhere, and of what
\* was on the connection some is gone.
LEMMA FewerKeeps ==
    ASSUME TypeOK, NEW c \in Clients, InvFor(c),
           UNCHANGED <<pc, connected, asked, toGet, shown, warned, added,
                       applied, mine, since, deleted>>,
           up' => up /\ values' = values,
           inbox'[c] \in {inbox[c], NoMessage}, Coming(c)' \subseteq Coming(c),
           link'[c] => link[c] /\ up',
           ~up' => thread'[c] = "gone" /\ inbox'[c] = NoMessage,
           (thread'[c] = "replying") <=> (reply'[c] # NoMessage),
           reply'[c] = NoMessage \/ outbox'[c] = NoMessage,
           ~connected[c] => outbox'[c] = NoMessage,
           pc[c] = "start" => reply'[c] = NoMessage
    PROVE  InvFor(c)'
<1>0. CallFor(c) /\ PutsFor(c) /\ (~deleted => KeysFor(c)) /\ ShownFor(c)
  BY PartsFor
<1>1. up' => up /\ Present' = Present
  BY DEF Present
<1>2. \A m : Answers(c, m) => Answers(c, m)'
  BY DEF Answers
<1>3. CallFor(c)'
  BY <1>0, <1>2 DEF CallFor
<1>4. PutsFor(c)' /\ ShownFor(c)'
  BY <1>0 DEF PutsFor, ShownFor, Sound
<1>5. ~deleted' => KeysFor(c)'
  BY <1>0, <1>1 DEF KeysFor, Sound
<1> QED
  BY <1>3, <1>4, <1>5 DEF InvFor

LEMMA SendKeeps ==
    ASSUME TypeOK, NEW c \in Clients, InvFor(c), sendResponse(c) \/ endThread(c)
    PROVE  InvFor(c)'
<1>0. /\ CallFor(c) /\ link[c] \in BOOLEAN
      /\ reply[c] \in Replies \cup {NoMessage}
      /\ NoMessage \notin Replies
  BY PartsFor
<1>1. /\ UNCHANGED <<values, up, link, inbox, pc, connected, asked, toGet, shown, warned,
                     added, applied, mine, since, deleted>>
      /\ thread[c] \in {"serving", "replying"}
      /\ thread'[c] \in {"serving", "gone"} /\ reply'[c] = NoMessage
      /\ outbox'[c] = outbox[c]
         \/ (link[c] /\ reply[c] # NoMessage /\ outbox'[c] = reply[c])
  BY <1>0 DEF sendResponse, endThread, CallFor, TypeOK, network, program, ghosts
<1>2. Coming(c)' \subseteq Coming(c)
  BY <1>1 DEF Coming
<1>3. up /\ (~connected[c] => outbox'[c] = NoMessage)
  BY <1>0, <1>1 DEF CallFor
<1>4. link'[c] => link[c] /\ up'
  BY <1>1, <1>3
<1> QED
  BY <1>1, <1>2, <1>3, <1>4, FewerKeeps

LEMMA BreakKeeps ==
    ASSUME TypeOK, NEW c \in Clients, InvFor(c), Break(c)
    PROVE  InvFor(c)'
<1>0. CallFor(c)
  BY PartsFor
<1>1. /\ UNCHANGED <<values, up, thread, reply, pc, connected, asked, toGet, shown, warned,
                     added, applied, mine, since, deleted>>
      /\ ~link'[c] /\ up
      /\ inbox'[c] \in {inbox[c], NoMessage} /\ outbox'[c] \in {outbox[c], NoMessage}
  BY <1>0 DEF Break, CallFor, TypeOK, server, program, ghosts
<1>2. Coming(c)' \subseteq Coming(c)
  BY <1>1 DEF Coming
<1>3. /\ (thread'[c] = "replying") <=> (reply'[c] # NoMessage)
      /\ reply'[c] = NoMessage \/ outbox'[c] = NoMessage
      /\ ~connected[c] => outbox'[c] = NoMessage
      /\ pc[c] = "start" => reply'[c] = NoMessage
  BY <1>0, <1>1 DEF CallFor
<1> QED
  BY <1>1, <1>2, <1>3, FewerKeeps

LEMMA CrashKeeps ==
    ASSUME TypeOK, NEW c \in Clients, InvFor(c), Crash
    PROVE  InvFor(c)'
<1>0. CallFor(c)
  BY PartsFor
<1>1. /\ UNCHANGED <<pc, connected, asked, toGet, shown, warned, added,
                     applied, mine, since, deleted>>
      /\ ~up' /\ thread'[c] = "gone" /\ reply'[c] = NoMessage /\ ~link'[c]
      /\ inbox'[c] = NoMessage /\ outbox'[c] \in {outbox[c], NoMessage}
  BY DEF Crash, program, ghosts
<1>2. Coming(c)' \subseteq Coming(c)
  BY <1>1 DEF Coming
<1>3. ~connected[c] => outbox'[c] = NoMessage
  BY <1>0, <1>1 DEF CallFor
<1> QED
  BY <1>1, <1>2, <1>3, FewerKeeps

\* The handler answers the call whose request it has read, if that still stands.
LEMMA HandleKeeps ==
    ASSUME TypeOK, NEW c \in Clients, InvFor(c), handleRequest(c)
    PROVE  InvFor(c)'
<1> DEFINE r == inbox[c]
<1>0. /\ CallFor(c) /\ PutsFor(c) /\ (~deleted => KeysFor(c)) /\ ShownFor(c)
      /\ added[c] \in Nat /\ applied[c] \in Nat
      /\ NoMessage \notin Requests /\ NoMessage \notin Replies
      /\ up \in BOOLEAN
  BY PartsFor
<1>1. /\ r # NoMessage /\ r \in Requests /\ thread[c] = "serving"
      /\ inbox'[c] = NoMessage /\ thread'[c] = "replying"
      /\ UNCHANGED <<up, link, outbox, pc, connected, asked, toGet, shown, warned, added,
                     mine, deleted>>
  BY DEF handleRequest, TypeOK, program
<1>2. /\ up /\ pc[c] # "start" /\ reply[c] = NoMessage /\ outbox[c] = NoMessage
      /\ Coming(c) = {}
      /\ connected[c] => pc[c] \in Awaiting /\ asked[c] = r
  BY <1>0, <1>1 DEF CallFor, Coming
<1>3. \A k \in Keys : /\ since[c][k] \subseteq since'[c][k]
                      /\ values'[k] \in Values => values'[k] \in since'[c][k]
  BY RecordGrows DEF handleRequest
<1>4. ShownFor(c)'
  BY <1>0, <1>1, <1>3 DEF ShownFor
<1>5. ASSUME reply'[c] \in Replies,
             connected[c] => Answers(c, reply[c])',
             applied'[c] = applied[c] + (IF r.op = "put" THEN 1 ELSE 0),
             Present \subseteq Present',
             connected[c] /\ r.op = "put" => r.key \in Present',
             connected[c] /\ r.op = "keys" => reply'[c].keys = Present /\ Present' = Present,
             connected[c] /\ ~deleted => reply'[c] # NotFound
      PROVE  InvFor(c)'
  <2>1. Coming(c)' = {reply'[c]} /\ reply'[c] # NoMessage
    BY <1>0, <1>1, <1>2, <1>5 DEF Coming
  <2>2. /\ connected[c] => (pc[c] = "putting" <=> r.op = "put")
        /\ connected[c] /\ pc[c] \in {"listing", "fetching"} => r.op = "keys"
    BY <1>0, <1>2 DEF CallFor, Awaiting
  <2>3. CallFor(c)'
    BY <1>0, <1>1, <1>2, <1>5, <2>1 DEF CallFor
  <2>4. PutsFor(c)'
    <3>1. pc[c] = "putting" => connected[c]
      BY <1>0 DEF CallFor, Awaiting
    <3>2. CASE r.op = "put"
      <4>1. applied[c] = added[c] /\ applied'[c] = added[c] + 1
        BY <1>0, <1>1, <1>5, <3>2 DEF PutsFor
      <4>2. Sound(c) => pc[c] = "putting"
        BY <1>2, <2>2, <3>2 DEF Sound
      <4>3. pc[c] = "putting" => added[c] < MaxPuts
        BY <1>0 DEF PutsFor
      <4> QED
        BY <1>0, <1>1, <4>1, <4>2, <4>3 DEF PutsFor, Sound
    <3>3. CASE r.op # "put"
      <4>1. applied'[c] = applied[c] /\ pc[c] # "putting"
        BY <1>0, <1>5, <2>2, <3>1, <3>3
      <4> QED
        BY <1>0, <1>1, <4>1 DEF PutsFor, Sound
    <3> QED
      BY <3>2, <3>3
  <2>5. ~deleted' => KeysFor(c)'
    <3> SUFFICES ASSUME ~deleted PROVE KeysFor(c)'
      BY <1>1
    <3>1. KeysFor(c) /\ mine[c] \subseteq Present
      BY <1>0, <1>2 DEF KeysFor
    <3>2. Sound(c) => connected[c]
      BY <1>2 DEF Sound
    <3> QED
      BY <1>1, <1>2, <1>5, <2>1, <2>2, <3>1, <3>2 DEF KeysFor, Sound
  <2> QED
    BY <1>4, <2>3, <2>4, <2>5 DEF InvFor
<1>6. CASE handlePutRequest(c, r)
  <2>1. /\ r.op = "put" /\ values' = Assigned(r.key, r.value)
        /\ reply'[c] = Ok /\ applied'[c] = applied[c] + 1
    BY <1>6 DEF handlePutRequest, TypeOK
  <2>2. r.key \in Keys /\ r.value \in Values
    BY <1>1, <2>1, RequestKinds
  <2>3. Present \subseteq Present' /\ r.key \in Present'
    BY <2>1, <2>2, RemoteAssumption DEF Assigned, Present, TypeOK
  <2>4. connected[c] => Answers(c, reply[c])'
    BY <1>0, <1>1, <1>2, <2>1 DEF Answers, CallFor
  <2>5. Ok # NotFound /\ Ok \in Replies
    <3>1. Ok.kind = "ok" /\ NotFound.kind = "not found"
      BY DEF Ok, NotFound
    <3> QED
      BY <3>1, ReplyTypes
  <2> QED
    BY <1>5, <2>1, <2>3, <2>4, <2>5
<1>7. CASE handleGetRequest(c, r)
  <2>1. /\ r.op = "get" /\ UNCHANGED <<values, applied>> /\ Present' = Present
        /\ reply'[c] = IF values[r.key] = NoValue
                         THEN NotFound
                         ELSE [kind |-> "value", value |-> values[r.key]]
    BY <1>7 DEF handleGetRequest, TypeOK, Present
  <2>2. r.key \in Keys
    BY <1>1, <2>1, RequestKinds
  <2>3. values[r.key] # NoValue => values[r.key] \in Values /\ values[r.key] \in since'[c][r.key]
    BY <1>3, <2>1, <2>2 DEF TypeOK, Maybe
  <2>4. reply'[c] \in Replies
    BY <2>1, <2>3, ReplyTypes
  <2>5. connected[c] => Answers(c, reply[c])'
    BY <1>0, <1>1, <1>2, <2>1, <2>3 DEF Answers, CallFor
  <2>6. connected[c] /\ ~deleted => reply'[c] # NotFound
    <3> SUFFICES ASSUME connected[c], ~deleted PROVE reply'[c] # NotFound
      OBVIOUS
    <3>1. pc[c] = "getting" /\ asked[c].key \in Present
      BY <1>0, <1>2, <2>1 DEF CallFor, KeysFor, Sound, Awaiting
    <3>2. reply'[c] = [kind |-> "value", value |-> values[r.key]]
      BY <1>2, <2>1, <3>1 DEF Present
    <3>3. reply'[c].kind = "value" /\ NotFound.kind = "not found"
      BY <3>2 DEF NotFound
    <3> QED
      BY <3>3
  <2> QED
    BY <1>0, <1>5, <2>1, <2>4, <2>5, <2>6
<1>8. CASE handleKeysRequest(c, r)
  <2>1. /\ r.op = "keys" /\ UNCHANGED <<values, applied>> /\ Present' = Present
        /\ reply'[c] = [kind |-> "keys", keys |-> Present]
    BY <1>8 DEF handleKeysRequest, TypeOK, Present
  <2>2. reply'[c] \in [kind : {"keys"}, keys : SUBSET Keys]
    BY <2>1 DEF Present
  <2>3. connected[c] => Answers(c, reply[c])'
    BY <1>0, <1>1, <1>2, <2>1, <2>2 DEF Answers, CallFor
  <2>4. reply'[c] # NotFound /\ reply'[c].keys = Present
    <3>1. NotFound.kind = "not found"
      BY DEF NotFound
    <3>2. reply'[c].kind = "keys" /\ reply'[c].keys = Present
      BY <2>1
    <3> QED
      BY <3>1, <3>2
  <2>5. reply'[c] \in Replies
    BY <2>2 DEF Replies
  <2> QED
    BY <1>0, <1>5, <2>1, <2>3, <2>4, <2>5
<1> QED
  BY <1>6, <1>7, <1>8 DEF handleRequest

LEMMA OwnStep ==
    ASSUME TypeOK, NEW c \in Clients, InvFor(c),
           ServerStep(c) \/ ProgramStep(c) \/ UserStep(c) \/ Break(c)
    PROVE  InvFor(c)'
<1>0. /\ CallFor(c) /\ PutsFor(c) /\ ShownFor(c) /\ added[c] \in Nat
      /\ [op |-> "keys"] \in Requests
  BY PartsFor DEF Requests
<1>1. CASE FinishAdding(c)
  <2>1. /\ pc[c] = "typing" /\ UNCHANGED <<toGet, shown, warned, added, ghosts>>
        /\ \/ sendRequest(c, [op |-> "keys"], "listing")
           \/ Refuse(c, "menu")
    BY <1>1 DEF FinishAdding
  <2>2. ShownFor(c)'
    BY <1>0, <2>1 DEF ShownFor, ghosts
  <2>3. CASE sendRequest(c, [op |-> "keys"], "listing")
    BY <1>0, <2>1, <2>2, <2>3, BegunKeeps DEF Awaiting, ghosts
  <2>4. CASE Refuse(c, "menu")
    <3>1. pc'[c] = "menu" /\ UNCHANGED <<server, network, connected>>
      BY <2>4 DEF Refuse, Goto, TypeOK
    <3> QED
      BY <2>1, <3>1, MenuKeeps DEF Awaiting
  <2> QED
    BY <2>1, <2>3, <2>4
<1>2. CASE ChoosePrint(c)
  <2>1. /\ pc[c] = "menu" /\ sendRequest(c, [op |-> "keys"], "fetching")
        /\ toGet'[c] = toGet[c] /\ warned'[c] = {}
        /\ \A k \in Keys : shown'[c][k] = NoValue
        /\ UNCHANGED <<added, applied, mine, deleted>>
    BY <1>2 DEF ChoosePrint, TypeOK
  <2>2. ShownFor(c)'
    BY <2>1 DEF ShownFor
  <2> QED
    BY <1>0, <2>1, <2>2, BegunKeeps DEF Awaiting
<1>3. ASSUME NEW k \in Keys, NEW v \in Values, put(c, k, v)
      PROVE  InvFor(c)'
  <2> DEFINE r == [op |-> "put", key |-> k, value |-> v]
  <2>1. r \in [op : {"put"}, key : Keys, value : Values] /\ r \in Requests /\ r.op = "put"
    BY DEF Requests
  <2>2. /\ pc[c] = "typing" /\ added[c] < MaxPuts /\ sendRequest(c, r, "putting")
        /\ UNCHANGED <<toGet, shown, warned, added, ghosts>>
    BY <1>3 DEF put
  <2>3. ShownFor(c)'
    BY <1>0, <2>2 DEF ShownFor, ghosts
  <2> HIDE DEF r
  <2> QED
    BY <2>1, <2>2, <2>3, BegunKeeps DEF Awaiting, ghosts
<1>4. ASSUME NEW k \in Keys, get(c, k)
      PROVE  InvFor(c)'
  <2> DEFINE r == [op |-> "get", key |-> k]
  <2>1. r \in [op : {"get"}, key : Keys] /\ r \in Requests /\ r.key = k
    BY DEF Requests
  <2>2. /\ pc[c] = "printing" /\ k \in toGet[c] /\ sendRequest(c, r, "getting")
        /\ toGet'[c] \subseteq toGet[c]
        /\ UNCHANGED <<shown, warned, added, ghosts>>
    BY <1>4 DEF get, TypeOK
  <2>3. ShownFor(c)'
    BY <1>0, <2>2 DEF ShownFor, ghosts
  <2> HIDE DEF r
  <2> QED
    BY <2>1, <2>2, <2>3, BegunKeeps DEF Awaiting, ghosts
<1>5. ASSUME NEW k \in Keys, getFails(c, k)
      PROVE  InvFor(c)'
  <2>1. /\ pc[c] = "printing" /\ pc'[c] \in {"menu", "printing"} /\ ~connected[c]
        /\ toGet'[c] \subseteq toGet[c]
        /\ UNCHANGED <<server, network, connected, added, shown, ghosts>>
    BY <1>5 DEF getFails, Refuse, Onward, Goto, TypeOK
  <2> QED
    BY <2>1, MenuKeeps DEF Awaiting
<1>6. CASE ChooseAdd(c)
  <2>1. /\ pc[c] = "menu" /\ pc'[c] = "typing"
        /\ UNCHANGED <<server, network, connected, added, shown, toGet, warned, ghosts>>
    BY <1>6 DEF ChooseAdd, Goto, TypeOK
  <2> QED
    BY <2>1, MenuKeeps DEF Awaiting
<1> QED
  BY <1>1, <1>2, <1>3, <1>4, <1>5, <1>6, StartKeeps, ExitKeeps, ReceivePutKeeps,
     ReceiveKeysKeeps, ReceiveValueKeeps, LoseKeeps, HandleKeeps, SendKeeps, BreakKeeps
  DEF ServerStep, ProgramStep, UserStep

LEMMA NextInv == IInv /\ [Next]_vars => IInv'
<1> SUFFICES ASSUME IInv, [Next]_vars PROVE IInv'
  OBVIOUS
<1>0. TypeOK /\ TypeOK' /\ \A c \in Clients : InvFor(c)
  BY TypeStep DEF IInv
<1>1. ASSUME NEW c \in Clients PROVE InvFor(c)'
  <2>1. ASSUME NEW d \in Clients, ServerStep(d) \/ ProgramStep(d) \/ UserStep(d) \/ Break(d)
        PROVE  InvFor(c)'
    <3>1. CASE d = c
      BY <1>0, <2>1, <3>1, OwnStep
    <3>2. CASE d # c
      <4>1. Unmoved(c) /\ Later(c)
        BY <1>0, <2>1, <3>2, OtherLeaves
      <4> QED
        BY <1>0, <4>1, UnmovedKeeps
    <3> QED
      BY <3>1, <3>2
  <2>2. ASSUME NEW k \in Keys, handleDeleteRequest(k) \/ \E v \in Values : OtherPuts(k, v)
        PROVE  InvFor(c)'
    <3>1. Unmoved(c) /\ Later(c)
      BY <1>0, <2>2, OthersLeave
    <3> QED
      BY <1>0, <3>1, UnmovedKeeps
  <2>3. CASE Crash
    BY <1>0, <2>3, CrashKeeps
  <2>4. CASE UNCHANGED vars
    <3>1. Unmoved(c) /\ Later(c)
      BY <2>4 DEF vars, server, network, program, ghosts, Unmoved, Later, Present
    <3> QED
      BY <1>0, <3>1, UnmovedKeeps
  <2> QED
    BY <2>1, <2>2, <2>3, <2>4 DEF Next
<1> QED
  BY <1>0, <1>1 DEF IInv

LEMMA Invariance == Spec => []IInv
  BY InitInv, NextInv, PTL DEF Spec

-----------------------------------------------------------------------------
(* The theorems.                                                           *)

\* Type correctness.  For the counter of what the server carried out this needs
\* the whole invariant: every request a client sends is run at most once.
THEOREM TypeCorrect == Spec => []TypeOK
<1>1. IInv => TypeOK
  BY DEF IInv
<1> QED
  BY <1>1, Invariance, PTL

\* The number of pairs optionAddKeyValuePairs reports is the number the server
\* put into its map, but for the one put whose answer a broken connection lost.
THEOREM CountIsRight == Spec => []PutsAccounted
<1>1. IInv => PutsAccounted
  <2> SUFFICES ASSUME IInv, NEW c \in Clients
               PROVE  /\ added[c] <= applied[c] /\ applied[c] <= added[c] + 1
                      /\ connected[c] /\ pc[c] # "putting" => applied[c] = added[c]
    BY DEF PutsAccounted
  <2> QED
    BY DEF IInv, InvFor, PutsFor, Sound
<1> QED
  BY <1>1, Invariance, PTL

\* Without a deletion, no key optionPrintValues was given is without a value: the
\* warning it prints for a key only ever stands for a lost connection.
THEOREM KeysHaveValues == Spec => []NoMissingValue
<1>1. IInv => NoMissingValue
  BY DEF IInv, InvFor, KeysFor, Sound, NoMissingValue
<1> QED
  BY <1>1, Invariance, PTL

\* Every value optionPrintValues prints was the value of its key after the keys
\* were asked for, although each was fetched by a call of its own.
THEOREM PrintedWasStored == Spec => []ShownWasStored
<1>1. IInv => ShownWasStored
  BY DEF IInv, InvFor, ShownFor, ShownWasStored
<1> QED
  BY <1>1, Invariance, PTL

\* Without a deletion, the keys listed after adding pairs have every pair among
\* them that the server acknowledged, on this and on every earlier visit.
THEOREM ListsOwnKeys == Spec => OwnKeysListed
<1>1. IInv => [\A c \in Clients : ReceiveList(c) /\ ~deleted => mine[c] \subseteq outbox[c].keys]_vars
  <2> SUFFICES ASSUME IInv, NEW c \in Clients, ReceiveList(c), ~deleted
               PROVE  mine[c] \subseteq outbox[c].keys
    OBVIOUS
  <2>1. TypeOK /\ InvFor(c) /\ KeysFor(c)
    BY DEF IInv, InvFor
  <2>2. connected[c] /\ pc[c] = "listing" /\ outbox[c] \in Coming(c)
    BY <2>1, Taken DEF ReceiveList
  <2> QED
    BY <2>1, <2>2 DEF KeysFor
<1> QED
  BY <1>1, Invariance, PTL DEF OwnKeysListed
=============================================================================
