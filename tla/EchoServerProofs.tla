--------------------------- MODULE EchoServerProofs ---------------------------
(***************************************************************************)
(* Theorems about the echo server, for every number of clients, every      *)
(* limit and every length of the sleep and of the client's wait.           *)
(***************************************************************************)
EXTENDS EchoServer, FiniteSetTheorems, TLAPS

LEMMA AdmittedFinite == IsFiniteSet(Admitted) /\ Cardinality(Admitted) \in Nat
  BY EchoAssumption, FS_Subset, FS_CardinalityType DEF Admitted

LEMMA AnswerType ==
    ASSUME TypeOK, NEW c \in Clients, line[c] # "none"
    PROVE  build_response(c) \in Replies /\ build_response(c) # Nothing
<1>1. line[c] \in Lines /\ told[c] \in 0..MAX_CLIENTS
  BY DEF TypeOK
<1>2. CASE line[c] = "CLIENTS"
  <2>1. build_response(c) = Count(told[c])
    BY <1>2 DEF build_response
  <2> QED
    BY <1>1, <2>1 DEF Replies, Count, Nothing
<1>3. CASE line[c] = "QUIT"
  <2>1. build_response(c) = Goodbye
    BY <1>3 DEF build_response
  <2> QED
    BY <2>1 DEF Replies, Goodbye, Nothing
<1>4. CASE line[c] = "other"
  <2>1. build_response(c) = Text
    BY <1>4 DEF build_response
  <2> QED
    BY <2>1 DEF Replies, Text, Nothing
<1> QED
  BY <1>1, <1>2, <1>3, <1>4 DEF Lines

LEMMA InitInvariant == Init => IInv
<1> SUFFICES ASSUME Init PROVE IInv
  OBVIOUS
<1>1. TypeOK
  BY EchoAssumption DEF Init, TypeOK
<1>2. CountExact
  <2>1. Admitted = {}
    BY DEF Init, Admitted, Counted
  <2> QED
    BY <2>1, FS_EmptySet DEF Init, CountExact
<1>3. NobodyStuck /\ AnsweringLine
  BY DEF Init, NobodyStuck, AnsweringLine
<1> QED
  BY <1>1, <1>2, <1>3 DEF IInv

\* The counter follows the set of admitted connections.
LEMMA CountStep ==
    ASSUME IInv, [Next]_vars
    PROVE  CountExact'
<1>0. TypeOK /\ active = Cardinality(Admitted) /\ IsFiniteSet(Admitted)
      /\ thread \in [Clients -> {"gone", "starting", "refusing"} \cup Counted]
  BY AdmittedFinite DEF IInv, CountExact, Admitted, TypeOK
<1> SUFFICES active' = Cardinality(Admitted')
  BY DEF CountExact, Admitted
<1>1. ASSUME Admitted' = Admitted, active' = active PROVE active' = Cardinality(Admitted')
  BY <1>0, <1>1
<1>2. CASE UNCHANGED vars \/ Tick \/ \E c \in Clients : ClientStep(c) /\ ~Connect(c)
  <2>1. thread' = thread /\ active' = active
    BY <1>2 DEF vars, serverVars, Tick, ClientStep, TurnAway, Proceed, PrintReply, Stop, SendLine
  <2> QED
    BY <1>1, <2>1 DEF Admitted
<1>3. ASSUME NEW c \in Clients,
             \/ Connect(c) \/ Refuse(c) \/ CloseRefused(c) \/ Receive(c) \/ ReceiveEnd(c)
             \/ ReadCount(c) \/ Answer(c)
      PROVE  active' = Cardinality(Admitted')
  <2>1. active' = active
    BY <1>3 DEF Connect, Refuse, CloseRefused, Receive, ReceiveEnd, ReadCount, Answer
  <2>2. thread[c] \in Counted <=> thread'[c] \in Counted
    BY <1>0, <1>3 DEF Connect, Refuse, CloseRefused, Receive, ReceiveEnd, ReadCount, Answer,
       Thread, Counted
  <2>3. \A d \in Clients : d # c => thread'[d] = thread[d]
    BY <1>0, <1>3 DEF Connect, Refuse, CloseRefused, Receive, ReceiveEnd, ReadCount, Answer,
       Thread
  <2> QED
    BY <1>1, <2>1, <2>2, <2>3 DEF Admitted
<1>4. ASSUME NEW c \in Clients, Admit(c) PROVE active' = Cardinality(Admitted')
  <2>1. Admitted' = Admitted \cup {c} /\ c \notin Admitted /\ active' = active + 1
    BY <1>0, <1>4 DEF Admit, Thread, Admitted, Counted
  <2> QED
    BY <1>0, <2>1, FS_AddElement
<1>5. ASSUME NEW c \in Clients, Leave(c) PROVE active' = Cardinality(Admitted')
  <2>1. Admitted' = Admitted \ {c} /\ c \in Admitted /\ active' = active - 1
    BY <1>0, <1>5 DEF Leave, Thread, Admitted, Counted
  <2> QED
    BY <1>0, <2>1, FS_RemoveElement
<1> QED
  BY <1>2, <1>3, <1>4, <1>5 DEF Next, ThreadStep

LEMMA TypeStep ==
    ASSUME IInv, [Next]_vars
    PROVE  TypeOK'
<1>0. TypeOK /\ CountExact /\ AnsweringLine
      /\ MAX_CLIENTS \in Nat \ {0} /\ Sleep \in Nat \ {0} /\ Window \in Nat \ {0}
  BY EchoAssumption DEF IInv
<1>1. CASE UNCHANGED vars
  BY <1>0, <1>1 DEF TypeOK, vars, serverVars, clientVars
<1>2. CASE Tick
  BY <1>0, <1>2 DEF TypeOK, Tick
<1>3. ASSUME NEW c \in Clients, Admit(c) PROVE TypeOK'
  <2>1. active' \in 0..MAX_CLIENTS
    BY <1>0, <1>3 DEF TypeOK, Admit
  <2> QED
    BY <1>0, <1>3, <2>1 DEF TypeOK, Admit, Thread, Counted, clientVars
<1>4. ASSUME NEW c \in Clients, Leave(c) PROVE TypeOK'
  <2>1. active # 0
    <3>1. c \in Admitted
      BY <1>0, <1>4 DEF Leave, Thread, Admitted, Counted
    <3> QED
      BY <1>0, <3>1, AdmittedFinite, FS_EmptySet DEF CountExact, Admitted
  <2>2. active' \in 0..MAX_CLIENTS
    BY <1>0, <1>4, <2>1 DEF TypeOK, Leave
  <2> QED
    BY <1>0, <1>4, <2>2 DEF TypeOK, Leave, Thread, clientVars
<1>5. ASSUME NEW c \in Clients, Refuse(c) PROVE TypeOK'
  BY <1>0, <1>5 DEF TypeOK, Refuse, Thread, SendTo, Replies, clientVars
<1>6. ASSUME NEW c \in Clients, CloseRefused(c) PROVE TypeOK'
  BY <1>0, <1>6 DEF TypeOK, CloseRefused, Thread, clientVars
<1>7. ASSUME NEW c \in Clients, Receive(c) \/ ReceiveEnd(c) \/ ReadCount(c) PROVE TypeOK'
  BY <1>0, <1>7 DEF TypeOK, Receive, ReceiveEnd, ReadCount, Thread, Counted, clientVars
<1>8. ASSUME NEW c \in Clients, Answer(c) PROVE TypeOK'
  <2>1. build_response(c) \in Replies
    BY <1>0, <1>8, AnswerType DEF AnsweringLine, Answer, Thread
  <2>2. thread' \in [Clients -> {"gone", "starting", "refusing"} \cup Counted]
    BY <1>0, <1>8 DEF TypeOK, Answer, Thread, Counted
  <2>3. inbox' \in [Clients -> Replies \cup {Nothing}]
    BY <1>0, <1>8, <2>1 DEF TypeOK, Answer
  <2>4. told' \in [Clients -> 0..MAX_CLIENTS]
    BY <1>0, <1>8, EchoAssumption DEF TypeOK, Answer
  <2> QED
    BY <1>0, <1>8, <2>2, <2>3, <2>4 DEF TypeOK, Answer, clientVars
<1>9. ASSUME NEW c \in Clients, Connect(c) PROVE TypeOK'
  BY <1>0, <1>9 DEF TypeOK, Connect, Goto, Thread, SendTo
<1>10. ASSUME NEW c \in Clients, TurnAway(c) \/ Proceed(c) \/ PrintReply(c) \/ Stop(c)
       PROVE  TypeOK'
  BY <1>0, <1>10, EchoAssumption DEF TypeOK, TurnAway, Proceed, PrintReply, Stop, Goto, SendTo, serverVars
<1>11. ASSUME NEW c \in Clients, NEW text \in Lines, SendLine(c, text) PROVE TypeOK'
  BY <1>0, <1>11 DEF TypeOK, SendLine, Goto, serverVars
<1> QED
  BY <1>1, <1>2, <1>3, <1>4, <1>5, <1>6, <1>7, <1>8, <1>9, <1>10, <1>11
     DEF Next, ThreadStep, ClientStep

\* A client that waits is owed something.
LEMMA AnswerStep ==
    ASSUME IInv, [Next]_vars
    PROVE  NobodyStuck' /\ AnsweringLine'
<1>0. TypeOK /\ NobodyStuck /\ AnsweringLine
  BY DEF IInv
<1> DEFINE Owed(d) == pc[d] = "waiting" =>
               line[d] # "none" \/ inbox[d] # Nothing \/ thread[d] = "gone"
           Has(d) == thread[d] \in {"counting", "answering"} => line[d] # "none"
<1> SUFFICES ASSUME NEW d \in Clients PROVE Owed(d)' /\ Has(d)'
  BY DEF NobodyStuck, AnsweringLine
<1>1. Owed(d) /\ Has(d)
  BY <1>0 DEF NobodyStuck, AnsweringLine
<1>2. CASE UNCHANGED vars \/ Tick
  BY <1>1, <1>2 DEF vars, serverVars, clientVars, Tick
<1>3. ASSUME NEW c \in Clients, c # d, ThreadStep(c) \/ ClientStep(c)
      PROVE  Owed(d)' /\ Has(d)'
  <2>1. /\ pc'[d] = pc[d] /\ line'[d] = line[d] /\ inbox'[d] = inbox[d]
        /\ thread'[d] = thread[d]
    BY <1>0, <1>3 DEF TypeOK, ThreadStep, ClientStep, Admit, Refuse, CloseRefused, Receive,
       ReceiveEnd, ReadCount, Answer, Leave, Connect, TurnAway, Proceed, PrintReply, Stop,
       SendLine, Goto, Thread, SendTo, serverVars, clientVars
  <2> QED
    BY <1>1, <2>1
<1>4. CASE Admit(d) \/ Receive(d) \/ ReceiveEnd(d) \/ ReadCount(d)
  BY <1>0, <1>1, <1>4 DEF TypeOK, Admit, Receive, ReceiveEnd, ReadCount, Thread, clientVars
<1>5. CASE Refuse(d)
  <2>1. Refusal # Nothing
    BY DEF Refusal, Nothing
  <2> QED
    BY <1>0, <1>1, <1>5, <2>1 DEF TypeOK, Refuse, Thread, SendTo, clientVars
<1>6. CASE CloseRefused(d) \/ Leave(d)
  BY <1>0, <1>6 DEF TypeOK, CloseRefused, Leave, Thread
<1>7. CASE Answer(d)
  <2>1. build_response(d) # Nothing
    BY <1>0, <1>1, <1>7, AnswerType DEF Answer, Thread
  <2>2. thread'[d] \in {"serving", "leaving"} /\ pc' = pc
    BY <1>0, <1>7 DEF TypeOK, Answer, Thread, clientVars
  <2>3. pc[d] = "waiting" => inbox'[d] = build_response(d)
    BY <1>0, <1>7 DEF TypeOK, Answer
  <2> QED
    BY <2>1, <2>2, <2>3
<1>8. CASE Connect(d) \/ TurnAway(d) \/ Proceed(d) \/ PrintReply(d) \/ Stop(d)
  BY <1>0, <1>1, <1>8 DEF TypeOK, Connect, TurnAway, Proceed, PrintReply, Stop, Goto, Thread,
     serverVars
<1>9. ASSUME NEW text \in Lines, SendLine(d, text) PROVE Owed(d)' /\ Has(d)'
  BY <1>0, <1>1, <1>9 DEF TypeOK, SendLine, Goto, serverVars, Lines
<1> QED
  BY <1>2, <1>3, <1>4, <1>5, <1>6, <1>7, <1>8, <1>9 DEF Next, ThreadStep, ClientStep

LEMMA Invariant == Spec => []IInv
<1>1. IInv /\ [Next]_vars => IInv'
  BY TypeStep, CountStep, AnswerStep DEF IInv
<1> QED
  BY <1>1, InitInvariant, PTL DEF Spec

\* The variables keep their types; among them, the counter never passes the
\* limit, whatever the number of clients that connect at once.
THEOREM TypeCorrect == Spec => []TypeOK
<1>1. IInv => TypeOK
  BY DEF IInv
<1> QED
  BY <1>1, Invariant, PTL

\* The counter is always the number of connections that were admitted and not
\* cleaned up yet.
THEOREM CounterExact == Spec => []CountExact
<1>1. IInv => CountExact
  BY DEF IInv
<1> QED
  BY <1>1, Invariant, PTL

\* No client waits for a thread that waits for it.
THEOREM NoMutualWait == Spec => []NobodyStuck
<1>1. IInv => NobodyStuck
  BY DEF IInv
<1> QED
  BY <1>1, Invariant, PTL

-----------------------------------------------------------------------------
(* The server is a turnstile.                                              *)

\* What the steps of one client leave as it is for the others.
LEMMA OthersStay ==
    ASSUME TypeOK, NEW c \in Clients, NEW d \in Clients, c # d,
           ThreadStep(c) \/ ClientStep(c)
    PROVE  /\ thread'[d] = thread[d] /\ pc'[d] = pc[d] /\ line'[d] = line[d]
           /\ inbox'[d] = inbox[d] /\ told'[d] = told[d] /\ patience'[d] = patience[d]
  BY DEF TypeOK, ThreadStep, ClientStep, Admit, Refuse, CloseRefused, Receive, ReceiveEnd,
     ReadCount, Answer, Leave, Connect, TurnAway, Proceed, PrintReply, Stop, SendLine, Goto,
     Thread, SendTo, serverVars, clientVars

\* Only the answer to CLIENTS is a count.
LEMMA Kinds ==
    /\ Nothing.kind # "count" /\ Refusal.kind # "count" /\ Refusal # Nothing
    /\ \A n : Count(n).kind = "count" /\ Count(n).count = n
    /\ \A c \in Clients : line[c] \in Lines /\ build_response(c).kind = "count" =>
           line[c] = "CLIENTS" /\ build_response(c) = Count(told[c])
  BY DEF Nothing, Refusal, Goodbye, Text, Count, build_response, Lines

LEMMA DialogStep ==
    ASSUME IInv, DialogInv, [Next]_vars
    PROVE  DialogInv'
<1>0. TypeOK /\ AnsweringLine
  BY DEF IInv
<1> SUFFICES ASSUME NEW d \in Clients PROVE Dialog(d)'
  BY DEF DialogInv
<1>1. Dialog(d)
  BY DEF DialogInv
<1>2. CASE UNCHANGED vars \/ Tick
  BY <1>1, <1>2 DEF vars, serverVars, clientVars, Tick, Dialog
<1>3. ASSUME NEW c \in Clients, c # d, ThreadStep(c) \/ ClientStep(c) PROVE Dialog(d)'
  <2>1. /\ thread'[d] = thread[d] /\ pc'[d] = pc[d] /\ line'[d] = line[d]
        /\ inbox'[d] = inbox[d]
    BY <1>0, <1>3, OthersStay
  <2> QED
    BY <1>1, <2>1 DEF Dialog
<1>4. CASE Admit(d) \/ Receive(d) \/ ReceiveEnd(d) \/ ReadCount(d)
  BY <1>0, <1>1, <1>4 DEF TypeOK, Admit, Receive, ReceiveEnd, ReadCount, Thread, Counted,
     clientVars, Dialog
<1>5. CASE Refuse(d)
  BY <1>0, <1>1, <1>5, Kinds DEF TypeOK, Refuse, Thread, SendTo, Counted, clientVars, Dialog
<1>6. CASE CloseRefused(d) \/ Leave(d)
  BY <1>0, <1>1, <1>6 DEF TypeOK, CloseRefused, Leave, Thread, Counted, clientVars, Dialog
<1>7. CASE Answer(d)
  <2>1. thread[d] = "answering" /\ thread'[d] \in {"serving", "leaving"} /\ pc' = pc
        /\ line'[d] = "none" /\ line[d] # "none"
        /\ inbox'[d] = IF pc[d] = "away" THEN inbox[d] ELSE build_response(d)
    BY <1>0, <1>7 DEF TypeOK, AnsweringLine, Answer, Thread, clientVars
  <2> QED
    BY <1>1, <2>1 DEF Dialog, Counted
<1>8. CASE Connect(d)
  BY <1>0, <1>1, <1>8, Kinds DEF TypeOK, Connect, Goto, Thread, SendTo, Counted, Dialog
<1>9. CASE TurnAway(d) \/ Proceed(d) \/ PrintReply(d) \/ Stop(d)
  BY <1>0, <1>1, <1>9, Kinds DEF TypeOK, TurnAway, Proceed, PrintReply, Stop, Goto, SendTo,
     Counted, serverVars, Dialog
<1>10. ASSUME NEW text \in Lines, SendLine(d, text) PROVE Dialog(d)'
  BY <1>0, <1>1, <1>10, Kinds DEF TypeOK, SendLine, Goto, Counted, serverVars, Dialog
<1> QED
  BY <1>2, <1>3, <1>4, <1>5, <1>6, <1>7, <1>8, <1>9, <1>10 DEF Next, ThreadStep, ClientStep

\* The turnstile counts as the server does.
LEMMA SameCardinality == Gate!Cardinality(Admitted) = Cardinality(Admitted)
  BY Zenon DEF Gate!Cardinality, Cardinality

\* A step of one client's thread or program is a step of the turnstile, taken by
\* that client, or none.
LEMMA GateMove ==
    ASSUME IInv, DialogInv, NEW c \in Clients, ThreadStep(c) \/ ClientStep(c)
    PROVE  Gate!TNext \/ UNCHANGED Gate!tvars
<1> DEFINE Turned == {d \in Clients : thread[d] = "refusing"}
           Notes == [d \in Clients |-> Noted(d)]
           Reports == [d \in Clients |-> Report(d)]
<1>0. /\ TypeOK /\ Dialog(c) /\ active = Cardinality(Admitted)
      /\ MAX_CLIENTS \in Nat /\ active \in 0..MAX_CLIENTS
      /\ thread[c] \in {"counting", "answering"} => line[c] # "none"
      /\ thread[c] \in {"gone", "starting", "refusing"} \cup Counted
  BY EchoAssumption DEF IInv, DialogInv, CountExact, AnsweringLine, TypeOK
<1>1. \A d \in Clients \ {c} :
          thread'[d] = thread[d] /\ told'[d] = told[d] /\ inbox'[d] = inbox[d]
  BY <1>0, OthersStay
<1>2. /\ Notes' = [Notes EXCEPT ![c] = Noted(c)']
      /\ Reports' = [Reports EXCEPT ![c] = Report(c)']
  BY <1>1 DEF Noted, Report
<1>3. /\ Admitted' = IF thread'[c] \in Counted THEN Admitted \cup {c} ELSE Admitted \ {c}
      /\ Turned' = IF thread'[c] = "refusing" THEN Turned \cup {c} ELSE Turned \ {c}
  BY <1>1 DEF Admitted
<1>4. /\ c \in Admitted <=> thread[c] \in Counted
      /\ c \in Turned <=> thread[c] = "refusing"
  BY DEF Admitted
<1>5. ASSUME Noted(c)' = Noted(c) PROVE Notes' = Notes
  BY <1>2, <1>5
<1>6. ASSUME Report(c)' = Report(c) PROVE Reports' = Reports
  BY <1>2, <1>6
<1>7. ASSUME thread'[c] \in Counted <=> thread[c] \in Counted,
             thread'[c] = "refusing" <=> thread[c] = "refusing"
      PROVE  Admitted' = Admitted /\ Turned' = Turned
  BY <1>3, <1>4, <1>7
<1>8. CASE Admit(c)
  <2>1. /\ thread[c] = "starting" /\ thread'[c] = "serving" /\ active < MAX_CLIENTS
        /\ inbox' = inbox
    BY <1>0, <1>8 DEF TypeOK, Admit, Thread
  <2>2. Notes' = Notes /\ Reports' = Reports
    BY <1>5, <1>6, <2>1 DEF Noted, Report
  <2>3. /\ Admitted' = Admitted \cup {c} /\ Turned' = Turned
        /\ c \notin Admitted /\ c \notin Turned
    BY <1>3, <1>4, <2>1 DEF Counted
  <2>4. Gate!Enter(c)
    BY <1>0, <2>1, <2>2, <2>3, SameCardinality DEF Gate!Enter, Gate!Present
  <2> QED
    BY <2>4 DEF Gate!TNext
<1>9. CASE Refuse(c)
  <2>1. /\ thread[c] = "starting" /\ thread'[c] = "refusing" /\ active >= MAX_CLIENTS
        /\ inbox[c] = Nothing /\ inbox'[c] = Refusal
    BY <1>0, <1>9 DEF TypeOK, Dialog, Refuse, Thread, SendTo
  <2>2. Notes' = Notes /\ Reports' = Reports
    BY <1>5, <1>6, <2>1, Kinds DEF Noted, Report
  <2>3. /\ Admitted' = Admitted /\ Turned' = Turned \cup {c}
        /\ c \notin Admitted /\ c \notin Turned
    BY <1>3, <1>4, <2>1 DEF Counted
  <2>4. Gate!TurnAway(c)
    BY <1>0, <2>1, <2>2, <2>3, SameCardinality DEF Gate!TurnAway, Gate!Present
  <2> QED
    BY <2>4 DEF Gate!TNext
<1>10. CASE CloseRefused(c) \/ Leave(c)
  <2>1. thread[c] \in {"refusing", "leaving"} /\ thread'[c] = "gone" /\ inbox' = inbox
    BY <1>0, <1>10 DEF TypeOK, CloseRefused, Leave, Thread
  <2>2. Notes' = Notes /\ Reports' = Reports /\ Notes[c] = -1
    BY <1>5, <1>6, <2>1 DEF Noted, Report
  <2>3. Admitted' = Admitted \ {c} /\ Turned' = Turned \ {c} /\ c \in Admitted \cup Turned
    BY <1>3, <1>4, <2>1 DEF Counted
  <2>4. Gate!Exit(c)
    BY <2>2, <2>3 DEF Gate!Exit, Gate!Present, Gate!None
  <2> QED
    BY <2>4 DEF Gate!TNext
<1>11. CASE Receive(c) \/ ReceiveEnd(c) \/ Connect(c)
  <2>1. /\ thread[c] \in {"gone", "serving"} /\ thread'[c] \in {"starting", "counting", "leaving"}
        /\ thread[c] = "gone" <=> thread'[c] = "starting"
    BY <1>0, <1>11 DEF TypeOK, Receive, ReceiveEnd, Connect, Thread
  <2>2. Report(c)' = Report(c)
    BY <1>0, <1>11, Kinds DEF TypeOK, Dialog, Receive, ReceiveEnd, Connect, Goto, SendTo, Report
  <2>3. Notes' = Notes /\ Reports' = Reports
    BY <1>5, <1>6, <2>1, <2>2 DEF Noted
  <2>4. Admitted' = Admitted /\ Turned' = Turned
    BY <1>7, <2>1 DEF Counted
  <2> QED
    BY <2>3, <2>4 DEF Gate!tvars
<1>12. CASE ReadCount(c)
  <2>1. /\ thread[c] = "counting" /\ thread'[c] = "answering" /\ told'[c] = active
        /\ inbox' = inbox /\ inbox[c] = Nothing
    BY <1>0, <1>12 DEF TypeOK, Dialog, ReadCount, Thread, Counted
  <2>2. /\ Notes[c] = -1 /\ Noted(c)' = active
        /\ Reports[c] = -1 /\ Report(c)' = Report(c)
    BY <2>1, Kinds DEF Noted, Report
  <2>3. Admitted' = Admitted /\ Turned' = Turned /\ c \in Admitted
    BY <1>4, <1>7, <2>1 DEF Counted
  <2>4. Notes' = [Notes EXCEPT ![c] = Cardinality(Admitted)] /\ Reports' = Reports
    BY <1>0, <1>2, <1>6, <2>2
  <2>5. Gate!Note(c)
    BY <2>2, <2>3, <2>4, SameCardinality DEF Gate!Note, Gate!None
  <2> QED
    BY <2>5 DEF Gate!TNext
<1>13. CASE Answer(c)
  <2>1. /\ thread[c] = "answering" /\ thread'[c] \in {"serving", "leaving"}
        /\ inbox[c] = Nothing /\ line[c] \in Lines
        /\ inbox'[c] \in {Nothing, build_response(c)}
        /\ told[c] \in 0..MAX_CLIENTS
    BY <1>0, <1>13 DEF TypeOK, Dialog, Answer, Thread, Counted
  <2>2. /\ Notes[c] = told[c] /\ told[c] # -1 /\ Noted(c)' = -1
    BY <2>1, <1>0 DEF Noted
  <2>3. Report(c)' \in {Report(c), told[c]}
    BY <2>1, Kinds DEF Report
  <2>4. Admitted' = Admitted /\ Turned' = Turned
    BY <1>7, <2>1 DEF Counted
  <2>5. Reports' \in {Reports, [Reports EXCEPT ![c] = Notes[c]]}
    BY <1>2, <1>6, <2>2, <2>3
  <2>6. Gate!Tell(c)
    BY <1>2, <2>2, <2>4, <2>5 DEF Gate!Tell, Gate!None
  <2> QED
    BY <2>6 DEF Gate!TNext
<1>14. CASE ClientStep(c) /\ ~Connect(c)
  <2>1. thread' = thread /\ told' = told
    BY <1>14 DEF ClientStep, TurnAway, Proceed, PrintReply, Stop, SendLine, serverVars
  <2>2. Admitted' = Admitted /\ Turned' = Turned /\ Notes' = Notes
    BY <2>1 DEF Admitted, Noted
  <2>3. inbox'[c] \in {inbox[c], Nothing}
    BY <1>0, <1>14 DEF TypeOK, ClientStep, TurnAway, Proceed, PrintReply, Stop, SendLine, SendTo
  <2>4. Report(c)' \in {Report(c), -1}
    BY <2>3, Kinds DEF Report
  <2>5. CASE Report(c)' = Report(c)
    BY <1>6, <2>2, <2>5 DEF Gate!tvars
  <2>6. CASE Report(c)' # Report(c)
    <3>1. Reports[c] # -1 /\ Reports' = [Reports EXCEPT ![c] = -1]
      BY <1>2, <2>4, <2>6
    <3>2. Gate!Hear(c)
      BY <2>2, <3>1 DEF Gate!Hear, Gate!None
    <3> QED
      BY <3>2 DEF Gate!TNext
  <2> QED
    BY <2>5, <2>6
<1> QED
  BY <1>8, <1>9, <1>10, <1>11, <1>12, <1>13, <1>14 DEF ThreadStep, ClientStep

\* The echo server is a turnstile of MAX_CLIENTS places, for every number of
\* clients that connect, hang up, ask and are turned away at once: nobody is let
\* in beyond the limit or turned away below it, and every count that is answered
\* was the number of admitted clients at one moment after the question.
THEOREM AdmissionKept == Spec => Admission
<1>1. Init => DialogInv
  BY Kinds DEF Init, DialogInv, Dialog, Counted
<1>2. Init => Gate!TInit
  <2> SUFFICES ASSUME Init PROVE Gate!TInit
    OBVIOUS
  <2>1. Admitted = {}
    BY DEF Init, Admitted, Counted
  <2>2. \A c \in Clients : Noted(c) = -1 /\ Report(c) = -1 /\ thread[c] # "refusing"
    BY Kinds DEF Init, Noted, Report
  <2> QED
    BY <2>1, <2>2 DEF Gate!TInit, Gate!NoNumbers, Gate!None
<1>3. IInv /\ DialogInv /\ [Next]_vars => DialogInv'
  BY DialogStep
<1>4. IInv /\ DialogInv /\ [Next]_vars => [Gate!TNext]_(Gate!tvars)
  <2> SUFFICES ASSUME IInv, DialogInv, [Next]_vars
               PROVE  Gate!TNext \/ UNCHANGED Gate!tvars
    OBVIOUS
  <2>1. CASE UNCHANGED vars \/ Tick
    BY <2>1 DEF vars, serverVars, clientVars, Tick, Gate!tvars, Admitted, Noted, Report
  <2> QED
    BY <2>1, GateMove DEF Next
<1> QED
  BY <1>1, <1>2, <1>3, <1>4, Invariant, PTL DEF Spec, Admission, Gate!TurnstileSpec

-----------------------------------------------------------------------------
(* Refusals, where at most one client is turned away at a time.            *)

\* Whoever finds no place while no other thread refuses is the only client
\* without one.
LEMMA LastOne ==
    ASSUME OneTooMany, IInv, NEW c \in Clients, thread[c] = "starting",
           active >= MAX_CLIENTS
    PROVE  \A d \in Clients \ {c} : thread[d] \in Counted
<1> DEFINE Others == Clients \ {c}
<1>1. /\ IsFiniteSet(Clients) /\ IsFiniteSet(Others) /\ Cardinality(Others) \in Nat
      /\ Cardinality(Others) = Cardinality(Clients) - 1
  BY EchoAssumption, FS_RemoveElement, FS_CardinalityType
<1>2. Cardinality(Others) <= MAX_CLIENTS
  BY <1>1, EchoAssumption, FS_CardinalityType DEF OneTooMany
<1>3. Admitted \subseteq Others
  BY DEF Admitted, Counted
<1>4. Cardinality(Admitted) >= MAX_CLIENTS
  BY DEF IInv, CountExact, Admitted
<1>5. Cardinality(Admitted) <= Cardinality(Others)
  BY <1>1, <1>3, FS_Subset
<1>6. Cardinality(Admitted) = Cardinality(Others)
  BY <1>1, <1>2, <1>4, <1>5, AdmittedFinite, EchoAssumption
<1>7. Admitted = Others
  BY <1>1, <1>3, <1>6, FS_Subset
<1> QED
  BY <1>7 DEF Admitted

\* Only a refusal takes the mutex, only its end releases it, and in between a
\* thread that counts goes on counting.
LEMMA MutexStep ==
    ASSUME TypeOK, NEW c \in Clients, ThreadStep(c) \/ ClientStep(c)
    PROVE  /\ \/ mutex' = mutex
              \/ mutex' = c /\ Refuse(c)
              \/ mutex' = NoClient /\ thread[c] = "refusing"
           /\ mutex # NoClient /\ thread[c] \in Counted => thread'[c] \in Counted /\ mutex' = mutex
<1>1. CASE ThreadStep(c)
  BY <1>1 DEF TypeOK, ThreadStep, Admit, Refuse, CloseRefused, Receive, ReceiveEnd,
     ReadCount, Answer, Leave, Thread, Counted
<1>2. CASE ClientStep(c)
  BY <1>2 DEF TypeOK, ClientStep, Connect, TurnAway, Proceed, PrintReply, Stop, SendLine,
     Thread, Counted, serverVars
<1> QED
  BY <1>1, <1>2

LEMMA RefusalStep ==
    ASSUME OneTooMany, IInv, RefusalInv, [Next]_vars
    PROVE  RefusalInv'
<1>0. TypeOK /\ RefusalInv /\ NoClient \notin Clients
  BY EchoAssumption DEF IInv
<1> SUFFICES ASSUME NEW d \in Clients PROVE RefusalFor(d)'
  BY DEF RefusalInv
<1>1. RefusalFor(d)
  BY <1>0 DEF RefusalInv
<1>2. CASE UNCHANGED vars
  BY <1>1, <1>2 DEF vars, serverVars, clientVars, RefusalFor, Alone
<1>3. CASE Tick
  <2>1. thread[d] # "starting"
    <3>1. CASE mutex = NoClient
      BY <1>3, <3>1 DEF Tick, Idle
    <3>2. CASE mutex # NoClient
      BY <1>0, <3>2 DEF TypeOK, RefusalInv, RefusalFor, Alone, Counted
    <3> QED
      BY <3>1, <3>2
  <2>2. Refusal # Nothing
    BY DEF Refusal, Nothing
  <2>3. inbox[d] # Refusal
    BY <1>1, <1>3, <2>2 DEF Tick, RefusalFor
  <2> QED
    BY <1>1, <1>3, <2>1, <2>3 DEF Tick, RefusalFor, Alone
<1>4. ASSUME NEW c \in Clients, c # d, ThreadStep(c) \/ ClientStep(c) PROVE RefusalFor(d)'
  <2>1. /\ thread'[d] = thread[d] /\ pc'[d] = pc[d]
        /\ inbox'[d] = inbox[d] /\ patience'[d] = patience[d]
    BY <1>0, <1>4, OthersStay
  <2>2. mutex' = d => thread[d] = "refusing"
    BY <1>0, <1>1, <1>4, MutexStep DEF RefusalFor
  <2>3. ASSUME thread[d] = "refusing" PROVE Alone(d)'
    <3>1. mutex = d /\ \A e \in Clients \ {d} : thread[e] \in Counted
      BY <1>1, <2>3 DEF RefusalFor, Alone
    <3>2. mutex' = d /\ thread'[c] \in Counted
      BY <1>0, <1>4, <3>1, MutexStep
    <3>3. \A e \in Clients \ {c, d} : thread'[e] = thread[e]
      BY <1>0, <1>4, OthersStay
    <3> QED
      BY <3>1, <3>2, <3>3 DEF Alone
  <2> QED
    BY <1>1, <2>1, <2>2, <2>3 DEF RefusalFor
<1>5. CASE Refuse(d)
  <2>1. thread[d] = "starting" /\ active >= MAX_CLIENTS
    BY <1>5 DEF Refuse, Thread
  <2>2. \A e \in Clients \ {d} : thread[e] \in Counted
    BY <2>1, LastOne
  <2>3. /\ mutex' = d /\ thread' = [thread EXCEPT ![d] = "refusing"] /\ inbox'[d] = Refusal
        /\ pc' = pc /\ patience' = patience /\ thread'[d] = "refusing"
    BY <1>0, <1>5 DEF TypeOK, Refuse, Thread, SendTo, clientVars
  <2>4. Alone(d)'
    BY <1>0, <2>2, <2>3 DEF TypeOK, Alone
  <2> QED
    BY <1>1, <2>1, <2>3, <2>4 DEF RefusalFor
<1>6. CASE CloseRefused(d)
  BY <1>0, <1>1, <1>6 DEF TypeOK, CloseRefused, Thread, clientVars, RefusalFor
<1>7. CASE Admit(d) \/ Receive(d) \/ ReceiveEnd(d) \/ ReadCount(d)
  BY <1>0, <1>1, <1>7
     DEF TypeOK, Admit, Receive, ReceiveEnd, ReadCount, Thread, clientVars, RefusalFor
<1>8. CASE Answer(d) \/ Leave(d)
  <2>1. /\ thread[d] \in {"answering", "leaving"} /\ thread'[d] \in {"serving", "leaving", "gone"}
        /\ mutex' = mutex /\ pc' = pc /\ patience' = patience
    BY <1>0, <1>8 DEF TypeOK, Answer, Leave, Thread, clientVars
  <2>2. inbox'[d] # inbox[d] => inbox'[d] = build_response(d) /\ line[d] # "none"
    BY <1>0, <1>8 DEF TypeOK, IInv, AnsweringLine, Answer, Leave, Thread
  <2>3. line[d] # "none" => build_response(d) # Refusal
    <3>1. line[d] \in {"CLIENTS", "QUIT", "other", "none"}
      BY <1>0 DEF TypeOK, Lines
    <3> QED
      BY <3>1 DEF build_response, Refusal, Count, Goodbye, Text
  <2> QED
    BY <1>1, <2>1, <2>2, <2>3 DEF RefusalFor
<1>9. CASE Connect(d)
  <2>1. Nothing # Refusal
    BY DEF Refusal, Nothing
  <2>2. /\ pc'[d] = "checking" /\ thread'[d] = "starting" /\ mutex' = mutex
        /\ inbox'[d] = Nothing /\ patience'[d] = Window /\ thread[d] = "gone"
    BY <1>0, <1>9 DEF TypeOK, Connect, Goto, Thread, SendTo
  <2>3. Window > 0
    BY EchoAssumption
  <2> QED
    BY <1>1, <2>1, <2>2, <2>3 DEF RefusalFor
<1>10. CASE TurnAway(d)
  <2>1. Nothing # Refusal /\ pc'[d] = "away" /\ inbox'[d] = Nothing /\ thread[d] # "starting"
        /\ thread' = thread /\ mutex' = mutex
    BY <1>0, <1>1, <1>10
       DEF TypeOK, TurnAway, Goto, SendTo, RefusalFor, Nothing, Refusal, serverVars
  <2> QED
    BY <1>1, <2>1 DEF RefusalFor, Alone
<1>11. CASE Proceed(d) \/ PrintReply(d) \/ Stop(d) \/ \E text \in Lines : SendLine(d, text)
  <2>1. /\ thread' = thread /\ mutex' = mutex
        /\ thread[d] # "starting" /\ inbox[d] # Refusal
    <3>1. Proceed(d) => patience[d] = 0
      BY <1>11 DEF Proceed
    <3>2. Proceed(d) \/ pc[d] # "checking"
      BY <1>11 DEF PrintReply, Stop, SendLine, Goto
    <3>3. patience[d] = 0 \/ pc[d] # "checking"
      BY <3>1, <3>2
    <3>4. thread' = thread /\ mutex' = mutex
      BY <1>11 DEF Proceed, PrintReply, Stop, SendLine, serverVars
    <3> QED
      BY <1>0, <1>1, <3>3, <3>4 DEF TypeOK, RefusalFor
  <2>2. inbox'[d] \in {inbox[d], Nothing}
    BY <1>0, <1>11 DEF TypeOK, Proceed, PrintReply, Stop, SendLine, SendTo
  <2>3. thread[d] = "refusing" => pc[d] = "away"
    BY <1>1, <2>1 DEF RefusalFor
  <2>4. pc[d] # "away"
    BY <1>11 DEF Proceed, PrintReply, Stop, SendLine, Goto
  <2>5. Nothing # Refusal
    BY DEF Refusal, Nothing
  <2> QED
    BY <1>1, <2>1, <2>2, <2>3, <2>4, <2>5 DEF RefusalFor
<1> QED
  BY <1>2, <1>3, <1>4, <1>5, <1>6, <1>7, <1>8, <1>9, <1>10, <1>11
     DEF Next, ThreadStep, ClientStep

\* With at most one client more than there are places, whoever is turned away
\* learns it from the check, for every number of places and any two lengths of
\* the sleep and of the client's wait.
THEOREM RefusalHeard == ASSUME OneTooMany PROVE Spec => []RefusalNoticed
<1>1. Init => RefusalInv
  <2>1. Nothing # Refusal
    BY DEF Nothing, Refusal
  <2>2. ASSUME Init, NEW c \in Clients PROVE RefusalFor(c)
    <3>1. mutex # c /\ thread[c] = "gone" /\ inbox[c] = Nothing
      BY <2>2, EchoAssumption DEF Init
    <3> QED
      BY <2>1, <3>1 DEF RefusalFor
  <2> QED
    BY <2>2 DEF RefusalInv
<1>2. IInv /\ RefusalInv /\ [Next]_vars => RefusalInv'
  BY RefusalStep
<1>3. RefusalInv => RefusalNoticed
  BY DEF RefusalInv, RefusalFor, RefusalNoticed
<1> QED
  BY <1>1, <1>2, <1>3, Invariant, PTL DEF Spec
=============================================================================
