-------------------------- MODULE FifoExchangeProofs --------------------------
(***************************************************************************)
(* Theorems about the FIFO programs, for any number of clients that are    *)
(* run one after another, and any number of rounds.                        *)
(***************************************************************************)
EXTENDS FifoExchange, SequenceTheorems, TLAPS

Sending == {"sendOpen", "send", "sent", "killed"}
Hearing == {"hearOpen", "hear", "heard"}

-----------------------------------------------------------------------------
(* Types.                                                                  *)

LEMMA TextIsClients ==
    ASSUME TypeOK, NEW p \in Programs
    PROVE  Text(p) \in SUBSET Clients
  BY FifoAssumption DEF Text, TypeOK, Programs

LEMMA ReadIsClients ==
    ASSUME NEW s \in Seq(SUBSET Clients)
    PROVE  UNION ToSet(s) \in SUBSET Clients
<1>1. \A i \in DOMAIN s : s[i] \in SUBSET Clients
  BY ElementOfSeq, LenProperties
<1> QED
  BY <1>1 DEF ToSet

LEMMA CloseType ==
    ASSUME TypeOK, NEW p \in Programs, NEW f \in Fifos, NEW next \in Stages, CloseFifo(p, f, next)
    PROVE  TypeOK'
<1>1. content' \in [Fifos -> Seq(SUBSET Clients)]
  BY EmptySeq DEF TypeOK, CloseFifo
<1>2. alone' \in BOOLEAN
  BY DEF TypeOK, CloseFifo
<1> QED
  BY <1>1, <1>2 DEF TypeOK, CloseFifo

LEMMA NextType == ASSUME TypeOK, [Next]_vars PROVE TypeOK'
<1>0. /\ pc \in [Programs -> Stages] /\ content \in [Fifos -> Seq(SUBSET Clients)]
      /\ got \in [Programs -> SUBSET Clients] /\ alone \in BOOLEAN
  BY DEF TypeOK
<1>1. \A p \in Programs : Out(p) \in Fifos /\ In(p) \in Fifos
  BY DEF Out, In, Fifos
<1>2. ASSUME NEW p \in Programs, OpenToSend(p) \/ OpenToHear(p), alone' \in BOOLEAN
      PROVE  TypeOK'
  <2>1. pc' \in [Programs -> Stages]
    BY <1>0, <1>2 DEF OpenToSend, OpenToHear, LettingIn, Stages
  <2> QED
    BY <1>0, <1>2, <2>1 DEF TypeOK, OpenToSend, OpenToHear
<1>3. CASE StartServer
  BY <1>0, <1>2, <1>3 DEF StartServer, Programs
<1>4. ASSUME NEW c \in Clients, StartClient(c)
      PROVE  TypeOK'
  <2>1. alone' \in BOOLEAN
    BY <1>0, <1>4 DEF StartClient
  <2> QED
    BY <1>2, <1>4, <2>1 DEF StartClient, Programs
<1>5. ASSUME NEW p \in Programs, ProgramStep(p)
      PROVE  TypeOK'
  <2>1. CASE Turn(p)
    BY <1>0, <1>2, <2>1 DEF Turn
  <2>2. CASE Write(p)
    <3>1. Append(content[Out(p)], Text(p)) \in Seq(SUBSET Clients)
      BY <1>0, <1>1, TextIsClients, AppendProperties
    <3> QED
      BY <1>0, <1>1, <2>2, <3>1 DEF Write, TypeOK, Stages
  <2>3. CASE CloseSent(p) \/ Die(p) \/ CloseHeard(p)
    BY <1>1, <2>3, CloseType DEF CloseSent, Die, CloseHeard, Stages
  <2>4. CASE Read(p)
    <3>1. UNION ToSet(content[In(p)]) \in SUBSET Clients
      BY <1>0, <1>1, ReadIsClients
    <3> QED
      BY <1>0, <1>1, <2>4, <3>1, EmptySeq DEF Read, TypeOK, Stages
  <2> QED
    BY <1>5, <2>1, <2>2, <2>3, <2>4 DEF ProgramStep
<1>6. CASE UNCHANGED vars
  BY <1>6 DEF vars, TypeOK
<1> QED
  BY <1>3, <1>4, <1>5, <1>6 DEF Next

-----------------------------------------------------------------------------
(* What is in a FIFO is there because somebody has it open.                *)

Ends(f) == Readers(f) \cup Writers(f)

\* An open lets others go on, and they keep their ends.
LEMMA OpenKeepsEnds ==
    ASSUME TypeOK, NEW p \in Programs, pc[p] \in {"away", "turn"},
           OpenToSend(p) \/ OpenToHear(p), NEW f \in Fifos
    PROVE  Ends(f) \subseteq Ends(f)'
<1> SUFFICES ASSUME NEW q \in Ends(f) PROVE q \in Ends(f)'
  OBVIOUS
<1>1. q \in Programs /\ q # p
  BY DEF Ends, Readers, Writers
<1>2. CASE q \in Readers(f)
  <2>1. pc'[q] \in Hearing
    BY <1>1, <1>2 DEF OpenToSend, OpenToHear, LettingIn, Readers, Writers, Hearing
  <2> QED
    BY <1>1, <1>2, <2>1 DEF Ends, Readers, Hearing
<1>3. CASE q \in Writers(f)
  <2>1. pc'[q] \in Sending
    BY <1>1, <1>3 DEF OpenToSend, OpenToHear, LettingIn, Readers, Writers, Sending
  <2> QED
    BY <1>1, <1>3, <2>1 DEF Ends, Writers, Sending
<1> QED
  BY <1>2, <1>3 DEF Ends

\* A close takes one program from the ends of one FIFO.
LEMMA CloseEnds ==
    ASSUME TypeOK, NEW p \in Programs, NEW f \in Fifos, NEW next \in {"away", "turn"},
           CloseFifo(p, f, next), \A g \in Fifos \ {f} : p \notin Ends(g)
    PROVE  \A g \in Fifos : Ends(g)' = Ends(g) \ {p}
<1>1. /\ \A q \in Programs \ {p} : pc'[q] = pc[q]
      /\ pc'[p] = next
  BY DEF CloseFifo, TypeOK
<1> QED
  BY <1>1 DEF Ends, Readers, Writers

LEMMA CloseHeld ==
    ASSUME TypeOK, ContentHeld, NEW p \in Programs, NEW f \in Fifos, NEW next \in {"away", "turn"},
           CloseFifo(p, f, next), p \in Ends(f), \A g \in Fifos \ {f} : p \notin Ends(g)
    PROVE  ContentHeld'
<1>1. \A g \in Fifos : Ends(g)' = Ends(g) \ {p}
  BY CloseEnds
<1>2. content \in [Fifos -> Seq(SUBSET Clients)]
  BY DEF TypeOK
<1>3. content' = IF Ends(f) = {p} THEN [content EXCEPT ![f] = <<>>] ELSE content
  BY DEF CloseFifo, Ends
<1> SUFFICES ASSUME NEW g \in Fifos PROVE content'[g] = <<>> \/ Ends(g)' # {}
  BY DEF ContentHeld, Ends
<1>4. content[g] = <<>> \/ Ends(g) # {}
  BY DEF ContentHeld, Ends
<1>5. CASE g = f
  BY <1>1, <1>2, <1>3, <1>5
<1>6. CASE g # f
  BY <1>1, <1>2, <1>3, <1>4, <1>6
<1> QED
  BY <1>5, <1>6

LEMMA NextHeld == ASSUME TypeOK, ContentHeld, [Next]_vars PROVE ContentHeld'
<1>0. content \in [Fifos -> Seq(SUBSET Clients)] /\ pc \in [Programs -> Stages]
  BY DEF TypeOK
<1>1. ASSUME NEW p \in Programs, pc[p] \in {"away", "turn"}, OpenToSend(p) \/ OpenToHear(p)
      PROVE  ContentHeld'
  <2>1. content' = content
    BY <1>1 DEF OpenToSend, OpenToHear
  <2>2. \A f \in Fifos : Ends(f) \subseteq Ends(f)'
    BY <1>1, OpenKeepsEnds
  <2> QED
    BY <2>1, <2>2 DEF ContentHeld, Ends
<1>2. CASE StartServer \/ (\E c \in Clients : StartClient(c)) \/ (\E p \in Programs : Turn(p))
  BY <1>1, <1>2 DEF StartServer, StartClient, Turn, Programs
<1>3. ASSUME NEW p \in Programs, Write(p)
      PROVE  ContentHeld'
  <2>1. \A f \in Fifos : Ends(f)' = Ends(f)
    BY <1>0, <1>3 DEF Write, Ends, Readers, Writers
  <2>2. p \in Ends(Out(p))
    BY <1>3 DEF Write, Ends, Writers
  <2>3. \A f \in Fifos : content'[f] = content[f] \/ f = Out(p)
    BY <1>0, <1>3 DEF Write
  <2> QED
    BY <2>1, <2>2, <2>3 DEF ContentHeld, Ends
<1>4. ASSUME NEW p \in Programs, Read(p)
      PROVE  ContentHeld'
  <2>1. \A f \in Fifos : Ends(f)' = Ends(f)
    BY <1>0, <1>4 DEF Read, Ends, Readers, Writers
  <2>2. \A f \in Fifos : content'[f] = content[f] \/ content'[f] = <<>>
    BY <1>0, <1>4 DEF Read
  <2> QED
    BY <2>1, <2>2 DEF ContentHeld, Ends
<1>5. ASSUME NEW p \in Programs, CloseSent(p) \/ Die(p)
      PROVE  ContentHeld'
  <2>1. /\ Out(p) \in Fifos /\ p \in Ends(Out(p))
        /\ \A g \in Fifos \ {Out(p)} : p \notin Ends(g)
    BY <1>5 DEF CloseSent, Die, Ends, Readers, Writers, Out, In, Fifos
  <2> QED
    BY <1>5, <2>1, CloseHeld DEF CloseSent, Die
<1>6. ASSUME NEW p \in Programs, CloseHeard(p)
      PROVE  ContentHeld'
  <2>1. /\ In(p) \in Fifos /\ p \in Ends(In(p))
        /\ \A g \in Fifos \ {In(p)} : p \notin Ends(g)
    BY <1>6 DEF CloseHeard, Ends, Readers, Writers, Out, In, Fifos
  <2> QED
    BY <1>6, <2>1, CloseHeld DEF CloseHeard
<1>7. CASE UNCHANGED vars
  BY <1>7 DEF vars, ContentHeld, Readers, Writers
<1> QED
  BY <1>2, <1>3, <1>4, <1>5, <1>6, <1>7 DEF Next, ProgramStep

-----------------------------------------------------------------------------
(* What the operations do while c is the only client that may be there.    *)

Move(c, place, clientPlace) == pc' = [pc EXCEPT ![Server] = place, ![c] = clientPlace]

LEMMA Sides ==
    ASSUME NEW c \in Clients, Sole(c)
    PROVE  /\ Readers("clientToServer") = IF pc[Server] \in Hearing THEN {Server} ELSE {}
           /\ Writers("clientToServer") = IF pc[c] \in Sending THEN {c} ELSE {}
           /\ Readers("serverToClient") = IF pc[c] \in Hearing THEN {c} ELSE {}
           /\ Writers("serverToClient") = IF pc[Server] \in Sending THEN {Server} ELSE {}
<1>1. \A d \in Clients \ {c} : pc[d] = "away"
  BY DEF Sole, Absent
<1>2. /\ In(Server) = "clientToServer" /\ Out(Server) = "serverToClient"
      /\ \A d \in Clients : In(d) = "serverToClient" /\ Out(d) = "clientToServer"
  BY FifoAssumption DEF In, Out
<1> QED
  BY <1>1, <1>2 DEF Readers, Writers, Programs, Hearing, Sending

\* An open waits for the other end, or lets the one who waits there go on.
LEMMA Opens ==
    ASSUME TypeOK, NEW c \in Clients, Sole(c)
    PROVE  /\ OpenToHear(Server) => Move(c, IF pc[c] \in Sending THEN "hear" ELSE "hearOpen",
                                            IF pc[c] = "sendOpen" THEN "send" ELSE pc[c])
           /\ OpenToSend(Server) => Move(c, IF pc[c] \in Hearing THEN "send" ELSE "sendOpen",
                                            IF pc[c] = "hearOpen" THEN "hear" ELSE pc[c])
           /\ OpenToSend(c) => Move(c, IF pc[Server] = "hearOpen" THEN "hear" ELSE pc[Server],
                                       IF pc[Server] \in Hearing THEN "send" ELSE "sendOpen")
           /\ OpenToHear(c) => Move(c, IF pc[Server] = "sendOpen" THEN "send" ELSE pc[Server],
                                       IF pc[Server] \in Sending THEN "hear" ELSE "hearOpen")
<1>1. /\ In(Server) = "clientToServer" /\ Out(Server) = "serverToClient"
      /\ In(c) = "serverToClient" /\ Out(c) = "clientToServer"
      /\ c # Server /\ c \in Programs /\ Server \in Programs
  BY FifoAssumption DEF In, Out, Programs
<1>2. pc \in [Programs -> Stages]
  BY DEF TypeOK
<1> USE <1>1, <1>2, Sides DEF Move, LettingIn, Hearing, Sending
<1>3. ASSUME OpenToHear(Server)
      PROVE  Move(c, IF pc[c] \in Sending THEN "hear" ELSE "hearOpen",
                     IF pc[c] = "sendOpen" THEN "send" ELSE pc[c])
  BY <1>3 DEF OpenToHear
<1>4. ASSUME OpenToSend(Server)
      PROVE  Move(c, IF pc[c] \in Hearing THEN "send" ELSE "sendOpen",
                     IF pc[c] = "hearOpen" THEN "hear" ELSE pc[c])
  BY <1>4 DEF OpenToSend
<1>5. ASSUME OpenToSend(c)
      PROVE  Move(c, IF pc[Server] = "hearOpen" THEN "hear" ELSE pc[Server],
                     IF pc[Server] \in Hearing THEN "send" ELSE "sendOpen")
  BY <1>5 DEF OpenToSend
<1>6. ASSUME OpenToHear(c)
      PROVE  Move(c, IF pc[Server] = "sendOpen" THEN "send" ELSE pc[Server],
                     IF pc[Server] \in Sending THEN "hear" ELSE "hearOpen")
  BY <1>6 DEF OpenToHear
<1> QED
  BY <1>3, <1>4, <1>5, <1>6

\* A close leaves what is there to the other end.
LEMMA Closes ==
    ASSUME TypeOK, NEW p \in Programs, NEW f \in Fifos, NEW next, CloseFifo(p, f, next),
           content = Drained \/ Readers(f) \cup Writers(f) # {p}
    PROVE  content' = content /\ got' = got /\ pc' = [pc EXCEPT ![p] = next]
<1>1. [Drained EXCEPT ![f] = <<>>] = Drained
  BY DEF Drained
<1> QED
  BY <1>1 DEF CloseFifo

LEMMA Moves ==
    ASSUME TypeOK, NEW c \in Clients, Sole(c), NEW x, NEW y, Move(c, x, y)
    PROVE  Sole(c)' /\ pc'[Server] = x /\ pc'[c] = y
<1>1. /\ c # Server /\ c \in Programs /\ Server \in Programs
      /\ \A d \in Clients \ {c} : d \in Programs /\ d # Server
  BY FifoAssumption DEF Programs
<1>2. /\ pc'[Server] = x /\ pc'[c] = y
      /\ \A d \in Clients \ {c} : pc'[d] = pc[d]
  BY <1>1 DEF TypeOK, Move
<1> QED
  BY <1>2 DEF Sole, Absent

\* The server's steps lead from one phase of the exchange to the next.
LEMMA ServerInExchange ==
    ASSUME TypeOK, NEW c \in Clients, Sole(c), Exchange(c), StartServer \/ ProgramStep(Server)
    PROVE  Sole(c)' /\ Exchange(c)'
<1>0. /\ c # Server /\ c \in Programs /\ Server \in Programs
      /\ In(Server) = "clientToServer" /\ Out(Server) = "serverToClient"
      /\ In(Server) \in Fifos /\ Out(Server) \in Fifos
  BY FifoAssumption DEF Programs, In, Out, Fifos
<1> USE DEF At, Hearing, Sending
<1>1. CASE StartServer
  <2>1. Move(c, IF pc[c] \in Sending THEN "hear" ELSE "hearOpen",
                IF pc[c] = "sendOpen" THEN "send" ELSE pc[c]) /\ content' = content /\ got' = got
    BY <1>1, Opens DEF StartServer, OpenToHear
  <2>2. Sole(c)' /\ pc'[Server] = (IF pc[c] \in Sending THEN "hear" ELSE "hearOpen")
        /\ pc'[c] = (IF pc[c] = "sendOpen" THEN "send" ELSE pc[c])
    BY <2>1, Moves
  <2>3. (Arriving(c) \/ Replied(c) \/ Told(c)) /\ pc[Server] = "away"
    BY <1>1 DEF StartServer, Exchange, Arriving, Asking, Asked, Taken, Replying, Replied, Told
  <2>4. Asking(c)' \/ Replied(c)' \/ Told(c)'
    BY <2>1, <2>2, <2>3 DEF Arriving, Replied, Told, Asking, Carrying, Drained
  <2> QED
    BY <2>2, <2>4 DEF Exchange
<1>2. CASE Turn(Server)
  <2>1. Move(c, IF pc[c] \in Hearing THEN "send" ELSE "sendOpen",
                IF pc[c] = "hearOpen" THEN "hear" ELSE pc[c]) /\ content' = content /\ got' = got
    BY <1>2, Opens DEF Turn, OpenToSend
  <2>2. Sole(c)' /\ pc'[Server] = (IF pc[c] \in Hearing THEN "send" ELSE "sendOpen")
        /\ pc'[c] = (IF pc[c] = "hearOpen" THEN "hear" ELSE pc[c])
    BY <2>1, Moves
  <2>3. Taken(c)
    BY <1>2 DEF Turn, Exchange, Arriving, Asking, Asked, Taken, Replying, Replied, Told
  <2>4. Taken(c)' \/ Replying(c)'
    BY <1>2, <2>1, <2>2, <2>3 DEF Taken, Replying, Turn, Drained
  <2> QED
    BY <2>2, <2>4 DEF Exchange
<1>3. CASE Write(Server)
  <2>1. Replying(c)
    BY <1>3 DEF Write, Exchange, Arriving, Asking, Asked, Taken, Replying, Replied, Told
  <2>2. Readers("serverToClient") = {c}
    BY <2>1, Sides DEF Replying
  <2>3. /\ pc' = [pc EXCEPT ![Server] = "sent"] /\ got' = got
        /\ content' = [content EXCEPT !["serverToClient"] = Append(@, {c})]
    BY <1>0, <1>3, <2>1, <2>2 DEF Write, Text, Replying
  <2>4. Move(c, "sent", pc[c])
    BY <1>0, <2>3 DEF Move, TypeOK
  <2>5. content' = Carrying("serverToClient", c)
    BY <2>1, <2>3 DEF Replying, Drained, Carrying, Fifos
  <2> QED
    BY <2>1, <2>4, <2>5, Moves DEF Exchange, Replying, Replied
<1>4. CASE CloseSent(Server)
  <2>1. (Arriving(c) \/ Replied(c) \/ Told(c)) /\ pc[Server] = "sent"
    BY <1>4 DEF CloseSent, Exchange, Arriving, Asking, Asked, Taken, Replying, Replied, Told
  <2>2. content = Drained \/ Readers("serverToClient") \cup Writers("serverToClient") # {Server}
    BY <1>0, <2>1, Sides DEF Arriving, Replied, Told
  <2>3. content' = content /\ got' = got /\ pc' = [pc EXCEPT ![Server] = "away"]
    BY <1>0, <1>4, <2>2, Closes DEF CloseSent
  <2>4. Move(c, "away", pc[c])
    BY <1>0, <2>3 DEF Move, TypeOK
  <2>5. Sole(c)' /\ pc'[Server] = "away" /\ pc'[c] = pc[c]
    BY <2>4, Moves
  <2>6. Arriving(c)' \/ Replied(c)' \/ Told(c)'
    BY <2>1, <2>3, <2>5 DEF Arriving, Replied, Told, Carrying, Drained
  <2> QED
    BY <2>5, <2>6 DEF Exchange
<1>5. CASE Read(Server)
  <2>1. (Asking(c) \/ Asked(c)) /\ pc[Server] = "hear"
    BY <1>5 DEF Read, Exchange, Arriving, Asking, Asked, Taken, Replying, Replied, Told
  <2>2. ~Asking(c)
    <3> SUFFICES ASSUME Asking(c) PROVE FALSE
      OBVIOUS
    <3>1. Writers("clientToServer") = {c}
      BY Sides DEF Asking
    <3> QED
      BY <1>0, <1>5, <3>1 DEF Read, Asking, Drained, Fifos
  <2>3. content["clientToServer"] = <<{c}>>
    BY <2>1, <2>2 DEF Asked, Carrying, Drained, Fifos
  <2>4. UNION ToSet(<<{c}>>) = {c}
    BY DEF ToSet
  <2>5. pc' = [pc EXCEPT ![Server] = "heard"] /\ got'[Server] = {c}
        /\ content' = [content EXCEPT !["clientToServer"] = <<>>]
    BY <1>0, <1>5, <2>3, <2>4 DEF Read, TypeOK
  <2>6. content' = Drained
    BY <2>1, <2>2, <2>5 DEF Asked, Carrying, Drained, Fifos
  <2>7. Move(c, "heard", pc[c])
    BY <1>0, <2>5 DEF Move, TypeOK
  <2>8. Sole(c)' /\ pc'[Server] = "heard" /\ pc'[c] = pc[c]
    BY <2>7, Moves
  <2>9. Taken(c)'
    BY <2>1, <2>2, <2>5, <2>6, <2>8 DEF Asked, Taken, Drained
  <2> QED
    BY <2>8, <2>9 DEF Exchange
<1>6. CASE CloseHeard(Server)
  <2>1. Taken(c) /\ pc[Server] = "heard"
    BY <1>6 DEF CloseHeard, Exchange, Arriving, Asking, Asked, Taken, Replying, Replied, Told
  <2>2. content' = content /\ got' = got /\ pc' = [pc EXCEPT ![Server] = "turn"]
    BY <1>0, <1>6, <2>1, Closes DEF CloseHeard, Taken
  <2>3. Move(c, "turn", pc[c])
    BY <1>0, <2>2 DEF Move, TypeOK
  <2> QED
    BY <2>1, <2>2, <2>3, Moves DEF Exchange, Taken, Drained
<1>7. ~Die(Server)
  BY DEF Die, Exchange, Arriving, Asking, Asked, Taken, Replying, Replied, Told
<1> QED
  BY <1>1, <1>2, <1>3, <1>4, <1>5, <1>6, <1>7 DEF ProgramStep

\* So do the client's, and at the end there is nobody for the server.
LEMMA ClientInExchange ==
    ASSUME TypeOK, NEW c \in Clients, Sole(c), Exchange(c), ProgramStep(c)
    PROVE  /\ Sole(c)'
           /\ \/ Exchange(c)'
              \/ /\ pc'[c] = "away" /\ content' = Drained
                 /\ pc'[Server] \in {"away", "sent", "hearOpen"}
<1>0. /\ c # Server /\ c \in Programs /\ Server \in Programs
      /\ In(c) = "serverToClient" /\ Out(c) = "clientToServer"
      /\ In(c) \in Fifos /\ Out(c) \in Fifos
  BY FifoAssumption DEF Programs, In, Out, Fifos
<1> USE DEF At, Hearing, Sending
<1>1. CASE Turn(c)
  <2>1. Move(c, IF pc[Server] = "sendOpen" THEN "send" ELSE pc[Server],
                IF pc[Server] \in Sending THEN "hear" ELSE "hearOpen")
        /\ content' = content /\ got' = got
    BY <1>0, <1>1, Opens DEF Turn, OpenToHear
  <2>2. Sole(c)' /\ pc'[Server] = (IF pc[Server] = "sendOpen" THEN "send" ELSE pc[Server])
        /\ pc'[c] = (IF pc[Server] \in Sending THEN "hear" ELSE "hearOpen")
    BY <2>1, Moves
  <2>3. (Asked(c) \/ Taken(c)) /\ pc[c] = "turn"
    BY <1>1 DEF Turn, Exchange, Arriving, Asking, Asked, Taken, Replying, Replied, Told
  <2>4. Asked(c)' \/ Taken(c)' \/ Replying(c)'
    BY <2>1, <2>2, <2>3 DEF Asked, Taken, Replying, Carrying, Drained
  <2> QED
    BY <2>2, <2>4 DEF Exchange
<1>2. CASE Write(c)
  <2>1. Asking(c)
    BY <1>2 DEF Write, Exchange, Arriving, Asking, Asked, Taken, Replying, Replied, Told
  <2>2. Readers("clientToServer") = {Server}
    BY <2>1, Sides DEF Asking
  <2>3. /\ pc' = [pc EXCEPT ![c] = "sent"] /\ got' = got
        /\ content' = [content EXCEPT !["clientToServer"] = Append(@, {c})]
    BY <1>0, <1>2, <2>1, <2>2 DEF Write, Text, Asking
  <2>4. Move(c, pc[Server], "sent")
    BY <1>0, <2>3 DEF Move, TypeOK
  <2>5. content' = Carrying("clientToServer", c)
    BY <2>1, <2>3 DEF Asking, Drained, Carrying, Fifos
  <2>6. Sole(c)' /\ pc'[Server] = pc[Server] /\ pc'[c] = "sent"
    BY <2>4, Moves
  <2>7. Asked(c)'
    BY <2>1, <2>5, <2>6 DEF Asking, Asked, Carrying
  <2> QED
    BY <2>6, <2>7 DEF Exchange
<1>3. CASE CloseSent(c)
  <2>1. (Asked(c) \/ Taken(c)) /\ pc[c] = "sent"
    BY <1>3 DEF CloseSent, Exchange, Arriving, Asking, Asked, Taken, Replying, Replied, Told
  <2>2. content = Drained \/ Readers("clientToServer") \cup Writers("clientToServer") # {c}
    BY <1>0, <2>1, Sides DEF Asked, Taken
  <2>3. content' = content /\ got' = got /\ pc' = [pc EXCEPT ![c] = "turn"]
    BY <1>0, <1>3, <2>2, Closes DEF CloseSent
  <2>4. Move(c, pc[Server], "turn")
    BY <1>0, <2>3 DEF Move, TypeOK
  <2>5. Sole(c)' /\ pc'[Server] = pc[Server] /\ pc'[c] = "turn"
    BY <2>4, Moves
  <2>6. Asked(c)' \/ Taken(c)'
    BY <2>1, <2>3, <2>5 DEF Asked, Taken, Carrying, Drained
  <2> QED
    BY <2>5, <2>6 DEF Exchange
<1>4. CASE Read(c)
  <2>1. (Replying(c) \/ Replied(c)) /\ pc[c] = "hear"
    BY <1>4 DEF Read, Exchange, Arriving, Asking, Asked, Taken, Replying, Replied, Told
  <2>2. ~Replying(c)
    <3> SUFFICES ASSUME Replying(c) PROVE FALSE
      OBVIOUS
    <3>1. Writers("serverToClient") = {Server}
      BY Sides DEF Replying
    <3> QED
      BY <1>0, <1>4, <3>1 DEF Read, Replying, Drained, Fifos
  <2>3. content["serverToClient"] = <<{c}>>
    BY <2>1, <2>2 DEF Replied, Carrying, Drained, Fifos
  <2>4. UNION ToSet(<<{c}>>) = {c}
    BY DEF ToSet
  <2>5. pc' = [pc EXCEPT ![c] = "heard"] /\ got'[c] = {c}
        /\ content' = [content EXCEPT !["serverToClient"] = <<>>]
    BY <1>0, <1>4, <2>3, <2>4 DEF Read, TypeOK
  <2>6. content' = Drained
    BY <2>1, <2>2, <2>5 DEF Replied, Carrying, Drained, Fifos
  <2>7. Move(c, pc[Server], "heard")
    BY <1>0, <2>5 DEF Move, TypeOK
  <2>8. Sole(c)' /\ pc'[Server] = pc[Server] /\ pc'[c] = "heard"
    BY <2>7, Moves
  <2>9. Told(c)'
    BY <2>1, <2>2, <2>5, <2>6, <2>8 DEF Replied, Told, Drained
  <2> QED
    BY <2>8, <2>9 DEF Exchange
<1>5. CASE CloseHeard(c)
  <2>1. Told(c)
    BY <1>5 DEF CloseHeard, Exchange, Arriving, Asking, Asked, Taken, Replying, Replied, Told
  <2>2. content' = content /\ got' = got /\ pc' = [pc EXCEPT ![c] = "away"]
    BY <1>0, <1>5, <2>1, Closes DEF CloseHeard, Told
  <2>3. Move(c, pc[Server], "away")
    BY <1>0, <2>2 DEF Move, TypeOK
  <2> QED
    BY <2>1, <2>2, <2>3, Moves DEF Told
<1>6. ~Die(c)
  BY DEF Die, Exchange, Arriving, Asking, Asked, Taken, Replying, Replied, Told
<1> QED
  BY <1>1, <1>2, <1>3, <1>4, <1>5, <1>6 DEF ProgramStep

-----------------------------------------------------------------------------
(* One exchange at a time.                                                 *)

\* With no client there, the server can only close its FIFO and start again; the
\* client that comes begins an exchange.
LEMMA NobodySteps ==
    ASSUME TypeOK, NobodyThere, Next
    PROVE  NobodyThere' \/ \E c \in Clients : Sole(c)' /\ Exchange(c)'
<1>0. /\ Server \in Programs /\ Server \notin Clients /\ pc \in [Programs -> Stages]
      /\ In(Server) = "clientToServer" /\ Out(Server) = "serverToClient"
      /\ Out(Server) \in Fifos
      /\ \A c \in Clients : c \in Programs /\ pc[c] = "away" /\ Out(c) = "clientToServer"
  BY FifoAssumption DEF Programs, NobodyThere, Absent, In, Out, Fifos, TypeOK
<1>1. CASE StartServer
  <2>1. Writers("clientToServer") = {} /\ pc[Server] = "away"
    BY <1>0, <1>1 DEF Writers, StartServer, Programs
  <2>2. /\ pc'[Server] = "hearOpen" /\ content' = content
        /\ \A c \in Clients : pc'[c] = "away"
    BY <1>0, <1>1, <2>1 DEF StartServer, OpenToHear, LettingIn
  <2> QED
    BY <2>2 DEF NobodyThere, Absent, Drained
<1>2. ASSUME NEW c \in Clients, StartClient(c)
      PROVE  Sole(c)' /\ Exchange(c)'
  <2>1. Sole(c)
    BY DEF NobodyThere, Sole
  <2>2. content' = content
        /\ Move(c, IF pc[Server] = "hearOpen" THEN "hear" ELSE pc[Server],
                   IF pc[Server] \in Hearing THEN "send" ELSE "sendOpen")
    BY <1>2, <2>1, Opens DEF StartClient, OpenToSend
  <2>3. Sole(c)' /\ pc'[Server] = (IF pc[Server] = "hearOpen" THEN "hear" ELSE pc[Server])
        /\ pc'[c] = (IF pc[Server] \in Hearing THEN "send" ELSE "sendOpen")
    BY <2>1, <2>2, Moves
  <2>4. Arriving(c)' \/ Asking(c)'
    BY <2>2, <2>3 DEF NobodyThere, Hearing, Arriving, Asking, At, Drained
  <2> QED
    BY <2>3, <2>4 DEF Exchange
<1>3. CASE ProgramStep(Server)
  <2>1. CloseSent(Server)
    BY <1>3 DEF ProgramStep, Turn, Write, Die, Read, CloseHeard, NobodyThere
  <2>2. content' = content /\ pc' = [pc EXCEPT ![Server] = "away"]
    BY <1>0, <2>1, Closes DEF CloseSent, NobodyThere
  <2> QED
    BY <1>0, <2>2 DEF NobodyThere, Absent, Drained
<1>4. ASSUME NEW c \in Clients PROVE ~ProgramStep(c)
  BY <1>0 DEF ProgramStep, Turn, Write, CloseSent, Die, Read, CloseHeard
<1> QED
  BY <1>1, <1>2, <1>3, <1>4 DEF Next, Programs

\* Two clients at once end the exchange; when all is quiet again, nothing is
\* left in a FIFO of what they did.
LEMMA Quiet ==
    ASSUME TypeOK, ContentHeld', TypeOK', ~alone, alone', Next
    PROVE  NobodyThere'
<1>1. \A p \in Programs : pc'[p] = "away"
  BY DEF Next, StartServer, StartClient, ProgramStep, Turn, Write, CloseSent, Die, Read,
         CloseHeard, CloseFifo
<1>2. \A f \in Fifos : Readers(f)' \cup Writers(f)' = {}
  BY <1>1 DEF Readers, Writers
<1>3. content' = Drained
  BY <1>2 DEF ContentHeld, TypeOK, Drained
<1> QED
  BY <1>1, <1>3 DEF NobodyThere, Absent, Programs

LEMMA OneExchangeStep ==
    ASSUME IInv, TypeOK', ContentHeld', [Next]_vars
    PROVE  OneExchange'
<1> USE DEF IInv
<1>1. CASE UNCHANGED vars
  BY <1>1 DEF vars, OneExchange, NobodyThere, Absent, Sole, Exchange, At, Arriving, Asking, Asked,
              Taken, Replying, Replied, Told
<1>2. CASE Next /\ ~alone
  BY <1>2, Quiet DEF OneExchange, NobodyThere
<1>3. CASE Next /\ alone /\ NobodyThere
  BY <1>3, NobodySteps DEF OneExchange, NobodyThere
<1>4. ASSUME Next, alone, NEW c \in Clients, Sole(c), Exchange(c)
      PROVE  OneExchange'
  <2>1. \A d \in Clients \ {c} : pc[d] = "away"
    BY <1>4 DEF Sole, Absent
  <2>2. pc[c] # "away"
    BY <1>4 DEF Exchange, At, Arriving, Asking, Asked, Taken, Replying, Replied, Told
  <2>3. CASE StartServer \/ ProgramStep(Server)
    BY <1>4, <2>3, ServerInExchange DEF OneExchange
  <2>4. ASSUME NEW d \in Clients, StartClient(d)
        PROVE  ~alone'
    BY <2>2, <2>4 DEF StartClient
  <2>5. CASE ProgramStep(c)
    <3>1. Sole(c)' /\ (pc'[c] = "away" => Absent' = Clients)
      BY <1>4, <2>5, ClientInExchange DEF Sole, Absent
    <3> QED
      BY <1>4, <2>5, <3>1, ClientInExchange DEF OneExchange, NobodyThere
  <2>6. ASSUME NEW d \in Clients \ {c} PROVE ~ProgramStep(d)
    BY <2>1 DEF ProgramStep, Turn, Write, CloseSent, Die, Read, CloseHeard
  <2> QED
    BY <1>4, <2>3, <2>4, <2>5, <2>6 DEF Next, Programs, OneExchange
<1> QED
  BY <1>1, <1>2, <1>3, <1>4 DEF OneExchange, NobodyThere

-----------------------------------------------------------------------------
(* Theorems.                                                               *)

LEMMA Invariance == Spec => []IInv
<1>1. Init => IInv
  <2> SUFFICES ASSUME Init PROVE IInv
    OBVIOUS
  <2>1. TypeOK /\ ContentHeld
    BY EmptySeq DEF Init, TypeOK, Stages, ContentHeld, Fifos
  <2>2. NobodyThere
    BY DEF Init, NobodyThere, Absent, Drained, Programs
  <2> QED
    BY <2>1, <2>2 DEF IInv, OneExchange, NobodyThere
<1>2. IInv /\ [Next]_vars => IInv'
  BY NextType, NextHeld, OneExchangeStep DEF IInv
<1> QED
  BY <1>1, <1>2, PTL DEF Spec

\* The variables of the FIFO programs keep to their types.
THEOREM TypeCorrect == Spec => []TypeOK
<1>1. IInv => TypeOK
  BY DEF IInv
<1> QED
  BY <1>1, Invariance, PTL

\* A client that runs alone reads the reply to its own message, of a server
\* that may have closed its FIFO or started again meanwhile.
THEOREM RepliesTrue == Spec => []ReplyTrue
<1>1. IInv => ReplyTrue
  <2> SUFFICES ASSUME IInv, NEW c \in Clients, alone, pc[c] = "heard"
               PROVE  got[c] = {c}
    BY DEF ReplyTrue
  <2>1. PICK d \in Clients : Sole(d) /\ Exchange(d)
    BY DEF IInv, OneExchange, NobodyThere, Absent
  <2>2. c = d
    BY <2>1 DEF Sole, Absent
  <2> QED
    BY <2>1, <2>2 DEF Exchange, At, Arriving, Asking, Asked, Taken, Replying, Replied, Told
<1> QED
  BY <1>1, Invariance, PTL

\* As long as clients run one after another, no program writes to a FIFO that
\* nobody reads.
THEOREM NeverKilled == Spec => []NobodyKilled
<1>1. IInv => NobodyKilled
  <2> SUFFICES ASSUME IInv, alone, NEW p \in Programs
               PROVE  pc[p] # "killed"
    BY DEF NobodyKilled
  <2>1. CASE Absent = Clients /\ pc[Server] # "killed"
    BY <2>1 DEF Absent, Programs
  <2>2. ASSUME NEW d \in Clients, Sole(d), Exchange(d)
        PROVE  pc[p] # "killed"
    <3>1. pc[Server] # "killed" /\ pc[d] # "killed"
      BY <2>2 DEF Exchange, At, Arriving, Asking, Asked, Taken, Replying, Replied, Told
    <3> QED
      BY <2>2, <3>1 DEF Sole, Absent, Programs
  <2> QED
    BY <2>1, <2>2 DEF IInv, OneExchange, NobodyThere
<1> QED
  BY <1>1, Invariance, PTL
=============================================================================
