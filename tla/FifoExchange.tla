----------------------------- MODULE FifoExchange -----------------------------
(***************************************************************************)
(* The programs of IPC/fifo-server and IPC/fifo-client, run again and      *)
(* again at their terminals: one server, any number of clients, and two    *)
(* FIFOs, one for the messages of the clients and one for the replies of   *)
(* the server.  The FIFOs are there: a server has run before.              *)
(*                                                                         *)
(* Both programs open one FIFO, use it once, close it, and go on to the    *)
(* other; the server hears and then sends, a client sends and then hears.  *)
(* An open waits until the other end is open, or is being opened, too.     *)
(***************************************************************************)
EXTENDS Naturals, Sequences, SequencesExt

CONSTANTS Clients, Server,
          MaxUnread   \* bound: with so many messages unread in a FIFO nobody starts

ASSUME FifoAssumption == Server \notin Clients

Programs == Clients \cup {Server}
Fifos == {"clientToServer", "serverToClient"}

VARIABLES pc,      \* per program: where it is
          content, \* per FIFO: what was written and not read
          got,     \* per program: the clients its last read names
          alone    \* ghost: no two clients have run at once since all was quiet

vars == <<pc, content, got, alone>>

\* "turn" is between the two FIFOs; a "killed" program still has its FIFO open.
Stages == {"away", "turn", "killed", "sendOpen", "send", "sent", "hearOpen", "hear", "heard"}

\* A message names its client; the reply, those whose messages it answers.
TypeOK ==
    /\ pc \in [Programs -> Stages]
    /\ content \in [Fifos -> Seq(SUBSET Clients)]
    /\ got \in [Programs -> SUBSET Clients]
    /\ alone \in BOOLEAN

-----------------------------------------------------------------------------
(* FIFOs.                                                                  *)

\* Mutant: the server replies on the FIFO it was written to on.
OutSame(p) == "clientToServer"
Out(p) == IF p = Server THEN "serverToClient" ELSE "clientToServer"
In(p) == IF p = Server THEN "clientToServer" ELSE "serverToClient"

\* A program that waits in open() counts: the kernel has entered it.
Writers(f) == {p \in Programs : Out(p) = f /\ pc[p] \in {"sendOpen", "send", "sent", "killed"}}
Readers(f) == {p \in Programs : In(p) = f /\ pc[p] \in {"hearOpen", "hear", "heard"}}

\* Opening one end lets in those that wait at the other.
LettingIn(qs, place, next) ==
    [q \in Programs |-> IF q \in qs /\ pc[q] = place THEN next ELSE pc[q]]

OpenToSend(p) ==
    /\ pc' = [LettingIn(Readers(Out(p)), "hearOpen", "hear")
                 EXCEPT ![p] = IF Readers(Out(p)) # {} THEN "send" ELSE "sendOpen"]
    /\ UNCHANGED <<content, got>>

OpenToHear(p) ==
    /\ pc' = [LettingIn(Writers(In(p)), "sendOpen", "send")
                 EXCEPT ![p] = IF Writers(In(p)) # {} THEN "hear" ELSE "hearOpen"]
    /\ UNCHANGED <<content, got>>

\* What nobody has read when the last end is closed is lost.
CloseFifo(p, f, next) ==
    /\ pc' = [pc EXCEPT ![p] = next]
    /\ content' = IF Readers(f) \cup Writers(f) = {p} THEN [content EXCEPT ![f] = <<>>] ELSE content
    /\ alone' = (alone \/ \A q \in Programs : pc'[q] = "away")
    /\ UNCHANGED got

-----------------------------------------------------------------------------
(* The programs.                                                           *)

Text(p) == IF p = Server THEN got[p] ELSE {p}

Uncrowded == \A f \in Fifos : Len(content[f]) < MaxUnread

StartServer ==
    /\ pc[Server] = "away" /\ Uncrowded
    /\ OpenToHear(Server)
    /\ UNCHANGED alone

StartClient(c) ==
    /\ pc[c] = "away" /\ Uncrowded
    /\ OpenToSend(c)
    /\ alone' = (alone /\ \A d \in Clients : pc[d] = "away")

\* The second open.
Turn(p) ==
    /\ pc[p] = "turn" /\ UNCHANGED alone
    /\ IF p = Server THEN OpenToSend(p) ELSE OpenToHear(p)

\* A write that nobody can read any more kills its program (SIGPIPE).
Write(p) ==
    /\ pc[p] = "send"
    /\ IF Readers(Out(p)) # {}
       THEN /\ pc' = [pc EXCEPT ![p] = "sent"]
            /\ content' = [content EXCEPT ![Out(p)] = Append(@, Text(p))]
       ELSE /\ pc' = [pc EXCEPT ![p] = "killed"]
            /\ UNCHANGED content
    /\ UNCHANGED <<got, alone>>

CloseSent(p) ==
    /\ pc[p] = "sent"
    /\ CloseFifo(p, Out(p), IF p = Server THEN "away" ELSE "turn")

\* The only death that is modelled: users let their programs wait.
Die(p) == pc[p] = "killed" /\ CloseFifo(p, Out(p), "away")

\* Mutant: the descriptor does not block, so the read returns whatever is there.
ReadAtOnce(p) ==
    /\ pc[p] = "hear" /\ pc' = [pc EXCEPT ![p] = "heard"]
    /\ got' = [got EXCEPT ![p] = UNION ToSet(content[In(p)])]
    /\ content' = [content EXCEPT ![In(p)] = <<>>]
    /\ UNCHANGED alone

\* All that is there, or nothing if all writers have closed.
Read(p) ==
    /\ content[In(p)] # <<>> \/ Writers(In(p)) = {}
    /\ pc[p] = "hear" /\ pc' = [pc EXCEPT ![p] = "heard"]
    /\ got' = [got EXCEPT ![p] = UNION ToSet(content[In(p)])]
    /\ content' = [content EXCEPT ![In(p)] = <<>>]
    /\ UNCHANGED alone

CloseHeard(p) ==
    /\ pc[p] = "heard"
    /\ CloseFifo(p, In(p), IF p = Server THEN "turn" ELSE "away")

ProgramStep(p) == Turn(p) \/ Write(p) \/ CloseSent(p) \/ Die(p) \/ Read(p) \/ CloseHeard(p)

Init ==
    /\ pc = [p \in Programs |-> "away"]
    /\ content = [f \in Fifos |-> <<>>]
    /\ got = [p \in Programs |-> {}]
    /\ alone = TRUE

Next ==
    \/ StartServer
    \/ \E c \in Clients : StartClient(c)
    \/ \E p \in Programs : ProgramStep(p)

Spec == Init /\ [][Next]_vars

\* A program that is not waiting goes on.
FairSpec == Spec /\ \A p \in Programs : WF_vars(ProgramStep(p))

-----------------------------------------------------------------------------
(* Properties.  They are promises to clients that run one after another:   *)
(* two at once may take each other's reply, and more.                      *)

\* "The server received your message": the reply a client reads answers its
\* own message, and it does get one.
ReplyTrue == \A c \in Clients : alone /\ pc[c] = "heard" => got[c] = {c}

\* Nobody writes to a FIFO that has lost its reader.
NobodyKilled == alone => \A p \in Programs : pc[p] # "killed"

\* A client and a server that have let each other in finish the exchange.
LetIn(p) == pc[p] \notin {"away", IF p = Server THEN "hearOpen" ELSE "sendOpen"}
ExchangeEnds == \A p \in Programs : alone /\ LetIn(p) ~> ~alone \/ pc[p] = "away"

-----------------------------------------------------------------------------
(* The inductive invariant behind the safety properties.                   *)

\* What is in a FIFO, somebody has that FIFO open.
ContentHeld == \A f \in Fifos : content[f] = <<>> \/ Readers(f) \cup Writers(f) # {}

Drained == [f \in Fifos |-> <<>>]
Carrying(f, c) == [Drained EXCEPT ![f] = <<{c}>>]
At(c, places, clientPlaces) == pc[Server] \in places /\ pc[c] \in clientPlaces

\* An exchange of the server with client c, phase by phase.  The server may have
\* closed its FIFO, or even be back for the next client, before c has read.
Arriving(c) == At(c, {"away", "sent"}, {"sendOpen"}) /\ content = Drained
Asking(c) == At(c, {"hear"}, {"send"}) /\ content = Drained
Asked(c) == At(c, {"hear"}, {"sent", "turn", "hearOpen"}) /\ content = Carrying("clientToServer", c)
Taken(c) ==
    /\ At(c, {"heard", "turn"}, {"sent", "turn", "hearOpen"}) \/ At(c, {"sendOpen"}, {"sent", "turn"})
    /\ content = Drained /\ got[Server] = {c}
Replying(c) == At(c, {"send"}, {"hear"}) /\ content = Drained /\ got[Server] = {c}
Replied(c) == At(c, {"sent", "away", "hearOpen"}, {"hear"}) /\ content = Carrying("serverToClient", c)
Told(c) == At(c, {"sent", "away", "hearOpen"}, {"heard"}) /\ content = Drained /\ got[c] = {c}

Exchange(c) == Arriving(c) \/ Asking(c) \/ Asked(c) \/ Taken(c) \/ Replying(c) \/ Replied(c) \/ Told(c)

Absent == {c \in Clients : pc[c] = "away"}
Sole(c) == Clients \ {c} \subseteq Absent

NobodyThere ==
    Absent = Clients /\ content = Drained /\ pc[Server] \in {"away", "sent", "hearOpen"}

\* While no two clients run at once, there is nobody for the server, or one
\* client in some phase of its exchange.
OneExchange == alone => NobodyThere \/ \E c \in Clients : Sole(c) /\ Exchange(c)

IInv == TypeOK /\ ContentHeld /\ OneExchange
=============================================================================
