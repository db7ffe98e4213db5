------------------------------- MODULE Turnstile -------------------------------
(***************************************************************************)
(* What the echo server promises of its limit: a turnstile.  Whoever comes *)
(* is let in while there is room, and turned away only when there is none; *)
(* and whoever is inside and asks is told how many were inside at one      *)
(* moment while the question stood.                                        *)
(***************************************************************************)
EXTENDS Integers, FiniteSets

CONSTANTS Clients, Limit

VARIABLES inside,  \* who has been let in
          turned,  \* who is being turned away
          noted,   \* per client: the number that is to answer its question, or none
          report   \* per client: the number it is told and has not heard, or none

tvars == <<inside, turned, noted, report>>

None == -1
NoNumbers == [c \in Clients |-> None]
Present == inside \cup turned

Enter(c) ==
    /\ c \notin Present /\ Cardinality(inside) < Limit
    /\ inside' = inside \cup {c}
    /\ UNCHANGED <<turned, noted, report>>

TurnAway(c) ==
    /\ c \notin Present /\ Cardinality(inside) = Limit
    /\ turned' = turned \cup {c}
    /\ UNCHANGED <<inside, noted, report>>

\* Its own number is not under way when a client goes.
Exit(c) ==
    /\ c \in Present /\ noted[c] = None
    /\ inside' = inside \ {c} /\ turned' = turned \ {c}
    /\ UNCHANGED <<noted, report>>

\* The numbers are those of one question at a time.
Note(c) ==
    /\ c \in inside /\ noted[c] = None /\ report[c] = None
    /\ noted' = [noted EXCEPT ![c] = Cardinality(inside)]
    /\ UNCHANGED <<inside, turned, report>>

\* The number is told, or was not what the client asked for.
Tell(c) ==
    /\ noted[c] # None
    /\ noted' = [noted EXCEPT ![c] = None]
    /\ report' \in {report, [report EXCEPT ![c] = noted[c]]}
    /\ UNCHANGED <<inside, turned>>

\* The client hears it, or leaves without.
Hear(c) ==
    /\ report[c] # None
    /\ report' = [report EXCEPT ![c] = None]
    /\ UNCHANGED <<inside, turned, noted>>

TInit == inside = {} /\ turned = {} /\ noted = NoNumbers /\ report = NoNumbers

TNext == \E c \in Clients : \/ Enter(c) \/ TurnAway(c) \/ Exit(c)
                            \/ Note(c) \/ Tell(c) \/ Hear(c)

TurnstileSpec == TInit /\ [][TNext]_tvars
=============================================================================
