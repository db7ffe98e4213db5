------------------------------ MODULE MapRequests ------------------------------
(***************************************************************************)
(* The commands of the key-value servers of Sockets, which share one text  *)
(* protocol, and their responses.  Keys and values are words of a line;    *)
(* nothing depends on their characters.                                    *)
(***************************************************************************)
EXTENDS Naturals, FiniteSets

CONSTANTS Keys, Values,
          NoValue  \* a key the map does not hold

ASSUME MapAssumption == IsFiniteSet(Keys) /\ NoValue \notin Values

Stores == [Keys -> Values \cup {NoValue}]
EmptyStore == [k \in Keys |-> NoValue]
Size(map) == Cardinality({k \in Keys : map[k] # NoValue})

\* "invalid" stands for a line whose first word is no command, for one with
\* too few or too many words, and for the empty line.
Requests ==
    [op : {"put"}, key : Keys, value : Values] \cup
    [op : {"get", "delete"}, key : Keys] \cup
    [op : {"count", "quit", "invalid"}]

NoRequest == [op |-> "none"]

Ok == [kind |-> "ok"]
NotFound == [kind |-> "not found"]
Bye == [kind |-> "bye"]
Error == [kind |-> "error"]
NoReply == [kind |-> "none"]
ValueReply(v) == [kind |-> "value", value |-> v]
CountReply(n) == [kind |-> "count", count |-> n]

Replies == {Ok, NotFound, Bye, Error} \cup [kind : {"value"}, value : Values]
                                      \cup [kind : {"count"}, count : Nat]
=============================================================================
