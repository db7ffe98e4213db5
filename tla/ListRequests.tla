----------------------------- MODULE ListRequests -----------------------------
(***************************************************************************)
(* The requests of the list server (Discovery/list-server-binary), their   *)
(* arguments and their responses.  A value is a string; nothing depends on *)
(* its characters.  Indices count from 0, as they do on the wire.          *)
(***************************************************************************)
EXTENDS Integers, Sequences, SequencesExt

CONSTANTS Values,     \* the strings a request may carry
          Arguments,  \* the 32-bit integers a request may carry
          MaxCount    \* the largest 32-bit integer

ASSUME RequestAssumption ==
    /\ Arguments \subseteq Int
    /\ MaxCount \in Nat

\* "malformed" stands for a request whose arguments are cut short or followed
\* by more bytes, and for an unknown opcode.
Requests ==
    [op : {"push"}, value : Values] \cup
    [op : {"pop", "count", "clear", "quit", "malformed"}] \cup
    [op : {"insert", "set"}, index : Arguments, value : Values] \cup
    [op : {"remove", "get"}, index : Arguments] \cup
    [op : {"swap"}, index : Arguments, other : Arguments]

NoRequest == [op |-> "none"]

Ok == [kind |-> "ok"]
NoReply == [kind |-> "none"]
Bye == [kind |-> "bye"]
Error == [kind |-> "error"]
ValueReply(v) == [kind |-> "value", value |-> v]
Replies == {Ok, Bye, Error} \cup [kind : {"value"}, value : Values]
                            \cup [kind : {"count"}, count : 0..MaxCount]

\* buildCountResponse: a count that does not fit its field is an error.
CountReply(n) == IF n > MaxCount THEN Error ELSE [kind |-> "count", count |-> n]

\* What a handler refuses before it looks at the list.
Malformed(r) ==
    \/ r.op = "malformed"
    \/ r.op \in {"insert", "set", "remove", "get", "swap"} /\ r.index < 0
    \/ r.op = "swap" /\ r.other < 0

\* What a handler refuses once it sees the list: an index at or past the end,
\* which for insert may be the end itself.
OutOfRange(r, list) ==
    \/ r.op = "pop" /\ list = <<>>
    \/ r.op = "insert" /\ r.index > Len(list)
    \/ r.op \in {"remove", "get", "set", "swap"} /\ r.index >= Len(list)
    \/ r.op = "swap" /\ r.other >= Len(list)

Swapped(list, i, j) == [list EXCEPT ![i] = list[j], ![j] = list[i]]
=============================================================================
