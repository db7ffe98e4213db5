----------------------------- MODULE MCDiscovery -----------------------------
(***************************************************************************)
(* Small instances of Discovery for TLC.                                   *)
(***************************************************************************)
EXTENDS Discovery

CONSTANTS list, a, h1, h2

OneService == {list}
OneServer == {a}

\* The process has an identifier of its own, and one of the two endpoints.
Itself == [p \in Servers |-> p]
HostOfEach == [p \in Servers |-> h1]
TwoHosts == {h1, h2}
=============================================================================
