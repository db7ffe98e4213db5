---------------------------- MODULE MCRemoteStore ----------------------------
(***************************************************************************)
(* A small instance of RemoteStore for TLC: one client beside the programs *)
(* that OtherPuts and handleDeleteRequest stand for.                       *)
(***************************************************************************)
EXTENDS RemoteStore

CONSTANTS a, k, l, v, w

OneClient == {a}
TwoKeys == {k, l}
TwoValues == {v, w}
=============================================================================
