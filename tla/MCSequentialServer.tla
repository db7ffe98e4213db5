-------------------------- MODULE MCSequentialServer --------------------------
(***************************************************************************)
(* A small instance of SequentialServer for TLC.                           *)
(***************************************************************************)
EXTENDS SequentialServer

CONSTANTS a, b, k, l, v

TwoClients == {a, b}
TwoKeys == {k, l}
OneValue == {v}
=============================================================================
