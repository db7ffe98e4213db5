---------------------------- MODULE MCFifoExchange ----------------------------
(***************************************************************************)
(* A small instance of FifoExchange for TLC.                               *)
(***************************************************************************)
EXTENDS FifoExchange
CONSTANTS a, b
TwoClients == {a, b}
=============================================================================
